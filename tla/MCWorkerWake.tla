----------------------------- MODULE MCWorkerWake -----------------------------
(* Small instances of WorkerWake for TLC. *)
EXTENDS WorkerWake

(* Two uploads that race for the lease; an activation behind a focus, with    *)
(* input behind both; input in a row; input behind a command that a half-read *)
(* surface fences.                                                           *)
MixesAround ==
  {<<"image", "image", "none">>, <<"request", "request", "input">>,
   <<"input", "input", "input">>, <<"plain", "input", "none">>}

(* Input alone, for the comment on stop. *)
MixesOfInput == {<<"input">>}
====
