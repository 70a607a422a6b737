--------------------------- MODULE MCCommandPipeline ---------------------------
(* Small instances of CommandPipeline for TLC. *)
EXTENDS CommandPipeline

(* Navigation: focus and activation with input and other requests around. *)
NavigationKinds == {"focus", "activate", "call", "input"}

(* Navigation beside an image, whose frame may reach the wire in pieces.    *)
AllKinds == NavigationKinds \cup {"image"}

(* What may keep a request waiting: another request, an image, a half-read  *)
(* frame, input written in pieces.                                          *)
SettleKinds == {"focus", "activate", "image", "input"}
====
