---------------------------- MODULE AgentCapsProofs ----------------------------
(***************************************************************************)
(* Proofs about AgentCaps, for any agents, caps, days and faults.          *)
(***************************************************************************)
EXTENDS AgentCaps, SetSums

Places == {"new", "host", "cap", "reserve", "start", "record", "drop", "release", "over", "halted"}
Samples == [step : {"base", "update"}, agent : Agents, tokens : Nat, done : BOOLEAN]

Types ==
  /\ pc \in [Agents -> Places] /\ starting \in Nat /\ lock \in Agents \cup {None} /\ counted \in Nat
  /\ pane \in [Agents -> {"none", "working", "idle", "gone"}]
  /\ used \in [Agents -> Nat] /\ day \in 0..Days
  /\ row \in [Agents -> {"none", "live", "done"}]
  /\ tokens \in [Agents -> Nat] /\ started \in [Agents -> 0..Days]
  /\ base \in [Stamps -> Nat \cup {None}] /\ measured \in [Stamps -> Int]
  /\ todo \subseteq Agents /\ sampleDay \in 0..Days
  /\ sampled \in Samples \cup {None}

\* A thread is at the reservation while it holds the mutex.
Mutex == \A a \in Agents : pc[a] = "reserve" <=> lock = a

\* Slots counts the reservations held.
Slots == starting = Cardinality(Reserved)

\* What the holder of the mutex counted is not exceeded while it holds it: a
\* row is written by a thread that keeps its reservation.
Counted == lock # None => Cardinality(Live \ Reserved) <= counted

Cap == Types /\ Mutex /\ Slots /\ Counted /\ CapHolds

\* An agent runs only from its start on, and from then on has a row, is about
\* to get one or is lost track of.
Started ==
  /\ \A a \in Agents : pc[a] \in {"new", "host", "cap", "reserve", "start", "halted"} => pane[a] = "none"
  /\ \A a \in Agents : pane[a] # "none" => a \in strays \/ row[a] # "none" \/ pc[a] = "record"

\* The books of the sampler's day, agent by agent.
DayBooked ==
  \A a \in Agents :
    measured[<<a, sampleDay>>] =
      IF base[<<a, sampleDay>>] = None THEN 0 ELSE tokens[a] - base[<<a, sampleDay>>]

\* No book is opened for a day the sampler has not come to; the one it writes
\* in is open.
Books ==
  /\ sampleDay <= day
  /\ \A a \in Agents, d \in 0..Days : d > sampleDay => base[<<a, d>>] = None /\ measured[<<a, d>>] = 0
  /\ sampled # None /\ sampled.step = "update" => base[<<sampled.agent, sampleDay>>] # None

IInv == Cap /\ Started /\ DayBooked /\ Books

-----------------------------------------------------------------------------
(* Types. *)

\* What the sampler finds is a sample.
LEMMA FoundType ==
  ASSUME Types, NEW a \in Agents
  PROVE  Found(a) \subseteq Samples
<1>1. tokens[a] \in Nat /\ used[a] \in Nat
  BY DEF Types
<1> QED
  BY <1>1 DEF Found, Samples

\* Agents are finitely many, so each count of them is a number.
LEMMA SetsFinite ==
  /\ IsFiniteSet(Live) /\ IsFiniteSet(Reserved)
  /\ \A S \in SUBSET Agents : IsFiniteSet(S) /\ Cardinality(S) \in Nat
<1>1. \A S \in SUBSET Agents : IsFiniteSet(S)
  BY CapsAssumption, FS_Subset
<1>2. Live \subseteq Agents /\ Reserved \subseteq Agents
  BY DEF Live, Reserved
<1> QED
  BY <1>1, <1>2, FS_CardinalityType

\* Each step keeps the types.
LEMMA TypesSteps ==
  ASSUME Types, Slots, [Next]_vars
  PROVE  Types'
<1> DEFINE Others == UNCHANGED <<pane, used, day, row, tokens, started, base, measured, todo, sampleDay, sampled>>
<1> USE CapsAssumption
<1>1. ASSUME NEW a \in Agents, CheckScriptTokens(a) \/ CheckHostTokens(a) \/ StartFails(a)
      PROVE  Types'
  <2>1. \E x \in Places : pc' = [pc EXCEPT ![a] = x]
    BY <1>1 DEF CheckScriptTokens, CheckHostTokens, StartFails, Places
  <2>2. Others /\ UNCHANGED <<starting, lock, counted>>
    BY <1>1 DEF CheckScriptTokens, CheckHostTokens, StartFails, herdr, table, sampler
  <2> QED
    BY <2>1, <2>2 DEF Types
<1>2. ASSUME NEW a \in Agents, CountRows(a)
      PROVE  Types'
  <2>1. /\ pc' = [pc EXCEPT ![a] = "reserve"] /\ lock' = a /\ counted' = Cardinality(Live)
        /\ Others /\ UNCHANGED starting
    BY <1>2 DEF CountRows, herdr, table, sampler
  <2>2. Cardinality(Live) \in Nat
    BY SetsFinite, FS_CardinalityType
  <2>3. pc' \in [Agents -> Places]
    BY <2>1 DEF Types, Places
  <2> QED
    BY <2>1, <2>2, <2>3 DEF Types
<1>3. ASSUME NEW a \in Agents, Reserve(a)
      PROVE  Types'
  <2>1. /\ \E x \in {"start", "halted"} : pc' = [pc EXCEPT ![a] = x]
        /\ starting' \in {starting, starting + 1} /\ lock' = None /\ counted' = 0 /\ Others
    BY <1>3 DEF Reserve, herdr, table, sampler
  <2>2. pc' \in [Agents -> Places] /\ starting' \in Nat
    BY <2>1 DEF Types, Places
  <2> QED
    BY <2>1, <2>2 DEF Types
<1>4. ASSUME NEW a \in Agents, StartAgent(a) \/ StartUnheard(a)
      PROVE  Types'
  <2>1. /\ \E x \in {"record", "release"} : pc' = [pc EXCEPT ![a] = x]
        /\ pane' = [pane EXCEPT ![a] = "working"]
        /\ UNCHANGED <<starting, lock, counted, used, day, row, tokens, started, base, measured, todo, sampleDay,
                       sampled>>
    BY <1>4 DEF StartAgent, StartUnheard, table, sampler
  <2>2. pc' \in [Agents -> Places] /\ pane' \in [Agents -> {"none", "working", "idle", "gone"}]
    BY <2>1 DEF Types, Places
  <2> QED
    BY <2>1, <2>2 DEF Types
<1>5. ASSUME NEW a \in Agents, AddAgent(a)
      PROVE  Types'
  <2>1. /\ pc' = [pc EXCEPT ![a] = "drop"] /\ row' = [row EXCEPT ![a] = "live"]
        /\ started' = [started EXCEPT ![a] = day]
        /\ UNCHANGED <<starting, lock, counted, pane, used, day, tokens, base, measured, todo, sampleDay, sampled>>
    BY <1>5 DEF AddAgent, herdr, sampler
  <2>2. pc' \in [Agents -> Places] /\ row' \in [Agents -> {"none", "live", "done"}]
        /\ started' \in [Agents -> 0..Days]
    BY <2>1 DEF Types, Places
  <2> QED
    BY <2>1, <2>2 DEF Types
<1>6. ASSUME NEW a \in Agents, AddAgentFails(a)
      PROVE  Types'
  <2>1. pc' = [pc EXCEPT ![a] = "release"] /\ Others /\ UNCHANGED <<starting, lock, counted>>
    BY <1>6 DEF AddAgentFails, herdr, table, sampler
  <2> QED
    BY <2>1 DEF Types, Places
<1>7. ASSUME NEW a \in Agents, DropReservation(a)
      PROVE  Types'
  <2>0. starting # 0
    <3>1. a \in Reserved
      BY <1>7 DEF DropReservation, Drops, Reserved
    <3> QED
      BY <3>1, SetsFinite, FS_EmptySet DEF Slots
  <2>1. /\ pc' = [pc EXCEPT ![a] = "over"] /\ starting' = starting - 1 /\ Others
        /\ UNCHANGED <<lock, counted>>
    BY <1>7 DEF DropReservation, Freed, herdr, table, sampler
  <2>2. pc' \in [Agents -> Places] /\ starting' \in Nat
    BY <2>0, <2>1 DEF Types, Places
  <2> QED
    BY <2>1, <2>2 DEF Types
<1>8. ASSUME Serve \/ BeginSample
      PROVE  Types'
  <2>1. /\ todo' = todo \/ todo' = Live
        /\ sampleDay' = sampleDay \/ sampleDay' = day
        /\ UNCHANGED <<thread, herdr, table, sampled, measured>>
    BY <1>8 DEF Serve, BeginSample, sampler
  <2>2. todo' \subseteq Agents /\ sampleDay' \in 0..Days
    BY <2>1 DEF Types, Live
  <2> QED
    BY <2>1, <2>2 DEF Types, thread, herdr, table
<1>9. ASSUME NEW a \in Agents, ReadPane(a)
      PROVE  Types'
  <2>1. sampled' \in Samples
    BY <1>9, FoundType DEF ReadPane
  <2>2. todo' = todo \ {a} /\ UNCHANGED <<thread, herdr, table, sampleDay, measured>>
    BY <1>9 DEF ReadPane
  <2> QED
    BY <2>1, <2>2 DEF Types, thread, herdr, table
<1>10. ASSUME SampleFails
       PROVE  Types'
  BY <1>10 DEF SampleFails, Types, thread, herdr, table
<1>11. ASSUME WriteBase
       PROVE  Types'
  <2>1. sampled \in Samples /\ sampled' = [sampled EXCEPT !.step = "update"]
    BY <1>11 DEF WriteBase, Types
  <2>2. sampled' \in Samples /\ sampled.agent \in Agents
    BY <2>1 DEF Samples
  <2>3. <<sampled.agent, sampleDay>> \in Stamps /\ BaseBefore(sampled.agent) \in Nat
    BY <2>2 DEF Types, Stamps, BaseBefore
  <2>4. base' \in [Stamps -> Nat \cup {None}]
    BY <1>11, <2>3 DEF WriteBase, Types
  <2>5. UNCHANGED <<thread, herdr, row, tokens, started, todo, sampleDay, measured>>
    BY <1>11 DEF WriteBase
  <2> QED
    BY <2>2, <2>4, <2>5 DEF Types, thread, herdr
<1>12. ASSUME WriteSample
       PROVE  Types'
  <2>1. sampled \in Samples
    BY <1>12 DEF WriteSample, Types
  <2>2. sampled.agent \in Agents /\ sampled.tokens \in Nat /\ sampled.done \in BOOLEAN
    BY <2>1 DEF Samples
  <2>3. /\ measured' = [measured EXCEPT ![<<sampled.agent, sampleDay>>] = @ + (sampled.tokens - tokens[sampled.agent])]
        /\ tokens' = [tokens EXCEPT ![sampled.agent] = sampled.tokens]
        /\ row' = [row EXCEPT ![sampled.agent] = IF sampled.done THEN "done" ELSE @]
        /\ sampled' = None
        /\ UNCHANGED <<thread, herdr, started, base, todo, sampleDay>>
    BY <1>12 DEF WriteSample
  <2>4. tokens' \in [Agents -> Nat] /\ row' \in [Agents -> {"none", "live", "done"}]
    BY <2>2, <2>3 DEF Types
  <2>5. measured' \in [Stamps -> Int]
    <3>1. measured \in [Stamps -> Int] /\ tokens[sampled.agent] \in Nat
      BY <2>2 DEF Types
    <3>2. \A i \in Int : i + (sampled.tokens - tokens[sampled.agent]) \in Int
      BY <2>2, <3>1
    <3> QED
      BY <2>3, <3>1, <3>2
  <2> QED
    BY <2>3, <2>4, <2>5 DEF Types, thread, herdr
<1>13. ASSUME Crash
       PROVE  Types'
  <2>1. /\ pc' = [a \in Agents |-> IF pc[a] \in {"new", "halted"} THEN pc[a] ELSE "over"]
        /\ starting' = 0 /\ lock' = None /\ counted' = 0 /\ todo' = {} /\ sampled' = None
        /\ UNCHANGED <<herdr, table, sampleDay, measured>>
    BY <1>13 DEF Crash
  <2>2. pc' \in [Agents -> Places]
    BY <2>1 DEF Types, Places
  <2> QED
    BY <2>1, <2>2 DEF Types, herdr, table
<1>14. ASSUME Herdr
       PROVE  Types'
  <2>1. CASE Midnight
    <3>1. day' = day + 1 /\ day < Days /\ UNCHANGED <<thread, pane, used, table, sampler, measured>>
      BY <2>1 DEF Midnight
    <3>2. day' \in 0..Days
      BY <3>1 DEF Types
    <3> QED
      BY <3>1, <3>2 DEF Types, thread, table, sampler
  <2>2. ASSUME NEW a \in Agents, Work(a) PROVE Types'
    <3>1. used' = [used EXCEPT ![a] = @ + 1] /\ UNCHANGED <<thread, pane, day, table, sampler, measured>>
      BY <2>2 DEF Work
    <3>2. used' \in [Agents -> Nat]
      BY <3>1 DEF Types
    <3> QED
      BY <3>1, <3>2 DEF Types, thread, table, sampler
  <2>3. ASSUME NEW a \in Agents, NEW to \in {"working", "idle", "gone"}, Turn(a, to) PROVE Types'
    <3>1. pane' = [pane EXCEPT ![a] = to] /\ UNCHANGED <<thread, used, day, table, sampler, measured>>
      BY <2>3 DEF Turn
    <3>2. pane' \in [Agents -> {"none", "working", "idle", "gone"}]
      BY <2>3, <3>1 DEF Types
    <3> QED
      BY <3>1, <3>2 DEF Types, thread, table, sampler
  <2> QED
    BY <1>14, <2>1, <2>2, <2>3 DEF Herdr
<1>15. CASE UNCHANGED vars
  BY <1>15 DEF Types, vars, thread, herdr, table, sampler
<1> QED
  BY <1>1, <1>2, <1>3, <1>4, <1>5, <1>6, <1>7, <1>8, <1>9, <1>10, <1>11, <1>12, <1>13, <1>14, <1>15
     DEF Next, Step, Sampling

-----------------------------------------------------------------------------
(* The cap. *)

\* A thread moves on: the reservation goes with it.
LEMMA ReservedAfter ==
  ASSUME Types, NEW a \in Agents, NEW x, pc' = [pc EXCEPT ![a] = x]
  PROVE  /\ Reserved' = IF x \in {"start", "record", "drop", "release"} THEN Reserved \cup {a} ELSE Reserved \ {a}
         /\ pc'[a] = x /\ \A b \in Agents : b # a => pc'[b] = pc[b]
<1>1. pc'[a] = x /\ \A b \in Agents : b # a => pc'[b] = pc[b]
  BY DEF Types
<1>2. ASSUME NEW b PROVE b \in Reserved' <=> IF x \in {"start", "record", "drop", "release"}
                                               THEN b \in Reserved \cup {a} ELSE b \in Reserved \ {a}
  BY <1>1 DEF Reserved
<1> QED
  BY <1>1, <1>2

\* A thread that moves on without reserving or giving back.
LEMMA ReservedStays ==
  ASSUME Types, NEW a \in Agents, NEW x, pc' = [pc EXCEPT ![a] = x],
         x \in {"start", "record", "drop", "release"} <=> a \in Reserved
  PROVE  /\ Reserved' = Reserved
         /\ pc'[a] = x /\ \A b \in Agents : b # a => pc'[b] = pc[b]
<1>1. pc'[a] = x /\ \A b \in Agents : b # a => pc'[b] = pc[b]
  BY DEF Types
<1>2. ASSUME NEW b PROVE b \in Reserved' <=> b \in Reserved
  BY <1>1 DEF Reserved
<1> QED
  BY <1>1, <1>2

\* Agents counted in two parts, and one more agent.
LEMMA TwoParts ==
  ASSUME NEW S \in SUBSET Agents, NEW T \in SUBSET Agents
  PROVE  Cardinality(S \cup T) = Cardinality(S \ T) + Cardinality(T)
<1> DEFINE D == S \ T
           I == D \cap T
           U == S \cup T
<1>1. IsFiniteSet(D) /\ IsFiniteSet(T) /\ Cardinality(D) \in Nat /\ Cardinality(T) \in Nat
  BY SetsFinite
<1>2. I = {} /\ D \cup T = U
  OBVIOUS
<1>3. Cardinality(D \cup T) = Cardinality(D) + Cardinality(T) - Cardinality(D \cap T)
  <2> HIDE DEF D
  <2> QED
    BY <1>1, FS_Union
<1>4. Cardinality(U) = Cardinality(D) + Cardinality(T) - Cardinality(I)
  <2> HIDE DEF D, U
  <2> QED
    BY <1>2, <1>3, Zenon
<1>5. Cardinality(I) = 0
  <2> HIDE DEF I
  <2> QED
    BY <1>2, FS_EmptySet
<1> HIDE DEF D, I, U
<1>6. Cardinality(U) = Cardinality(D) + Cardinality(T)
  BY <1>1, <1>4, <1>5
<1> QED
  BY <1>6 DEF U, D

\* One agent more is at most one more to count.
LEMMA OneMore ==
  ASSUME NEW S \in SUBSET Agents, NEW a \in Agents
  PROVE  /\ Cardinality(S \cup {a}) <= Cardinality(S) + 1
         /\ Cardinality(S \cup {a}) \in Nat /\ Cardinality(S) \in Nat
<1> DEFINE U == S \cup {a}
<1>1. U \in SUBSET Agents
  OBVIOUS
<1>2. Cardinality(U) \in Nat /\ Cardinality(S) \in Nat /\ IsFiniteSet(S)
  BY <1>1, SetsFinite
<1>3. CASE a \in S
  <2>1. U = S
    BY <1>3
  <2> HIDE DEF U
  <2> QED
    BY <1>2, <2>1 DEF U
<1>4. CASE a \notin S
  <2>1. Cardinality(S \cup {a}) = Cardinality(S) + 1
    BY <1>2, <1>4, FS_AddElement
  <2> QED
    BY <1>2, <2>1
<1> QED
  BY <1>3, <1>4

\* A part of a set of agents counts no more than the set.
LEMMA Fewer ==
  ASSUME NEW S \in SUBSET Agents, NEW T \in SUBSET S
  PROVE  Cardinality(T) \in Nat /\ Cardinality(S) \in Nat /\ Cardinality(T) <= Cardinality(S)
BY SetsFinite, FS_Subset

\* A step that reserves nothing, gives nothing back and writes a row only for a
\* thread that holds its reservation.
LEMMA CapKept ==
  ASSUME Types, Mutex, Slots, Counted, CapHolds,
         UNCHANGED <<starting, lock, counted>>, Reserved' = Reserved,
         Live' \subseteq Live \cup Reserved,
         \A a \in Agents : pc'[a] = "reserve" <=> pc[a] = "reserve"
  PROVE  Mutex' /\ Slots' /\ Counted' /\ CapHolds'
<1>1. Live \subseteq Agents /\ Reserved \subseteq Agents
  BY DEF Live, Reserved
<1>2. Mutex'
  BY DEF Mutex
<1>3. Slots'
  BY DEF Slots
<1>4. Counted'
  <2>1. (Live \ Reserved)' \subseteq Live \ Reserved
    OBVIOUS
  <2>2. Cardinality((Live \ Reserved)') <= Cardinality(Live \ Reserved)
        /\ Cardinality((Live \ Reserved)') \in Nat /\ Cardinality(Live \ Reserved) \in Nat
    BY <1>1, <2>1, Fewer
  <2>3. counted \in Nat
    BY DEF Types
  <2> QED
    BY <2>2, <2>3 DEF Counted
<1>5. CapHolds'
  <2>1. (Live \cup Reserved)' \subseteq Live \cup Reserved
    OBVIOUS
  <2>2. Cardinality((Live \cup Reserved)') <= Cardinality(Live \cup Reserved)
        /\ Cardinality((Live \cup Reserved)') \in Nat /\ Cardinality(Live \cup Reserved) \in Nat
    BY <1>1, <2>1, Fewer
  <2> QED
    BY <2>2, CapsAssumption DEF CapHolds
<1> QED
  BY <1>2, <1>3, <1>4, <1>5

\* The count is of every live row.
LEMMA CountRowsCap ==
  ASSUME Cap, NEW a \in Agents, CountRows(a)
  PROVE  Mutex' /\ Slots' /\ Counted' /\ CapHolds'
<1> USE DEF Cap
<1>1. /\ pc[a] = "cap" /\ lock = None /\ lock' = a /\ counted' = Cardinality(Live)
      /\ pc' = [pc EXCEPT ![a] = "reserve"] /\ UNCHANGED <<starting, row>>
  BY DEF CountRows, MayLock, table
<1>2. Reserved' = Reserved /\ pc'[a] = "reserve" /\ \A b \in Agents : b # a => pc'[b] = pc[b]
  <2>1. a \notin Reserved
    BY <1>1 DEF Reserved
  <2> QED
    BY <1>1, <2>1, ReservedStays
<1>3. Live' = Live /\ Live \subseteq Agents
  BY <1>1 DEF Live
<1>4. Mutex'
  BY <1>1, <1>2, CapsAssumption DEF Mutex
<1>5. Slots' /\ CapHolds'
  BY <1>1, <1>2, <1>3 DEF Slots, CapHolds
<1>6. Counted'
  <2>1. Cardinality(Live \ Reserved) <= Cardinality(Live)
    BY <1>3, Fewer
  <2> QED
    BY <1>1, <1>2, <1>3, <2>1 DEF Counted
<1> QED
  BY <1>4, <1>5, <1>6

\* A reservation is made while there is room for it.
LEMMA ReserveCap ==
  ASSUME Cap, NEW a \in Agents, Reserve(a)
  PROVE  Mutex' /\ Slots' /\ Counted' /\ CapHolds'
<1> USE DEF Cap
<1>1. pc[a] = "reserve" /\ lock' = None /\ counted' = 0 /\ UNCHANGED row
  BY DEF Reserve, table
<1>2. a \notin Reserved /\ lock = a /\ lock # None
  BY <1>1, CapsAssumption DEF Reserved, Mutex
<1>3. Live' = Live /\ Live \subseteq Agents /\ Reserved \subseteq Agents
  BY <1>1 DEF Live, Reserved
<1>4. Counted'
  BY <1>1 DEF Counted
<1>5. CASE SlotFree /\ starting' = starting + 1 /\ pc' = [pc EXCEPT ![a] = "start"]
  <2>1. Reserved' = Reserved \cup {a} /\ pc'[a] = "start" /\ \A b \in Agents : b # a => pc'[b] = pc[b]
    BY <1>5, ReservedAfter
  <2>2. Mutex'
    BY <1>1, <1>2, <2>1, CapsAssumption DEF Mutex
  <2>3. Cardinality(Reserved \cup {a}) = Cardinality(Reserved) + 1
    BY <1>2, SetsFinite, FS_AddElement
  <2>4. Slots'
    BY <1>5, <2>1, <2>3 DEF Slots
  <2>5. Cardinality(Live \cup Reserved) <= counted + starting
    <3>1. Cardinality(Live \cup Reserved) = Cardinality(Live \ Reserved) + Cardinality(Reserved)
      BY <1>3, TwoParts
    <3>2. Live \ Reserved \in SUBSET Agents
      BY <1>3
    <3>3. Cardinality(Live \ Reserved) \in Nat /\ Cardinality(Reserved) \in Nat
      BY <1>3, <3>2, SetsFinite
    <3>4. Cardinality(Live \ Reserved) <= counted /\ starting = Cardinality(Reserved) /\ counted \in Nat
      BY <1>2 DEF Counted, Slots, Types
    <3> QED
      BY <3>1, <3>3, <3>4
  <2>6. Cardinality((Live \cup Reserved) \cup {a}) <= Cardinality(Live \cup Reserved) + 1
        /\ Cardinality((Live \cup Reserved) \cup {a}) \in Nat /\ Cardinality(Live \cup Reserved) \in Nat
    <3>1. Live \cup Reserved \in SUBSET Agents
      BY <1>3
    <3> QED
      BY <3>1, OneMore
  <2>7. CapHolds'
    <3>1. (Live \cup Reserved)' = (Live \cup Reserved) \cup {a}
      BY <1>3, <2>1
    <3>2. counted \in Nat /\ starting \in Nat /\ counted + starting < MaxAgents
      BY <1>5 DEF SlotFree, Types
    <3>3. PICK U : U = (Live \cup Reserved) \cup {a}
      OBVIOUS
    <3>4. PICK n : n = Cardinality(Live \cup Reserved)
      OBVIOUS
    <3>5. Cardinality(U) <= n + 1 /\ Cardinality(U) \in Nat /\ n \in Nat
      BY <2>6, <3>3, <3>4, Zenon
    <3>6. n <= counted + starting
      BY <2>5, <3>4
    <3>7. Cardinality(U) <= MaxAgents
      BY <3>2, <3>5, <3>6, CapsAssumption
    <3>8. (Live \cup Reserved)' = U
      BY <3>1, <3>3
    <3> QED
      BY <3>7, <3>8, Zenon DEF CapHolds
  <2> QED
    BY <1>4, <2>2, <2>4, <2>7
<1>6. CASE starting' = starting /\ pc' = [pc EXCEPT ![a] = "halted"]
  <2>1. Reserved' = Reserved /\ pc'[a] = "halted" /\ \A b \in Agents : b # a => pc'[b] = pc[b]
    BY <1>2, <1>6, ReservedStays
  <2>2. Mutex'
    BY <1>1, <1>2, <2>1, CapsAssumption DEF Mutex
  <2> QED
    BY <1>3, <1>4, <1>6, <2>1, <2>2 DEF Slots, CapHolds
<1> QED
  BY <1>5, <1>6 DEF Reserve

\* A reservation is given back while nobody counts.
LEMMA DropCap ==
  ASSUME Cap, NEW a \in Agents, DropReservation(a)
  PROVE  Mutex' /\ Slots' /\ Counted' /\ CapHolds'
<1> USE DEF Cap
<1>1. /\ pc[a] \in {"drop", "release"} /\ lock = None /\ starting' = starting - 1
      /\ pc' = [pc EXCEPT ![a] = "over"] /\ UNCHANGED <<lock, counted, row>>
  BY DEF DropReservation, Drops, MayLock, Freed, table
<1>2. a \in Reserved /\ Live' = Live /\ Live \subseteq Agents /\ Reserved \subseteq Agents
  BY <1>1 DEF Reserved, Live
<1>3. Reserved' = Reserved \ {a} /\ pc'[a] = "over" /\ \A b \in Agents : b # a => pc'[b] = pc[b]
  BY <1>1, ReservedAfter
<1>4. Mutex'
  BY <1>1, <1>3 DEF Mutex
<1>5. Cardinality(Reserved \ {a}) = Cardinality(Reserved) - 1
  BY <1>2, SetsFinite, FS_RemoveElement
<1>6. Slots'
  BY <1>1, <1>3, <1>5 DEF Slots
<1>7. Counted'
  BY <1>1 DEF Counted
<1>8. CapHolds'
  <2>1. (Live \cup Reserved)' \subseteq Live \cup Reserved
    BY <1>2, <1>3
  <2>2. Cardinality((Live \cup Reserved)') <= Cardinality(Live \cup Reserved)
        /\ Cardinality((Live \cup Reserved)') \in Nat /\ Cardinality(Live \cup Reserved) \in Nat
    BY <1>2, <2>1, Fewer
  <2> QED
    BY <2>2, CapsAssumption DEF CapHolds
<1> QED
  BY <1>4, <1>6, <1>7, <1>8

\* A crash gives every reservation back and leaves the rows.
LEMMA CrashCap ==
  ASSUME Cap, Crash
  PROVE  Mutex' /\ Slots' /\ Counted' /\ CapHolds'
<1> USE DEF Cap
<1>1. /\ pc' = [a \in Agents |-> IF pc[a] \in {"new", "halted"} THEN pc[a] ELSE "over"]
      /\ starting' = 0 /\ lock' = None /\ counted' = 0 /\ UNCHANGED row
  BY DEF Crash, table
<1>2. \A a \in Agents : pc'[a] \in {"new", "halted", "over"}
  BY <1>1
<1>3. Reserved' = {} /\ Live' = Live /\ Live \subseteq Agents /\ Reserved \subseteq Agents
  BY <1>1, <1>2 DEF Reserved, Live
<1>4. Mutex'
  BY <1>1, <1>2, CapsAssumption DEF Mutex
<1>5. Slots'
  BY <1>1, <1>3, FS_EmptySet DEF Slots
<1>6. Counted'
  BY <1>1 DEF Counted
<1>7. CapHolds'
  <2>1. (Live \cup Reserved)' \subseteq Live \cup Reserved
    BY <1>3
  <2>2. Cardinality((Live \cup Reserved)') <= Cardinality(Live \cup Reserved)
        /\ Cardinality((Live \cup Reserved)') \in Nat /\ Cardinality(Live \cup Reserved) \in Nat
    BY <1>3, <2>1, Fewer
  <2> QED
    BY <2>2, CapsAssumption DEF CapHolds
<1> QED
  BY <1>4, <1>5, <1>6, <1>7

\* So does a step of no thread that adds no row.
LEMMA QuietCap ==
  ASSUME Cap, UNCHANGED thread, Live' \subseteq Live
  PROVE  Mutex' /\ Slots' /\ Counted' /\ CapHolds'
<1>1. Reserved' = Reserved /\ UNCHANGED <<pc, starting, lock, counted>>
  BY DEF thread, Reserved
<1> QED
  BY <1>1, CapKept DEF Cap

\* Each step keeps the cap and what it rests on.
LEMMA CapSteps ==
  ASSUME Cap, [Next]_vars
  PROVE  Cap'
<1> DEFINE Goal == Mutex' /\ Slots' /\ Counted' /\ CapHolds'
<1> USE DEF Cap
<1>1. ASSUME NEW a \in Agents, CheckScriptTokens(a) \/ CheckHostTokens(a) PROVE Goal
  <2>1. PICK x \in {"halted", "host", "cap"} : pc' = [pc EXCEPT ![a] = x]
    BY <1>1 DEF CheckScriptTokens, CheckHostTokens
  <2>2. pc[a] \in {"new", "host"} /\ UNCHANGED <<starting, lock, counted, row>>
    BY <1>1 DEF CheckScriptTokens, CheckHostTokens, table
  <2>3. a \notin Reserved /\ Live' = Live
    BY <2>2 DEF Reserved, Live
  <2>4. Reserved' = Reserved /\ \A b \in Agents : pc'[b] = "reserve" <=> pc[b] = "reserve"
    <3>1. Reserved' = Reserved /\ pc'[a] = x /\ \A b \in Agents : b # a => pc'[b] = pc[b]
      BY <2>1, <2>3, ReservedStays
    <3> QED
      BY <2>2, <3>1
  <2> QED
    BY <2>2, <2>3, <2>4, CapKept
<1>2. ASSUME NEW a \in Agents, StartFails(a) \/ StartAgent(a) \/ StartUnheard(a) \/ AddAgent(a) \/ AddAgentFails(a)
      PROVE  Goal
  <2>1. PICK x \in {"record", "drop", "release"} : pc' = [pc EXCEPT ![a] = x]
    BY <1>2 DEF StartFails, StartAgent, StartUnheard, AddAgent, AddAgentFails
  <2>2. pc[a] \in {"start", "record"} /\ UNCHANGED <<starting, lock, counted>>
        /\ (row' = row \/ row' = [row EXCEPT ![a] = "live"])
    BY <1>2 DEF StartFails, StartAgent, StartUnheard, AddAgent, AddAgentFails, table
  <2>3. a \in Reserved
    BY <2>2 DEF Reserved
  <2>4. Live' \subseteq Live \cup {a}
    BY <2>2 DEF Live, Types
  <2>5. Reserved' = Reserved /\ \A b \in Agents : pc'[b] = "reserve" <=> pc[b] = "reserve"
    <3>1. Reserved' = Reserved /\ pc'[a] = x /\ \A b \in Agents : b # a => pc'[b] = pc[b]
      BY <2>1, <2>3, ReservedStays
    <3> QED
      BY <2>2, <3>1
  <2> QED
    BY <2>2, <2>3, <2>4, <2>5, CapKept
<1>3. ASSUME Sampling PROVE Goal
  <2>1. UNCHANGED thread
    BY <1>3 DEF Sampling, BeginSample, ReadPane, WriteBase, WriteSample, SampleFails
  <2>2. Live' \subseteq Live
    <3>1. CASE WriteSample
      <4>1. row' = [row EXCEPT ![sampled.agent] = IF sampled.done THEN "done" ELSE @]
        BY <3>1 DEF WriteSample
      <4> QED
        BY <4>1 DEF Live, Types
    <3>2. CASE ~WriteSample
      <4>1. row' = row
        BY <1>3, <3>2 DEF Sampling, BeginSample, ReadPane, WriteBase, SampleFails, table
      <4> QED
        BY <4>1 DEF Live
    <3> QED
      BY <3>1, <3>2
  <2> QED
    BY <2>1, <2>2, QuietCap
<1>4. ASSUME Serve \/ Herdr PROVE Goal
  <2>1. ASSUME NEW a \in Agents, Work(a) \/ \E to \in {"working", "idle", "gone"} : Turn(a, to)
        PROVE  UNCHANGED <<thread, row>>
    BY <2>1 DEF Work, Turn, table
  <2>2. UNCHANGED <<thread, row>>
    BY <1>4, <2>1 DEF Serve, Herdr, Midnight, table
  <2>3. Live' = Live
    BY <2>2 DEF Live
  <2> QED
    BY <2>2, <2>3, QuietCap
<1>5. ASSUME UNCHANGED vars PROVE Goal
  <2>1. UNCHANGED <<thread, row>>
    BY <1>5 DEF vars, table
  <2>2. Live' = Live
    BY <2>1 DEF Live
  <2> QED
    BY <2>1, <2>2, QuietCap
<1>6. Goal
  <2>1. ASSUME NEW a \in Agents, CountRows(a) \/ Reserve(a) \/ DropReservation(a) PROVE Goal
    BY <2>1, CountRowsCap, ReserveCap, DropCap
  <2>2. CASE Crash
    BY <2>2, CrashCap
  <2>3. ASSUME NEW a \in Agents, CheckScriptTokens(a) \/ Step(a) PROVE Goal
    <3> HIDE DEF Goal
    <3> QED
      BY <1>1, <1>2, <2>1, <2>3 DEF Step
  <2> HIDE DEF Goal
  <2> QED
    BY <1>3, <1>4, <1>5, <2>2, <2>3 DEF Next
<1>7. Types'
  BY TypesSteps
<1> QED
  BY <1>6, <1>7

-----------------------------------------------------------------------------
(* Agents at work. *)

\* Each step keeps track of the agents that were started.
LEMMA StartedSteps ==
  ASSUME Types, Started, [Next]_vars
  PROVE  Started'
<1> USE DEF Started
<1>1. ASSUME NEW a \in Agents, CheckScriptTokens(a) \/ CheckHostTokens(a) \/ CountRows(a) \/ Reserve(a) \/ StartFails(a)
      PROVE  Started'
  <2>1. PICK x : pc' = [pc EXCEPT ![a] = x]
    BY <1>1 DEF CheckScriptTokens, CheckHostTokens, CountRows, Reserve, StartFails
  <2>2. pc[a] \in {"new", "host", "cap", "reserve", "start"} /\ UNCHANGED <<pane, row, strays>>
    BY <1>1 DEF CheckScriptTokens, CheckHostTokens, CountRows, Reserve, StartFails, herdr, table
  <2>3. \A b \in Agents : b # a => pc'[b] = pc[b]
    BY <2>1 DEF Types
  <2> QED
    BY <2>2, <2>3
<1>2. ASSUME NEW a \in Agents, StartAgent(a) PROVE Started'
  <2>1. /\ pc' = [pc EXCEPT ![a] = "record"] /\ pane' = [pane EXCEPT ![a] = "working"]
        /\ UNCHANGED <<row, strays>>
    BY <1>2 DEF StartAgent, table
  <2>2. /\ pc'[a] = "record"
        /\ \A b \in Agents : b # a => pc'[b] = pc[b] /\ pane'[b] = pane[b]
    BY <2>1 DEF Types
  <2> QED
    BY <2>1, <2>2
<1>3. ASSUME NEW a \in Agents, StartUnheard(a) PROVE Started'
  <2>1. /\ pc' = [pc EXCEPT ![a] = "release"] /\ pane' = [pane EXCEPT ![a] = "working"]
        /\ UNCHANGED row /\ strays' = strays \cup {a}
    BY <1>3 DEF StartUnheard, table
  <2>2. /\ pc'[a] = "release"
        /\ \A b \in Agents : b # a => pc'[b] = pc[b] /\ pane'[b] = pane[b]
    BY <2>1 DEF Types
  <2> QED
    BY <2>1, <2>2
<1>4. ASSUME NEW a \in Agents, AddAgent(a) PROVE Started'
  <2>1. /\ pc' = [pc EXCEPT ![a] = "drop"] /\ row' = [row EXCEPT ![a] = "live"]
        /\ UNCHANGED <<pane, strays>>
    BY <1>4 DEF AddAgent, herdr
  <2>2. /\ pc'[a] = "drop" /\ row'[a] = "live"
        /\ \A b \in Agents : b # a => pc'[b] = pc[b] /\ row'[b] = row[b]
    BY <2>1 DEF Types
  <2> QED
    BY <2>1, <2>2
<1>5. ASSUME NEW a \in Agents, AddAgentFails(a) PROVE Started'
  <2>1. /\ pc' = [pc EXCEPT ![a] = "release"] /\ strays' = strays \cup {a} /\ UNCHANGED <<pane, row>>
    BY <1>5 DEF AddAgentFails, herdr, table
  <2>2. /\ pc'[a] = "release" /\ \A b \in Agents : b # a => pc'[b] = pc[b]
    BY <2>1 DEF Types
  <2> QED
    BY <2>1, <2>2
<1>6. ASSUME NEW a \in Agents, DropReservation(a) PROVE Started'
  <2>1. /\ pc[a] \in {"drop", "release"} /\ pc' = [pc EXCEPT ![a] = "over"] /\ UNCHANGED <<pane, row, strays>>
    BY <1>6 DEF DropReservation, Drops, herdr, table
  <2>2. /\ pc'[a] = "over" /\ \A b \in Agents : b # a => pc'[b] = pc[b]
    BY <2>1 DEF Types
  <2> QED
    BY <2>1, <2>2
<1>7. ASSUME Crash PROVE Started'
  <2>1. /\ strays' = strays \cup {a \in Agents : pc[a] = "record"} /\ UNCHANGED <<pane, row>>
        /\ \A a \in Agents : pc'[a] = IF pc[a] \in {"new", "halted"} THEN pc[a] ELSE "over"
    BY <1>7 DEF Crash, herdr, table
  <2> QED
    BY <2>1
<1>8. ASSUME WriteSample PROVE Started'
  <2>1. /\ row' = [row EXCEPT ![sampled.agent] = IF sampled.done THEN "done" ELSE @]
        /\ UNCHANGED <<pc, pane, strays>>
    BY <1>8 DEF WriteSample, thread, herdr
  <2>2. \A a \in Agents : row[a] # "none" => row'[a] # "none"
    BY <2>1 DEF Types
  <2> QED
    BY <2>1, <2>2
<1>9. ASSUME Serve \/ BeginSample \/ WriteBase \/ SampleFails \/ Midnight PROVE Started'
  <2>1. UNCHANGED <<pc, pane, row, strays>>
    BY <1>9 DEF Serve, BeginSample, WriteBase, SampleFails, Midnight, thread, herdr, table
  <2> QED
    BY <2>1
<1>10. ASSUME NEW a \in Agents, ReadPane(a) \/ Work(a) PROVE Started'
  <2>1. UNCHANGED <<pc, pane, row, strays>>
    BY <1>10 DEF ReadPane, Work, thread, herdr, table
  <2> QED
    BY <2>1
<1>11. ASSUME NEW a \in Agents, NEW to \in {"working", "idle", "gone"}, Turn(a, to) PROVE Started'
  <2>1. pane[a] # "none" /\ pane' = [pane EXCEPT ![a] = to] /\ UNCHANGED <<pc, row, strays>>
    BY <1>11 DEF Turn, thread, table
  <2>2. \A b \in Agents : pane'[b] # "none" <=> pane[b] # "none"
    BY <2>1 DEF Types
  <2> QED
    BY <2>1, <2>2
<1>12. CASE UNCHANGED vars
  <2>1. UNCHANGED <<pc, pane, row, strays>>
    BY <1>12 DEF vars, thread, herdr, table
  <2> QED
    BY <2>1
<1>13. ASSUME NEW a \in Agents, Step(a) \/ CheckScriptTokens(a) PROVE Started'
  BY <1>1, <1>2, <1>3, <1>4, <1>5, <1>6, <1>13 DEF Step
<1> QED
  <2> HIDE DEF Started
  <2> QED
    BY <1>7, <1>8, <1>9, <1>10, <1>11, <1>12, <1>13 DEF Next, Sampling, Herdr

-----------------------------------------------------------------------------
(* The books of a day. *)

\* A step that measures nothing keeps the books.
LEMMA BooksKept ==
  ASSUME Types, DayBooked, Books, UNCHANGED <<tokens, base, measured, sampleDay>>, day' >= day, day' \in Nat,
         sampled' = sampled \/ sampled' = None \/ sampled'.step = "base"
  PROVE  DayBooked' /\ Books'
<1>1. DayBooked'
  BY DEF DayBooked
<1>2. sampleDay <= day'
  BY DEF Books, Types
<1> QED
  BY <1>1, <1>2 DEF Books

\* A pass begins on a day whose books are empty, or goes on in them.
LEMMA BeginSampleBooks ==
  ASSUME Types, DayBooked, Books, BeginSample
  PROVE  DayBooked' /\ Books'
<1>1. sampled = None /\ sampleDay' = day /\ UNCHANGED <<tokens, base, measured, sampled, day>>
  BY DEF BeginSample, herdr, table
<1>2. day \in 0..Days /\ sampleDay \in 0..Days /\ Days \in Nat
  BY CapsAssumption DEF Types
<1>3. CASE day = sampleDay
  BY <1>1, <1>3 DEF DayBooked, Books
<1>4. CASE day # sampleDay
  <2>1. day > sampleDay
    BY <1>2, <1>4 DEF Books
  <2>2. \A a \in Agents : base[<<a, day>>] = None /\ measured[<<a, day>>] = 0
    BY <1>2, <2>1 DEF Books
  <2>3. DayBooked'
    BY <1>1, <2>2 DEF DayBooked
  <2>4. \A a \in Agents, d \in 0..Days : d > day => base[<<a, d>>] = None /\ measured[<<a, d>>] = 0
    BY <1>2, <2>1 DEF Books
  <2>5. Books'
    BY <1>1, <1>2, <2>4 DEF Books
  <2> QED
    BY <2>3, <2>5
<1> QED
  BY <1>3, <1>4

\* What an agent had used before is what its day starts from.
LEMMA WriteBaseBooks ==
  ASSUME Types, DayBooked, Books, WriteBase
  PROVE  DayBooked' /\ Books'
<1> DEFINE b == sampled.agent
           stamp == <<sampled.agent, sampleDay>>
<1>1. /\ sampled \in Samples /\ sampled' = [sampled EXCEPT !.step = "update"]
      /\ UNCHANGED <<tokens, measured, sampleDay, day>>
      /\ base' = IF base[stamp] = None THEN [base EXCEPT ![stamp] = tokens[b]] ELSE base
  BY DEF WriteBase, Types, BaseBefore, herdr
<1>2. b \in Agents /\ sampled'.agent = b
  BY <1>1 DEF Samples
<1>3. sampleDay \in 0..Days /\ stamp \in Stamps /\ tokens[b] \in Nat
  BY <1>2 DEF Types, Stamps
<1>4. /\ base'[stamp] = IF base[stamp] = None THEN tokens[b] ELSE base[stamp]
      /\ \A x \in Stamps : x # stamp => base'[x] = base[x]
  BY <1>1, <1>3 DEF Types
<1>5. base'[stamp] # None
  BY <1>3, <1>4, CapsAssumption
<1>6. \A a \in Agents, d \in 0..Days : <<a, d>> \in Stamps /\ (<<a, d>> = stamp <=> a = b /\ d = sampleDay)
  BY DEF Stamps
<1>7. ASSUME NEW a \in Agents
      PROVE  measured[<<a, sampleDay>>] =
               IF base'[<<a, sampleDay>>] = None THEN 0 ELSE tokens[a] - base'[<<a, sampleDay>>]
  <2>1. measured[<<a, sampleDay>>] =
          IF base[<<a, sampleDay>>] = None THEN 0 ELSE tokens[a] - base[<<a, sampleDay>>]
    BY DEF DayBooked
  <2>2. CASE a = b
    <3>1. tokens[b] - tokens[b] = 0
      BY <1>3
    <3> QED
      BY <1>3, <1>4, <1>5, <2>1, <2>2, <3>1
  <2>3. CASE a # b
    BY <1>3, <1>4, <1>6, <2>1, <2>3
  <2> QED
    BY <2>2, <2>3
<1>8. DayBooked'
  BY <1>1, <1>7 DEF DayBooked
<1>9. \A a \in Agents, d \in 0..Days : d > sampleDay => base'[<<a, d>>] = None /\ measured[<<a, d>>] = 0
  <2>1. ASSUME NEW a \in Agents, NEW d \in 0..Days, d > sampleDay
        PROVE  base'[<<a, d>>] = None /\ measured[<<a, d>>] = 0
    <3>1. d # sampleDay
      BY <1>3, <2>1, CapsAssumption
    <3> QED
      BY <1>4, <1>6, <2>1, <3>1 DEF Books
  <2> QED
    BY <2>1
<1>10. Books'
  BY <1>1, <1>2, <1>5, <1>9 DEF Books
<1> QED
  BY <1>8, <1>10

\* What a sample adds is booked on the day of its pass.
LEMMA WriteSampleBooks ==
  ASSUME Types, DayBooked, Books, WriteSample
  PROVE  DayBooked' /\ Books'
<1> DEFINE b == sampled.agent
           stamp == <<sampled.agent, sampleDay>>
           more == sampled.tokens - tokens[sampled.agent]
<1>1. /\ sampled \in Samples /\ sampled.step = "update" /\ sampled' = None
      /\ UNCHANGED <<base, sampleDay, day>>
      /\ measured' = [measured EXCEPT ![stamp] = @ + more]
      /\ tokens' = [tokens EXCEPT ![b] = sampled.tokens] /\ sampled # None
  BY DEF WriteSample, Types, herdr
<1>2. b \in Agents /\ sampled.tokens \in Nat
  BY <1>1 DEF Samples
<1>3. sampleDay \in 0..Days /\ stamp \in Stamps /\ tokens[b] \in Nat /\ base[stamp] \in Nat
  <2>1. base[stamp] # None
    BY <1>1 DEF Books
  <2> QED
    BY <1>2, <2>1 DEF Types, Stamps
<1>4. /\ measured'[stamp] = measured[stamp] + more /\ measured[stamp] \in Int
      /\ \A x \in Stamps : x # stamp => measured'[x] = measured[x]
      /\ tokens'[b] = sampled.tokens /\ \A a \in Agents : a # b => tokens'[a] = tokens[a]
  BY <1>1, <1>2, <1>3 DEF Types
<1>5. \A a \in Agents, d \in 0..Days : <<a, d>> \in Stamps /\ (<<a, d>> = stamp <=> a = b /\ d = sampleDay)
  BY DEF Stamps
<1>6. measured[stamp] = tokens[b] - base[stamp]
  BY <1>2, <1>3, CapsAssumption DEF DayBooked
<1>7. measured'[stamp] = sampled.tokens - base[stamp]
  BY <1>2, <1>3, <1>4, <1>6
<1>8. ASSUME NEW a \in Agents
      PROVE  measured'[<<a, sampleDay>>] =
               IF base[<<a, sampleDay>>] = None THEN 0 ELSE tokens'[a] - base[<<a, sampleDay>>]
  <2>1. CASE a = b
    BY <1>3, <1>4, <1>7, <2>1, CapsAssumption
  <2>2. CASE a # b
    BY <1>3, <1>4, <1>5, <2>2 DEF DayBooked
  <2> QED
    BY <2>1, <2>2
<1>9. DayBooked'
  BY <1>1, <1>8 DEF DayBooked
<1>10. \A a \in Agents, d \in 0..Days : d > sampleDay => base[<<a, d>>] = None /\ measured'[<<a, d>>] = 0
  <2>1. ASSUME NEW a \in Agents, NEW d \in 0..Days, d > sampleDay
        PROVE  base[<<a, d>>] = None /\ measured'[<<a, d>>] = 0
    <3>1. d # sampleDay
      BY <1>3, <2>1, CapsAssumption
    <3> QED
      BY <1>4, <1>5, <2>1, <3>1 DEF Books
  <2> QED
    BY <2>1
<1>11. Books'
  BY <1>1, <1>10 DEF Books
<1> QED
  BY <1>9, <1>11

\* Each step keeps the books.
LEMMA BooksSteps ==
  ASSUME Types, DayBooked, Books, [Next]_vars
  PROVE  DayBooked' /\ Books'
<1> DEFINE Kept == UNCHANGED <<tokens, base, measured, sampleDay, day, sampled>>
<1>1. day \in Nat /\ day >= day
  BY CapsAssumption DEF Types
<1>2. ASSUME NEW a \in Agents, CheckScriptTokens(a) \/ Step(a) PROVE Kept
  <2>1. CASE CheckScriptTokens(a) \/ CheckHostTokens(a) \/ CountRows(a) \/ Reserve(a) \/ StartFails(a)
    BY <2>1 DEF CheckScriptTokens, CheckHostTokens, CountRows, Reserve, StartFails, herdr, table, sampler
  <2>2. CASE StartAgent(a) \/ StartUnheard(a) \/ AddAgent(a) \/ AddAgentFails(a) \/ DropReservation(a)
    BY <2>2 DEF StartAgent, StartUnheard, AddAgent, AddAgentFails, DropReservation, herdr, table, sampler
  <2> QED
    BY <1>2, <2>1, <2>2 DEF Step
<1>3. CASE Crash \/ SampleFails
  <2>1. UNCHANGED <<tokens, base, measured, sampleDay, day>> /\ sampled' = None
    BY <1>3 DEF Crash, SampleFails, herdr, table
  <2> QED
    BY <1>1, <2>1, BooksKept
<1>4. ASSUME NEW a \in Agents, ReadPane(a) PROVE DayBooked' /\ Books'
  <2>1. UNCHANGED <<tokens, base, measured, sampleDay, day>> /\ sampled' \in Found(a)
    BY <1>4 DEF ReadPane, herdr, table
  <2>2. sampled'.step = "base"
    BY <2>1 DEF Found
  <2> QED
    BY <1>1, <2>1, <2>2, BooksKept
<1>5. CASE Midnight
  <2>1. UNCHANGED <<tokens, base, measured, sampleDay, sampled>> /\ day' = day + 1
    BY <1>5 DEF Midnight, table, sampler
  <2> QED
    BY <1>1, <2>1, BooksKept
<1>6. ASSUME NEW a \in Agents, Work(a) PROVE Kept
  BY <1>6 DEF Work, table, sampler
<1>7. ASSUME NEW a \in Agents, NEW to \in {"working", "idle", "gone"}, Turn(a, to) PROVE Kept
  BY <1>7 DEF Turn, table, sampler
<1>8. ASSUME Serve \/ UNCHANGED vars PROVE Kept
  BY <1>8 DEF Serve, vars, herdr, table, sampler
<1>9. Kept => DayBooked' /\ Books'
  BY <1>1, BooksKept
<1> HIDE DEF Kept
<1> QED
  BY <1>2, <1>3, <1>4, <1>5, <1>6, <1>7, <1>8, <1>9, BeginSampleBooks, WriteBaseBooks, WriteSampleBooks
     DEF Next, Sampling, Herdr

-----------------------------------------------------------------------------
(* Theorems *)

\* No agent, no row and no reservation at first.
LEMMA IInvInit ==
  ASSUME Init
  PROVE  IInv
<1>1. Types
  BY CapsAssumption DEF Init, Types, Places
<1>2. Live = {} /\ Reserved = {}
  BY DEF Init, Live, Reserved
<1>3. Cardinality({}) = 0
  BY FS_EmptySet
<1>4. Mutex /\ Counted
  BY CapsAssumption DEF Init, Mutex, Counted
<1>5. Slots
  BY <1>2, <1>3 DEF Init, Slots
<1>6. CapHolds
  <2>1. Live \cup Reserved = {}
    BY <1>2
  <2>2. Cardinality(Live \cup Reserved) = 0
    BY <1>3, <2>1, Zenon
  <2> QED
    BY <2>2, CapsAssumption DEF CapHolds
<1>7. Started
  BY DEF Init, Started
<1>8. DayBooked /\ Books
  <2>1. \A a \in Agents, d \in 0..Days : base[<<a, d>>] = None /\ measured[<<a, d>>] = 0
    BY DEF Init, Stamps
  <2>2. sampleDay = 0 /\ day = 0 /\ 0 \in 0..Days /\ sampled = None
    BY CapsAssumption DEF Init
  <2> QED
    BY <2>1, <2>2 DEF DayBooked, Books
<1> QED
  BY <1>1, <1>4, <1>5, <1>6, <1>7, <1>8 DEF IInv, Cap

\* The invariant holds in every behaviour.
LEMMA IInvHolds == Spec => []IInv
<1>1. Init => IInv
  BY IInvInit
<1>2. IInv /\ [Next]_vars => IInv'
  BY CapSteps, StartedSteps, BooksSteps DEF IInv, Cap
<1> QED
  BY <1>1, <1>2, PTL DEF Spec

\* However many runs race for the last slot, and whatever is written or killed
\* while the rows are counted, live agents and agents about to start are never
\* more than max_agents (agent_cap, Slots, Reservation).
THEOREM CapIsKept == Spec => []CapHolds
<1>1. IInv => CapHolds
  BY DEF IInv, Cap
<1> QED
  BY <1>1, IInvHolds, PTL

\* An agent at work that the sampler did not give up and whose start was not
\* cut short is counted, between any two steps of its thread (steps.rs agent).
THEOREM WorkIsCounted == Spec => []AtWorkIsCounted
<1>1. IInv => AtWorkIsCounted
  <2>1. SUFFICES ASSUME IInv, NEW a \in Agents, pane[a] = "working", row[a] # "done", a \notin strays
                 PROVE  a \in Live \cup Reserved
    BY DEF AtWorkIsCounted
  <2>2. row[a] # "none" \/ pc[a] = "record"
    BY <2>1 DEF IInv, Started
  <2>3. row[a] \in {"none", "live", "done"}
    BY <2>1 DEF IInv, Cap, Types
  <2> QED
    BY <2>1, <2>2, <2>3 DEF Live, Reserved
<1> QED
  BY <1>1, IInvHolds, PTL

\* Agent by agent, what tokens_on takes for spent on the sampler's day is what
\* the samples of that day added, whatever write of a sample failed (sample_agent).
THEOREM DayIsBooked == Spec => []DayBooked
<1>1. IInv => DayBooked
  BY DEF IInv
<1> QED
  BY <1>1, IInvHolds, PTL

-----------------------------------------------------------------------------
(* The sums of the day. *)

\* What tokens_on takes for spent, as the sum of a function.
LEMMA SpentIsTotal ==
  ASSUME NEW d, NEW X, X = {a \in Agents : base[<<a, d>>] # None}, IsFiniteSet(X),
         NEW G, \A a \in X : G[a] \in Int /\ G[a] = tokens[a] - base[<<a, d>>]
  PROVE  TokensOn(Agents, d) = Total(G, X)
<1> DEFINE It(g) == g = [s \in SUBSET X |->
                           IF s = {} THEN 0
                           ELSE (tokens[First(s)] - base[<<First(s), d>>]) + g[s \ {First(s)}]]
<1>1. \A s \in SUBSET X : s # {} => G[First(s)] = tokens[First(s)] - base[<<First(s), d>>]
  BY FirstIn
<1>2. \A g : Sums(G, X, g) <=> It(g)
  BY <1>1 DEF Sums
<1>3. PICK h : h = CHOOSE g : It(g)
  OBVIOUS
<1>4. TokensOn(Agents, d) = (CHOOSE g : It(g))[X]
  BY DEF TokensOn, First, MapThenSumSet, MapThenFoldSet
<1> HIDE DEF It
<1>5. PICK g : Sums(G, X, g) /\ Total(G, X) = g[X]
  BY TotalSums
<1>6. It(h)
  BY <1>2, <1>3, <1>5
<1>7. Sums(G, X, h)
  BY <1>2, <1>6
<1>8. h[X] = g[X]
  BY <1>5, <1>7, SumsAgree
<1> QED
  BY <1>3, <1>4, <1>5, <1>8

\* What the samples of a day added, as the sum of a function.
LEMMA AddedIsTotal ==
  ASSUME NEW d, NEW H, \A a \in Agents : H[a] \in Int /\ H[a] = measured[<<a, d>>]
  PROVE  MapThenSumSet(LAMBDA a : measured[<<a, d>>], Agents) = Total(H, Agents)
<1> DEFINE It(g) == g = [s \in SUBSET Agents |->
                           IF s = {} THEN 0 ELSE measured[<<First(s), d>>] + g[s \ {First(s)}]]
<1>1. \A s \in SUBSET Agents : s # {} => H[First(s)] = measured[<<First(s), d>>]
  BY FirstIn
<1>2. \A g : Sums(H, Agents, g) <=> It(g)
  BY <1>1 DEF Sums
<1>3. PICK h : h = CHOOSE g : It(g)
  OBVIOUS
<1>4. MapThenSumSet(LAMBDA a : measured[<<a, d>>], Agents) = (CHOOSE g : It(g))[Agents]
  BY DEF First, MapThenSumSet, MapThenFoldSet
<1> HIDE DEF It
<1>5. PICK g : Sums(H, Agents, g) /\ Total(H, Agents) = g[Agents]
  BY CapsAssumption, TotalSums
<1>6. It(h)
  BY <1>2, <1>3, <1>5
<1>7. Sums(H, Agents, h)
  BY <1>2, <1>6
<1>8. h[Agents] = g[Agents]
  BY <1>5, <1>7, CapsAssumption, SumsAgree
<1> QED
  BY <1>3, <1>4, <1>5, <1>8

\* What the caps take for spent on the sampler's day is what its samples of that
\* day added, over all agents: those without a row for the day added nothing
\* (tokens_on, sample_agent).
THEOREM SpendingIsExact == Spec => []DaySpending
<1>1. IInv => DaySpending
  <2> SUFFICES ASSUME IInv PROVE DaySpending
    OBVIOUS
  <2>1. PICK d : d = sampleDay
    OBVIOUS
  <2>2. PICK X : X = {a \in Agents : base[<<a, d>>] # None}
    OBVIOUS
  <2>3. PICK H : H = [a \in Agents |-> measured[<<a, d>>]]
    OBVIOUS
  <2>4. ASSUME NEW a \in Agents
        PROVE  /\ H[a] = measured[<<a, d>>] /\ H[a] \in Int
               /\ a \in X => H[a] = tokens[a] - base[<<a, d>>]
               /\ a \notin X => H[a] = 0
    <3>1. H[a] = measured[<<a, d>>]
      BY <2>3
    <3>2. a \in X => H[a] = tokens[a] - base[<<a, d>>]
      BY <2>1, <2>2, <3>1 DEF IInv, DayBooked
    <3>3. a \notin X => H[a] = 0
      BY <2>1, <2>2, <3>1 DEF IInv, DayBooked
    <3>4. <<a, d>> \in Stamps
      BY <2>1 DEF Stamps, IInv, Cap, Types
    <3>5. a \in X => tokens[a] \in Int /\ base[<<a, d>>] \in Int
      BY <2>2, <3>4 DEF IInv, Cap, Types
    <3> QED
      BY <3>1, <3>2, <3>3, <3>5
  <2>5. PICK Y : Y = Agents \ X
    OBVIOUS
  <2>6. X \cup Y = Agents /\ X \cap Y = {} /\ X \in SUBSET Agents /\ Y \in SUBSET Agents
    BY <2>2, <2>5
  <2>7. IsFiniteSet(X) /\ IsFiniteSet(Y)
    BY <2>6, CapsAssumption, FS_Subset
  <2>8. TokensOn(Agents, d) = Total(H, X)
    BY <2>2, <2>4, <2>6, <2>7, SpentIsTotal
  <2>9. MapThenSumSet(LAMBDA a : measured[<<a, d>>], Agents) = Total(H, Agents)
    BY <2>4, AddedIsTotal
  <2>10. Total(H, Y) = 0
    BY <2>4, <2>5, <2>6, <2>7, TotalZero
  <2>11. Total(H, X \cup Y) = Total(H, X) + Total(H, Y)
    BY <2>4, <2>6, <2>7, TotalUnion
  <2>12. Total(H, X) \in Int
    BY <2>4, <2>6, <2>7, TotalInt
  <2>13. Total(H, Agents) = Total(H, X)
    <3>1. Total(H, X \cup Y) = Total(H, Agents)
      BY <2>6, Zenon
    <3> QED
      BY <2>10, <2>11, <2>12, <3>1
  <2>14. DaySpending <=> TokensOn(Agents, d)
                           = MapThenSumSet(LAMBDA a : measured[<<a, d>>], Agents)
    BY <2>1 DEF DaySpending
  <2> QED
    BY <2>8, <2>9, <2>13, <2>14
<1> QED
  BY <1>1, IInvHolds, PTL
=============================================================================
