----------------------------- MODULE ConnSlots -----------------------------
(***************************************************************************)
(* What a keyed connection cache promises, whatever its locking: each key  *)
(* has at most one shared connection, a connection is dialled privately,   *)
(* shared at most once, and once it has left its slot it is never shared   *)
(* again and is closed.  The program has several such caches (the SSH      *)
(* pool, the per-send AI caches, the query panel caches, the Kafka client  *)
(* manager); the detailed modules implement this one.                      *)
(***************************************************************************)
CONSTANTS Keys,     \* what connections are cached by: asset ids, "asset:database"
          Conns,    \* identities of the connections ever dialled
          None

VARIABLES slot,     \* slot[k]: the connection shared under k, or None
          stage     \* stage[c]: where c is in its life

vars == <<slot, stage>>

Stages == {"fresh", "private", "shared", "retired", "closed"}

SlotsTypeOK == /\ slot \in [Keys -> Conns \cup {None}]
               /\ stage \in [Conns -> Stages]

Init == /\ slot = [k \in Keys |-> None]
        /\ stage = [c \in Conns |-> "fresh"]

\* A caller dials: the connection is its own until it is installed.
Open(c) == /\ stage[c] = "fresh"
           /\ stage' = [stage EXCEPT ![c] = "private"]
           /\ UNCHANGED slot

\* A privately dialled connection becomes the shared one of a vacant key.
Install(k, c) == /\ slot[k] = None
                 /\ stage[c] = "private"
                 /\ slot' = [slot EXCEPT ![k] = c]
                 /\ stage' = [stage EXCEPT ![c] = "shared"]

\* A shared connection leaves its slot; whoever took it out must close it.
Retire(k, c) == /\ slot[k] = c
                /\ stage[c] = "shared"
                /\ slot' = [slot EXCEPT ![k] = None]
                /\ stage' = [stage EXCEPT ![c] = "retired"]

\* A connection out of every slot is closed.
Discard(c) == /\ stage[c] \in {"private", "retired"}
              /\ stage' = [stage EXCEPT ![c] = "closed"]
              /\ UNCHANGED slot

\* A shared connection is taken out and closed in one critical section.
Evict(k, c) == /\ slot[k] = c
               /\ stage[c] = "shared"
               /\ slot' = [slot EXCEPT ![k] = None]
               /\ stage' = [stage EXCEPT ![c] = "closed"]

\* Several keys are emptied at once; shut are those closed while shared.
Clear(keys, shut) ==
  /\ slot' = [k \in Keys |-> IF k \in keys THEN None ELSE slot[k]]
  /\ stage' = [c \in Conns |->
                 IF stage[c] # "shared" \/ \A k \in keys : slot[k] # c THEN stage[c]
                 ELSE IF c \in shut THEN "closed" ELSE "retired"]

Next == \/ \E keys \in SUBSET Keys, shut \in SUBSET Conns : Clear(keys, shut)
        \/ \E c \in Conns : \/ Open(c)
                            \/ Discard(c)
                            \/ \E k \in Keys : Install(k, c) \/ Retire(k, c) \/ Evict(k, c)

Safety == Init /\ [][Next]_vars

\* A connection that is in nobody's slot does not stay open for ever.
Reclaimed == \A c \in Conns : stage[c] \in {"private", "retired"}
                                 ~> stage[c] \in {"shared", "closed"}

Spec == Safety /\ Reclaimed
=============================================================================
