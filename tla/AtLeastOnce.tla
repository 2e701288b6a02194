---------------------------- MODULE AtLeastOnce ----------------------------
(***************************************************************************)
(* What reading Kafka with manual commits promises: the records of each    *)
(* partition are handled in order and none is skipped, a handled record    *)
(* may append records to any partition, the committed offset covers only   *)
(* records that were handled, and a restart resumes at the committed       *)
(* offset, so a record is handled again but never lost.  TaskFlow is shown *)
(* to implement this specification.                                        *)
(***************************************************************************)
EXTENDS Naturals

CONSTANT Partitions

VARIABLES produced,   \* records written to each partition
          cursor,     \* records handled, counted since the last rewind
          committed   \* the offset the broker stores

vars == <<produced, cursor, committed>>

Init == /\ produced = [t \in Partitions |-> 0]
        /\ cursor = [t \in Partitions |-> 0]
        /\ committed = [t \in Partitions |-> 0]

\* Partitions are append-only.
Grow == /\ produced' \in [Partitions -> Nat]
        /\ \A t \in Partitions : produced'[t] >= produced[t]

Produce == Grow /\ UNCHANGED <<cursor, committed>>

Handle(t) == /\ cursor[t] < produced[t]
             /\ cursor' = [cursor EXCEPT ![t] = @ + 1]
             /\ Grow
             /\ UNCHANGED committed

Commit(t) == /\ committed[t] < cursor[t]
             /\ \E n \in committed[t] + 1 .. cursor[t] :
                  committed' = [committed EXCEPT ![t] = n]
             /\ UNCHANGED <<produced, cursor>>

Rewind == cursor' = committed /\ UNCHANGED <<produced, committed>>

Next == \/ Produce
        \/ \E t \in Partitions : Handle(t) \/ Commit(t)
        \/ Rewind

Spec == Init /\ [][Next]_vars

=============================================================================
