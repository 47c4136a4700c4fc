----------------------------- MODULE QueryIngest -----------------------------
(***************************************************************************)
(* What the Pi-hole poller promises while nobody changes its settings: a   *)
(* batch is a run of consecutive queries that ends at the new cursor, each *)
(* stored once, and nothing but the cap on one answer leaves a gap after   *)
(* the first batch.                                                        *)
(***************************************************************************)
EXTENDS Integers

CONSTANTS MaxId,       \* bound: queries of the Pi-hole
          FetchLimit   \* the cap on one answer

VARIABLES recorded,    \* queries the Pi-hole has recorded
          stored,      \* stored[i]: log rows made from query i
          cursor       \* the last query dealt with

Init ==
    /\ recorded = 0
    /\ stored = [i \in 1..MaxId |-> 0]
    /\ cursor = 0

Record ==
    /\ recorded < MaxId
    /\ recorded' = recorded + 1
    /\ UNCHANGED <<stored, cursor>>

Store(low, high) ==
    /\ cursor <= low /\ low < high /\ high <= recorded
    /\ cursor = 0 \/ low = cursor \/ low = high - FetchLimit
    /\ stored' = [i \in 1..MaxId |->
                     stored[i] + (IF low < i /\ i <= high THEN 1 ELSE 0)]
    /\ cursor' = high
    /\ UNCHANGED recorded

Next == Record \/ \E low, high \in 0..MaxId : Store(low, high)

Spec == Init /\ [][Next]_<<recorded, stored, cursor>>
=============================================================================
