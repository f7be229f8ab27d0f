-------------------------------- MODULE Conveyor --------------------------------
(***************************************************************************)
(* What the ingestion service promises about the packets of its batches:    *)
(* a packet waits, is taken out to be stored, and is stored.  It may be     *)
(* lost on the way, but it is never stored twice, and what is stored stays. *)
(***************************************************************************)
EXTENDS Naturals

CONSTANT Batch      \* received batches

VARIABLES
    waiting,    \* packets of each batch that wait to be stored
    taken,      \* packets of each batch that are being stored
    stored,     \* packets of each batch in the database
    entered     \* batches whose packets have entered the conveyor

vars == <<waiting, taken, stored, entered>>

Nothing == [b \in Batch |-> 0]

Init == waiting = Nothing /\ taken = Nothing /\ stored = Nothing /\ entered = {}

\* The packets of a batch enter, all at once and only once.
Enter(b) ==
    /\ b \notin entered
    /\ entered' = entered \cup {b}
    /\ waiting'[b] \in Nat
    /\ waiting' = [waiting EXCEPT ![b] = waiting'[b]]
    /\ UNCHANGED <<taken, stored>>

\* All that waits is taken, when what was taken before is out of the way.
Take ==
    /\ taken = Nothing
    /\ taken' = waiting
    /\ waiting' = Nothing
    /\ UNCHANGED <<stored, entered>>

Store ==
    /\ stored' = [b \in Batch |-> stored[b] + taken[b]]
    /\ taken' = Nothing
    /\ UNCHANGED <<waiting, entered>>

\* Packets that wait, or all that are taken, are lost.
Lose ==
    /\ waiting' \in [Batch -> Nat] /\ \A b \in Batch : waiting'[b] <= waiting[b]
    /\ taken' \in {taken, Nothing}
    /\ UNCHANGED <<stored, entered>>

Next == (\E b \in Batch : Enter(b)) \/ Take \/ Store \/ Lose

Spec == Init /\ [][Next]_vars
=============================================================================
