------------------------------- MODULE Ingestion -------------------------------
(***************************************************************************)
(* The ingestion service for one channel: each datagram is handled by an    *)
(* asyncio task of its own, which tracks the sequence number, updates the   *)
(* state of the channel and pushes the packets on a capped list in Redis;   *)
(* the flusher moves the list to the database (services/ingestion).         *)
(*                                                                          *)
(* The keys of different channels are disjoint, so one channel is enough.   *)
(* A step is one Redis command or one insert.  Datagrams come in any order, *)
(* twice or never: a new task has any sequence number, which also covers a  *)
(* communication node that starts again at 1.                               *)
(***************************************************************************)
EXTENDS Naturals, Sequences, FiniteSets

CONSTANTS
    Task,       \* datagrams received, each with its task
    MaxSeq,     \* bound: sequence numbers are 1..MaxSeq
    Size,       \* the possible numbers of packets of a batch
    MaxLen,     \* redis_udp_buffer_max_len
    Threshold,  \* sequence_reset_threshold
    MaxFaults   \* bound: errors and restarts

ASSUME IngestionAssumption ==
    /\ MaxSeq \in Nat /\ MaxLen \in Nat /\ Threshold \in Nat /\ MaxFaults \in Nat
    /\ Size \subseteq Nat

VARIABLES
    \* --- one task per datagram ---
    pc,         \* its next command
    seq,        \* the sequence number of its batch, until it is not needed
    size,       \* the number of its packets, until the task ends
    seen,       \* the last sequence number it has read, until it is not needed
    \* --- Redis ---
    last,       \* channel:seq:{ch}, 0 when there is no key
    buffer,     \* udp:buffer:{ch}: the task of each packet, newest first
    \* --- the flusher, a task of the same process ---
    registered, \* the channel is in _active_channels
    hand,       \* the packets popped and not yet inserted
    \* --- TimescaleDB ---
    stored,     \* packets of each task in packet_flows
    \* --- history ---
    base,       \* the baseline: the number that was stored without a comparison
    advanced,   \* batches since the baseline that raised last
    dropped,    \* batches the tracker has reported dropped since then
    uncounted,  \* numbers since then that a SET passed whose task did not return
    seqOverlap, \* since the baseline two tasks were between the GET and the SET at
                \* a time, or one was when Redis lost the key
    loose,      \* tasks between the LLEN and the LPUSH that another one overlapped
                \* there, or whose batch is as large as the cap
    capLoose,   \* the last push was one of those, and nothing was popped since
    forgotten,  \* the service was restarted and the channel has not sent since
    faults

tasks     == <<pc, seq, size, seen>>
counts    == <<base, advanced, dropped, uncounted>>
tracker   == <<last, counts, seqOverlap>>
list      == <<buffer, loose, capLoose>>
flusher   == <<registered, hand, stored>>
ivars     == <<tasks, tracker, list, flusher, forgotten, faults>>

None      == 0
TaskSteps == {"get", "set", "state", "len", "trim", "push"}

IInit ==
    /\ pc = [t \in Task |-> "new"]
    /\ seq = [t \in Task |-> 0] /\ size = [t \in Task |-> 0] /\ seen = [t \in Task |-> None]
    /\ last = None /\ base = None /\ advanced = 0 /\ dropped = 0 /\ uncounted = 0
    /\ buffer = <<>> /\ hand = <<>> /\ stored = [t \in Task |-> 0]
    /\ registered = FALSE /\ forgotten = FALSE
    /\ seqOverlap = FALSE /\ loose = {} /\ capLoose = FALSE /\ faults = 0

Goto(t, step) == pc' = [pc EXCEPT ![t] = step]

\* The task is past process_sequence.
Tracked(t) ==
    /\ Goto(t, "state")
    /\ seq' = [seq EXCEPT ![t] = 0] /\ seen' = [seen EXCEPT ![t] = None]

\* The task has ended.
End(t, step) == Goto(t, step) /\ size' = [size EXCEPT ![t] = 0]

\* Some other task is at one of these steps.
OtherAt(t, steps) == \E u \in Task \ {t} : pc[u] \in steps

(***************************************************************************)
(* A datagram.                                                              *)
(***************************************************************************)
\* Mutation of Receive: the flusher is not told of the channel.
ReceiveUnregistered(t, s, n) ==
    /\ pc[t] = "new"
    /\ Goto(t, "get")
    /\ seq' = [seq EXCEPT ![t] = s] /\ size' = [size EXCEPT ![t] = n]
    /\ forgotten' = FALSE
    /\ UNCHANGED <<seen, tracker, list, flusher, faults>>

\* A valid batch arrives: its task registers the channel with the flusher.
Receive(t, s, n) ==
    /\ pc[t] = "new"
    /\ Goto(t, "get")
    /\ seq' = [seq EXCEPT ![t] = s] /\ size' = [size EXCEPT ![t] = n]
    /\ registered' = TRUE /\ forgotten' = FALSE
    /\ UNCHANGED <<seen, tracker, list, hand, stored, faults>>

(***************************************************************************)
(* The sequence tracker.                                                    *)
(***************************************************************************)
\* Is the number s stored as a baseline, without a comparison?
Baseline(previous, s) == previous = None \/ previous > s + Threshold

\* Mutation of Advances: an old number is treated like a new one.
AdvancesAlways(previous, s) == ~Baseline(previous, s)

Advances(previous, s) == ~Baseline(previous, s) /\ s > previous

\* Mutation of Gap: off by one.
GapOffByOne(previous, s) == s - previous

\* The numbers skipped between previous and s.
Gap(previous, s) == s - (previous + 1)

\* process_sequence: GET of the last number; an old one is ignored.
SeqGet(t) ==
    /\ pc[t] = "get"
    /\ \/ /\ Baseline(last, seq[t]) \/ Advances(last, seq[t])
          /\ Goto(t, "set")
          /\ seen' = [seen EXCEPT ![t] = last]
          /\ seqOverlap' = (seqOverlap \/ OtherAt(t, {"set"}))
          /\ UNCHANGED seq
       \/ /\ ~Baseline(last, seq[t]) /\ ~Advances(last, seq[t])
          /\ Tracked(t)
          /\ UNCHANGED seqOverlap
    /\ UNCHANGED <<size, last, counts, list, flusher, forgotten, faults>>

\* The number is a baseline: the accounting starts anew from it.
Rebase(t) ==
    /\ Baseline(seen[t], seq[t])
    /\ base' = seq[t] /\ advanced' = 0 /\ dropped' = 0 /\ uncounted' = 0
    /\ seqOverlap' = (seqOverlap /\ OtherAt(t, {"set"}))

\* SET, and what process_sequence returns for the number read before.
SeqSet(t) ==
    /\ pc[t] = "set"
    /\ Tracked(t)
    /\ last' = seq[t]
    /\ \/ Rebase(t)
       \/ /\ Advances(seen[t], seq[t])
          /\ advanced' = advanced + 1
          /\ dropped' = dropped + Gap(seen[t], seq[t])
          /\ UNCHANGED <<base, uncounted, seqOverlap>>
    /\ UNCHANGED <<size, list, flusher, forgotten, faults>>

\* Redis executes the SET, and the task ends before it returns the gap: the reply
\* is lost, or the service is killed.
SetUnanswered(t) ==
    /\ pc[t] = "set"
    /\ faults < MaxFaults /\ faults' = faults + 1
    /\ End(t, "failed")
    /\ seq' = [seq EXCEPT ![t] = 0] /\ seen' = [seen EXCEPT ![t] = None]
    /\ last' = seq[t]
    /\ \/ Rebase(t)
       \/ /\ Advances(seen[t], seq[t])
          /\ uncounted' = uncounted + (seq[t] - seen[t])
          /\ UNCHANGED <<base, advanced, dropped, seqOverlap>>
    /\ UNCHANGED <<list, flusher, forgotten>>

\* The rest of process_batch; a batch without packets ends here.
StateUpdate(t) ==
    /\ pc[t] = "state"
    /\ \/ size[t] = 0 /\ End(t, "done")
       \/ size[t] > 0 /\ Goto(t, "len") /\ UNCHANGED size
    /\ UNCHANGED <<seq, seen, tracker, list, flusher, forgotten, faults>>

(***************************************************************************)
(* The capped list.                                                         *)
(***************************************************************************)
Smaller(m, n) == IF m < n THEN m ELSE n

\* LTRIM key 0 keep-1.  For keep = 0 the end is -1, the last element.
Trim(b, keep) == IF keep = 0 THEN b ELSE SubSeq(b, 1, Smaller(keep, Len(b)))

Pending        == {u \in Task : pc[u] \in {"trim", "push"}}
Overlapping(t) == IF Pending = {} THEN {} ELSE Pending \cup {t}

\* push_packets: LLEN, and the decision to push, to trim first or to give up.
BufLen(t) ==
    /\ pc[t] = "len"
    /\ \/ /\ Len(buffer) + size[t] <= MaxLen
          /\ Goto(t, "push")
          /\ loose' = loose \cup Overlapping(t)
          /\ UNCHANGED size
       \/ /\ Len(buffer) + size[t] > MaxLen /\ size[t] <= MaxLen
          /\ Goto(t, "trim")
          /\ loose' = loose \cup Overlapping(t) \cup {u \in {t} : size[u] = MaxLen}
          /\ UNCHANGED size
       \/ /\ Len(buffer) + size[t] > MaxLen /\ size[t] > MaxLen
          /\ End(t, "done")
          /\ UNCHANGED loose
    /\ UNCHANGED <<seq, seen, tracker, buffer, capLoose, flusher, forgotten, faults>>

\* Mutation of BufTrim: one packet too many is kept.
BufTrimOffByOne(t) ==
    /\ pc[t] = "trim"
    /\ Goto(t, "push")
    /\ buffer' = Trim(buffer, MaxLen - size[t] + 1)
    /\ UNCHANGED <<seq, size, seen, tracker, loose, capLoose, flusher, forgotten, faults>>

BufTrim(t) ==
    /\ pc[t] = "trim"
    /\ Goto(t, "push")
    /\ buffer' = Trim(buffer, MaxLen - size[t])
    /\ UNCHANGED <<seq, size, seen, tracker, loose, capLoose, flusher, forgotten, faults>>

\* LPUSH.  A push that is executed and whose answer is lost is this step as well:
\* nothing comes after it.
BufPush(t) ==
    /\ pc[t] = "push"
    /\ End(t, "done")
    /\ buffer' = [i \in 1..size[t] |-> t] \o buffer
    /\ capLoose' = (t \in loose) /\ loose' = loose \ {t}
    /\ UNCHANGED <<seq, seen, tracker, flusher, forgotten, faults>>

\* A Redis error ends the task: what comes after it is not done.
TaskFail(t) ==
    /\ pc[t] \in TaskSteps
    /\ faults < MaxFaults /\ faults' = faults + 1
    /\ End(t, "failed")
    /\ seq' = [seq EXCEPT ![t] = 0] /\ seen' = [seen EXCEPT ![t] = None]
    /\ loose' = loose \ {t}
    /\ UNCHANGED <<tracker, buffer, capLoose, flusher, forgotten>>

(***************************************************************************)
(* The flusher.                                                             *)
(***************************************************************************)
PacketsOf(t, b) == Cardinality({i \in DOMAIN b : b[i] = t})

\* Mutation of FPop: the script does not delete the list.
FPopKeeps ==
    /\ hand = <<>> /\ registered
    /\ buffer # <<>>
    /\ hand' = buffer
    /\ UNCHANGED <<tasks, tracker, list, registered, stored, forgotten, faults>>

\* atomic_buffer_pop: LRANGE and DEL in one script.
FPop ==
    /\ hand = <<>> /\ registered
    /\ buffer # <<>>
    /\ hand' = buffer
    /\ buffer' = <<>> /\ capLoose' = FALSE
    /\ UNCHANGED <<tasks, tracker, loose, registered, stored, forgotten, faults>>

\* executemany inserts all records in one transaction.
FInsert ==
    /\ hand # <<>>
    /\ stored' = [t \in Task |-> stored[t] + PacketsOf(t, hand)]
    /\ hand' = <<>>
    /\ UNCHANGED <<tasks, tracker, list, registered, forgotten, faults>>

\* The insert fails: the packets are no longer in Redis and are lost.
FInsertFail ==
    /\ hand # <<>>
    /\ faults < MaxFaults /\ faults' = faults + 1
    /\ hand' = <<>>
    /\ UNCHANGED <<tasks, tracker, list, registered, stored, forgotten>>

(***************************************************************************)
(* Restarts.                                                                *)
(***************************************************************************)
\* The service dies with its tasks, its channel set and what it has popped.
Restart ==
    /\ faults < MaxFaults /\ faults' = faults + 1
    /\ forgotten' = TRUE
    /\ pc' = [t \in Task |-> IF pc[t] \in TaskSteps THEN "failed" ELSE pc[t]]
    /\ seq' = [t \in Task |-> 0] /\ size' = seq' /\ seen' = seq'
    /\ registered' = FALSE /\ hand' = <<>> /\ loose' = {}
    /\ UNCHANGED <<tracker, buffer, capLoose, stored>>

\* Redis keeps nothing on disk.
RedisRestart ==
    /\ faults < MaxFaults /\ faults' = faults + 1
    /\ last' = None /\ buffer' = <<>> /\ capLoose' = FALSE
    /\ base' = None /\ advanced' = 0 /\ dropped' = 0 /\ uncounted' = 0
    /\ seqOverlap' = \E t \in Task : pc[t] = "set"
    /\ UNCHANGED <<tasks, loose, flusher, forgotten>>

(***************************************************************************)
(* The specification.                                                       *)
(***************************************************************************)
TaskStep(t) ==
    \/ SeqGet(t) \/ SeqSet(t) \/ StateUpdate(t)
    \/ BufLen(t) \/ BufTrim(t) \/ BufPush(t)

INext ==
    \/ \E t \in Task :
        \/ \E s \in 1..MaxSeq, n \in Size : Receive(t, s, n)
        \/ TaskStep(t) \/ TaskFail(t) \/ SetUnanswered(t)
    \/ FPop \/ FInsert \/ FInsertFail
    \/ Restart \/ RedisRestart

ISpec == IInit /\ [][INext]_ivars

\* The event loop runs what is ready; the flusher wakes up every
\* FLUSH_INTERVAL_SEC.  Nothing is assumed of the network.
IFairSpec == ISpec /\ WF_ivars(FPop) /\ WF_ivars(FInsert)

(***************************************************************************)
(* Properties.                                                              *)
(***************************************************************************)
\* The keys, the locals of the tasks and the counters keep their shape; in
\* particular the number of drops is never negative.
ITypeOK ==
    /\ pc \in [Task -> TaskSteps \cup {"new", "done", "failed"}]
    /\ seq \in [Task -> Nat] /\ size \in [Task -> Nat] /\ seen \in [Task -> Nat]
    /\ \A t \in Task : pc[t] \in {"trim", "push"} => size[t] <= MaxLen
    /\ last \in Nat /\ base \in Nat
    /\ advanced \in Nat /\ dropped \in Nat /\ uncounted \in Nat
    /\ buffer \in Seq(Task) /\ hand \in Seq(Task) /\ stored \in [Task -> Nat]
    /\ registered \in BOOLEAN /\ forgotten \in BOOLEAN
    /\ seqOverlap \in BOOLEAN /\ loose \subseteq Task /\ capLoose \in BOOLEAN
    /\ faults \in 0..MaxFaults

\* Every number between the baseline and the last one is accounted for exactly
\* once, as received, as dropped, or as passed by a SET whose task failed, whatever
\* is lost, duplicated or reordered on the network.  Two tasks between GET and SET
\* at a time can break it, and a loss of the key between the two, but only until
\* the next baseline that no other task overlaps (sequence_tracker.py:52-99).
DropsAccounted ==
    ~seqOverlap /\ last # None => last = base + advanced + dropped + uncounted

\* Two tasks between LLEN and LPUSH at a time, or a batch as large as the cap, for
\* which LTRIM trims nothing, can push the list over its cap, but only until the
\* next push that none overlaps, which must see it and trim, or the next pop
\* (buffer_manager.py:83-112).
BufferCapped == ~capLoose => Len(buffer) <= MaxLen

\* A packet is stored at most once and is never in two places, whatever fails or
\* is restarted: the service implements the conveyor.
C == INSTANCE Conveyor WITH
        Batch   <- Task,
        waiting <- [t \in Task |-> PacketsOf(t, buffer)],
        taken   <- [t \in Task |-> PacketsOf(t, hand)],
        entered <- {t \in Task : pc[t] = "done"}

ImplementsConveyor == C!Spec

\* Packets on the list leave it.  A restart of the service makes it forget the
\* channel: they then wait until the channel sends again, and no longer
\* (flusher.py:39, 86-95).
BufferEventuallyFlushed == buffer # <<>> ~> (buffer = <<>> \/ forgotten)
=============================================================================
