---------------------------- MODULE IngestionProofs ----------------------------
(***************************************************************************)
(* Safety of Ingestion for any datagrams, sizes, cap and threshold: types,  *)
(* the accounting of sequence numbers, the cap of the list, and that the    *)
(* service implements the conveyor.                                         *)
(***************************************************************************)
EXTENDS Ingestion, TLAPS, FiniteSetTheorems, SequenceTheorems

USE IngestionAssumption DEF IngestionAssumption

(***************************************************************************)
(* Type correctness.                                                        *)
(***************************************************************************)
\* The number of packets of a task in a list is a natural number.
LEMMA PacketsOfType ==
    ASSUME NEW b \in Seq(Task), NEW t \in Task
    PROVE  PacketsOf(t, b) \in Nat
<1>1. IsFiniteSet(DOMAIN b)
  <2>1. DOMAIN b = 1..Len(b) /\ Len(b) \in Nat  OBVIOUS
  <2>2. QED  BY <2>1, FS_Interval
<1>2. IsFiniteSet({i \in DOMAIN b : b[i] = t})  BY <1>1, FS_Subset
<1>3. QED  BY <1>2, FS_CardinalityType DEF PacketsOf

\* LTRIM keeps a list a list, and it keeps at most what it is told to keep.
LEMMA TrimType ==
    ASSUME NEW b \in Seq(Task), NEW keep \in Nat
    PROVE  /\ Trim(b, keep) \in Seq(Task)
           /\ keep > 0 => Len(Trim(b, keep)) <= keep
           /\ Len(Trim(b, keep)) <= Len(b)
<1>1. CASE keep = 0  BY <1>1 DEF Trim
<1>2. CASE keep > 0
  <2> DEFINE n == Smaller(keep, Len(b))
  <2>1. n \in 0..Len(b) /\ n <= keep  BY DEF Smaller
  <2>2. SubSeq(b, 1, n) \in Seq(Task) /\ Len(SubSeq(b, 1, n)) = n
    <3>1. n \in Nat /\ \A i \in 1..n : b[i] \in Task  BY <2>1
    <3>2. SubSeq(b, 1, n) \in Seq(Task) /\ Len(SubSeq(b, 1, n)) = IF 1 <= n THEN n - 1 + 1 ELSE 0
      BY <3>1, SubSeqProperties
    <3>3. QED  BY <3>1, <3>2
  <2>3. Trim(b, keep) = SubSeq(b, 1, n)
    <3>1. keep # 0  BY <1>2
    <3>2. QED  BY <3>1, Zenon DEF Trim
  <2>4. QED  BY <1>2, <2>1, <2>2, <2>3
<1>3. QED  BY <1>1, <1>2

\* LPUSH adds exactly the packets of the batch.
LEMMA PushType ==
    ASSUME NEW b \in Seq(Task), NEW t \in Task, NEW n \in Nat
    PROVE  /\ [i \in 1..n |-> t] \o b \in Seq(Task)
           /\ Len([i \in 1..n |-> t] \o b) = n + Len(b)
<1>1. [i \in 1..n |-> t] \in Seq(Task) /\ Len([i \in 1..n |-> t]) = n  OBVIOUS
<1>2. QED  BY <1>1

LEMMA EmptyList == <<>> \in Seq(Task) /\ Len(<<>>) = 0
OBVIOUS

\* A baseline starts the accounting anew.
LEMMA RebaseType ==
    ASSUME ITypeOK, NEW t \in Task, Rebase(t)
    PROVE  /\ base' \in Nat /\ advanced' \in Nat /\ dropped' \in Nat /\ uncounted' \in Nat
           /\ seqOverlap' \in BOOLEAN
<1>1. (seqOverlap /\ OtherAt(t, {"set"})) \in BOOLEAN  BY DEF ITypeOK
<1>2. seqOverlap' \in BOOLEAN  BY <1>1 DEF Rebase
<1>3. QED  BY <1>2 DEF Rebase, ITypeOK

LEMMA TypeInit == IInit => ITypeOK
<1> SUFFICES ASSUME IInit PROVE ITypeOK  OBVIOUS
<1>1. /\ pc \in [Task -> TaskSteps \cup {"new", "done", "failed"}]
      /\ \A t \in Task : pc[t] = "new"
  BY DEF IInit
<1>2. seq \in [Task -> Nat] /\ size \in [Task -> Nat] /\ seen \in [Task -> Nat]
  BY DEF IInit, None
<1>3. stored \in [Task -> Nat] /\ buffer \in Seq(Task) /\ hand \in Seq(Task)
  BY EmptyList DEF IInit
<1>4. /\ last \in Nat /\ base \in Nat /\ advanced \in Nat /\ dropped \in Nat
      /\ uncounted \in Nat /\ faults \in 0..MaxFaults
  BY DEF IInit, None
<1>5. QED  BY <1>1, <1>2, <1>3, <1>4 DEF IInit, ITypeOK

LEMMA TypeNext == ITypeOK /\ [INext]_ivars => ITypeOK'
<1> SUFFICES ASSUME ITypeOK, [INext]_ivars PROVE ITypeOK'  OBVIOUS
<1> USE DEF ITypeOK, TaskSteps, Goto, End, Tracked, None, counts
<1>1. ASSUME NEW t \in Task, NEW s \in 1..MaxSeq, NEW n \in Size, Receive(t, s, n)
      PROVE  ITypeOK'
  <2>1. /\ pc' \in [Task -> TaskSteps \cup {"new", "done", "failed"}]
        /\ \A u \in Task : pc'[u] \in {"trim", "push"} => pc[u] = pc'[u] /\ u # t
    BY <1>1 DEF Receive
  <2>2. seq' \in [Task -> Nat] /\ size' \in [Task -> Nat]
        /\ \A u \in Task \ {t} : size'[u] = size[u]
    BY <1>1 DEF Receive
  <2>3. QED  BY <1>1, <2>1, <2>2 DEF Receive, tracker, list
<1>2. ASSUME NEW t \in Task, SeqGet(t) PROVE ITypeOK'
  <2>1. (seqOverlap \/ OtherAt(t, {"set"})) \in BOOLEAN  OBVIOUS
  <2>2. seqOverlap' \in BOOLEAN  BY <1>2, <2>1 DEF SeqGet
  <2>3. /\ pc' \in [Task -> TaskSteps \cup {"new", "done", "failed"}]
        /\ seq' \in [Task -> Nat] /\ seen' \in [Task -> Nat] /\ size' = size
        /\ \A u \in Task : pc'[u] \in {"trim", "push"} => pc[u] \in {"trim", "push"}
    <3>1. CASE Goto(t, "set") /\ seen' = [seen EXCEPT ![t] = last] /\ UNCHANGED seq
      BY <1>2, <3>1 DEF SeqGet
    <3>2. CASE Tracked(t)
      BY <1>2, <3>2 DEF SeqGet
    <3>3. QED  BY <1>2, <3>1, <3>2 DEF SeqGet
  <2>4. QED  BY <1>2, <2>2, <2>3 DEF SeqGet, list, flusher
<1>3. ASSUME NEW t \in Task, SeqSet(t) PROVE ITypeOK'
  <2>1. Advances(seen[t], seq[t]) => Gap(seen[t], seq[t]) \in Nat
    BY DEF Advances, Gap
  <2>2. /\ base' \in Nat /\ advanced' \in Nat /\ dropped' \in Nat /\ uncounted' \in Nat
        /\ seqOverlap' \in BOOLEAN
    <3>1. CASE Rebase(t)  BY <3>1, RebaseType
    <3>2. CASE /\ Advances(seen[t], seq[t]) /\ advanced' = advanced + 1
               /\ dropped' = dropped + Gap(seen[t], seq[t])
               /\ UNCHANGED <<base, uncounted, seqOverlap>>
      BY <2>1, <3>2
    <3>3. QED  BY <1>3, <3>1, <3>2 DEF SeqSet
  <2>3. QED  BY <1>3, <2>2, SMTT(20) DEF SeqSet, list, flusher
<1>4. ASSUME NEW t \in Task, StateUpdate(t) PROVE ITypeOK'
  BY <1>4 DEF StateUpdate, tracker, list, flusher
<1>5. ASSUME NEW t \in Task, BufLen(t) PROVE ITypeOK'
  <2>1. loose' \subseteq Task
    <3>1. Overlapping(t) \subseteq Task  BY DEF Overlapping, Pending
    <3>2. QED  BY <1>5, <3>1 DEF BufLen
  <2>2. Len(buffer) \in Nat  OBVIOUS
  <2>3. /\ pc' \in [Task -> TaskSteps \cup {"new", "done", "failed"}]
        /\ size' \in [Task -> Nat]
        /\ \A u \in Task : pc'[u] \in {"trim", "push"} => size'[u] <= MaxLen
    <3>1. CASE Len(buffer) + size[t] <= MaxLen /\ Goto(t, "push") /\ UNCHANGED size
      BY <2>2, <3>1
    <3>2. CASE size[t] <= MaxLen /\ Goto(t, "trim") /\ UNCHANGED size
      BY <3>2
    <3>3. CASE End(t, "done")
      BY <3>3
    <3>4. QED  BY <1>5, <3>1, <3>2, <3>3 DEF BufLen
  <2>4. QED  BY <1>5, <2>1, <2>3 DEF BufLen, tracker, flusher
<1>6. ASSUME NEW t \in Task, BufTrim(t) PROVE ITypeOK'
  <2>1. MaxLen - size[t] \in Nat  BY <1>6 DEF BufTrim
  <2>2. Trim(buffer, MaxLen - size[t]) \in Seq(Task)  BY <2>1, TrimType
  <2>3. buffer' \in Seq(Task)  BY <1>6, <2>2 DEF BufTrim
  <2>4. QED  BY <1>6, <2>3 DEF BufTrim, tracker, flusher
<1>7. ASSUME NEW t \in Task, BufPush(t) PROVE ITypeOK'
  <2>1. buffer' \in Seq(Task)  BY <1>7, PushType DEF BufPush
  <2>2. capLoose' \in BOOLEAN /\ loose' \subseteq Task
    <3>1. (t \in loose) \in BOOLEAN  OBVIOUS
    <3>2. QED  BY <1>7, <3>1 DEF BufPush
  <2>3. QED  BY <1>7, <2>1, <2>2 DEF BufPush, tracker, flusher
<1>8. ASSUME NEW t \in Task, TaskFail(t) PROVE ITypeOK'
  BY <1>8, SMTT(20) DEF TaskFail, tracker, list, flusher
<1>9. CASE FPop
  BY <1>9, EmptyList DEF FPop, tasks, tracker
<1>10. CASE FInsert
  <2>1. \A t \in Task : PacketsOf(t, hand) \in Nat  BY PacketsOfType
  <2>2. stored' \in [Task -> Nat]
    <3>1. stored \in [Task -> Nat]  OBVIOUS
    <3>2. stored' = [t \in Task |-> stored[t] + PacketsOf(t, hand)]  BY <1>10 DEF FInsert
    <3>3. QED  BY ONLY <2>1, <3>1, <3>2
  <2>3. hand' \in Seq(Task)  BY <1>10, EmptyList DEF FInsert
  <2>4. UNCHANGED <<pc, seq, size, seen, seqOverlap, loose, capLoose, last, base, advanced,
                    dropped, uncounted, buffer, registered, forgotten, faults>>
    BY <1>10 DEF FInsert, tasks, tracker, list
  <2>5. QED  BY <2>2, <2>3, <2>4
<1>11. CASE FInsertFail
  BY <1>11, EmptyList DEF FInsertFail, tasks, tracker, list
<1>12. CASE Restart
  <2>1. /\ pc' \in [Task -> TaskSteps \cup {"new", "done", "failed"}]
        /\ \A u \in Task : pc'[u] \notin {"trim", "push"}
    BY <1>12 DEF Restart
  <2>2. seq' \in [Task -> Nat] /\ size' \in [Task -> Nat] /\ seen' \in [Task -> Nat]
    BY <1>12 DEF Restart
  <2>3. faults' \in 0..MaxFaults  BY <1>12 DEF Restart
  <2>4. /\ UNCHANGED <<tracker, buffer, capLoose, stored>> /\ loose' \subseteq Task
        /\ registered' = FALSE /\ forgotten' = TRUE /\ hand' \in Seq(Task)
    BY <1>12, EmptyList DEF Restart
  <2>5. QED  BY <2>1, <2>2, <2>3, <2>4 DEF tracker
<1>13. CASE RedisRestart
  <2>1. (\E t \in Task : pc[t] = "set") \in BOOLEAN  OBVIOUS
  <2>2. seqOverlap' \in BOOLEAN  BY <1>13, <2>1 DEF RedisRestart
  <2>3. /\ last' \in Nat /\ base' \in Nat /\ advanced' \in Nat /\ dropped' \in Nat
        /\ uncounted' \in Nat /\ faults' \in 0..MaxFaults /\ capLoose' \in BOOLEAN
    <3>1. /\ last' = None /\ base' = None /\ advanced' = 0 /\ dropped' = 0 /\ uncounted' = 0
          /\ capLoose' = FALSE /\ faults < MaxFaults /\ faults' = faults + 1
      BY <1>13, Zenon DEF RedisRestart
    <3>2. faults' \in 0..MaxFaults  BY <3>1
    <3>3. capLoose' \in BOOLEAN  BY <3>1
    <3>4. last' \in Nat /\ base' \in Nat /\ advanced' \in Nat  BY <3>1
    <3>5. dropped' \in Nat /\ uncounted' \in Nat  BY <3>1
    <3>6. QED  BY <3>2, <3>3, <3>4, <3>5
  <2>4. UNCHANGED <<pc, seq, size, seen, loose, registered, hand, stored, forgotten>>
    BY <1>13 DEF RedisRestart, tasks, flusher
  <2>5. buffer' \in Seq(Task)
    <3>1. buffer' = <<>>  BY <1>13 DEF RedisRestart
    <3>2. QED  BY <3>1, EmptyList
  <2>6. QED  BY <2>2, <2>3, <2>4, <2>5
<1>14. CASE UNCHANGED ivars
  BY <1>14 DEF ivars, tasks, tracker, list, flusher
<1>15. ASSUME NEW t \in Task, SetUnanswered(t) PROVE ITypeOK'
  <2>1. Advances(seen[t], seq[t]) => seq[t] - seen[t] \in Nat  BY DEF Advances
  <2>2. /\ base' \in Nat /\ advanced' \in Nat /\ dropped' \in Nat /\ uncounted' \in Nat
        /\ seqOverlap' \in BOOLEAN
    <3>1. CASE Rebase(t)  BY <3>1, RebaseType
    <3>2. CASE /\ Advances(seen[t], seq[t]) /\ uncounted' = uncounted + (seq[t] - seen[t])
               /\ UNCHANGED <<base, advanced, dropped, seqOverlap>>
      BY <2>1, <3>2
    <3>3. QED  BY <1>15, <3>1, <3>2 DEF SetUnanswered
  <2>3. /\ pc' \in [Task -> TaskSteps \cup {"new", "done", "failed"}]
        /\ seq' \in [Task -> Nat] /\ seen' \in [Task -> Nat] /\ size' \in [Task -> Nat]
        /\ \A u \in Task : pc'[u] \in {"trim", "push"} => size'[u] <= MaxLen
    BY <1>15 DEF SetUnanswered
  <2>4. last' \in Nat /\ faults' \in 0..MaxFaults  BY <1>15 DEF SetUnanswered
  <2>5. QED  BY <1>15, <2>2, <2>3, <2>4 DEF SetUnanswered, list, flusher
<1>16. QED
  BY <1>1, <1>2, <1>3, <1>4, <1>5, <1>6, <1>7, <1>8, <1>9, <1>10, <1>11, <1>12, <1>13, <1>14, <1>15
  DEF INext, TaskStep

\* The keys, locals and counters of services/ingestion keep their shape in every
\* instance; no number of drops is negative (sequence_tracker.py:80-85).
THEOREM TypeCorrect == ISpec => []ITypeOK
<1>1. QED  BY TypeInit, TypeNext, PTL DEF ISpec

(***************************************************************************)
(* The accounting of sequence numbers.                                      *)
(***************************************************************************)
\* Without overlap, at most one task is between GET and SET, and what it has
\* read is still the last number.
TrackerInv ==
    ~seqOverlap =>
        /\ \A t, u \in Task : pc[t] = "set" /\ pc[u] = "set" => t = u
        /\ \A t \in Task : pc[t] = "set" => /\ seen[t] = last
                                          /\ \/ Baseline(seen[t], seq[t])
                                             \/ Advances(seen[t], seq[t])

AccountInv == TrackerInv /\ DropsAccounted

LEMMA AccountInit == IInit => AccountInv
BY DEF IInit, AccountInv, TrackerInv, DropsAccounted

LEMMA AccountNext == ITypeOK /\ AccountInv /\ [INext]_ivars => AccountInv'
<1> SUFFICES ASSUME ITypeOK, AccountInv, [INext]_ivars PROVE AccountInv'  OBVIOUS
<1> USE DEF AccountInv, TrackerInv, DropsAccounted, Goto, End, Tracked, counts
<1>1. ASSUME NEW t \in Task, SeqGet(t) PROVE AccountInv'
  <2>1. CASE pc'[t] = "set"
    <3>1. pc' = [pc EXCEPT ![t] = "set"] /\ seen' = [seen EXCEPT ![t] = last] /\ seq' = seq
      BY <1>1, <2>1 DEF SeqGet, ITypeOK
    <3>2. Baseline(last, seq[t]) \/ Advances(last, seq[t])
      BY <1>1, <2>1 DEF SeqGet, ITypeOK
    <3>3. ~seqOverlap' => ~seqOverlap /\ \A u \in Task \ {t} : pc[u] # "set"
      BY <1>1, <2>1 DEF SeqGet, OtherAt, ITypeOK
    <3>4. UNCHANGED <<last, base, advanced, dropped, uncounted>>  BY <1>1 DEF SeqGet
    <3>5. QED  BY <3>1, <3>2, <3>3, <3>4 DEF ITypeOK, Baseline, Advances
  <2>2. CASE pc'[t] # "set"
    <3>1. \A u \in Task : pc'[u] = "set" =>
              pc[u] = "set" /\ seq'[u] = seq[u] /\ seen'[u] = seen[u]
      BY <1>1, <2>2 DEF SeqGet, ITypeOK
    <3>2. UNCHANGED <<seqOverlap, last, base, advanced, dropped, uncounted>>
      BY <1>1, <2>2 DEF SeqGet, ITypeOK
    <3>3. QED  BY <3>1, <3>2 DEF Baseline, Advances
  <2>3. QED  BY <2>1, <2>2
<1>2. ASSUME NEW t \in Task, SeqSet(t) \/ SetUnanswered(t) PROVE AccountInv'
  <2> SUFFICES ASSUME ~seqOverlap' PROVE AccountInv'  OBVIOUS
  <2>1. pc[t] = "set" /\ pc'[t] # "set" /\ last' = seq[t] /\ \A u \in Task \ {t} : pc'[u] = pc[u]
    BY <1>2 DEF SeqSet, SetUnanswered, ITypeOK
  <2>2. CASE Rebase(t)
    <3>1. last' = base' + advanced' + dropped' + uncounted'
      BY <2>1, <2>2 DEF Rebase, ITypeOK
    <3>2. \A u \in Task : pc'[u] # "set"
      <4>1. ~seqOverlap \/ ~OtherAt(t, {"set"})  BY <2>2 DEF Rebase
      <4>2. \A u \in Task \ {t} : pc[u] # "set"  BY <2>1, <4>1 DEF OtherAt
      <4>3. QED  BY <2>1, <4>2
    <3>3. QED  BY <3>1, <3>2
  <2>3. CASE ~Rebase(t)
    <3>1. Advances(seen[t], seq[t]) /\ UNCHANGED <<base, seqOverlap>>
      BY <1>2, <2>3 DEF SeqSet, SetUnanswered
    <3>2. ~seqOverlap /\ seen[t] = last /\ \A u \in Task : pc'[u] # "set"
      BY <2>1, <3>1
    <3>3. last = base + advanced + dropped + uncounted
      BY <3>1, <3>2 DEF Advances, Baseline, ITypeOK
    <3>4. seq[t] > last /\ seq[t] \in Nat  BY <3>1, <3>2 DEF Advances, ITypeOK
    <3>5. CASE SeqSet(t)
      <4>1. /\ advanced' = advanced + 1 /\ dropped' = dropped + (seq[t] - (last + 1))
            /\ uncounted' = uncounted
        BY <2>3, <3>2, <3>5 DEF SeqSet, Gap
      <4>2. last' = base' + advanced' + dropped' + uncounted'
        <5>1. base \in Nat /\ advanced \in Nat /\ dropped \in Nat /\ uncounted \in Nat /\ last \in Nat
          BY DEF ITypeOK
        <5>2. QED  BY ONLY <2>1, <3>1, <3>3, <3>4, <4>1, <5>1
      <4>3. QED  BY <3>2, <4>2
    <3>6. CASE SetUnanswered(t)
      <4>1. /\ advanced' = advanced /\ dropped' = dropped
            /\ uncounted' = uncounted + (seq[t] - last)
        BY <2>3, <3>2, <3>6 DEF SetUnanswered
      <4>2. last' = base' + advanced' + dropped' + uncounted'
        <5>1. base \in Nat /\ advanced \in Nat /\ dropped \in Nat /\ uncounted \in Nat /\ last \in Nat
          BY DEF ITypeOK
        <5>2. QED  BY ONLY <2>1, <3>1, <3>3, <3>4, <4>1, <5>1
      <4>3. QED  BY <3>2, <4>2
    <3>7. QED  BY <1>2, <3>5, <3>6
  <2>4. QED  BY <2>2, <2>3
<1>3. ASSUME NEW t \in Task, NEW s \in 1..MaxSeq, NEW n \in Size, Receive(t, s, n)
      PROVE  AccountInv'
  BY <1>3 DEF Receive, tracker, ITypeOK, Baseline, Advances
<1>4. ASSUME NEW t \in Task, StateUpdate(t) \/ BufLen(t) \/ BufTrim(t) \/ BufPush(t)
      PROVE  AccountInv'
  <2>1. UNCHANGED <<seq, seen, tracker>> /\ \A u \in Task : pc'[u] = "set" => pc[u] = "set"
    BY <1>4 DEF StateUpdate, BufLen, BufTrim, BufPush, ITypeOK
  <2>2. QED  BY <2>1 DEF tracker, Baseline, Advances
<1>5. ASSUME NEW t \in Task, TaskFail(t) PROVE AccountInv'
  BY <1>5 DEF TaskFail, tracker, ITypeOK, Baseline, Advances
<1>6. CASE FPop \/ FInsert \/ FInsertFail
  BY <1>6 DEF FPop, FInsert, FInsertFail, tasks, tracker, Baseline, Advances
<1>7. CASE Restart
  BY <1>7 DEF Restart, tracker, ITypeOK, TaskSteps
<1>8. CASE RedisRestart
  BY <1>8 DEF RedisRestart, tasks, ITypeOK
<1>9. CASE UNCHANGED ivars
  BY <1>9 DEF ivars, tasks, tracker, Baseline, Advances
<1>10. QED
  BY <1>1, <1>2, <1>3, <1>4, <1>5, <1>6, <1>7, <1>8, <1>9 DEF INext, TaskStep

\* Whatever the network does, each number above the baseline is counted once, as
\* received, as dropped or as passed by a SET whose task failed, unless two tasks
\* have overlapped since the baseline (sequence_tracker.py:52-99).
THEOREM DropsAreAccounted == ISpec => []DropsAccounted
<1>1. ITypeOK /\ AccountInv /\ [INext]_ivars => AccountInv'  BY AccountNext
<1>2. AccountInv => DropsAccounted  BY DEF AccountInv
<1>3. QED  BY AccountInit, <1>1, <1>2, TypeCorrect, PTL DEF ISpec

(***************************************************************************)
(* The cap of the list.                                                     *)
(***************************************************************************)
\* A task between LLEN and LPUSH that none overlaps is alone there, has room when
\* it comes to push, and keeps something when it trims.
CapInv ==
    /\ ~capLoose => Len(buffer) <= MaxLen
    /\ \A t \in Pending \ loose :
          /\ Pending = {t}
          /\ pc[t] = "push" => Len(buffer) + size[t] <= MaxLen
          /\ pc[t] = "trim" => size[t] < MaxLen

LEMMA CapInit == IInit => CapInv
<1> SUFFICES ASSUME IInit PROVE CapInv  OBVIOUS
<1>1. Pending = {}  BY DEF IInit, Pending
<1>2. Len(buffer) <= MaxLen  BY EmptyList DEF IInit
<1>3. QED  BY <1>1, <1>2 DEF CapInv

\* A step that leaves the list alone and brings no task between LLEN and LPUSH.
LEMMA CapKept ==
    ASSUME ITypeOK, CapInv, buffer' = buffer, capLoose' = capLoose,
           loose \cap Pending' \subseteq loose', Pending' \subseteq Pending,
           \A t \in Pending' : pc'[t] = pc[t] /\ size'[t] = size[t]
    PROVE  CapInv'
<1>1. ASSUME NEW t \in Pending' \ loose'
      PROVE  /\ Pending' = {t}
             /\ pc'[t] = "push" => Len(buffer') + size'[t] <= MaxLen
             /\ pc'[t] = "trim" => size'[t] < MaxLen
  <2>1. t \in Pending \ loose  BY <1>1
  <2>2. Pending = {t} /\ Pending' = {t}  BY <2>1 DEF CapInv
  <2>3. QED  BY <2>1, <2>2 DEF CapInv
<1>2. QED  BY <1>1 DEF CapInv

LEMMA CapNext == ITypeOK /\ CapInv /\ [INext]_ivars => CapInv'
<1> SUFFICES ASSUME ITypeOK, CapInv, [INext]_ivars PROVE CapInv'  OBVIOUS
<1> USE DEF Goto, End, Tracked
<1>0. Len(buffer) \in Nat /\ size \in [Task -> Nat]  BY DEF ITypeOK
<1>1. ASSUME NEW t \in Task, BufLen(t) PROVE CapInv'
  <2>1. buffer' = buffer /\ capLoose' = capLoose /\ loose \subseteq loose'
    BY <1>1 DEF BufLen
  <2>2. \A u \in Task \ {t} : pc'[u] = pc[u] /\ size'[u] = size[u]
    BY <1>1 DEF BufLen, ITypeOK
  <2>3. t \notin Pending  BY <1>1 DEF BufLen, Pending
  <2>4. CASE pc'[t] \in {"trim", "push"}
    <3>1. Pending' = Pending \cup {t}  BY <2>2, <2>4 DEF Pending
    <3>2. Overlapping(t) \subseteq loose' /\ size'[t] = size[t]
      BY <1>1, <2>4 DEF BufLen, ITypeOK
    <3>3. pc'[t] = "push" => Len(buffer) + size[t] <= MaxLen
      BY <1>1 DEF BufLen, ITypeOK
    <3>4. pc'[t] = "trim" /\ t \notin loose' => size[t] < MaxLen
      <4>1. pc'[t] = "trim" => size[t] <= MaxLen /\ {u \in {t} : size[u] = MaxLen} \subseteq loose'
        BY <1>1 DEF BufLen, ITypeOK
      <4>2. QED  BY <1>0, <4>1
    <3>5. ASSUME NEW u \in Pending' \ loose'
          PROVE  /\ Pending' = {u}
                 /\ pc'[u] = "push" => Len(buffer') + size'[u] <= MaxLen
                 /\ pc'[u] = "trim" => size'[u] < MaxLen
      <4>1. Pending = {} /\ u = t  BY <3>1, <3>2 DEF Overlapping
      <4>2. QED  BY <2>1, <3>1, <3>2, <3>3, <3>4, <4>1
    <3>6. QED  BY <2>1, <3>5 DEF CapInv
  <2>5. CASE pc'[t] \notin {"trim", "push"}
    <3>1. Pending' = Pending  BY <2>2, <2>3, <2>5 DEF Pending
    <3>2. \A u \in Pending' : u # t /\ u \in Task  BY <2>3, <3>1 DEF Pending
    <3>3. QED  BY <2>1, <2>2, <3>1, <3>2, CapKept
  <2>6. QED  BY <2>4, <2>5
<1>2. ASSUME NEW t \in Task, BufTrim(t) PROVE CapInv'
  <2>1. /\ capLoose' = capLoose /\ loose' = loose /\ size' = size
        /\ pc' = [pc EXCEPT ![t] = "push"] /\ pc[t] = "trim"
    BY <1>2 DEF BufTrim
  <2>2. Pending' = Pending /\ t \in Pending  BY <2>1 DEF Pending, ITypeOK
  <2>3. MaxLen - size[t] \in Nat  BY <2>1 DEF ITypeOK
  <2>4. /\ Len(buffer') <= Len(buffer) /\ Len(buffer') \in Nat
        /\ MaxLen - size[t] > 0 => Len(buffer') <= MaxLen - size[t]
    <3>1. buffer' = Trim(buffer, MaxLen - size[t]) /\ buffer \in Seq(Task)
      BY <1>2 DEF BufTrim, ITypeOK
    <3>2. QED  BY <2>3, <3>1, TrimType
  <2>5. ASSUME NEW u \in Pending' \ loose'
        PROVE  /\ Pending' = {u}
               /\ pc'[u] = "push" => Len(buffer') + size'[u] <= MaxLen
               /\ pc'[u] = "trim" => size'[u] < MaxLen
    <3>1. u = t /\ Pending = {t} /\ size[t] < MaxLen
      BY <2>1, <2>2 DEF CapInv
    <3>2. Len(buffer') + size[t] <= MaxLen  BY <1>0, <2>3, <2>4, <3>1
    <3>3. QED  BY <2>1, <2>2, <3>1, <3>2 DEF ITypeOK
  <2>6. ~capLoose' => Len(buffer') <= MaxLen  BY <1>0, <2>1, <2>4 DEF CapInv
  <2>7. QED  BY <2>5, <2>6 DEF CapInv
<1>3. ASSUME NEW t \in Task, BufPush(t) PROVE CapInv'
  <2>1. Len(buffer') = size[t] + Len(buffer)
    BY <1>3, PushType DEF BufPush, ITypeOK
  <2>2. t \in Pending /\ pc[t] = "push"  BY <1>3 DEF BufPush, Pending
  <2>3. Pending' = Pending \ {t}
    <3>1. pc' = [pc EXCEPT ![t] = "done"]  BY <1>3 DEF BufPush
    <3>2. QED  BY <3>1 DEF Pending, ITypeOK
  <2>4. ~capLoose' => Len(buffer') <= MaxLen
    <3>1. ~capLoose' => t \notin loose  BY <1>3 DEF BufPush
    <3>2. t \notin loose => Len(buffer) + size[t] <= MaxLen  BY <2>2 DEF CapInv
    <3>3. QED  BY <1>0, <2>1, <3>1, <3>2
  <2>5. Pending' \ loose' = {}
    <3>1. SUFFICES ASSUME NEW u \in Pending' \ loose' PROVE FALSE  OBVIOUS
    <3>2. u \in Pending \ loose /\ u # t  BY <1>3, <2>3 DEF BufPush
    <3>3. Pending = {u}  BY <3>2 DEF CapInv
    <3>4. QED  BY <2>2, <3>2, <3>3
  <2>6. QED  BY <2>4, <2>5 DEF CapInv
<1>4. ASSUME NEW t \in Task,
             SeqGet(t) \/ SeqSet(t) \/ SetUnanswered(t) \/ StateUpdate(t) \/ TaskFail(t)
      PROVE  CapInv'
  <2>1. /\ UNCHANGED <<buffer, capLoose>> /\ loose \ {t} \subseteq loose'
        /\ \A u \in Task \ {t} : pc'[u] = pc[u] /\ size'[u] = size[u]
        /\ pc'[t] \notin {"trim", "push"}
    BY <1>4 DEF SeqGet, SeqSet, SetUnanswered, StateUpdate, TaskFail, list, ITypeOK
  <2>2. \A u \in Pending' : u \in Task \ {t} /\ u \in Pending  BY <2>1 DEF Pending
  <2>3. QED  BY <2>1, <2>2, CapKept
<1>5. ASSUME NEW t \in Task, NEW s \in 1..MaxSeq, NEW n \in Size, Receive(t, s, n)
      PROVE  CapInv'
  <2>1. /\ UNCHANGED <<buffer, loose, capLoose>>
        /\ \A u \in Task \ {t} : pc'[u] = pc[u] /\ size'[u] = size[u]
        /\ pc'[t] \notin {"trim", "push"}
    BY <1>5 DEF Receive, list, ITypeOK
  <2>2. \A u \in Pending' : u \in Task \ {t} /\ u \in Pending  BY <2>1 DEF Pending
  <2>3. QED  BY <2>1, <2>2, CapKept
<1>6. CASE FPop \/ RedisRestart
  <2>1. UNCHANGED <<pc, size, loose>> /\ buffer' = <<>>
    BY <1>6 DEF FPop, RedisRestart, tasks
  <2>2. Len(buffer') = 0 /\ Pending' = Pending  BY <2>1 DEF Pending
  <2>3. \A t \in Pending : t \in Task /\ size[t] <= MaxLen  BY DEF Pending, ITypeOK
  <2>4. ASSUME NEW u \in Pending' \ loose'
        PROVE  /\ Pending' = {u}
               /\ pc'[u] = "push" => Len(buffer') + size'[u] <= MaxLen
               /\ pc'[u] = "trim" => size'[u] < MaxLen
    BY <1>0, <2>1, <2>2, <2>3 DEF CapInv
  <2>5. QED  BY <2>2, <2>4 DEF CapInv
<1>7. CASE FInsert \/ FInsertFail
  <2>1. UNCHANGED <<pc, size, buffer, loose, capLoose>>
    BY <1>7 DEF FInsert, FInsertFail, tasks, list
  <2>2. QED  BY <2>1, CapKept DEF Pending
<1>8. CASE Restart
  <2>1. UNCHANGED <<buffer, capLoose>> /\ \A u \in Task : pc'[u] \notin {"trim", "push"}
    BY <1>8 DEF Restart, ITypeOK, TaskSteps
  <2>2. Pending' = {}  BY <2>1 DEF Pending
  <2>3. QED  BY <2>1, <2>2 DEF CapInv
<1>9. CASE UNCHANGED ivars
  <2>1. UNCHANGED <<pc, size, buffer, loose, capLoose>>  BY <1>9 DEF ivars, tasks, list
  <2>2. QED  BY <2>1, CapKept DEF Pending
<1>10. QED
  BY <1>1, <1>2, <1>3, <1>4, <1>5, <1>6, <1>7, <1>8, <1>9 DEF INext, TaskStep

\* The list stays within its cap, and is back in it after the next push that none
\* overlaps when two tasks did or a batch was as large as the cap
\* (buffer_manager.py:83-112).
THEOREM BufferIsCapped == ISpec => []BufferCapped
<1>1. ITypeOK /\ CapInv /\ [INext]_ivars => CapInv'  BY CapNext
<1>2. CapInv => BufferCapped  BY DEF CapInv, BufferCapped
<1>3. QED  BY CapInit, <1>1, <1>2, TypeCorrect, PTL DEF ISpec

(***************************************************************************)
(* The service implements the conveyor.                                     *)
(***************************************************************************)
LEMMA EmptyCount == \A t \in Task : PacketsOf(t, <<>>) = 0
<1> SUFFICES ASSUME NEW t \in Task PROVE PacketsOf(t, <<>>) = 0  OBVIOUS
<1>1. DOMAIN <<>> = {}  OBVIOUS
<1>2. {i \in DOMAIN <<>> : <<>>[i] = t} = {}  BY <1>1
<1>3. QED  BY <1>2, FS_EmptySet DEF PacketsOf

\* LTRIM does not add packets.
LEMMA TrimCount ==
    ASSUME NEW b \in Seq(Task), NEW keep \in Nat, NEW t \in Task
    PROVE  PacketsOf(t, Trim(b, keep)) <= PacketsOf(t, b)
<1>1. CASE keep = 0
  BY <1>1, PacketsOfType DEF Trim
<1>2. CASE keep > 0
  <2> DEFINE n == Smaller(keep, Len(b))
             S == {i \in DOMAIN b : b[i] = t}
             T == {i \in DOMAIN Trim(b, keep) : Trim(b, keep)[i] = t}
  <2>1. n \in 0..Len(b)  BY DEF Smaller
  <2>2. Trim(b, keep) = SubSeq(b, 1, n)
    <3>1. keep # 0  BY <1>2
    <3>2. QED  BY <3>1, Zenon DEF Trim
  <2>3. /\ SubSeq(b, 1, n) \in Seq(Task)
        /\ Len(SubSeq(b, 1, n)) = IF 1 <= n THEN n - 1 + 1 ELSE 0
        /\ \A i \in 1..(n - 1 + 1) : SubSeq(b, 1, n)[i] = b[1 + i - 1]
    <3>1. n \in Int /\ \A i \in 1..n : b[i] \in Task  BY <2>1
    <3>2. QED  BY <3>1, SubSeqProperties
  <2>4. T \subseteq S
    <3>1. DOMAIN Trim(b, keep) = 1..n  BY <2>1, <2>2, <2>3
    <3>2. \A i \in 1..n : Trim(b, keep)[i] = b[i]  BY <2>1, <2>2, <2>3
    <3>3. 1..n \subseteq DOMAIN b  BY <2>1
    <3>4. QED  BY <3>1, <3>2, <3>3
  <2>5. IsFiniteSet(S)
    <3>1. DOMAIN b = 1..Len(b) /\ Len(b) \in Nat  OBVIOUS
    <3>2. IsFiniteSet(DOMAIN b)  BY <3>1, FS_Interval
    <3>3. QED  BY <3>2, FS_Subset
  <2>6. Cardinality(T) <= Cardinality(S)  BY <2>4, <2>5, FS_Subset
  <2>7. QED  BY <2>6 DEF PacketsOf
<1>3. QED  BY <1>1, <1>2

\* LPUSH adds packets of one task only.
LEMMA PushCount ==
    ASSUME NEW b \in Seq(Task), NEW t \in Task, NEW u \in Task, u # t, NEW n \in Nat
    PROVE  PacketsOf(u, [i \in 1..n |-> t] \o b) = PacketsOf(u, b)
<1> DEFINE a == [i \in 1..n |-> t]
           c == a \o b
           S == {i \in DOMAIN b : b[i] = u}
           T == {i \in DOMAIN c : c[i] = u}
           f == [i \in S |-> i + n]
<1>1. a \in Seq(Task) /\ Len(a) = n  OBVIOUS
<1>2. /\ c \in Seq(Task) /\ Len(c) = n + Len(b) /\ Len(b) \in Nat
      /\ \A i \in 1..(n + Len(b)) : c[i] = IF i <= n THEN a[i] ELSE b[i - n]
  BY <1>1, ConcatProperties
<1>3. \A i \in S : i + n \in T
  BY <1>2
<1>4. \A j \in T : j - n \in S /\ (j - n) + n = j
  <2> SUFFICES ASSUME NEW j \in T PROVE j - n \in S /\ (j - n) + n = j  OBVIOUS
  <2>1. j \in 1..(n + Len(b)) /\ c[j] = u  BY <1>2
  <2>2. ~(j <= n)
    <3>1. j <= n => c[j] = t  BY <1>2, <2>1
    <3>2. QED  BY <2>1, <3>1
  <2>3. QED  BY <1>2, <2>1, <2>2
<1>5. f \in Bijection(S, T)
  <2>1. f \in [S -> T]  BY <1>3
  <2>2. \A i, j \in S : f[i] = f[j] => i = j  OBVIOUS
  <2>3. \A j \in T : \E i \in S : f[i] = j  BY <1>4
  <2>4. QED  BY <2>1, <2>2, <2>3 DEF Bijection, Injection, Surjection, IsInjective
<1>6. IsFiniteSet(S)
  <2>1. DOMAIN b = 1..Len(b)  OBVIOUS
  <2>2. IsFiniteSet(DOMAIN b)  BY <1>2, <2>1, FS_Interval
  <2>3. QED  BY <2>2, FS_Subset
<1>7. Cardinality(T) = Cardinality(S)
  <2>1. ExistsBijection(S, T)  BY <1>5 DEF ExistsBijection
  <2>2. QED  BY <1>6, <2>1, FS_Bijection
<1>8. QED  BY <1>7 DEF PacketsOf

\* The refinement mapping, by name.
Waiting == [t \in Task |-> PacketsOf(t, buffer)]
Taken   == [t \in Task |-> PacketsOf(t, hand)]
Entered == {t \in Task : pc[t] = "done"}

\* A step that leaves the packets alone and ends no task is a stutter.
LEMMA Stutter ==
    ASSUME UNCHANGED <<buffer, hand, stored>>,
           \A t \in Task : pc'[t] = "done" <=> pc[t] = "done"
    PROVE  UNCHANGED C!vars
BY DEF C!vars, PacketsOf

\* A task that ends without a push enters nothing.
LEMMA EnterNothing ==
    ASSUME ITypeOK, NEW t \in Task, pc[t] # "done", Goto(t, "done"),
           UNCHANGED <<buffer, hand, stored>>
    PROVE  C!Enter(t)
<1>1. Entered' = Entered \cup {t} /\ t \notin Entered  BY DEF Entered, Goto, ITypeOK
<1>2. Waiting' = Waiting /\ Taken' = Taken  BY DEF Waiting, Taken, PacketsOf
<1>3. Waiting \in [Task -> Nat]  BY PacketsOfType DEF Waiting, ITypeOK
<1>4. QED  BY <1>1, <1>2, <1>3 DEF C!Enter, Waiting, Taken, Entered

\* Packets that disappear from the list, or all that were popped, are lost.
LEMMA LosePackets ==
    ASSUME ITypeOK, ITypeOK', UNCHANGED stored,
           \A t \in Task : PacketsOf(t, buffer') <= PacketsOf(t, buffer),
           hand' = hand \/ hand' = <<>>,
           \A t \in Task : pc'[t] = "done" <=> pc[t] = "done"
    PROVE  C!Lose
<1>1. Waiting' \in [Task -> Nat] /\ \A t \in Task : Waiting'[t] <= Waiting[t]
  BY PacketsOfType DEF Waiting, ITypeOK
<1>2. Taken' \in {Taken, C!Nothing}
  BY EmptyCount DEF Taken, C!Nothing, PacketsOf
<1>3. Entered' = Entered  BY DEF Entered
<1>4. QED  BY <1>1, <1>2, <1>3 DEF C!Lose, Waiting, Taken, Entered

LEMMA ConveyorInit == IInit => C!Init
<1> SUFFICES ASSUME IInit PROVE C!Init  OBVIOUS
<1>1. Waiting = C!Nothing /\ Taken = C!Nothing
  BY EmptyCount DEF IInit, Waiting, Taken, C!Nothing
<1>2. stored = C!Nothing /\ Entered = {}  BY DEF IInit, Entered, C!Nothing
<1>3. QED  BY <1>1, <1>2 DEF C!Init, Waiting, Taken, Entered

LEMMA ConveyorNext == ITypeOK /\ ITypeOK' /\ [INext]_ivars => [C!Next]_(C!vars)
<1> SUFFICES ASSUME ITypeOK, ITypeOK', [INext]_ivars PROVE C!Next \/ UNCHANGED C!vars
  OBVIOUS
<1>1. ASSUME NEW t \in Task, NEW s \in 1..MaxSeq, NEW n \in Size, Receive(t, s, n)
      PROVE  UNCHANGED C!vars
  <2>1. \A u \in Task : pc'[u] = "done" <=> pc[u] = "done"
    BY <1>1 DEF Receive, Goto, ITypeOK
  <2>2. QED  BY <1>1, <2>1, Stutter DEF Receive, list
<1>2. ASSUME NEW t \in Task, SeqGet(t) \/ SeqSet(t) \/ SetUnanswered(t) \/ TaskFail(t)
      PROVE  UNCHANGED C!vars
  <2>1. \A u \in Task : pc'[u] = "done" <=> pc[u] = "done"
    BY <1>2 DEF SeqGet, SeqSet, SetUnanswered, TaskFail, Tracked, End, Goto, ITypeOK, TaskSteps
  <2>2. UNCHANGED <<buffer, hand, stored>>
    BY <1>2 DEF SeqGet, SeqSet, SetUnanswered, TaskFail, list, flusher
  <2>3. QED  BY <2>1, <2>2, Stutter
<1>3. ASSUME NEW t \in Task, StateUpdate(t) \/ BufLen(t) PROVE C!Next \/ UNCHANGED C!vars
  <2>1. UNCHANGED <<buffer, hand, stored>> /\ pc[t] # "done"
    BY <1>3 DEF StateUpdate, BufLen, list, flusher
  <2>2. CASE Goto(t, "done")
    <3>1. C!Enter(t)  BY <2>1, <2>2, EnterNothing
    <3>2. QED  BY <3>1 DEF C!Next
  <2>3. CASE Goto(t, "len") \/ Goto(t, "push") \/ Goto(t, "trim")
    <3>1. \A u \in Task : pc'[u] = "done" <=> pc[u] = "done"
      BY <2>1, <2>3 DEF Goto, ITypeOK
    <3>2. QED  BY <2>1, <3>1, Stutter
  <2>4. QED  BY <1>3, <2>2, <2>3 DEF StateUpdate, BufLen, End
<1>4. ASSUME NEW t \in Task, BufTrim(t) PROVE C!Next
  <2>1. MaxLen - size[t] \in Nat /\ buffer \in Seq(Task)  BY <1>4 DEF BufTrim, ITypeOK
  <2>2. \A u \in Task : PacketsOf(u, buffer') <= PacketsOf(u, buffer)
    BY <1>4, <2>1, TrimCount DEF BufTrim
  <2>3. \A u \in Task : pc'[u] = "done" <=> pc[u] = "done"
    BY <1>4 DEF BufTrim, Goto, ITypeOK
  <2>4. UNCHANGED <<hand, stored>>  BY <1>4 DEF BufTrim, flusher
  <2>5. C!Lose  BY <2>2, <2>3, <2>4, LosePackets
  <2>6. QED  BY <2>5 DEF C!Next
<1>5. ASSUME NEW t \in Task, BufPush(t) PROVE C!Next
  <2>1. Entered' = Entered \cup {t} /\ t \notin Entered
    BY <1>5 DEF Entered, BufPush, End, Goto, ITypeOK
  <2>2. buffer' = [i \in 1..size[t] |-> t] \o buffer /\ buffer \in Seq(Task) /\ size[t] \in Nat
    BY <1>5 DEF BufPush, ITypeOK
  <2>3. \A u \in Task \ {t} : PacketsOf(u, buffer') = PacketsOf(u, buffer)
    BY <2>2, PushCount
  <2>4. PacketsOf(t, buffer') \in Nat  BY PacketsOfType DEF ITypeOK
  <2>5. Waiting'[t] \in Nat /\ Waiting' = [Waiting EXCEPT ![t] = Waiting'[t]]
    BY <2>3, <2>4 DEF Waiting
  <2>6. UNCHANGED <<hand, stored>> /\ Taken' = Taken
    BY <1>5 DEF BufPush, flusher, Taken, PacketsOf
  <2>7. C!Enter(t)  BY <2>1, <2>5, <2>6 DEF C!Enter, Waiting, Taken, Entered
  <2>8. QED  BY <2>7 DEF C!Next
<1>6. CASE FPop
  <2>1. Taken = C!Nothing /\ Waiting' = C!Nothing
    BY <1>6, EmptyCount DEF FPop, Taken, Waiting, C!Nothing
  <2>2. Taken' = Waiting  BY <1>6 DEF FPop, Taken, Waiting, PacketsOf
  <2>3. UNCHANGED stored /\ Entered' = Entered  BY <1>6 DEF FPop, tasks, Entered
  <2>4. C!Take  BY <2>1, <2>2, <2>3 DEF C!Take, Taken, Waiting, Entered
  <2>5. QED  BY <2>4 DEF C!Next
<1>7. CASE FInsert
  <2>1. Taken' = C!Nothing  BY <1>7, EmptyCount DEF FInsert, Taken, C!Nothing
  <2>2. stored' = [t \in Task |-> stored[t] + Taken[t]]  BY <1>7 DEF FInsert, Taken
  <2>3. Waiting' = Waiting /\ Entered' = Entered
    BY <1>7 DEF FInsert, list, tasks, Waiting, Entered, PacketsOf
  <2>4. C!Store  BY <2>1, <2>2, <2>3 DEF C!Store, Taken, Waiting, Entered
  <2>5. QED  BY <2>4 DEF C!Next
<1>8. CASE FInsertFail \/ Restart \/ RedisRestart
  <2>1. \A t \in Task : PacketsOf(t, buffer') <= PacketsOf(t, buffer)
    <3>1. buffer' = buffer \/ buffer' = <<>>
      BY <1>8 DEF FInsertFail, Restart, RedisRestart, list
    <3>2. \A t \in Task : PacketsOf(t, buffer) \in Nat  BY PacketsOfType DEF ITypeOK
    <3>3. QED  BY <3>1, <3>2, EmptyCount
  <2>2. \A t \in Task : pc'[t] = "done" <=> pc[t] = "done"
    BY <1>8 DEF FInsertFail, Restart, RedisRestart, tasks, TaskSteps, ITypeOK
  <2>3. UNCHANGED stored /\ (hand' = hand \/ hand' = <<>>)
    BY <1>8 DEF FInsertFail, Restart, RedisRestart, flusher
  <2>4. C!Lose  BY <2>1, <2>2, <2>3, LosePackets
  <2>5. QED  BY <2>4 DEF C!Next
<1>9. CASE UNCHANGED ivars
  BY <1>9, Stutter DEF ivars, tasks, list, flusher
<1>10. QED
  BY <1>1, <1>2, <1>3, <1>4, <1>5, <1>6, <1>7, <1>8, <1>9 DEF INext, TaskStep

\* The service stores a packet at most once and never has it in two places: it
\* implements the conveyor (buffer_manager.py, flusher.py, atomic_buffer_pop.lua).
THEOREM ConveyorImplemented == ISpec => ImplementsConveyor
<1>1. ISpec => C!Init /\ [][C!Next]_(C!vars)
  BY ConveyorInit, ConveyorNext, TypeCorrect, PTL DEF ISpec
<1>2. QED  BY <1>1 DEF ImplementsConveyor, C!Spec
=============================================================================
