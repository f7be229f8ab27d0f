--------------------------- MODULE ChannelStateProofs ---------------------------
(***************************************************************************)
(* Safety of ChannelState for any number of batches in flight, any drops    *)
(* and faults, and any time to live, timeout, interval and cycle time.      *)
(***************************************************************************)
EXTENDS ChannelState, TLAPS

LEMMA ConstantTypes ==
    /\ Ttl \in Nat \ {0} /\ Timeout \in Nat \ {0} /\ Interval \in Nat \ {0}
    /\ Cycle \in Nat /\ MaxReported \in Nat /\ MaxFaults \in Nat
BY ChannelAssumption DEF ChannelAssumption

USE ConstantTypes

Steps   == {"idle", "incr", "hset", "expire"}
Syncing == {"scan", "flush", "read", "upsert"}

Batches == [step : Steps, drops : 0..MaxReported, packets : BOOLEAN, at : Age]
Keys    == [exists : BOOLEAN, ttl : {Forever} \cup 1..Ttl, at : Age, delta : Nat]
Hands   == [delta : Nat, at : Age]
Rows    == [active : BOOLEAN, at : Age, dropped : Nat]

USE DEF Batches, Keys, Hands, Rows

(***************************************************************************)
(* Type correctness.                                                        *)
(***************************************************************************)
LEMMA MaxAgeType == MaxAge \in Nat \ {0}
BY DEF MaxAge

\* An age stays an age, and a tick adds at most one to it.
LEMMA OlderType ==
    ASSUME NEW age \in Age
    PROVE  /\ Older(age) \in Age
           /\ Older(age) = Null <=> age = Null
           /\ Older(age) <= age + 1
BY MaxAgeType DEF Age, Older, Null

LEMMA KeyLaterType ==
    ASSUME key \in Keys
    PROVE  KeyLater \in Keys
<1>1. Null \in Age  BY DEF Age
<1>2. NoKey \in Keys
  BY <1>1 DEF NoKey
<1>3. CASE key.ttl = 1  BY <1>2, <1>3 DEF KeyLater
<1>4. CASE key.ttl # 1
  <2>1. Older(key.at) \in Age  BY OlderType
  <2>2. (IF key.ttl = Forever THEN Forever ELSE key.ttl - 1) \in {Forever} \cup 1..Ttl
    BY <1>4 DEF Forever
  <2>3. QED  BY <1>4, <2>1, <2>2 DEF KeyLater
<1>5. QED  BY <1>3, <1>4

LEMMA TypeInit == CInit => CTypeOK
<1> SUFFICES ASSUME CInit PROVE CTypeOK  OBVIOUS
<1>a. Null \in Age  BY DEF Age
<1>1. /\ NoHand \in Hands
      /\ Idle \in Batches
      /\ NoKey \in Keys
  BY <1>a DEF NoHand, Idle, NoKey, Steps
<1>2. row \in Rows  BY <1>a DEF CInit
<1> HIDE DEF Batches, Keys, Hands, Rows
<1>3. task \in [Task -> Batches]  BY <1>1 DEF CInit
<1>4. key \in Keys /\ hand \in Hands  BY <1>1 DEF CInit
<1>5. newest \in Age  BY <1>a DEF CInit
<1>6. pc \in Syncing \cup {"deactivate", "sleep"}  BY DEF CInit, Syncing
<1>7. clock \in Nat /\ reported \in Nat /\ faults \in 0..MaxFaults  BY SMT DEF CInit
<1>8. slow \in BOOLEAN /\ failed \in BOOLEAN /\ missed \in BOOLEAN  BY DEF CInit
<1>9. QED
  BY <1>2, <1>3, <1>4, <1>5, <1>6, <1>7, <1>8 DEF CTypeOK, Batches, Keys, Hands, Rows, Steps, Syncing

LEMMA TypeNext == CTypeOK /\ [CNext]_cvars => CTypeOK'
<1> SUFFICES ASSUME CTypeOK, [CNext]_cvars PROVE CTypeOK'  OBVIOUS
<1>a. Null \in Age /\ 0 \in Age /\ Ttl \in 1..Ttl  BY MaxAgeType DEF Age
<1>b. /\ NoHand \in Hands
      /\ Idle \in Batches
  BY <1>a DEF NoHand, Idle, Steps
<1> USE DEF CTypeOK, redis, syncer
<1>1. ASSUME NEW t \in Task, NEW drops \in 0..MaxReported, NEW packets \in BOOLEAN,
             Batch(t, drops, packets)
      PROVE  CTypeOK'
  BY <1>1, <1>a DEF Batch
<1>2. ASSUME NEW t \in Task, Incr(t) PROVE CTypeOK'
  <2>1. task[t].drops \in 0..MaxReported  OBVIOUS
  <2>2. reported' \in Nat  BY <1>2, <2>1 DEF Incr
  <2>3. task' \in [Task -> Batches]
    <3> DEFINE b == task[t]
    <3>0. b \in Batches  BY DEF Steps
    <3>a. 0 \in 0..MaxReported /\ "hset" \in Steps  BY DEF Steps
    <3> HIDE DEF b
    <3>1. [b EXCEPT !.step = "hset", !.drops = 0] \in Batches  BY <3>0, <3>a
    <3> USE DEF b
    <3>2. QED  BY <1>2, <3>1 DEF Incr, Steps
  <2>4. key' \in Keys
    <3>1. key.delta + task[t].drops \in Nat  BY <2>1
    <3>2. [key EXCEPT !.exists = TRUE, !.delta = key.delta + task[t].drops] \in Keys  BY <3>1
    <3>3. QED  BY <1>2, <3>2 DEF Incr
  <2>5. QED  BY <1>2, <2>2, <2>3, <2>4 DEF Incr, Steps
<1>3. ASSUME NEW t \in Task, Hset(t) PROVE CTypeOK'
  <2>1. task[t].at \in Age  OBVIOUS
  <2>2. task' \in [Task -> Batches]
    <3> DEFINE b == task[t]
    <3>0. b \in Batches  BY DEF Steps
    <3> HIDE DEF b
    <3>1. [b EXCEPT !.step = "expire", !.at = Null] \in Batches  BY <1>a, <3>0 DEF Steps
    <3> USE DEF b
    <3>2. QED  BY <1>3, <3>1 DEF Hset, Steps
  <2>3. key' \in Keys
    BY <1>3, <2>1 DEF Hset
  <2>4. newest' = task[t].at \/ newest' = newest  BY <1>3 DEF Hset
  <2>5. QED  BY <1>3, <2>1, <2>2, <2>3, <2>4 DEF Hset, Steps
<1>4. ASSUME NEW t \in Task, Expire(t) PROVE CTypeOK'
  <2>1. task' \in [Task -> Batches]
    BY <1>4, <1>b DEF Expire, Steps
  <2>2. key' \in Keys
    BY <1>4, <1>a DEF Expire
  <2>3. QED  BY <1>4, <2>1, <2>2 DEF Expire, Steps
<1>5. ASSUME NEW t \in Task, PipelineFails(t) PROVE CTypeOK'
  BY <1>5, <1>b DEF PipelineFails, Steps
<1>6. CASE Scan   BY <1>6 DEF Scan
<1>7. CASE Flush  BY <1>7 DEF Flush
<1>8. CASE Read   BY <1>8, <1>b DEF Read
<1>c. Upserted \in Rows  BY DEF Upserted
<1>9. CASE Upsert  BY <1>9, <1>b, <1>c DEF Upsert
<1>10. CASE Deactivate  BY <1>10 DEF Deactivate
<1>11. CASE Wake        BY <1>11 DEF Wake
<1>12. CASE CallFails
  <2>1. key' \in Keys
    BY <1>12 DEF CallFails
  <2>2. row' \in Rows  BY <1>12, <1>c DEF CallFails
  <2>3. /\ pc' \in Syncing \cup {"deactivate", "sleep"}
        /\ clock' \in Nat /\ missed' \in BOOLEAN
    <3>1. CASE pc \in {"scan", "deactivate"}  BY <1>12, <3>1 DEF CallFails, Syncing
    <3>2. CASE pc \notin {"scan", "deactivate"}  BY <1>12, <3>2 DEF CallFails, Syncing
    <3>3. QED  BY <3>1, <3>2
  <2>6. failed' \in BOOLEAN /\ faults' \in 0..MaxFaults  BY <1>12 DEF CallFails
  <2>4. hand' \in Hands  BY <1>12, <1>b DEF CallFails
  <2>5. QED  BY <1>12, <2>1, <2>2, <2>3, <2>4, <2>6 DEF CallFails, Syncing
<1>13. CASE SyncerRestarts  BY <1>13, <1>b DEF SyncerRestarts
<1>14. CASE Tick
  <2>1. \A t \in Task : Older(task[t].at) \in Age  BY OlderType
  <2>2. task' \in [Task -> Batches]
    <3>1. task' = [t \in Task |-> [task[t] EXCEPT !.at = Older(@)]]  BY <1>14 DEF Tick
    <3>2. ASSUME NEW t \in Task PROVE [task[t] EXCEPT !.at = Older(@)] \in Batches
      BY <2>1 DEF Steps
    <3>3. QED  BY ONLY <3>1, <3>2
  <2>3. hand' \in Hands
    <3>1. Older(hand.at) \in Age  BY OlderType
    <3>2. QED  BY <1>14, <3>1 DEF Tick
  <2>4. row' \in Rows
    <3>1. Older(row.at) \in Age  BY OlderType
    <3>2. QED  BY <1>14, <3>1 DEF Tick
  <2>5. newest' \in Age  BY <1>14, OlderType DEF Tick
  <2>6. key' \in Keys
    BY <1>14, KeyLaterType DEF Tick
  <2>7. slow' \in BOOLEAN /\ clock' \in Nat  BY <1>14 DEF Tick
  <2>8. QED  BY <1>14, <2>2, <2>3, <2>4, <2>5, <2>6, <2>7 DEF Tick, Steps
<1>15. CASE UNCHANGED cvars  BY <1>15 DEF cvars
<1>16. QED  BY <1>1, <1>2, <1>3, <1>4, <1>5, <1>6, <1>7, <1>8, <1>9, <1>10, <1>11, <1>12,
               <1>13, <1>14, <1>15 DEF CNext

\* Every variable keeps its type, so the time to live is never above Ttl and an
\* age never above MaxAge.
THEOREM TypeCorrect == CSpec => []CTypeOK
<1>1. CInit => CTypeOK  BY TypeInit
<1>2. CTypeOK /\ [CNext]_cvars => CTypeOK'  BY TypeNext
<1>3. QED  BY <1>1, <1>2, PTL DEF CSpec

(***************************************************************************)
(* No drop is counted twice.                                                *)
(***************************************************************************)
\* Whatever fails and however the commands interleave, the drops in the hash,
\* in the hands of the syncer and in the row are at most those reported.
THEOREM NotDoubled == CSpec => []DropsNotDoubled
<1>1. CInit => DropsNotDoubled
  BY DEF CInit, DropsNotDoubled, Counted, NoKey, NoHand
<1>2. CTypeOK /\ DropsNotDoubled /\ [CNext]_cvars => DropsNotDoubled'
  <2> SUFFICES ASSUME CTypeOK, DropsNotDoubled, [CNext]_cvars PROVE DropsNotDoubled'
    OBVIOUS
  <2> USE DEF DropsNotDoubled, Counted, redis, syncer
  <2>a. /\ key \in Keys /\ hand \in Hands /\ row \in Rows /\ reported \in Nat
        /\ key.delta \in Nat /\ hand.delta \in Nat /\ row.dropped \in Nat
    BY DEF CTypeOK
  <2>1. ASSUME NEW t \in Task, Incr(t) PROVE DropsNotDoubled'
    <3>1. task[t].drops \in Nat  BY DEF CTypeOK
    <3>2. CASE task[t].drops > 0
      <4>1. key'.delta = key.delta + task[t].drops  BY <2>a, <2>1, <3>2 DEF Incr
      <4>2. QED  BY <2>a, <2>1, <3>1, <4>1 DEF Incr
    <3>3. CASE task[t].drops = 0  BY <2>a, <2>1, <3>3 DEF Incr
    <3>4. QED  BY <3>1, <3>2, <3>3
  <2>2. ASSUME NEW t \in Task, NEW drops \in 0..MaxReported, NEW packets \in BOOLEAN,
               Batch(t, drops, packets)
        PROVE  DropsNotDoubled'
    BY <2>2 DEF Batch
  <2>3. ASSUME NEW t \in Task, Hset(t) \/ Expire(t) PROVE DropsNotDoubled'
    <3>1. key'.delta = key.delta  BY <2>a, <2>3 DEF Hset, Expire
    <3>2. QED  BY <2>3, <3>1 DEF Hset, Expire
  <2>4. ASSUME NEW t \in Task, PipelineFails(t) PROVE DropsNotDoubled'
    BY <2>4 DEF PipelineFails
  <2>5. CASE Flush
    <3>1. key'.delta = 0 /\ hand'.delta = key.delta  BY <2>a, <2>5 DEF Flush
    <3>2. QED  BY <2>a, <2>5, <3>1 DEF Flush
  <2>6. CASE Read
    <3>1. hand'.delta <= hand.delta /\ hand'.delta \in Nat  BY <2>a, <2>6 DEF Read, NoHand
    <3>2. QED  BY <2>a, <2>6, <3>1 DEF Read
  <2>7. CASE Upsert
    <3>1. hand'.delta = 0 /\ row'.dropped = row.dropped + hand.delta
      BY <2>7 DEF Upsert, Upserted, NoHand
    <3>2. QED  BY <2>a, <2>7, <3>1 DEF Upsert
  <2>8. CASE Deactivate
    <3>1. row'.dropped = row.dropped  BY <2>a, <2>8 DEF Deactivate
    <3>2. QED  BY <2>8, <3>1 DEF Deactivate
  <2>9. CASE Scan \/ Wake  BY <2>9 DEF Scan, Wake
  <2>10. CASE CallFails
    <3>1. hand'.delta = 0 /\ reported' = reported  BY <2>10 DEF CallFails, NoHand
    <3>2. CASE UNCHANGED <<key, row>>  BY <2>a, <3>1, <3>2
    <3>3. CASE key' = [key EXCEPT !.delta = 0] /\ UNCHANGED row
      <4>1. key'.delta = 0  BY <2>a, <3>3
      <4>2. QED  BY <2>a, <3>1, <3>3, <4>1
    <3>4. CASE row' = Upserted /\ UNCHANGED key
      <4>1. row'.dropped = row.dropped + hand.delta  BY <3>4 DEF Upserted
      <4>2. QED  BY <2>a, <3>1, <3>4, <4>1
    <3>5. QED  BY <2>10, <3>2, <3>3, <3>4 DEF CallFails
  <2>11. CASE SyncerRestarts
    <3>1. hand'.delta = 0  BY <2>11 DEF SyncerRestarts, NoHand
    <3>2. QED  BY <2>a, <2>11, <3>1 DEF SyncerRestarts
  <2>12. CASE Tick
    <3>1. key'.delta \in Nat /\ key'.delta <= key.delta
      <4>1. CASE key.ttl = 1  BY <2>a, <2>12, <4>1 DEF Tick, KeyLater, NoKey
      <4>2. CASE key.ttl # 1
        <5>1. key'.delta = key.delta  BY <2>a, <2>12, <4>2 DEF Tick, KeyLater
        <5>2. QED  BY <2>a, <5>1
      <4>3. QED  BY <4>1, <4>2
    <3>2. hand'.delta = hand.delta /\ row'.dropped = row.dropped  BY <2>a, <2>12 DEF Tick
    <3>3. QED  BY <2>a, <2>12, <3>1, <3>2 DEF Tick
  <2>13. CASE UNCHANGED cvars  BY <2>13 DEF cvars
  <2>14. QED  BY <2>1, <2>2, <2>3, <2>4, <2>5, <2>6, <2>7, <2>8, <2>9, <2>10, <2>11, <2>12,
                 <2>13 DEF CNext
<1>3. QED  BY <1>1, <1>2, TypeCorrect, PTL DEF CSpec

(***************************************************************************)
(* An active row is recent.                                                 *)
(***************************************************************************)
\* The sleep and the cycle stay within their time.
ClockInv == clock <= IF pc = "sleep" THEN Interval ELSE Cycle

\* How old the activity of an active row can be at each point of the cycle;
\* right after the upsert it is not known.
RecentInv ==
    row.active /\ row.at # Null /\ ~missed =>
        /\ pc = "sleep" => row.at <= Timeout + clock
        /\ pc \in Syncing => row.at <= Timeout + Interval + clock

LEMMA ClockInductive == CTypeOK /\ ClockInv /\ [CNext]_cvars => ClockInv'
<1> SUFFICES ASSUME CTypeOK, ClockInv, [CNext]_cvars PROVE ClockInv'  OBVIOUS
<1> USE DEF ClockInv, redis, syncer
<1>a. clock \in Nat /\ pc \in Syncing \cup {"deactivate", "sleep"}  BY DEF CTypeOK, Syncing
<1>1. ASSUME NEW t \in Task,
             \/ \E drops \in 0..MaxReported, packets \in BOOLEAN : Batch(t, drops, packets)
             \/ Incr(t) \/ Hset(t) \/ Expire(t) \/ PipelineFails(t)
      PROVE  ClockInv'
  BY <1>1 DEF Batch, Incr, Hset, Expire, PipelineFails
<1>2. CASE Scan \/ Flush \/ Read \/ Upsert  BY <1>2 DEF Scan, Flush, Read, Upsert
<1>3. CASE Deactivate \/ Wake \/ SyncerRestarts
  BY <1>3 DEF Deactivate, Wake, SyncerRestarts
<1>4. CASE CallFails
  <2>1. CASE pc \in {"scan", "deactivate"}  BY <1>4, <2>1 DEF CallFails
  <2>2. CASE pc \notin {"scan", "deactivate"}  BY <1>4, <2>2 DEF CallFails
  <2>3. QED  BY <2>1, <2>2
<1>5. CASE Tick  BY <1>5, <1>a DEF Tick, MayTick
<1>6. CASE UNCHANGED cvars  BY <1>6 DEF cvars
<1>7. QED  BY <1>1, <1>2, <1>3, <1>4, <1>5, <1>6 DEF CNext

LEMMA RecentInductive == CTypeOK /\ ClockInv /\ RecentInv /\ [CNext]_cvars => RecentInv'
<1> SUFFICES ASSUME CTypeOK, ClockInv, RecentInv, [CNext]_cvars PROVE RecentInv'  OBVIOUS
<1> USE DEF RecentInv, redis, syncer
<1>a. /\ clock \in Nat /\ row \in Rows /\ row.at \in Age /\ row.active \in BOOLEAN
      /\ missed \in BOOLEAN
  BY DEF CTypeOK
<1>1. ASSUME NEW t \in Task,
             \/ \E drops \in 0..MaxReported, packets \in BOOLEAN : Batch(t, drops, packets)
             \/ Incr(t) \/ Hset(t) \/ Expire(t) \/ PipelineFails(t)
      PROVE  RecentInv'
  BY <1>1 DEF Batch, Incr, Hset, Expire, PipelineFails
<1>2. CASE Scan \/ Flush \/ Read  BY <1>2 DEF Scan, Flush, Read, Syncing
<1>3. CASE Upsert  BY <1>3 DEF Upsert, Syncing
<1>4. CASE Deactivate
  <2>1. CASE TimedOut
    <3>1. row'.active = FALSE  BY <1>a, <1>4, <2>1 DEF Deactivate
    <3>2. QED  BY <3>1
  <2>2. CASE ~TimedOut
    <3>1. row' = row /\ pc' = "sleep" /\ clock' = 0  BY <1>4, <2>2 DEF Deactivate
    <3>2. row.active /\ row.at # Null => row.at <= Timeout
      BY <1>a, <2>2, MaxAgeType DEF TimedOut, Age, Null
    <3>3. QED  BY <3>1, <3>2 DEF Syncing
  <2>3. QED  BY <2>1, <2>2
<1>5. CASE Wake
  <2>1. /\ pc = "sleep" /\ clock = Interval /\ pc' = "scan" /\ clock' = 0
        /\ row' = row /\ missed' = missed
    BY <1>5 DEF Wake
  <2>2. QED  BY <1>a, <2>1 DEF Syncing
<1>6. CASE CallFails
  <2>1. CASE pc \in {"scan", "deactivate"}  BY <1>6, <2>1 DEF CallFails
  <2>2. CASE pc \notin {"scan", "deactivate"}  BY <1>6, <2>2 DEF CallFails, Syncing
  <2>3. QED  BY <2>1, <2>2
<1>7. CASE SyncerRestarts  BY <1>7 DEF SyncerRestarts
<1>8. CASE Tick
  <2>1. /\ row'.active = row.active /\ row'.at = Older(row.at)
        /\ pc' = pc /\ clock' = clock + 1 /\ missed' = missed
    BY <1>a, <1>8 DEF Tick
  <2>2. (Older(row.at) = Null <=> row.at = Null) /\ Older(row.at) <= row.at + 1
    BY <1>a, OlderType
  <2>3. row.at \in Int /\ Older(row.at) \in Int
    BY <1>a, OlderType, MaxAgeType DEF Age, Null
  <2>4. QED  BY <1>a, <2>1, <2>2, <2>3
<1>9. CASE UNCHANGED cvars  BY <1>9 DEF cvars
<1>10. QED  BY <1>1, <1>2, <1>3, <1>4, <1>5, <1>6, <1>7, <1>8, <1>9 DEF CNext

LEMMA RecentAlways == CSpec => [](CTypeOK /\ ClockInv /\ RecentInv)
<1>1. CInit => ClockInv /\ RecentInv
  BY DEF CInit, ClockInv, RecentInv
<1>2. QED  BY <1>1, TypeCorrect, ClockInductive, RecentInductive, PTL DEF CSpec

\* Between two cycles no row is shown active whose last activity is older than
\* the timeout, one sleep and one cycle.
THEOREM ActiveRecent == CSpec => []ActiveIsRecent
<1>1. CTypeOK /\ ClockInv /\ RecentInv => ActiveIsRecent
  <2> SUFFICES ASSUME CTypeOK, ClockInv, RecentInv, row.active, row.at # Null,
                      pc # "deactivate", ~missed
               PROVE  row.at <= Timeout + Interval + Cycle
    BY DEF ActiveIsRecent
  <2>1. clock \in Nat /\ pc \in Syncing \cup {"sleep"} /\ row.at \in Int
    BY MaxAgeType DEF CTypeOK, Syncing, Age, Null
  <2>2. QED  BY <2>1 DEF ClockInv, RecentInv, Syncing
<1>2. QED  BY <1>1, RecentAlways, PTL

(***************************************************************************)
(* No drop is lost.                                                         *)
(***************************************************************************)
\* No batch is between its HINCRBY and its EXPIRE.
Quiet == \A t \in Task : task[t].step \notin {"hset", "expire"}

\* The ticks that can pass before the syncer takes the counter of the hash.
Wait ==
    IF pc = "sleep" THEN Interval - clock + Cycle
    ELSE IF pc \in {"scan", "flush"} THEN Cycle - clock
    ELSE Cycle - clock + Interval + Cycle

\* The hash outlives the time the syncer needs for its drops, and for the read
\* that follows the flush.
Outlives ==
    Quiet /\ key.exists /\ key.ttl # Forever =>
        /\ key.delta > 0 => key.ttl > Wait
        /\ pc = "read" /\ hand.delta > 0 => key.ttl > Cycle - clock

KeptInv ==
    /\ key.delta > 0 => key.exists
    /\ hand.delta > 0 => pc \in {"read", "upsert"}
    /\ ~failed /\ ~slow =>
        /\ Counted = reported
        /\ pc = "read" /\ hand.delta > 0 => key.exists
        /\ Outlives

LEMMA KeptInductive ==
    ASSUME Ttl > Interval + 2 * Cycle
    PROVE  CTypeOK /\ ClockInv /\ KeptInv /\ [CNext]_cvars => KeptInv'
<1> SUFFICES ASSUME CTypeOK, ClockInv, KeptInv, [CNext]_cvars PROVE KeptInv'  OBVIOUS
<1> USE DEF KeptInv, redis, syncer
<1>a. /\ key \in Keys /\ hand \in Hands /\ row \in Rows /\ reported \in Nat /\ clock \in Nat
      /\ key.delta \in Nat /\ hand.delta \in Nat /\ row.dropped \in Nat
      /\ key.exists \in BOOLEAN /\ key.ttl \in {Forever} \cup 1..Ttl
      /\ pc \in Syncing \cup {"deactivate", "sleep"}
      /\ slow \in BOOLEAN /\ failed \in BOOLEAN
  BY DEF CTypeOK, Syncing
<1>b. clock <= IF pc = "sleep" THEN Interval ELSE Cycle  BY DEF ClockInv
<1>c. Wait \in Int /\ Wait <= Interval + 2 * Cycle  BY <1>a, <1>b DEF Wait, Syncing
<1>1. ASSUME NEW t \in Task, NEW drops \in 0..MaxReported, NEW packets \in BOOLEAN,
             Batch(t, drops, packets)
      PROVE  KeptInv'
  <2>1. Quiet' => Quiet
    <3> SUFFICES ASSUME Quiet', NEW u \in Task PROVE task[u].step \notin {"hset", "expire"}
      BY DEF Quiet
    <3>1. CASE u = t  BY <1>1, <3>1 DEF Batch, Idle
    <3>2. CASE u # t
      <4>1. task'[u] = task[u]  BY <1>1, <3>2 DEF Batch, CTypeOK
      <4>2. QED  BY <4>1 DEF Quiet
    <3>3. QED  BY <3>1, <3>2
  <2>2. QED  BY <1>1, <2>1 DEF Batch, Outlives, Wait, Counted
<1>2. ASSUME NEW t \in Task, Incr(t) PROVE KeptInv'
  <2>1. task[t].drops \in Nat  BY DEF CTypeOK
  <2>2. task'[t].step = "hset"  BY <1>2 DEF Incr, CTypeOK
  <2>3. ~Quiet'  BY <2>2 DEF Quiet
  <2>4. /\ key'.delta = key.delta + task[t].drops
        /\ key.exists \/ task[t].drops > 0 => key'.exists
    <3>1. CASE task[t].drops > 0  BY <1>a, <1>2, <3>1 DEF Incr
    <3>2. CASE task[t].drops = 0  BY <1>a, <1>2, <3>2 DEF Incr
    <3>3. QED  BY <2>1, <3>1, <3>2
  <2>5. UNCHANGED <<pc, hand, clock, row, slow, failed>> /\ reported' = reported + task[t].drops
    BY <1>2 DEF Incr
  <2>6. Outlives'  BY <2>3, Zenon DEF Outlives
  <2>7. key'.delta > 0 => key'.exists  BY <1>a, <2>1, <2>4
  <2>8. Counted = reported => Counted' = reported'  BY <1>a, <2>1, <2>4, <2>5 DEF Counted
  <2>9. ~failed' /\ ~slow' => ~failed /\ ~slow  BY <2>5
  <2>10. pc' = "read" /\ hand'.delta > 0 => pc = "read" /\ hand.delta > 0  BY <2>5
  <2>11. key.exists => key'.exists  BY <2>4
  <2>12. hand'.delta > 0 => pc' \in {"read", "upsert"}  BY <2>5
  <2>13. QED  BY <2>6, <2>7, <2>8, <2>9, <2>10, <2>11, <2>12
<1>3. ASSUME NEW t \in Task, Hset(t) PROVE KeptInv'
  <2>1. task'[t].step = "expire"  BY <1>3 DEF Hset, CTypeOK
  <2>2. ~Quiet'  BY <2>1 DEF Quiet
  <2>3. key'.delta = key.delta /\ (key.exists => key'.exists)
    <3>1. CASE task[t].packets   BY <1>a, <1>3, <3>1 DEF Hset
    <3>2. CASE ~task[t].packets  BY <1>a, <1>3, <3>2 DEF Hset
    <3>3. QED  BY <3>1, <3>2
  <2>4. UNCHANGED <<pc, hand, clock, row, slow, failed, reported>>  BY <1>3 DEF Hset
  <2>5. QED  BY <1>a, <2>2, <2>3, <2>4 DEF Outlives, Counted
<1>4. ASSUME NEW t \in Task, Expire(t) PROVE KeptInv'
  <2>1. UNCHANGED <<pc, hand, clock, row, slow, failed, reported>>  BY <1>4 DEF Expire
  <2>2. /\ key'.delta = key.delta /\ key'.exists = key.exists
        /\ key.exists => key'.ttl = Ttl
    <3>1. CASE key.exists   BY <1>a, <1>4, <3>1 DEF Expire
    <3>2. CASE ~key.exists  BY <1>a, <1>4, <3>2 DEF Expire
    <3>3. QED  BY <3>1, <3>2
  <2>3. Wait' = Wait  BY <2>1 DEF Wait
  <2>4. Cycle - clock <= Interval + 2 * Cycle  BY <1>a
  <2>5. QED  BY <1>a, <1>c, <2>1, <2>2, <2>3, <2>4 DEF Outlives, Counted
<1>5. ASSUME NEW t \in Task, PipelineFails(t) PROVE KeptInv'
  BY <1>5 DEF PipelineFails
<1>6. CASE Scan
  <2>1. UNCHANGED <<task, key, hand, clock, row, slow, failed, reported>> /\ pc = "scan"
    BY <1>6 DEF Scan
  <2>2. pc' = IF key.exists THEN "flush" ELSE "deactivate"  BY <1>6 DEF Scan
  <2>3. Quiet' = Quiet  BY <2>1 DEF Quiet
  <2>4. key.exists => Wait' = Wait  BY <2>1, <2>2 DEF Wait
  <2>5. QED  BY <1>a, <2>1, <2>2, <2>3, <2>4 DEF Outlives, Counted
<1>7. CASE Flush
  <2>1. UNCHANGED <<task, clock, row, slow, failed, reported>> /\ pc = "flush" /\ pc' = "read"
    BY <1>7 DEF Flush
  <2>2. /\ hand'.delta = key.delta /\ key'.delta = 0
        /\ key'.exists = key.exists /\ key'.ttl = key.ttl
    BY <1>a, <1>7 DEF Flush
  <2>3. Quiet' = Quiet  BY <2>1 DEF Quiet
  <2>4. Wait = Cycle - clock  BY <2>1 DEF Wait
  <2>5. QED  BY <1>a, <2>1, <2>2, <2>3, <2>4 DEF Outlives, Counted
<1>8. CASE Read
  <2>1. UNCHANGED <<task, key, clock, row, slow, failed, reported>> /\ pc = "read"
    BY <1>8 DEF Read
  <2>2. Quiet' = Quiet  BY <2>1 DEF Quiet
  <2>3. CASE key.exists
    <3>1. pc' = "upsert" /\ hand'.delta = hand.delta  BY <1>a, <1>8, <2>3 DEF Read
    <3>2. Wait' = Wait  BY <2>1, <3>1 DEF Wait
    <3>3. QED  BY <1>a, <2>1, <2>2, <2>3, <3>1, <3>2 DEF Outlives, Counted
  <2>4. CASE ~key.exists
    <3>1. pc' = "deactivate" /\ hand'.delta = 0  BY <1>8, <2>4 DEF Read, NoHand
    <3>2. QED  BY <1>a, <2>1, <2>2, <2>4, <3>1 DEF Outlives, Counted
  <2>5. QED  BY <2>3, <2>4
<1>9. CASE Upsert
  <2>1. /\ UNCHANGED <<task, key, clock, slow, failed, reported>>
        /\ pc = "upsert" /\ pc' = "deactivate"
    BY <1>9 DEF Upsert
  <2>2. hand'.delta = 0 /\ row'.dropped = row.dropped + hand.delta
    BY <1>9 DEF Upsert, Upserted, NoHand
  <2>3. Quiet' = Quiet /\ Wait' = Wait  BY <2>1 DEF Quiet, Wait
  <2>4. QED  BY <1>a, <2>1, <2>2, <2>3 DEF Outlives, Counted
<1>10. CASE Deactivate
  <2>1. /\ UNCHANGED <<task, key, hand, slow, failed, reported>>
        /\ pc = "deactivate" /\ pc' = "sleep" /\ clock' = 0
    BY <1>10 DEF Deactivate
  <2>2. row'.dropped = row.dropped  BY <1>a, <1>10 DEF Deactivate
  <2>3. Quiet' = Quiet  BY <2>1 DEF Quiet
  <2>4. Wait' <= Wait /\ Wait' \in Int  BY <1>a, <1>b, <2>1 DEF Wait
  <2>5. QED  BY <1>a, <1>c, <2>1, <2>2, <2>3, <2>4 DEF Outlives, Counted
<1>11. CASE Wake
  <2>1. /\ UNCHANGED <<task, key, hand, row, slow, failed, reported>>
        /\ pc = "sleep" /\ pc' = "scan" /\ clock = Interval /\ clock' = 0
    BY <1>11 DEF Wake
  <2>2. Quiet' = Quiet /\ Wait' = Wait  BY <2>1 DEF Quiet, Wait
  <2>3. QED  BY <1>a, <2>1, <2>2 DEF Outlives, Counted
<1>12. CASE CallFails
  <2>1. failed' = TRUE /\ hand'.delta = 0  BY <1>12 DEF CallFails, NoHand
  <2>2. key'.delta > 0 => key'.exists
    <3>1. CASE UNCHANGED <<key, row>>  BY <3>1
    <3>2. CASE key' = [key EXCEPT !.delta = 0]  BY <1>a, <3>2
    <3>3. CASE UNCHANGED key  BY <3>3
    <3>4. QED  BY <1>12, <3>1, <3>2, <3>3 DEF CallFails
  <2>3. QED  BY <2>1, <2>2
<1>13. CASE SyncerRestarts
  <2>1. failed' = TRUE /\ hand'.delta = 0 /\ key' = key  BY <1>13 DEF SyncerRestarts, NoHand
  <2>2. QED  BY <2>1
<1>14. CASE Tick
  <2>1. /\ UNCHANGED <<pc, failed, reported>> /\ clock' = clock + 1
        /\ hand'.delta = hand.delta /\ row'.dropped = row.dropped
    BY <1>a, <1>14 DEF Tick
  <2>2. clock < IF pc = "sleep" THEN Interval ELSE Cycle  BY <1>14 DEF Tick, MayTick
  <2>a. slow' = (slow \/ \E t \in Task : task[t] # Idle)  BY <1>14 DEF Tick
  <2>b. ~failed' /\ ~slow' => ~failed /\ ~slow /\ \A t \in Task : task[t] = Idle
    BY <2>1, <2>a, Zenon
  <2>3. CASE key.ttl = 1
    <3>1. key' = NoKey  BY <1>14, <2>3 DEF Tick, KeyLater
    <3>2. key'.delta = 0 /\ key'.exists = FALSE  BY <3>1 DEF NoKey
    <3>3. ASSUME ~failed', ~slow'
          PROVE  key.delta = 0 /\ ~(pc = "read" /\ hand.delta > 0)
      <4>1. ~slow /\ ~failed /\ \A t \in Task : task[t] = Idle
        BY <2>b, <3>3
      <4>2. Quiet  BY <4>1 DEF Quiet, Idle
      <4>3. Wait >= 1  BY <1>a, <2>2 DEF Wait, Syncing
      <4>4. 1 # Forever  BY DEF Forever
      <4>5. Outlives  BY <4>1
      <4>6. key.delta = 0
        BY <1>a, <1>c, <2>3, <4>2, <4>3, <4>4, <4>5 DEF Outlives
      <4>7. pc = "read" /\ hand.delta > 0 => key.exists  BY <4>1
      <4>8. ~(pc = "read" /\ hand.delta > 0)
        BY <1>a, <2>2, <2>3, <4>2, <4>4, <4>5, <4>7 DEF Outlives
      <4>9. QED  BY <4>6, <4>8
    <3>4. ~failed' /\ ~slow' => ~failed /\ ~slow  BY <2>b
    <3>5. QED  BY <1>a, <2>1, <3>2, <3>3, <3>4 DEF Outlives, Counted
  <2>4. CASE key.ttl # 1
    <3>1. /\ key'.delta = key.delta /\ key'.exists = key.exists
          /\ key'.ttl = IF key.ttl = Forever THEN Forever ELSE key.ttl - 1
      BY <1>a, <1>14, <2>4 DEF Tick, KeyLater
    <3>2. ASSUME ~failed', ~slow' PROVE Quiet /\ ~failed /\ ~slow
      BY <2>b, <3>2 DEF Quiet, Idle
    <3>3. Wait' = Wait - 1  BY <1>a, <2>1 DEF Wait
    <3>4. ~failed' /\ ~slow' => Outlives'
      <4> SUFFICES ASSUME ~failed', ~slow', key.exists, key.ttl # Forever
                   PROVE  /\ key.delta > 0 => key.ttl - 1 > Wait - 1
                          /\ pc = "read" /\ hand.delta > 0 => key.ttl - 1 > Cycle - (clock + 1)
        BY <2>1, <3>1, <3>3 DEF Outlives, Forever
      <4>1. Outlives /\ Quiet  BY <3>2
      <4>2. QED  BY <1>a, <1>c, <4>1 DEF Outlives
    <3>5. QED  BY <1>a, <2>1, <3>1, <3>2, <3>4 DEF Counted
  <2>5. QED  BY <2>3, <2>4
<1>15. CASE UNCHANGED cvars
  BY <1>15 DEF cvars, Outlives, Quiet, Wait, Counted
<1>16. QED  BY <1>1, <1>2, <1>3, <1>4, <1>5, <1>6, <1>7, <1>8, <1>9, <1>10, <1>11, <1>12,
               <1>13, <1>14, <1>15 DEF CNext

\* While no call fails and the commands of a batch stay within a tick, every
\* drop reaches the row, if a hash lives longer than one sleep and two cycles
\* of the syncer: with 6 s and 1 s, while a cycle takes less than 2.5 s.
THEOREM NothingLost ==
    ASSUME Ttl > Interval + 2 * Cycle
    PROVE  CSpec => []DropsKept
<1>1. CInit => KeptInv
  BY DEF CInit, KeptInv, Counted, Outlives, NoKey, NoHand
<1>2. CTypeOK /\ ClockInv /\ KeptInv /\ [CNext]_cvars => KeptInv'  BY KeptInductive
<1>3. KeptInv => DropsKept  BY DEF KeptInv, DropsKept
<1>4. QED  BY <1>1, <1>2, <1>3, RecentAlways, PTL DEF CSpec

(***************************************************************************)
(* Activity reaches the row.                                                *)
(***************************************************************************)
\* The row does not have the last activity yet.
Pending == newest # Null /\ row.at # newest

\* The syncer has read it.
InHand == pc = "upsert" /\ hand.at = newest

\* The ticks that can pass before the syncer writes the last activity.
ActivityWait ==
    IF pc = "sleep" THEN Interval - clock + Cycle
    ELSE IF pc \in {"scan", "flush", "read"} \/ InHand THEN Cycle - clock
    ELSE Cycle - clock + Interval + Cycle

\* The hash of an activity that is not in the row is as old as the activity.
Surviving ==
    /\ key.exists /\ key.at = newest
    /\ Quiet /\ key.ttl # Forever => key.ttl + newest >= Ttl

\* What the hash, the hand and the row have of the activity: nothing is newer
\* than the newest, and the row is not newer than what is about to be written.
Aged ==
    /\ key.at \in {Null, newest}
    /\ row.at # Null => newest # Null /\ row.at >= newest
    /\ hand.at # Null => newest # Null /\ hand.at >= newest /\ pc = "upsert"
    /\ hand.at # Null /\ row.at # Null => row.at >= hand.at
    /\ \A t \in Task : task[t].packets /\ task[t].step \in {"incr", "hset"} => task[t].at = 0

ActivityInv ==
    ~failed /\ ~slow =>
        /\ Aged
        /\ Pending => newest + ActivityWait <= Interval + 2 * Cycle
        /\ Pending /\ ~InHand => Surviving

LEMMA ActivityGives ==
    CTypeOK /\ ClockInv /\ ActivityInv => ActivityReachesRow
<1> SUFFICES ASSUME CTypeOK, ClockInv, ActivityInv, ~failed, ~slow,
                    newest > Interval + 2 * Cycle
             PROVE  row.at = newest
  BY DEF ActivityReachesRow
<1>1. /\ clock \in Nat /\ newest \in Int /\ newest # Null
      /\ pc \in Syncing \cup {"deactivate", "sleep"}
      /\ clock <= IF pc = "sleep" THEN Interval ELSE Cycle
  BY MaxAgeType DEF CTypeOK, ClockInv, Syncing, Age, Null
<1>2. ActivityWait >= 0 /\ ActivityWait \in Int  BY <1>1 DEF ActivityWait, Syncing
<1>3. ~Pending  BY <1>1, <1>2 DEF ActivityInv
<1>4. QED  BY <1>1, <1>3 DEF Pending

\* Two ages grow together.
LEMMA OlderTogether ==
    ASSUME NEW a \in Age, NEW b \in Age
    PROVE  /\ a # Null /\ b # Null /\ a >= b => Older(a) >= Older(b)
           /\ b # Null /\ b < MaxAge => Older(b) = b + 1
BY MaxAgeType DEF Age, Older, Null

LEMMA ActivityInductive ==
    ASSUME Ttl > Interval + 2 * Cycle
    PROVE  CTypeOK /\ ClockInv /\ ActivityInv /\ [CNext]_cvars => ActivityInv'
<1> SUFFICES ASSUME CTypeOK, ClockInv, ActivityInv, [CNext]_cvars, ~failed', ~slow'
             PROVE  /\ Aged'
                    /\ Pending' => newest' + ActivityWait' <= Interval + 2 * Cycle
                    /\ Pending' /\ ~InHand' => Surviving'
  BY DEF ActivityInv
<1> DEFINE Good == /\ Aged'
                   /\ Pending' => newest' + ActivityWait' <= Interval + 2 * Cycle
                   /\ Pending' /\ ~InHand' => Surviving'
<1> USE DEF redis, syncer
<1>a. /\ key \in Keys /\ hand \in Hands /\ row \in Rows /\ clock \in Nat /\ newest \in Age
      /\ key.exists \in BOOLEAN /\ key.ttl \in {Forever} \cup 1..Ttl /\ key.at \in Age
      /\ hand.at \in Age /\ row.at \in Age
      /\ slow \in BOOLEAN /\ failed \in BOOLEAN
      /\ pc \in Syncing \cup {"deactivate", "sleep"}
      /\ task \in [Task -> Batches]
  <2>1. task \in [Task -> Batches]  BY DEF CTypeOK, Steps
  <2>2. pc \in Syncing \cup {"deactivate", "sleep"}  BY DEF CTypeOK, Syncing
  <2>3. QED  BY <2>1, <2>2 DEF CTypeOK
<1>b. clock <= IF pc = "sleep" THEN Interval ELSE Cycle  BY DEF ClockInv
<1>c. Null \notin 0..MaxAge /\ Age \subseteq Int /\ \A x \in Age : x # Null => x >= 0
  BY MaxAgeType DEF Age, Null
<1>d. ActivityWait \in Int /\ ActivityWait >= 0 /\ ActivityWait <= Interval + 2 * Cycle
  BY <1>a, <1>b DEF ActivityWait, Syncing
<1>e. ASSUME ~failed, ~slow
      PROVE  /\ Aged
             /\ Pending => newest + ActivityWait <= Interval + 2 * Cycle
             /\ Pending /\ ~InHand => Surviving
  BY <1>e DEF ActivityInv
<1>1. ASSUME NEW t \in Task, NEW drops \in 0..MaxReported, NEW packets \in BOOLEAN,
             Batch(t, drops, packets)
      PROVE  Good
  <2>1. UNCHANGED <<key, newest, pc, hand, clock, row, slow, failed>>  BY <1>1 DEF Batch
  <2>2. \A u \in Task : u # t => task'[u] = task[u]  BY <1>1, <1>a DEF Batch
  <2>3. /\ task[t].step = "idle" /\ task'[t].step = "incr"
        /\ task'[t].packets => task'[t].at = 0
    BY <1>1, <1>a DEF Batch, Idle
  <2>4. Quiet' => Quiet
    <3> SUFFICES ASSUME Quiet', NEW u \in Task PROVE task[u].step \notin {"hset", "expire"}
      BY DEF Quiet
    <3>1. QED  BY <2>2, <2>3 DEF Quiet
  <2>5. Aged'  BY <1>e, <2>1, <2>2, <2>3 DEF Aged
  <2>6. QED  BY <1>e, <2>1, <2>4, <2>5 DEF Pending, InHand, ActivityWait, Surviving
<1>2. ASSUME NEW t \in Task, Incr(t) PROVE Good
  <2>1. UNCHANGED <<newest, pc, hand, clock, row, slow, failed>>  BY <1>2 DEF Incr
  <2>2. \A u \in Task : u # t => task'[u] = task[u]  BY <1>2, <1>a DEF Incr
  <2>3. /\ task[t].step = "incr" /\ task'[t].step = "hset"
        /\ task'[t].packets = task[t].packets /\ task'[t].at = task[t].at
    BY <1>2, <1>a DEF Incr
  <2>4. ~Quiet'  BY <2>3 DEF Quiet
  <2>5. key'.at = key.at /\ (key.exists => key'.exists)
    <3>1. CASE task[t].drops > 0  BY <1>a, <1>2, <3>1 DEF Incr
    <3>2. CASE ~(task[t].drops > 0)  BY <1>a, <1>2, <3>2 DEF Incr
    <3>3. QED  BY <3>1, <3>2
  <2>6. Aged'  BY <1>e, <2>1, <2>2, <2>3, <2>5 DEF Aged
  <2>7. QED  BY <1>e, <2>1, <2>4, <2>5, <2>6 DEF Pending, InHand, ActivityWait, Surviving
<1>3. ASSUME NEW t \in Task, Hset(t) PROVE Good
  <2>1. UNCHANGED <<pc, hand, clock, row, slow, failed>>  BY <1>3 DEF Hset
  <2>2. \A u \in Task : u # t => task'[u] = task[u]  BY <1>3, <1>a DEF Hset
  <2>3. task[t].step = "hset" /\ task'[t].step = "expire"  BY <1>3, <1>a DEF Hset
  <2>4. ~Quiet'  BY <2>3 DEF Quiet
  <2>5. CASE task[t].packets
    <3>1. newest' = 0 /\ key'.at = 0 /\ key'.exists
      <4>1. task[t].at = 0  BY <1>e, <2>1, <2>3, <2>5 DEF Aged
      <4>2. key' = [key EXCEPT !.exists = TRUE, !.at = 0] /\ newest' = 0
        BY <1>3, <2>5, <4>1 DEF Hset
      <4>3. QED  BY <1>a, <4>2
    <3>2. Aged'
      <4>1. Aged  BY <1>e, <2>1
      <4>2. (row.at # Null => row.at >= 0) /\ (hand.at # Null => hand.at >= 0) /\ 0 # Null
        <5>1. 0 # Null  BY <1>c, MaxAgeType
        <5>2. QED  BY <1>a, <1>c, <5>1
      <4>3. QED  BY <2>1, <2>2, <2>3, <3>1, <4>1, <4>2 DEF Aged
    <3>3. ActivityWait' <= Interval + 2 * Cycle /\ ActivityWait' \in Int
      BY <1>a, <1>b, <2>1 DEF ActivityWait, Syncing
    <3>4. newest' + ActivityWait' <= Interval + 2 * Cycle
      <4> DEFINE wait == ActivityWait'
      <4>1. wait \in Int /\ wait <= Interval + 2 * Cycle  BY <3>3
      <4> HIDE DEF wait
      <4>2. newest' + wait <= Interval + 2 * Cycle  BY <3>1, <4>1
      <4>3. QED  BY <4>2 DEF wait
    <3>5. Surviving'  BY <2>4, <3>1, Zenon DEF Surviving
    <3>6. QED  BY <3>2, <3>4, <3>5
  <2>6. CASE ~task[t].packets
    <3>1. UNCHANGED <<key, newest>>  BY <1>3, <2>6 DEF Hset
    <3>2. Aged'  BY <1>e, <2>1, <2>2, <2>3, <3>1 DEF Aged
    <3>3. QED  BY <1>e, <2>1, <2>4, <3>1, <3>2 DEF Pending, InHand, ActivityWait, Surviving
  <2>7. QED  BY <2>5, <2>6
<1>4. ASSUME NEW t \in Task, Expire(t) PROVE Good
  <2>1. UNCHANGED <<newest, pc, hand, clock, row, slow, failed>>  BY <1>4 DEF Expire
  <2>2. \A u \in Task : u # t => task'[u] = task[u]  BY <1>4, <1>a DEF Expire
  <2>3. task'[t].step = "idle"  BY <1>4, <1>a DEF Expire, Idle
  <2>4. /\ key'.at = key.at /\ key'.exists = key.exists
        /\ key.exists => key'.ttl = Ttl
    <3>1. CASE key.exists   BY <1>a, <1>4, <3>1 DEF Expire
    <3>2. CASE ~key.exists  BY <1>a, <1>4, <3>2 DEF Expire
    <3>3. QED  BY <3>1, <3>2
  <2>5. Aged'  BY <1>e, <2>1, <2>2, <2>3, <2>4 DEF Aged
  <2>6. newest # Null => Ttl + newest >= Ttl  BY <1>a, <1>c
  <2>7. QED  BY <1>e, <2>1, <2>4, <2>5, <2>6 DEF Pending, InHand, ActivityWait, Surviving
<1>5. ASSUME NEW t \in Task, PipelineFails(t) PROVE Good
  BY <1>5 DEF PipelineFails
<1>6. CASE Scan
  <2>1. UNCHANGED <<task, key, newest, hand, clock, row, slow, failed>> /\ pc = "scan"
    BY <1>6 DEF Scan
  <2>2. pc' = IF key.exists THEN "flush" ELSE "deactivate"  BY <1>6 DEF Scan
  <2>3. Quiet' = Quiet  BY <2>1 DEF Quiet
  <2>4. Aged' /\ ~InHand /\ ~InHand'  BY <1>e, <2>1, <2>2 DEF Aged, InHand
  <2>5. Pending' => key.exists  BY <1>e, <2>1, <2>4 DEF Pending, Surviving
  <2>6. key.exists => ActivityWait' = ActivityWait  BY <2>1, <2>2 DEF ActivityWait
  <2>7. QED  BY <1>e, <2>1, <2>3, <2>4, <2>5, <2>6 DEF Pending, Surviving
<1>7. CASE Flush
  <2>1. UNCHANGED <<task, newest, clock, row, slow, failed>> /\ pc = "flush" /\ pc' = "read"
    BY <1>7 DEF Flush
  <2>2. /\ hand'.at = hand.at /\ key'.at = key.at
        /\ key'.exists = key.exists /\ key'.ttl = key.ttl
    BY <1>a, <1>7 DEF Flush
  <2>3. Quiet' = Quiet  BY <2>1 DEF Quiet
  <2>4. Aged' /\ ~InHand  BY <1>e, <2>1, <2>2 DEF Aged, InHand
  <2>5. ActivityWait' = ActivityWait  BY <2>1 DEF ActivityWait
  <2>6. QED  BY <1>e, <2>1, <2>2, <2>3, <2>4, <2>5 DEF Pending, Surviving
<1>8. CASE Read
  <2>1. UNCHANGED <<task, key, newest, clock, row, slow, failed>> /\ pc = "read"
    BY <1>8 DEF Read
  <2>2. Quiet' = Quiet /\ ~InHand  BY <2>1 DEF Quiet, InHand
  <2>3. CASE key.exists
    <3>1. pc' = "upsert" /\ hand'.at = key.at  BY <1>a, <1>8, <2>3 DEF Read
    <3>2. Aged'
      <4>1. Aged  BY <1>e, <2>1
      <4>2. newest \in Int  BY <1>a, <1>c
      <4>3. hand'.at # Null => newest # Null /\ hand'.at = newest  BY <3>1, <4>1 DEF Aged
      <4>4. QED  BY <2>1, <3>1, <4>1, <4>2, <4>3 DEF Aged
    <3>3. Pending' => InHand'  BY <1>e, <2>1, <2>2, <3>1 DEF Pending, InHand, Surviving
    <3>4. InHand' => ActivityWait' = ActivityWait  BY <2>1, <3>1 DEF ActivityWait
    <3>5. Pending' => Pending  BY <2>1 DEF Pending
    <3>6. QED  BY <1>e, <2>1, <3>2, <3>3, <3>4, <3>5
  <2>4. CASE ~key.exists
    <3>1. pc' = "deactivate" /\ hand'.at = Null  BY <1>8, <2>4 DEF Read, NoHand
    <3>2. Aged'  BY <1>e, <2>1, <3>1 DEF Aged
    <3>3. ~Pending'  BY <1>e, <2>1, <2>2, <2>4 DEF Pending, Surviving
    <3>4. QED  BY <3>2, <3>3
  <2>5. QED  BY <2>3, <2>4
<1>9. CASE Upsert
  <2>1. /\ UNCHANGED <<task, key, newest, clock, slow, failed>>
        /\ pc = "upsert" /\ pc' = "deactivate"
    BY <1>9 DEF Upsert
  <2>2. hand'.at = Null /\ row'.at = IF hand.at # Null THEN hand.at ELSE row.at
    BY <1>9 DEF Upsert, Upserted, NoHand
  <2>3. Quiet' = Quiet /\ ~InHand'  BY <2>1 DEF Quiet, InHand
  <2>4. Aged'  BY <1>e, <2>1, <2>2 DEF Aged
  <2>5. Pending' => Pending /\ ~InHand
    <3>1. CASE hand.at = Null  BY <2>1, <2>2, <3>1 DEF Pending, InHand
    <3>2. CASE hand.at # Null
      <4>1. row.at = newest /\ newest # Null => hand.at = newest
        <5>1. Aged /\ row.at \in Int /\ hand.at \in Int /\ newest \in Int
          BY <1>a, <1>c, <1>e, <2>1
        <5>2. QED  BY <3>2, <5>1 DEF Aged
      <4>2. QED  BY <2>1, <2>2, <3>2, <4>1 DEF Pending, InHand
    <3>3. QED  BY <3>1, <3>2
  <2>6. ~InHand => ActivityWait' = ActivityWait  BY <2>1, <2>3 DEF ActivityWait
  <2>7. QED  BY <1>e, <2>1, <2>3, <2>4, <2>5, <2>6 DEF Surviving
<1>10. CASE Deactivate
  <2>1. /\ UNCHANGED <<task, key, newest, hand, slow, failed>>
        /\ pc = "deactivate" /\ pc' = "sleep" /\ clock' = 0
    BY <1>10 DEF Deactivate
  <2>2. row'.at = row.at  BY <1>a, <1>10 DEF Deactivate
  <2>3. Quiet' = Quiet /\ ~InHand /\ ~InHand'  BY <2>1 DEF Quiet, InHand
  <2>4. Aged'  BY <1>e, <2>1, <2>2 DEF Aged
  <2>5. ActivityWait' <= ActivityWait /\ ActivityWait' \in Int
    BY <1>a, <1>b, <2>1, <2>3 DEF ActivityWait
  <2>6. newest \in Int  BY <1>a, <1>c
  <2>7. Pending' => newest' + ActivityWait' <= Interval + 2 * Cycle
    <3>1. Pending' => Pending /\ newest' = newest  BY <2>1, <2>2 DEF Pending
    <3>2. Pending => newest + ActivityWait <= Interval + 2 * Cycle  BY <1>e, <2>1
    <3> DEFINE wait == ActivityWait'
    <3>3. wait \in Int /\ wait <= ActivityWait  BY <2>5
    <3> HIDE DEF wait
    <3>4. Pending' => newest' + wait <= Interval + 2 * Cycle
      BY <1>d, <2>6, <3>1, <3>2, <3>3
    <3>5. QED  BY <3>4 DEF wait
  <2>8. Pending' => Surviving'  BY <1>e, <2>1, <2>2, <2>3 DEF Pending, Surviving
  <2>9. QED  BY <2>4, <2>7, <2>8
<1>11. CASE Wake
  <2>1. /\ UNCHANGED <<task, key, newest, hand, row, slow, failed>>
        /\ pc = "sleep" /\ pc' = "scan" /\ clock = Interval /\ clock' = 0
    BY <1>11 DEF Wake
  <2>2. Quiet' = Quiet /\ ActivityWait' = ActivityWait /\ ~InHand
    BY <1>a, <2>1 DEF Quiet, ActivityWait, InHand
  <2>3. Aged'  BY <1>e, <2>1 DEF Aged
  <2>4. QED  BY <1>e, <2>1, <2>2, <2>3 DEF Pending, Surviving
<1>12. CASE CallFails \/ SyncerRestarts
  BY <1>12 DEF CallFails, SyncerRestarts
<1>13. CASE Tick
  <2>1. UNCHANGED <<pc, failed>> /\ clock' = clock + 1 /\ newest' = Older(newest)
    BY <1>13 DEF Tick
  <2>2. hand'.at = Older(hand.at) /\ row'.at = Older(row.at)  BY <1>a, <1>13 DEF Tick
  <2>3. clock < IF pc = "sleep" THEN Interval ELSE Cycle  BY <1>13 DEF Tick, MayTick
  <2>4. ~failed /\ ~slow /\ \A t \in Task : task[t] = Idle
    <3>1. slow' = (slow \/ \E t \in Task : task[t] # Idle)  BY <1>13 DEF Tick
    <3>2. QED  BY <2>1, <3>1, Zenon
  <2>5. Quiet /\ \A t \in Task : task'[t].step = "idle"
    BY <1>13, <2>4 DEF Tick, Quiet, Idle
  <2>6. ActivityWait' <= ActivityWait - 1 /\ ActivityWait >= 1 /\ ActivityWait' \in Int
    <3>1. InHand => InHand'  BY <2>1, <2>2 DEF InHand
    <3>2. CASE InHand
      BY <1>a, <2>1, <2>3, <3>1, <3>2 DEF ActivityWait, InHand
    <3>3. CASE ~InHand
      BY <1>a, <2>1, <2>3, <3>3 DEF ActivityWait, Syncing
    <3>4. QED  BY <3>2, <3>3
  <2>7. Pending' => Pending
    BY <1>a, <2>1, <2>2, OlderType DEF Pending
  <2>8. ~InHand' => ~InHand  BY <2>1, <2>2 DEF InHand
  <2>9. newest \in Int /\ newest' \in Int /\ newest' <= newest + 1
    <3>1. newest' \in Age /\ newest' <= newest + 1  BY <1>a, <2>1, OlderType
    <3>2. QED  BY <1>a, <1>c, <3>1
  <2>10. Pending => newest < MaxAge /\ newest' = newest + 1
    <3> SUFFICES ASSUME Pending PROVE newest < MaxAge /\ newest' = newest + 1
      OBVIOUS
    <3>1. newest < Interval + 2 * Cycle + 1  BY <1>d, <1>e, <2>4, <2>6, <2>9
    <3>2. MaxAge >= Interval + 2 * Cycle + 1  BY DEF MaxAge
    <3>3. newest < MaxAge  BY <2>9, <3>1, <3>2, MaxAgeType
    <3>4. QED  BY <1>a, <2>1, <3>3, OlderTogether DEF Pending
  <2>11. Pending /\ ~InHand => key.ttl # 1
    <3> SUFFICES ASSUME Pending, ~InHand, key.ttl = 1 PROVE FALSE
      OBVIOUS
    <3>1. Surviving  BY <1>e, <2>4
    <3>2. 1 + newest >= Ttl  BY <2>5, <3>1 DEF Surviving, Forever
    <3>3. newest + ActivityWait <= Interval + 2 * Cycle  BY <1>e, <2>4
    <3>4. QED  BY <1>d, <2>6, <2>9, <3>2, <3>3
  <2>w. Pending' => newest' + ActivityWait' <= Interval + 2 * Cycle
    <3>1. Pending => newest + ActivityWait <= Interval + 2 * Cycle  BY <1>e, <2>4
    <3> DEFINE wait   == ActivityWait'
               before == ActivityWait
               next   == newest'
    <3>2. wait \in Int /\ before \in Int /\ wait <= before - 1  BY <1>d, <2>6
    <3>3. next \in Int /\ next <= newest + 1  BY <2>9
    <3>4. Pending => newest + before <= Interval + 2 * Cycle  BY <3>1
    <3> HIDE DEF wait, before, next
    <3>5. Pending => next + wait <= Interval + 2 * Cycle  BY <2>9, <3>2, <3>3, <3>4
    <3>6. QED  BY <2>7, <3>5 DEF wait, next
  <2>12. CASE key.ttl = 1
    <3>1. key' = NoKey  BY <1>13, <2>12 DEF Tick, KeyLater
    <3>2. key'.at = Null  BY <3>1 DEF NoKey
    <3>3. Aged'
      BY <1>a, <1>e, <2>1, <2>2, <2>4, <2>5, <3>2, OlderType, OlderTogether DEF Aged
    <3>4. Pending' => InHand'  BY <2>7, <2>8, <2>11, <2>12
    <3>5. QED  BY <2>w, <3>3, <3>4
  <2>13. CASE key.ttl # 1
    <3>1. /\ key'.at = Older(key.at) /\ key'.exists = key.exists
          /\ key'.ttl = IF key.ttl = Forever THEN Forever ELSE key.ttl - 1
      BY <1>a, <1>13, <2>13 DEF Tick, KeyLater
    <3>2. key'.at \in {Null, newest'}
      BY <1>a, <1>e, <2>1, <2>4, <3>1, OlderType DEF Aged
    <3>3. Aged'
      BY <1>a, <1>e, <2>1, <2>2, <2>4, <2>5, <3>2, OlderType, OlderTogether DEF Aged
    <3>4. Pending' /\ ~InHand' => Surviving'
      <4> SUFFICES ASSUME Pending', ~InHand' PROVE Surviving'
        OBVIOUS
      <4>1. Pending /\ Surviving  BY <1>e, <2>4, <2>7, <2>8
      <4>2. key'.exists /\ key'.at = newest'  BY <2>1, <3>1, <4>1 DEF Surviving
      <4>3. key.ttl # Forever => key.ttl + newest >= Ttl  BY <2>5, <4>1 DEF Surviving
      <4>4. key'.ttl # Forever => key'.ttl + newest' >= Ttl
        BY <1>a, <2>9, <2>10, <3>1, <4>1, <4>3 DEF Forever
      <4>5. QED  BY <4>2, <4>4 DEF Surviving
    <3>5. QED  BY <2>w, <3>3, <3>4
  <2>14. QED  BY <2>12, <2>13
<1>14. CASE UNCHANGED cvars
  BY <1>14, <1>e DEF cvars, Aged, Pending, InHand, ActivityWait, Surviving, Quiet
<1>15. QED  BY <1>1, <1>2, <1>3, <1>4, <1>5, <1>6, <1>7, <1>8, <1>9, <1>10, <1>11, <1>12,
               <1>13, <1>14 DEF CNext

\* While no call fails and the commands of a batch stay within a tick, the
\* newest activity is in the row after at most one sleep and two cycles, if a
\* hash lives longer than that: the syncer reads it before it expires
\* (state_manager.py:95, channel_state_syncer.py).
THEOREM ActivityArrives ==
    ASSUME Ttl > Interval + 2 * Cycle
    PROVE  CSpec => []ActivityReachesRow
<1>1. CInit => ActivityInv
  BY DEF CInit, ActivityInv, Aged, Pending, NoKey, NoHand, Idle
<1>2. CTypeOK /\ ClockInv /\ ActivityInv /\ [CNext]_cvars => ActivityInv'
  BY ActivityInductive
<1>3. CTypeOK /\ ClockInv /\ ActivityInv => ActivityReachesRow  BY ActivityGives
<1>4. QED  BY <1>1, <1>2, <1>3, RecentAlways, PTL DEF CSpec
=============================================================================
