------------------------------ MODULE ChannelState ------------------------------
(***************************************************************************)
(* The activity of a channel: the ingestion service keeps it in a Redis     *)
(* hash with a time to live, and the syncer of the reporting service copies *)
(* it to the row of the channel and deactivates the rows without recent     *)
(* activity (ingestion/state_manager.py, reporting/channel_state_syncer.py).*)
(*                                                                          *)
(* The hashes and the rows of two channels are disjoint, and the mass       *)
(* UPDATE treats each row by itself: one channel is enough.  A step is one  *)
(* Redis command or one SQL statement.  A time is kept as its age, which    *)
(* Tick raises up to MaxAge, and the clock ticks in the unit of Ttl.        *)
(***************************************************************************)
EXTENDS Integers, FiniteSets

CONSTANTS
    Task,        \* batches the ingestion service can have in flight
    Ttl,         \* STATE_KEY_TTL_SEC
    Timeout,     \* activity_timeout_ms
    Interval,    \* reporting_channel_state_syncer_interval_sec
    Cycle,       \* bound: the ticks one cycle of the syncer may take
    MaxReported, \* bound: drops the tracker reports
    MaxFaults    \* bound: errors and restarts

ASSUME ChannelAssumption ==
    /\ {Ttl, Timeout, Interval} \subseteq Nat \ {0}
    /\ {Cycle, MaxReported, MaxFaults} \subseteq Nat

VARIABLES
    task,     \* each batch in flight: its next command, drops, packets, age of its time.time()
    \* --- Redis ---
    key,      \* channel:state:{ch}: exists, ttl, at (age of last_activity_at), delta
    \* --- the syncer ---
    pc,       \* its next call
    hand,     \* the delta and the last_activity_at it has read
    clock,    \* ticks it has slept, or ticks of this cycle
    \* --- TimescaleDB ---
    row,      \* the row of the channel: active, at (age), dropped; all FALSE, Null, 0
              \* when there is none
    \* --- history ---
    reported, \* drops added to the hash
    newest,   \* age of the last activity written to the hash
    slow,     \* the clock has ticked between two commands of one batch
    failed,   \* a call has failed since the start
    missed,   \* the last deactivation has failed or was skipped
    faults

redis == <<key, reported, newest>>
syncer == <<pc, hand, clock>>
cvars == <<task, redis, syncer, row, slow, failed, missed, faults>>

Null   == -1                   \* no last_activity_at
Forever == -1                  \* a hash without a time to live
MaxAge == IF Timeout > Cycle THEN Timeout + Interval + Cycle + 1
                             ELSE Interval + 2 * Cycle + 1
Age    == {Null} \cup 0..MaxAge

NoKey  == [exists |-> FALSE, ttl |-> Forever, at |-> Null, delta |-> 0]
NoHand == [delta |-> 0, at |-> Null]
Idle   == [step |-> "idle", drops |-> 0, packets |-> FALSE, at |-> Null]

CInit ==
    /\ task = [t \in Task |-> Idle]
    /\ key = NoKey /\ reported = 0 /\ newest = Null
    /\ pc = "scan" /\ hand = NoHand /\ clock = 0
    /\ row = [active |-> FALSE, at |-> Null, dropped |-> 0]
    /\ slow = FALSE /\ failed = FALSE /\ missed = FALSE /\ faults = 0

(***************************************************************************)
(* The ingestion service: the pipeline of one batch.                        *)
(***************************************************************************)
\* process_batch after the tracker: the pipeline is built, with the time of
\* now when the batch has packets.
Batch(t, drops, packets) ==
    /\ task[t] = Idle
    /\ reported + drops <= MaxReported
    /\ task' = [task EXCEPT ![t] = [step |-> "incr", drops |-> drops, packets |-> packets,
                                    at |-> IF packets THEN 0 ELSE Null]]
    /\ UNCHANGED <<redis, syncer, row, slow, failed, missed, faults>>

\* HINCRBY, when drops were detected.  It creates a missing hash, without
\* a time to live.
Incr(t) ==
    /\ task[t].step = "incr"
    /\ task' = [task EXCEPT ![t] = [@ EXCEPT !.step = "hset", !.drops = 0]]
    /\ reported' = reported + task[t].drops
    /\ key' = IF task[t].drops > 0
              THEN [key EXCEPT !.exists = TRUE, !.delta = @ + task[t].drops]
              ELSE key
    /\ UNCHANGED <<newest, syncer, row, slow, failed, missed, faults>>

\* Mutation of Hset: keep-alives count as activity.
HsetAlways(t) ==
    /\ task[t].step = "hset"
    /\ task' = [task EXCEPT ![t] = [@ EXCEPT !.step = "expire", !.at = Null]]
    /\ key' = [key EXCEPT !.exists = TRUE, !.at = 0]
    /\ newest' = task[t].at
    /\ UNCHANGED <<reported, syncer, row, slow, failed, missed, faults>>

\* HSET of last_activity_at and is_active, for a batch with packets.
Hset(t) ==
    /\ task[t].step = "hset"
    /\ task' = [task EXCEPT ![t] = [@ EXCEPT !.step = "expire", !.at = Null]]
    /\ IF task[t].packets
       THEN /\ key' = [key EXCEPT !.exists = TRUE, !.at = task[t].at]
            /\ newest' = task[t].at
       ELSE UNCHANGED <<key, newest>>
    /\ UNCHANGED <<reported, syncer, row, slow, failed, missed, faults>>

\* Mutation of Expire: only a batch with packets refreshes the time to live.
ExpireOnPackets(t) ==
    /\ task[t].step = "expire"
    /\ task' = [task EXCEPT ![t] = Idle]
    /\ key' = IF key.exists /\ task[t].packets THEN [key EXCEPT !.ttl = Ttl] ELSE key
    /\ UNCHANGED <<reported, newest, syncer, row, slow, failed, missed, faults>>

\* Mutation of Expire: one tick too many.
ExpireLater(t) ==
    /\ task[t].step = "expire"
    /\ task' = [task EXCEPT ![t] = Idle]
    /\ key' = IF key.exists THEN [key EXCEPT !.ttl = Ttl + 1] ELSE key
    /\ UNCHANGED <<reported, newest, syncer, row, slow, failed, missed, faults>>

\* EXPIRE, for every batch; it does nothing when there is no hash.
Expire(t) ==
    /\ task[t].step = "expire"
    /\ task' = [task EXCEPT ![t] = Idle]
    /\ key' = IF key.exists THEN [key EXCEPT !.ttl = Ttl] ELSE key
    /\ UNCHANGED <<reported, newest, syncer, row, slow, failed, missed, faults>>

\* The rest of the pipeline is lost: RedisError, or the service restarts.
PipelineFails(t) ==
    /\ task[t] # Idle
    /\ faults < MaxFaults /\ faults' = faults + 1 /\ failed' = TRUE
    /\ task' = [task EXCEPT ![t] = Idle]
    /\ UNCHANGED <<redis, syncer, row, slow, missed>>

(***************************************************************************)
(* The syncer.                                                              *)
(***************************************************************************)
\* SCAN of the state keys: the channel is synchronised if its hash exists.
Scan ==
    /\ pc = "scan"
    /\ pc' = IF key.exists THEN "flush" ELSE "deactivate"
    /\ UNCHANGED <<task, redis, hand, clock, row, slow, failed, missed, faults>>

\* Mutation of Flush: the counter is read and not reset.
FlushKeep ==
    /\ pc = "flush" /\ pc' = "read"
    /\ hand' = [hand EXCEPT !.delta = key.delta]
    /\ UNCHANGED <<task, redis, clock, row, slow, failed, missed, faults>>

\* atomic_drop_flush: the counter is read and reset in one step.
Flush ==
    /\ pc = "flush" /\ pc' = "read"
    /\ hand' = [hand EXCEPT !.delta = key.delta]
    /\ key' = [key EXCEPT !.delta = 0]
    /\ UNCHANGED <<task, reported, newest, clock, row, slow, failed, missed, faults>>

\* HGETALL: a hash that expired after the flush ends the work on the channel,
\* and what was flushed is gone with it.
Read ==
    /\ pc = "read"
    /\ IF key.exists
       THEN pc' = "upsert" /\ hand' = [hand EXCEPT !.at = key.at]
       ELSE pc' = "deactivate" /\ hand' = NoHand
    /\ UNCHANGED <<task, redis, clock, row, slow, failed, missed, faults>>

\* Mutation of Upserted: a missing timestamp replaces that of the row.
UpsertedNull ==
    [active |-> TRUE, dropped |-> row.dropped + hand.delta, at |-> hand.at]

\* The row after the upsert: active, with the drops added and the activity of
\* the hash, or the row's own if the hash has none.
Upserted ==
    [active |-> TRUE, dropped |-> row.dropped + hand.delta,
     at |-> IF hand.at # Null THEN hand.at ELSE row.at]

\* db_upsert_channel.
Upsert ==
    /\ pc = "upsert" /\ pc' = "deactivate"
    /\ row' = Upserted
    /\ hand' = NoHand
    /\ UNCHANGED <<task, redis, clock, slow, failed, missed, faults>>

\* Mutation of TimedOut: the rows that are still within the timeout.
TimedOutSwapped == row.active /\ row.at # Null /\ row.at <= Timeout

\* The condition of the mass UPDATE; a comparison with NULL is not true.
TimedOut == row.active /\ row.at # Null /\ row.at > Timeout

\* db_deactivate_timed_out_channels, then the sleep.
Deactivate ==
    /\ pc = "deactivate" /\ pc' = "sleep"
    /\ row' = IF TimedOut THEN [row EXCEPT !.active = FALSE] ELSE row
    /\ clock' = 0 /\ missed' = FALSE
    /\ UNCHANGED <<task, redis, hand, slow, failed, faults>>

\* The next cycle, after the interval.
Wake ==
    /\ pc = "sleep" /\ clock = Interval
    /\ pc' = "scan" /\ clock' = 0
    /\ UNCHANGED <<task, redis, hand, row, slow, failed, missed, faults>>

\* A call fails, before or after Redis or the database has executed it.  An
\* error of a scan ends the cycle, one of a channel goes on with the
\* deactivation, and what was flushed is forgotten.
CallFails ==
    /\ pc # "sleep"
    /\ faults < MaxFaults /\ faults' = faults + 1 /\ failed' = TRUE
    /\ hand' = NoHand
    /\ IF pc \in {"scan", "deactivate"}
       THEN pc' = "sleep" /\ clock' = 0 /\ missed' = TRUE
       ELSE pc' = "deactivate" /\ UNCHANGED <<clock, missed>>
    /\ \/ UNCHANGED <<key, row>>
       \/ pc = "flush" /\ key' = [key EXCEPT !.delta = 0] /\ UNCHANGED row
       \/ pc = "upsert" /\ row' = Upserted /\ UNCHANGED key
    /\ UNCHANGED <<task, reported, newest, slow>>

\* The reporting service restarts, with a cycle at once.
SyncerRestarts ==
    /\ faults < MaxFaults /\ faults' = faults + 1 /\ failed' = TRUE
    /\ pc' = "scan" /\ hand' = NoHand /\ clock' = 0 /\ missed' = TRUE
    /\ UNCHANGED <<task, redis, row, slow>>

(***************************************************************************)
(* The clock.                                                               *)
(***************************************************************************)
Older(age) == IF age = Null \/ age = MaxAge THEN age ELSE age + 1

\* The hash one tick later; Redis removes it when its time to live is over.
KeyLater ==
    IF key.ttl = 1 THEN NoKey
    ELSE [key EXCEPT !.at = Older(@), !.ttl = IF @ = Forever THEN Forever ELSE @ - 1]

\* The syncer wakes up on time, and a cycle takes at most Cycle ticks.
MayTick == IF pc = "sleep" THEN clock < Interval ELSE clock < Cycle

Tick ==
    /\ MayTick
    /\ clock' = clock + 1
    /\ task' = [t \in Task |-> [task[t] EXCEPT !.at = Older(@)]]
    /\ key' = KeyLater
    /\ hand' = [hand EXCEPT !.at = Older(@)]
    /\ row' = [row EXCEPT !.at = Older(@)]
    /\ newest' = Older(newest)
    /\ slow' = (slow \/ \E t \in Task : task[t] # Idle)
    /\ UNCHANGED <<pc, reported, failed, missed, faults>>

CNext ==
    \/ \E t \in Task, drops \in 0..MaxReported, packets \in BOOLEAN : Batch(t, drops, packets)
    \/ \E t \in Task : Incr(t) \/ Hset(t) \/ Expire(t) \/ PipelineFails(t)
    \/ Scan \/ Flush \/ Read \/ Upsert \/ Deactivate \/ Wake
    \/ CallFails \/ SyncerRestarts
    \/ Tick

CSpec == CInit /\ [][CNext]_cvars

\* The event loops of both services run what is ready, and time passes.
CFairness ==
    /\ \A t \in Task : WF_cvars(Incr(t)) /\ WF_cvars(Hset(t)) /\ WF_cvars(Expire(t))
    /\ WF_cvars(Scan) /\ WF_cvars(Flush) /\ WF_cvars(Read) /\ WF_cvars(Upsert)
    /\ WF_cvars(Deactivate) /\ WF_cvars(Wake)
    /\ WF_cvars(Tick)

CFairSpec == CSpec /\ CFairness

-----------------------------------------------------------------------------
\* Types.
CTypeOK ==
    /\ task \in [Task -> [step : {"idle", "incr", "hset", "expire"}, drops : 0..MaxReported,
                          packets : BOOLEAN, at : Age]]
    /\ key \in [exists : BOOLEAN, ttl : {Forever} \cup 1..Ttl, at : Age, delta : Nat]
    /\ pc \in {"scan", "flush", "read", "upsert", "deactivate", "sleep"}
    /\ hand \in [delta : Nat, at : Age]
    /\ clock \in Nat
    /\ row \in [active : BOOLEAN, at : Age, dropped : Nat]
    /\ reported \in Nat /\ newest \in Age
    /\ slow \in BOOLEAN /\ failed \in BOOLEAN /\ missed \in BOOLEAN /\ faults \in 0..MaxFaults

Counted == key.delta + hand.delta + row.dropped

\* Whatever fails and in whatever order the commands of the two services come,
\* a dropped packet is never counted twice: the flush that resets the counter
\* is one step, and a failed upsert is not tried again (channel_state_syncer.py,
\* atomic_drop_flush.lua).
DropsNotDoubled == Counted <= reported

\* No drop is lost between the hash and the row: while no call fails and the
\* commands of a batch stay together, the syncer takes the counter before the
\* hash expires.  The hash lives longer than a sleep and two cycles.
DropsKept == ~failed /\ ~slow => Counted = reported

\* A reader between two cycles sees a channel active only with activity as
\* recent as the timeout, one sleep and one cycle allow; inside a cycle the
\* upsert may show an older one active until the deactivation comes.
ActiveIsRecent ==
    row.active /\ row.at # Null /\ pc # "deactivate" /\ ~missed
        => row.at <= Timeout + Interval + Cycle

\* Activity reaches the registry before its hash can expire: once it is older
\* than a sleep and two cycles, the row has it.
ActivityReachesRow ==
    ~failed /\ ~slow /\ newest > Interval + 2 * Cycle => row.at = newest

\* A communication node that stops for good has its channel deactivated for
\* good: the hash expires, and the row times out (state_manager.py:25).  A hash
\* left without a time to live, or a row without any activity, is excepted.
SilentDeactivated ==
    <>[](key.ttl # Forever \/ ~key.exists) /\ <>[](\A t \in Task : task[t] = Idle)
        => <>[](~row.active \/ row.at = Null)

\* Keep-alives do not keep a channel active: without packets its row is
\* inactive again and again, although their hash lives on
\* (state_manager.py:78, db.py:277).
KeepAliveDeactivated ==
    <>[](\A t \in Task : ~task[t].packets) => []<>(~row.active \/ row.at = Null)
=============================================================================
