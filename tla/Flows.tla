--------------------------------- MODULE Flows ---------------------------------
(***************************************************************************)
(* The packets of one channel and their one-second aggregate: the flusher   *)
(* stores the packets with the time of their batch, and a job of the        *)
(* database refreshes telemetry_1s over a moving window                     *)
(* (ingestion/buffer_manager.py, core/db.py, migrations/versions/004).      *)
(*                                                                          *)
(* A time is a whole second, as the time of a batch is.  The packets of a   *)
(* second are a bag.  The aggregate holds what the job has materialised:    *)
(* the reports do not see the part of a second it has not reached.          *)
(***************************************************************************)
EXTENDS Integers, FiniteSets, FiniteSetsExt

CONSTANTS
    Kind,        \* the packets: dir, src, dst, src_port, dst_port, protocol, size
    Start,       \* start_offset of the refresh policy, in seconds
    End,         \* end_offset of the policy
    Gap,         \* the job refreshes at least once in so many seconds
    Lag,         \* a packet is stored at most so many seconds after its time
    Ahead,       \* the clock of a node is at most so many seconds ahead
    MaxNow,      \* bound: the last second
    MaxPackets,  \* bound: packets stored
    MaxFaults    \* bound: packets stored later than Lag, seconds without the job

ASSUME FlowsAssumption ==
    /\ IsFiniteSet(Kind) /\ \A k \in Kind : k.dir \in {0, 1} /\ k.size \in Nat
    /\ {Start, End, Gap} \subseteq Nat \ {0}
    /\ {Lag, Ahead, MaxNow, MaxPackets, MaxFaults} \subseteq Nat
    /\ Lag + Gap < Start /\ End + Gap < Start

VARIABLES
    now,        \* the second the database is in
    flows,      \* packet_flows: the bag of packets of each second
    telemetry,  \* telemetry_1s: the rows of each second that are materialised
    registered, \* the channel has a row in channels
    stale,      \* seconds since the last refresh, up to Gap
    \* --- history ---
    missed,     \* seconds the policy does not promise: a packet of them came later
                \* than Lag, or the job was down when it should have reached them
    stored,     \* packets stored
    faults

fvars == <<now, flows, telemetry, registered, stale, missed, stored, faults>>

Second == 0..(MaxNow + Ahead)
Dir    == {0, 1}                     \* 0 into the network, 1 out of it
Protocol == {k.protocol : k \in Kind}

NoPackets == [k \in Kind |-> 0]

\* The rows of telemetry_1s for the packets of one second: one of each protocol,
\* with COUNT and SUM(size) per direction.  A row of zeros is no row.
Rows(bag) ==
    [q \in Protocol |-> [d \in Dir |->
        LET of == {k \in Kind : k.protocol = q /\ k.dir = d} IN
        [packets |-> MapThenSumSet(LAMBDA k : bag[k], of),
         bytes   |-> MapThenSumSet(LAMBDA k : bag[k] * k.size, of)]]]

FInit ==
    /\ now = 0
    /\ flows = [s \in Second |-> NoPackets]
    /\ telemetry = [s \in Second |-> Rows(NoPackets)]
    /\ registered = FALSE
    /\ stale = 0
    /\ missed = {} /\ stored = 0 /\ faults = 0

\* The syncer of the channel state inserts the row of the channel.
Register ==
    /\ ~registered
    /\ registered' = TRUE
    /\ UNCHANGED <<now, flows, telemetry, stale, missed, stored, faults>>

\* db_insert_packet_flows, for one packet of time s.  The insert does not touch
\* the aggregate: it only marks the second for the next refresh.
Store(k, s) ==
    /\ stored < MaxPackets
    /\ flows' = [flows EXCEPT ![s][k] = @ + 1]
    /\ stored' = stored + 1
    /\ UNCHANGED <<now, telemetry, registered, stale>>

Insert(k, s) ==
    /\ now <= s + Lag /\ s <= now + Ahead
    /\ Store(k, s)
    /\ UNCHANGED <<missed, faults>>

\* The packet was kept too long, by the node or in the buffer of the flusher.
InsertLate(k, s) ==
    /\ faults < MaxFaults
    /\ now > s + Lag
    /\ Store(k, s)
    /\ missed' = missed \cup {s}
    /\ faults' = faults + 1

\* Mutant: the two offsets subtracted from each other.
WindowShort(late) ==
    {s \in Second : now - (Start - End) + 1 + late <= s /\ s < now - End}

\* The buckets wholly inside [NOW - Start, NOW - End): later in its second, the
\* job does not reach the oldest of them any more.
Window(late) == {s \in Second : now - Start + late <= s /\ s < now - End}

\* The job: schedule_interval of a second.
Refresh(late) ==
    /\ telemetry' = [s \in Second |-> IF s \in Window(late) THEN Rows(flows[s])
                                                            ELSE telemetry[s]]
    /\ stale' = 0
    /\ UNCHANGED <<now, flows, registered, missed, stored, faults>>

\* Mutant: the job may be away for as long as it likes.
TickUnbounded ==
    /\ now < MaxNow
    /\ now' = now + 1 /\ stale' = stale + 1
    /\ UNCHANGED <<flows, telemetry, registered, missed, stored, faults>>

Tick ==
    /\ now < MaxNow /\ stale < Gap
    /\ now' = now + 1 /\ stale' = stale + 1
    /\ UNCHANGED <<flows, telemetry, registered, missed, stored, faults>>

\* A second passes and the job is still down: it may not reach the seconds that
\* were in its window.
Outage ==
    /\ faults < MaxFaults
    /\ now < MaxNow /\ stale = Gap
    /\ now' = now + 1
    /\ missed' = missed \cup {s \in Second : now - Start <= s /\ s <= now}
    /\ faults' = faults + 1
    /\ UNCHANGED <<flows, telemetry, registered, stale, stored>>

FNext ==
    \/ Register
    \/ \E k \in Kind, s \in Second : Insert(k, s) \/ InsertLate(k, s)
    \/ \E late \in {0, 1} : Refresh(late)
    \/ Tick
    \/ Outage

FSpec == FInit /\ [][FNext]_fvars

(***************************************************************************)
(* Properties.                                                              *)
(***************************************************************************)
FTypeOK ==
    /\ now \in 0..MaxNow
    /\ flows \in [Second -> [Kind -> Nat]]
    /\ DOMAIN telemetry = Second
    /\ registered \in BOOLEAN
    /\ stale \in 0..Gap
    /\ missed \subseteq Second
    /\ stored \in 0..MaxPackets
    /\ faults \in 0..MaxFaults

\* The window the job refreshes is long enough: once a second has left it, its
\* rows in telemetry_1s are those of the packets stored for it, whatever the
\* order of the inserts, the refreshes and the clock, unless a packet came later
\* than Lag or the job was down.  The job never looks at the second again, so
\* what it misses the telemetry and the channel history miss for ever, while the
\* views on packet_flows show it.
TelemetrySettles ==
    \A s \in Second : s + Start <= now /\ s \notin missed => telemetry[s] = Rows(flows[s])
=============================================================================
