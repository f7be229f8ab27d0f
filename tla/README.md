# Verification of the SWP-47 traffic processing platform

TLA+ models of the platform's own logic, TLC runs on small instances, and TLAPS
proofs for all instances. Paths are relative to the repository; `cnss/...` stands
for `src/cnss/...`.

## 1. The system

A *traffic processor* (FPGA or a Linux box) counts and forwards the packets of a
network. A *communication node* next to it batches what it sees and sends the
batches over UDP to the *CnSS* backend. The backend is four Python services that
share a Redis and a TimescaleDB; the *MUI*, a browser application, logs in over
REST and receives live data over a WebSocket.

| Part | State it keeps | Operations | Hard behaviour |
|---|---|---|---|
| WebSocket service: sessions and subscriptions (`cnss/services/websocket/{server,session,subscription,gc}.py`) | Redis: `ws:session:{c}` (TTL 10 s), `ws:session:{c}:subs`, `sub:registry:{h}`, `sub:listeners:{h}`, `sub:active_hashes`; one coroutine and one heartbeat task per connection | connect, heartbeat, subscribe, unsubscribe, garbage collection, destroy | pipelines without a transaction; check-then-act on the listener count; swallowed Redis errors; container crash |
| Ghost cleaner (`cnss/services/reporting/ghost_cleaner.py`) | locals of one scan | scan, check sessions, remove stale listeners, clean up empty hashes | races with every handler of the WebSocket service; restarts |
| Push delivery (`reporting/poller.py`, `websocket/{pubsub_consumer,snapshot,main}.py`) | `ws:push:{h}` Pub/Sub, the dictionary of open sockets | poll, query, publish, route to listeners, initial snapshot | snapshot racing pushes; stale listener lists; death of the consumer loop |
| UDP ingestion (`cnss/services/ingestion/`) | last sequence number, capped packet list, set of active channels in memory | receive, validate, detect gaps, buffer, flush to the database | concurrent tasks per datagram, non-atomic GET/SET and LLEN/LTRIM/LPUSH, loss on crash |
| Channel state (`ingestion/state_manager.py`, `reporting/channel_state_syncer.py`, `core/db.py`, `redis/lua/atomic_drop_flush.lua`) | `channel:state:{ch}` (TTL 6 s), table `channels` | update on each batch, sync, deactivate idle channels | TTL against sync interval; counters flushed before the upsert |
| Query building and handlers (`core/query_builder.py`, `core/db.py`, `reporting/handlers/`, `websocket/snapshot.py`, `api/routes/history.py`) | `packet_flows`, the continuous aggregate `telemetry_1s` | time buckets, rates, per-target SQL, filters and pages | late packets against the refresh window; the same data computed in several places |
| REST API (`services/api/`, `core/security/`) | `users`, `user_channel_scopes`, the set `jwt:revoked`, signed tokens | login, refresh, logout, channels, history, health | claims copied from rows that change; refresh racing logout |
| MUI services (`mui/src/services/{websocket,subscriptionManager,authentication}.ts`, `mui/src/api/client.ts`) | connection state machine, subscription map, access token; the refresh token is a cookie | connect, disconnect, reconnect, subscribe, login, refresh, logout | close events of an old socket, timers, late answers, requests waiting for one refresh |
| MUI pages (`mui/src/pages/`, `hooks/`, `components/`) | cached rows, page, sort order, filters | merge an update, expire rows, sort, page | a cache of pages the server cut |
| Communication node, packet counter (`communication-node/cn_demo_1.py`, `traffic-processor/software-part/`) | thread queues, sequence number | sniff, batch, send | producer and consumer threads |
| Hardware (`traffic-processor/hardware-part/*.sv`) | delay line, byte counter, block flag | receive, compare address, forward or drop | a decision taken while bytes are already leaving |

How they interact: communication node -> (UDP) -> ingestion -> (Redis list) ->
flusher -> TimescaleDB; ingestion -> (Redis key with TTL) -> channel state syncer
-> TimescaleDB; MUI -> (WebSocket) -> WebSocket service -> (Redis registry) ->
poller -> (SQL, Redis Pub/Sub) -> consumer -> MUI; the ghost cleaner and the
garbage collector both clean up the registry.

What makes each part correct:

* registry: a subscription of a live client keeps listener, registry and index;
  whatever no live client wants is removed in the end; nobody removes a live
  client's listener;
* delivery: a client gets nothing long after it unsubscribed, and the newest
  state last;
* ingestion: a packet is stored at most once, the buffer stays within its cap, a
  gap is counted once;
* channel state: a silent channel ends inactive, a busy one stays active, each
  dropped packet is counted once;
* reports: the aggregate holds what the packets say once a second is over; two views
  of the same packets agree; a chart counts each packet once;
* tokens: a signed-out tab stays signed out, its token and its cookie belong to the
  same login, and a new token has the current rights of its user;
* MUI connection: one connection at a time, to the selected channel, with exactly
  the subscriptions that components need;
* MUI tables: the rows on the screen are current, and rows without traffic go.

## 2. Plan

In the order in which they are written:

1. **SubscriptionRegistry** (written) with **SubscriptionRegistryProofs**: the
   shared Redis keys and their three writers.
2. **Delivery** with **DeliveryProofs** (written): extends SubscriptionRegistry, whose steps are the other
   half of every step, with poller, Pub/Sub consumer and snapshot.
3. **Ingestion** with **IngestionProofs** (written): datagram tasks, capped list,
   flusher; implements the abstract **Conveyor** (a packet waits, is stored or lost,
   never stored twice).
4. **ChannelState** with **ChannelStateProofs** (written): the hash of a channel with
   its time to live, the syncer and the row it writes.
5. **TokenSession** with **TokenSessionProofs** (written): REST authentication and the tab that uses it.
6. **Interface** with **InterfaceProofs** (written): WebSocket service, subscription manager and channel
   selector of the browser.
7. **Flows** with **Reports**, which EXTENDS it, and **ReportsProofs** (written): the
   packets and their aggregate, and everything that is computed from them.
8. **Tables** with **TablesProofs** (written): the tables of the MUI with their cache.

The modules meet in the data they share, and each takes the others' side as an
environment: Ingestion decides which batches reach ChannelState and which packets
Flows stores; Flows' `registered` is the row that ChannelState writes; the version
number of Delivery is what Reports computes; the server side of Interface is
SubscriptionRegistry and Delivery; `renewing` in Interface is the refresh of
TokenSession; the `Update` of Tables is a message that Interface delivers.

Left: the communication node. Below a million batches its restart at 1 is not
recognised as one by Ingestion (`sequence_tracker.py:67`), which is the first thing a
model of it should state.

## 3. SubscriptionRegistry

### State

| Variable | Code |
|---|---|
| `registry`, `listeners`, `active` | `sub:registry:{h}`, `sub:listeners:{h}`, `sub:active_hashes` |
| `session`, `tracked` | `ws:session:{c}`, `ws:session:{c}:subs` |
| `pc`, `op`, `todo`, `closing`, `missed` | the coroutine of a connection: next Redis command, pair in hand, pairs left to collect, finally block reached, last heartbeat failed |
| `cpc`, `cTodo`, `cHash`, `cCheck`, `cStale` | the ghost cleaner's task |
| `faults`, `faulty`, `disturbed` | history: Redis errors so far, handlers that met one, hashes on which a registration and a cleanup overlapped or were cut short |

A step is one Redis command. The pipelines are opened with `transaction=False`,
so commands of other connections may run in between; even if a pipeline ran
without interruption, the count and the deletion are two round trips, which is
what the violation below needs. A client is one connection (fresh `uuid4`)
and connects at most once; a browser that reconnects is a new client. The
messages of one connection are handled one after the other
(`server.py:132-137`), so a handler has one operation at a time. Redis executes
one command at a time and is not lost. A pair of hash and id is a tuple; the code joins
the two with a colon and splits at the last one (`gc.py:81`, `ghost_cleaner.py:141`),
which is the same for the UUIDs of the interface (`subscriptionManager.ts:77`) and would
not be for an id that has a colon itself.

### Actions

`Connect`, `HeartbeatOk`, `Subscribe` .. `SubTrack`, `Unsubscribe` .. `UnsTrack`,
`DelRegistry`/`DelListeners`/`DelIndex` (the same three commands in
`subscription.py` and `gc.py`), `Disconnect` .. `Destroy` follow the code line by
line. `ConnectFail`, `HeartbeatFail`, `MessageFail`, `TrackFail`, `GcReadFail`,
`GcRemoveFail`, `GcFail`, `DestroyFail`, `CFail`, `CReadFail`, `CCheckFail` are
the `except` branches, each with what the branch does: close the connection,
swallow, skip one pair, skip one hash. `WsCrash` and `ReportingCrash` kill a
service between any two commands.

The clock is abstracted: a session may expire as soon as nobody refreshes it
(connection closed or crashed), or after one failed heartbeat, because the TTL of
10 s equals two intervals of 5 s plus the time of the calls.

### Properties

* `NoListenerEscapesGc`: unless its handler met a Redis error or crashed, each
  listener of a connection is in the set its garbage collector reads, or in the
  list it is working through.
* `GhostVerdictFinal`: the ghost cleaner's session check stays true until its SREM.
* `IndexConsistent`: registry and index agree, and a listened hash is indexed, on
  every hash that was not disturbed.
* `SubscriptionKept`: an acknowledged subscription of a live session keeps
  listener and registry, on an undisturbed hash.
* `GhostEventuallyRemoved`, `EventuallyReclaimed`: liveness.

`disturbed` is what makes the two middle ones informative: they say that the
overlap of a registration with a cleanup, or one of them being cut short, is the
*only* way in which the protocol loses a subscription. The overlap does happen,
and `registry_deleted` shows it.

### Runs

| Run | Instance | Shows |
|---|---|---|
| `registry_races` | 2 clients, 1 hash, 1 id, 1 fault | the safety properties under every interleaving, crash and single error |
| `registry_liveness` | 2 clients, 1 hash, 1 id, no fault, fair | the liveness properties |
| `registry_deleted` (violated) | 2 clients, 1 hash | a registry is deleted while somebody listens, against `cnss/docs/architecture.md:187` |

Two more observations, which the modelled actions show but no run is kept for:

* The session TTL is two heartbeat intervals, and EXPIRE on a missing key does
  nothing. One swallowed Redis error (`HeartbeatFail`) lets the key run out as the
  next refresh is due (`SessionExpire`); the session never comes back although the
  connection stays open, and the ghost cleaner then takes its listeners.
  `session.py:94` speaks of keeping the session alive.
* `ws:session:{c}:subs` is written by SADD and has no TTL: after a crash
  (`WsCrash`) it stays in Redis for ever, against `architecture.md:73`.

Two clients suffice for every race of the registry, since a race takes one party
that registers and one that cleans up; the proofs remove the bound altogether.
`MaxFaults` bounds Redis errors and restarts of the reporting service. The safety
runs use symmetry between clients; the liveness run does not. Deadlock is not
checked: when every client is gone and no key is left nothing has to happen.

Fairness: `WF` on the steps of each handler and of the cleaner (asyncio runs
ready tasks, the cleaner's loop sleeps and repeats, `ghost_cleaner.py:74-85`) and
on the expiry of a session nobody refreshes (Redis). No fairness is assumed of
clients, crashes or errors.

### Proofs

`SubscriptionRegistryProofs` proves `TypeCorrect`, `VerdictsAreFinal`,
`ListenersAreCollected`, `IndexIsConsistent` and `SubscriptionsAreKept` for all
sets of clients, hashes and ids and every `MaxFaults`, from the one assumption
`MaxFaults \in Nat`. The inductive invariants are layered:

1. `TypeOK`;
2. `HandlerInv`: which steps are garbage collection, and that the listener a
   handler has removed stays removed (only the client itself adds its listeners);
3. `GhostInv`: listeners belong to clients that have connected, so a client found
   without a session can never get one, because `Connect` needs an unused id;
4. `NoListenerEscapesGc`, inductive given 1-3;
5. `IndexInv`: while a hash is undisturbed, a registration in progress has its
   registry and no cleanup in progress, and a cleanup in progress has no listener;
6. `KeptInv`: `SubscriptionKept`, strengthened with the listener already written
   by a handler that has not yet tracked it.

The liveness properties are only model-checked: they need fairness and ENABLED.

## 4. Delivery

Delivery EXTENDS SubscriptionRegistry and shares its variables: `RegistryStep` is a
step of the registry together with what it means for delivery, and the other
actions leave the registry alone. What the database holds is abstracted to a
version number `db`; a query returns the version it saw, so "older" and "newer"
data is a comparison of numbers. `NewData` is the ingestion side.

| Variable | Code |
|---|---|
| `ppc`, `pTodo`, `pHash`, `pResult` | `Poller._tick` and `_process_subscription`: next await, hashes of the tick, hash in hand, query result |
| `bus` | messages on `ws:push:*` that Redis has accepted for the consumer |
| `kpc`, `kMsg`, `kLeft` | `PubSubConsumer`: next await, message in hand, listeners it has read and not yet served |
| `snap` | what `_handle_subscribe` does after `subscribe` returned |
| `best`, `outdated`, `late`, `published` | history: newest version sent since the listener was added, displays that went back, messages sent after the listener was removed, last version the consumer could receive; forgotten with the connection and, but for the late messages, after the first fault, when no property uses it |

`PScan`, `PListeners`, `PRegistry`, `PQuery`, `PPublish` are the awaits of a tick,
`KSubscribe`, `KReceive`, `KList`, `KSend` those of the consumer, `SQuery` and
`SSend` those of the snapshot; between any two of them every other task may run.
`PNothing` is a handler without a result (`poller.py:211-213`), which is that of a channel
the database does not know yet: `db = 0` stands for it too. A request of a host view
without its host never has a result, and one of a target without a handler is dropped
before the query; no data is ever pushed for these, and they are left out. The registry
is written from a request that has been validated, so its parsing does not fail.
`PFail`, `KListFail`, `KDies`, `SFail` are the `except` branches, `PCrash` and the
restart conjuncts of `RegistryStep` the death of a container. While a handler
serves a snapshot it reads no other message (`server.py:132-137`), and a crash of
the WebSocket service takes all handlers and the consumer along. After a start,
connections are accepted before the consumer has subscribed (`websocket/main.py`
starts the server first); a message published in that time is lost.
The consumer serves listeners in any order; the code groups them by client, which
is one of these orders. A send to a socket the other side has just closed counts
as sent, since its handler is about to end.

Properties:

* `NoMissedUpdate`: once a subscription has had its snapshot, every version
  published to a listening consumer has been sent to it, or is overtaken, or is on
  its way. This is the reason `server.py:263-271` gives for registering first and
  querying second. It does not cover messages published before the consumer has
  subscribed: these are lost.
* `AtMostOneLatePush`: at most one message reaches a subscription after its
  listener was removed, although the consumer sends to a list it read earlier.
* `NewestDelivered`: a subscription that stays subscribed comes to show the newest
  data, even if it missed a push or was shown an outdated snapshot. The poller
  publishes at every tick whether or not anything changed, and this is what the
  property rests on.

A push and the snapshot may overtake each other, and then the display goes back to
older data until the next tick: `architecture.md:70` leaves it to the client to
deduplicate by timestamps, and `useTelemetry.tsx` does not. `NewestDelivered` is
what remains true.

| Run | Instance | Shows |
|---|---|---|
| `delivery` | 1 client, 1 hash, 1 id, 1 fault, 2 versions, 1 message on the bus | the two safety properties with every error and crash |
| `delivery_liveness` | the same without fault, fair | `NewestDelivered` |

One message on the bus, one in the consumer's hand and one in the poller's give
three messages in flight, enough for each to be overtaken by a snapshot or an
unsubscription; two versions are enough to tell older from newer. One client is a
real restriction: the races between clients are those of the registry, checked
with two clients and proved for all, and reach delivery only through the listener
set. Fairness: `WF` on poller, consumer, handlers and snapshots, which are tasks
of asyncio loops; none on the ghost cleaner, clients, or faults. After `KDies` no
property promises anything, because nothing restarts the loop.

`DeliveryProofs` proves `DeliveryTypes`, `OneLatePush` and `NothingMissed` for all sets
of clients, hashes and ids, any number of versions and faults and any length of the
bus, which covers the clients the run leaves out. Since every step of the registry is
half of a step here, the proofs of section 3 are used, not repeated: `RegistrySteps`
says that a step of Delivery is a step of the registry or changes nothing of it but
the count of faults, so `RegistryInv` carries over. Three lemmas say all that delivery
needs of a registry step: `ListenersStep` (who may add a listener, and when),
`HandlersStep` (which handler goes on to which step), `CrashStep` (a crash takes all
the tasks of its service). Then:

1. `TypesInv`: `DTypeOK` with `ShapeInv`, what each task holds at each step, and that
   nobody has seen a version the database does not have.
2. `LateInv`: a pair that has had its late push is neither listed nor still to be
   served; it gives `AtMostOneLatePush`.
3. `DeliveredInv`: for every *listener*, from the moment it is added and not only once
   the subscription is acknowledged, the last version published was sent, is on its
   way, or will be part of the snapshot. `NoMissedUpdate` alone is not inductive: while
   the handler is still on its way to the query, what is published must be covered by
   the snapshot to come, and this is where the order of `server.py:263-271` enters.

`NewestDelivered` is only model-checked.

## 5. Ingestion

One channel stands for all, because the keys of different channels are disjoint. A
datagram is a task (`udp_server.py:82` creates one for each), and a step is one
Redis command or one insert, since at each of them any other task may run. The
sequence number of a new task is arbitrary: that covers lost, repeated and
reordered datagrams and a node that starts again at 1. Numbers start at 1, as in
`cn_demo_1.py:95`, so 0 can stand for a missing key.

| Variable | Code |
|---|---|
| `pc`, `seq`, `size`, `seen` | the coroutine of a datagram: next command, sequence number, number of packets, number read by GET |
| `last`, `buffer` | `channel:seq:{ch}`, `udp:buffer:{ch}` (each packet by the task it came with, newest first) |
| `registered`, `hand` | `BackgroundFlusher._active_channels`, `parsed_records` |
| `stored` | `packet_flows`: number of packets of each task |
| `base`, `advanced`, `dropped`, `uncounted` | history: the baseline, and the numbers since that were counted as received and as dropped, or passed by a SET whose task did not return |
| `seqOverlap` | history: since the baseline, two tasks were between GET and SET at a time (or one was, when Redis lost the key) |
| `loose`, `capLoose` | history: the tasks that overlap another one between LLEN and LPUSH, or trim for a batch as large as the cap; the last push was one of these and nothing was popped since |
| `forgotten`, `faults` | history: the service was restarted and the channel has not sent since; errors and restarts |

`Receive`, `SeqGet`, `SeqSet`, `StateUpdate`, `BufLen`, `BufTrim`, `BufPush` are the
steps of `_handle_batch`; `FPop` and `FInsert` those of the flusher. `TaskFail` is an
exception at any of the steps: the task ends there and skips the rest. The failed command
was not executed; `SetUnanswered` is the SET that was, with its answer lost or the process
killed before the gap is returned. A LPUSH of this kind is `BufPush`, since nothing comes
after it, and a LTRIM of this kind is `BufTrim` with the end of the task after it. No
command is executed twice: the Redis library may resend one whose answer was lost, which
depends on its version and is listed as a hazard.
`FInsertFail` is the `except` branch that gives up what was popped
(`flusher.py:161-165`), `Restart` the end of the process between any two steps,
graceful or not, and `RedisRestart` the loss of all keys. `StateUpdate` only decides
here whether the batch has packets; what it writes belongs to ChannelState.
`dropped` counts what the tracker returns, not what reaches the database.

Properties:

* `DropsAccounted`: each number between the baseline and the last one is accounted for
  once, as received, as dropped, or as passed by a task that failed between its SET and
  its return, whatever the network does. Two tasks that overlap between GET and SET break
  it, and so does the loss of the key between the two; but not for good: the account is
  right again from the next baseline that no other task overlaps, for instance after a
  reset of the numbers.
* `BufferCapped`: the list is over its cap only after a push that overlapped another task
  between LLEN and LPUSH, or of a batch as large as the cap, and only until the next push
  that is alone, which sees it and trims, or the next pop. Without the exception it does
  not hold, although `architecture.md:30` states it so: two tasks that both see room both
  push.
* `ImplementsConveyor`: the service implements `Conveyor`, in which a packet
  waits, is taken and is stored, may be lost on the way, and is never stored twice or
  in two places. A datagram that arrives twice is two batches here and is stored
  twice: the tracker ignores its number, but its packets are buffered all the same.
* `BufferEventuallyFlushed`: packets leave the list. After a restart of the service they
  wait for the next datagram of the channel, since the set of channels is in memory, and
  no longer than that.
* `ITypeOK`, with the content that a number of drops is never negative and that a
  task which goes on to push has a batch within the cap.

| Run | Instance | Shows |
|---|---|---|
| `ingestion` | 3 datagrams, numbers 1..3, 0, 2 or 4 packets, cap 3, reset threshold 1, 1 fault, fair | the four safety properties, and liveness |

Three tasks are two that overlap and one that comes before or after them; numbers up
to 3 with threshold 1 give a gap, a repetition, an old number and a reset; sizes 0, 2
and 4 with cap 3 give an empty batch, one that fits only after a trim, and one that
never fits; a batch exactly as large as the cap occurs only in the proof, which covers
all sizes. With the default cap of 100,000 no datagram holds that many packets: the
two large sizes matter for a deployment that sets `REDIS_UDP_BUFFER_MAX_LEN` low. Fairness: `WF` on `FPop` and `FInsert`, because the flusher's loop wakes up
every `FLUSH_INTERVAL_SEC` and catches every exception (`flusher.py:74-84`). Nothing
is assumed of the network or of the tasks. A run ends when all datagrams are used
up, so deadlock is not checked.

`IngestionProofs` proves `TypeCorrect`, `DropsAreAccounted`, `BufferIsCapped` and
`ConveyorImplemented` for any number of datagrams, any cap, threshold and sizes, from
`IngestionAssumption` (these are natural numbers). The argument:

1. `ITypeOK` is inductive; the work is in the list (`TrimType`, `PushType`).
2. `TrackerInv`: without overlap at most one task is between GET and SET, and what
   it has read is still the last number. With it `DropsAccounted` is inductive; a
   baseline that no task overlaps establishes both from nothing (`Rebase`).
3. `CapInv`: a task between LLEN and LPUSH that is not loose is alone there, and it has
   room when it comes to push. It says nothing of the length before, which may be over
   the cap; that is how a push that is alone repairs it. It gives `BufferCapped`.
4. The step simulation of `Conveyor`: `TrimCount` (a trim adds nothing), `PushCount`
   (a push adds packets of one task only, by a bijection) and `EmptyCount` map a
   push to `Enter`, a trim, a failed insert and a restart to `Lose`, a pop to `Take`
   and an insert to `Store`; the other steps stutter.

`BufferEventuallyFlushed` is only model-checked.

## 6. ChannelState

The hash `channel:state:{ch}` has two writers, the pipeline of each batch
(`state_manager.py`) and the Lua script of the syncer, and a time to live; the row
in `channels` is written by the syncer alone. A step is one Redis command or one SQL
statement: the pipeline is not a transaction, the script is one step. The hashes and
rows of two channels are disjoint, so one channel is enough.

| Variable | Code |
|---|---|
| `task` | the pipeline of each batch in flight: next command, drops, whether it has packets, age of its `time.time()` |
| `key` | the hash: exists, time to live, age of `last_activity_at`, `dropped_packets_delta` |
| `pc`, `hand`, `clock` | the syncer: next call, what it has read, ticks it has slept or spent in this cycle |
| `row` | the row of the channel: active, age of the activity, dropped packets |
| `reported`, `newest` | history: drops added to the hash, age of the last activity written |
| `slow`, `failed`, `missed`, `faults` | history: the clock ticked inside a batch; a call has failed; the last deactivation did not run; errors and restarts |

A time is kept as its age, which `Tick` raises up to a bound above all the limits it
is compared with. `MayTick` says that the syncer wakes up on time and that a cycle
takes at most `Cycle` ticks, which is an assumption on the database; the defaults of
the code are 6 s to live, a timeout of 5 s and an interval of 1 s.

`Batch`, `Incr`, `Hset`, `Expire` are `process_batch`; `Scan`, `Flush`, `Read`,
`Upsert`, `Deactivate`, `Wake` one cycle. `PipelineFails` and `CallFails` are the
`except` branches, where the call may or may not have been executed, and
`SyncerRestarts` a restart of the reporting service.

Properties:

* `DropsNotDoubled`: no drop is counted twice, whatever fails. What was flushed is
  given up when the upsert fails, and this is what makes it true.
* `DropsKept`: none is lost either, while no call fails and the commands of a batch
  stay within a tick. It rests on the hash outliving a sleep and two cycles.
* `ActiveIsRecent`: outside the deactivation step, a row shown active has activity no
  older than timeout, interval and cycle together.
* `ActivityReachesRow`: the syncer sees each activity before its hash expires.
* `SilentDeactivated`, `KeepAliveDeactivated`: a node that stops has its channel
  deactivated for good; one that only sends keep-alives has it deactivated again and
  again, since the upsert of every cycle sets it active first.

What the properties except, and the code does: a row without `last_activity_at` is
never deactivated, because a comparison with NULL is not true; a HINCRBY without the
EXPIRE after it leaves a hash without a time to live; an idle channel is active
between the upsert and the deactivation of each cycle, and a reader may see it.

Run `channel_state`: 1 batch at a time, 4 ticks to live, timeout 3, interval 1, cycle
1, 1 drop, 1 fault, fair. 4 is the smallest time to live above interval and two
cycles, so the margins are as tight as the theorem allows, and a hash that has not
been refreshed does run out. Batches that overlap are left to the proofs, which hold
for any number. Fairness: `WF` on the commands of the batches and of the syncer,
which are asyncio tasks, and on `Tick`; none on batches or faults. Deadlock is checked.

`ChannelStateProofs` proves, from `ChannelAssumption` (times are positive, bounds
natural), for any number of batches in flight:

1. `TypeCorrect`, with the lemmas on the age of a time (`Older`) and on `KeyLater`.
2. `NotDoubled`: `Counted <= reported` is inductive given the types.
3. `ActiveRecent`: `ClockInv` bounds the clock by what `MayTick` allows at each `pc`,
   and `RecentInv` bounds the age of an active row at each `pc` by timeout plus the
   ticks since the last deactivation.
4. `NothingLost`: `KeptInv` says that a hash with a counter lives at least as long as
   the syncer may take to come to it (`Wait`), unless a batch is about to refresh it.
   It needs `Ttl > Interval + 2 * Cycle`: with 6 s and 1 s, a cycle below 2.5 s.

5. `ActivityArrives`: `ActivityInv` says that activity that is not in the row yet is so
   young that, with the time the syncer may still take to write it (`ActivityWait`), it
   stays within a sleep and two cycles, and that its hash survives until it is read. The
   hypothesis is the same `Ttl > Interval + 2 * Cycle`; 4, 1 and 1 in the run satisfy it.

The liveness properties are only model-checked.

## 7. TokenSession

One browser tab and the API it talks to. A step is one statement of the database, one
command of Redis, or what the tab runs between two awaits. A token is a record of its
claims; its signature is taken to be right, and an access token expires in the order
of its issue.

| Variable | Code |
|---|---|
| `users` | `users` and `user_channel_scopes`: exists, role, whether a viewer has the channel |
| `revoked`, `sessions`, `issued`, `expired` | `jwt:revoked`; the refresh tokens by login; access tokens issued and expired |
| `cookie`, `token`, `page` | the refresh cookie, `AuthenticationService.token`, what the router shows |
| `call` | each request in flight: the next step of its handler, what it was sent with and has read, its answer |
| `left`, `crossed`, `since`, `raced`, `incidents` | history: the user has logged out; two calls that decide about the session overlapped; tokens older than the last change of a user; a change between two statements of a call; failures so far |

`SubmitLogin`, `OpenPrivatePage`, `ClickLogout`, `SendRead` start calls; `CheckRefresh`,
`FetchUser`, `FetchScope`, `Revoke`, `Serve` are the handlers of the API;
`LoginAnswered`, `InitAnswered`, `LogoutAnswered`, `ReadAnswered`, `RefreshAnswered`
what the tab does with an answer. After a 401, requests wait for one common refresh
(`handleAuthError`) and go on in the turn in which it ends (`Released`). Expiry,
`ChangeUser`, `CallFails` and `Reload` are the environment.

Properties:

* `SignedOutStays`: after an answered logout no token comes back before the next login.
* `TokenMatchesCookie`: the access token and the cookie go back to the same login.
* `GrantsAreFresh`: a token issued after the last change of its user has the current
  role and scope, because a refresh reads them again (`auth.py:188`).
* `RequestsEnd`: every request for data ends; a 401 of the refresh does not wait for
  that refresh (`client.ts:29`). Liveness.

The first two except `crossed`. When a refresh and a logout are in flight together,
the answer of the refresh may come last and sign the tab in again with a token that
stays valid until it expires. Whether the logout revokes anything depends on the
browser: the cookie has the path of the refresh route, and `/logout` is another path,
so the model takes both. A logout whose answer is lost clears the token and leaves
the cookie. Role and scope are read by two statements, and a change between them is
in neither or only in one (`raced`). A refresh that fails for a moment signs the tab
out like one that is refused.

Run `token_session`: 1 user, 2 requests, 1 logout at a time, 2 access tokens, 2
logins, 1 incident, fair. Two requests are one that starts a refresh and one that
waits for it; two logins make a cookie of another login; two tokens give one that
expires and one that replaces it. Fairness: `WF` on the handlers and answers of the
requests for data and of the refresh. Deadlock is checked.

`TokenSessionProofs` proves the three invariants and `SessionTypes` for any users,
calls, logins, tokens and incidents. A step changes the record of one call, except for
a 401 (`CallsUpdate`, `CallsTyped`), so most actions share one argument.

1. `TypesInv`: `STypeOK` with `CallsInv`, which fields the record of a call has at each
   step of its handler.
2. `AloneInv`: unless `crossed`, at most one call that decides about the session is in
   flight. `StepKinds` sorts the steps by what they do to such a call: begin one, let
   it go on, or leave it.
3. `SignedOutInv` and `MatchInv` add what a call in flight was sent with: after a logout
   no refresh has a session in hand, and otherwise it has the one of the cookie.
4. `FreshInv`: every token anybody holds, and the role read by a refresh that has yet to
   read the scope, agree with the user unless `raced`.

`RequestsEnd` is only model-checked.

## 8. Interface

The WebSocket connection of one tab: the connection service, the subscription manager
on top of it, the channel selector that drives the one and the components that use
the other. A step is one event of the browser and everything that runs until it is
idle again; JavaScript interleaves nothing inside.

| Variable | Code |
|---|---|
| `socket` | each WebSocket of the tab: channel, state, messages under way, ids the server has registered |
| `service` | `WebSocketConnectionService`: connection, scheduled connection data, status, activity, parameters |
| `timer`, `stray`, `idle` | reconnection timer, timers whose handle was overwritten, inactivity timer |
| `renewing` | calls of `handleAuthError` under way, made in TokenSession |
| `selected` | the channel of the selector |
| `subs`, `wants`, `shown` | the subscription map, the components mounted, the channel whose data each shows |
| `crossed` | history: a renewal came back and reconnected after the user had selected again |

`Select` is the effect of the selector with `disconnect` and `connect`; `Open`,
`CloseDone`, `Lose`, `Message` the events of a socket; `Retry`, `Idle` the timers;
`Renewed` the answer of the renewal; `Mount` and `Unmount` a component; `Serve` the
server. Close codes are three classes: retry, renew the token, give up.

Properties:

* `OneConnection`: no second socket is opened next to the one in use, and no timer
  waits to open one (`websocket.ts:59`).
* `SubscriptionsAgree`: once the messages under way have arrived, the server serves an
  open connection what components listen to and nothing else.
* `ConnectedToSelected`: a live connection is to the selected channel, and no data of
  another channel is left for a component that mounts.
* `SelectedIsShown`: a selected channel comes to be shown by each component that
  stays, however often the connection was lost, unless it was refused. Liveness.

What the model shows besides: `onClose` clears the parameters before it asks for a
new token, so a renewal after 4001 normally reconnects to nothing, because `_connect`
throws; if the user has selected a channel meanwhile, the renewal opens a second
socket (`crossed`). `close()` is called without a code, for which browsers report
1005, one of the codes that reconnect: the service reconnects after a disconnect the
user asked for, while `websocket.test.ts:146` simulates 1000. `connect` on a socket that
is closing schedules the connection and leaves the rest as it is (`OnlySchedules`). A disconnect during the
wait for a retry leaves the status at `disconnecting`. `inactivityCallbacks` is never
filled, so nobody learns of an inactive connection.

Run `interface`: 2 channels, 1 key, 2 components, 2 sockets, 2 ids, 2 messages under
way, 1 loss, fair. Two channels are what a switch takes, two components a subscription
that is shared, two sockets the old and the new one. `MaxLive` does not hide a second
socket: the one socket that `OneConnection` allows leaves one free. Fairness: `WF` on
opening, closing, the server, its updates and `Retry`; none on the user or on losses.
Deadlock is checked.

`InterfaceProofs` proves `InterfaceTypes`, `SingleConnection`, `SelectedConnection` and
`SidesAgree` for any channels, components, sockets and ids, from `InterfaceAssumption`:
the bounds are natural numbers and `None` is neither a channel nor a key. What the
server has registered is a function of what it knows and of the messages under way;
`RegisteredAppend`, `RegisteredTail` and `RegisteredAgain` say how a send, a delivery
and a repeated subscription change it.

1. `BaseInv`: the types, down to the records of sockets and service; `ManagerInv`, each
   key that somebody listens to has an id, and no two share one; `Untouched`, a socket
   that is not open has no messages.
2. `SingleInv`, while not `crossed`. `HeldInv`: every socket that is not gone is the one
   in use, which is open exactly when the status says so, goes to the selected channel,
   or is being closed with that channel scheduled after it; without a socket there is
   nothing scheduled and the parameters are the selected channel or none. `SeenInv`:
   remembered data comes from this channel. `AgreeInv`: `SubscriptionsAgree` itself.

`HeldInv` is what makes the other two inductive: `Open` sends all subscriptions again,
and it must be to a socket that no older message can still reach. `SelectedIsShown` is
only model-checked.

## 9. Flows and Reports

Flows has what the reports are computed from: `flows` (`packet_flows`, a bag of packets
for each second), `telemetry` (what the job has materialised of `telemetry_1s`), the
database clock and the refresh job of migration 004 with its window. `Insert` stores a
packet up to `Lag` seconds after and `Ahead` seconds before its time, `InsertLate`
later than that, `Refresh` materialises the buckets that lie wholly inside the window,
`Outage` is a second without the job. TimescaleDB is external: the view is taken to be
`materialized_only`, which is its default, so readers do not see what the job has not
reached.

Reports EXTENDS it and has no state of its own: each report is an operator on the state
of Flows, one for each query in `core/db.py`, each handler (`Push...`) and each branch
of the snapshot (`Snapshot...`), and the buckets of the history routes.

Properties:

* `TelemetrySettles`: a second that has left the window of the job has the rows of its
  packets. What the job misses, because a packet came later than `Lag` or because the
  job was down, the telemetry and the channel history never show, while the host
  views, which read the packets, do.
* `ViewsAgree`: table, details, destinations and ports of a host, four queries with
  their own attribution of sides, agree.
* `SnapshotMatchesPush`: the first answer to a subscription carries what the next push
  carries, for what both carry. Excepted are a telemetry request without a window,
  for which the snapshot takes 5 s and the push 1 s, a channel without a row, and the
  byte rates, which snapshots do not have.
* `HistoryCountsOnce`: a chart has at most twice the points it aims at, its half-open
  buckets count each packet once, and the channel chart agrees with those of its
  hosts on a settled range. It speaks of every start the routes accept
  (`_validate_time_range`): not in the future, and not before the retention.

Also seen: the default telemetry window covers only the second before `NOW() - 1`,
which the end offset of the job keeps out of the view, so the rates of a push with the
default window are zero (the interface uses only `is_active` and the drops of it). A
page past the end of the rows has `total_count` 0, because the window function has no
row to stand in. `received` in the top destinations counts both directions, and their
location is always WAN. A chart has one bucket that begins at the end of its range.
The bucket sizes aim at 1000 points (`history.py`), where
`docs/system-documentation.md:171` speaks of about 1200.

The 404 of an unknown channel is left out, and starts are whole seconds, as the
packets and buckets of the model are: buckets that begin within a second are not
represented.

Run `reports`: packets in both directions between two hosts and a remote address, one
of them against its direction; window from 4 to 1 s, job every second, lag 2, 5
seconds, 2 packets, 1 fault; requests of every target with and without parameters,
with a filter and a second page. The code's window begins at 5 s; one second less, with
the longest lag that it can hold (`Lag + Gap < Start`), keeps the run short and lets the
first two seconds leave the window. Two packets are what a sum, a second page or two
directions take. Limits are small numbers in the order of the code's, and charts aim at
2 points from steps of 1 and 2 s and an hour of 2 s. Of the periods, 1 has a chart of two
buckets of a second, whose range of seconds 0 and 1 settles at second 5 with packets in
it; 2 has three points, with a range that reaches before the first packet when it
settles; 6 is too long for the steps: its buckets come from the fallback to whole hours,
it has the four points that `BoundedPoints` just allows, and the retention of 11 s lets
its range settle too, from a start before the first packet. There is no liveness here: a
behaviour ends at the last second.

`ReportsProofs` proves `FlowsTypeCorrect` and `Settles` for any kinds of packets and
any offsets, gap and lag with `FlowsAssumption`, and `ChartBounded`, the bound on the
points, for every period. `Settles` uses `SettleInv`: each second that can still get
packets in time, or that the next refresh still reaches, may differ; all the older
ones agree. The reach is the larger of `Lag` and `End`, and reach and gap together
stay below `Start`.

`SnapshotsMatch` proves `SnapshotMatchesPush` for any packets, any periods, windows and
limits and any of the requests. The point that could go wrong is the size of a page: a
snapshot drops the byte rates of its rows, and two rows that differed in nothing else
would become one. `Keyed` says that the rows of a table are told apart by what is kept,
an address or a port with its protocol (`TableKeyed`, `DestinationsKeyed`,
`PortsKeyed`), and `PlainKeeps` that then nothing is merged. Its hypothesis
`NoneIsNoAnswer` says that the mark for "nothing is published" is not itself a report,
which holds for the model value of the run.

`ViewsOfOnePeriodAgree` and `HistoryCounts` prove `ViewsAgree` and `HistoryCountsOnce`
for any kinds of packets, hosts, periods and bucket steps. Both equate sums over packets
that are grouped in different ways, and a sum is a fold over a set, whose value might
depend on how it picks. The proof counts instead: `Units(w, S)` has `w[x]` elements for
each `x` of `S`, and `Mass(w, S)` is its cardinality.

* A fold is a mass. The definition of the fold chooses a function on the subsets of `S`
  that satisfies its equation. `FoldExists`: the function of the masses satisfies it;
  `FoldIsMass`: any function that does gives the mass of `S`. Induction over a finite
  set is `SetInduction`, over a set of good subsets instead of a predicate, from the
  least cardinality of a bad one.
* `MassParts`: when `g` sends the elements of `A` to those of `K`, the masses of the
  parts add up to the mass of `A`; `MassPlus` adds two masses over one set, `MassCounts`
  leaves out what counts nothing, `MassMore` compares a set with a smaller one.
* Views: each packet is sent to its row by the source, by the destination, by the remote
  address, by the remote port and protocol (`ColumnParts`), so each column is the mass of
  the same packets (`TableSums`, `TopsSums`). That a host is never remote when its
  destinations account for all its packets follows from `NoneCounted`: what the queries
  select counts.
* Charts: `Buckets` sends each second of the range to its bucket, by the whole steps from
  the start (`WholeSteps`), and `ChannelSums` adds the buckets up. The channel chart reads
  the aggregate: `RowsInv` is invariant (each second of `telemetry` holds the rows of some
  bag, so its counts are natural numbers), and by `Settles` the bag of a settled second is
  its packets, which `SettledSecond` adds up over protocols and directions. `HostsSum`
  sends each packet of the range once to the host it comes from and once to the host it
  goes to.

The proofs need what the constants are in the program: packets with a direction and a
size (`FlowsAssumption`), and a finite set of hosts with the addresses of all packets
(`ReportsAssumption`).

## 10. Tables

The hosts, destinations and ports tables are built alike: the server sends one page of
the rows it finds in a short window, `useTtlArrayCache` keeps what was received, gives
rows that are not in an update a rate of zero, drops them after a time, and the table
sorts the cache again and cuts its own pages.

| Variable | Code |
|---|---|
| `idle`, `rate` | what the database knows of each host: seconds since its last packet, rate |
| `view` | page, rows per page, sort order and ip filter of the subscription |
| `last` | the last update: whether it answers the view, its rows, `total_count` |
| `cache` | `useTtlArrayCache`: rate and age of each row |

Properties:

* `BusiestOnFirstPage`: sorted by rate, the first page shows the rows of the update with
  their current rates; remembered rows never displace them.
* `GoneRowsVanish`: a host without traffic leaves the table for good. Liveness.
* `PagesCoverTable` (violated): `CHANGELOG.md:50` says that page counts are correct when
  a table relies on the cache. The cache has only the rows of the pages received, so the
  number of pages is that of one page, and `Next` stays disabled: hosts beyond it
  cannot be reached by paging. With an ip filter `total_count` is used and it is right.

On page 2 of a table sorted by rate the interface cuts its second page from a cache in
which all rows of page 1 have rate zero. The server sorts addresses as `inet`, the
interface by `localeCompare`; `Text` keeps the two orders apart.

| Run | Instance | Shows |
|---|---|---|
| `tables` | 3 hosts, 2 rates, pages of 1 and 2, row kept 1 s, fair | the two properties |
| `tables_paging` (violated) | the same without fairness | the pages offered do not cover the table |

Three hosts on pages of one and two give a page that is full, one that is not and one
that is remembered. Fairness: `WF` on `Tick`, `Update` (the poller publishes at every
tick) and `Cleanup` (an interval timer). The model has a single unit, no
descending orders, no location filter and one time scale. Rates are at least 1: a row
with traffic in one direction only, whose other rate is zero, is not represented.

`TablesProofs` proves `BusiestShown` for any finite set of hosts and any page sizes.
`LastInv` relates the two copies of a row: while the last update answers the view, its
rows are within one page, have a positive rate, and are the only ones in the cache with
a rate. `FirstPageShows` is the argument on sorting: what is before a row on the page
has a rate at least as high, so it is in the update too, so fewer than a page of rows
are before it (`SortedIs`, `SliceFits`). `GoneRowsVanish` is only model-checked.

## 11. What is proved, what is model-checked, what is not modelled

Every safety property that a passing run checks is a theorem for all values of the
constants:

| Module | Theorems |
|---|---|
| SubscriptionRegistryProofs | `TypeCorrect`, `VerdictsAreFinal`, `ListenersAreCollected`, `IndexIsConsistent`, `SubscriptionsAreKept` |
| DeliveryProofs | `DeliveryTypes`, `OneLatePush`, `NothingMissed` |
| IngestionProofs | `TypeCorrect`, `DropsAreAccounted`, `BufferIsCapped`, `ConveyorImplemented` (refinement) |
| ChannelStateProofs | `TypeCorrect`, `NotDoubled`, `ActiveRecent`, `NothingLost`, `ActivityArrives` |
| TokenSessionProofs | `SessionTypes`, `LogoutLasts`, `OneSession`, `FreshGrants` |
| InterfaceProofs | `InterfaceTypes`, `SingleConnection`, `SelectedConnection`, `SidesAgree` |
| ReportsProofs | `FlowsTypeCorrect`, `Settles`, `SnapshotsMatch`, `ChartBounded`, `ViewsOfOnePeriodAgree`, `HistoryCounts` |
| TablesProofs | `BusiestShown` |

What is assumed: the named assumptions on the constants, which TLC evaluates in the
runs and which say that bounds are natural numbers, that hosts and kinds of packets are
finitely many, that a packet has a direction, a size and two of the hosts as its
addresses, and that `None` is not one of the values it stands beside. Two theorems
have a hypothesis on time, `Ttl > Interval + 2 * Cycle`: with the 6 s and 1 s of the code
it asks that a cycle of the syncer takes less than 2.5 s, which the code does not
enforce. `SnapshotsMatch` has `NoneIsNoAnswer`.

Only model-checked:

* all liveness properties (`GhostEventuallyRemoved`, `EventuallyReclaimed`,
  `NewestDelivered`, `BufferEventuallyFlushed`, `SilentDeactivated`,
  `KeepAliveDeactivated`, `RequestsEnd`, `SelectedIsShown`, `GoneRowsVanish`): they need
  fairness and ENABLED, which TLAPS does not handle;
* the two violated properties, which are refuted by their runs.

Not modelled:

* the communication node and the packet counter (`communication-node/cn_demo_1.py`,
  `traffic-processor/software-part/`): two threads over a bounded queue in
  demonstration programs; their datagrams are the inputs of Ingestion;
* the hardware (`traffic-processor/hardware-part/*.sv`): clocked SystemVerilog that
  shares nothing with the services;
* migrations other than the view and policy of 004, Docker and nginx files, scripts:
  configuration without steps of its own;
* charts, styling, the location filter and the time scale of the pages. A late answer of
  `useAggregationPeriod` can override the interval of a newer time scale; the model of
  the tables has one scale and does not see it;
* health routes, which only read; password hashing and signatures, which are taken to
  be right; the check of a token by the WebSocket service, beyond the close codes it
  leads to;
* within the registry, a `session.create` that fails between HSET and EXPIRE leaves a
  session without TTL if `destroy` fails too; the model lets it expire. No property
  depends on it, since such a client has no listeners.
