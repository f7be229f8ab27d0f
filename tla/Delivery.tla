-------------------------------- MODULE Delivery --------------------------------
(***************************************************************************)
(* How aggregated data reaches the clients: the reporting poller queries    *)
(* the database for every listened hash and publishes the result on Redis   *)
(* Pub/Sub, the consumer of the WebSocket service routes it to the          *)
(* listeners, and the handler of a subscription sends an initial snapshot   *)
(* (services/reporting/poller.py, services/websocket/pubsub_consumer.py,    *)
(* _handle_subscribe of services/websocket/server.py).                      *)
(*                                                                          *)
(* The registry these read is that of SubscriptionRegistry, whose actions   *)
(* are the other half of every step here.  The content of the database is   *)
(* a version number: the result of a query is the version it saw.  Version 0 *)
(* also stands for a channel the database does not know yet.                *)
(***************************************************************************)
EXTENDS SubscriptionRegistry, Integers, Sequences

CONSTANTS
    MaxData,    \* bound: versions of the database
    MaxBus      \* bound: published messages the consumer has not received

ASSUME DeliveryAssumption == MaxData \in Nat /\ MaxBus \in Nat \ {0}

VARIABLES
    db,         \* the current version of the database
    \* --- poller ---
    ppc,        \* its next step
    pTodo,      \* hashes of this tick not yet processed
    pHash,      \* the hash in hand
    pResult,    \* the version its query returned
    \* --- Pub/Sub and consumer ---
    bus,        \* messages <<hash, version>> on their way to the consumer
    kpc,        \* next step of the consumer
    kMsg,       \* the message in hand
    kLeft,      \* listeners, as read, to which it is not yet sent
    \* --- handler of _handle_subscribe, after the registration ---
    snap,       \* the snapshot of each client: its step, pair and version
    \* --- clients and history ---
    best,       \* the newest version each subscription was sent since its
                \* listener was added, None before the first
    outdated,   \* the <<client, pair>>s that show older data than they were sent
    late,       \* pushes it was sent after its listener was removed
    published   \* the last version of each hash the consumer could receive

poller   == <<ppc, pTodo, pHash, pResult>>
consumer == <<bus, kpc, kMsg, kLeft>>
client   == <<best, outdated, late>>
dvars    == <<vars, db, poller, consumer, snap, client, published>>

None    == -1
NoSnap  == [step |-> "none", pair |-> NoPair, version |-> None]
NoMsg   == <<NoHash, None>>
Version == None..MaxData

NoneSent      == [c \in Client |-> [p \in Pair |-> None]]
NonePublished == [h \in Hash |-> None]

DInit ==
    /\ Init
    /\ db = 0
    /\ ppc = "sleep" /\ pTodo = {} /\ pHash = NoHash /\ pResult = None
    /\ bus = <<>> /\ kpc = "start" /\ kMsg = NoMsg /\ kLeft = {}
    /\ snap = [c \in Client |-> NoSnap]
    /\ best = NoneSent
    /\ outdated = {}
    /\ late = [c \in Client |-> [p \in Pair |-> 0]]
    /\ published = NonePublished

\* The history of what was published and shown ends with the first fault: the
\* properties that use it promise nothing after one.
Forget == best' = NoneSent /\ outdated' = {} /\ published' = NonePublished

\* A message for the pair p of client c arrives at the browser, which shows it
\* whatever it showed before (useTelemetry.tsx:15).
Show(c, p, v) ==
    \/ /\ faults = 0
       /\ best' = [best EXCEPT ![c][p] = IF v > @ THEN v ELSE @]
       /\ outdated' = IF v < best[c][p] THEN outdated \cup {<<c, p>>}
                                        ELSE outdated \ {<<c, p>>}
    \/ faults > 0 /\ UNCHANGED <<best, outdated>>

Open(c) == Connected(c) /\ c \notin closing

(***************************************************************************)
(* The steps of the registry, and what they mean for delivery.              *)
(***************************************************************************)
\* A handler takes no other message while it serves a snapshot; when it has
\* tracked a subscription it goes on to the snapshot query.
Snapshots ==
    /\ \A c \in Client : snap[c] # NoSnap => pc'[c] \in {pc[c], "crashed"}
    /\ snap' = [c \in Client |->
          IF pc[c] = "sub_track" /\ pc'[c] = "idle"
            THEN [step |-> "query", pair |-> op[c], version |-> None]
          ELSE IF pc'[c] = "crashed" THEN NoSnap
          ELSE snap[c]]

\* The history of a subscription begins anew when its listener is added, and is
\* forgotten with its connection.
Registered(c, p) == pc[c] = "sub_listen" /\ pc'[c] = "sub_index" /\ op[c] = p
Anew(c, p) == Registered(c, p) \/ c \in closing' \/ pc'[c] \in {"gone", "crashed"}

Histories ==
    /\ late' = [c \in Client |-> [p \in Pair |-> IF Anew(c, p) THEN 0 ELSE late[c][p]]]
    /\ \/ /\ faults' = 0
          /\ best' = [c \in Client |-> [p \in Pair |-> IF Anew(c, p) THEN None ELSE best[c][p]]]
          /\ outdated' = {x \in outdated : ~Anew(x[1], x[2])}
          /\ UNCHANGED published
       \/ faults' > 0 /\ Forget

\* A crash of the WebSocket service takes its consumer along; after the restart
\* connections are accepted before the consumer has subscribed.
ConsumerRestart ==
    \/ /\ \E c \in Client : pc[c] # "crashed" /\ pc'[c] = "crashed"
       /\ bus' = <<>> /\ kpc' = "start" /\ kMsg' = NoMsg /\ kLeft' = {}
    \/ /\ \A c \in Client : pc'[c] = "crashed" => pc[c] = "crashed"
       /\ UNCHANGED consumer

PollerReset == ppc' = "sleep" /\ pTodo' = {} /\ pHash' = NoHash /\ pResult' = None

\* The ghost cleaner and the poller are tasks of one process.
PollerRestart ==
    \/ ReportingCrash /\ PollerReset
    \/ /\ ReportingCrash => CFail \/ \E h \in Hash : CReadFail(h)
       /\ UNCHANGED poller

RegistryStep ==
    /\ Next
    /\ Snapshots /\ Histories /\ ConsumerRestart /\ PollerRestart
    /\ UNCHANGED db

\* The reporting service dies while its ghost cleaner sleeps.
PCrash ==
    /\ ppc # "sleep" /\ cpc = "sleep"
    /\ faults < MaxFaults /\ faults' = faults + 1
    /\ PollerReset /\ Forget
    /\ UNCHANGED <<redis, handler, cleaner, faulty, disturbed, db, consumer, snap, late>>

\* The flusher stores new packets.
NewData ==
    /\ db < MaxData
    /\ db' = db + 1
    /\ UNCHANGED <<vars, poller, consumer, snap, client, published>>

(***************************************************************************)
(* The poller.                                                              *)
(***************************************************************************)
PollerContinue ==
    /\ ppc' = IF pTodo' = {} THEN "sleep" ELSE "next"
    /\ pHash' = NoHash /\ pResult' = None

\* _tick: SMEMBERS sub:active_hashes.
PScan ==
    /\ ppc = "sleep"
    /\ active # {}
    /\ ppc' = "next"
    /\ pTodo' = active
    /\ UNCHANGED <<vars, db, pHash, pResult, consumer, snap, client, published>>

\* _process_subscription: no query for a hash nobody listens to.
PListeners(h) ==
    /\ ppc = "next"
    /\ h \in pTodo
    /\ pTodo' = pTodo \ {h}
    /\ \/ /\ listeners[h] = {}
          /\ PollerContinue
       \/ /\ listeners[h] # {}
          /\ ppc' = "registry" /\ pHash' = h /\ UNCHANGED pResult
    /\ UNCHANGED <<vars, db, consumer, snap, client, published>>

\* Mutation of PRegistry: goes on to publish without a result.
PRegistryNoQuery ==
    /\ ppc = "registry"
    /\ UNCHANGED pTodo
    /\ \/ pHash \notin registry /\ PollerContinue
       \/ pHash \in registry /\ ppc' = "publish" /\ UNCHANGED <<pHash, pResult>>
    /\ UNCHANGED <<vars, db, consumer, snap, client, published>>

\* GET of the registry; a missing one ends the work on the hash.
PRegistry ==
    /\ ppc = "registry"
    /\ UNCHANGED pTodo
    /\ \/ /\ pHash \notin registry
          /\ PollerContinue
       \/ /\ pHash \in registry
          /\ ppc' = "query" /\ UNCHANGED <<pHash, pResult>>
    /\ UNCHANGED <<vars, db, consumer, snap, client, published>>

\* handler.execute
PQuery ==
    /\ ppc = "query"
    /\ ppc' = "publish"
    /\ pResult' = db
    /\ UNCHANGED <<vars, db, pTodo, pHash, consumer, snap, client, published>>

\* A handler without a result: nothing is published as long as the database does
\* not know the channel.
PNothing ==
    /\ ppc = "query"
    /\ db = 0
    /\ UNCHANGED pTodo
    /\ PollerContinue
    /\ UNCHANGED <<vars, db, consumer, snap, client, published>>

\* A consumer that has subscribed and still listens.
Listening == kpc \notin {"start", "dead"}

\* PUBLISH: without a subscriber the message is dropped.
PPublish ==
    /\ ppc = "publish"
    /\ Len(bus) < MaxBus
    /\ \/ /\ Listening
          /\ bus' = Append(bus, <<pHash, pResult>>)
          /\ published' = IF faults = 0 THEN [published EXCEPT ![pHash] = pResult] ELSE published
       \/ ~Listening /\ UNCHANGED <<bus, published>>
    /\ UNCHANGED pTodo
    /\ PollerContinue
    /\ UNCHANGED <<vars, db, kpc, kMsg, kLeft, snap, client>>

\* Any error of Redis or the database ends the work on the hash.
PFail ==
    /\ \/ ppc = "next" /\ \E h \in pTodo : pTodo' = pTodo \ {h}
       \/ ppc \in {"registry", "query", "publish"} /\ UNCHANGED pTodo
    /\ faults < MaxFaults /\ faults' = faults + 1
    /\ PollerContinue /\ Forget
    /\ UNCHANGED <<redis, handler, cleaner, faulty, disturbed, db, consumer, snap, late>>

(***************************************************************************)
(* The Pub/Sub consumer.                                                    *)
(***************************************************************************)
\* _listen_loop: PSUBSCRIBE of all push channels.
KSubscribe ==
    /\ kpc = "start"
    /\ kpc' = "wait"
    /\ UNCHANGED <<vars, db, poller, bus, kMsg, kLeft, snap, client, published>>

KReceive ==
    /\ kpc = "wait"
    /\ bus # <<>>
    /\ kMsg' = Head(bus)
    /\ bus' = Tail(bus)
    /\ kpc' = "list"
    /\ UNCHANGED <<vars, db, poller, kLeft, snap, client, published>>

\* Mutation of KList: listeners of earlier messages are kept in a cache.
KListCached ==
    /\ kpc = "list"
    /\ kLeft' = listeners[kMsg[1]] \cup {m \in Listener : best[m[1]][<<kMsg[1], m[2]>>] # None}
    /\ \/ kLeft' = {} /\ kpc' = "wait" /\ kMsg' = NoMsg
       \/ kLeft' # {} /\ kpc' = "send" /\ UNCHANGED kMsg
    /\ UNCHANGED <<vars, db, poller, bus, snap, client, published>>

\* Mutation of KList: a message without listeners ends the loop.
KListEndsLoop ==
    /\ kpc = "list"
    /\ kLeft' = listeners[kMsg[1]]
    /\ \/ kLeft' = {} /\ kpc' = "dead" /\ kMsg' = NoMsg
       \/ kLeft' # {} /\ kpc' = "send" /\ UNCHANGED kMsg
    /\ UNCHANGED <<vars, db, poller, bus, snap, client, published>>

\* _handle_message: SMEMBERS of the listeners.
KList ==
    /\ kpc = "list"
    /\ kLeft' = listeners[kMsg[1]]
    /\ \/ kLeft' = {} /\ kpc' = "wait" /\ kMsg' = NoMsg
       \/ kLeft' # {} /\ kpc' = "send" /\ UNCHANGED kMsg
    /\ UNCHANGED <<vars, db, poller, bus, snap, client, published>>

\* One websocket.send; a listener without an open socket is skipped.
KSend(m) ==
    /\ kpc = "send"
    /\ m \in kLeft
    /\ kLeft' = kLeft \ {m}
    /\ \/ kLeft' = {} /\ kpc' = "wait" /\ kMsg' = NoMsg
       \/ kLeft' # {} /\ UNCHANGED <<kpc, kMsg>>
    /\ \/ /\ Open(m[1])
          /\ Show(m[1], <<kMsg[1], m[2]>>, kMsg[2])
          /\ late' = IF m \in listeners[kMsg[1]] THEN late
                     ELSE [late EXCEPT ![m[1]][<<kMsg[1], m[2]>>] = @ + 1]
       \/ ~Open(m[1]) /\ UNCHANGED client
    /\ UNCHANGED <<vars, db, poller, bus, snap, published>>

\* SMEMBERS fails: the message is dropped.
KListFail ==
    /\ kpc = "list"
    /\ faults < MaxFaults /\ faults' = faults + 1
    /\ kpc' = "wait" /\ kMsg' = NoMsg
    /\ Forget
    /\ UNCHANGED <<redis, handler, cleaner, faulty, disturbed, db, poller, bus, kLeft, snap, late>>

\* The Pub/Sub connection breaks: the task ends and nobody starts it again.
KDies ==
    /\ kpc \in {"start", "wait"}
    /\ faults < MaxFaults /\ faults' = faults + 1
    /\ kpc' = "dead" /\ bus' = <<>>
    /\ Forget
    /\ UNCHANGED <<redis, handler, cleaner, faulty, disturbed, db, poller, kMsg, kLeft, snap, late>>

(***************************************************************************)
(* The initial snapshot.                                                    *)
(***************************************************************************)
\* Mutation of SQuery: the snapshot comes from a cache, one version old.
SQueryCached(c) ==
    /\ snap[c].step = "query"
    /\ snap' = [snap EXCEPT ![c] = [@ EXCEPT !.step = "send",
                                      !.version = IF db = 0 THEN 0 ELSE db - 1]]
    /\ UNCHANGED <<vars, db, poller, consumer, client, published>>

\* fetch_snapshot
SQuery(c) ==
    /\ snap[c].step = "query"
    /\ snap' = [snap EXCEPT ![c] = [@ EXCEPT !.step = "send", !.version = db]]
    /\ UNCHANGED <<vars, db, poller, consumer, client, published>>

SSend(c) ==
    /\ snap[c].step = "send"
    /\ snap' = [snap EXCEPT ![c] = NoSnap]
    /\ Show(c, snap[c].pair, snap[c].version)
    /\ UNCHANGED <<vars, db, poller, consumer, late, published>>

\* Errors of the query and of the send are logged; the handler goes on.
SFail(c) ==
    /\ snap[c] # NoSnap
    /\ Fault(c)
    /\ snap' = [snap EXCEPT ![c] = NoSnap]
    /\ Forget
    /\ UNCHANGED <<redis, handler, cleaner, disturbed, db, poller, consumer, late>>

(***************************************************************************)
(* The specification.                                                       *)
(***************************************************************************)
PollerStep ==
    \/ PScan \/ PRegistry \/ PQuery \/ PNothing \/ PPublish
    \/ \E h \in Hash : PListeners(h)

ConsumerStep == KSubscribe \/ KReceive \/ KList \/ \E m \in Listener : KSend(m)

SnapshotStep(c) == SQuery(c) \/ SSend(c)

DNext ==
    \/ RegistryStep
    \/ NewData
    \/ PollerStep \/ ConsumerStep
    \/ PCrash \/ PFail \/ KListFail \/ KDies
    \/ \E c \in Client : SnapshotStep(c) \/ SFail(c)

DSpec == DInit /\ [][DNext]_dvars

\* The event loops of the two services run what is ready, and a handler runs on.
DFairness ==
    /\ WF_dvars(PollerStep)
    /\ WF_dvars(ConsumerStep)
    /\ \A c \in Client :
        WF_dvars(SnapshotStep(c)) /\ WF_dvars(HandlerStep(c) /\ RegistryStep)

DFairSpec == DSpec /\ DFairness

(***************************************************************************)
(* Properties.                                                              *)
(***************************************************************************)
\* The variables of poller, consumer and snapshots keep their shape.
DTypeOK ==
    /\ db \in 0..MaxData
    /\ ppc \in {"sleep", "next", "registry", "query", "publish"}
    /\ pTodo \subseteq Hash /\ pHash \in Hash \cup {NoHash} /\ pResult \in Version
    /\ bus \in Seq(Hash \X (0..MaxData)) /\ Len(bus) <= MaxBus
    /\ kpc \in {"start", "wait", "list", "send", "dead"}
    /\ kMsg \in (Hash \X (0..MaxData)) \cup {NoMsg} /\ kLeft \subseteq Listener
    /\ snap \in [Client -> [step : {"none", "query", "send"}, pair : Pair \cup {NoPair},
                            version : Version]]
    /\ best \in [Client -> [Pair -> Version]]
    /\ outdated \subseteq Client \X Pair
    /\ published \in [Hash -> Version]

\* The pair p of client c is subscribed, its handler works on something else,
\* and nothing has gone wrong with it.
Subscribed(c, p) ==
    /\ Open(c) /\ c \in session \ faulty
    /\ p \in tracked[c] /\ op[c] # p
    /\ p[1] \notin disturbed

\* A message of the hash of p with version v or newer is on its way to <<c, s>>.
OnItsWay(c, p, v) ==
    \/ \E i \in 1..Len(bus) : bus[i][1] = p[1] /\ bus[i][2] >= v
    \/ /\ kMsg[1] = p[1] /\ kMsg[2] >= v
       /\ kpc = "list" \/ <<c, p[2]>> \in kLeft

\* No update falls between the snapshot and the pushes: once a subscription has
\* its snapshot, every version published for it was sent to it, or a newer one
\* was, or is on its way (server.py:263-271: "This order prevents the race
\* condition where a Pub/Sub update arrives between the DB query and the Redis
\* subscription").
NoMissedUpdate ==
    \A c \in Client, p \in Pair :
        Subscribed(c, p) /\ snap[c].pair # p /\ faults = 0 =>
            published[p[1]] <= best[c][p] \/ OnItsWay(c, p, published[p[1]])

\* The consumer works with a listener list it read before; after an unsubscribe
\* (or the removal of a ghost) the pair is sent at most one more message
\* (pubsub_consumer.py:115-146).
AtMostOneLatePush == \A c \in Client, p \in Pair : late[c][p] <= 1

\* End to end: as long as it stays subscribed and nothing fails, a subscription
\* comes to show the last version of the database, even when the consumer missed
\* a push or an outdated snapshot was shown on the way (poller.py:92-111).
NewestDelivered ==
    \A c \in Client, p \in Pair :
        (Subscribed(c, p) /\ db = MaxData)
        ~> ((best[c][p] = MaxData /\ <<c, p>> \notin outdated) \/ ~Subscribed(c, p) \/ faults > 0)
=============================================================================
