-------------------------- MODULE SubscriptionRegistry --------------------------
(***************************************************************************)
(* The subscription registry of the CnSS backend: the Redis keys that say   *)
(* which WebSocket clients listen to which query, and the three writers     *)
(* that share them without a lock:                                          *)
(*   - the handlers of the WebSocket service, one coroutine per connection  *)
(*     (services/websocket/server.py, subscription.py, session.py),         *)
(*   - its garbage collector, run by the handler when a connection ends     *)
(*     (services/websocket/gc.py),                                          *)
(*   - the ghost cleaner of the reporting service                           *)
(*     (services/reporting/ghost_cleaner.py).                               *)
(*                                                                          *)
(* One step is one Redis command: the pipelines of this code are opened     *)
(* with transaction=False, so Redis may run commands of other connections   *)
(* between two commands of one pipeline.  A client is one connection: its   *)
(* identifier is a fresh uuid4, so it connects at most once.                *)
(***************************************************************************)
EXTENDS Naturals, FiniteSets

CONSTANTS
    Client,     \* identifiers of connections (uuid4)
    Hash,       \* query hashes of subscriptions
    SubId,      \* identifiers a client gives to its subscriptions
    MaxFaults   \* bound: Redis errors and restarts of the reporting service

ASSUME MaxFaultsAssumption == MaxFaults \in Nat

VARIABLES
    \* --- Redis ---
    registry,   \* hashes with a key sub:registry:{h}
    listeners,  \* sub:listeners:{h}, a set of client_id:sub_id members
    active,     \* the set sub:active_hashes
    session,    \* clients with a key ws:session:{c}
    tracked,    \* ws:session:{c}:subs, a set of query_hash:sub_id members
    \* --- WebSocket service: one handler per client ---
    pc,         \* the next command of the handler
    op,         \* the (hash, sub_id) the handler works on
    todo,       \* the pairs the garbage collector has still to clean up
    closing,    \* clients whose handler is in its finally block
    missed,     \* clients whose last heartbeat failed
    \* --- reporting service: the ghost cleaner ---
    cpc,        \* the next command of the cleaner
    cTodo,      \* hashes of this scan not yet visited
    cHash,      \* the hash being cleaned
    cCheck,     \* its listeners, as read, whose session is not yet checked
    cStale,     \* its listeners found without a session
    \* --- history ---
    faults,     \* number of faults so far
    faulty,     \* clients whose handler met a Redis error
    disturbed   \* hashes whose registration and cleanup overlapped, or where
                \* one of the two was cut short by an error or a crash

redis   == <<registry, listeners, active, session, tracked>>
handler == <<pc, op, todo, closing, missed>>
cleaner == <<cpc, cTodo, cHash, cCheck, cStale>>
history == <<faults, faulty, disturbed>>
vars    == <<redis, handler, cleaner, history>>

Pair     == Hash \X SubId
Listener == Client \X SubId
NoPair   == <<>>
NoHash   == "none"

RegisterSteps == {"sub_listen", "sub_index"}
DeleteSteps   == {"del_registry", "del_listeners", "del_index"}
UnsubSteps    == {"uns_count", "uns_track"}
GcSteps       == {"gc_read", "gc_next", "gc_count"}
\* The steps at which a handler works on the pair op[c].
BusySteps     == RegisterSteps \cup DeleteSteps \cup UnsubSteps \cup {"sub_track", "gc_count"}
HandlerSteps  == {"offline", "idle", "sub_track", "gone", "crashed"}
                 \cup RegisterSteps \cup DeleteSteps \cup UnsubSteps \cup GcSteps
CleanerSteps  == {"sleep", "next", "check", "count"} \cup DeleteSteps

Init ==
    /\ registry = {} /\ active = {} /\ session = {}
    /\ listeners = [h \in Hash |-> {}]
    /\ tracked = [c \in Client |-> {}]
    /\ pc = [c \in Client |-> "offline"]
    /\ op = [c \in Client |-> NoPair]
    /\ todo = [c \in Client |-> {}]
    /\ closing = {} /\ missed = {}
    /\ cpc = "sleep" /\ cTodo = {} /\ cHash = NoHash /\ cCheck = {} /\ cStale = {}
    /\ faults = 0 /\ faulty = {} /\ disturbed = {}

(***************************************************************************)
(* Helpers.                                                                 *)
(***************************************************************************)
\* A handler has written part of the registration of h.
Registering(h) ==
    \E c \in Client : pc[c] \in RegisterSteps /\ op[c] \in {h} \X SubId

\* Someone has decided to delete the keys of h and has not finished.
Cleaning(h) ==
    \/ \E c \in Client : pc[c] \in DeleteSteps /\ op[c] \in {h} \X SubId
    \/ cpc \in DeleteSteps /\ cHash = h

Connected(c) == pc[c] \notin {"offline", "gone", "crashed"}

Goto(c, step) == pc' = [pc EXCEPT ![c] = step]

\* The handler is done with its pair and continues at step.
Finish(c, step) == Goto(c, step) /\ op' = [op EXCEPT ![c] = NoPair]

Disturb(H) == disturbed' = disturbed \cup H

\* A Redis error that one of the handlers of c sees.
Fault(c) ==
    /\ faults < MaxFaults
    /\ faults' = faults + 1
    /\ faulty' = faulty \cup {c}

(***************************************************************************)
(* The handler of a connection: connect, heartbeat, subscribe, unsubscribe. *)
(***************************************************************************)

\* _handler, phases 1-4: an authenticated client gets its session.
Connect(c) ==
    /\ pc[c] = "offline"
    /\ Goto(c, "idle")
    /\ session' = session \cup {c}
    /\ tracked' = [tracked EXCEPT ![c] = {}]
    /\ closing' = closing \ {c}
    /\ UNCHANGED <<registry, listeners, active, op, todo, missed, cleaner, history>>

\* session.create raises: the handler goes to its finally block, and the session
\* exists or not according to how far the pipeline got.
ConnectFail(c) ==
    /\ pc[c] = "offline"
    /\ Goto(c, "gc_read")
    /\ closing' = closing \cup {c}
    /\ session' \in {session, session \cup {c}}
    /\ Fault(c)
    /\ UNCHANGED <<registry, listeners, active, tracked, op, todo, missed, cleaner, disturbed>>

\* The heartbeat refreshes the TTL in time.  EXPIRE does nothing when the key
\* has already expired: a lost session does not come back.
HeartbeatOk(c) ==
    /\ Connected(c) /\ c \notin closing
    /\ c \in missed
    /\ missed' = missed \ {c}
    /\ UNCHANGED <<redis, pc, op, todo, closing, cleaner, history>>

\* refresh_ttl swallows the error; the next refresh is due when the TTL ends.
HeartbeatFail(c) ==
    /\ Connected(c) /\ c \notin closing
    /\ c \notin missed /\ faults < MaxFaults
    /\ missed' = missed \cup {c}
    /\ faults' = faults + 1
    /\ UNCHANGED <<redis, pc, op, todo, closing, cleaner, faulty, disturbed>>

\* Redis drops a session nobody refreshed for SESSION_TTL_SEC.
SessionExpire(c) ==
    /\ c \in session
    /\ ~Connected(c) \/ c \in closing \/ c \in missed
    /\ session' = session \ {c}
    /\ UNCHANGED <<registry, listeners, active, tracked, handler, cleaner, history>>

\* subscribe: SET NX of the registry key, the first command of the pipeline.
Subscribe(c, p) ==
    /\ pc[c] = "idle"
    /\ Goto(c, "sub_listen")
    /\ op' = [op EXCEPT ![c] = p]
    /\ registry' = registry \cup {p[1]}
    /\ Disturb({h \in {p[1]} : Cleaning(h)})
    /\ UNCHANGED <<listeners, active, session, tracked, todo, closing, missed, cleaner,
                   faults, faulty>>

SubListen(c) ==
    /\ pc[c] = "sub_listen"
    /\ Goto(c, "sub_index")
    /\ listeners' = [listeners EXCEPT ![op[c][1]] = @ \cup {<<c, op[c][2]>>}]
    /\ UNCHANGED <<registry, active, session, tracked, op, todo, closing, missed, cleaner,
                   history>>

SubIndex(c) ==
    /\ pc[c] = "sub_index"
    /\ Goto(c, "sub_track")
    /\ active' = active \cup {op[c][1]}
    /\ UNCHANGED <<registry, listeners, session, tracked, op, todo, closing, missed, cleaner,
                   history>>

\* session.add_subscription
SubTrack(c) ==
    /\ pc[c] = "sub_track"
    /\ Finish(c, "idle")
    /\ tracked' = [tracked EXCEPT ![c] = @ \cup {op[c]}]
    /\ UNCHANGED <<registry, listeners, active, session, todo, closing, missed, cleaner,
                   history>>

\* unsubscribe: SREM of the listener, of any pair the client names.
Unsubscribe(c, p) ==
    /\ pc[c] = "idle"
    /\ Goto(c, "uns_count")
    /\ op' = [op EXCEPT ![c] = p]
    /\ listeners' = [listeners EXCEPT ![p[1]] = @ \ {<<c, p[2]>>}]
    /\ UNCHANGED <<registry, active, session, tracked, todo, closing, missed, cleaner,
                   history>>

\* Mutation of UnsCount: off by one, the keys go with one listener left.
UnsCountOffByOne(c) ==
    /\ pc[c] = "uns_count"
    /\ \/ /\ Cardinality(listeners[op[c][1]]) <= 1
          /\ Goto(c, "del_registry")
          /\ Disturb({h \in {op[c][1]} : Registering(h)})
       \/ /\ Cardinality(listeners[op[c][1]]) > 1
          /\ Goto(c, "uns_track")
          /\ UNCHANGED disturbed
    /\ UNCHANGED <<redis, op, todo, closing, missed, cleaner, faults, faulty>>

\* SCARD: the decision to delete the keys is taken on this value.
UnsCount(c) ==
    /\ pc[c] = "uns_count"
    /\ \/ /\ listeners[op[c][1]] = {}
          /\ Goto(c, "del_registry")
          /\ Disturb({h \in {op[c][1]} : Registering(h)})
       \/ /\ listeners[op[c][1]] # {}
          /\ Goto(c, "uns_track")
          /\ UNCHANGED disturbed
    /\ UNCHANGED <<redis, op, todo, closing, missed, cleaner, faults, faulty>>

\* session.remove_subscription
UnsTrack(c) ==
    /\ pc[c] = "uns_track"
    /\ Finish(c, "idle")
    /\ tracked' = [tracked EXCEPT ![c] = @ \ {op[c]}]
    /\ UNCHANGED <<registry, listeners, active, session, todo, closing, missed, cleaner,
                   history>>

(***************************************************************************)
(* The cleanup pipeline, the same three commands in unsubscribe and in      *)
(* _cleanup_subscription of the garbage collector.                          *)
(***************************************************************************)
DelRegistry(c) ==
    /\ pc[c] = "del_registry"
    /\ Goto(c, "del_listeners")
    /\ registry' = registry \ {op[c][1]}
    /\ UNCHANGED <<listeners, active, session, tracked, op, todo, closing, missed, cleaner,
                   history>>

DelListeners(c) ==
    /\ pc[c] = "del_listeners"
    /\ Goto(c, "del_index")
    /\ listeners' = [listeners EXCEPT ![op[c][1]] = {}]
    /\ UNCHANGED <<registry, active, session, tracked, op, todo, closing, missed, cleaner,
                   history>>

DelIndex(c) ==
    /\ pc[c] = "del_index"
    /\ active' = active \ {op[c][1]}
    /\ \/ c \in closing /\ Finish(c, "gc_next")
       \/ c \notin closing /\ Goto(c, "uns_track") /\ UNCHANGED op
    /\ UNCHANGED <<registry, listeners, session, tracked, todo, closing, missed, cleaner,
                   history>>

(***************************************************************************)
(* The end of a connection: heartbeat cancelled, garbage collection, and    *)
(* session.destroy.                                                         *)
(***************************************************************************)
\* The receive loop ends: client closed, network dropped, or server stopping.
Disconnect(c) ==
    /\ pc[c] = "idle"
    /\ Goto(c, "gc_read")
    /\ closing' = closing \cup {c}
    /\ missed' = missed \ {c}
    /\ UNCHANGED <<redis, op, todo, cleaner, history>>

\* Mutation of GcRead: nothing to do for a session that has expired.
GcReadLiveOnly(c) ==
    /\ pc[c] = "gc_read"
    /\ Goto(c, "gc_next")
    /\ todo' = [todo EXCEPT ![c] = IF c \in session THEN tracked[c] ELSE {}]
    /\ UNCHANGED <<redis, op, closing, missed, cleaner, history>>

\* cleanup: SMEMBERS of the tracked pairs.
GcRead(c) ==
    /\ pc[c] = "gc_read"
    /\ Goto(c, "gc_next")
    /\ todo' = [todo EXCEPT ![c] = tracked[c]]
    /\ UNCHANGED <<redis, op, closing, missed, cleaner, history>>

\* _cleanup_subscription: SREM, and nothing more if it removed nothing.
GcNext(c, p) ==
    /\ pc[c] = "gc_next"
    /\ p \in todo[c]
    /\ todo' = [todo EXCEPT ![c] = @ \ {p}]
    /\ \/ /\ <<c, p[2]>> \in listeners[p[1]]
          /\ listeners' = [listeners EXCEPT ![p[1]] = @ \ {<<c, p[2]>>}]
          /\ Goto(c, "gc_count")
          /\ op' = [op EXCEPT ![c] = p]
       \/ /\ <<c, p[2]>> \notin listeners[p[1]]
          /\ UNCHANGED <<listeners, pc, op>>
    /\ UNCHANGED <<registry, active, session, tracked, closing, missed, cleaner, history>>

GcCount(c) ==
    /\ pc[c] = "gc_count"
    /\ \/ /\ listeners[op[c][1]] = {}
          /\ Goto(c, "del_registry") /\ UNCHANGED op
          /\ Disturb({h \in {op[c][1]} : Registering(h)})
       \/ /\ listeners[op[c][1]] # {}
          /\ Finish(c, "gc_next")
          /\ UNCHANGED disturbed
    /\ UNCHANGED <<redis, todo, closing, missed, cleaner, faults, faulty>>

\* session.destroy: one DEL of both keys of the session.
Destroy(c) ==
    /\ pc[c] = "gc_next" /\ todo[c] = {}
    /\ Goto(c, "gone")
    /\ session' = session \ {c}
    /\ tracked' = [tracked EXCEPT ![c] = {}]
    /\ closing' = closing \ {c}
    /\ UNCHANGED <<registry, listeners, active, op, todo, missed, cleaner, history>>

(***************************************************************************)
(* Redis errors in a handler, and the crash of the WebSocket service.       *)
(***************************************************************************)
\* subscribe or unsubscribe raises RedisError: the connection is closed with
\* code 1011 and the finally block runs.  The commands of a pipeline that were
\* sent before the error have taken effect.
MessageFail(c) ==
    /\ pc[c] \in RegisterSteps \cup DeleteSteps \cup {"sub_track", "uns_count", "uns_track"}
    /\ c \notin closing
    /\ Finish(c, "gc_read")
    /\ closing' = closing \cup {c}
    /\ missed' = missed \ {c}
    /\ Fault(c)
    /\ Disturb({h \in {op[c][1]} : pc[c] \in RegisterSteps \cup DeleteSteps})
    /\ UNCHANGED <<redis, todo, cleaner>>

\* add_subscription and remove_subscription swallow the error.
TrackFail(c) ==
    /\ pc[c] \in {"sub_track", "uns_track"}
    /\ Finish(c, "idle")
    /\ Fault(c)
    /\ UNCHANGED <<redis, todo, closing, missed, cleaner, disturbed>>

\* cleanup gives up when SMEMBERS fails; destroy runs all the same.
GcReadFail(c) ==
    /\ pc[c] = "gc_read"
    /\ Goto(c, "gc_next")
    /\ Fault(c)
    /\ UNCHANGED <<redis, op, todo, closing, missed, cleaner, disturbed>>

\* _cleanup_subscription swallows the error and the loop takes the next pair.
GcRemoveFail(c, p) ==
    /\ pc[c] = "gc_next"
    /\ p \in todo[c]
    /\ todo' = [todo EXCEPT ![c] = @ \ {p}]
    /\ Fault(c)
    /\ UNCHANGED <<redis, pc, op, closing, missed, cleaner, disturbed>>

GcFail(c) ==
    /\ pc[c] \in DeleteSteps \cup {"gc_count"}
    /\ c \in closing
    /\ Finish(c, "gc_next")
    /\ Fault(c)
    /\ Disturb({h \in {op[c][1]} : pc[c] # "gc_count"})
    /\ UNCHANGED <<redis, todo, closing, missed, cleaner>>

\* destroy swallows the error: both keys stay.
DestroyFail(c) ==
    /\ pc[c] = "gc_next" /\ todo[c] = {}
    /\ Goto(c, "gone")
    /\ closing' = closing \ {c}
    /\ Fault(c)
    /\ UNCHANGED <<redis, op, todo, missed, cleaner, disturbed>>

\* The container dies with all its connections; Redis keeps every key.
WsCrash ==
    /\ \E c \in Client : Connected(c)
    /\ pc' = [c \in Client |-> IF Connected(c) THEN "crashed" ELSE pc[c]]
    /\ op' = [c \in Client |-> NoPair]
    /\ todo' = [c \in Client |-> {}]
    /\ closing' = {} /\ missed' = {}
    /\ Disturb({h \in Hash : \E c \in Client :
                    pc[c] \in RegisterSteps \cup DeleteSteps /\ op[c] \in {h} \X SubId})
    /\ UNCHANGED <<redis, cleaner, faults, faulty>>

(***************************************************************************)
(* The ghost cleaner.                                                       *)
(***************************************************************************)
\* The cleaner leaves the hash it was working on.
CleanerContinue ==
    /\ cpc' = IF cTodo = {} THEN "sleep" ELSE "next"
    /\ cHash' = NoHash /\ cCheck' = {} /\ cStale' = {}
    /\ UNCHANGED cTodo

\* _scan_and_clean: SMEMBERS sub:active_hashes.
CScan ==
    /\ cpc = "sleep"
    /\ active # {}
    /\ cpc' = "next"
    /\ cTodo' = active
    /\ UNCHANGED <<redis, handler, cHash, cCheck, cStale, history>>

\* Mutation of CRead: the hash of the previous subscription is kept.
CReadStaleHash(h) ==
    /\ cpc = "next"
    /\ h \in cTodo
    /\ cTodo' = cTodo \ {h}
    /\ cCheck' = listeners[h]
    /\ cpc' = IF listeners[h] = {} THEN "del_registry" ELSE "check"
    /\ UNCHANGED <<redis, handler, cHash, cStale, history>>

\* Mutation of CRead: a hash without listeners is passed over.
CReadSkipsEmpty(h) ==
    /\ cpc = "next"
    /\ h \in cTodo
    /\ cTodo' = cTodo \ {h}
    /\ \/ /\ listeners[h] = {}
          /\ cpc' = IF cTodo' = {} THEN "sleep" ELSE "next"
          /\ UNCHANGED <<cHash, cCheck>>
       \/ /\ listeners[h] # {}
          /\ cpc' = "check" /\ cHash' = h /\ cCheck' = listeners[h]
    /\ UNCHANGED <<redis, handler, cStale, history>>

\* _clean_subscription: SMEMBERS of the listeners of the next hash.
CRead(h) ==
    /\ cpc = "next"
    /\ h \in cTodo
    /\ cTodo' = cTodo \ {h}
    /\ cHash' = h
    /\ cCheck' = listeners[h]
    /\ \/ /\ listeners[h] = {}
          /\ cpc' = "del_registry"
          /\ Disturb({g \in {h} : Registering(g)})
       \/ /\ listeners[h] # {}
          /\ cpc' = "check"
          /\ UNCHANGED disturbed
    /\ UNCHANGED <<redis, handler, cStale, faults, faulty>>

MembersOf(c) == {m \in cCheck : m[1] = c}

\* EXISTS ws:session:{c}, once for all the listeners of a client.
CCheck(c) ==
    /\ cpc = "check"
    /\ MembersOf(c) # {}
    /\ cCheck' = cCheck \ MembersOf(c)
    /\ cStale' = IF c \in session THEN cStale ELSE cStale \cup MembersOf(c)
    /\ UNCHANGED <<redis, handler, cpc, cTodo, cHash, history>>

\* Mutation of CRemove: the stale members are logged and not removed.
CRemoveForgotten ==
    /\ cpc = "check"
    /\ cCheck = {}
    /\ cpc' = "count"
    /\ cStale' = {}
    /\ UNCHANGED <<redis, handler, cTodo, cHash, cCheck, history>>

\* SREM of the stale members, if there are any.
CRemove ==
    /\ cpc = "check"
    /\ cCheck = {}
    /\ cpc' = "count"
    /\ listeners' = [listeners EXCEPT ![cHash] = @ \ cStale]
    /\ cStale' = {}
    /\ UNCHANGED <<registry, active, session, tracked, handler, cTodo, cHash, cCheck, history>>

CCount ==
    /\ cpc = "count"
    /\ \/ /\ listeners[cHash] = {}
          /\ cpc' = "del_registry"
          /\ Disturb({h \in {cHash} : Registering(h)})
          /\ UNCHANGED <<cTodo, cHash, cCheck, cStale>>
       \/ /\ listeners[cHash] # {}
          /\ CleanerContinue
          /\ UNCHANGED disturbed
    /\ UNCHANGED <<redis, handler, faults, faulty>>

\* Mutation of CDelRegistry: the registry is left out of the pipeline.
CDelRegistryForgotten ==
    /\ cpc = "del_registry"
    /\ cpc' = "del_listeners"
    /\ UNCHANGED <<redis, handler, cTodo, cHash, cCheck, cStale, history>>

\* _cleanup_empty_subscription, command by command.
CDelRegistry ==
    /\ cpc = "del_registry"
    /\ cpc' = "del_listeners"
    /\ registry' = registry \ {cHash}
    /\ UNCHANGED <<listeners, active, session, tracked, handler, cTodo, cHash, cCheck, cStale,
                   history>>

CDelListeners ==
    /\ cpc = "del_listeners"
    /\ cpc' = "del_index"
    /\ listeners' = [listeners EXCEPT ![cHash] = {}]
    /\ UNCHANGED <<registry, active, session, tracked, handler, cTodo, cHash, cCheck, cStale,
                   history>>

CDelIndex ==
    /\ cpc = "del_index"
    /\ active' = active \ {cHash}
    /\ CleanerContinue
    /\ UNCHANGED <<registry, listeners, session, tracked, handler, history>>

\* Every Redis error of _clean_subscription is logged and ends the work on the
\* hash, except that of EXISTS, which spares the listeners of the client.
CFail ==
    /\ \/ cpc \in {"count"} \cup DeleteSteps
       \/ cpc = "check" /\ cCheck = {} /\ cStale # {}
    /\ faults < MaxFaults /\ faults' = faults + 1
    /\ CleanerContinue
    /\ Disturb({h \in {cHash} : cpc \in DeleteSteps})
    /\ UNCHANGED <<redis, handler, faulty>>

CReadFail(h) ==
    /\ cpc = "next"
    /\ h \in cTodo
    /\ faults < MaxFaults /\ faults' = faults + 1
    /\ cTodo' = cTodo \ {h}
    /\ cpc' = IF cTodo' = {} THEN "sleep" ELSE "next"
    /\ UNCHANGED <<redis, handler, cHash, cCheck, cStale, faulty, disturbed>>

\* Mutation of CCheckFail: an error counts as a missing session.
CCheckFailStale(c) ==
    /\ cpc = "check"
    /\ MembersOf(c) # {}
    /\ faults < MaxFaults /\ faults' = faults + 1
    /\ cCheck' = cCheck \ MembersOf(c)
    /\ cStale' = cStale \cup MembersOf(c)
    /\ UNCHANGED <<redis, handler, cpc, cTodo, cHash, faulty, disturbed>>

CCheckFail(c) ==
    /\ cpc = "check"
    /\ MembersOf(c) # {}
    /\ faults < MaxFaults /\ faults' = faults + 1
    /\ cCheck' = cCheck \ MembersOf(c)
    /\ UNCHANGED <<redis, handler, cpc, cTodo, cHash, cStale, faulty, disturbed>>

\* The reporting service dies and restarts with an empty scan.
ReportingCrash ==
    /\ cpc # "sleep"
    /\ faults < MaxFaults /\ faults' = faults + 1
    /\ cpc' = "sleep" /\ cTodo' = {} /\ cHash' = NoHash /\ cCheck' = {} /\ cStale' = {}
    /\ Disturb({h \in {cHash} : cpc \in DeleteSteps})
    /\ UNCHANGED <<redis, handler, faulty>>

(***************************************************************************)
(* The next-state relation and the specification.                           *)
(***************************************************************************)
\* What the handler of c does of its own accord once it has a message.
HandlerStep(c) ==
    \/ SubListen(c) \/ SubIndex(c) \/ SubTrack(c)
    \/ UnsCount(c) \/ UnsTrack(c)
    \/ DelRegistry(c) \/ DelListeners(c) \/ DelIndex(c)
    \/ GcRead(c) \/ GcCount(c) \/ Destroy(c)
    \/ \E p \in Pair : GcNext(c, p)

\* What the client, the network and Redis do to it.
ClientStep(c) ==
    \/ Connect(c) \/ Disconnect(c)
    \/ \E p \in Pair : Subscribe(c, p) \/ Unsubscribe(c, p)

HandlerFail(c) ==
    \/ ConnectFail(c) \/ HeartbeatFail(c) \/ MessageFail(c) \/ TrackFail(c)
    \/ GcReadFail(c) \/ GcFail(c) \/ DestroyFail(c)
    \/ \E p \in Pair : GcRemoveFail(c, p)

CleanerStep ==
    \/ CScan \/ CRemove \/ CCount
    \/ CDelRegistry \/ CDelListeners \/ CDelIndex
    \/ \E h \in Hash : CRead(h)
    \/ \E c \in Client : CCheck(c)

CleanerFail ==
    \/ CFail \/ ReportingCrash
    \/ \E h \in Hash : CReadFail(h)
    \/ \E c \in Client : CCheckFail(c)

Next ==
    \/ \E c \in Client :
        HandlerStep(c) \/ ClientStep(c) \/ HandlerFail(c)
        \/ HeartbeatOk(c) \/ SessionExpire(c)
    \/ WsCrash
    \/ CleanerStep
    \/ CleanerFail

Spec == Init /\ [][Next]_vars

\* The event loops run what is ready, the cleaner wakes up every
\* GHOST_CLEANUP_INTERVAL_SEC, and Redis expires keys.  Clients owe nothing.
Fairness ==
    /\ \A c \in Client : WF_vars(HandlerStep(c)) /\ WF_vars(SessionExpire(c))
    /\ WF_vars(CleanerStep)

FairSpec == Spec /\ Fairness

(***************************************************************************)
(* Type invariant.                                                          *)
(***************************************************************************)
\* The Redis keys, the program counters and the locals of the handlers
\* (server.py) and of the cleaner (ghost_cleaner.py) keep their shape.
TypeOK ==
    /\ registry \subseteq Hash /\ active \subseteq Hash
    /\ listeners \in [Hash -> SUBSET Listener]
    /\ session \subseteq Client
    /\ tracked \in [Client -> SUBSET Pair]
    /\ pc \in [Client -> HandlerSteps]
    /\ op \in [Client -> Pair \cup {NoPair}]
    /\ \A c \in Client : pc[c] \in BusySteps => op[c] \in Pair
    /\ todo \in [Client -> SUBSET Pair]
    /\ closing \subseteq Client /\ missed \subseteq Client
    /\ cpc \in CleanerSteps
    /\ cTodo \subseteq Hash /\ cHash \in Hash \cup {NoHash}
    /\ cpc \notin {"sleep", "next"} => cHash \in Hash
    /\ cCheck \subseteq Listener /\ cStale \subseteq Listener
    /\ faults \in 0..MaxFaults /\ faulty \subseteq Client /\ disturbed \subseteq Hash

(***************************************************************************)
(* Safety.                                                                  *)
(***************************************************************************)
\* A listener the garbage collector can still find, or that its handler is
\* about to make findable.
Collectable(c, p) ==
    \/ Connected(c) /\ (c \notin closing \/ pc[c] = "gc_read") /\ p \in tracked[c]
    \/ pc[c] \in {"sub_index", "sub_track"} /\ op[c] = p
    \/ p \in todo[c]

\* No listener escapes the garbage collector: as long as its handler met no
\* Redis error, every listener of a connection that did not crash is in the
\* set the garbage collector will read, or in the list it works through
\* (subscription.py:74-90 and :119-139 against gc.py:70-88).  In particular a
\* connection that has ended leaves no listener behind.
NoListenerEscapesGc ==
    \A c \in Client, p \in Pair :
        /\ c \notin faulty /\ pc[c] # "crashed"
        /\ <<c, p[2]>> \in listeners[p[1]]
        => Collectable(c, p)

\* A verdict of the ghost cleaner cannot go stale: between the EXISTS that
\* condemns a listener and the SREM that removes it (ghost_cleaner.py:155-178)
\* its client never has a session again, and it is not about to subscribe for
\* the first time.
GhostVerdictFinal ==
    \A m \in cStale : m[1] \notin session /\ pc[m[1]] # "offline"

\* Registry and index agree, and every listener is indexed: on a hash whose
\* registrations and cleanups never overlapped nor were cut short, outside of
\* a registration or a cleanup, sub:registry:{h} exists iff h is in
\* sub:active_hashes, and both do when somebody listens.  The poller needs all
\* three (subscription.py:79-87 against :127-130, gc.py:129-132,
\* ghost_cleaner.py:213-216).
IndexConsistent ==
    \A h \in Hash \ disturbed :
        ~Registering(h) /\ ~Cleaning(h) =>
            /\ h \in registry <=> h \in active
            /\ listeners[h] # {} => h \in active

\* An acknowledged subscription is kept: as long as the session lives, a pair
\* the handler has tracked and is not taking back keeps its listener and its
\* registry, whatever the other handlers, their garbage collection and the
\* ghost cleaner do on the same hash.
SubscriptionKept ==
    \A c \in session \ (closing \cup faulty), p \in Pair :
        /\ Connected(c)
        /\ p \in tracked[c] /\ p[1] \notin disturbed
        /\ ~(pc[c] \in UnsubSteps \cup DeleteSteps /\ op[c] = p)
        => /\ <<c, p[2]>> \in listeners[p[1]]
           /\ p[1] \in registry

(***************************************************************************)
(* Liveness.                                                                *)
(***************************************************************************)
\* A crash of the WebSocket service leaves no ghost on an indexed hash: its
\* session expires and the cleaner removes the listener
\* (ghost_cleaner.py:112-196).
GhostEventuallyRemoved ==
    \A c \in Client, h \in Hash :
        (pc[c] = "crashed" /\ h \in active /\ \E m \in listeners[h] : m[1] = c)
        ~> (h \notin active \/ \A m \in listeners[h] : m[1] # c)

NoKeys(h) == h \notin registry /\ h \notin active /\ listeners[h] = {}

\* While nobody is connected, every hash without an overlap ends with no key in
\* Redis, so that the poller stops querying for it (gc.py:123-132,
\* ghost_cleaner.py:127-131, 191-194, 213-216).
EventuallyReclaimed ==
    \A h \in Hash :
        (\A c \in Client : ~Connected(c))
        ~> (NoKeys(h) \/ h \in disturbed \/ \E c \in Client : Connected(c))

(***************************************************************************)
(* What the documents say and the code does not do.                         *)
(***************************************************************************)
\* architecture.md: the registry is deleted only when the last listener is
\* removed.
RegistryDeletedOnlyWhenUnlistened ==
    [][\A h \in registry : h \notin registry' => listeners[h] = {}]_vars
=============================================================================
