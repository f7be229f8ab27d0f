------------------------------- MODULE Interface -------------------------------
(***************************************************************************)
(* The live connection of one browser tab: the WebSocket service, the       *)
(* subscription manager on top of it, the channel selector that drives the  *)
(* one and the components that use the other (mui/src/services/websocket.ts,*)
(* subscriptionManager.ts, ChannelSelector.tsx, hooks/).                    *)
(*                                                                          *)
(* A step is one event of the browser and everything the interface runs     *)
(* until it is idle again.  A socket that is gone is used again for a new   *)
(* one, and an id that nobody refers to any more for a new random one.      *)
(***************************************************************************)
EXTENDS Naturals, Sequences, FiniteSets, SequencesExt

CONSTANTS
    Channel,  \* channels a user can select
    Key,      \* what a component can subscribe to: target and parameters
    Listener, \* components
    MaxLive,  \* bound: sockets at a time
    MaxIds,   \* bound: subscription ids in use at a time
    MaxSent,  \* bound: control messages under way
    MaxLosses \* bound: connections the server or the network ends

None == "none"

ASSUME InterfaceAssumption ==
    /\ {MaxLive, MaxIds, MaxSent, MaxLosses} \subseteq Nat
    /\ None \notin Channel \cup Key

VARIABLES
    \* --- the browser and the server ---
    socket,   \* each WebSocket: channel, state, control messages under way,
              \* ids registered by the server
    losses,
    \* --- WebSocketConnectionService ---
    service,  \* connection (0: null), scheduled, status, active, params
    timer,    \* the reconnectionTimeout is running
    stray,    \* reconnection timers still running whose handle was overwritten
    idle,     \* the inactivityTimeout is running
    renewing, \* renewals of the access token under way
    \* --- ChannelSelector ---
    selected,
    \* --- SubscriptionManager and components ---
    subs,     \* for each key the id (0: none) and the channel of lastUpdate
    wants,    \* the key a mounted component listens to
    shown,    \* the channel whose data it shows
    \* --- history ---
    crossed   \* a renewal has come back after the user selected a channel again

browser == <<socket, losses>>
timers  == <<timer, stray, idle>>
manager == <<subs, wants, shown>>
wvars   == <<browser, service, timers, renewing, selected, manager, crossed>>

Socket == 1..MaxLive
Id     == 1..MaxIds
Gone   == [state |-> "gone", channel |-> None, sent |-> <<>>, known |-> {}]
NoSub  == [id |-> 0, last |-> None]

WInit ==
    /\ socket = [s \in Socket |-> Gone] /\ losses = 0
    /\ service = [connection |-> 0, scheduled |-> None, status |-> "disconnected",
                  active |-> None, params |-> None]
    /\ timer = FALSE /\ stray = 0 /\ idle = FALSE /\ renewing = 0
    /\ selected = None
    /\ subs = [k \in Key |-> NoSub]
    /\ wants = [l \in Listener |-> None] /\ shown = [l \in Listener |-> None]
    /\ crossed = FALSE

Live == {s \in Socket : socket[s].state # "gone"}
Ids  == {subs[k].id : k \in Key} \ {0}

(***************************************************************************)
(* The connection service.                                                  *)
(***************************************************************************)
\* The status _connect leaves: a retry stays visible as one.
Status(v, manually) ==
    IF v.status = "reconnecting" /\ ~manually THEN "reconnecting" ELSE "connecting"

\* _connect, on a service v and sockets w: a new WebSocket replaces the one
\* that v holds.
Opens(v, w, channel, manually) ==
    \E s \in Socket :
        /\ w[s].state = "gone" /\ \A r \in Socket : w[r].state = "gone" => s <= r
        /\ socket' = [w EXCEPT ![s] = [Gone EXCEPT !.state = "connecting", !.channel = channel]]
        /\ service' = [v EXCEPT !.connection = s, !.status = Status(v, manually),
                                !.active = None, !.params = channel]

\* disconnect: the service, the sockets and the timer after it.
Disconnects == service.connection # 0 \/ service.status = "reconnecting"
Disconnected ==
    IF Disconnects THEN [service EXCEPT !.status = "disconnecting", !.active = None] ELSE service
Closing ==
    [s \in Socket |->
        IF s # service.connection THEN socket[s]
        ELSE [socket[s] EXCEPT !.state = CASE @ = "connecting" -> "aborted"
                                           [] @ = "open" -> "closing"
                                           [] OTHER -> @]]

\* connect, for a socket that is closing without a disconnect just before: it does
\* not stop a timer either.
OnlySchedules ==
    selected = None /\ service.connection # 0
        /\ socket[service.connection].state \in {"closing", "aborted"}

\* Mutation of Select: a pending retry is not stopped.
SelectKeepsTimer(c) ==
    /\ c # selected
    /\ selected' = c
    /\ IF c = None
       THEN service' = Disconnected /\ socket' = Closing
       ELSE IF service.connection # 0
       THEN service' = [Disconnected EXCEPT !.scheduled = c] /\ socket' = Closing
       ELSE Opens(service, socket, c, TRUE)
    /\ UNCHANGED <<losses, timers, renewing, manager, crossed>>

\* The effect of ChannelSelector: disconnect cleans up what the last channel
\* needed, and connect is called for the new one, which is scheduled when a
\* connection is still there.  Without a channel the selector is unmounted, or
\* its list has become empty.
Select(c) ==
    /\ c # selected
    /\ selected' = c
    /\ timer' = (timer /\ IF c = None THEN ~Disconnects ELSE OnlySchedules)
    /\ IF c = None
       THEN service' = Disconnected /\ socket' = Closing
       ELSE IF service.connection = 0
       THEN Opens(service, socket, c, TRUE)
       ELSE /\ socket' = Closing
            /\ service' = [IF OnlySchedules THEN service ELSE Disconnected EXCEPT !.scheduled = c]
    /\ UNCHANGED <<losses, stray, idle, renewing, manager, crossed>>

\* Mutation of Open: the subscriptions are not registered again.
OpenForgets(s) ==
    /\ socket[s].state = "connecting"
    /\ service' = [service EXCEPT !.status = "connected", !.active = "active"]
    /\ timer' = FALSE /\ idle' = TRUE
    /\ socket' = [socket EXCEPT ![s].state = "open"]
    /\ subs' = [k \in Key |-> [subs[k] EXCEPT !.last = None]]
    /\ UNCHANGED <<losses, stray, renewing, selected, wants, shown, crossed>>

\* The handshake succeeds: onOpen, and the subscription manager registers
\* every subscription again.  A message for a connection that is not open yet
\* throws out of the handler: the subscriptions after it keep their lastUpdate.
Open(s) ==
    /\ socket[s].state = "connecting"
    /\ service' = [service EXCEPT !.status = "connected", !.active = "active"]
    /\ timer' = FALSE /\ idle' = TRUE
    /\ LET opened == [socket EXCEPT ![s].state = "open"]
           c      == service.connection
           used   == {k \in Key : subs[k].id # 0}
       IN  IF c # 0 /\ opened[c].state = "connecting" /\ service.params # None /\ used # {}
           THEN /\ socket' = opened
                /\ \E k \in used : subs' = [subs EXCEPT ![k].last = None]
           ELSE /\ subs' = [k \in Key |-> [subs[k] EXCEPT !.last = None]]
                /\ IF c # 0 /\ opened[c].state = "open" /\ service.params # None
                   THEN \E order \in SetToSeqs({[action |-> "subscribe", id |-> i] : i \in Ids}) :
                            socket' = [opened EXCEPT ![c].sent = @ \o order]
                   ELSE socket' = opened
    /\ UNCHANGED <<losses, stray, renewing, selected, wants, shown, crossed>>

\* onClose without a scheduled connection: another try, or the end.
Ended(code) ==
    LET v == [service EXCEPT !.connection = 0, !.active = None]
    IN  IF code = "retry"
        THEN /\ service' = [v EXCEPT !.status = "reconnecting"]
             /\ timer' = TRUE /\ stray' = stray + (IF timer THEN 1 ELSE 0)
             /\ UNCHANGED renewing
        ELSE /\ service' = [v EXCEPT !.status = "disconnected", !.params = None]
             /\ renewing' = renewing + (IF code = "auth" THEN 1 ELSE 0)
             /\ UNCHANGED <<timer, stray>>

\* Mutation of Closed: the scheduled connection is not looked at.
ClosedForgets(s, code) ==
    /\ socket' = [socket EXCEPT ![s] = Gone] /\ Ended(code)
    /\ idle' = FALSE
    /\ UNCHANGED <<selected, manager, crossed>>

\* onClose: a scheduled connection comes first.  "retry" stands for a close
\* that is not clean and for 1001, 1005, 1006 and 1011, "auth" for 4001,
\* "refused" for the rest.
Closed(s, code) ==
    /\ IF service.scheduled # None
       THEN /\ Opens([service EXCEPT !.connection = 0, !.scheduled = None],
                     [socket EXCEPT ![s] = Gone], service.scheduled, FALSE)
            /\ timer' = FALSE
            /\ UNCHANGED <<stray, renewing>>
       ELSE socket' = [socket EXCEPT ![s] = Gone] /\ Ended(code)
    /\ idle' = FALSE
    /\ UNCHANGED <<selected, manager, crossed>>

\* A close the interface has asked for: close() gives no code, and the browser
\* reports 1005, or 1006 when the connection breaks first.
CloseDone(s) ==
    /\ socket[s].state \in {"closing", "aborted"}
    /\ Closed(s, "retry")
    /\ UNCHANGED losses

\* The handshake fails, the connection breaks, or the server ends it, even
\* while the interface is closing it.
Lose(s, code) ==
    /\ losses < MaxLosses /\ losses' = losses + 1
    /\ socket[s].state \in {"connecting", "open", "closing"}
    /\ code # "retry" => socket[s].state \in {"open", "closing"}
    /\ Closed(s, code)

\* A reconnection timer fires.  Without params _connect throws.
Retry ==
    /\ \/ timer /\ timer' = FALSE /\ UNCHANGED stray
       \/ stray > 0 /\ stray' = stray - 1 /\ UNCHANGED timer
    /\ IF service.params # None
       THEN Opens(service, socket, service.params, FALSE)
       ELSE UNCHANGED <<service, socket>>
    /\ UNCHANGED <<losses, idle, renewing, selected, manager, crossed>>

\* Mutation of Renewed: the connection is made without its parameters.
RenewedBlind(ok) ==
    /\ renewing > 0 /\ renewing' = renewing - 1
    /\ IF ok
       THEN Opens(service, socket, service.params, FALSE) /\ crossed' = TRUE
       ELSE UNCHANGED <<service, socket, crossed>>
    /\ UNCHANGED <<losses, timers, selected, manager>>

\* handleAuthError comes back.  The params were cleared before the call, so
\* _connect throws, unless the user has selected a channel meanwhile.
Renewed(ok) ==
    /\ renewing > 0 /\ renewing' = renewing - 1
    /\ IF ok /\ service.params # None
       THEN Opens(service, socket, service.params, FALSE) /\ crossed' = TRUE
       ELSE UNCHANGED <<service, socket, crossed>>
    /\ UNCHANGED <<losses, timers, selected, manager>>

\* The inactivity timer fires.  disconnect does not stop it.
Idle ==
    /\ idle /\ idle' = FALSE
    /\ service' = [service EXCEPT !.active = "inactive"]
    /\ UNCHANGED <<browser, timer, stray, renewing, selected, manager, crossed>>

(***************************************************************************)
(* The subscription manager and the server.                                 *)
(***************************************************************************)
\* The connection accepts a message, or drops it silently when it is closing.
CanSend == service.connection # 0 => socket[service.connection].state # "connecting"
Sends(message) ==
    LET c == service.connection
    IN  IF service.status = "connected" /\ service.params # None /\ c # 0
           /\ socket[c].state = "open"
        THEN Len(socket[c].sent) < MaxSent
             /\ socket' = [socket EXCEPT ![c].sent = Append(@, message)]
        ELSE UNCHANGED socket

\* A new random id: one that neither side refers to.
Fresh(i) ==
    /\ i \notin Ids
    /\ \A s \in Socket : i \notin socket[s].known /\ \A m \in ToSet(socket[s].sent) : m.id # i

\* A component mounts and subscribes.  It gets the last update at once, and is
\* told when the connection is not there.
Mount(l, k) ==
    /\ wants[l] = None
    /\ service.status = "connected" => CanSend
    /\ wants' = [wants EXCEPT ![l] = k]
    /\ shown' = [shown EXCEPT ![l] = IF service.status = "connected" THEN subs[k].last ELSE None]
    /\ IF subs[k].id = 0
       THEN \E i \in Id :
                /\ Fresh(i)
                /\ subs' = [subs EXCEPT ![k] = [id |-> i, last |-> None]]
                /\ Sends([action |-> "subscribe", id |-> i])
       ELSE UNCHANGED <<subs, socket>>
    /\ UNCHANGED <<losses, service, timers, renewing, selected, crossed>>

\* Mutation of Unmount: the server is not told.
UnmountSilent(l) ==
    /\ wants[l] # None
    /\ service.status = "connected" => CanSend
    /\ wants' = [wants EXCEPT ![l] = None] /\ shown' = [shown EXCEPT ![l] = None]
    /\ IF \A other \in Listener \ {l} : wants[other] # wants[l]
       THEN /\ subs' = [subs EXCEPT ![wants[l]] = NoSub]
            /\ UNCHANGED socket
       ELSE UNCHANGED <<subs, socket>>
    /\ UNCHANGED <<losses, service, timers, renewing, selected, crossed>>

\* A component unmounts; the last listener takes the subscription along.
Unmount(l) ==
    /\ wants[l] # None
    /\ service.status = "connected" => CanSend
    /\ wants' = [wants EXCEPT ![l] = None] /\ shown' = [shown EXCEPT ![l] = None]
    /\ IF \A other \in Listener \ {l} : wants[other] # wants[l]
       THEN /\ subs' = [subs EXCEPT ![wants[l]] = NoSub]
            /\ Sends([action |-> "unsubscribe", id |-> subs[wants[l]].id])
       ELSE UNCHANGED <<subs, socket>>
    /\ UNCHANGED <<losses, service, timers, renewing, selected, crossed>>

\* The server handles the next control message of a connection.
Serve(s) ==
    /\ socket[s].state = "open" /\ socket[s].sent # <<>>
    /\ LET m == Head(socket[s].sent)
       IN  socket' = [socket EXCEPT ![s].sent = Tail(@),
                                    ![s].known = IF m.action = "subscribe" THEN @ \cup {m.id}
                                                 ELSE @ \ {m.id}]
    /\ UNCHANGED <<losses, service, timers, renewing, selected, manager, crossed>>

\* An update for a registered id arrives, or a ping: onMessage.
Message(s, i) ==
    /\ socket[s].state = "open" /\ i \in socket[s].known \cup {0}
    /\ service.connection # 0
    /\ idle' = TRUE
    /\ LET keys == IF i = 0 THEN {} ELSE {k \in Key : subs[k].id = i}
           from == socket[s].channel
       IN  /\ subs' = [k \in Key |-> IF k \in keys THEN [subs[k] EXCEPT !.last = from] ELSE subs[k]]
           /\ shown' = [l \in Listener |-> IF wants[l] \in keys THEN from ELSE shown[l]]
    /\ UNCHANGED <<browser, service, timer, stray, renewing, selected, wants, crossed>>

WNext ==
    \/ \E c \in Channel \cup {None} : Select(c)
    \/ \E s \in Socket :
        \/ Open(s) \/ CloseDone(s) \/ Serve(s)
        \/ \E code \in {"retry", "auth", "refused"} : Lose(s, code)
        \/ \E i \in Id \cup {0} : Message(s, i)
    \/ Retry \/ Idle
    \/ \E ok \in BOOLEAN : Renewed(ok)
    \/ \E l \in Listener : Unmount(l) \/ \E k \in Key : Mount(l, k)

WSpec == WInit /\ [][WNext]_wvars

\* The browser ends what it has begun, timers fire, and the server serves
\* every connection and publishes every subscription again and again.
WFairness ==
    /\ \A s \in Socket :
        /\ WF_wvars(Open(s)) /\ WF_wvars(CloseDone(s)) /\ WF_wvars(Serve(s))
        /\ \A i \in Id : WF_wvars(Message(s, i))
    /\ WF_wvars(Retry)

WFairSpec == WSpec /\ WFairness

-----------------------------------------------------------------------------
\* Types; a socket is never opened without a channel.
WTypeOK ==
    /\ \A s \in Live : socket[s].channel \in Channel
    /\ socket \in [Socket -> [state : {"connecting", "open", "closing", "aborted", "gone"},
                              channel : Channel \cup {None}, known : SUBSET Id,
                              sent : Seq([action : {"subscribe", "unsubscribe"}, id : Id])]]
    /\ service.connection \in Socket \cup {0}
    /\ {service.scheduled, service.params, selected} \subseteq Channel \cup {None}
    /\ service.status \in {"disconnected", "connecting", "connected", "disconnecting",
                           "reconnecting"}
    /\ service.active \in {None, "active", "inactive"}
    /\ timer \in BOOLEAN /\ stray \in Nat /\ idle \in BOOLEAN /\ renewing \in Nat
    /\ subs \in [Key -> [id : Id \cup {0}, last : Channel \cup {None}]]
    /\ wants \in [Listener -> Key \cup {None}]
    /\ shown \in [Listener -> Channel \cup {None}]

\* The service holds one connection at a time (websocket.ts:59): whatever the
\* user, the timers and the server do, no second one is opened next to it,
\* unless a renewed token reconnects what the user has connected already.
OneConnection ==
    ~crossed => /\ Live \subseteq {service.connection}
                /\ timer => service.connection = 0
                /\ stray = 0

\* What the server has registered, once the messages under way have arrived:
\* the last message on an id decides, and what it knows where there is none.
LastOnId(sent, n) == \A m \in DOMAIN sent : m > n => sent[m].id # sent[n].id
Registered(known, sent) ==
    {i \in known : \A n \in DOMAIN sent : sent[n].id # i}
    \cup {sent[n].id : n \in {m \in DOMAIN sent : sent[m].action = "subscribe" /\ LastOnId(sent, m)}}

\* The two sides agree on the subscriptions: once the messages under way have
\* arrived, the server serves an open connection what components listen to,
\* and nothing else, although mounting, closing and reconnecting interleave.
SubscriptionsAgree ==
    ~crossed /\ service.status = "connected"
        => LET s == socket[service.connection] IN Registered(s.known, s.sent) = Ids

\* A live connection is to the selected channel, and no lastUpdate of another
\* channel survives it: a component that mounts is never given foreign data.
ConnectedToSelected ==
    ~crossed /\ service.status = "connected" /\ selected # None
        => /\ service.params = selected
           /\ socket[service.connection].channel = selected
           /\ \A k \in Key : subs[k].last \in {None, selected}

\* A selected channel comes to be shown by every component that stays, however
\* often the connection was lost, unless the server has refused it.
SelectedIsShown ==
    \A c \in Channel, l \in Listener :
        <>[](selected = c /\ wants[l] # None)
            => <>[](shown[l] = c \/ service.status = "disconnected" \/ crossed)
=============================================================================
