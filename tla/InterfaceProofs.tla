----------------------------- MODULE InterfaceProofs -----------------------------
(***************************************************************************)
(* Proofs about the connection of one browser tab (Interface): its types,   *)
(* one connection at a time, a connection to the selected channel, and the  *)
(* agreement of the two sides on the subscriptions.                         *)
(***************************************************************************)
EXTENDS Interface, FiniteSetTheorems, SequenceTheorems, TLAPS

LEMMA ConstantTypes ==
    /\ MaxLive \in Nat /\ MaxIds \in Nat /\ MaxSent \in Nat /\ MaxLosses \in Nat
    /\ None \notin Channel /\ None \notin Key
BY InterfaceAssumption

Control     == [action : {"subscribe", "unsubscribe"}, id : Id]
Connections == [state : {"connecting", "open", "closing", "aborted", "gone"},
                channel : Channel \cup {None}, known : SUBSET Id, sent : Seq(Control)]
Services    == [connection : Socket \cup {0}, scheduled : Channel \cup {None},
                status : {"disconnected", "connecting", "connected", "disconnecting",
                          "reconnecting"},
                active : {None, "active", "inactive"}, params : Channel \cup {None}]
Entries     == [id : Id \cup {0}, last : Channel \cup {None}]

(***************************************************************************)
(* What is registered once the messages under way have arrived.             *)
(***************************************************************************)
LEMMA RegisteredIff ==
    ASSUME NEW known, NEW sent, NEW i
    PROVE  i \in Registered(known, sent) <=>
             \/ i \in known /\ \A n \in DOMAIN sent : sent[n].id # i
             \/ \E n \in DOMAIN sent :
                   sent[n].id = i /\ sent[n].action = "subscribe" /\ LastOnId(sent, n)
BY Zenon DEF Registered

\* The server has handled a message.
Handled(known, m) == IF m.action = "subscribe" THEN known \cup {m.id} ELSE known \ {m.id}

LEMMA RegisteredAppend ==
    ASSUME NEW known, NEW sent \in Seq(Control), NEW m \in Control
    PROVE  Registered(known, Append(sent, m)) = Handled(Registered(known, sent), m)
<1> DEFINE more == Append(sent, m)
           last == Len(sent) + 1
<1>1. /\ DOMAIN sent = 1..Len(sent) /\ Len(sent) \in Nat
      /\ DOMAIN more = 1..last /\ more[last] = m
      /\ \A n \in 1..Len(sent) : more[n] = sent[n]
  OBVIOUS
<1> HIDE DEF more
<1>2. SUFFICES ASSUME NEW i
               PROVE  i \in Registered(known, more) <=> i \in Handled(Registered(known, sent), m)
  BY DEF more
<1>3. i \in Handled(Registered(known, sent), m)
        <=> IF m.id = i THEN m.action = "subscribe" ELSE i \in Registered(known, sent)
  BY DEF Handled
<1>4. CASE m.id = i
  <2>1. LastOnId(more, last)  BY <1>1 DEF LastOnId
  <2>2. \A n \in DOMAIN more : more[n].id = i /\ LastOnId(more, n) => n = last
    BY <1>1, <1>4 DEF LastOnId
  <2>3. QED  BY <1>1, <1>3, <1>4, <2>1, <2>2, RegisteredIff
<1>5. CASE m.id # i
  <2>1. \A n \in DOMAIN sent : sent[n].id = i => (LastOnId(more, n) <=> LastOnId(sent, n))
    BY <1>1, <1>5 DEF LastOnId
  <2>2. (\A n \in DOMAIN more : more[n].id # i) <=> (\A n \in DOMAIN sent : sent[n].id # i)
    BY <1>1, <1>5
  <2>3. (\E n \in DOMAIN more :
            more[n].id = i /\ more[n].action = "subscribe" /\ LastOnId(more, n))
        <=> (\E n \in DOMAIN sent :
                sent[n].id = i /\ sent[n].action = "subscribe" /\ LastOnId(sent, n))
    BY <1>1, <1>5, <2>1
  <2>4. QED  BY <1>3, <1>5, <2>2, <2>3, RegisteredIff
<1>6. QED  BY <1>4, <1>5

LEMMA RegisteredTail ==
    ASSUME NEW known, NEW sent \in Seq(Control), sent # <<>>
    PROVE  Registered(Handled(known, Head(sent)), Tail(sent)) = Registered(known, sent)
<1> DEFINE rest == Tail(sent)
           m    == Head(sent)
<1>1. /\ DOMAIN sent = 1..Len(sent) /\ Len(sent) \in Nat \ {0}
      /\ DOMAIN rest = 1..(Len(sent) - 1) /\ sent[1] = m
      /\ \A n \in 1..(Len(sent) - 1) : rest[n] = sent[n + 1]
  OBVIOUS
<1> HIDE DEF rest, m
<1>2. SUFFICES ASSUME NEW i
               PROVE  i \in Registered(Handled(known, m), rest) <=> i \in Registered(known, sent)
  BY DEF rest, m
<1>3. \A n \in DOMAIN rest : LastOnId(rest, n) <=> LastOnId(sent, n + 1)
  <2>1. SUFFICES ASSUME NEW n \in 1..(Len(sent) - 1)
                 PROVE  LastOnId(rest, n) <=> LastOnId(sent, n + 1)
    BY <1>1
  <2>2. ASSUME LastOnId(rest, n), NEW j \in DOMAIN sent, j > n + 1 PROVE sent[j].id # sent[n + 1].id
    <3>1. j - 1 \in DOMAIN rest /\ j - 1 > n /\ rest[j - 1] = sent[j] /\ rest[n] = sent[n + 1]
      BY <1>1, <2>2
    <3>2. QED  BY <2>2, <3>1 DEF LastOnId
  <2>3. ASSUME LastOnId(sent, n + 1), NEW j \in DOMAIN rest, j > n PROVE rest[j].id # rest[n].id
    <3>1. j + 1 \in DOMAIN sent /\ j + 1 > n + 1 /\ rest[j] = sent[j + 1] /\ rest[n] = sent[n + 1]
      BY <1>1, <2>3
    <3>2. QED  BY <2>3, <3>1 DEF LastOnId
  <2>4. QED  BY <2>2, <2>3 DEF LastOnId
<1>4. /\ \A n \in DOMAIN sent : n = 1 \/ \E j \in DOMAIN rest : n = j + 1
      /\ \A j \in DOMAIN rest : j + 1 \in DOMAIN sent /\ sent[j + 1] = rest[j]
      /\ 1 \in DOMAIN sent
  <2>1. \A n \in 1..Len(sent) : n # 1 => n - 1 \in 1..(Len(sent) - 1) /\ n = (n - 1) + 1
    BY <1>1
  <2>2. \A j \in 1..(Len(sent) - 1) : j + 1 \in 1..Len(sent) /\ sent[j + 1] = rest[j]
    BY <1>1
  <2>3. 1 \in 1..Len(sent)  BY <1>1
  <2>4. ASSUME NEW n \in DOMAIN sent, n # 1 PROVE \E j \in DOMAIN rest : n = j + 1
    <3>1. n - 1 \in DOMAIN rest /\ n = (n - 1) + 1  BY <1>1, <2>1, <2>4
    <3>2. QED  BY <3>1
  <2>5. QED  BY <1>1, <2>2, <2>3, <2>4
<1>5. (\E n \in DOMAIN sent : sent[n].id = i) <=> m.id = i \/ \E n \in DOMAIN rest : rest[n].id = i
  <2>1. ASSUME NEW n \in DOMAIN sent, sent[n].id = i
        PROVE  m.id = i \/ \E j \in DOMAIN rest : rest[j].id = i
    BY <1>1, <1>4, <2>1
  <2>2. QED  BY <1>1, <1>4, <2>1
<1>6. (\E n \in DOMAIN sent : sent[n].id = i /\ sent[n].action = "subscribe" /\ LastOnId(sent, n))
      <=> \/ m.id = i /\ m.action = "subscribe" /\ LastOnId(sent, 1)
          \/ \E n \in DOMAIN rest :
                rest[n].id = i /\ rest[n].action = "subscribe" /\ LastOnId(rest, n)
  <2>1. ASSUME NEW n \in DOMAIN sent,
               sent[n].id = i, sent[n].action = "subscribe", LastOnId(sent, n)
        PROVE  \/ m.id = i /\ m.action = "subscribe" /\ LastOnId(sent, 1)
               \/ \E j \in DOMAIN rest :
                     rest[j].id = i /\ rest[j].action = "subscribe" /\ LastOnId(rest, j)
    <3>1. CASE n = 1  BY <1>1, <2>1, <3>1
    <3>2. CASE n # 1
      <4>1. PICK j \in DOMAIN rest : n = j + 1  BY <1>4, <3>2
      <4>2. QED  BY <1>3, <1>4, <2>1, <4>1
    <3>3. QED  BY <3>1, <3>2
  <2>2. ASSUME NEW j \in DOMAIN rest,
               rest[j].id = i, rest[j].action = "subscribe", LastOnId(rest, j)
        PROVE  \E n \in DOMAIN sent :
                  sent[n].id = i /\ sent[n].action = "subscribe" /\ LastOnId(sent, n)
    BY <1>3, <1>4, <2>2
  <2>3. QED  BY <1>1, <1>4, <2>1, <2>2
<1>7. m.id = i => (LastOnId(sent, 1) <=> \A n \in DOMAIN rest : rest[n].id # i)
  <2> SUFFICES ASSUME m.id = i
               PROVE  LastOnId(sent, 1) <=> \A n \in DOMAIN rest : rest[n].id # i
    OBVIOUS
  <2>1. ASSUME LastOnId(sent, 1), NEW n \in DOMAIN rest PROVE rest[n].id # i
    <3>1. n + 1 \in DOMAIN sent /\ n + 1 > 1 /\ sent[n + 1] = rest[n]  BY <1>1, <1>4
    <3>2. QED  BY <1>1, <2>1, <3>1 DEF LastOnId
  <2>2. ASSUME \A n \in DOMAIN rest : rest[n].id # i, NEW n \in DOMAIN sent, n > 1
        PROVE  sent[n].id # i
    <3>1. PICK j \in DOMAIN rest : n = j + 1  BY <1>4, <2>2
    <3>2. QED  BY <1>4, <2>2, <3>1
  <2>3. QED  BY <1>1, <2>1, <2>2 DEF LastOnId
<1>8. i \in Handled(known, m) <=> IF m.id = i THEN m.action = "subscribe" ELSE i \in known
  BY DEF Handled
<1>9. QED  BY <1>5, <1>6, <1>7, <1>8, RegisteredIff

LEMMA RegisteredNone ==
    ASSUME NEW known PROVE Registered(known, <<>>) = known
<1> DEFINE none == <<>>
<1>1. DOMAIN none = {}  OBVIOUS
<1> HIDE DEF none
<1>2. \A i : i \in Registered(known, none) <=> i \in known  BY <1>1, RegisteredIff
<1>3. Registered(known, none) = known  BY <1>2
<1>4. QED  BY <1>3 DEF none

\* Subscribing to every id again, in any order.
LEMMA RegisteredAgain ==
    ASSUME NEW I \in SUBSET Id,
           NEW order \in SetToSeqs({[action |-> "subscribe", id |-> i] : i \in I})
    PROVE  order \in Seq(Control) /\ Registered({}, order) = I
<1> DEFINE all == {[action |-> "subscribe", id |-> i] : i \in I}
<1>1. IsFiniteSet(I)
  <2>1. IsFiniteSet(1..MaxIds)
    <3>1. 1 \in Int /\ MaxIds \in Int  BY ConstantTypes
    <3>2. QED  BY <3>1, FS_Interval
  <2>2. QED  BY <2>1, FS_Subset DEF Id
<1>2. IsFiniteSet(all)
  <2> DEFINE again == [i \in I |-> [action |-> "subscribe", id |-> i]]
  <2>1. again \in Surjection(I, all)  BY DEF Surjection
  <2>2. QED  BY <1>1, <2>1, FS_Surjection
<1>3. \A m \in all : m.action = "subscribe" /\ m.id \in I /\ m \in Control
  <2>1. SUFFICES ASSUME NEW m \in all
                 PROVE  m.action = "subscribe" /\ m.id \in I /\ m \in Control
    OBVIOUS
  <2>2. PICK i \in I : m = [action |-> "subscribe", id |-> i]  OBVIOUS
  <2>3. i \in Id  OBVIOUS
  <2>4. QED  BY <2>2, <2>3 DEF Control
<1>4. ASSUME NEW i \in I PROVE \E m \in all : m.id = i
  <2>1. [action |-> "subscribe", id |-> i] \in all  OBVIOUS
  <2> HIDE DEF all
  <2>2. QED  BY <2>1
<1>4a. order \in SetToSeqs(all)  OBVIOUS
<1> HIDE DEF all
<1>5. /\ Cardinality(all) \in Nat
      /\ order \in [1..Cardinality(all) -> all]
      /\ \A n, j \in 1..Cardinality(all) : n # j => order[n] # order[j]
  BY <1>2, <1>4a, FS_CardinalityType DEF SetToSeqs
<1>6. \A m \in all : \E n \in 1..Cardinality(all) : order[n] = m
  <2>1. order \in Injection(1..Cardinality(all), all)  BY <1>5 DEF Injection, IsInjective
  <2>2. Cardinality(1..Cardinality(all)) = Cardinality(all)  BY <1>5, FS_Interval
  <2>3. order \in Surjection(1..Cardinality(all), all)  BY <1>2, <2>1, <2>2, FS_Injection
  <2>4. QED  BY <2>3 DEF Surjection
<1>7. order \in Seq(Control) /\ DOMAIN order = 1..Cardinality(all)
  BY <1>3, <1>5
<1>8. \A n \in DOMAIN order : order[n].action = "subscribe" /\ order[n].id \in I
  BY <1>3, <1>5, <1>7
<1>9. ASSUME NEW i \in I PROVE i \in Registered({}, order)
  <2>1. PICK m \in all : m.id = i  BY <1>4
  <2>2. PICK n \in DOMAIN order : order[n] = m  BY <1>6, <1>7
  <2>3. \A j \in DOMAIN order : order[j].id = i => order[j] = m
    BY <1>5, <1>7, <2>1 DEF all
  <2>4. \A j \in DOMAIN order : j > n => order[j].id # i
    BY <1>5, <1>7, <2>2, <2>3
  <2>5. LastOnId(order, n)  BY <2>1, <2>2, <2>4 DEF LastOnId
  <2>6. QED  BY <1>8, <2>1, <2>2, <2>5, RegisteredIff
<1>10. ASSUME NEW i \in Registered({}, order) PROVE i \in I
  BY <1>8, RegisteredIff
<1>11. QED  BY <1>7, <1>9, <1>10

(***************************************************************************)
(* What the steps of the service do to its connections.                     *)
(***************************************************************************)
SocketTypes ==
    /\ socket \in [Socket -> Connections]
    /\ \A s \in Socket : socket[s].state # "gone" => socket[s].channel \in Channel

ServiceTypes == service \in Services

ManagerTypes ==
    /\ subs \in [Key -> Entries]
    /\ wants \in [Listener -> Key \cup {None}]
    /\ shown \in [Listener -> Channel \cup {None}]

OtherTypes ==
    /\ selected \in Channel \cup {None}
    /\ timer \in BOOLEAN /\ stray \in Nat /\ idle \in BOOLEAN /\ renewing \in Nat

AllTypes == SocketTypes /\ ServiceTypes /\ ManagerTypes /\ OtherTypes

LEMMA TypesGive == AllTypes => WTypeOK
BY DEF AllTypes, SocketTypes, ServiceTypes, ManagerTypes, OtherTypes, WTypeOK, Live,
       Connections, Services, Entries, Control

LEMMA GoneIs ==
    /\ Gone \in Connections /\ Gone.state = "gone"
    /\ Gone.known = {} /\ Gone.sent = <<>>
<1> DEFINE none == <<>>
<1>1. none \in Seq(Control)  OBVIOUS
<1>2. Gone = [state |-> "gone", channel |-> None, sent |-> none, known |-> {}]  BY DEF Gone
<1> HIDE DEF none
<1>3. Gone \in Connections /\ Gone.state = "gone" /\ Gone.known = {} /\ Gone.sent = none
  BY <1>1, <1>2 DEF Connections
<1>4. QED  BY <1>3 DEF none

LEMMA ConnectionIs ==
    ASSUME NEW k \in Connections
    PROVE  /\ k.state \in {"connecting", "open", "closing", "aborted", "gone"}
           /\ k.channel \in Channel \cup {None} /\ k.known \in SUBSET Id /\ k.sent \in Seq(Control)
BY DEF Connections

LEMMA ServiceIs ==
    ASSUME NEW v \in Services
    PROVE  /\ v.connection \in Socket \cup {0}
           /\ v.scheduled \in Channel \cup {None} /\ v.params \in Channel \cup {None}
           /\ v.status \in {"disconnected", "connecting", "connected", "disconnecting",
                            "reconnecting"}
           /\ v.active \in {None, "active", "inactive"}
BY DEF Services

\* One WebSocket more, which the service holds.
Opened(s, v, w, c) ==
    /\ w[s].state = "gone"
    /\ socket' \in [Socket -> Connections] /\ service' \in Services
    /\ socket'[s].state = "connecting" /\ socket'[s].channel = c
    /\ socket'[s].known = Gone.known /\ socket'[s].sent = Gone.sent
    /\ \A r \in Socket \ {s} : socket'[r] = w[r]
    /\ service'.connection = s /\ service'.scheduled = v.scheduled /\ service'.params = c
    /\ service'.status \in {"connecting", "reconnecting"}

LEMMA OpensGives ==
    ASSUME NEW v \in Services, NEW w \in [Socket -> Connections], NEW c \in Channel,
           NEW manually \in BOOLEAN, Opens(v, w, c, manually)
    PROVE  \E s \in Socket : Opened(s, v, w, c)
<1> DEFINE new == [Gone EXCEPT !.state = "connecting", !.channel = c]
<1>1. PICK s \in Socket :
        /\ w[s].state = "gone"
        /\ socket' = [w EXCEPT ![s] = new]
        /\ service' = [v EXCEPT !.connection = s, !.status = Status(v, manually),
                                !.active = None, !.params = c]
  BY DEF Opens
<1>2. /\ new \in Connections /\ new.state = "connecting" /\ new.channel = c
      /\ new.known = Gone.known /\ new.sent = Gone.sent
  BY GoneIs DEF Connections
<1> HIDE DEF new
<1>3. socket' \in [Socket -> Connections] /\ socket'[s] = new
  BY <1>1, <1>2
<1>4. \A r \in Socket \ {s} : socket'[r] = w[r]  BY <1>1
<1>5. Status(v, manually) \in {"connecting", "reconnecting"}  BY DEF Status
<1>6. /\ service' \in Services /\ service'.connection = s /\ service'.scheduled = v.scheduled
      /\ service'.params = c /\ service'.status = Status(v, manually)
  BY <1>1, <1>5 DEF Services
<1>7. Opened(s, v, w, c)  BY <1>1, <1>2, <1>3, <1>4, <1>5, <1>6 DEF Opened
<1>8. QED  BY <1>7

\* Closing changes the state of the connection the service holds, and no more.
LEMMA ClosingIs ==
    ASSUME SocketTypes, ServiceTypes
    PROVE  /\ Closing \in [Socket -> Connections]
           /\ \A s \in Socket :
                 /\ Closing[s].channel = socket[s].channel /\ Closing[s].known = socket[s].known
                 /\ Closing[s].sent = socket[s].sent
                 /\ s # service.connection => Closing[s] = socket[s]
                 /\ s = service.connection =>
                      Closing[s].state = IF socket[s].state = "connecting" THEN "aborted"
                                         ELSE IF socket[s].state = "open" THEN "closing"
                                         ELSE socket[s].state
<1>1. ASSUME NEW s \in Socket
      PROVE  /\ Closing[s] \in Connections
             /\ Closing[s].channel = socket[s].channel /\ Closing[s].known = socket[s].known
             /\ Closing[s].sent = socket[s].sent
             /\ s # service.connection => Closing[s] = socket[s]
             /\ s = service.connection =>
                  Closing[s].state = IF socket[s].state = "connecting" THEN "aborted"
                                     ELSE IF socket[s].state = "open" THEN "closing"
                                     ELSE socket[s].state
  <2>1. socket[s] \in Connections  BY DEF SocketTypes
  <2>2. CASE s # service.connection  BY <2>1, <2>2 DEF Closing
  <2>3. CASE s = service.connection
    <3> DEFINE state == IF socket[s].state = "connecting" THEN "aborted"
                        ELSE IF socket[s].state = "open" THEN "closing"
                        ELSE socket[s].state
    <3>1. Closing[s] = [socket[s] EXCEPT !.state = state]  BY <2>3 DEF Closing
    <3>2. state \in {"connecting", "open", "closing", "aborted", "gone"}
      BY <2>1, ConnectionIs
    <3> HIDE DEF state
    <3>3. /\ Closing[s] \in Connections /\ Closing[s].state = state
          /\ Closing[s].channel = socket[s].channel /\ Closing[s].known = socket[s].known
          /\ Closing[s].sent = socket[s].sent
      BY <2>1, <3>1, <3>2 DEF Connections
    <3>4. QED  BY <2>3, <3>3 DEF state
  <2>4. QED  BY <2>2, <2>3
<1>2. Closing = [s \in Socket |-> Closing[s]]  BY DEF Closing
<1>3. Closing \in [Socket -> Connections]  BY <1>1, <1>2
<1>4. QED  BY <1>1, <1>3

LEMMA DisconnectedIs ==
    ASSUME ServiceTypes
    PROVE  /\ Disconnected \in Services
           /\ Disconnected.connection = service.connection
           /\ Disconnected.params = service.params
           /\ Disconnected.scheduled = service.scheduled
           /\ IF Disconnects THEN Disconnected.status = "disconnecting" ELSE Disconnected = service
BY DEF ServiceTypes, Services, Disconnected

\* A message goes to the open connection of the service, or nowhere.
LEMMA SendsGives ==
    ASSUME NEW m \in Control, Sends(m), SocketTypes, ServiceTypes
    PROVE  LET c == service.connection
               goes == /\ service.status = "connected" /\ service.params # None /\ c # 0
                       /\ socket[c].state = "open"
           IN  /\ socket' \in [Socket -> Connections]
               /\ \A s \in Socket : /\ socket'[s].state = socket[s].state
                                    /\ socket'[s].channel = socket[s].channel
                                    /\ socket'[s].known = socket[s].known
                                    /\ socket[s].state # "open" => socket'[s] = socket[s]
               /\ goes => socket'[c].sent = Append(socket[c].sent, m)
<1> DEFINE c == service.connection
           goes == /\ service.status = "connected" /\ service.params # None /\ c # 0
                   /\ socket[c].state = "open"
           more == Append(socket[c].sent, m)
<1>1. CASE goes
  <2>1. c \in Socket /\ socket[c] \in Connections
    BY <1>1, ServiceIs DEF ServiceTypes, SocketTypes
  <2>2. socket' = [socket EXCEPT ![c].sent = more]  BY <1>1 DEF Sends
  <2>3. more \in Seq(Control)  BY <2>1, ConnectionIs
  <2> HIDE DEF more
  <2>4. socket' = [socket EXCEPT ![c] = [socket[c] EXCEPT !.sent = more]]
    BY <2>1, <2>2 DEF SocketTypes
  <2>5. /\ [socket[c] EXCEPT !.sent = more] \in Connections
        /\ [socket[c] EXCEPT !.sent = more].state = socket[c].state
        /\ [socket[c] EXCEPT !.sent = more].channel = socket[c].channel
        /\ [socket[c] EXCEPT !.sent = more].known = socket[c].known
        /\ [socket[c] EXCEPT !.sent = more].sent = more
    BY <2>1, <2>3 DEF Connections
  <2>6. \A s \in Socket : socket'[s] = IF s = c THEN [socket[c] EXCEPT !.sent = more] ELSE socket[s]
    BY <2>1, <2>4 DEF SocketTypes
  <2>7. socket' \in [Socket -> Connections]
    BY <2>4, <2>5 DEF SocketTypes
  <2>8. QED  BY <1>1, <2>1, <2>5, <2>6, <2>7 DEF more
<1>2. CASE ~goes
  <2>1. socket' = socket  BY <1>2 DEF Sends
  <2>2. QED  BY <1>2, <2>1 DEF SocketTypes
<1>3. QED  BY <1>1, <1>2

\* A server registers only the ids it is told: those of the messages.
Again == {[action |-> "subscribe", id |-> i] : i \in Ids}

LEMMA AgainIs ==
    ASSUME ManagerTypes, NEW order \in SetToSeqs(Again)
    PROVE  order \in Seq(Control) /\ Registered({}, order) = Ids
<1>1. Ids \in SUBSET Id  BY DEF ManagerTypes, Entries, Ids
<1>2. QED  BY <1>1, RegisteredAgain DEF Again

\* The connection s is open, and gets every subscription if it is the one of
\* the service.
LEMMA OpenGives ==
    ASSUME NEW s \in Socket, Open(s), SocketTypes, ServiceTypes, ManagerTypes
    PROVE  /\ socket' \in [Socket -> Connections]
           /\ socket[s].state = "connecting" /\ socket'[s].state = "open"
           /\ \A r \in Socket :
                 /\ socket'[r].channel = socket[r].channel /\ socket'[r].known = socket[r].known
                 /\ r # s => socket'[r].state = socket[r].state
                 /\ socket'[r].state # "open" => socket'[r] = socket[r]
           /\ subs' \in [Key -> Entries]
           /\ \A k \in Key : subs'[k].id = subs[k].id
           /\ service.connection = s /\ service.params # None
                => /\ \A k \in Key : subs'[k].last = None
                   /\ \E order \in SetToSeqs(Again) : socket'[s].sent = socket[s].sent \o order
<1> DEFINE opened == [socket EXCEPT ![s].state = "open"]
           c      == service.connection
           used   == {k \in Key : subs[k].id # 0}
           fails  == c # 0 /\ opened[c].state = "connecting" /\ service.params # None /\ used # {}
           sends  == c # 0 /\ opened[c].state = "open" /\ service.params # None
           forget == [k \in Key |-> [subs[k] EXCEPT !.last = None]]
<1>1. /\ socket[s].state = "connecting"
      /\ IF fails
         THEN /\ socket' = opened
              /\ \E k \in used : subs' = [subs EXCEPT ![k].last = None]
         ELSE /\ subs' = forget
              /\ IF sends
                 THEN \E order \in SetToSeqs(Again) : socket' = [opened EXCEPT ![c].sent = @ \o order]
                 ELSE socket' = opened
  BY DEF Open, Again
<1>2. /\ opened \in [Socket -> Connections]
      /\ opened[s].state = "open"
      /\ \A r \in Socket : /\ opened[r].channel = socket[r].channel
                           /\ opened[r].known = socket[r].known /\ opened[r].sent = socket[r].sent
                           /\ r # s => opened[r] = socket[r]
  <2> DEFINE new == [socket[s] EXCEPT !.state = "open"]
  <2>1. socket[s] \in Connections  BY DEF SocketTypes
  <2>2. /\ new \in Connections /\ new.state = "open" /\ new.channel = socket[s].channel
        /\ new.known = socket[s].known /\ new.sent = socket[s].sent
    BY <2>1 DEF Connections
  <2>3. opened = [socket EXCEPT ![s] = new]  BY DEF SocketTypes
  <2> HIDE DEF new, opened
  <2>4. QED  BY <2>2, <2>3 DEF SocketTypes
<1> HIDE DEF opened
<1>3. /\ subs' \in [Key -> Entries] /\ \A k \in Key : subs'[k].id = subs[k].id
      /\ ~fails => \A k \in Key : subs'[k].last = None
  <2>1. \A k \in Key : /\ [subs[k] EXCEPT !.last = None] \in Entries
                       /\ [subs[k] EXCEPT !.last = None].id = subs[k].id
                       /\ [subs[k] EXCEPT !.last = None].last = None
    BY DEF ManagerTypes, Entries
  <2>2. CASE ~fails
    <3>1. subs' = forget  BY <1>1, <2>2
    <3> HIDE DEF fails
    <3>2. QED  BY <2>1, <3>1
  <2>3. CASE fails
    <3>1. PICK k \in used : subs' = [subs EXCEPT ![k].last = None]  BY <1>1, <2>3
    <3>2. subs' = [subs EXCEPT ![k] = [subs[k] EXCEPT !.last = None]]
      BY <3>1 DEF ManagerTypes
    <3> HIDE DEF fails
    <3>3. QED  BY <2>1, <2>3, <3>2 DEF ManagerTypes
  <2>4. QED  BY <2>2, <2>3
<1>4. CASE ~fails /\ sends
  <2>1. PICK order \in SetToSeqs(Again) : socket' = [opened EXCEPT ![c].sent = @ \o order]
    BY <1>1, <1>4
  <2>2. c \in Socket /\ opened[c] \in Connections /\ opened[c].state = "open"
    BY <1>2, <1>4, ServiceIs DEF ServiceTypes
  <2> DEFINE more == opened[c].sent \o order
             new  == [opened[c] EXCEPT !.sent = more]
  <2>3. more \in Seq(Control)  BY <2>2, AgainIs, ConnectionIs
  <2>4. socket' = [opened EXCEPT ![c] = new]  BY <1>2, <2>1, <2>2
  <2> HIDE DEF more
  <2>5. /\ new \in Connections /\ new.state = opened[c].state /\ new.channel = opened[c].channel
        /\ new.known = opened[c].known /\ new.sent = more
    BY <2>2, <2>3 DEF Connections
  <2> HIDE DEF new
  <2>6. socket' \in [Socket -> Connections] /\ socket'[c] = new
    BY <1>2, <2>2, <2>4, <2>5
  <2>7. \A r \in Socket : r # c => socket'[r] = opened[r]  BY <1>2, <2>4
  <2>8. c = s => socket'[s].sent = socket[s].sent \o order  BY <1>2, <2>5, <2>6 DEF more
  <2>9. \A r \in Socket : socket'[r].state = opened[r].state /\ socket'[r].channel = opened[r].channel
                          /\ socket'[r].known = opened[r].known
                          /\ (opened[r].state # "open" => socket'[r] = opened[r])
    BY <2>2, <2>5, <2>6, <2>7
  <2>10. \A r \in Socket :
            /\ socket'[r].channel = socket[r].channel /\ socket'[r].known = socket[r].known
            /\ r # s => socket'[r].state = socket[r].state
            /\ socket'[r].state # "open" => socket'[r] = socket[r]
    BY <1>2, <2>9
  <2>11. socket'[s].state = "open"  BY <1>2, <2>9
  <2>12. c = s => \E q \in SetToSeqs(Again) : socket'[s].sent = socket[s].sent \o q
    BY <2>8
  <2> HIDE DEF new, more, sends, fails, c
  <2>13. \A k \in Key : subs'[k].last = None  BY <1>3, <1>4
  <2>14. QED  BY <1>1, <1>3, <2>6, <2>10, <2>11, <2>12, <2>13 DEF c
<1>5. CASE ~(~fails /\ sends)
  <2>1. socket' = opened  BY <1>1, <1>5
  <2>2. ~(c = s /\ service.params # None)
    <3>1. s # 0  BY ConstantTypes DEF Socket
    <3>2. QED  BY <1>2, <1>5, <3>1
  <2>3. QED  BY <1>1, <1>2, <1>3, <2>1, <2>2
<1>6. QED  BY <1>4, <1>5

LEMMA ServeGives ==
    ASSUME NEW s \in Socket, Serve(s), SocketTypes
    PROVE  /\ socket' \in [Socket -> Connections]
           /\ socket[s].state = "open" /\ socket[s].sent # <<>>
           /\ \A r \in Socket : /\ socket'[r].channel = socket[r].channel
                                /\ socket'[r].state = socket[r].state
                                /\ r # s => socket'[r] = socket[r]
           /\ socket'[s].sent = Tail(socket[s].sent)
           /\ socket'[s].known = Handled(socket[s].known, Head(socket[s].sent))
<1> DEFINE m     == Head(socket[s].sent)
           rest  == Tail(socket[s].sent)
           known == Handled(socket[s].known, m)
           new   == [socket[s] EXCEPT !.sent = rest, !.known = known]
<1>1. /\ socket[s].state = "open" /\ socket[s].sent # <<>>
      /\ socket' = [socket EXCEPT ![s].sent = rest, ![s].known = known]
  BY DEF Serve, Handled, SocketTypes
<1>2. /\ socket[s] \in Connections /\ m \in Control /\ rest \in Seq(Control)
      /\ socket[s].known \in SUBSET Id
  <2>1. socket[s] \in Connections  BY DEF SocketTypes
  <2>2. socket[s].sent \in Seq(Control) /\ socket[s].known \in SUBSET Id  BY <2>1, ConnectionIs
  <2>3. QED  BY <1>1, <2>1, <2>2
<1>3. socket' = [socket EXCEPT ![s] = new]  BY <1>1 DEF SocketTypes
<1> HIDE DEF m, rest
<1>4. known \in SUBSET Id  BY <1>2 DEF Handled, Control
<1> HIDE DEF known
<1>5. /\ new \in Connections /\ new.state = socket[s].state /\ new.channel = socket[s].channel
      /\ new.sent = rest /\ new.known = known
  BY <1>2, <1>4 DEF Connections
<1> HIDE DEF new
<1>6. /\ socket' \in [Socket -> Connections] /\ socket'[s] = new
      /\ \A r \in Socket : r # s => socket'[r] = socket[r]
  BY <1>3, <1>5 DEF SocketTypes
<1>7. QED  BY <1>1, <1>5, <1>6 DEF m, rest, known

(***************************************************************************)
(* Types, and the ids of the subscriptions: each key that a component       *)
(* listens to has one, of its own.                                          *)
(***************************************************************************)
ManagerInv ==
    /\ \A k \in Key : subs[k].id # 0 <=> \E l \in Listener : wants[l] = k
    /\ \A k, j \in Key : subs[k].id = subs[j].id /\ subs[k].id # 0 => k = j

\* A connection that is not open yet has got no message.
Untouched ==
    \A s \in Socket : socket[s].state = "connecting"
        => socket[s].known = Gone.known /\ socket[s].sent = Gone.sent

LEMMA EntryIs ==
    ASSUME NEW e \in Entries
    PROVE  e.id \in Id \cup {0} /\ e.last \in Channel \cup {None}
BY DEF Entries

LEMMA MountGives ==
    ASSUME NEW l \in Listener, NEW k \in Key, Mount(l, k), ManagerTypes
    PROVE  /\ wants[l] = None /\ wants' = [wants EXCEPT ![l] = k]
           /\ subs' \in [Key -> Entries]
           /\ \A j \in Key : j # k => subs'[j] = subs[j]
           /\ IF subs[k].id = 0
              THEN \E i \in Id : /\ i \notin Ids /\ subs'[k].id = i /\ subs'[k].last = None
                                 /\ Sends([action |-> "subscribe", id |-> i])
              ELSE subs' = subs /\ socket' = socket
<1>1. CASE subs[k].id = 0
  <2>1. PICK i \in Id : /\ Fresh(i)
                        /\ subs' = [subs EXCEPT ![k] = [id |-> i, last |-> None]]
                        /\ Sends([action |-> "subscribe", id |-> i])
    BY <1>1 DEF Mount
  <2> DEFINE new == [id |-> i, last |-> None]
  <2>2. new \in Entries /\ new.id = i /\ new.last = None  BY DEF Entries
  <2>3. subs' = [subs EXCEPT ![k] = new]  BY <2>1
  <2> HIDE DEF new
  <2>4. subs' \in [Key -> Entries] /\ subs'[k] = new /\ \A j \in Key : j # k => subs'[j] = subs[j]
    BY <2>2, <2>3 DEF ManagerTypes
  <2>5. i \notin Ids  BY <2>1 DEF Fresh
  <2>6. wants[l] = None /\ wants' = [wants EXCEPT ![l] = k]  BY DEF Mount
  <2>7. QED  BY <1>1, <2>1, <2>2, <2>4, <2>5, <2>6
<1>2. CASE subs[k].id # 0
  BY <1>2 DEF Mount, ManagerTypes
<1>3. QED  BY <1>1, <1>2

LEMMA UnmountGives ==
    ASSUME NEW l \in Listener, Unmount(l), ManagerTypes
    PROVE  LET k     == wants[l]
               still == \E other \in Listener \ {l} : wants[other] = k
           IN  /\ k \in Key /\ wants' = [wants EXCEPT ![l] = None]
               /\ subs' \in [Key -> Entries]
               /\ \A j \in Key : j # k => subs'[j] = subs[j]
               /\ IF still THEN subs' = subs /\ socket' = socket
                  ELSE /\ subs'[k] = NoSub
                       /\ Sends([action |-> "unsubscribe", id |-> subs[k].id])
<1> DEFINE k     == wants[l]
           still == \E other \in Listener \ {l} : wants[other] = k
<1>1. k \in Key /\ wants' = [wants EXCEPT ![l] = None]  BY DEF Unmount, ManagerTypes
<1>2. CASE ~still
  <2>1. /\ subs' = [subs EXCEPT ![k] = NoSub]
        /\ Sends([action |-> "unsubscribe", id |-> subs[k].id])
    BY <1>2 DEF Unmount
  <2>2. NoSub \in Entries  BY DEF NoSub, Entries
  <2>3. QED  BY <1>1, <1>2, <2>1, <2>2 DEF ManagerTypes
<1>3. CASE still
  BY <1>1, <1>3 DEF Unmount, ManagerTypes
<1>4. QED  BY <1>2, <1>3

LEMMA OpensTypes ==
    ASSUME NEW v \in Services, NEW w \in [Socket -> Connections], NEW c \in Channel,
           NEW manually \in BOOLEAN, Opens(v, w, c, manually),
           \A s \in Socket : w[s].state # "gone" => w[s].channel \in Channel,
           \A s \in Socket : w[s].state = "connecting"
                               => w[s].known = Gone.known /\ w[s].sent = Gone.sent
    PROVE  SocketTypes' /\ ServiceTypes' /\ Untouched'
<1>1. PICK s \in Socket : Opened(s, v, w, c)  BY OpensGives
<1>2. /\ socket' \in [Socket -> Connections] /\ service' \in Services
      /\ socket'[s].state = "connecting" /\ socket'[s].channel = c
      /\ socket'[s].known = Gone.known /\ socket'[s].sent = Gone.sent
      /\ \A r \in Socket \ {s} : socket'[r] = w[r]
  BY <1>1 DEF Opened
<1>3. SocketTypes'
  <2>1. \A r \in Socket : socket'[r].state # "gone" => socket'[r].channel \in Channel
    BY <1>2
  <2>2. QED  BY <1>2, <2>1 DEF SocketTypes
<1>4. Untouched'  BY <1>2, Zenon DEF Untouched
<1>5. QED  BY <1>2, <1>3, <1>4 DEF ServiceTypes

\* A service and sockets without one connection.
LEMMA WithoutIs ==
    ASSUME NEW s \in Socket, SocketTypes
    PROVE  /\ [socket EXCEPT ![s] = Gone] \in [Socket -> Connections]
           /\ [socket EXCEPT ![s] = Gone][s] = Gone
           /\ \A r \in Socket : r # s => [socket EXCEPT ![s] = Gone][r] = socket[r]
BY GoneIs DEF SocketTypes

\* onClose: the connection is gone, and the service has no one or one more.
LEMMA ClosedTypes ==
    ASSUME NEW s \in Socket, NEW code \in {"retry", "auth", "refused"}, Closed(s, code),
           AllTypes, Untouched
    PROVE  /\ SocketTypes' /\ ServiceTypes' /\ Untouched'
           /\ timer' \in BOOLEAN /\ stray' \in Nat /\ idle' = FALSE /\ renewing' \in Nat
           /\ UNCHANGED <<selected, manager, crossed>>
<1> DEFINE left == [socket EXCEPT ![s] = Gone]
<1>1. /\ left \in [Socket -> Connections] /\ left[s] = Gone
      /\ \A r \in Socket : r # s => left[r] = socket[r]
  BY WithoutIs DEF AllTypes
<1>2. /\ \A r \in Socket : left[r].state # "gone" => left[r].channel \in Channel
      /\ \A r \in Socket : left[r].state = "connecting"
                             => left[r].known = Gone.known /\ left[r].sent = Gone.sent
  BY <1>1, GoneIs DEF AllTypes, SocketTypes, Untouched
<1>3. timer \in BOOLEAN /\ stray \in Nat /\ renewing \in Nat /\ service \in Services
  BY DEF AllTypes, OtherTypes, ServiceTypes
<1>4. idle' = FALSE /\ UNCHANGED <<selected, manager, crossed>>  BY DEF Closed
<1>5. CASE service.scheduled # None
  <2> DEFINE v == [service EXCEPT !.connection = 0, !.scheduled = None]
  <2>1. Opens(v, left, service.scheduled, FALSE) /\ timer' = FALSE /\ UNCHANGED <<stray, renewing>>
    BY <1>5 DEF Closed
  <2>2. v \in Services  BY <1>3 DEF Services
  <2>3. service.scheduled \in Channel  BY <1>3, <1>5, ServiceIs
  <2> HIDE DEF v, left
  <2>4. SocketTypes' /\ ServiceTypes' /\ Untouched'
    BY <1>1, <1>2, <2>1, <2>2, <2>3, OpensTypes
  <2>5. QED  BY <1>3, <1>4, <2>1, <2>4
<1>6. CASE service.scheduled = None
  <2>1. socket' = left /\ Ended(code)  BY <1>6 DEF Closed
  <2>2. SocketTypes' /\ Untouched'
    <3> HIDE DEF left
    <3>1. QED  BY <1>1, <1>2, <2>1 DEF SocketTypes, Untouched
  <2>3. ServiceTypes'
    <3> DEFINE v == [service EXCEPT !.connection = 0, !.active = None]
    <3>1. v \in Services  BY <1>3 DEF Services
    <3>2. service' \in {[v EXCEPT !.status = "reconnecting"],
                         [v EXCEPT !.status = "disconnected", !.params = None]}
      BY <2>1 DEF Ended
    <3> HIDE DEF v
    <3>3. service' \in Services  BY <3>1, <3>2 DEF Services
    <3>4. QED  BY <3>3 DEF ServiceTypes
  <2>4. timer' \in BOOLEAN /\ stray' \in Nat /\ renewing' \in Nat
    <3>1. CASE code = "retry"
      <4>1. timer' = TRUE /\ renewing' = renewing /\ stray' = stray + (IF timer THEN 1 ELSE 0)
        BY <2>1, <3>1 DEF Ended
      <4>2. stray' \in Nat  BY <1>3, <4>1
      <4>3. QED  BY <1>3, <4>1, <4>2
    <3>2. CASE code # "retry"
      <4>1. timer' = timer /\ stray' = stray /\ renewing' = renewing + (IF code = "auth" THEN 1 ELSE 0)
        BY <2>1, <3>2 DEF Ended
      <4>2. stray' \in Nat /\ renewing' \in Nat  BY <1>3, <4>1
      <4>3. QED  BY <1>3, <4>1, <4>2
    <3>3. QED  BY <3>1, <3>2
  <2>5. QED  BY <1>4, <2>2, <2>3, <2>4
<1>7. QED  BY <1>5, <1>6

LEMMA TypesInductive ==
    AllTypes /\ ManagerInv /\ Untouched /\ [WNext]_wvars => AllTypes' /\ Untouched'
<1> SUFFICES ASSUME AllTypes, ManagerInv, Untouched, [WNext]_wvars PROVE AllTypes' /\ Untouched'
  OBVIOUS
<1> DEFINE Good == AllTypes' /\ Untouched'
<1>a. SocketTypes /\ ServiceTypes /\ ManagerTypes /\ OtherTypes  BY DEF AllTypes
<1>b. UNCHANGED manager => ManagerTypes'  BY <1>a DEF manager, ManagerTypes
<1>c. UNCHANGED socket => SocketTypes' /\ Untouched'  BY <1>a DEF SocketTypes, Untouched
<1>d. UNCHANGED service => ServiceTypes'  BY <1>a DEF ServiceTypes
<1>e. UNCHANGED <<timer, stray, idle, renewing, selected>> => OtherTypes'
  BY <1>a DEF OtherTypes
<1>f. \A s \in Socket : socket[s] \in Connections  BY <1>a DEF SocketTypes
<1>1. ASSUME NEW c \in Channel \cup {None}, Select(c) PROVE Good
  <2>1. /\ UNCHANGED <<stray, idle, renewing, manager>> /\ selected' = c
        /\ timer' = (timer /\ IF c = None THEN ~Disconnects ELSE OnlySchedules)
    BY <1>1, Zenon DEF Select
  <2>2. OtherTypes' /\ ManagerTypes'
    <3>1. timer' \in BOOLEAN  BY <2>1
    <3>2. QED  BY <1>a, <1>b, <2>1, <3>1 DEF OtherTypes
  <2>3. ASSUME Closing = socket' PROVE SocketTypes' /\ Untouched'
    <3>1. /\ socket' \in [Socket -> Connections]
          /\ \A s \in Socket :
                /\ socket'[s].channel = socket[s].channel
                /\ s # service.connection => socket'[s] = socket[s]
                /\ s = service.connection =>
                     socket'[s].state = IF socket[s].state = "connecting" THEN "aborted"
                                        ELSE IF socket[s].state = "open" THEN "closing"
                                        ELSE socket[s].state
      BY <1>a, <2>3, ClosingIs
    <3>2. \A s \in Socket : socket'[s].state # "gone" => socket'[s].channel \in Channel
      BY <1>a, <3>1 DEF SocketTypes
    <3>3. \A s \in Socket : socket'[s].state = "connecting" => socket'[s] = socket[s]
      BY <3>1
    <3>4. QED  BY <3>1, <3>2, <3>3, Zenon DEF SocketTypes, Untouched
  <2>4. CASE c = None
    <3>1. service' = Disconnected /\ socket' = Closing  BY <1>1, <2>4 DEF Select
    <3>2. ServiceTypes'  BY <1>a, <3>1, DisconnectedIs DEF ServiceTypes
    <3>3. QED  BY <2>2, <2>3, <3>1, <3>2 DEF AllTypes
  <2>5. CASE c # None /\ service.connection = 0
    <3>1. Opens(service, socket, c, TRUE) /\ c \in Channel  BY <1>1, <2>5 DEF Select
    <3>2. SocketTypes' /\ ServiceTypes' /\ Untouched'
      BY <1>a, <3>1, OpensTypes DEF SocketTypes, ServiceTypes, Untouched
    <3>3. QED  BY <2>2, <3>2 DEF AllTypes
  <2>6. CASE c # None /\ service.connection # 0
    <3>1. /\ socket' = Closing
          /\ service' \in {[service EXCEPT !.scheduled = c], [Disconnected EXCEPT !.scheduled = c]}
      BY <1>1, <2>6 DEF Select
    <3>2. service \in Services /\ Disconnected \in Services
      BY <1>a, DisconnectedIs DEF ServiceTypes
    <3>3. service' \in Services  BY <3>1, <3>2 DEF Services
    <3>4. QED  BY <2>2, <2>3, <3>1, <3>3 DEF AllTypes, ServiceTypes
  <2>7. QED  BY <2>4, <2>5, <2>6
<1>2. ASSUME NEW s \in Socket, Open(s) PROVE Good
  <2>1. /\ UNCHANGED <<stray, renewing, selected, wants, shown>> /\ timer' = FALSE /\ idle' = TRUE
        /\ service' = [service EXCEPT !.status = "connected", !.active = "active"]
    BY <1>2 DEF Open
  <2>2. /\ socket' \in [Socket -> Connections]
        /\ socket[s].state = "connecting" /\ socket'[s].state = "open"
        /\ \A r \in Socket : /\ socket'[r].channel = socket[r].channel
                             /\ r # s => socket'[r].state = socket[r].state
                             /\ socket'[r].state # "open" => socket'[r] = socket[r]
        /\ subs' \in [Key -> Entries]
    BY <1>2, <1>a, OpenGives
  <2>3. SocketTypes'
    <3>1. \A r \in Socket : socket'[r].state # "gone" => socket'[r].channel \in Channel
      BY <1>a, <2>2 DEF SocketTypes
    <3>2. QED  BY <2>2, <3>1 DEF SocketTypes
  <2>4. Untouched'  BY <2>2, Zenon DEF Untouched
  <2>5. ServiceTypes'  BY <1>a, <2>1 DEF ServiceTypes, Services
  <2>6. ManagerTypes'  BY <1>a, <2>1, <2>2 DEF ManagerTypes
  <2>7. OtherTypes'  BY <1>a, <2>1 DEF OtherTypes
  <2>8. QED  BY <2>3, <2>4, <2>5, <2>6, <2>7 DEF AllTypes
<1>3. ASSUME NEW s \in Socket, NEW code \in {"retry", "auth", "refused"}, Closed(s, code)
      PROVE  Good
  <2>1. /\ SocketTypes' /\ ServiceTypes' /\ Untouched'
        /\ timer' \in BOOLEAN /\ stray' \in Nat /\ idle' = FALSE /\ renewing' \in Nat
        /\ UNCHANGED <<selected, manager, crossed>>
    BY <1>3, ClosedTypes
  <2>2. OtherTypes'  BY <1>a, <2>1 DEF OtherTypes
  <2>3. QED  BY <1>b, <2>1, <2>2 DEF AllTypes
<1>4. ASSUME NEW s \in Socket, Serve(s) PROVE Good
  <2>1. UNCHANGED <<service, timers, renewing, selected, manager>>  BY <1>4 DEF Serve
  <2>2. /\ socket' \in [Socket -> Connections] /\ socket[s].state = "open"
        /\ \A r \in Socket : /\ socket'[r].channel = socket[r].channel
                             /\ socket'[r].state = socket[r].state
                             /\ r # s => socket'[r] = socket[r]
    BY <1>4, <1>a, ServeGives
  <2>3. SocketTypes' /\ Untouched'
    <3>1. \A r \in Socket : socket'[r].state # "gone" => socket'[r].channel \in Channel
      BY <1>a, <2>2 DEF SocketTypes
    <3>2. \A r \in Socket : socket'[r].state = "connecting" => socket'[r] = socket[r]
      BY <2>2
    <3>3. QED  BY <2>2, <3>1, <3>2, Zenon DEF SocketTypes, Untouched
  <2>4. QED  BY <1>b, <1>d, <1>e, <2>1, <2>3 DEF AllTypes, timers
<1>5. ASSUME NEW s \in Socket, NEW i \in Id \cup {0}, Message(s, i) PROVE Good
  <2> DEFINE keys == IF i = 0 THEN {} ELSE {k \in Key : subs[k].id = i}
             from == socket[s].channel
  <2>1. /\ UNCHANGED <<socket, service, timer, stray, renewing, selected, wants>> /\ idle' = TRUE
        /\ subs' = [k \in Key |-> IF k \in keys THEN [subs[k] EXCEPT !.last = from] ELSE subs[k]]
        /\ shown' = [l \in Listener |-> IF wants[l] \in keys THEN from ELSE shown[l]]
    BY <1>5 DEF Message, browser
  <2>2. from \in Channel \cup {None}  BY <1>f, ConnectionIs
  <2> HIDE DEF keys, from
  <2>3. \A k \in Key : [subs[k] EXCEPT !.last = from] \in Entries
    BY <1>a, <2>2 DEF ManagerTypes, Entries
  <2>4. ManagerTypes'
    <3>1. subs' \in [Key -> Entries]  BY <1>a, <2>1, <2>3 DEF ManagerTypes
    <3>2. shown' \in [Listener -> Channel \cup {None}]  BY <1>a, <2>1, <2>2 DEF ManagerTypes
    <3>3. QED  BY <1>a, <2>1, <3>1, <3>2 DEF ManagerTypes
  <2>5. OtherTypes'  BY <1>a, <2>1 DEF OtherTypes
  <2>6. QED  BY <1>c, <1>d, <2>1, <2>4, <2>5 DEF AllTypes
<1>6. CASE Retry
  <2>1. UNCHANGED <<idle, renewing, selected, manager>>  BY <1>6 DEF Retry
  <2>2. OtherTypes'
    <3>1. timer \in BOOLEAN /\ stray \in Nat  BY <1>a DEF OtherTypes
    <3>2. \/ timer' = FALSE /\ stray' = stray
          \/ stray > 0 /\ stray' = stray - 1 /\ timer' = timer
      BY <1>6 DEF Retry
    <3>3. timer' \in BOOLEAN /\ stray' \in Nat
      <4>1. CASE timer' = FALSE /\ stray' = stray  BY <3>1, <4>1
      <4>2. CASE stray > 0 /\ stray' = stray - 1 /\ timer' = timer
        <5>1. stray' \in Nat  BY <3>1, <4>2
        <5>2. QED  BY <3>1, <4>2, <5>1, Zenon
      <4>3. QED  BY <3>2, <4>1, <4>2
    <3>4. QED  BY <1>a, <2>1, <3>3 DEF OtherTypes
  <2>3. CASE service.params # None
    <3>1. Opens(service, socket, service.params, FALSE)  BY <1>6, <2>3 DEF Retry
    <3>2. service.params \in Channel  BY <1>a, <2>3, ServiceIs DEF ServiceTypes
    <3>3. SocketTypes' /\ ServiceTypes' /\ Untouched'
      BY <1>a, <3>1, <3>2, OpensTypes DEF SocketTypes, ServiceTypes, Untouched
    <3>4. QED  BY <1>b, <2>1, <2>2, <3>3 DEF AllTypes
  <2>4. CASE service.params = None
    BY <1>6, <1>b, <1>c, <1>d, <2>1, <2>2, <2>4 DEF Retry, AllTypes
  <2>5. QED  BY <2>3, <2>4
<1>7. CASE Idle
  <2>1. /\ UNCHANGED <<socket, timer, stray, renewing, selected, manager>> /\ idle' = FALSE
        /\ service' = [service EXCEPT !.active = "inactive"]
    BY <1>7 DEF Idle, browser
  <2>2. ServiceTypes'  BY <1>a, <2>1 DEF ServiceTypes, Services
  <2>3. OtherTypes'  BY <1>a, <2>1 DEF OtherTypes
  <2>4. QED  BY <1>b, <1>c, <2>1, <2>2, <2>3 DEF AllTypes
<1>8. ASSUME NEW ok \in BOOLEAN, Renewed(ok) PROVE Good
  <2>1. UNCHANGED <<timers, selected, manager>> /\ renewing > 0 /\ renewing' = renewing - 1
    BY <1>8 DEF Renewed
  <2>2. OtherTypes'  BY <1>a, <2>1 DEF OtherTypes, timers
  <2>3. CASE ok /\ service.params # None
    <3>1. Opens(service, socket, service.params, FALSE)  BY <1>8, <2>3 DEF Renewed
    <3>2. service.params \in Channel  BY <1>a, <2>3, ServiceIs DEF ServiceTypes
    <3>3. SocketTypes' /\ ServiceTypes' /\ Untouched'
      BY <1>a, <3>1, <3>2, OpensTypes DEF SocketTypes, ServiceTypes, Untouched
    <3>4. QED  BY <1>b, <2>1, <2>2, <3>3 DEF AllTypes
  <2>4. CASE ~(ok /\ service.params # None)
    BY <1>8, <1>b, <1>c, <1>d, <2>1, <2>2, <2>4 DEF Renewed, AllTypes
  <2>5. QED  BY <2>3, <2>4
<1>m. ASSUME NEW m \in Control, Sends(m) PROVE SocketTypes' /\ Untouched'
  <2>1. /\ socket' \in [Socket -> Connections]
        /\ \A s \in Socket : /\ socket'[s].state = socket[s].state
                             /\ socket'[s].channel = socket[s].channel
                             /\ socket[s].state # "open" => socket'[s] = socket[s]
    BY <1>a, <1>m, SendsGives
  <2>2. \A s \in Socket : socket'[s].state # "gone" => socket'[s].channel \in Channel
    BY <1>a, <2>1 DEF SocketTypes
  <2>3. \A s \in Socket : socket'[s].state = "connecting" => socket'[s] = socket[s]
    BY <2>1
  <2>4. QED  BY <2>1, <2>2, <2>3, Zenon DEF SocketTypes, Untouched
<1>9. ASSUME NEW l \in Listener, NEW k \in Key, Mount(l, k) PROVE Good
  <2>1. /\ UNCHANGED <<service, timers, renewing, selected>>
        /\ shown' = [shown EXCEPT ![l] = IF service.status = "connected" THEN subs[k].last ELSE None]
    BY <1>9 DEF Mount
  <2>2. /\ wants' = [wants EXCEPT ![l] = k] /\ subs' \in [Key -> Entries]
        /\ IF subs[k].id = 0
           THEN \E i \in Id : Sends([action |-> "subscribe", id |-> i])
           ELSE socket' = socket
    BY <1>9, <1>a, MountGives
  <2>3. ManagerTypes'
    <3>1. subs[k].last \in Channel \cup {None}  BY <1>a, EntryIs DEF ManagerTypes
    <3>2. QED  BY <1>a, <2>1, <2>2, <3>1 DEF ManagerTypes
  <2>4. SocketTypes' /\ Untouched'
    <3>1. \A i \in Id : [action |-> "subscribe", id |-> i] \in Control  BY DEF Control
    <3>2. QED  BY <1>c, <1>m, <2>2, <3>1
  <2>5. QED  BY <1>d, <1>e, <2>1, <2>3, <2>4 DEF AllTypes, timers
<1>10. ASSUME NEW l \in Listener, Unmount(l) PROVE Good
  <2>1. /\ UNCHANGED <<service, timers, renewing, selected>>
        /\ shown' = [shown EXCEPT ![l] = None]
    BY <1>10 DEF Unmount
  <2>2. /\ wants[l] \in Key /\ wants' = [wants EXCEPT ![l] = None] /\ subs' \in [Key -> Entries]
        /\ \/ socket' = socket
           \/ Sends([action |-> "unsubscribe", id |-> subs[wants[l]].id])
    BY <1>10, <1>a, UnmountGives
  <2>3. ManagerTypes'  BY <1>a, <2>1, <2>2 DEF ManagerTypes
  <2>4. SocketTypes' /\ Untouched'
    <3>1. subs[wants[l]].id # 0  BY <2>2 DEF ManagerInv
    <3>2. subs[wants[l]].id \in Id  BY <1>a, <2>2, <3>1, EntryIs DEF ManagerTypes
    <3>3. [action |-> "unsubscribe", id |-> subs[wants[l]].id] \in Control
      BY <3>2 DEF Control
    <3>4. QED  BY <1>c, <1>m, <2>2, <3>3
  <2>5. QED  BY <1>d, <1>e, <2>1, <2>3, <2>4 DEF AllTypes, timers
<1>11. CASE UNCHANGED wvars
  BY <1>11, <1>b, <1>c, <1>d, <1>e DEF wvars, browser, timers, AllTypes
<1>12. ASSUME NEW s \in Socket, CloseDone(s) PROVE Good
  BY <1>3, <1>12 DEF CloseDone
<1>13. ASSUME NEW s \in Socket, NEW code \in {"retry", "auth", "refused"}, Lose(s, code) PROVE Good
  BY <1>3, <1>13 DEF Lose
<1>14. QED  BY <1>1, <1>2, <1>4, <1>5, <1>6, <1>7, <1>8, <1>9, <1>10, <1>11, <1>12, <1>13
            DEF WNext

LEMMA ManagerInductive ==
    AllTypes /\ ManagerInv /\ [WNext]_wvars => ManagerInv'
<1> SUFFICES ASSUME AllTypes, ManagerInv, [WNext]_wvars PROVE ManagerInv'
  OBVIOUS
<1>a. SocketTypes /\ ServiceTypes /\ ManagerTypes /\ None \notin Key /\ 0 \notin Id
  BY ConstantTypes DEF AllTypes, Id
<1>1. ASSUME UNCHANGED wants, \A k \in Key : subs'[k].id = subs[k].id PROVE ManagerInv'
  BY <1>1 DEF ManagerInv
<1>2. ASSUME UNCHANGED manager PROVE ManagerInv'
  BY <1>2 DEF manager, ManagerInv
<1>3. ASSUME NEW s \in Socket, Open(s) PROVE ManagerInv'
  <2>1. UNCHANGED wants  BY <1>3 DEF Open
  <2>2. \A k \in Key : subs'[k].id = subs[k].id  BY <1>3, <1>a, OpenGives
  <2>3. QED  BY <1>1, <2>1, <2>2
<1>4. ASSUME NEW s \in Socket, NEW i \in Id \cup {0}, Message(s, i) PROVE ManagerInv'
  <2> DEFINE keys == IF i = 0 THEN {} ELSE {k \in Key : subs[k].id = i}
             from == socket[s].channel
  <2>1. /\ UNCHANGED wants
        /\ subs' = [k \in Key |-> IF k \in keys THEN [subs[k] EXCEPT !.last = from] ELSE subs[k]]
    BY <1>4 DEF Message
  <2> HIDE DEF keys, from
  <2>2. \A k \in Key : subs'[k].id = subs[k].id  BY <1>a, <2>1 DEF ManagerTypes, Entries
  <2>3. QED  BY <1>1, <2>1, <2>2
<1>5. ASSUME NEW l \in Listener, NEW k \in Key, Mount(l, k) PROVE ManagerInv'
  <2>1. /\ wants[l] = None /\ wants' = [wants EXCEPT ![l] = k]
        /\ \A j \in Key : j # k => subs'[j] = subs[j]
        /\ IF subs[k].id = 0
           THEN \E i \in Id : i \notin Ids /\ subs'[k].id = i
           ELSE subs' = subs
    BY <1>5, <1>a, MountGives
  <2>2. /\ wants'[l] = k
        /\ \A j \in Key : j # k =>
              ((\E x \in Listener : wants'[x] = j) <=> \E x \in Listener : wants[x] = j)
    BY <1>a, <2>1 DEF ManagerTypes
  <2>3. CASE subs[k].id = 0
    <3>1. PICK i \in Id : i \notin Ids /\ subs'[k].id = i  BY <2>1, <2>3
    <3>2. \A j \in Key : subs[j].id # i  BY <1>a, <3>1 DEF Ids
    <3>3. \A j \in Key : subs'[j].id # 0 <=> \E x \in Listener : wants'[x] = j
      <4>1. ASSUME NEW j \in Key PROVE subs'[j].id # 0 <=> \E x \in Listener : wants'[x] = j
        <5>1. CASE j = k  BY <1>a, <2>2, <3>1, <5>1
        <5>2. CASE j # k
          <6>1. subs'[j] = subs[j]  BY <2>1, <5>2
          <6>2. QED  BY <2>2, <5>2, <6>1 DEF ManagerInv
        <5>3. QED  BY <5>1, <5>2
      <4>2. QED  BY <4>1
    <3>4. \A j, h \in Key : subs'[j].id = subs'[h].id /\ subs'[j].id # 0 => j = h
      BY <2>1, <3>1, <3>2 DEF ManagerInv
    <3>5. QED  BY <3>3, <3>4 DEF ManagerInv
  <2>4. CASE subs[k].id # 0
    <3>1. subs' = subs  BY <2>1, <2>4
    <3>2. \A j \in Key : subs[j].id # 0 <=> \E x \in Listener : wants'[x] = j
      BY <2>2, <2>4 DEF ManagerInv
    <3>3. QED  BY <3>1, <3>2 DEF ManagerInv
  <2>5. QED  BY <2>3, <2>4
<1>6. ASSUME NEW l \in Listener, Unmount(l) PROVE ManagerInv'
  <2> DEFINE k     == wants[l]
             still == \E other \in Listener \ {l} : wants[other] = k
  <2>1. /\ k \in Key /\ wants' = [wants EXCEPT ![l] = None]
        /\ \A j \in Key : j # k => subs'[j] = subs[j]
        /\ IF still THEN subs' = subs ELSE subs'[k] = NoSub
    BY <1>6, <1>a, UnmountGives
  <2>2. /\ \A j \in Key : j # k =>
              ((\E x \in Listener : wants'[x] = j) <=> \E x \in Listener : wants[x] = j)
        /\ (\E x \in Listener : wants'[x] = k) <=> still
    BY <1>a, <2>1 DEF ManagerTypes
  <2>3. subs[k].id # 0  BY <2>1 DEF ManagerInv
  <2>4. NoSub.id = 0  BY DEF NoSub
  <2> HIDE DEF still, k
  <2>5. CASE still
    <3>1. subs' = subs  BY <2>1, <2>5
    <3>2. \A j \in Key : subs[j].id # 0 <=> \E x \in Listener : wants'[x] = j
      <4>1. ASSUME NEW j \in Key PROVE subs[j].id # 0 <=> \E x \in Listener : wants'[x] = j
        <5>1. CASE j = k  BY <2>2, <2>3, <2>5, <5>1
        <5>2. CASE j # k  BY <2>2, <5>2 DEF ManagerInv
        <5>3. QED  BY <5>1, <5>2
      <4>2. QED  BY <4>1
    <3>3. QED  BY <3>1, <3>2 DEF ManagerInv
  <2>6. CASE ~still
    <3>1. subs'[k] = NoSub  BY <2>1, <2>6
    <3>2. \A j \in Key : subs'[j].id # 0 <=> \E x \in Listener : wants'[x] = j
      <4>1. ASSUME NEW j \in Key PROVE subs'[j].id # 0 <=> \E x \in Listener : wants'[x] = j
        <5>1. CASE j = k  BY <2>2, <2>4, <2>6, <3>1, <5>1
        <5>2. CASE j # k
          <6>1. subs'[j] = subs[j]  BY <2>1, <5>2
          <6>2. QED  BY <2>2, <5>2, <6>1 DEF ManagerInv
        <5>3. QED  BY <5>1, <5>2
      <4>2. QED  BY <4>1
    <3>3. \A j, h \in Key : subs'[j].id = subs'[h].id /\ subs'[j].id # 0 => j = h
      BY <2>1, <2>4, <3>1 DEF ManagerInv
    <3>4. QED  BY <3>2, <3>3 DEF ManagerInv
  <2>7. QED  BY <2>5, <2>6
<1>7. ASSUME NEW c \in Channel \cup {None}, Select(c) PROVE ManagerInv'
  BY <1>2, <1>7 DEF Select
<1>8. ASSUME NEW s \in Socket, CloseDone(s) \/ Serve(s) PROVE ManagerInv'
  BY <1>2, <1>8 DEF CloseDone, Closed, Serve
<1>9. ASSUME NEW s \in Socket, NEW code \in {"retry", "auth", "refused"}, Lose(s, code)
      PROVE  ManagerInv'
  BY <1>2, <1>9 DEF Lose, Closed
<1>10. ASSUME Retry \/ Idle \/ UNCHANGED wvars PROVE ManagerInv'
  BY <1>2, <1>10 DEF Retry, Idle, wvars
<1>11. ASSUME NEW ok \in BOOLEAN, Renewed(ok) PROVE ManagerInv'
  BY <1>2, <1>11 DEF Renewed
<1>12. QED  BY <1>3, <1>4, <1>5, <1>6, <1>7, <1>8, <1>9, <1>10, <1>11 DEF WNext

\* Types and ids, whatever has been renewed.
BaseInv == AllTypes /\ ManagerInv /\ Untouched

LEMMA BaseAlways == WSpec => []BaseInv
<1>1. WInit => BaseInv
  <2> SUFFICES ASSUME WInit PROVE BaseInv
    OBVIOUS
  <2>1. \A s \in Socket : socket[s] = Gone  BY DEF WInit
  <2>2. SocketTypes /\ Untouched  BY <2>1, GoneIs DEF WInit, SocketTypes, Untouched
  <2>3. ServiceTypes  BY DEF WInit, ServiceTypes, Services
  <2>4. ManagerTypes /\ ManagerInv
    <3>1. NoSub \in Entries /\ NoSub.id = 0  BY DEF NoSub, Entries
    <3>2. QED  BY <3>1, ConstantTypes DEF WInit, ManagerTypes, ManagerInv
  <2>5. OtherTypes  BY DEF WInit, OtherTypes
  <2>6. QED  BY <2>2, <2>3, <2>4, <2>5 DEF BaseInv, AllTypes
<1>2. BaseInv /\ [WNext]_wvars => BaseInv'
  BY TypesInductive, ManagerInductive DEF BaseInv
<1>3. QED  BY <1>1, <1>2, PTL DEF WSpec

\* Types hold in every reachable state of the connection of a tab, for any
\* number of channels, components, sockets and ids.
THEOREM InterfaceTypes == WSpec => []WTypeOK
<1>1. BaseInv => WTypeOK  BY TypesGive DEF BaseInv
<1>2. QED  BY <1>1, BaseAlways, PTL

(***************************************************************************)
(* One connection at a time, until a renewed token crosses a selection.     *)
(***************************************************************************)
\* No connection: the next one would be to the selected channel.
Down ==
    /\ service.scheduled = None /\ service.status # "connected"
    /\ selected # None => service.params \in {None, selected}

\* A connection: to the selected channel, or one that is being closed with the
\* selected channel scheduled after it.
Up ==
    LET s == socket[service.connection] IN
    /\ service.params = s.channel
    /\ service.status = "connected" <=> s.state = "open"
    /\ service.scheduled # None => s.state \in {"closing", "aborted"}
    /\ selected # None => IF s.state \in {"closing", "aborted"} THEN service.scheduled = selected
                          ELSE service.params = selected

HeldInv ==
    /\ \A s \in Socket : socket[s].state # "gone" <=> s = service.connection
    /\ stray = 0
    /\ timer => service.connection = 0 /\ service.params # None
    /\ IF service.connection = 0 THEN Down ELSE Up

\* What components have been given comes from the channel of the connection.
SeenInv ==
    service.status = "connected" => \A k \in Key : subs[k].last \in {None, service.params}

AgreeInv ==
    service.status = "connected"
        => LET s == socket[service.connection] IN Registered(s.known, s.sent) = Ids

SingleInv == ~crossed => HeldInv /\ SeenInv /\ AgreeInv

LEMMA OpensHolds ==
    ASSUME NEW v \in Services, NEW w \in [Socket -> Connections], NEW c \in Channel,
           NEW manually \in BOOLEAN, Opens(v, w, c, manually),
           \A s \in Socket : w[s].state = "gone",
           v.scheduled = None, stray' = 0, timer' = FALSE,
           selected' # None => selected' = c
    PROVE  HeldInv' /\ SeenInv' /\ AgreeInv'
<1>1. PICK s \in Socket : Opened(s, v, w, c)  BY OpensGives
<1>2. /\ socket'[s].state = "connecting" /\ socket'[s].channel = c
      /\ \A r \in Socket \ {s} : socket'[r] = w[r]
      /\ service'.connection = s /\ service'.scheduled = None /\ service'.params = c
      /\ service'.status # "connected"
  BY <1>1 DEF Opened
<1>3. s # 0  BY DEF Socket
<1>4. Up'  BY <1>2 DEF Up
<1>5. \A r \in Socket : socket'[r].state # "gone" <=> r = service'.connection  BY <1>2
<1>6. HeldInv'  BY <1>2, <1>3, <1>4, <1>5 DEF HeldInv
<1>7. QED  BY <1>2, <1>6 DEF SeenInv, AgreeInv

\* Steps that leave every connection in its state.
LEMMA StaysHeld ==
    ASSUME HeldInv, ServiceTypes,
           \A s \in Socket : socket'[s].state = socket[s].state /\ socket'[s].channel = socket[s].channel,
           service'.connection = service.connection, service'.scheduled = service.scheduled,
           service'.params = service.params, service'.status = service.status,
           UNCHANGED <<timer, stray, selected>>
    PROVE  HeldInv'
<1>1. service.connection \in Socket \cup {0}  BY ServiceIs DEF ServiceTypes
<1>2. CASE service.connection = 0
  BY <1>2 DEF HeldInv, Down
<1>3. CASE service.connection \in Socket
  <2>1. Up => Up'  BY <1>3 DEF Up
  <2>2. service.connection # 0  BY <1>3 DEF Socket
  <2>3. QED  BY <1>3, <2>1, <2>2 DEF HeldInv
<1>4. QED  BY <1>1, <1>2, <1>3

LEMMA SelectHolds ==
    ASSUME BaseInv, HeldInv, NEW c \in Channel \cup {None}, Select(c)
    PROVE  HeldInv' /\ SeenInv' /\ AgreeInv'
<1>a. /\ SocketTypes /\ ServiceTypes /\ service \in Services /\ selected \in Channel \cup {None}
      /\ timer \in BOOLEAN
  BY DEF BaseInv, AllTypes, ServiceTypes, OtherTypes
<1>b. service.connection \in Socket \cup {0} /\ 0 \notin Socket
  BY <1>a, ServiceIs DEF Socket
<1>1. /\ selected' = c /\ stray' = stray /\ stray = 0
      /\ timer' \in BOOLEAN /\ (timer' => timer)
      /\ c # None /\ service.connection = 0 => timer' = FALSE
  <2>1. timer' = (timer /\ IF c = None THEN ~Disconnects ELSE OnlySchedules)  BY Zenon DEF Select
  <2>2. OnlySchedules => service.connection # 0  BY DEF OnlySchedules
  <2>3. QED  BY <2>1, <2>2 DEF Select, HeldInv
<1>2. CASE service.connection = 0
  <2>1. \A s \in Socket : socket[s].state = "gone"  BY <1>2, <1>b DEF HeldInv
  <2>2. Down  BY <1>2 DEF HeldInv
  <2>3. CASE c # None
    <3>1. Opens(service, socket, c, TRUE) /\ timer' = FALSE /\ c \in Channel
      BY <1>1, <1>2, <2>3 DEF Select
    <3>2. socket \in [Socket -> Connections] /\ service.scheduled = None
      BY <1>a, <2>2 DEF SocketTypes, Down
    <3>3. QED  BY <1>1, <1>a, <2>1, <3>1, <3>2, OpensHolds
  <2>4. CASE c = None
    <3>1. service' = Disconnected /\ socket' = Closing  BY <2>4 DEF Select
    <3>2. \A s \in Socket : socket'[s] = socket[s]  BY <1>a, <1>b, <1>2, <3>1, ClosingIs
    <3>3. /\ service'.connection = 0 /\ service'.params = service.params
          /\ service'.scheduled = service.scheduled
          /\ service'.status \in {"disconnecting", service.status}
      BY <1>a, <1>2, <3>1, DisconnectedIs
    <3>4. Down'  BY <1>1, <2>2, <2>4, <3>3 DEF Down
    <3>5. \A s \in Socket : socket'[s].state # "gone" <=> s = service'.connection
      BY <1>b, <2>1, <3>2, <3>3
    <3>6. timer' => service'.params # None  BY <1>1, <3>3 DEF HeldInv
    <3>7. HeldInv'  BY <1>1, <3>3, <3>4, <3>5, <3>6 DEF HeldInv
    <3>8. service'.status # "connected"  BY <3>4 DEF Down
    <3>9. QED  BY <3>7, <3>8 DEF SeenInv, AgreeInv
  <2>5. QED  BY <2>3, <2>4
<1>3. CASE service.connection # 0
  <2> DEFINE h == service.connection
  <2>1. h \in Socket /\ Up /\ ~timer /\ socket[h] \in Connections
    BY <1>a, <1>b, <1>3 DEF HeldInv, SocketTypes
  <2>2. socket[h].state \in {"connecting", "open", "closing", "aborted"}
    <3>1. socket[h].state # "gone"  BY <2>1 DEF HeldInv
    <3>2. QED  BY <2>1, <3>1, ConnectionIs
  <2>3. socket' = Closing  BY <1>3 DEF Select
  <2>4. /\ \A s \in Socket : s # h => socket'[s] = socket[s]
        /\ socket'[h].channel = socket[h].channel
        /\ socket'[h].state \in {"closing", "aborted"}
    BY <1>a, <2>1, <2>2, <2>3, ClosingIs
  <2>5. Disconnected \in Services /\ Disconnected.connection = h /\ Disconnected.params = service.params
        /\ Disconnected.status = "disconnecting"
    BY <1>3, <1>a, DisconnectedIs DEF Disconnects
  <2>6. /\ service'.connection = h /\ service'.params = service.params
        /\ service'.status # "connected"
        /\ c # None => service'.scheduled = c
    <3>1. CASE c = None
      <4>1. service' = Disconnected  BY <3>1 DEF Select
      <4>2. QED  BY <2>5, <3>1, <4>1
    <3>2. CASE c # None /\ OnlySchedules
      <4>1. service' = [service EXCEPT !.scheduled = c]  BY <1>3, <3>2, Zenon DEF Select
      <4>2. service.status # "connected"  BY <2>1, <3>2 DEF Up, OnlySchedules
      <4>3. QED  BY <1>a, <4>1, <4>2 DEF Services
    <3>3. CASE c # None /\ ~OnlySchedules
      <4>1. service' = [Disconnected EXCEPT !.scheduled = c]  BY <1>3, <3>3, Zenon DEF Select
      <4>2. QED  BY <2>5, <4>1 DEF Services
    <3>4. QED  BY <3>1, <3>2, <3>3
  <2>7. Up'  BY <1>1, <2>1, <2>4, <2>6 DEF Up
  <2>8. \A s \in Socket : socket'[s].state # "gone" <=> s = service'.connection
    <3>1. \A s \in Socket : s # h => socket[s].state = "gone"  BY DEF HeldInv
    <3>2. QED  BY <2>4, <2>6, <3>1
  <2>9. HeldInv'  BY <1>1, <1>3, <2>1, <2>6, <2>7, <2>8 DEF HeldInv
  <2>10. QED  BY <2>6, <2>9 DEF SeenInv, AgreeInv
<1>4. QED  BY <1>2, <1>3

LEMMA ClosedHolds ==
    ASSUME BaseInv, HeldInv, NEW s \in Socket, socket[s].state # "gone",
           NEW code \in {"retry", "auth", "refused"}, Closed(s, code)
    PROVE  HeldInv' /\ SeenInv' /\ AgreeInv'
<1> DEFINE left == [socket EXCEPT ![s] = Gone]
<1>a. /\ SocketTypes /\ service \in Services /\ selected \in Channel \cup {None}
      /\ timer \in BOOLEAN
  BY DEF BaseInv, AllTypes, ServiceTypes, OtherTypes
<1>1. s = service.connection /\ s # 0  BY DEF HeldInv, Socket
<1>2. Up /\ ~timer /\ stray = 0  BY <1>1 DEF HeldInv
<1>3. left \in [Socket -> Connections] /\ \A r \in Socket : left[r].state = "gone"
  <2>1. /\ left \in [Socket -> Connections] /\ left[s] = Gone
        /\ \A r \in Socket : r # s => left[r] = socket[r]
    BY <1>a, WithoutIs
  <2>2. \A r \in Socket : r # s => socket[r].state = "gone"  BY <1>1 DEF HeldInv
  <2> HIDE DEF left
  <2>3. QED  BY <2>1, <2>2, GoneIs
<1>4. selected' = selected  BY DEF Closed
<1>5. CASE service.scheduled # None
  <2> DEFINE v == [service EXCEPT !.connection = 0, !.scheduled = None]
  <2>1. Opens(v, left, service.scheduled, FALSE) /\ timer' = FALSE /\ stray' = stray
    BY <1>5 DEF Closed
  <2>2. v \in Services /\ v.scheduled = None  BY <1>a DEF Services
  <2>3. service.scheduled \in Channel  BY <1>5, <1>a, ServiceIs
  <2>4. selected # None => selected = service.scheduled  BY <1>1, <1>2, <1>5 DEF Up
  <2> HIDE DEF v, left
  <2>5. stray' = 0 /\ (selected' # None => selected' = service.scheduled)
    BY <1>2, <1>4, <2>1, <2>4
  <2>6. QED  BY <1>3, <2>1, <2>2, <2>3, <2>5, OpensHolds
<1>6. CASE service.scheduled = None
  <2> DEFINE v == [service EXCEPT !.connection = 0, !.active = None]
  <2>1. socket' = left /\ Ended(code)  BY <1>6 DEF Closed
  <2>2. service.params \in Channel
    <3>1. socket[s].channel \in Channel  BY <1>a DEF SocketTypes
    <3>2. QED  BY <1>1, <1>2, <3>1 DEF Up
  <2>3. /\ v \in Services /\ v.connection = 0 /\ v.scheduled = None /\ v.params = service.params
    BY <1>6, <1>a DEF Services
  <2>4. selected # None => service.params = selected
    BY <1>1, <1>2, <1>6 DEF Up
  <2>5. /\ service'.connection = 0 /\ service'.scheduled = None /\ service'.status # "connected"
        /\ service'.params \in {None, service.params}
        /\ stray' = 0 /\ (timer' => service'.params # None)
    <3>1. CASE code = "retry"
      <4>1. service' = [v EXCEPT !.status = "reconnecting"]
            /\ stray' = stray + (IF timer THEN 1 ELSE 0)
        BY <2>1, <3>1 DEF Ended
      <4>2. service'.connection = 0 /\ service'.scheduled = None
            /\ service'.status = "reconnecting" /\ service'.params = service.params
        <5> HIDE DEF v
        <5>1. QED  BY <2>3, <4>1 DEF Services
      <4>3. stray' = 0  BY <1>2, <4>1
      <4>4. QED  BY <2>2, <4>2, <4>3, ConstantTypes
    <3>2. CASE code # "retry"
      <4>1. service' = [v EXCEPT !.status = "disconnected", !.params = None]
            /\ stray' = stray /\ timer' = timer
        BY <2>1, <3>2 DEF Ended
      <4>2. service'.connection = 0 /\ service'.scheduled = None
            /\ service'.status = "disconnected" /\ service'.params = None
        <5> HIDE DEF v
        <5>1. QED  BY <2>3, <4>1 DEF Services
      <4>3. stray' = 0 /\ ~timer'  BY <1>2, <4>1, Zenon
      <4>4. QED  BY <4>2, <4>3
    <3>3. QED  BY <3>1, <3>2
  <2>6. Down'  BY <1>4, <2>4, <2>5 DEF Down
  <2>7. \A r \in Socket : socket'[r].state # "gone" <=> r = service'.connection
    <3>1. 0 \notin Socket  BY DEF Socket
    <3> HIDE DEF left
    <3>2. QED  BY <1>3, <2>1, <2>5, <3>1
  <2>8. HeldInv'  BY <2>5, <2>6, <2>7 DEF HeldInv
  <2>9. QED  BY <2>5, <2>8 DEF SeenInv, AgreeInv
<1>7. QED  BY <1>5, <1>6

LEMMA SingleInductive ==
    BaseInv /\ SingleInv /\ [WNext]_wvars => SingleInv'
<1> SUFFICES ASSUME BaseInv, SingleInv, [WNext]_wvars, ~crossed'
             PROVE  HeldInv' /\ SeenInv' /\ AgreeInv'
  BY DEF SingleInv
<1> DEFINE Good == HeldInv' /\ SeenInv' /\ AgreeInv'
           h    == service.connection
<1>a. /\ SocketTypes /\ ServiceTypes /\ ManagerTypes /\ OtherTypes /\ ManagerInv /\ Untouched
      /\ service \in Services /\ timer \in BOOLEAN
  BY DEF BaseInv, AllTypes, ServiceTypes, OtherTypes
<1>b. ~crossed => HeldInv /\ SeenInv /\ AgreeInv  BY DEF SingleInv
<1>c. 0 \notin Socket /\ h \in Socket \cup {0} /\ 0 \notin Id
  BY <1>a, ServiceIs DEF Socket, Id
\* The connection of a connected service is open and has parameters.
<1>d. ASSUME HeldInv, service.status = "connected"
      PROVE  /\ h \in Socket /\ socket[h].state = "open" /\ socket[h] \in Connections
             /\ service.params = socket[h].channel /\ service.params # None
  <2>1. h # 0  BY <1>d DEF HeldInv, Down
  <2>2. h \in Socket /\ Up  BY <1>c, <1>d, <2>1 DEF HeldInv
  <2>3. socket[h].state = "open" /\ service.params = socket[h].channel  BY <1>d, <2>2 DEF Up
  <2>4. socket[h].channel \in Channel /\ socket[h] \in Connections
    BY <1>a, <2>2, <2>3 DEF SocketTypes
  <2>5. QED  BY <2>2, <2>3, <2>4, ConstantTypes
<1>1. ASSUME NEW c \in Channel \cup {None}, Select(c) PROVE Good
  <2>1. ~crossed  BY <1>1 DEF Select
  <2>2. QED  BY <1>1, <1>b, <2>1, SelectHolds
<1>2. ASSUME NEW s \in Socket, Open(s) PROVE Good
  <2>1. ~crossed /\ UNCHANGED <<stray, selected>> /\ timer' = FALSE
        /\ service' = [service EXCEPT !.status = "connected", !.active = "active"]
    BY <1>2 DEF Open
  <2>2. HeldInv  BY <1>b, <2>1
  <2>3. /\ socket[s].state = "connecting" /\ socket'[s].state = "open"
        /\ \A r \in Socket :
              /\ socket'[r].channel = socket[r].channel /\ socket'[r].known = socket[r].known
              /\ r # s => socket'[r].state = socket[r].state
        /\ \A k \in Key : subs'[k].id = subs[k].id
        /\ service.connection = s /\ service.params # None
             => /\ \A k \in Key : subs'[k].last = None
                /\ \E order \in SetToSeqs(Again) : socket'[s].sent = socket[s].sent \o order
    BY <1>2, <1>a, OpenGives
  <2>4. h = s /\ h # 0 /\ Up  BY <1>c, <2>2, <2>3 DEF HeldInv
  <2>5. service.params # None
    <3>1. socket[s].channel \in Channel  BY <1>a, <2>3 DEF SocketTypes
    <3>2. QED  BY <2>4, <3>1, ConstantTypes DEF Up
  <2>6. /\ service'.connection = s /\ service'.status = "connected"
        /\ service'.params = service.params /\ service'.scheduled = service.scheduled
    BY <1>a, <2>1, <2>4 DEF Services
  <2>7. Up'  BY <2>1, <2>3, <2>4, <2>6 DEF Up
  <2>8. \A r \in Socket : socket'[r].state # "gone" <=> r = s
    BY <2>2, <2>3, <2>4 DEF HeldInv
  <2>9. HeldInv'  BY <2>1, <2>2, <2>4, <2>6, <2>7, <2>8 DEF HeldInv
  <2>10. SeenInv'  BY <2>3, <2>4, <2>5 DEF SeenInv
  <2>11. AgreeInv'
    <3>1. PICK order \in SetToSeqs(Again) : socket'[s].sent = socket[s].sent \o order
      BY <2>3, <2>4, <2>5
    <3>2. order \in Seq(Control) /\ Registered({}, order) = Ids  BY <1>a, AgainIs
    <3>3. socket[s].sent = <<>> /\ socket[s].known = {}
      BY <1>a, <2>3, GoneIs DEF Untouched
    <3>4. socket'[s].sent = order /\ socket'[s].known = {}  BY <2>3, <3>1, <3>2, <3>3
    <3>5. Ids' = Ids  BY <2>3 DEF Ids
    <3>6. QED  BY <2>6, <3>2, <3>4, <3>5 DEF AgreeInv
  <2>12. QED  BY <2>9, <2>10, <2>11
<1>3. ASSUME NEW s \in Socket, NEW code \in {"retry", "auth", "refused"}, Closed(s, code),
             socket[s].state # "gone"
      PROVE  Good
  <2>1. ~crossed  BY <1>3 DEF Closed
  <2>2. QED  BY <1>3, <1>b, <2>1, ClosedHolds
<1>4. ASSUME NEW s \in Socket, Serve(s) PROVE Good
  <2>1. ~crossed /\ UNCHANGED <<service, timer, stray, selected, subs>>
    BY <1>4 DEF Serve, timers, manager
  <2>2. HeldInv /\ SeenInv /\ AgreeInv  BY <1>b, <2>1
  <2>3. /\ socket[s].state = "open" /\ socket[s].sent # <<>>
        /\ \A r \in Socket : /\ socket'[r].channel = socket[r].channel
                             /\ socket'[r].state = socket[r].state
                             /\ r # s => socket'[r] = socket[r]
        /\ socket'[s].sent = Tail(socket[s].sent)
        /\ socket'[s].known = Handled(socket[s].known, Head(socket[s].sent))
    BY <1>4, <1>a, ServeGives
  <2>4. HeldInv'  BY <1>a, <2>1, <2>2, <2>3, StaysHeld
  <2>5. SeenInv'  BY <2>1, <2>2 DEF SeenInv
  <2>6. socket[s].sent \in Seq(Control)  BY <1>a, ConnectionIs DEF SocketTypes
  <2>7. Registered(socket'[s].known, socket'[s].sent) = Registered(socket[s].known, socket[s].sent)
    BY <2>3, <2>6, RegisteredTail
  <2>8. h = s  BY <2>2, <2>3 DEF HeldInv
  <2>9. Ids' = Ids  BY <2>1 DEF Ids
  <2>10. AgreeInv'  BY <2>1, <2>2, <2>7, <2>8, <2>9 DEF AgreeInv
  <2>11. QED  BY <2>4, <2>5, <2>10
<1>5. ASSUME NEW s \in Socket, NEW i \in Id \cup {0}, Message(s, i) PROVE Good
  <2> DEFINE keys == IF i = 0 THEN {} ELSE {k \in Key : subs[k].id = i}
             from == socket[s].channel
  <2>1. /\ ~crossed /\ socket[s].state = "open"
        /\ UNCHANGED <<socket, service, timer, stray, selected>>
        /\ subs' = [k \in Key |-> IF k \in keys THEN [subs[k] EXCEPT !.last = from] ELSE subs[k]]
    BY <1>5 DEF Message, browser
  <2>2. HeldInv /\ SeenInv /\ AgreeInv  BY <1>b, <2>1
  <2>3. HeldInv'  BY <1>a, <2>1, <2>2, StaysHeld
  <2>4. h = s /\ Up  BY <1>c, <2>1, <2>2 DEF HeldInv
  <2>5. from = service.params  BY <2>4 DEF Up
  <2> HIDE DEF keys, from
  <2>6. \A k \in Key : subs'[k].id = subs[k].id /\ subs'[k].last \in {subs[k].last, from}
    BY <1>a, <2>1 DEF ManagerTypes, Entries
  <2>7. SeenInv'  BY <2>1, <2>2, <2>5, <2>6 DEF SeenInv
  <2>8. Ids' = Ids  BY <2>6 DEF Ids
  <2>9. AgreeInv'  BY <2>1, <2>2, <2>8 DEF AgreeInv
  <2>10. QED  BY <2>3, <2>7, <2>9
<1>6. CASE Retry
  <2>1. ~crossed /\ UNCHANGED <<selected, subs>>  BY <1>6 DEF Retry, manager
  <2>2. HeldInv /\ SeenInv /\ AgreeInv /\ stray = 0  BY <1>b, <2>1 DEF HeldInv
  <2>3. timer /\ timer' = FALSE /\ stray' = 0
    <3>1. ~(stray > 0)  BY <2>2
    <3>2. QED  BY <1>6, <2>2, <3>1 DEF Retry
  <2>4. h = 0 /\ service.params # None /\ Down  BY <2>2, <2>3 DEF HeldInv
  <2>5. \A s \in Socket : socket[s].state = "gone"  BY <1>c, <2>2, <2>4 DEF HeldInv
  <2>6. Opens(service, socket, service.params, FALSE)  BY <1>6, <2>4 DEF Retry
  <2>7. service.params \in Channel  BY <1>a, <2>4, ServiceIs
  <2>8. service.scheduled = None /\ (selected' # None => selected' = service.params)
    BY <2>1, <2>4 DEF Down
  <2>9. socket \in [Socket -> Connections]  BY <1>a DEF SocketTypes
  <2>10. QED  BY <1>a, <2>3, <2>5, <2>6, <2>7, <2>8, <2>9, OpensHolds
<1>7. CASE Idle
  <2>1. /\ ~crossed /\ UNCHANGED <<socket, timer, stray, selected, subs>>
        /\ service' = [service EXCEPT !.active = "inactive"]
    BY <1>7 DEF Idle, browser, manager
  <2>2. HeldInv /\ SeenInv /\ AgreeInv  BY <1>b, <2>1
  <2>3. /\ service'.connection = service.connection /\ service'.scheduled = service.scheduled
        /\ service'.params = service.params /\ service'.status = service.status
    BY <1>a, <2>1 DEF Services
  <2>4. HeldInv'  BY <1>a, <2>1, <2>2, <2>3, StaysHeld
  <2>5. QED  BY <2>1, <2>2, <2>3, <2>4 DEF SeenInv, AgreeInv, Ids
<1>8. ASSUME NEW ok \in BOOLEAN, Renewed(ok) PROVE Good
  <2>1. ~crossed /\ UNCHANGED <<service, socket, timer, stray, selected, subs>>
    BY <1>8 DEF Renewed, timers, manager
  <2>2. HeldInv /\ SeenInv /\ AgreeInv  BY <1>b, <2>1
  <2>3. HeldInv'  BY <1>a, <2>1, <2>2, StaysHeld
  <2>4. QED  BY <2>1, <2>2, <2>3 DEF SeenInv, AgreeInv, Ids
<1>m. ASSUME NEW m \in Control, Sends(m), HeldInv, AgreeInv,
             UNCHANGED <<service, timer, stray, selected>>,
             Ids' = Handled(Ids, m)
      PROVE  HeldInv' /\ AgreeInv'
  <2>1. /\ \A s \in Socket : /\ socket'[s].state = socket[s].state
                             /\ socket'[s].channel = socket[s].channel
                             /\ socket'[s].known = socket[s].known
        /\ service.status = "connected" /\ service.params # None /\ h # 0
           /\ socket[h].state = "open"
             => socket'[h].sent = Append(socket[h].sent, m)
    BY <1>a, <1>m, SendsGives
  <2>2. HeldInv'  BY <1>a, <1>m, <2>1, StaysHeld
  <2>3. CASE service.status = "connected"
    <3>1. /\ h \in Socket /\ socket[h].state = "open" /\ socket[h] \in Connections
          /\ service.params # None
      BY <1>d, <1>m, <2>3
    <3>2. socket[h].sent \in Seq(Control)  BY <3>1, ConnectionIs
    <3>3. socket'[h].sent = Append(socket[h].sent, m) /\ socket'[h].known = socket[h].known
      BY <1>c, <2>1, <2>3, <3>1
    <3>4. Registered(socket[h].known, socket[h].sent) = Ids  BY <1>m, <2>3 DEF AgreeInv
    <3>5. Registered(socket'[h].known, socket'[h].sent) = Ids'
      BY <1>m, <3>2, <3>3, <3>4, RegisteredAppend
    <3>6. QED  BY <1>m, <2>2, <3>5 DEF AgreeInv
  <2>4. CASE service.status # "connected"  BY <1>m, <2>2, <2>4 DEF AgreeInv
  <2>5. QED  BY <2>3, <2>4
<1>9. ASSUME NEW l \in Listener, NEW k \in Key, Mount(l, k) PROVE Good
  <2>1. ~crossed /\ UNCHANGED <<service, timer, stray, selected>>
    BY <1>9 DEF Mount, timers
  <2>2. HeldInv /\ SeenInv /\ AgreeInv  BY <1>b, <2>1
  <2>3. /\ \A j \in Key : j # k => subs'[j] = subs[j]
        /\ IF subs[k].id = 0
           THEN \E i \in Id : /\ i \notin Ids /\ subs'[k].id = i /\ subs'[k].last = None
                              /\ Sends([action |-> "subscribe", id |-> i])
           ELSE subs' = subs /\ socket' = socket
    BY <1>9, <1>a, MountGives
  <2>4. CASE subs[k].id = 0
    <3>1. PICK i \in Id : /\ subs'[k].id = i /\ subs'[k].last = None
                          /\ Sends([action |-> "subscribe", id |-> i])
      BY <2>3, <2>4
    <3> DEFINE m == [action |-> "subscribe", id |-> i]
    <3>2. m \in Control /\ m.action = "subscribe" /\ m.id = i  BY DEF Control
    <3> HIDE DEF m
    <3>3. Ids' = Handled(Ids, m)
      <4>1. \A x : x \in Ids' <=> x \in Ids \cup {i}
        <5>1. \A x : x \in Ids' <=> x # 0 /\ \E j \in Key : subs'[j].id = x  BY DEF Ids
        <5>2. \A x : x \in Ids <=> x # 0 /\ \E j \in Key : subs[j].id = x  BY DEF Ids
        <5>3. QED  BY <1>c, <2>3, <2>4, <3>1, <5>1, <5>2
      <4>2. Handled(Ids, m) = Ids \cup {i}  BY <3>2 DEF Handled
      <4>3. QED  BY <4>1, <4>2
    <3>4. Sends(m)  BY <3>1 DEF m
    <3>5. HeldInv' /\ AgreeInv'  BY <1>m, <2>1, <2>2, <3>2, <3>3, <3>4
    <3>6. SeenInv'  BY <2>1, <2>2, <2>3, <3>1 DEF SeenInv
    <3>7. QED  BY <3>5, <3>6
  <2>5. CASE subs[k].id # 0
    <3>1. UNCHANGED <<subs, socket>>  BY <2>3, <2>5
    <3>2. HeldInv'  BY <1>a, <2>1, <2>2, <3>1, StaysHeld
    <3>3. QED  BY <2>1, <2>2, <3>1, <3>2 DEF SeenInv, AgreeInv, Ids
  <2>6. QED  BY <2>4, <2>5
<1>10. ASSUME NEW l \in Listener, Unmount(l) PROVE Good
  <2> DEFINE k     == wants[l]
             still == \E other \in Listener \ {l} : wants[other] = k
  <2>1. ~crossed /\ UNCHANGED <<service, timer, stray, selected>>
    BY <1>10 DEF Unmount, timers
  <2>2. HeldInv /\ SeenInv /\ AgreeInv  BY <1>b, <2>1
  <2>3. /\ k \in Key /\ \A j \in Key : j # k => subs'[j] = subs[j]
        /\ IF still THEN subs' = subs /\ socket' = socket
           ELSE /\ subs'[k] = NoSub
                /\ Sends([action |-> "unsubscribe", id |-> subs[k].id])
    BY <1>10, <1>a, UnmountGives
  <2>4. subs[k].id # 0  BY <1>a, <2>3 DEF ManagerInv
  <2> HIDE DEF still, k
  <2>5. CASE ~still
    <3> DEFINE i == subs[k].id
               m == [action |-> "unsubscribe", id |-> i]
    <3>1. i \in Id  BY <1>a, <2>3, <2>4, EntryIs DEF ManagerTypes
    <3>2. NoSub.id = 0 /\ NoSub.last = None  BY DEF NoSub
    <3>3. \A j \in Key : j # k => subs[j].id # i  BY <1>a, <2>3, <2>4 DEF ManagerInv
    <3>3a. Sends(m) /\ subs'[k] = NoSub  BY <2>3, <2>5
    <3>4. \A x : x \in Ids' <=> x \in Ids \ {i}
      <4>1. \A x : x \in Ids' <=> x # 0 /\ \E j \in Key : subs'[j].id = x  BY DEF Ids
      <4>2. \A x : x \in Ids <=> x # 0 /\ \E j \in Key : subs[j].id = x  BY DEF Ids
      <4>3. QED  BY <2>3, <3>2, <3>3, <3>3a, <4>1, <4>2
    <3> HIDE DEF i
    <3>5. m \in Control /\ m.action = "unsubscribe" /\ m.id = i  BY <3>1 DEF Control
    <3> HIDE DEF m
    <3>6. Ids' = Handled(Ids, m)  BY <3>4, <3>5 DEF Handled
    <3>7. HeldInv' /\ AgreeInv'  BY <1>m, <2>1, <2>2, <3>3a, <3>5, <3>6
    <3>8. SeenInv'  BY <2>1, <2>2, <2>3, <3>2, <3>3a DEF SeenInv
    <3>9. QED  BY <3>7, <3>8
  <2>6. CASE still
    <3>1. UNCHANGED <<subs, socket>>  BY <2>3, <2>6
    <3>2. HeldInv'  BY <1>a, <2>1, <2>2, <3>1, StaysHeld
    <3>3. QED  BY <2>1, <2>2, <3>1, <3>2 DEF SeenInv, AgreeInv, Ids
  <2>7. QED  BY <2>5, <2>6
<1>11. CASE UNCHANGED wvars
  <2>1. ~crossed /\ UNCHANGED <<service, socket, timer, stray, selected, subs>>
    BY <1>11 DEF wvars, browser, timers, manager
  <2>2. HeldInv /\ SeenInv /\ AgreeInv  BY <1>b, <2>1
  <2>3. HeldInv'  BY <1>a, <2>1, <2>2, StaysHeld
  <2>4. QED  BY <2>1, <2>2, <2>3 DEF SeenInv, AgreeInv, Ids
<1>12. ASSUME NEW s \in Socket, CloseDone(s) PROVE Good
  BY <1>3, <1>12 DEF CloseDone
<1>13. ASSUME NEW s \in Socket, NEW code \in {"retry", "auth", "refused"}, Lose(s, code) PROVE Good
  BY <1>3, <1>13 DEF Lose
<1>14. QED  BY <1>1, <1>2, <1>4, <1>5, <1>6, <1>7, <1>8, <1>9, <1>10, <1>11, <1>12, <1>13
            DEF WNext

LEMMA SingleAlways == WSpec => [](BaseInv /\ SingleInv)
<1>1. WInit => SingleInv
  <2> SUFFICES ASSUME WInit PROVE HeldInv /\ SeenInv /\ AgreeInv
    BY DEF SingleInv
  <2>1. \A s \in Socket : socket[s].state = "gone" /\ s # 0
    BY GoneIs DEF WInit, Socket
  <2>2. HeldInv  BY <2>1 DEF WInit, HeldInv, Down
  <2>3. QED  BY <2>2 DEF WInit, SeenInv, AgreeInv
<1>2. QED  BY <1>1, BaseAlways, SingleInductive, PTL DEF WSpec

\* The service holds every WebSocket there is, and at most one reconnection
\* timer runs, when there is none: until a renewed token reconnects what the
\* user has connected meanwhile (websocket.ts:59, 228).
THEOREM SingleConnection == WSpec => []OneConnection
<1>1. BaseInv /\ SingleInv => OneConnection
  BY DEF SingleInv, HeldInv, OneConnection, Live
<1>2. QED  BY <1>1, SingleAlways, PTL

\* A connected tab is connected to the channel that is selected, and whatever
\* its components are given comes from it (ChannelSelector.tsx,
\* subscriptionManager.ts).
THEOREM SelectedConnection == WSpec => []ConnectedToSelected
<1>1. BaseInv /\ SingleInv => ConnectedToSelected
  <2> SUFFICES ASSUME BaseInv, HeldInv, SeenInv, service.status = "connected", selected # None
               PROVE  /\ service.params = selected
                      /\ socket[service.connection].channel = selected
                      /\ \A k \in Key : subs[k].last \in {None, selected}
    BY DEF SingleInv, ConnectedToSelected
  <2>1. Up  BY DEF HeldInv, Down
  <2>2. QED  BY <2>1 DEF Up, SeenInv
<1>2. QED  BY <1>1, SingleAlways, PTL

\* Once the control messages under way have arrived, the server serves a
\* connected tab exactly what its components listen to, however mounting,
\* unmounting, losing the connection and selecting a channel interleave
\* (subscriptionManager.ts, server.py).
THEOREM SidesAgree == WSpec => []SubscriptionsAgree
<1>1. BaseInv /\ SingleInv => SubscriptionsAgree
  BY DEF SingleInv, AgreeInv, SubscriptionsAgree
<1>2. QED  BY <1>1, SingleAlways, PTL
=============================================================================
