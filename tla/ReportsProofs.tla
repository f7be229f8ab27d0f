----------------------------- MODULE ReportsProofs -----------------------------
(***************************************************************************)
(* The aggregate settles for any offsets of its policy that leave the job   *)
(* time, a chart is bounded for any period and any steps, and the views on  *)
(* the packets and the two charts add up to the same numbers.               *)
(***************************************************************************)
EXTENDS Reports, FiniteSetTheorems, NaturalsInduction, WellFoundedInduction, TLAPS

LEMMA FlowTypes ==
    /\ Start \in Nat \ {0} /\ End \in Nat \ {0} /\ Gap \in Nat \ {0}
    /\ Lag \in Nat /\ Ahead \in Nat /\ MaxNow \in Nat
    /\ MaxPackets \in Nat /\ MaxFaults \in Nat
    /\ Lag + Gap < Start /\ End + Gap < Start
BY FlowsAssumption DEF FlowsAssumption

(***************************************************************************)
(* Type correctness.                                                        *)
(***************************************************************************)
LEMMA FlowsTypeStep == FTypeOK /\ [FNext]_fvars => FTypeOK'
<1> SUFFICES ASSUME FTypeOK, [FNext]_fvars PROVE FTypeOK'
  OBVIOUS
<1> USE FlowTypes DEF FTypeOK
<1>s. ASSUME NEW k \in Kind, NEW s \in Second, Store(k, s)
      PROVE  /\ flows' \in [Second -> [Kind -> Nat]]
             /\ stored' \in 0..MaxPackets
             /\ UNCHANGED <<now, telemetry, registered, stale>>
  BY <1>s DEF Store
<1>1. CASE Register
  BY <1>1 DEF Register
<1>2. ASSUME NEW k \in Kind, NEW s \in Second, Insert(k, s)
      PROVE  FTypeOK'
  BY <1>2, <1>s DEF Insert
<1>3. ASSUME NEW k \in Kind, NEW s \in Second, InsertLate(k, s)
      PROVE  FTypeOK'
  BY <1>3, <1>s DEF InsertLate
<1>4. ASSUME NEW late \in {0, 1}, Refresh(late)
      PROVE  FTypeOK'
  BY <1>4 DEF Refresh
<1>5. CASE Tick
  BY <1>5 DEF Tick
<1>6. CASE Outage
  BY <1>6 DEF Outage
<1>7. CASE UNCHANGED fvars
  BY <1>7 DEF fvars
<1>8. QED
  BY <1>1, <1>2, <1>3, <1>4, <1>5, <1>6, <1>7 DEF FNext

\* Every second has a bag of packets, and the history of the job keeps its shape.
THEOREM FlowsTypeCorrect == FSpec => []FTypeOK
<1>1. ASSUME FInit PROVE FTypeOK
  <2>1. NoPackets \in [Kind -> Nat]
    BY DEF NoPackets
  <2>2. flows \in [Second -> [Kind -> Nat]]
    BY <1>1, <2>1 DEF FInit
  <2>3. DOMAIN telemetry = Second /\ registered \in BOOLEAN
    BY <1>1, Zenon DEF FInit
  <2>4. QED
    BY <1>1, <2>2, <2>3, FlowTypes DEF FInit, FTypeOK
<1>2. QED
  BY <1>1, FlowsTypeStep, PTL DEF FSpec

(***************************************************************************)
(* The aggregate settles.  A second whose rows are not those of its packets *)
(* had its last packet, or the end of its window, after the last refresh:   *)
(* that refresh was not later than Reach seconds after it.  The job is back *)
(* within Gap, so it still finds the second in its window.                  *)
(***************************************************************************)
Reach == IF Lag < End THEN End ELSE Lag

SettleInv ==
    \A s \in Second : s \in missed \/ telemetry[s] = Rows(flows[s]) \/ now - stale <= s + Reach

LEMMA ReachType ==
    /\ Reach \in Nat /\ Lag <= Reach /\ End <= Reach /\ Reach + Gap < Start
BY FlowTypes DEF Reach

LEMMA SettleGives == FTypeOK /\ SettleInv => TelemetrySettles
BY FlowTypes, ReachType DEF FTypeOK, SettleInv, TelemetrySettles, Second

LEMMA SettleStep == FTypeOK /\ SettleInv /\ [FNext]_fvars => SettleInv'
<1> SUFFICES ASSUME FTypeOK, SettleInv, [FNext]_fvars, NEW z \in Second
             PROVE  (z \in missed \/ telemetry[z] = Rows(flows[z]) \/ now - stale <= z + Reach)'
  BY DEF SettleInv
<1> USE FlowTypes, ReachType
<1>t. /\ now \in 0..MaxNow /\ stale \in 0..Gap /\ z \in Int
      /\ flows \in [Second -> [Kind -> Nat]] /\ DOMAIN telemetry = Second
  BY DEF FTypeOK, Second
<1>i. z \in missed \/ telemetry[z] = Rows(flows[z]) \/ now - stale <= z + Reach
  BY DEF SettleInv
<1>s. ASSUME NEW k \in Kind, NEW s \in Second, Store(k, s)
      PROVE  /\ s # z => flows'[z] = flows[z]
             /\ UNCHANGED <<now, telemetry, registered, stale>>
  BY <1>s, <1>t DEF Store
<1>1. CASE Register
  BY <1>1, <1>i DEF Register
<1>2. ASSUME NEW k \in Kind, NEW s \in Second, Insert(k, s)
      PROVE  (z \in missed \/ telemetry[z] = Rows(flows[z]) \/ now - stale <= z + Reach)'
  <2>1. CASE s = z
    BY <1>2, <1>s, <1>t, <2>1 DEF Insert
  <2>2. CASE s # z
    BY <1>2, <1>s, <1>i, <2>2 DEF Insert
  <2>3. QED
    BY <2>1, <2>2
<1>3. ASSUME NEW k \in Kind, NEW s \in Second, InsertLate(k, s)
      PROVE  (z \in missed \/ telemetry[z] = Rows(flows[z]) \/ now - stale <= z + Reach)'
  <2>1. CASE s = z
    BY <1>3, <2>1 DEF InsertLate
  <2>2. CASE s # z
    BY <1>3, <1>s, <1>i, <2>2 DEF InsertLate
  <2>3. QED
    BY <2>1, <2>2
<1>4. ASSUME NEW late \in {0, 1}, Refresh(late)
      PROVE  (z \in missed \/ telemetry[z] = Rows(flows[z]) \/ now - stale <= z + Reach)'
  <2>1. CASE z \in Window(late)
    BY <1>4, <2>1 DEF Refresh
  <2>2. CASE now - End <= z
    BY <1>4, <1>t, <2>2 DEF Refresh
  <2>3. CASE z \notin Window(late) /\ z < now - End
    <3>1. z < now - Start + late
      BY <1>t, <2>3 DEF Window
    <3>2. ~(now - stale <= z + Reach)
      BY <1>t, <3>1
    <3>3. QED
      BY <1>4, <1>i, <2>3, <3>2 DEF Refresh
  <2>4. QED
    BY <1>t, <2>1, <2>2, <2>3
<1>5. CASE Tick
  BY <1>5, <1>i, <1>t DEF Tick
<1>6. CASE Outage
  <2>1. CASE now - Start <= z /\ z <= now
    BY <1>6, <2>1 DEF Outage
  <2>2. CASE z < now - Start
    <3>1. ~(now - stale <= z + Reach)
      BY <1>t, <2>2
    <3>2. QED
      BY <1>6, <1>i, <3>1 DEF Outage
  <2>3. CASE now < z
    BY <1>6, <1>t, <2>3 DEF Outage
  <2>4. QED
    BY <1>t, <2>1, <2>2, <2>3
<1>7. CASE UNCHANGED fvars
  BY <1>7, <1>i DEF fvars
<1>8. QED
  BY <1>1, <1>2, <1>3, <1>4, <1>5, <1>6, <1>7 DEF FNext

\* A second that has left the window of the job has in telemetry_1s the rows of
\* its packets, unless a packet of it came later than Lag or the job was down.
THEOREM Settles == FSpec => []TelemetrySettles
<1>1. FInit => SettleInv
  BY DEF FInit, SettleInv
<1>2. QED
  BY <1>1, FlowsTypeCorrect, SettleStep, SettleGives, PTL DEF FSpec

(***************************************************************************)
(* The size of a bucket, for any set of steps.                              *)
(***************************************************************************)
LEMMA LeastNumber ==
    ASSUME NEW S \in SUBSET Nat, S # {}
    PROVE  \E x \in S : \A y \in S : x <= y
<1>1. IsWellFoundedOn(OpToRel(<, Nat), Nat)
  BY NatLessThanWellFounded
<1>2. PICK x \in S : \A y \in S : ~(<<y, x>> \in OpToRel(<, Nat))
  BY <1>1, WFMin, Zenon
<1>3. \A y \in S : ~(y < x)
  BY <1>2, Zenon DEF OpToRel
<1>4. \A y \in S : x <= y
  BY <1>3
<1>5. QED
  BY <1>4

LEMMA LeastElement ==
    ASSUME NEW S \in SUBSET Nat, S # {}
    PROVE  Min(S) \in S
BY LeastNumber DEF Min

LEMMA LargerOf ==
    ASSUME NEW m \in Nat, NEW n \in Nat
    PROVE  /\ Max({m, n}) \in {m, n} /\ Max({m, n}) >= m /\ Max({m, n}) >= n
<1>1. \E x \in {m, n} : \A y \in {m, n} : x >= y
  BY m >= n \/ n >= m
<1>2. QED
  BY <1>1 DEF Max

\* A bucket is at least half as long as the period needs for Target buckets: it
\* is a step that is as long, or as many whole hours as fit in.
LEMMA IntervalBound ==
    ASSUME NEW period \in Nat
    PROVE  /\ Interval(period) \in Nat \ {0}
           /\ period < 2 * Target * Interval(period)
<1> DEFINE raw  == Max({1, period \div Target})
           fits == {s \in Steps : raw <= s}
<1>0. Target \in Nat \ {0} /\ Hour \in Nat \ {0} /\ Steps \subseteq Nat \ {0}
  BY ReportsAssumption DEF ReportsAssumption
<1>1. period \div Target \in Nat /\ period < Target * (period \div Target + 1)
  BY <1>0
<1>2. raw \in Nat /\ raw >= 1 /\ raw >= period \div Target
  BY <1>1, LargerOf
<1>3. period < Target * (raw + 1)
  BY <1>0, <1>1, <1>2
<1>4. SUFFICES Interval(period) \in Nat \ {0} /\ raw + 1 <= 2 * Interval(period)
  BY <1>0, <1>2, <1>3
<1> HIDE DEF raw
<1>5. CASE fits # {}
  <2>1. Interval(period) = Min(fits)
    BY <1>5 DEF Interval, raw
  <2>2. Min(fits) \in fits
    BY <1>0, <1>5, LeastElement
  <2>3. Interval(period) \in fits
    BY <2>1, <2>2, Zenon
  <2>4. Interval(period) \in Steps /\ raw <= Interval(period)
    BY <2>3, Zenon
  <2>5. Interval(period) \in Nat \ {0}
    BY <1>0, <2>4, Zenon
  <2> HIDE DEF fits
  <2>6. QED
    BY <1>2, <2>4, <2>5
<1>6. CASE fits = {}
  <2>1. Interval(period) = Max({Hour, (raw \div Hour) * Hour})
    BY <1>6 DEF Interval, raw
  <2>2. /\ raw \div Hour \in Nat /\ (raw \div Hour) * Hour \in Nat
        /\ raw < (raw \div Hour) * Hour + Hour
    BY <1>0, <1>2
  <2>3. QED
    BY <1>0, <1>2, <2>1, <2>2, LargerOf
<1>7. QED
  BY <1>5, <1>6

\* A chart has at most twice the points it aims at, whatever the period, the
\* steps and the hour are.
THEOREM ChartBounded == \A period \in Nat : BoundedPoints(period)
<1> TAKE period \in Nat
<1> DEFINE step == Interval(period)
<1>1. Target \in Nat \ {0}
  BY ReportsAssumption DEF ReportsAssumption
<1>2. step \in Nat \ {0} /\ period < 2 * Target * step
  BY IntervalBound
<1>3. period \div step < 2 * Target
  BY <1>1, <1>2
<1>4. period \div step \in Nat
  BY <1>2
<1>5. QED
  BY <1>1, <1>3, <1>4 DEF BoundedPoints, Count

(***************************************************************************)
(* A snapshot and the next push.  The sums of both are the same terms; what *)
(* is left to show is that leaving the bytes out of the rows of a page does *)
(* not make two rows one.                                                   *)
(***************************************************************************)
LEMMA SecondsFinite == IsFiniteSet(Kind) => \A period : IsFiniteSet(Packets(period))
<1> SUFFICES ASSUME IsFiniteSet(Kind), NEW period PROVE IsFiniteSet(Packets(period))
  OBVIOUS
<1>1. IsFiniteSet(Second)
  <2>1. 0 \in Int /\ MaxNow + Ahead \in Int  BY FlowTypes
  <2>2. QED  BY <2>1, FS_Interval DEF Second
<1>2. IsFiniteSet(Kind \X Second)  BY <1>1, FS_Product
<1>3. Packets(period) \subseteq Kind \X Second  BY DEF Packets
<1>4. QED  BY <1>2, <1>3, FS_Subset

\* What identifies a row stays in it without the bytes.
Keyed(rows) ==
    \/ /\ \A row \in rows : "ip" \in DOMAIN row
       /\ \A a, b \in rows : a["ip"] = b["ip"] => a = b
    \/ /\ \A row \in rows : "port" \in DOMAIN row /\ "protocol" \in DOMAIN row
       /\ \A a, b \in rows : a["port"] = b["port"] /\ a["protocol"] = b["protocol"] => a = b

LEMMA PlainIs ==
    ASSUME NEW row
    PROVE  /\ \A f \in DOMAIN row : f \notin Bytewise
                 => f \in DOMAIN Plain(row) /\ Plain(row)[f] = row[f]
           /\ Agrees(Plain(row), row)
BY DEF Plain, Agrees

LEMMA PlainKeeps ==
    ASSUME NEW rows, IsFiniteSet(rows), Keyed(rows)
    PROVE  LET plain == {Plain(row) : row \in rows}
           IN  /\ Cardinality(plain) = Cardinality(rows)
               /\ \A row \in plain : \E other \in rows : Agrees(row, other)
<1> DEFINE plain == {Plain(row) : row \in rows}
           image == [row \in rows |-> Plain(row)]
<1>1. "ip" \notin Bytewise /\ "port" \notin Bytewise /\ "protocol" \notin Bytewise
  BY DEF Bytewise
<1>2. \A a, b \in rows : Plain(a) = Plain(b) => a = b
  <2>1. ASSUME NEW a \in rows, NEW b \in rows, Plain(a) = Plain(b) PROVE a = b
    <3>1. \A f \in DOMAIN a : f \notin Bytewise => Plain(a)[f] = a[f]  BY PlainIs
    <3>2. \A f \in DOMAIN b : f \notin Bytewise => Plain(b)[f] = b[f]  BY PlainIs
    <3>3. \A f : f \in DOMAIN a /\ f \in DOMAIN b /\ f \notin Bytewise => a[f] = b[f]
      BY <2>1, <3>1, <3>2
    <3>4. QED  BY <1>1, <3>3 DEF Keyed
  <2>2. QED  BY <2>1
<1>3. image \in Surjection(rows, plain)  BY DEF Surjection
<1>4. image \in Injection(rows, plain)  BY <1>2 DEF Injection, IsInjective
<1>5. Cardinality(plain) = Cardinality(rows)
  <2> HIDE DEF image, plain
  <2>1. QED  BY <1>3, <1>4, FS_Surjection
<1>6. \A row \in plain : \E other \in rows : Agrees(row, other)  BY PlainIs
<1>7. QED  BY <1>5, <1>6

LEMMA TableKeyed ==
    ASSUME IsFiniteSet(Kind), NEW period
    PROVE  IsFiniteSet(HostsTable(period)) /\ Keyed(HostsTable(period))
<1> DEFINE P     == Packets(period)
           hosts == {Local(p) : p \in P} \cup {Remote(p) : p \in P}
           local == [p \in P |-> Local(p)]
           remote == [p \in P |-> Remote(p)]
           rows  == [h \in hosts |-> HostRow(h, P)]
<1>1. IsFiniteSet(P)  BY SecondsFinite
<1>2. local \in Surjection(P, {Local(p) : p \in P})  BY DEF Surjection
<1>3. remote \in Surjection(P, {Remote(p) : p \in P})  BY DEF Surjection
<1>4. IsFiniteSet({Local(p) : p \in P}) /\ IsFiniteSet({Remote(p) : p \in P})
  BY <1>1, <1>2, <1>3, FS_Surjection
<1>5. IsFiniteSet(hosts)  BY <1>4, FS_Union
<1>6. HostsTable(period) = {HostRow(h, P) : h \in hosts}  BY DEF HostsTable
<1>7. \A h : HostRow(h, P)["ip"] = h /\ "ip" \in DOMAIN HostRow(h, P)  BY DEF HostRow
<1> HIDE DEF P, hosts
<1>8. rows \in Surjection(hosts, HostsTable(period))  BY <1>6 DEF Surjection
<1>9. IsFiniteSet(HostsTable(period))  BY <1>5, <1>8, FS_Surjection
<1>10. Keyed(HostsTable(period))  BY <1>6, <1>7 DEF Keyed
<1>11. QED  BY <1>9, <1>10

LEMMA DestinationsKeyed ==
    ASSUME IsFiniteSet(Kind), NEW h, NEW period
    PROVE  IsFiniteSet(TopDestinations(h, period)) /\ Keyed(TopDestinations(h, period))
<1> DEFINE P       == LocalOf(h, period)
           remotes == {Remote(p) : p \in P}
           row(r)  == LET of == {p \in P : Remote(p) = r} IN
                      [ip |-> r, location |-> "WAN", received |-> Num(of),
                       received_bytes |-> Bytes(of), last_seen |-> Max({p[2] : p \in of})]
           remote  == [p \in P |-> Remote(p)]
           rows    == [r \in remotes |-> row(r)]
<1>1. IsFiniteSet(P)
  <2>1. P \subseteq Packets(period)  BY DEF LocalOf
  <2>2. QED  BY <2>1, SecondsFinite, FS_Subset
<1>2. remote \in Surjection(P, remotes)  BY DEF Surjection
<1>3. TopDestinations(h, period) = {row(r) : r \in remotes}  BY DEF TopDestinations
<1>4. \A r : row(r)["ip"] = r /\ "ip" \in DOMAIN row(r)  OBVIOUS
<1> HIDE DEF P, row
<1>5. IsFiniteSet(remotes)
  <2> HIDE DEF remote, remotes
  <2>1. QED  BY <1>1, <1>2, FS_Surjection
<1> HIDE DEF remotes
<1>6. rows \in Surjection(remotes, TopDestinations(h, period))  BY <1>3 DEF Surjection
<1> HIDE DEF rows
<1>7. IsFiniteSet(TopDestinations(h, period))  BY <1>5, <1>6, FS_Surjection
<1>8. Keyed(TopDestinations(h, period))  BY <1>3, <1>4 DEF Keyed
<1>9. QED  BY <1>7, <1>8

LEMMA PortsKeyed ==
    ASSUME IsFiniteSet(Kind), NEW h, NEW period
    PROVE  IsFiniteSet(TopPorts(h, period)) /\ Keyed(TopPorts(h, period))
<1> DEFINE P      == LocalOf(h, period)
           group(p) == <<RemotePort(p), p[1].protocol>>
           groups == {group(p) : p \in P}
           row(g) == LET of == {p \in P : RemotePort(p) = g[1] /\ p[1].protocol = g[2]} IN
                     [port |-> g[1], protocol |-> g[2], packets |-> Num(of), bytes |-> Bytes(of)]
           grouped == [p \in P |-> group(p)]
           rows    == [g \in groups |-> row(g)]
<1>1. IsFiniteSet(P)
  <2>1. P \subseteq Packets(period)  BY DEF LocalOf
  <2>2. QED  BY <2>1, SecondsFinite, FS_Subset
<1>2. TopPorts(h, period) = {row(g) : g \in groups}  BY DEF TopPorts
<1>3. \A g : /\ row(g)["port"] = g[1] /\ row(g)["protocol"] = g[2]
             /\ "port" \in DOMAIN row(g) /\ "protocol" \in DOMAIN row(g)
  OBVIOUS
<1>4. \A g, j \in groups : g[1] = j[1] /\ g[2] = j[2] => g = j
  OBVIOUS
<1> HIDE DEF P, row, group
<1>5. grouped \in Surjection(P, groups)  BY DEF Surjection
<1>6. IsFiniteSet(groups)
  <2> HIDE DEF grouped, groups
  <2>1. QED  BY <1>1, <1>5, FS_Surjection
<1> HIDE DEF groups
<1>7. rows \in Surjection(groups, TopPorts(h, period))  BY <1>2 DEF Surjection
<1> HIDE DEF rows
<1>8. IsFiniteSet(TopPorts(h, period))  BY <1>6, <1>7, FS_Surjection
<1>9. Keyed(TopPorts(h, period))
  <2>1. \A row1 \in TopPorts(h, period) : "port" \in DOMAIN row1 /\ "protocol" \in DOMAIN row1
    BY <1>2, <1>3
  <2>2. ASSUME NEW a \in TopPorts(h, period), NEW b \in TopPorts(h, period),
               a["port"] = b["port"], a["protocol"] = b["protocol"]
        PROVE  a = b
    <3>1. PICK g \in groups : a = row(g)  BY <1>2
    <3>2. PICK j \in groups : b = row(j)  BY <1>2
    <3>3. g = j  BY <1>3, <1>4, <2>2, <3>1, <3>2
    <3>4. QED  BY <3>1, <3>2, <3>3
  <2>3. QED  BY <2>1, <2>2 DEF Keyed
<1>10. QED  BY <1>8, <1>9

LEMMA PageIs ==
    ASSUME NEW rows, IsFiniteSet(rows), Keyed(rows), NEW r
    PROVE  PageAgrees(BriefPage(Page(rows, r)), Page(rows, r))
<1> DEFINE page  == Page(rows, r)
           brief == BriefPage(page)
           plain == {Plain(row) : row \in rows}
<1>1. page.of = rows /\ page = [of |-> page.of, size |-> page.size, total_count |-> page.total_count]
  BY DEF Page
<1>2. brief = [page EXCEPT !.of = plain]
  BY <1>1 DEF BriefPage
<1> HIDE DEF page, plain
<1>3. brief.of = plain /\ brief.size = page.size /\ brief.total_count = page.total_count
  <2> HIDE DEF brief
  <2>1. QED  BY <1>1, <1>2
<1>4. Cardinality(plain) = Cardinality(rows) /\ \A row \in plain : \E other \in rows : Agrees(row, other)
  BY PlainKeeps DEF plain
<1> HIDE DEF brief
<1>5. PageAgrees(brief, page)  BY <1>1, <1>3, <1>4 DEF PageAgrees
<1>6. QED  BY <1>5 DEF brief, page

\* None stands for a message that is not sent: it is no answer.
NoneIsNoAnswer ==
    /\ \A of, size, count : None # [of |-> of, size |-> size, total_count |-> count]
    /\ \A tx, rx, tb, rb : None # [tx |-> tx, rx |-> rx, tx_bytes |-> tb, rx_bytes |-> rb]
    /\ \A w, i, o, t :
          None # [window |-> w, direction_in |-> i, direction_out |-> o, timestamp |-> t]

LEMMA BriefAgrees ==
    ASSUME NEW window PROVE TelemetryAgrees(Brief(Telemetry(window)), Telemetry(window))
<1> DEFINE t == Telemetry(window)
<1>1. /\ Brief(t).window = t.window /\ Brief(t).timestamp = t.timestamp
      /\ Brief(t).direction_in = Side(t.direction_in)
      /\ Brief(t).direction_out = Side(t.direction_out)
  BY DEF Brief
<1>2. ASSUME NEW m PROVE Agrees(Side(m), m)
  BY DEF Agrees, Side
<1> HIDE DEF t
<1>3. TelemetryAgrees(Brief(t), t)  BY <1>1, <1>2 DEF TelemetryAgrees
<1>4. QED  BY <1>3 DEF t

LEMMA FilteredKeyed ==
    ASSUME IsFiniteSet(Kind), NEW r, NEW period
    PROVE  IsFiniteSet(Filtered(r, period)) /\ Keyed(Filtered(r, period))
<1>1. Filtered(r, period) \subseteq HostsTable(period)  BY DEF Filtered
<1>2. IsFiniteSet(HostsTable(period)) /\ Keyed(HostsTable(period))  BY TableKeyed
<1>3. IsFiniteSet(Filtered(r, period))  BY <1>1, <1>2, FS_Subset
<1>4. Keyed(Filtered(r, period))  BY <1>1, <1>2 DEF Keyed
<1>5. QED  BY <1>3, <1>4

\* The targets of the requests.
Targets == {"telemetry", "hosts_table", "host_details", "host_top_destinations", "host_top_ports"}

LEMMA AnswersMatch ==
    ASSUME NoneIsNoAnswer, NEW r \in Asked
    PROVE  AnswerAgrees(r, Snapshot(r), Push(r))
<1> DEFINE s == Snapshot(r)
           p == Push(r)
<1>0. r.target \in Targets
  BY AskedAssumption DEF Request, Targets
<1>f. IsFiniteSet(Kind)  BY FlowsAssumption
<1>p. ASSUME NEW rows, NEW q PROVE Page(rows, q) # None
  BY DEF NoneIsNoAnswer, Page
<1>s. SUFFICES AnswerAgrees(r, s, p)
  OBVIOUS
<1>1. CASE r.target = "telemetry"
  <2>1. s = SnapshotTelemetry(r) /\ p = PushTelemetry(r)  BY <1>1 DEF Snapshot, Push
  <2>2. \A w : Telemetry(w) # None  BY DEF NoneIsNoAnswer, Telemetry
  <2> HIDE DEF s, p
  <2>3. CASE registered
    <3>1. p = Telemetry(Given(r.window, PushWindow)) /\ s = Brief(Telemetry(Given(r.window, SnapshotWindow)))
      BY <2>1, <2>3 DEF SnapshotTelemetry, PushTelemetry
    <3>2. r.window # None => TelemetryAgrees(s, p)
      BY <3>1, BriefAgrees DEF Given
    <3>3. QED  BY <1>1, <2>2, <3>1, <3>2 DEF AnswerAgrees
  <2>4. CASE ~registered
    BY <2>1, <2>4 DEF SnapshotTelemetry, PushTelemetry, AnswerAgrees
  <2>5. QED  BY <2>3, <2>4
<1>2. CASE r.target = "hosts_table"
  <2> DEFINE rows == Filtered(r, Given(r.period, DefaultPeriod))
  <2>1. s = BriefPage(Page(rows, r)) /\ p = Page(rows, r)
    BY <1>2 DEF Snapshot, Push, SnapshotHosts, PushHosts
  <2>2. IsFiniteSet(rows) /\ Keyed(rows)  BY <1>f, FilteredKeyed
  <2> HIDE DEF s, p, rows
  <2>3. PageAgrees(s, p) /\ p # None  BY <1>p, <2>1, <2>2, PageIs
  <2>4. QED  BY <1>2, <2>3 DEF AnswerAgrees
<1>3. CASE r.target = "host_details"
  <2>1. s = SnapshotDetails(r) /\ p = PushDetails(r)  BY <1>3 DEF Snapshot, Push
  <2> HIDE DEF s, p
  <2>2. CASE r.host_ip = None
    BY <2>1, <2>2 DEF AnswerAgrees, SnapshotDetails, PushDetails
  <2>3. CASE r.host_ip # None
    <3> DEFINE d == HostDetails(r.host_ip, Given(r.period, DefaultPeriod))
    <3>1. s = Plain(d) /\ p = d  BY <2>1, <2>3 DEF SnapshotDetails, PushDetails
    <3>2. d # None  BY DEF HostDetails, NoneIsNoAnswer
    <3> HIDE DEF d
    <3>3. Agrees(s, p)  BY <3>1, PlainIs
    <3>4. QED  BY <1>3, <3>1, <3>2, <3>3 DEF AnswerAgrees
  <2>4. QED  BY <2>2, <2>3
<1>4. CASE r.target = "host_top_destinations"
  <2>1. s = SnapshotDestinations(r) /\ p = PushDestinations(r)  BY <1>4 DEF Snapshot, Push
  <2> HIDE DEF s, p
  <2>2. CASE r.host_ip = None
    BY <2>1, <2>2 DEF AnswerAgrees, SnapshotDestinations, PushDestinations
  <2>3. CASE r.host_ip # None
    <3> DEFINE rows == TopDestinations(r.host_ip, Given(r.period, DefaultPeriod))
    <3>1. s = BriefPage(Page(rows, r)) /\ p = Page(rows, r)
      BY <2>1, <2>3 DEF SnapshotDestinations, PushDestinations
    <3>2. IsFiniteSet(rows) /\ Keyed(rows)  BY <1>f, DestinationsKeyed
    <3> HIDE DEF rows
    <3>3. PageAgrees(s, p) /\ p # None  BY <1>p, <3>1, <3>2, PageIs
    <3>4. QED  BY <1>4, <3>3 DEF AnswerAgrees
  <2>4. QED  BY <2>2, <2>3
<1>5. CASE r.target = "host_top_ports"
  <2>1. s = SnapshotPorts(r) /\ p = PushPorts(r)  BY <1>5 DEF Snapshot, Push
  <2> HIDE DEF s, p
  <2>2. CASE r.host_ip = None
    BY <2>1, <2>2 DEF AnswerAgrees, SnapshotPorts, PushPorts
  <2>3. CASE r.host_ip # None
    <3> DEFINE rows == TopPorts(r.host_ip, Given(r.period, DefaultPeriod))
    <3>1. s = BriefPage(Page(rows, r)) /\ p = Page(rows, r)
      BY <2>1, <2>3 DEF SnapshotPorts, PushPorts
    <3>2. IsFiniteSet(rows) /\ Keyed(rows)  BY <1>f, PortsKeyed
    <3> HIDE DEF rows
    <3>3. PageAgrees(s, p) /\ p # None  BY <1>p, <3>1, <3>2, PageIs
    <3>4. QED  BY <1>5, <3>3 DEF AnswerAgrees
  <2>4. QED  BY <2>2, <2>3
<1>6. QED  BY <1>0, <1>1, <1>2, <1>3, <1>4, <1>5 DEF Targets

\* The first answer to a subscription and the next push, from the same data,
\* tell the same of what both carry: for any packets, periods, windows and
\* limits, and any of the requests (snapshot.py, reporting/handlers).
THEOREM SnapshotsMatch ==
    ASSUME NoneIsNoAnswer PROVE FSpec => []SnapshotMatchesPush
<1>1. FTypeOK => SnapshotMatchesPush
  <2>1. SnapshotMatchesPush  BY AnswersMatch DEF SnapshotMatchesPush
  <2>2. QED  BY <2>1
<1>2. QED  BY <1>1, FlowsTypeCorrect, PTL

(***************************************************************************)
(* Sums.  The sum over a set of numbers w[x] is the cardinality of a set:   *)
(* of its units, w[x] of them for each x.  Counting them shows that the     *)
(* fold satisfies its equation and does not depend on how it picks.         *)
(***************************************************************************)
Units(w, T) == {u \in T \X Nat : u[2] < w[u[1]]}
Mass(w, T)  == Cardinality(Units(w, T))
Pick(T)     == CHOOSE x \in T : TRUE

\* The equation of the fold of a sum over the subsets of S.
Folds(it, w, S) ==
    it = [T \in SUBSET S |-> IF T = {} THEN 0 ELSE w[Pick(T)] + it[T \ {Pick(T)}]]

\* Induction over a finite set, for a set of good subsets.
LEMMA SetInduction ==
    ASSUME NEW S, IsFiniteSet(S), NEW B, {} \in B,
           \A T \in SUBSET S : T # {} /\ (\A x \in T : T \ {x} \in B) => T \in B
    PROVE  \A T \in SUBSET S : T \in B
<1> DEFINE bad   == (SUBSET S) \ B
           sizes == {Cardinality(T) : T \in bad}
<1>1. \A T \in SUBSET S : IsFiniteSet(T) /\ Cardinality(T) \in Nat
  BY FS_Subset, FS_CardinalityType
<1>2. SUFFICES ASSUME bad # {} PROVE FALSE
  OBVIOUS
<1>3. sizes \subseteq Nat /\ sizes # {}
  BY <1>1, <1>2
<1>4. PICK n \in sizes : \A m \in sizes : n <= m
  <2> HIDE DEF sizes
  <2>1. QED  BY <1>3, LeastNumber
<1>5. PICK T \in bad : n = Cardinality(T)
  BY <1>4
<1>6. T # {}  OBVIOUS
<1>7. ASSUME NEW x \in T PROVE T \ {x} \in B
  <2>1. T \ {x} \in SUBSET S /\ Cardinality(T \ {x}) = Cardinality(T) - 1
    BY <1>1, FS_RemoveElement
  <2>2. ~(n <= Cardinality(T \ {x}))
    BY <1>1, <1>5, <2>1
  <2>3. QED  BY <1>4, <2>1, <2>2
<1>8. QED  BY <1>6, <1>7

LEMMA UnitsOfOne ==
    ASSUME NEW D, NEW w \in [D -> Nat], NEW x \in D
    PROVE  IsFiniteSet(Units(w, {x})) /\ Mass(w, {x}) = w[x]
<1> DEFINE n == w[x]
           unit == [i \in 0..(n - 1) |-> <<x, i>>]
           units == Units(w, {x})
<1>1. n \in Nat  OBVIOUS
<1>2. IsFiniteSet(0..(n - 1)) /\ Cardinality(0..(n - 1)) = n
  BY <1>1, FS_Interval
<1>3. units = {<<x, i>> : i \in 0..(n - 1)}
  BY <1>1 DEF Units
<1> HIDE DEF n, units
<1>4. unit \in Bijection(0..(n - 1), units)
  BY <1>3 DEF Bijection, Injection, Surjection, IsInjective
<1>5. ExistsBijection(0..(n - 1), units)
  BY <1>4 DEF ExistsBijection
<1>6. QED  BY <1>2, <1>5, FS_Bijection DEF Mass, n, units

LEMMA UnitsApart ==
    ASSUME NEW w, NEW A, NEW B, A \cap B = {}, IsFiniteSet(Units(w, A)), IsFiniteSet(Units(w, B))
    PROVE  IsFiniteSet(Units(w, A \cup B)) /\ Mass(w, A \cup B) = Mass(w, A) + Mass(w, B)
<1>1. Units(w, A \cup B) = Units(w, A) \cup Units(w, B)
  BY DEF Units
<1>2. Units(w, A) \cap Units(w, B) = {}
  BY DEF Units
<1>3. Mass(w, A) \in Nat /\ Mass(w, B) \in Nat
  BY FS_CardinalityType DEF Mass
<1>4. /\ IsFiniteSet(Units(w, A) \cup Units(w, B))
      /\ Cardinality(Units(w, A) \cup Units(w, B)) = Mass(w, A) + Mass(w, B) - Cardinality({})
  BY <1>2, FS_Union DEF Mass
<1>5. Cardinality({}) = 0  BY FS_EmptySet
<1>6. Cardinality(Units(w, A) \cup Units(w, B)) = Mass(w, A) + Mass(w, B)
  BY <1>3, <1>4, <1>5
<1>7. Mass(w, A \cup B) = Cardinality(Units(w, A) \cup Units(w, B))
  BY <1>1 DEF Mass
<1>8. QED
  BY <1>1, <1>4, <1>6, <1>7

LEMMA MassNone == \A w : IsFiniteSet(Units(w, {})) /\ Mass(w, {}) = 0
<1>1. \A w : Units(w, {}) = {}  BY DEF Units
<1>2. QED  BY <1>1, FS_EmptySet DEF Mass

LEMMA UnitsFinite ==
    ASSUME NEW S, IsFiniteSet(S), NEW D, S \subseteq D, NEW w \in [D -> Nat]
    PROVE  \A T \in SUBSET S : IsFiniteSet(Units(w, T)) /\ Mass(w, T) \in Nat
<1> DEFINE B == {T \in SUBSET S : IsFiniteSet(Units(w, T))}
<1>1. {} \in B  BY MassNone
<1>2. ASSUME NEW T \in SUBSET S, T # {}, \A x \in T : T \ {x} \in B PROVE T \in B
  <2>1. PICK x \in T : TRUE  BY <1>2
  <2> DEFINE rest == T \ {x}
  <2>2. IsFiniteSet(Units(w, {x}))  BY UnitsOfOne
  <2>3. IsFiniteSet(Units(w, rest))  BY <1>2
  <2>4. rest \cap {x} = {} /\ rest \cup {x} = T  OBVIOUS
  <2> HIDE DEF rest
  <2>5. IsFiniteSet(Units(w, T))  BY <2>2, <2>3, <2>4, UnitsApart
  <2>6. QED  BY <2>5
<1> HIDE DEF B
<1>3. \A T \in SUBSET S : T \in B  BY <1>1, <1>2, SetInduction
<1>4. QED  BY <1>3, FS_CardinalityType DEF B, Mass

\* The mass of a union, of one more element, and of what is left without one.
LEMMA MassUnion ==
    ASSUME NEW S, IsFiniteSet(S), NEW D, S \subseteq D, NEW w \in [D -> Nat],
           NEW A \in SUBSET S, NEW B \in SUBSET S, A \cap B = {}
    PROVE  Mass(w, A \cup B) = Mass(w, A) + Mass(w, B)
BY UnitsFinite, UnitsApart

LEMMA MassAdd ==
    ASSUME NEW S, IsFiniteSet(S), NEW D, S \subseteq D, NEW w \in [D -> Nat],
           NEW T \in SUBSET S, NEW x \in S \ T
    PROVE  Mass(w, T \cup {x}) = Mass(w, T) + w[x]
<1>1. Mass(w, {x}) = w[x]  BY UnitsOfOne
<1>2. {x} \in SUBSET S /\ T \cap {x} = {}  OBVIOUS
<1>3. QED  BY <1>1, <1>2, MassUnion

\* Only what has a unit counts.
LEMMA MassCounts ==
    ASSUME NEW D, NEW w \in [D -> Nat], NEW T \in SUBSET D
    PROVE  Mass(w, {x \in T : w[x] > 0}) = Mass(w, T)
<1>1. Units(w, {x \in T : w[x] > 0}) = Units(w, T)
  BY DEF Units
<1>2. QED  BY <1>1 DEF Mass

\* The fold of a sum exists, and its value is the mass.
LEMMA FoldExists ==
    ASSUME NEW S, IsFiniteSet(S), NEW D, S \subseteq D, NEW w \in [D -> Nat]
    PROVE  \E it : Folds(it, w, S)
<1> DEFINE it == [T \in SUBSET S |-> Mass(w, T)]
<1>1. ASSUME NEW T \in SUBSET S
      PROVE  it[T] = IF T = {} THEN 0 ELSE w[Pick(T)] + it[T \ {Pick(T)}]
  <2>1. CASE T = {}  BY <2>1, MassNone
  <2>2. CASE T # {}
    <3>1. Pick(T) \in T  BY <2>2 DEF Pick
    <3> DEFINE x == Pick(T)
               rest == T \ {x}
    <3> HIDE DEF x
    <3>2. rest \in SUBSET S /\ x \in S \ rest /\ rest \cup {x} = T  BY <3>1 DEF x
    <3>3. Mass(w, rest) \in Nat /\ w[x] \in Nat  BY <3>2, UnitsFinite
    <3>4. Mass(w, T) = Mass(w, rest) + w[x]  BY <3>2, MassAdd
    <3>5. Mass(w, T) = w[x] + Mass(w, rest)  BY <3>3, <3>4
    <3>6. it[T] = w[x] + it[rest]  BY <3>2, <3>5
    <3>7. QED  BY <2>2, <3>6 DEF x
  <2>3. QED  BY <2>1, <2>2
<1>2. it = [T \in SUBSET S |-> IF T = {} THEN 0 ELSE w[Pick(T)] + it[T \ {Pick(T)}]]
  <2> DEFINE eq(T) == IF T = {} THEN 0 ELSE w[Pick(T)] + it[T \ {Pick(T)}]
  <2>1. \A T \in SUBSET S : Mass(w, T) = eq(T)  BY <1>1
  <2>2. it = [T \in SUBSET S |-> eq(T)]
    <3> HIDE DEF eq
    <3>1. QED  BY <2>1
  <2>3. QED  BY <2>2
<1> HIDE DEF it
<1>3. QED  BY <1>2 DEF Folds

LEMMA FoldIsMass ==
    ASSUME NEW S, IsFiniteSet(S), NEW D, S \subseteq D, NEW w \in [D -> Nat],
           NEW it, Folds(it, w, S)
    PROVE  it[S] = Mass(w, S)
<1> DEFINE B == {T \in SUBSET S : it[T] = Mass(w, T)}
<1>1. \A T \in SUBSET S : it[T] = IF T = {} THEN 0 ELSE w[Pick(T)] + it[T \ {Pick(T)}]
  <2> DEFINE eq(T) == IF T = {} THEN 0 ELSE w[Pick(T)] + it[T \ {Pick(T)}]
  <2>1. it = [T \in SUBSET S |-> eq(T)]  BY DEF Folds
  <2> HIDE DEF eq
  <2>2. \A T \in SUBSET S : it[T] = eq(T)  BY <2>1
  <2>3. QED  BY <2>2 DEF eq
<1>2. {} \in B  BY <1>1, MassNone
<1>3. ASSUME NEW T \in SUBSET S, T # {}, \A x \in T : T \ {x} \in B PROVE T \in B
  <2>1. Pick(T) \in T  BY <1>3 DEF Pick
  <2> DEFINE x == Pick(T)
             rest == T \ {x}
  <2>2. it[T] = w[x] + it[rest]  BY <1>1, <1>3
  <2> HIDE DEF x
  <2>3. rest \in SUBSET S /\ x \in S \ rest /\ rest \cup {x} = T  BY <2>1 DEF x
  <2>4. Mass(w, T) = Mass(w, rest) + w[x]  BY <2>3, MassAdd
  <2>5. Mass(w, rest) \in Nat /\ w[x] \in Nat  BY <2>3, UnitsFinite
  <2>6. it[rest] = Mass(w, rest)  BY <1>3, <2>1 DEF x
  <2> HIDE DEF rest
  <2>7. it[T] = Mass(w, T)  BY <2>2, <2>4, <2>5, <2>6
  <2>8. QED  BY <2>7
<1> HIDE DEF B
<1>4. \A T \in SUBSET S : T \in B  BY <1>2, <1>3, SetInduction
<1>5. QED  BY <1>4 DEF B

\* The part of A that g sends to k.
Part(A, g, k) == {a \in A : g[a] = k}

\* Sums of sums: the masses of the parts that g makes of A add up to that of A.
LEMMA MassParts ==
    ASSUME NEW A, IsFiniteSet(A), NEW D, A \subseteq D, NEW w \in [D -> Nat],
           NEW K, IsFiniteSet(K), NEW v \in [K -> Nat], NEW g \in [A -> K],
           \A k \in K : v[k] = Mass(w, Part(A, g, k))
    PROVE  Mass(v, K) = Mass(w, A)
<1> DEFINE over(T) == {a \in A : g[a] \in T}
           B == {T \in SUBSET K : Mass(v, T) = Mass(w, over(T))}
<1>1. {} \in B
  <2>1. over({}) = {}  OBVIOUS
  <2>2. Mass(v, {}) = 0 /\ Mass(w, {}) = 0  BY MassNone
  <2> HIDE DEF over
  <2>3. QED  BY <2>1, <2>2
<1>2. ASSUME NEW T \in SUBSET K, T # {}, \A x \in T : T \ {x} \in B PROVE T \in B
  <2>1. PICK k \in T : TRUE  BY <1>2
  <2> DEFINE rest == T \ {k}
             part == {a \in A : g[a] = k}
  <2>2. rest \in SUBSET K /\ k \in K \ rest /\ rest \cup {k} = T  OBVIOUS
  <2>3. over(T) = over(rest) \cup part /\ over(rest) \cap part = {}
    BY <2>2
  <2>4. over(rest) \in SUBSET A /\ part \in SUBSET A  OBVIOUS
  <2>5. Mass(v, rest) = Mass(w, over(rest))  BY <1>2
  <2>6. v[k] = Mass(w, part)  BY DEF Part
  <2> HIDE DEF over, part, rest
  <2>7. Mass(w, over(T)) = Mass(w, over(rest)) + Mass(w, part)
    BY <2>3, <2>4, MassUnion
  <2>8. Mass(v, T) = Mass(v, rest) + v[k]  BY <2>2, MassAdd
  <2>9. Mass(v, T) = Mass(w, over(T))  BY <2>5, <2>6, <2>7, <2>8
  <2>10. QED  BY <2>9
<1>3. K \in B
  <2> HIDE DEF B
  <2>1. \A T \in SUBSET K : T \in B  BY <1>1, <1>2, SetInduction
  <2>2. QED  BY <2>1
<1>4. over(K) = A  OBVIOUS
<1> HIDE DEF over
<1>5. QED  BY <1>3, <1>4

LEMMA MassPlus ==
    ASSUME NEW K, IsFiniteSet(K), NEW u \in [K -> Nat], NEW v \in [K -> Nat],
           NEW w \in [K -> Nat], \A k \in K : w[k] = u[k] + v[k]
    PROVE  Mass(w, K) = Mass(u, K) + Mass(v, K)
<1> DEFINE B == {T \in SUBSET K : Mass(w, T) = Mass(u, T) + Mass(v, T)}
<1>1. {} \in B
  <2>1. Mass(u, {}) = 0 /\ Mass(v, {}) = 0 /\ Mass(w, {}) = 0  BY MassNone
  <2>2. QED  BY <2>1
<1>2. ASSUME NEW T \in SUBSET K, T # {}, \A x \in T : T \ {x} \in B PROVE T \in B
  <2>1. PICK k \in T : TRUE  BY <1>2
  <2> DEFINE rest == T \ {k}
  <2>2. rest \in SUBSET K /\ k \in K \ rest /\ rest \cup {k} = T  OBVIOUS
  <2>3. Mass(w, rest) = Mass(u, rest) + Mass(v, rest)  BY <1>2
  <2> HIDE DEF rest
  <2>4. Mass(u, rest) \in Nat /\ Mass(v, rest) \in Nat /\ Mass(w, rest) \in Nat
    BY <2>2, UnitsFinite
  <2>5. /\ Mass(u, T) = Mass(u, rest) + u[k] /\ Mass(v, T) = Mass(v, rest) + v[k]
        /\ Mass(w, T) = Mass(w, rest) + w[k]
    BY <2>2, MassAdd
  <2>6. u[k] \in Nat /\ v[k] \in Nat /\ w[k] = u[k] + v[k]  OBVIOUS
  <2>7. Mass(w, T) = Mass(u, T) + Mass(v, T)  BY <2>3, <2>4, <2>5, <2>6
  <2>8. QED  BY <2>7
<1> HIDE DEF B
<1>3. \A T \in SUBSET K : T \in B  BY <1>1, <1>2, SetInduction
<1>4. QED  BY <1>3 DEF B

\* A larger set has at least the mass, and more than none if it has an element
\* that counts.
LEMMA MassMore ==
    ASSUME NEW S, IsFiniteSet(S), NEW D, S \subseteq D, NEW w \in [D -> Nat], NEW T \in SUBSET S
    PROVE  /\ Mass(w, T) \in Nat /\ Mass(w, S) \in Nat /\ Mass(w, T) <= Mass(w, S)
           /\ \A x \in S \ T : w[x] > 0 => Mass(w, T) < Mass(w, S)
<1>1. (S \ T) \in SUBSET S /\ T \cap (S \ T) = {} /\ T \cup (S \ T) = S  OBVIOUS
<1>2. Mass(w, S) = Mass(w, T) + Mass(w, S \ T)  BY <1>1, MassUnion
<1>3. Mass(w, T) \in Nat /\ Mass(w, S) \in Nat /\ Mass(w, S \ T) \in Nat  BY <1>1, UnitsFinite
<1>4. ASSUME NEW x \in S \ T, w[x] > 0 PROVE Mass(w, S \ T) > 0
  <2> DEFINE rest == (S \ T) \ {x}
  <2>1. rest \in SUBSET S /\ x \in S \ rest /\ rest \cup {x} = S \ T  OBVIOUS
  <2> HIDE DEF rest
  <2>2. Mass(w, S \ T) = Mass(w, rest) + w[x]  BY <2>1, MassAdd
  <2>3. Mass(w, rest) \in Nat /\ w[x] \in Nat  BY <2>1, UnitsFinite
  <2>4. QED  BY <1>3, <1>4, <2>2, <2>3
<1>5. \A x \in S \ T : w[x] > 0 => Mass(w, T) < Mass(w, S)
  <2>1. SUFFICES ASSUME NEW x \in S \ T, w[x] > 0 PROVE Mass(w, T) < Mass(w, S)
    OBVIOUS
  <2>2. Mass(w, S \ T) > 0  BY <1>4, <2>1
  <2>3. QED  BY <1>2, <1>3, <2>2
<1>6. Mass(w, T) <= Mass(w, S)  BY <1>2, <1>3
<1>7. QED  BY <1>3, <1>5, <1>6

(***************************************************************************)
(* The sums of the reports are masses: over packets, w counts the packets   *)
(* or their bytes; over the rows of a table, it is a column of them.  Each  *)
(* lemma unfolds the fold into the choice of a function that satisfies its  *)
(* equation: there is one, and any such function gives the mass.            *)
(***************************************************************************)
Counts  == [p \in Kind \X Second |-> flows[p[2]][p[1]]]
Weights == [p \in Kind \X Second |-> flows[p[2]][p[1]] * p[1].size]

LEMMA FlowsFinite == IsFiniteSet(Second) /\ IsFiniteSet(Kind \X Second)
<1>1. 0 \in Int /\ MaxNow + Ahead \in Int  BY FlowTypes
<1>2. IsFiniteSet(Second)  BY <1>1, FS_Interval DEF Second
<1>3. IsFiniteSet(Kind)  BY FlowsAssumption
<1>4. QED  BY <1>2, <1>3, FS_Product

LEMMA KindFields ==
    \A k \in Kind : k.dir \in {0, 1} /\ k.size \in Nat /\ k.src \in Host /\ k.dst \in Host
BY FlowsAssumption, ReportsAssumption

LEMMA FlowWeights == FTypeOK => Counts \in [Kind \X Second -> Nat] /\ Weights \in [Kind \X Second -> Nat]
<1> SUFFICES ASSUME FTypeOK
             PROVE  Counts \in [Kind \X Second -> Nat] /\ Weights \in [Kind \X Second -> Nat]
  OBVIOUS
<1>1. ASSUME NEW p \in Kind \X Second
      PROVE  flows[p[2]][p[1]] \in Nat /\ flows[p[2]][p[1]] * p[1].size \in Nat
  <2>1. flows[p[2]][p[1]] \in Nat  BY DEF FTypeOK
  <2>2. p[1].size \in Nat  BY KindFields
  <2>3. QED  BY <2>1, <2>2
<1>2. QED  BY <1>1 DEF Counts, Weights

LEMMA PickIn == \A S : \A T \in SUBSET S : T # {} => Pick(T) \in S
BY DEF Pick

LEMMA NumIsMass ==
    ASSUME FTypeOK, NEW S \in SUBSET (Kind \X Second)
    PROVE  Num(S) = Mass(Counts, S)
<1> DEFINE eq(it) == it = [T \in SUBSET S |-> IF T = {} THEN 0
                          ELSE flows[Pick(T)[2]][Pick(T)[1]] + it[T \ {Pick(T)}]]
<1>1. Num(S) = (CHOOSE it : eq(it))[S]
  BY DEF Num, Total, MapThenSumSet, MapThenFoldSet, Pick
<1>2. ASSUME NEW it PROVE eq(it) <=> Folds(it, Counts, S)
  <2>1. \A T \in SUBSET S : T # {} => Counts[Pick(T)] = flows[Pick(T)[2]][Pick(T)[1]]
    BY PickIn DEF Counts
  <2>2. QED  BY <2>1 DEF Folds
<1> HIDE DEF eq
<1>3. IsFiniteSet(S)  BY FlowsFinite, FS_Subset
<1>4. Folds(CHOOSE it : eq(it), Counts, S)
  <2>1. PICK it : Folds(it, Counts, S)  BY <1>3, FoldExists, FlowWeights
  <2>2. eq(it)  BY <1>2, <2>1
  <2>3. QED  BY <1>2, <2>2
<1>5. QED  BY <1>1, <1>3, <1>4, FoldIsMass, FlowWeights

LEMMA BytesIsMass ==
    ASSUME FTypeOK, NEW S \in SUBSET (Kind \X Second)
    PROVE  Bytes(S) = Mass(Weights, S)
<1> DEFINE eq(it) == it = [T \in SUBSET S |-> IF T = {} THEN 0
                          ELSE flows[Pick(T)[2]][Pick(T)[1]] * Pick(T)[1].size + it[T \ {Pick(T)}]]
<1>1. Bytes(S) = (CHOOSE it : eq(it))[S]
  BY DEF Bytes, Total, MapThenSumSet, MapThenFoldSet, Pick
<1>2. ASSUME NEW it PROVE eq(it) <=> Folds(it, Weights, S)
  <2>1. \A T \in SUBSET S : T # {} => Weights[Pick(T)] = flows[Pick(T)[2]][Pick(T)[1]] * Pick(T)[1].size
    BY PickIn DEF Weights
  <2>2. QED  BY <2>1 DEF Folds
<1> HIDE DEF eq
<1>3. IsFiniteSet(S)  BY FlowsFinite, FS_Subset
<1>4. Folds(CHOOSE it : eq(it), Weights, S)
  <2>1. PICK it : Folds(it, Weights, S)  BY <1>3, FoldExists, FlowWeights
  <2>2. eq(it)  BY <1>2, <2>1
  <2>3. QED  BY <1>2, <2>2
<1>5. QED  BY <1>1, <1>3, <1>4, FoldIsMass, FlowWeights

LEMMA ColumnIsMass ==
    ASSUME NEW rows, IsFiniteSet(rows), NEW f, NEW w \in [rows -> Nat],
           \A row \in rows : w[row] = row[f]
    PROVE  Column(f, rows) = Mass(w, rows)
<1> DEFINE eq(it) == it = [T \in SUBSET rows |-> IF T = {} THEN 0
                          ELSE Pick(T)[f] + it[T \ {Pick(T)}]]
<1>1. Column(f, rows) = (CHOOSE it : eq(it))[rows]
  BY DEF Column, Total, MapThenSumSet, MapThenFoldSet, Pick
<1>2. ASSUME NEW it PROVE eq(it) <=> Folds(it, w, rows)
  <2>1. \A T \in SUBSET rows : T # {} => w[Pick(T)] = Pick(T)[f]
    BY PickIn
  <2>2. QED  BY <2>1 DEF Folds
<1> HIDE DEF eq
<1>3. Folds(CHOOSE it : eq(it), w, rows)
  <2>1. PICK it : Folds(it, w, rows)  BY FoldExists
  <2>2. eq(it)  BY <1>2, <2>1
  <2>3. QED  BY <1>2, <2>2
<1>4. QED  BY <1>1, <1>3, FoldIsMass

\* The packets of one second, by protocol and direction.
LEMMA RowsAreMasses ==
    ASSUME NEW bag \in [Kind -> Nat], NEW q \in Protocol, NEW d \in Dir
    PROVE  Rows(bag)[q][d].packets = Mass(bag, {k \in Kind : k.protocol = q /\ k.dir = d})
<1> DEFINE of     == {k \in Kind : k.protocol = q /\ k.dir = d}
           eq(it) == it = [T \in SUBSET of |-> IF T = {} THEN 0
                           ELSE bag[Pick(T)] + it[T \ {Pick(T)}]]
<1>1. Rows(bag)[q][d].packets = MapThenSumSet(LAMBDA k : bag[k], of)
  BY Zenon DEF Rows
<1>2. MapThenSumSet(LAMBDA k : bag[k], of) = (CHOOSE it : eq(it))[of]
  BY DEF MapThenSumSet, MapThenFoldSet, Pick
<1>3. \A it : eq(it) <=> Folds(it, bag, of)
  BY DEF Folds
<1>4. IsFiniteSet(of)  BY FlowsAssumption, FS_Subset
<1>5. of \subseteq Kind  OBVIOUS
<1> HIDE DEF eq, of
<1>6. Folds(CHOOSE it : eq(it), bag, of)
  <2>1. PICK it : Folds(it, bag, of)  BY <1>4, <1>5, FoldExists
  <2>2. eq(it)  BY <1>3, <2>1
  <2>3. QED  BY <1>3, <2>2
<1>7. MapThenSumSet(LAMBDA k : bag[k], of) = Mass(bag, of)
  BY <1>2, <1>4, <1>5, <1>6, FoldIsMass
<1>8. QED  BY <1>1, <1>7 DEF of

\* What the aggregate holds is the packets of some bag, as the refresh found it.
RowsInv == \A s \in Second : \E bag \in [Kind -> Nat] : telemetry[s] = Rows(bag)

LEMMA RowsStep == FTypeOK /\ RowsInv /\ [FNext]_fvars => RowsInv'
<1> SUFFICES ASSUME FTypeOK, RowsInv, [FNext]_fvars PROVE RowsInv'
  OBVIOUS
<1>1. CASE telemetry' = telemetry
  BY <1>1 DEF RowsInv
<1>2. ASSUME NEW late \in {0, 1}, Refresh(late) PROVE RowsInv'
  BY <1>2 DEF Refresh, RowsInv, FTypeOK
<1>3. QED
  BY <1>1, <1>2 DEF FNext, Register, Insert, InsertLate, Store, Tick, Outage, fvars

Flow(s, d) == [q \in Protocol |-> telemetry[s][q][d].packets]

LEMMA FlowTyped ==
    ASSUME RowsInv, NEW s \in Second, NEW d \in Dir
    PROVE  Flow(s, d) \in [Protocol -> Nat]
<1>1. PICK bag \in [Kind -> Nat] : telemetry[s] = Rows(bag)  BY DEF RowsInv
<1>2. ASSUME NEW q \in Protocol PROVE telemetry[s][q][d].packets \in Nat
  <2> DEFINE of == {k \in Kind : k.protocol = q /\ k.dir = d}
  <2>1. IsFiniteSet(Kind) /\ of \in SUBSET Kind  BY FlowsAssumption
  <2>2. Mass(bag, of) \in Nat  BY <2>1, UnitsFinite
  <2>3. QED  BY <1>1, <2>2, RowsAreMasses
<1>3. QED  BY <1>2 DEF Flow

LEMMA ProtocolsFinite == IsFiniteSet(Protocol)
<1> DEFINE of == [k \in Kind |-> k.protocol]
<1>1. of \in Surjection(Kind, Protocol)  BY DEF Surjection, Protocol
<1>2. IsFiniteSet(Kind)  BY FlowsAssumption
<1> HIDE DEF of
<1>3. QED  BY <1>1, <1>2, FS_Surjection

LEMMA PacketsOfIsMass ==
    ASSUME RowsInv, NEW s \in Second, NEW d \in Dir
    PROVE  PacketsOf(s, d) = Mass(Flow(s, d), Protocol) /\ PacketsOf(s, d) \in Nat
<1> DEFINE w      == Flow(s, d)
           eq(it) == it = [T \in SUBSET Protocol |-> IF T = {} THEN 0
                           ELSE telemetry[s][Pick(T)][d].packets + it[T \ {Pick(T)}]]
<1>1. PacketsOf(s, d) = (CHOOSE it : eq(it))[Protocol]
  BY DEF PacketsOf, Total, MapThenSumSet, MapThenFoldSet, Pick
<1>2. ASSUME NEW it PROVE eq(it) <=> Folds(it, w, Protocol)
  <2>1. \A T \in SUBSET Protocol : T # {} => w[Pick(T)] = telemetry[s][Pick(T)][d].packets
    BY PickIn DEF Flow
  <2>2. QED  BY <2>1 DEF Folds
<1>3. IsFiniteSet(Protocol) /\ w \in [Protocol -> Nat]  BY ProtocolsFinite, FlowTyped
<1> HIDE DEF eq, w
<1>4. Folds(CHOOSE it : eq(it), w, Protocol)
  <2>1. PICK it : Folds(it, w, Protocol)  BY <1>3, FoldExists
  <2>2. eq(it)  BY <1>2, <2>1
  <2>3. QED  BY <1>2, <2>2
<1>5. PacketsOf(s, d) = Mass(w, Protocol)  BY <1>1, <1>3, <1>4, FoldIsMass
<1>6. Mass(w, Protocol) \in Nat  BY <1>3, UnitsFinite
<1>7. QED  BY <1>5, <1>6 DEF w

(***************************************************************************)
(* The views on the packets agree: each is a sum over the same packets,     *)
(* parted by the rows of its table.                                         *)
(***************************************************************************)
Sent(P, h)  == {p \in P : p[1].src = h}
Taken(P, h) == {p \in P : p[1].dst = h}

LEMMA PacketsAre == \A period : Packets(period) \in SUBSET (Kind \X Second)
BY DEF Packets

LEMMA NumUnion ==
    ASSUME FTypeOK, NEW A \in SUBSET (Kind \X Second), NEW B \in SUBSET (Kind \X Second),
           A \cap B = {}
    PROVE  /\ Num(A \cup B) = Num(A) + Num(B) /\ Bytes(A \cup B) = Bytes(A) + Bytes(B)
           /\ Num(A) \in Nat /\ Num(B) \in Nat
<1>1. A \cup B \in SUBSET (Kind \X Second)  OBVIOUS
<1>2. Mass(Counts, A \cup B) = Mass(Counts, A) + Mass(Counts, B)
  BY FlowsFinite, FlowWeights, MassUnion
<1>3. Mass(Weights, A \cup B) = Mass(Weights, A) + Mass(Weights, B)
  BY FlowsFinite, FlowWeights, MassUnion
<1>4. Mass(Counts, A) \in Nat /\ Mass(Counts, B) \in Nat
  BY FlowsFinite, FlowWeights, UnitsFinite
<1>5. QED  BY <1>1, <1>2, <1>3, <1>4, NumIsMass, BytesIsMass

\* The two sides of a packet: the rows of the table add up what the details count.
LEMMA HostRowCounts ==
    ASSUME FTypeOK, NEW P \in SUBSET (Kind \X Second), NEW h
    PROVE  /\ HostRow(h, P).tx = Num(Sent(P, h)) /\ HostRow(h, P).tx_bytes = Bytes(Sent(P, h))
           /\ HostRow(h, P).rx = Num(Taken(P, h)) /\ HostRow(h, P).rx_bytes = Bytes(Taken(P, h))
<1> DEFINE lan == {p \in P : Local(p) = h}
           wan == {p \in P : Remote(p) = h}
           tx  == {p \in lan : p[1].dir = 1}
           rx  == {p \in lan : p[1].dir = 0}
           wtx == {p \in wan : p[1].dir = 0}
           wrx == {p \in wan : p[1].dir = 1}
<1>1. /\ HostRow(h, P).tx = Num(tx) + Num(wtx) /\ HostRow(h, P).rx = Num(rx) + Num(wrx)
      /\ HostRow(h, P).tx_bytes = Bytes(tx) + Bytes(wtx)
      /\ HostRow(h, P).rx_bytes = Bytes(rx) + Bytes(wrx)
  BY DEF HostRow
<1>2. \A p \in P : p[1].dir \in {0, 1}  BY KindFields
<1>3. Sent(P, h) = tx \cup wtx /\ tx \cap wtx = {}  BY <1>2 DEF Sent, Local, Remote
<1>4. Taken(P, h) = rx \cup wrx /\ rx \cap wrx = {}  BY <1>2 DEF Taken, Local, Remote
<1>5. /\ tx \in SUBSET (Kind \X Second) /\ wtx \in SUBSET (Kind \X Second)
      /\ rx \in SUBSET (Kind \X Second) /\ wrx \in SUBSET (Kind \X Second)
  OBVIOUS
<1> HIDE DEF tx, rx, wtx, wrx
<1>6. Num(tx \cup wtx) = Num(tx) + Num(wtx) /\ Bytes(tx \cup wtx) = Bytes(tx) + Bytes(wtx)
  BY <1>3, <1>5, NumUnion
<1>7. Num(rx \cup wrx) = Num(rx) + Num(wrx) /\ Bytes(rx \cup wrx) = Bytes(rx) + Bytes(wrx)
  BY <1>4, <1>5, NumUnion
<1>8. QED  BY <1>1, <1>3, <1>4, <1>6, <1>7

\* What a table is: one row of each address of a packet.
LEMMA TableRows ==
    ASSUME NEW period
    PROVE  LET P == Packets(period)
           IN  /\ \A row \in HostsTable(period) : row = HostRow(row.ip, P)
               /\ \A p \in P : /\ HostRow(p[1].src, P) \in HostsTable(period)
                               /\ HostRow(p[1].dst, P) \in HostsTable(period)
               /\ \A h : HostRow(h, P).ip = h
<1> DEFINE P == Packets(period)
           hosts == {Local(p) : p \in P} \cup {Remote(p) : p \in P}
<1>1. \A h : HostRow(h, P).ip = h  BY DEF HostRow
<1>2. HostsTable(period) = {HostRow(h, P) : h \in hosts}  BY DEF HostsTable
<1>3. \A p \in P : p[1].src \in hosts /\ p[1].dst \in hosts
  BY DEF Local, Remote
<1> HIDE DEF P, hosts
<1>4. QED  BY <1>1, <1>2, <1>3 DEF P

\* A column of a table whose rows part the packets P adds up to their number.
LEMMA ColumnParts ==
    ASSUME FTypeOK, NEW P \in SUBSET (Kind \X Second), NEW rows, IsFiniteSet(rows), NEW f,
           NEW g \in [P -> rows], \A row \in rows : row[f] = Num(Part(P, g, row))
    PROVE  Column(f, rows) = Num(P)
<1> DEFINE v == [row \in rows |-> row[f]]
<1>1. \A row \in rows : v[row] = Mass(Counts, Part(P, g, row))
  <2>1. SUFFICES ASSUME NEW row \in rows PROVE v[row] = Mass(Counts, Part(P, g, row))
    OBVIOUS
  <2> DEFINE part == Part(P, g, row)
  <2>2. part \in SUBSET (Kind \X Second)  BY DEF Part
  <2>3. v[row] = Num(part)  OBVIOUS
  <2> HIDE DEF part, v
  <2>4. Num(part) = Mass(Counts, part)  BY <2>2, NumIsMass
  <2>5. QED  BY <2>3, <2>4 DEF part
<1>2. IsFiniteSet(P) /\ P \subseteq Kind \X Second  BY FlowsFinite, FS_Subset
<1>3. Counts \in [Kind \X Second -> Nat]  BY FlowWeights
<1>4. v \in [rows -> Nat]
  <2>1. SUFFICES ASSUME NEW row \in rows PROVE v[row] \in Nat  OBVIOUS
  <2> DEFINE part == Part(P, g, row)
  <2>2. v[row] = Mass(Counts, part)  BY <1>1
  <2>3. part \in SUBSET P  BY DEF Part
  <2> HIDE DEF part, v
  <2>4. Mass(Counts, part) \in Nat  BY <1>2, <1>3, <2>3, UnitsFinite
  <2>5. QED  BY <2>2, <2>4
<1>5. \A row \in rows : v[row] = row[f]  OBVIOUS
<1> HIDE DEF v
<1>6. Column(f, rows) = Mass(v, rows)  BY <1>4, <1>5, ColumnIsMass
<1>7. Mass(v, rows) = Mass(Counts, P)  BY <1>1, <1>2, <1>3, <1>4, MassParts
<1>8. QED  BY <1>6, <1>7, NumIsMass

LEMMA TableSums ==
    ASSUME FTypeOK, NEW period PROVE TableAgrees(period)
<1> DEFINE P     == Packets(period)
           table == HostsTable(period)
<1>1. P \in SUBSET (Kind \X Second) /\ IsFiniteSet(P)
  BY PacketsAre, FlowsFinite, FS_Subset
<1>2. IsFiniteSet(table)  BY TableKeyed, FlowsAssumption
<1>3. /\ \A row \in table : row = HostRow(row.ip, P)
      /\ \A p \in P : HostRow(p[1].src, P) \in table /\ HostRow(p[1].dst, P) \in table
      /\ \A h : HostRow(h, P).ip = h
  BY TableRows
<1>4. \A row \in table : /\ row.tx = Num(Sent(P, row.ip)) /\ row.tx_bytes = Bytes(Sent(P, row.ip))
                         /\ row.rx = Num(Taken(P, row.ip)) /\ row.rx_bytes = Bytes(Taken(P, row.ip))
  BY <1>1, <1>3, HostRowCounts
<1>5. \A h : HostDetails(h, period) = [tx |-> Num(Sent(P, h)), rx |-> Num(Taken(P, h)),
                  tx_bytes |-> Bytes(Sent(P, h)), rx_bytes |-> Bytes(Taken(P, h))]
  BY DEF HostDetails, Sent, Taken
<1> HIDE DEF P, table
<1>6. Column("tx", table) = Num(P)
  <2> DEFINE g == [p \in P |-> HostRow(p[1].src, P)]
  <2>1. g \in [P -> table]  BY <1>3
  <2>2. \A row \in table : row["tx"] = Num(Part(P, g, row))
    <3>1. SUFFICES ASSUME NEW row \in table PROVE row["tx"] = Num(Part(P, g, row))
      OBVIOUS
    <3>2. Part(P, g, row) = Sent(P, row.ip)  BY <1>3 DEF Sent, Part
    <3>3. QED  BY <1>4, <3>2
  <2> HIDE DEF g
  <2>3. QED  BY <1>1, <1>2, <2>1, <2>2, ColumnParts
<1>7. Column("rx", table) = Num(P)
  <2> DEFINE g == [p \in P |-> HostRow(p[1].dst, P)]
  <2>1. g \in [P -> table]  BY <1>3
  <2>2. \A row \in table : row["rx"] = Num(Part(P, g, row))
    <3>1. SUFFICES ASSUME NEW row \in table PROVE row["rx"] = Num(Part(P, g, row))
      OBVIOUS
    <3>2. Part(P, g, row) = Taken(P, row.ip)  BY <1>3 DEF Taken, Part
    <3>3. QED  BY <1>4, <3>2
  <2> HIDE DEF g
  <2>3. QED  BY <1>1, <1>2, <2>1, <2>2, ColumnParts
<1>8. \A row \in table : [tx |-> row.tx, rx |-> row.rx, tx_bytes |-> row.tx_bytes,
                          rx_bytes |-> row.rx_bytes] = HostDetails(row.ip, period)
  BY <1>4, <1>5
<1>9. QED  BY <1>6, <1>7, <1>8 DEF TableAgrees, table, P

\* The packets a host has as the local address and as the remote one, and those
\* it sends and takes, are the same packets.
Near(P, h) == {p \in P : Local(p) = h}
Far(P, h)  == {p \in P : Remote(p) = h}

LEMMA SidesSum ==
    ASSUME FTypeOK, NEW P \in SUBSET (Kind \X Second), NEW h
    PROVE  /\ Num(Sent(P, h)) + Num(Taken(P, h)) = Num(Near(P, h)) + Num(Far(P, h))
           /\ Num(Near(P, h)) \in Nat /\ Num(Far(P, h)) \in Nat
<1> DEFINE tx  == {p \in P : Local(p) = h /\ p[1].dir = 1}
           rx  == {p \in P : Local(p) = h /\ p[1].dir = 0}
           wtx == {p \in P : Remote(p) = h /\ p[1].dir = 0}
           wrx == {p \in P : Remote(p) = h /\ p[1].dir = 1}
<1>1. \A p \in P : p[1].dir \in {0, 1}  BY KindFields
<1>2. Sent(P, h) = tx \cup wtx /\ tx \cap wtx = {}  BY <1>1 DEF Sent, Local, Remote
<1>3. Taken(P, h) = rx \cup wrx /\ rx \cap wrx = {}  BY <1>1 DEF Taken, Local, Remote
<1>4. Near(P, h) = tx \cup rx /\ tx \cap rx = {}  BY <1>1 DEF Near
<1>5. Far(P, h) = wtx \cup wrx /\ wtx \cap wrx = {}  BY <1>1 DEF Far
<1>6. /\ tx \in SUBSET (Kind \X Second) /\ wtx \in SUBSET (Kind \X Second)
      /\ rx \in SUBSET (Kind \X Second) /\ wrx \in SUBSET (Kind \X Second)
  OBVIOUS
<1> HIDE DEF tx, rx, wtx, wrx
<1>7. Num(Sent(P, h)) = Num(tx) + Num(wtx)
  <2>1. Num(tx \cup wtx) = Num(tx) + Num(wtx)  BY <1>2, <1>6, NumUnion
  <2>2. QED  BY <1>2, <2>1
<1>8. Num(Taken(P, h)) = Num(rx) + Num(wrx)
  <2>1. Num(rx \cup wrx) = Num(rx) + Num(wrx)  BY <1>3, <1>6, NumUnion
  <2>2. QED  BY <1>3, <2>1
<1>9. Num(Near(P, h)) = Num(tx) + Num(rx) /\ Num(tx) \in Nat /\ Num(rx) \in Nat
  BY <1>4, <1>6, NumUnion
<1>10. Num(Far(P, h)) = Num(wtx) + Num(wrx) /\ Num(wtx) \in Nat /\ Num(wrx) \in Nat
  BY <1>5, <1>6, NumUnion
<1>11. QED  BY <1>7, <1>8, <1>9, <1>10

\* What the query selects is there: packets that count none are none.
LEMMA NoneCounted ==
    ASSUME FTypeOK, NEW period, NEW T \in SUBSET Packets(period), Num(T) = 0
    PROVE  T = {}
<1>1. \A p \in T : Counts[p] > 0  BY DEF Packets, Counts
<1>2. T \in SUBSET (Kind \X Second) /\ IsFiniteSet(T)
  BY PacketsAre, FlowsFinite, FS_Subset
<1>3. Counts \in [Kind \X Second -> Nat]  BY FlowWeights
<1>4. Mass(Counts, T) = 0  BY <1>2, NumIsMass
<1>5. Mass(Counts, {}) \in Nat /\ \A x \in T \ {} : Counts[x] > 0 => Mass(Counts, {}) < Mass(Counts, T)
  <2>1. {} \in SUBSET T /\ T \subseteq Kind \X Second  BY <1>2
  <2>2. QED  BY <1>2, <1>3, <2>1, MassMore
<1>6. QED  BY <1>1, <1>4, <1>5

\* The two top lists part the packets of a host, and a destination has one row.
LEMMA TopSums ==
    ASSUME FTypeOK, NEW h, NEW period
    PROVE  LET P == LocalOf(h, period)
           IN  /\ Column("received", TopDestinations(h, period)) = Num(P)
               /\ Column("packets", TopPorts(h, period)) = Num(P)
               /\ Cardinality(TopDestinations(h, period)) = Cardinality({Remote(p) : p \in P})
<1> DEFINE P       == LocalOf(h, period)
           remotes == {Remote(p) : p \in P}
           of(r)   == {p \in P : Remote(p) = r}
           row(r)  == [ip |-> r, location |-> "WAN", received |-> Num(of(r)),
                       received_bytes |-> Bytes(of(r)), last_seen |-> Max({p[2] : p \in of(r)})]
           group(p) == <<RemotePort(p), p[1].protocol>>
           groups  == {group(p) : p \in P}
           at(g)   == {p \in P : RemotePort(p) = g[1] /\ p[1].protocol = g[2]}
           port(g) == [port |-> g[1], protocol |-> g[2], packets |-> Num(at(g)),
                       bytes |-> Bytes(at(g))]
<1>1. P \in SUBSET (Kind \X Second)  BY PacketsAre DEF LocalOf
<1>2. TopDestinations(h, period) = {row(r) : r \in remotes}  BY DEF TopDestinations
<1>3. TopPorts(h, period) = {port(g) : g \in groups}  BY DEF TopPorts
<1>4. \A r : row(r)["ip"] = r /\ row(r)["received"] = Num(of(r))  OBVIOUS
<1>5. \A g : port(g)["port"] = g[1] /\ port(g)["protocol"] = g[2] /\ port(g)["packets"] = Num(at(g))
  OBVIOUS
<1>6. IsFiniteSet(TopDestinations(h, period)) /\ IsFiniteSet(TopPorts(h, period))
  BY DestinationsKeyed, PortsKeyed, FlowsAssumption
<1>7. \A p \in P : group(p)[1] = RemotePort(p) /\ group(p)[2] = p[1].protocol  OBVIOUS
<1>8. \A g \in groups : \A p \in P :
          group(p) = g <=> RemotePort(p) = g[1] /\ p[1].protocol = g[2]
  OBVIOUS
<1> HIDE DEF P, row, port, group
<1>9. Column("received", TopDestinations(h, period)) = Num(P)
  <2> DEFINE rows == TopDestinations(h, period)
             g    == [p \in P |-> row(Remote(p))]
  <2>1. g \in [P -> rows]  BY <1>2
  <2>2. \A d \in rows : d["received"] = Num(Part(P, g, d))
    <3>1. SUFFICES ASSUME NEW d \in rows PROVE d["received"] = Num(Part(P, g, d))
      OBVIOUS
    <3>2. PICK r \in remotes : d = row(r)  BY <1>2
    <3>3. Part(P, g, d) = of(r)  BY <1>4, <3>2 DEF Part
    <3>4. QED  BY <1>4, <3>2, <3>3
  <2> HIDE DEF rows, g
  <2>3. IsFiniteSet(rows)  BY <1>6 DEF rows
  <2>4. Column("received", rows) = Num(P)  BY <1>1, <2>1, <2>2, <2>3, ColumnParts
  <2>5. QED  BY <2>4 DEF rows
<1>10. Column("packets", TopPorts(h, period)) = Num(P)
  <2> DEFINE rows == TopPorts(h, period)
             g    == [p \in P |-> port(group(p))]
  <2>1. g \in [P -> rows]  BY <1>3
  <2>2. \A d \in rows : d["packets"] = Num(Part(P, g, d))
    <3>1. SUFFICES ASSUME NEW d \in rows PROVE d["packets"] = Num(Part(P, g, d))
      OBVIOUS
    <3>2. PICK j \in groups : d = port(j)  BY <1>3
    <3>3. Part(P, g, d) = at(j)
      <4>1. ASSUME NEW p \in P PROVE g[p] = d <=> p \in at(j)
        <5>1. port(group(p)) = port(j)
                  <=> RemotePort(p) = j[1] /\ p[1].protocol = j[2]
          BY <1>5, <1>7, <1>8
        <5>2. QED  BY <3>2, <5>1
      <4>2. QED  BY <4>1 DEF Part
    <3>4. QED  BY <1>5, <3>2, <3>3
  <2> HIDE DEF rows, g
  <2>3. IsFiniteSet(rows)  BY <1>6 DEF rows
  <2>4. Column("packets", rows) = Num(P)  BY <1>1, <2>1, <2>2, <2>3, ColumnParts
  <2>5. QED  BY <2>4 DEF rows
<1>11. Cardinality(TopDestinations(h, period)) = Cardinality(remotes)
  <2> DEFINE rows == TopDestinations(h, period)
             ip   == [d \in rows |-> d["ip"]]
  <2>1. ip \in Surjection(rows, remotes)  BY <1>2, <1>4 DEF Surjection
  <2>2. ip \in Injection(rows, remotes)
    <3>1. \A a, b \in rows : a["ip"] = b["ip"] => a = b  BY <1>2, <1>4
    <3>2. ip \in [rows -> remotes]  BY <2>1 DEF Surjection
    <3>3. QED  BY <3>1, <3>2 DEF Injection, IsInjective
  <2>3. IsFiniteSet(rows)  BY <1>6
  <2> HIDE DEF rows, ip, remotes
  <2>4. Cardinality(rows) = Cardinality(remotes)  BY <2>1, <2>2, <2>3, FS_Surjection
  <2>5. QED  BY <2>4 DEF rows
<1>12. QED  BY <1>9, <1>10, <1>11 DEF P

LEMMA TopsSums ==
    ASSUME FTypeOK, NEW h, NEW period PROVE TopsAgree(h, period)
<1> DEFINE P            == Packets(period)
           near         == Near(P, h)
           far          == Far(P, h)
           destinations == TopDestinations(h, period)
           received     == Column("received", destinations)
           details      == HostDetails(h, period)
           row          == CHOOSE r \in HostsTable(period) : r.ip = h
<1>1. P \in SUBSET (Kind \X Second)  BY PacketsAre
<1>2. LocalOf(h, period) = near  BY DEF LocalOf, Near
<1>3. /\ received = Num(near) /\ Column("packets", TopPorts(h, period)) = Num(near)
      /\ Cardinality(destinations) = Cardinality({Remote(p) : p \in near})
  BY <1>2, TopSums
<1>4. details.tx = Num(Sent(P, h)) /\ details.rx = Num(Taken(P, h))
  BY DEF HostDetails, Sent, Taken
<1>5. /\ Num(Sent(P, h)) + Num(Taken(P, h)) = Num(near) + Num(far)
      /\ Num(near) \in Nat /\ Num(far) \in Nat
  BY <1>1, SidesSum
<1>6. ASSUME received = details.tx + details.rx, received > 0
      PROVE  row.location = "LAN" /\ row.unique_destinations = Cardinality(destinations)
  <2>1. Num(far) = 0  BY <1>3, <1>4, <1>5, <1>6
  <2>2. far = {}
    <3>1. far \in SUBSET Packets(period)  BY DEF Far
    <3> HIDE DEF far
    <3>2. QED  BY <2>1, <3>1, NoneCounted
  <2>3. near # {}
    <3>1. Num({}) = 0
      <4>1. Num({}) = Mass(Counts, {})  BY NumIsMass
      <4>2. QED  BY <4>1, MassNone
    <3>2. QED  BY <1>3, <1>6, <3>1
  <2>4. PICK p \in P : Local(p) = h  BY <2>3 DEF Near
  <2>5. HostRow(h, P) \in HostsTable(period)  BY <2>4, TableRows DEF Local
  <2>6. \A r \in HostsTable(period) : r.ip = h => r = HostRow(h, P)  BY TableRows
  <2>7. HostRow(h, P).ip = h  BY TableRows
  <2>8. row = HostRow(h, P)
    <3> HIDE DEF P
    <3>1. QED  BY <2>5, <2>6, <2>7
  <2>9. /\ HostRow(h, P).location = IF Num(near) >= Num(far) THEN "LAN" ELSE "WAN"
        /\ HostRow(h, P).unique_destinations
              = Cardinality({Remote(q) : q \in near} \cup {Local(q) : q \in far})
    BY DEF HostRow, Near, Far
  <2>10. {Remote(q) : q \in near} \cup {Local(q) : q \in far} = {Remote(q) : q \in near}
    BY <2>2
  <2>11. Num(near) >= Num(far)  BY <1>5, <2>1
  <2> HIDE DEF near, far, row
  <2>12. QED  BY <1>3, <2>8, <2>9, <2>10, <2>11
<1>7. received <= details.tx + details.rx  BY <1>3, <1>4, <1>5
<1>8. QED  BY <1>3, <1>6, <1>7 DEF TopsAgree

\* In every reachable state the views on the packets of one period agree: the
\* table with the details of each of its hosts, its two sides with each other,
\* and the destinations and the ports of a host with its packets, for any
\* periods, hosts and packets.
THEOREM ViewsOfOnePeriodAgree == FSpec => []ViewsAgree
<1>1. FTypeOK => ViewsAgree
  BY TableSums, TopsSums DEF ViewsAgree
<1>2. QED
  BY <1>1, FlowsTypeCorrect, PTL

(***************************************************************************)
(* The aggregate of a settled second counts all its packets: its protocols  *)
(* and its directions part them.                                            *)
(***************************************************************************)
LEMMA SecondMass ==
    ASSUME FTypeOK, NEW s \in Second
    PROVE  Mass(Counts, Kind \X {s}) = Mass(flows[s], Kind)
<1> DEFINE A == Kind \X {s}
           g == [p \in A |-> p[1]]
           v == flows[s]
<1>1. v \in [Kind -> Nat]  BY DEF FTypeOK
<1>2. IsFiniteSet(A) /\ A \subseteq Kind \X Second
  <2>1. A \subseteq Kind \X Second  OBVIOUS
  <2> HIDE DEF A
  <2>2. QED  BY <2>1, FlowsFinite, FS_Subset
<1>3. g \in [A -> Kind]  OBVIOUS
<1>4. Counts \in [Kind \X Second -> Nat]  BY FlowWeights
<1>5. \A k \in Kind : v[k] = Mass(Counts, Part(A, g, k))
  <2>1. SUFFICES ASSUME NEW k \in Kind PROVE v[k] = Mass(Counts, Part(A, g, k))
    OBVIOUS
  <2>2. Part(A, g, k) = {<<k, s>>}  BY DEF Part
  <2>3. <<k, s>> \in Kind \X Second /\ Counts[<<k, s>>] = v[k]  BY DEF Counts
  <2> HIDE DEF A, g, v
  <2>4. Mass(Counts, {<<k, s>>}) = Counts[<<k, s>>]  BY <1>4, <2>3, UnitsOfOne
  <2>5. QED  BY <2>2, <2>3, <2>4
<1>6. IsFiniteSet(Kind)  BY FlowsAssumption
<1> HIDE DEF A, g, v
<1>7. Mass(v, Kind) = Mass(Counts, A)
  <2> DEFINE D == Kind \X Second
             K == Kind
  <2>1. /\ IsFiniteSet(A) /\ A \subseteq D /\ Counts \in [D -> Nat]
        /\ IsFiniteSet(K) /\ v \in [K -> Nat] /\ g \in [A -> K]
        /\ \A k \in K : v[k] = Mass(Counts, Part(A, g, k))
    BY <1>1, <1>2, <1>3, <1>4, <1>5, <1>6
  <2> HIDE DEF D, K
  <2>2. Mass(v, K) = Mass(Counts, A)  BY <2>1, MassParts
  <2>3. QED  BY <2>2 DEF K
<1>8. QED  BY <1>7 DEF A, v

LEMMA SettledDirection ==
    ASSUME FTypeOK, RowsInv, NEW s \in Second, telemetry[s] = Rows(flows[s]), NEW d \in Dir
    PROVE  PacketsOf(s, d) = Mass(flows[s], {k \in Kind : k.dir = d})
<1> DEFINE A == {k \in Kind : k.dir = d}
           g == [k \in A |-> k.protocol]
           w == flows[s]
           v == Flow(s, d)
<1>1. w \in [Kind -> Nat]  BY DEF FTypeOK
<1>2. IsFiniteSet(A) /\ A \subseteq Kind  BY FlowsAssumption, FS_Subset
<1>3. g \in [A -> Protocol]  BY DEF Protocol
<1>4. v \in [Protocol -> Nat] /\ IsFiniteSet(Protocol)  BY FlowTyped, ProtocolsFinite
<1>5. \A q \in Protocol : v[q] = Mass(w, Part(A, g, q))
  <2>1. SUFFICES ASSUME NEW q \in Protocol PROVE v[q] = Mass(w, Part(A, g, q))
    OBVIOUS
  <2>2. Part(A, g, q) = {k \in Kind : k.protocol = q /\ k.dir = d}  BY DEF Part
  <2>3. v[q] = Rows(flows[s])[q][d].packets  BY DEF Flow
  <2> HIDE DEF A, g, v
  <2>4. Rows(w)[q][d].packets = Mass(w, {k \in Kind : k.protocol = q /\ k.dir = d})
    <3> HIDE DEF w
    <3>1. QED  BY <1>1, RowsAreMasses
  <2>5. QED  BY <2>2, <2>3, <2>4
<1> HIDE DEF A, g, v, w
<1>6. Mass(v, Protocol) = Mass(w, A)  BY <1>1, <1>2, <1>3, <1>4, <1>5, MassParts
<1>7. PacketsOf(s, d) = Mass(v, Protocol)  BY PacketsOfIsMass DEF v
<1>8. QED  BY <1>6, <1>7 DEF A, w

LEMMA SettledSecond ==
    ASSUME FTypeOK, RowsInv, NEW s \in Second, telemetry[s] = Rows(flows[s])
    PROVE  PacketsOf(s, 0) + PacketsOf(s, 1) = Mass(Counts, Kind \X {s})
<1> DEFINE A == {k \in Kind : k.dir = 0}
           B == {k \in Kind : k.dir = 1}
           w == flows[s]
<1>1. w \in [Kind -> Nat]  BY DEF FTypeOK
<1>2. A \cup B = Kind /\ A \cap B = {}  BY KindFields
<1>3. A \in SUBSET Kind /\ B \in SUBSET Kind /\ IsFiniteSet(Kind)  BY FlowsAssumption
<1>4. PacketsOf(s, 0) = Mass(w, A) /\ PacketsOf(s, 1) = Mass(w, B)
  <2>1. 0 \in Dir /\ 1 \in Dir  BY DEF Dir
  <2>2. PacketsOf(s, 0) = Mass(w, A)  BY <2>1, SettledDirection
  <2>3. PacketsOf(s, 1) = Mass(w, B)  BY <2>1, SettledDirection
  <2>4. QED  BY <2>2, <2>3
<1> HIDE DEF A, B, w
<1>5. Mass(w, A \cup B) = Mass(w, A) + Mass(w, B)  BY <1>1, <1>2, <1>3, MassUnion
<1>6. Mass(w, Kind) = Mass(w, A) + Mass(w, B)  BY <1>2, <1>5
<1>7. QED  BY <1>4, <1>6, SecondMass DEF w

(***************************************************************************)
(* The buckets of a chart part its range.                                   *)
(***************************************************************************)
LEMMA WholeSteps ==
    ASSUME NEW n \in Nat \ {0}, NEW x \in Nat
    PROVE  /\ x \div n \in Nat /\ (x \div n) * n <= x /\ x < (x \div n) * n + n
           /\ \A i \in Nat : i * n <= x /\ x < i * n + n => i = x \div n
           /\ \A c \in Nat : x < c * n => x \div n < c
<1> DEFINE q == x \div n
<1>1. q \in Nat /\ q * n <= x /\ x < q * n + n  OBVIOUS
<1> HIDE DEF q
<1>2. \A i, j \in Nat : i < j => i * n + n <= j * n
  <2>1. SUFFICES ASSUME NEW i \in Nat, NEW j \in Nat, i < j PROVE i * n + n <= j * n
    OBVIOUS
  <2> DEFINE k == j - (i + 1)
  <2>2. k \in Nat /\ j = k + i + 1  BY <2>1
  <2> HIDE DEF k
  <2>3. j * n = k * n + i * n + n  BY <2>2
  <2>4. k * n \in Nat /\ i * n \in Nat  BY <2>2
  <2>5. QED  BY <2>3, <2>4
<1>3. ASSUME NEW i \in Nat, i * n <= x, x < i * n + n PROVE i = q
  <2>1. ~(i < q)
    <3>1. SUFFICES ASSUME i < q PROVE FALSE  OBVIOUS
    <3>2. i * n + n <= q * n  BY <1>1, <1>2, <3>1
    <3>3. i * n \in Nat /\ q * n \in Nat  BY <1>1
    <3>4. QED  BY <1>1, <1>3, <3>2, <3>3
  <2>2. ~(q < i)
    <3>1. SUFFICES ASSUME q < i PROVE FALSE  OBVIOUS
    <3>2. q * n + n <= i * n  BY <1>1, <1>2, <3>1
    <3>3. i * n \in Nat /\ q * n \in Nat  BY <1>1
    <3>4. QED  BY <1>1, <1>3, <3>2, <3>3
  <2>3. QED  BY <1>1, <2>1, <2>2
<1>4. ASSUME NEW c \in Nat, x < c * n PROVE q < c
  <2>1. SUFFICES ASSUME c <= q PROVE FALSE  BY <1>1
  <2>2. c * n <= q * n
    <3>1. CASE c = q  BY <1>1, <3>1
    <3>2. CASE c < q
      <4>1. c * n + n <= q * n  BY <1>1, <1>2, <3>2
      <4>2. c * n \in Nat /\ q * n \in Nat  BY <1>1
      <4>3. QED  BY <4>1, <4>2
    <3>3. QED  BY <1>1, <2>1, <3>1, <3>2
  <2>3. c * n \in Nat /\ q * n \in Nat  BY <1>1
  <2>4. QED  BY <1>1, <1>4, <2>2, <2>3
<1>5. QED  BY <1>1, <1>3, <1>4 DEF q

\* The bucket of a second of the range.
PointOf(s, start, period) == start + ((s - start) \div Interval(period)) * Interval(period)

LEMMA Buckets ==
    ASSUME NEW period \in Nat, NEW start \in Int
    PROVE  /\ Count(period) \in Nat \ {0} /\ Count(period) * Interval(period) > period
           /\ \A s \in ChartRange(start, period) :
                 /\ PointOf(s, start, period) \in Points(start, period)
                 /\ \A b \in Points(start, period) :
                       PointOf(s, start, period) = b <=> s \in Bucket(b, period)
           /\ \A b \in Points(start, period) : Bucket(b, period) \subseteq ChartRange(start, period)
           /\ IsFiniteSet(Points(start, period))
<1> DEFINE n == Interval(period)
           c == Count(period)
<1>1. n \in Nat \ {0}  BY IntervalBound
<1>2. c \in Nat \ {0} /\ c * n > period
  <2>1. c = period \div n + 1  BY DEF Count
  <2> HIDE DEF n, c
  <2>2. period \div n \in Nat /\ period < (period \div n) * n + n  BY <1>1, WholeSteps
  <2> DEFINE q == period \div n
  <2> HIDE DEF q
  <2>3. q \in Nat /\ c = q + 1 /\ period < q * n + n  BY <2>1, <2>2 DEF q
  <2>4. c * n = q * n + n  BY <1>1, <2>3
  <2>5. QED  BY <2>3, <2>4
<1>3. Points(start, period) = {start + i * n : i \in 0..(c - 1)}  BY DEF Points
<1>4. Second \subseteq Int  BY DEF Second
<1>5. ASSUME NEW s \in Second, NEW i \in 0..(c - 1)
      PROVE  /\ s \in Bucket(start + i * n, period) <=> i * n <= s - start /\ s - start < i * n + n
             /\ s \in Bucket(start + i * n, period) => start <= s /\ s < start + c * n
  <2>1. i \in Nat /\ i * n \in Nat /\ i < c  BY <1>1, <1>2
  <2>2. s \in Bucket(start + i * n, period) <=> start + i * n <= s /\ s < start + i * n + n
    BY DEF Bucket
  <2> HIDE DEF n, c
  <2>3. i * n + n <= c * n
    <3> DEFINE k == c - (i + 1)
    <3>1. k \in Nat /\ c = k + i + 1  BY <1>2, <2>1
    <3> HIDE DEF k
    <3>2. c * n = k * n + i * n + n  BY <1>1, <2>1, <3>1
    <3>3. k * n \in Nat  BY <1>1, <3>1
    <3>4. QED  BY <1>1, <2>1, <3>2, <3>3
  <2>4. c * n \in Nat  BY <1>1, <1>2
  <2> DEFINE x == i * n
             y == c * n
  <2>5. x \in Nat /\ y \in Nat /\ x + n <= y  BY <2>1, <2>3, <2>4
  <2>6. s \in Bucket(start + x, period) <=> start + x <= s /\ s < start + x + n  BY <2>2
  <2> HIDE DEF x, y
  <2>7. /\ s \in Bucket(start + x, period) <=> x <= s - start /\ s - start < x + n
        /\ s \in Bucket(start + x, period) => start <= s /\ s < start + y
    BY <1>1, <1>4, <2>5, <2>6
  <2>8. QED  BY <2>7 DEF x, y
<1>6. ASSUME NEW s \in ChartRange(start, period)
      PROVE  /\ PointOf(s, start, period) \in Points(start, period)
             /\ \A b \in Points(start, period) :
                   PointOf(s, start, period) = b <=> s \in Bucket(b, period)
  <2> DEFINE x == s - start
             q == x \div n
  <2>1. s \in Second /\ x \in Nat /\ x < c * n
    <3>1. s \in Second /\ start <= s /\ s < start + c * n  BY DEF ChartRange
    <3> HIDE DEF c, n
    <3>2. c * n \in Nat  BY <1>1, <1>2
    <3>3. QED  BY <1>4, <3>1, <3>2
  <2>2. PointOf(s, start, period) = start + q * n  BY DEF PointOf
  <2> HIDE DEF x
  <2>3. /\ q \in Nat /\ q * n <= x /\ x < q * n + n
        /\ \A i \in Nat : i * n <= x /\ x < i * n + n => i = q
        /\ q < c
    <3> HIDE DEF n, c
    <3>1. QED  BY <1>1, <1>2, <2>1, WholeSteps
  <2> HIDE DEF q, n, c
  <2>4. q \in 0..(c - 1)  BY <1>2, <2>3
  <2>5. ASSUME NEW b \in Points(start, period)
        PROVE  PointOf(s, start, period) = b <=> s \in Bucket(b, period)
    <3>1. PICK i \in 0..(c - 1) : b = start + i * n  BY <1>3
    <3>2. s \in Bucket(b, period) <=> i * n <= x /\ x < i * n + n
      BY <1>5, <2>1, <3>1 DEF x
    <3>3. i \in Nat /\ i * n \in Nat /\ q * n \in Nat  BY <1>1, <1>2, <2>3, <3>1
    <3>4. start + q * n = start + i * n => q * n = i * n  BY <3>3
    <3>5. CASE PointOf(s, start, period) = b
      <4>1. q * n = i * n  BY <2>2, <3>1, <3>4, <3>5
      <4>2. QED  BY <2>3, <3>2, <3>5, <4>1
    <3>6. CASE s \in Bucket(b, period)
      <4>1. i = q  BY <2>3, <3>2, <3>3, <3>6
      <4>2. QED  BY <2>2, <3>1, <3>6, <4>1
    <3>7. QED  BY <3>5, <3>6
  <2>6. QED  BY <1>3, <2>2, <2>4, <2>5
<1>7. ASSUME NEW b \in Points(start, period) PROVE Bucket(b, period) \subseteq ChartRange(start, period)
  <2>1. PICK i \in 0..(c - 1) : b = start + i * n  BY <1>3
  <2>2. SUFFICES ASSUME NEW s \in Bucket(b, period) PROVE s \in ChartRange(start, period)
    OBVIOUS
  <2>3. s \in Second  BY DEF Bucket
  <2>4. start <= s /\ s < start + c * n  BY <1>5, <2>1, <2>3
  <2>5. QED  BY <2>3, <2>4 DEF ChartRange
<1>8. IsFiniteSet(Points(start, period))
  <2> DEFINE at == [i \in 0..(c - 1) |-> start + i * n]
  <2>1. at \in Surjection(0..(c - 1), Points(start, period))  BY <1>3 DEF Surjection
  <2> HIDE DEF at
  <2>2. IsFiniteSet(0..(c - 1))
    <3> HIDE DEF c
    <3>1. QED  BY <1>2, FS_Interval
  <2>3. QED  BY <2>1, <2>2, FS_Surjection
<1>9. QED  BY <1>2, <1>6, <1>7, <1>8

(***************************************************************************)
(* The channel chart: the buckets add up to the range.                      *)
(***************************************************************************)
Traffic(S) == Total(LAMBDA s : PacketsOf(s, 0) + PacketsOf(s, 1), S)
Hits       == [s \in Second |-> PacketsOf(s, 0) + PacketsOf(s, 1)]

LEMMA HitsTyped == RowsInv => Hits \in [Second -> Nat]
<1> SUFFICES ASSUME RowsInv PROVE Hits \in [Second -> Nat]
  OBVIOUS
<1>1. 0 \in Dir /\ 1 \in Dir  BY DEF Dir
<1>2. \A s \in Second : PacketsOf(s, 0) \in Nat  BY <1>1, PacketsOfIsMass
<1>3. \A s \in Second : PacketsOf(s, 1) \in Nat  BY <1>1, PacketsOfIsMass
<1>4. \A s \in Second : PacketsOf(s, 0) + PacketsOf(s, 1) \in Nat  BY <1>2, <1>3
<1>5. QED  BY <1>4 DEF Hits

LEMMA TrafficIsMass ==
    ASSUME RowsInv, NEW S \in SUBSET Second
    PROVE  Traffic(S) = Mass(Hits, S) /\ Traffic(S) \in Nat
<1> DEFINE eq(it) == it = [T \in SUBSET S |-> IF T = {} THEN 0
                           ELSE PacketsOf(Pick(T), 0) + PacketsOf(Pick(T), 1) + it[T \ {Pick(T)}]]
<1>1. Traffic(S) = (CHOOSE it : eq(it))[S]
  BY DEF Traffic, Total, MapThenSumSet, MapThenFoldSet, Pick
<1>2. ASSUME NEW it PROVE eq(it) <=> Folds(it, Hits, S)
  <2>1. \A T \in SUBSET S : T # {} => Hits[Pick(T)] = PacketsOf(Pick(T), 0) + PacketsOf(Pick(T), 1)
    BY PickIn DEF Hits
  <2>2. QED  BY <2>1 DEF Folds
<1>3. IsFiniteSet(S) /\ Hits \in [Second -> Nat]  BY FlowsFinite, FS_Subset, HitsTyped
<1> HIDE DEF eq
<1>4. Folds(CHOOSE it : eq(it), Hits, S)
  <2>1. PICK it : Folds(it, Hits, S)  BY <1>3, FoldExists
  <2>2. eq(it)  BY <1>2, <2>1
  <2>3. QED  BY <1>2, <2>2
<1>5. Traffic(S) = Mass(Hits, S)  BY <1>1, <1>3, <1>4, FoldIsMass
<1>6. Mass(Hits, S) \in Nat  BY <1>3, UnitsFinite
<1>7. QED  BY <1>5, <1>6

LEMMA ChannelIsMass ==
    ASSUME NEW start, NEW period, IsFiniteSet(Points(start, period)),
           NEW w \in [Points(start, period) -> Nat],
           \A b \in Points(start, period) : w[b] = ChannelPoint(b, period)
    PROVE  ChannelChart(start, period) = Mass(w, Points(start, period))
<1> DEFINE points == Points(start, period)
           eq(it) == it = [T \in SUBSET points |-> IF T = {} THEN 0
                           ELSE ChannelPoint(Pick(T), period) + it[T \ {Pick(T)}]]
<1>1. ChannelChart(start, period) = (CHOOSE it : eq(it))[points]
  BY DEF ChannelChart, Total, MapThenSumSet, MapThenFoldSet, Pick
<1>2. ASSUME NEW it PROVE eq(it) <=> Folds(it, w, points)
  <2>1. \A T \in SUBSET points : T # {} => w[Pick(T)] = ChannelPoint(Pick(T), period)
    BY PickIn
  <2>2. QED  BY <2>1 DEF Folds
<1> HIDE DEF eq, points
<1>3. IsFiniteSet(points) /\ w \in [points -> Nat]  BY DEF points
<1>4. Folds(CHOOSE it : eq(it), w, points)
  <2>1. PICK it : Folds(it, w, points)  BY <1>3, FoldExists
  <2>2. eq(it)  BY <1>2, <2>1
  <2>3. QED  BY <1>2, <2>2
<1>5. (CHOOSE it : eq(it))[points] = Mass(w, points)  BY <1>3, <1>4, FoldIsMass
<1>6. QED  BY <1>1, <1>5 DEF points

LEMMA ChannelSums ==
    ASSUME RowsInv, NEW start \in Int, NEW period \in Nat
    PROVE  ChannelChart(start, period) = Traffic(ChartRange(start, period))
<1> DEFINE points == Points(start, period)
           range  == ChartRange(start, period)
           v      == [b \in points |-> ChannelPoint(b, period)]
           g      == [s \in range |-> PointOf(s, start, period)]
<1>1. range \in SUBSET Second  BY DEF ChartRange
<1>2. \A b \in points : Bucket(b, period) \in SUBSET Second  BY DEF Bucket
<1>3. g \in [range -> points]  BY Buckets
<1>4. ASSUME NEW b \in points PROVE v[b] = Mass(Hits, Part(range, g, b)) /\ v[b] \in Nat
  <2>1. Part(range, g, b) = Bucket(b, period)
    <3>1. \A s \in range : PointOf(s, start, period) = b <=> s \in Bucket(b, period)  BY Buckets
    <3>2. Bucket(b, period) \subseteq range  BY Buckets
    <3> HIDE DEF range
    <3>3. QED  BY <3>1, <3>2 DEF Part
  <2>2. v[b] = Traffic(Bucket(b, period))  BY DEF ChannelPoint, Traffic
  <2>3. Traffic(Bucket(b, period)) = Mass(Hits, Bucket(b, period)) /\ Traffic(Bucket(b, period)) \in Nat
    BY <1>2, TrafficIsMass
  <2>4. QED  BY <2>1, <2>2, <2>3
<1>5. \A b \in points : v[b] = ChannelPoint(b, period)  OBVIOUS
<1>6. IsFiniteSet(points)  BY Buckets
<1>7. IsFiniteSet(range) /\ range \subseteq Second  BY <1>1, FlowsFinite, FS_Subset
<1>8. v \in [points -> Nat]  BY <1>4
<1>9. Hits \in [Second -> Nat]  BY HitsTyped
<1> HIDE DEF v, g, range
<1>10. ChannelChart(start, period) = Mass(v, points)  BY <1>5, <1>6, <1>8, ChannelIsMass
<1>11. Mass(v, points) = Mass(Hits, range)
  <2> HIDE DEF points
  <2>1. QED  BY <1>3, <1>4, <1>6, <1>7, <1>8, <1>9, MassParts
<1>12. Traffic(range) = Mass(Hits, range)  BY <1>7, TrafficIsMass
<1>13. QED  BY <1>10, <1>11, <1>12 DEF range

\* When the range has settled the chart counts its packets.
LEMMA SettledRange ==
    ASSUME FTypeOK, RowsInv, NEW S \in SUBSET Second, \A s \in S : telemetry[s] = Rows(flows[s])
    PROVE  Traffic(S) = Mass(Counts, Kind \X S)
<1> DEFINE A == Kind \X S
           D == Kind \X Second
           g == [p \in A |-> p[2]]
           v == [s \in S |-> PacketsOf(s, 0) + PacketsOf(s, 1)]
<1>1. IsFiniteSet(S) /\ IsFiniteSet(D)  BY FlowsFinite, FS_Subset
<1>2. A \subseteq D  OBVIOUS
<1>3. IsFiniteSet(A)
  <2> HIDE DEF A, D
  <2>1. QED  BY <1>1, <1>2, FS_Subset
<1>4. Counts \in [D -> Nat]  BY FlowWeights
<1>5. g \in [A -> S]  OBVIOUS
<1>6. \A s \in S : v[s] = Mass(Counts, Part(A, g, s))
  <2>1. SUFFICES ASSUME NEW s \in S PROVE v[s] = Mass(Counts, Part(A, g, s))
    OBVIOUS
  <2>2. Part(A, g, s) = Kind \X {s}  BY DEF Part
  <2>3. v[s] = PacketsOf(s, 0) + PacketsOf(s, 1)  OBVIOUS
  <2> HIDE DEF v, A, g
  <2>4. v[s] = Mass(Counts, Kind \X {s})  BY <2>3, SettledSecond
  <2>5. QED  BY <2>2, <2>4
<1>7. v \in [S -> Nat] /\ \A s \in S : v[s] = Hits[s]
  <2>1. \A s \in S : v[s] = Hits[s]  BY DEF Hits
  <2>2. \A s \in S : Hits[s] \in Nat  BY HitsTyped
  <2>3. QED  BY <2>1, <2>2
<1>8. Mass(v, S) = Mass(Hits, S)
  <2> HIDE DEF v
  <2>1. Units(v, S) = Units(Hits, S)  BY <1>7 DEF Units
  <2>2. QED  BY <2>1 DEF Mass
<1> HIDE DEF A, D, g, v
<1>9. Mass(v, S) = Mass(Counts, A)  BY <1>1, <1>2, <1>3, <1>4, <1>5, <1>6, <1>7, MassParts
<1>10. QED  BY <1>8, <1>9, TrafficIsMass DEF A

(***************************************************************************)
(* The charts of the hosts: each packet of the range is counted for its     *)
(* destination and for its source.                                          *)
(***************************************************************************)
HostRows(h, start, period) == {<<HostPoint(h, b, period), b>> : b \in Points(start, period)}

LEMMA HostIsMass ==
    ASSUME NEW h, NEW start, NEW period, IsFiniteSet(HostRows(h, start, period)),
           NEW w \in [HostRows(h, start, period) -> Nat],
           \A x \in HostRows(h, start, period) : w[x] = x[1].in + x[1].out
    PROVE  HostChart(h, start, period) = Mass(w, HostRows(h, start, period))
<1> DEFINE rows == HostRows(h, start, period)
           eq(it) == it = [T \in SUBSET rows |-> IF T = {} THEN 0
                           ELSE Pick(T)[1].in + Pick(T)[1].out + it[T \ {Pick(T)}]]
<1>1. HostChart(h, start, period) = (CHOOSE it : eq(it))[rows]
  BY DEF HostChart, HostRows, Total, MapThenSumSet, MapThenFoldSet, Pick
<1>2. ASSUME NEW it PROVE eq(it) <=> Folds(it, w, rows)
  <2>1. \A T \in SUBSET rows : T # {} => w[Pick(T)] = Pick(T)[1].in + Pick(T)[1].out
    BY PickIn
  <2>2. QED  BY <2>1 DEF Folds
<1> HIDE DEF eq, rows
<1>3. IsFiniteSet(rows) /\ w \in [rows -> Nat]  BY DEF rows
<1>4. Folds(CHOOSE it : eq(it), w, rows)
  <2>1. PICK it : Folds(it, w, rows)  BY <1>3, FoldExists
  <2>2. eq(it)  BY <1>2, <2>1
  <2>3. QED  BY <1>2, <2>2
<1>5. (CHOOSE it : eq(it))[rows] = Mass(w, rows)  BY <1>3, <1>4, FoldIsMass
<1>6. QED  BY <1>1, <1>5 DEF rows

LEMMA HostPointCounts ==
    ASSUME FTypeOK, NEW h, NEW b, NEW period
    PROVE  /\ HostPoint(h, b, period).in = Mass(Counts, Taken(Kind \X Bucket(b, period), h))
           /\ HostPoint(h, b, period).out = Mass(Counts, Sent(Kind \X Bucket(b, period), h))
<1> DEFINE B == Kind \X Bucket(b, period)
           P == {p \in B : flows[p[2]][p[1]] > 0}
<1>1. B \in SUBSET (Kind \X Second)  BY DEF Bucket
<1>2. /\ HostPoint(h, b, period).in = Num({p \in P : p[1].dst = h})
      /\ HostPoint(h, b, period).out = Num({p \in P : p[1].src = h})
  BY DEF HostPoint
<1>3. \A p \in B : Counts[p] = flows[p[2]][p[1]]  BY <1>1 DEF Counts
<1> DEFINE taken == {p \in Taken(B, h) : Counts[p] > 0}
           sent  == {p \in Sent(B, h) : Counts[p] > 0}
<1>4. {p \in P : p[1].dst = h} = taken  BY <1>3 DEF Taken
<1>5. {p \in P : p[1].src = h} = sent  BY <1>3 DEF Sent
<1> HIDE DEF B, P
<1>6. taken \in SUBSET (Kind \X Second) /\ Taken(B, h) \in SUBSET (Kind \X Second)
  BY <1>1 DEF Taken
<1>7. sent \in SUBSET (Kind \X Second) /\ Sent(B, h) \in SUBSET (Kind \X Second)
  BY <1>1 DEF Sent
<1>8. Counts \in [Kind \X Second -> Nat]  BY FlowWeights
<1>9. Mass(Counts, taken) = Mass(Counts, Taken(B, h))  BY <1>6, <1>8, MassCounts
<1>10. Mass(Counts, sent) = Mass(Counts, Sent(B, h))  BY <1>7, <1>8, MassCounts
<1> HIDE DEF taken, sent
<1>11. Num(taken) = Mass(Counts, taken)  BY <1>6, NumIsMass
<1>12. Num(sent) = Mass(Counts, sent)  BY <1>7, NumIsMass
<1>13. QED  BY <1>2, <1>4, <1>5, <1>9, <1>10, <1>11, <1>12 DEF B

\* The rows of a host part its packets of the range by their bucket.
LEMMA HostParts ==
    ASSUME FTypeOK, NEW h, NEW start \in Int, NEW period \in Nat,
           NEW Q \in SUBSET (Kind \X ChartRange(start, period)),
           NEW v \in [HostRows(h, start, period) -> Nat],
           \A b \in Points(start, period) :
              v[<<HostPoint(h, b, period), b>>] = Mass(Counts, {p \in Q : p[2] \in Bucket(b, period)})
    PROVE  Mass(v, HostRows(h, start, period)) = Mass(Counts, Q)
<1> DEFINE rows == HostRows(h, start, period)
           points == Points(start, period)
           D == Kind \X Second
           at(b) == <<HostPoint(h, b, period), b>>
           g == [p \in Q |-> at(PointOf(p[2], start, period))]
<1>1. rows = {at(b) : b \in points}  BY DEF HostRows
<1>2. \A a, b : at(a) = at(b) => a = b  OBVIOUS
<1>3. \A p \in Q : p[2] \in ChartRange(start, period)  OBVIOUS
<1>4. \A p \in Q : /\ PointOf(p[2], start, period) \in points
                   /\ \A b \in points : PointOf(p[2], start, period) = b <=> p[2] \in Bucket(b, period)
  BY <1>3, Buckets
<1>5. Q \subseteq D /\ IsFiniteSet(Q)
  <2>1. Q \subseteq Kind \X Second  BY DEF ChartRange
  <2>2. QED  BY <2>1, FlowsFinite, FS_Subset
<1>6. IsFiniteSet(points)  BY Buckets
<1>7. Counts \in [D -> Nat]  BY FlowWeights
<1>8. \A b \in points : v[at(b)] = Mass(Counts, {p \in Q : p[2] \in Bucket(b, period)})
  OBVIOUS
<1>9. v \in [rows -> Nat]  OBVIOUS
<1> HIDE DEF rows, points, D, at
<1>10. g \in [Q -> rows]  BY <1>1, <1>4
<1>11. IsFiniteSet(rows)
  <2> DEFINE each == [b \in points |-> at(b)]
  <2>1. each \in Surjection(points, rows)  BY <1>1 DEF Surjection
  <2> HIDE DEF each
  <2>2. QED  BY <1>6, <2>1, FS_Surjection
<1>12. \A x \in rows : v[x] = Mass(Counts, Part(Q, g, x))
  <2>1. SUFFICES ASSUME NEW x \in rows PROVE v[x] = Mass(Counts, Part(Q, g, x))
    OBVIOUS
  <2>2. PICK b \in points : x = at(b)  BY <1>1
  <2>3. Part(Q, g, x) = {p \in Q : p[2] \in Bucket(b, period)}
    BY <1>2, <1>4, <2>2 DEF Part
  <2>4. QED  BY <1>8, <2>2, <2>3
<1> HIDE DEF g
<1>13. Mass(v, rows) = Mass(Counts, Q)  BY <1>5, <1>7, <1>9, <1>10, <1>11, <1>12, MassParts
<1>14. QED  BY <1>13 DEF rows

LEMMA HostSums ==
    ASSUME FTypeOK, NEW h, NEW start \in Int, NEW period \in Nat
    PROVE  LET A == Kind \X ChartRange(start, period)
           IN  /\ HostChart(h, start, period) = Mass(Counts, Taken(A, h)) + Mass(Counts, Sent(A, h))
               /\ Mass(Counts, Taken(A, h)) \in Nat /\ Mass(Counts, Sent(A, h)) \in Nat
<1> DEFINE A    == Kind \X ChartRange(start, period)
           rows == HostRows(h, start, period)
           points == Points(start, period)
           u    == [x \in rows |-> x[1].in]
           v    == [x \in rows |-> x[1].out]
           w    == [x \in rows |-> x[1].in + x[1].out]
           in(b)  == Taken(Kind \X Bucket(b, period), h)
           out(b) == Sent(Kind \X Bucket(b, period), h)
<1>1. \A b \in points : Bucket(b, period) \subseteq ChartRange(start, period)  BY Buckets
<1>2. ChartRange(start, period) \subseteq Second  BY DEF ChartRange
<1>3. Counts \in [Kind \X Second -> Nat] /\ IsFiniteSet(Kind \X Second)
  BY FlowWeights, FlowsFinite
<1>4. \A b \in points : in(b) \in SUBSET (Kind \X Second) /\ out(b) \in SUBSET (Kind \X Second)
  BY <1>1, <1>2 DEF Taken, Sent
<1>5. \A b \in points : Mass(Counts, in(b)) \in Nat /\ Mass(Counts, out(b)) \in Nat
  <2> HIDE DEF in, out, points
  <2>1. \A T \in SUBSET (Kind \X Second) : Mass(Counts, T) \in Nat  BY <1>3, UnitsFinite
  <2>2. QED  BY <1>4, <2>1
<1>6. \A b \in points : /\ <<HostPoint(h, b, period), b>>[1].in = Mass(Counts, in(b))
                        /\ <<HostPoint(h, b, period), b>>[1].out = Mass(Counts, out(b))
  BY HostPointCounts
<1>7. rows = {<<HostPoint(h, b, period), b>> : b \in points}  BY DEF HostRows
<1>8. \A x \in rows : x[1].in \in Nat /\ x[1].out \in Nat
  <2> HIDE DEF rows, points, in, out
  <2>1. QED  BY <1>5, <1>6, <1>7
<1>9. IsFiniteSet(rows)
  <2> DEFINE each == [b \in points |-> <<HostPoint(h, b, period), b>>]
  <2>1. each \in Surjection(points, rows)  BY <1>7 DEF Surjection
  <2>2. IsFiniteSet(points)  BY Buckets
  <2> HIDE DEF each, points, rows
  <2>3. QED  BY <2>1, <2>2, FS_Surjection
<1>10. u \in [rows -> Nat] /\ v \in [rows -> Nat] /\ w \in [rows -> Nat]
  <2> HIDE DEF rows
  <2>1. \A x \in rows : x[1].in + x[1].out \in Nat  BY <1>8
  <2>2. QED  BY <1>8, <2>1
<1>11. Mass(u, rows) = Mass(Counts, Taken(A, h))
  <2> DEFINE Q == Taken(A, h)
  <2>1. Q \in SUBSET (Kind \X ChartRange(start, period))  BY DEF Taken
  <2>2. ASSUME NEW b \in points
        PROVE  u[<<HostPoint(h, b, period), b>>] = Mass(Counts, {p \in Q : p[2] \in Bucket(b, period)})
    <3>1. {p \in Q : p[2] \in Bucket(b, period)} = in(b)
      <4> HIDE DEF points
      <4>1. QED  BY <1>1 DEF Taken
    <3>2. <<HostPoint(h, b, period), b>> \in rows  BY <1>7
    <3>3. u[<<HostPoint(h, b, period), b>>] = <<HostPoint(h, b, period), b>>[1].in
      <4> HIDE DEF rows
      <4>1. QED  BY <3>2
    <3>4. <<HostPoint(h, b, period), b>>[1].in = Mass(Counts, in(b))  BY <1>6
    <3> HIDE DEF u, Q, in
    <3>5. QED  BY <3>1, <3>3, <3>4
  <2> HIDE DEF u, Q
  <2>3. Mass(u, rows) = Mass(Counts, Q)  BY <1>10, <2>1, <2>2, HostParts
  <2>4. QED  BY <2>3 DEF Q
<1>12. Mass(v, rows) = Mass(Counts, Sent(A, h))
  <2> DEFINE Q == Sent(A, h)
  <2>1. Q \in SUBSET (Kind \X ChartRange(start, period))  BY DEF Sent
  <2>2. ASSUME NEW b \in points
        PROVE  v[<<HostPoint(h, b, period), b>>] = Mass(Counts, {p \in Q : p[2] \in Bucket(b, period)})
    <3>1. {p \in Q : p[2] \in Bucket(b, period)} = out(b)
      <4> HIDE DEF points
      <4>1. QED  BY <1>1 DEF Sent
    <3>2. <<HostPoint(h, b, period), b>> \in rows  BY <1>7
    <3>3. v[<<HostPoint(h, b, period), b>>] = <<HostPoint(h, b, period), b>>[1].out
      <4> HIDE DEF rows
      <4>1. QED  BY <3>2
    <3>4. <<HostPoint(h, b, period), b>>[1].out = Mass(Counts, out(b))  BY <1>6
    <3> HIDE DEF v, Q, out
    <3>5. QED  BY <3>1, <3>3, <3>4
  <2> HIDE DEF v, Q
  <2>3. Mass(v, rows) = Mass(Counts, Q)  BY <1>10, <2>1, <2>2, HostParts
  <2>4. QED  BY <2>3 DEF Q
<1>13. Mass(w, rows) = Mass(u, rows) + Mass(v, rows)
  <2>1. \A x \in rows : w[x] = u[x] + v[x]  OBVIOUS
  <2> HIDE DEF u, v, w, rows
  <2>2. QED  BY <1>9, <1>10, <2>1, MassPlus
<1>14. HostChart(h, start, period) = Mass(w, rows)
  <2>1. \A x \in rows : w[x] = x[1].in + x[1].out  OBVIOUS
  <2> HIDE DEF w
  <2>2. QED  BY <1>9, <1>10, <2>1, HostIsMass
<1>15. Mass(u, rows) \in Nat /\ Mass(v, rows) \in Nat
  <2> HIDE DEF u, v, rows
  <2>1. QED  BY <1>9, <1>10, UnitsFinite
<1> HIDE DEF u, v, w, rows
<1>16. QED  BY <1>11, <1>12, <1>13, <1>14, <1>15

LEMMA HostsAreMass ==
    ASSUME NEW start, NEW period, NEW w \in [Host -> Nat],
           \A h \in Host : w[h] = HostChart(h, start, period)
    PROVE  Total(LAMBDA h : HostChart(h, start, period), Host) = Mass(w, Host)
<1> DEFINE eq(it) == it = [T \in SUBSET Host |-> IF T = {} THEN 0
                           ELSE HostChart(Pick(T), start, period) + it[T \ {Pick(T)}]]
<1>1. Total(LAMBDA h : HostChart(h, start, period), Host) = (CHOOSE it : eq(it))[Host]
  BY DEF Total, MapThenSumSet, MapThenFoldSet, Pick
<1>2. ASSUME NEW it PROVE eq(it) <=> Folds(it, w, Host)
  <2>1. \A T \in SUBSET Host : T # {} => w[Pick(T)] = HostChart(Pick(T), start, period)
    BY PickIn
  <2>2. QED  BY <2>1 DEF Folds
<1> HIDE DEF eq
<1>3. IsFiniteSet(Host)  BY ReportsAssumption
<1>4. Folds(CHOOSE it : eq(it), w, Host)
  <2>1. PICK it : Folds(it, w, Host)  BY <1>3, FoldExists
  <2>2. eq(it)  BY <1>2, <2>1
  <2>3. QED  BY <1>2, <2>2
<1>5. (CHOOSE it : eq(it))[Host] = Mass(w, Host)  BY <1>3, <1>4, FoldIsMass
<1>6. QED  BY <1>1, <1>5, Zenon

\* Every packet has one source and one destination among the hosts.
LEMMA HostsSum ==
    ASSUME FTypeOK, NEW start \in Int, NEW period \in Nat
    PROVE  LET A == Kind \X ChartRange(start, period)
           IN  Total(LAMBDA h : HostChart(h, start, period), Host) = 2 * Mass(Counts, A)
<1> DEFINE A == Kind \X ChartRange(start, period)
           D == Kind \X Second
           u == [h \in Host |-> Mass(Counts, Taken(A, h))]
           v == [h \in Host |-> Mass(Counts, Sent(A, h))]
           w == [h \in Host |-> HostChart(h, start, period)]
           dst == [p \in A |-> p[1].dst]
           src == [p \in A |-> p[1].src]
<1>1. A \subseteq D  BY DEF ChartRange
<1>2. IsFiniteSet(A)
  <2> HIDE DEF A
  <2>1. QED  BY <1>1, FlowsFinite, FS_Subset
<1>3. Counts \in [D -> Nat]  BY FlowWeights
<1>4. \A h \in Host : w[h] = u[h] + v[h] /\ u[h] \in Nat /\ v[h] \in Nat
  BY HostSums
<1>5. u \in [Host -> Nat] /\ v \in [Host -> Nat] /\ w \in [Host -> Nat]
  <2>1. \A h \in Host : w[h] \in Nat
    <3> HIDE DEF u, v, w
    <3>1. QED  BY <1>4
  <2>2. \A h \in Host : u[h] \in Nat /\ v[h] \in Nat  BY <1>4
  <2>3. QED  BY <2>1, <2>2
<1>6. IsFiniteSet(Host)  BY ReportsAssumption
<1>7. dst \in [A -> Host] /\ src \in [A -> Host]  BY KindFields
<1>8. \A h \in Host : u[h] = Mass(Counts, Part(A, dst, h))
  <2>1. SUFFICES ASSUME NEW h \in Host PROVE u[h] = Mass(Counts, Part(A, dst, h))
    OBVIOUS
  <2>2. Part(A, dst, h) = Taken(A, h)  BY DEF Part, Taken
  <2>3. QED  BY <2>2
<1>9. \A h \in Host : v[h] = Mass(Counts, Part(A, src, h))
  <2>1. SUFFICES ASSUME NEW h \in Host PROVE v[h] = Mass(Counts, Part(A, src, h))
    OBVIOUS
  <2>2. Part(A, src, h) = Sent(A, h)  BY DEF Part, Sent
  <2>3. QED  BY <2>2
<1>10. \A h \in Host : w[h] = HostChart(h, start, period)  OBVIOUS
<1> HIDE DEF A, D, u, v, w, dst, src
<1>11. Mass(u, Host) = Mass(Counts, A)  BY <1>1, <1>2, <1>3, <1>5, <1>6, <1>7, <1>8, MassParts
<1>12. Mass(v, Host) = Mass(Counts, A)  BY <1>1, <1>2, <1>3, <1>5, <1>6, <1>7, <1>9, MassParts
<1>13. Mass(w, Host) = Mass(u, Host) + Mass(v, Host)  BY <1>4, <1>5, <1>6, MassPlus
<1>14. Total(LAMBDA h : HostChart(h, start, period), Host) = Mass(w, Host)
  BY <1>5, <1>10, HostsAreMass, Zenon
<1>15. Mass(Counts, A) \in Nat  BY <1>1, <1>2, <1>3, UnitsFinite
<1>16. Mass(w, Host) = 2 * Mass(Counts, A)  BY <1>11, <1>12, <1>13, <1>15
<1>17. QED  BY <1>14, <1>16, Zenon DEF A

LEMMA ChartSums ==
    ASSUME FTypeOK, RowsInv, TelemetrySettles, NEW start \in Int, NEW period \in Nat
    PROVE  ChartAgrees(start, period)
<1> DEFINE range == ChartRange(start, period)
           hosts == Total(LAMBDA h : HostChart(h, start, period), Host)
<1>1. Count(period) * Interval(period) > period  BY Buckets
<1>2. ChannelChart(start, period) = Traffic(range)  BY ChannelSums
<1>3. Traffic(range) = Total(LAMBDA s : PacketsOf(s, 0) + PacketsOf(s, 1), range)
  BY Zenon DEF Traffic
<1>4. ASSUME \A s \in range : s + Start <= now /\ s \notin missed
      PROVE  2 * ChannelChart(start, period) = hosts
  <2>1. range \in SUBSET Second  BY DEF ChartRange
  <2> HIDE DEF range
  <2>2. \A s \in range : telemetry[s] = Rows(flows[s])  BY <1>4, <2>1 DEF TelemetrySettles
  <2>3. Traffic(range) = Mass(Counts, Kind \X range)  BY <2>1, <2>2, SettledRange
  <2>4. hosts = 2 * Mass(Counts, Kind \X range)  BY HostsSum, Zenon DEF range
  <2> HIDE DEF hosts
  <2>5. QED  BY <1>2, <2>3, <2>4
<1>5. ChannelChart(start, period) = Total(LAMBDA s : PacketsOf(s, 0) + PacketsOf(s, 1), range)
  BY <1>2, <1>3, Zenon
<1>6. QED  BY <1>1, <1>4, <1>5, Zenon DEF ChartAgrees

LEMMA HistoryStep == FTypeOK /\ RowsInv /\ TelemetrySettles => HistoryCountsOnce
<1> SUFFICES ASSUME FTypeOK, RowsInv, TelemetrySettles, NEW period \in Periods
             PROVE  BoundedPoints(period) /\ \A start \in ValidStart : ChartAgrees(start, period)
  BY DEF HistoryCountsOnce
<1>1. period \in Nat  BY ReportsAssumption
<1>2. ValidStart \subseteq Int  BY DEF ValidStart
<1>3. QED  BY <1>1, <1>2, ChartBounded, ChartSums

\* In every reachable state, for any period, steps and target, a chart has at
\* most twice the points it aims at and its buckets reach over the period and
\* count every packet of their range once.  Once the range has settled the
\* channel chart counts what the charts of the hosts count, each packet for its
\* source and for its destination.
THEOREM HistoryCounts == FSpec => []HistoryCountsOnce
<1>1. FInit => RowsInv
  <2>1. NoPackets \in [Kind -> Nat]  BY DEF NoPackets
  <2>2. QED  BY <2>1 DEF FInit, RowsInv
<1>2. QED
  BY <1>1, FlowsTypeCorrect, RowsStep, Settles, HistoryStep, PTL DEF FSpec
=============================================================================
