-------------------------------- MODULE Reports --------------------------------
(***************************************************************************)
(* What the reporting service, the initial snapshots and the history routes *)
(* compute from the packets and from their aggregate (core/db.py,           *)
(* reporting/handlers, websocket/snapshot.py, api/routes/history.py).       *)
(*                                                                          *)
(* A report is a function of the state of Flows.  A rate is the count it is *)
(* computed from: all views of one period divide by the same period_sec.    *)
(* The order of rows is left out: a page is the rows it is cut from, and    *)
(* how many of them it holds.                                               *)
(***************************************************************************)
EXTENDS Flows

CONSTANTS
    Host,          \* the addresses packets and requests name
    None,          \* a parameter that is not given
    Windows,       \* window_sec requests may have
    Periods,       \* period_sec the subscriptions and the history routes may have
    Limits,        \* limit requests may have
    Asked,         \* bound: the requests whose answers are compared
    DefaultPeriod, \* DEFAULT_PERIOD_SEC
    PushWindow, SnapshotWindow,  \* the window_sec a push and a snapshot take for none
    DefaultLimit, MaxLimit,  \* DEFAULT_LIMIT, MAX_LIMIT
    Target,        \* target_points of the bucket size
    Steps, Hour,   \* logical_steps, and the unit above them
    Retention      \* RETENTION_DAYS, in seconds

ASSUME ReportsAssumption ==
    /\ IsFiniteSet(Host) /\ \A k \in Kind : {k.src, k.dst} \subseteq Host
    /\ Windows \cup Periods \cup Limits \cup Steps \subseteq Nat \ {0}
    /\ {PushWindow, SnapshotWindow} \subseteq Nat \ {0}
    /\ {DefaultPeriod, DefaultLimit, MaxLimit, Target, Hour} \subseteq Nat \ {0}
    /\ 1 \in Steps /\ Hour \in Steps /\ \A s \in Steps : s <= Hour
    /\ Retention \in Nat

Total(f(_), S) == MapThenSumSet(f, S)

(***************************************************************************)
(* The views on packet_flows: time > NOW() - period, with no upper end.     *)
(***************************************************************************)
Packets(period) == {p \in Kind \X Second : flows[p[2]][p[1]] > 0 /\ p[2] > now - period}
Num(S)   == Total(LAMBDA p : flows[p[2]][p[1]], S)
Bytes(S) == Total(LAMBDA p : flows[p[2]][p[1]] * p[1].size, S)

\* The address of a packet on the side of the network, and the other one.
Local(p)  == IF p[1].dir = 0 THEN p[1].dst ELSE p[1].src
Remote(p) == IF p[1].dir = 0 THEN p[1].src ELSE p[1].dst

\* Mutant: the remote address gets the direction of the local one.
HostRowSameSide(h, P) ==
    LET of == {p \in P : h \in {Local(p), Remote(p)}}
        tx == {p \in of : p[1].dir = 1}
        rx == {p \in of : p[1].dir = 0}
    IN [ip |-> h, location |-> "LAN",
        unique_destinations |-> Cardinality({Remote(p) : p \in of}),
        tx |-> Num(tx), rx |-> Num(rx), tx_bytes |-> Bytes(tx), rx_bytes |-> Bytes(rx),
        last_activity |-> Max({p[2] : p \in of})]

\* db_fetch_hosts_table_data: each packet makes a row of the local address and
\* one of the remote address, grouped by address.
HostRow(h, P) ==
    LET lan == {p \in P : Local(p) = h}
        wan == {p \in P : Remote(p) = h}
        tx  == {p \in lan : p[1].dir = 1}
        rx  == {p \in lan : p[1].dir = 0}
        wtx == {p \in wan : p[1].dir = 0}
        wrx == {p \in wan : p[1].dir = 1}
    IN [ip       |-> h,
        location |-> IF Num(lan) >= Num(wan) THEN "LAN" ELSE "WAN",
        unique_destinations |->
            Cardinality({Remote(p) : p \in lan} \cup {Local(p) : p \in wan}),
        tx       |-> Num(tx) + Num(wtx),     rx       |-> Num(rx) + Num(wrx),
        tx_bytes |-> Bytes(tx) + Bytes(wtx), rx_bytes |-> Bytes(rx) + Bytes(wrx),
        last_activity |-> Max({p[2] : p \in lan \cup wan})]

HostsTable(period) ==
    LET P == Packets(period) IN
    {HostRow(h, P) : h \in {Local(p) : p \in P} \cup {Remote(p) : p \in P}}

\* db_fetch_host_details_data, with the zeros of the handler for no packets.
HostDetails(h, period) ==
    LET src == {p \in Packets(period) : p[1].src = h}
        dst == {p \in Packets(period) : p[1].dst = h}
    IN [tx |-> Num(src), rx |-> Num(dst), tx_bytes |-> Bytes(src), rx_bytes |-> Bytes(dst)]

\* The packets of a host in the two top lists: those it has as the local address.
LocalOf(h, period) == {p \in Packets(period) : Local(p) = h}

\* db_fetch_host_top_destinations_data.  The inner CASE makes every remote
\* address WAN.
TopDestinations(h, period) ==
    LET P == LocalOf(h, period) IN
    {LET of == {p \in P : Remote(p) = r} IN
     [ip |-> r, location |-> "WAN", received |-> Num(of), received_bytes |-> Bytes(of),
      last_seen |-> Max({p[2] : p \in of})] : r \in {Remote(p) : p \in P}}

\* db_fetch_host_top_ports_data.
RemotePort(p) == IF p[1].dir = 0 THEN p[1].src_port ELSE p[1].dst_port

TopPorts(h, period) ==
    LET P == LocalOf(h, period) IN
    {LET of == {p \in P : RemotePort(p) = g[1] /\ p[1].protocol = g[2]} IN
     [port |-> g[1], protocol |-> g[2], packets |-> Num(of), bytes |-> Bytes(of)] :
     g \in {<<RemotePort(p), p[1].protocol>> : p \in P}}

(***************************************************************************)
(* The view on telemetry_1s: the seconds of (NOW - w - 1, NOW - 1] that     *)
(* have a row.                                                              *)
(***************************************************************************)
PacketsOf(s, d) == Total(LAMBDA q : telemetry[s][q][d].packets, Protocol)
BytesOf(s, d)   == Total(LAMBDA q : telemetry[s][q][d].bytes, Protocol)

Telemetry(window) ==
    LET buckets == {s \in Second : now - window <= s /\ s < now
                                   /\ PacketsOf(s, 0) + PacketsOf(s, 1) > 0}
        count   == Cardinality(buckets)
        side(d) ==
            LET packets == Total(LAMBDA s : PacketsOf(s, d), buckets)
                bytes   == Total(LAMBDA s : BytesOf(s, d), buckets)
            IN [packets |-> packets, bytes |-> bytes,
                packets_per_sec |-> IF count = 0 THEN 0 ELSE packets \div count,
                bytes_per_sec   |-> IF count = 0 THEN 0 ELSE bytes \div count]
    IN [window |-> count, direction_in |-> side(0), direction_out |-> side(1),
        timestamp |-> IF count = 0 THEN now ELSE Max(buckets)]

(***************************************************************************)
(* The requests, and what their pushes and their snapshots carry.           *)
(***************************************************************************)
\* The parameters a target looks at; the others are not given.
Request ==
    [target : {"telemetry"}, window : Windows \cup {None}]
    \cup [target : {"hosts_table"}, period : Periods \cup {None}, ip : Host \cup {None},
          location : {"LAN", "WAN", None}, limit : Limits \cup {None}, offset : 0..1]
    \cup [target : {"host_details"}, period : Periods \cup {None}, host_ip : Host \cup {None}]
    \cup [target : {"host_top_destinations", "host_top_ports"}, period : Periods \cup {None},
          host_ip : Host \cup {None}, limit : Limits \cup {None}, offset : 0..1]

ASSUME AskedAssumption == Asked \subseteq Request

Given(value, default) == IF value = None THEN default ELSE value

\* build_limit_param and build_offset, and COUNT( * ) OVER (), which no row of an
\* empty page carries.
PageSize(limit) == Max({1, Min({Given(limit, DefaultLimit), MaxLimit})})

Page(rows, r) ==
    LET left == Cardinality(rows) - r.offset
        size == Max({0, Min({left, PageSize(r.limit)})})
    IN [of |-> rows, size |-> size,
        total_count |-> IF size = 0 THEN 0 ELSE Cardinality(rows)]

Filtered(r, period) ==
    {row \in HostsTable(period) : r.ip \in {None, row.ip} /\ r.location \in {None, row.location}}

\* The handlers of the poller, one for each target: None is not published.
PushTelemetry(r) ==
    IF registered THEN Telemetry(Given(r.window, PushWindow)) ELSE None

PushHosts(r) == Page(Filtered(r, Given(r.period, DefaultPeriod)), r)

PushDetails(r) ==
    IF r.host_ip = None THEN None ELSE HostDetails(r.host_ip, Given(r.period, DefaultPeriod))

PushDestinations(r) ==
    IF r.host_ip = None THEN None
    ELSE Page(TopDestinations(r.host_ip, Given(r.period, DefaultPeriod)), r)

PushPorts(r) ==
    IF r.host_ip = None THEN None
    ELSE Page(TopPorts(r.host_ip, Given(r.period, DefaultPeriod)), r)

Push(r) ==
    CASE r.target = "telemetry"             -> PushTelemetry(r)
      [] r.target = "hosts_table"           -> PushHosts(r)
      [] r.target = "host_details"          -> PushDetails(r)
      [] r.target = "host_top_destinations" -> PushDestinations(r)
      [] r.target = "host_top_ports"        -> PushPorts(r)

\* fetch_snapshot builds its answers without the bytes.
Side(m)    == [packets |-> m.packets, packets_per_sec |-> m.packets_per_sec]
NoTraffic  == [packets |-> 0, packets_per_sec |-> 0]
\* Mutant: the two directions of a snapshot changed over.
BriefSwapped(t) ==
    [window |-> t.window, direction_in |-> Side(t.direction_out),
     direction_out |-> Side(t.direction_in), timestamp |-> t.timestamp]

Brief(t)   == [window |-> t.window, direction_in |-> Side(t.direction_in),
               direction_out |-> Side(t.direction_out), timestamp |-> t.timestamp]
Unknown    == [window |-> 0, direction_in |-> NoTraffic, direction_out |-> NoTraffic,
               timestamp |-> now]
Bytewise   == {"tx_bytes", "rx_bytes", "received_bytes", "bytes"}
Plain(row) == [f \in DOMAIN row \ Bytewise |-> row[f]]
BriefPage(page) == [page EXCEPT !.of = {Plain(row) : row \in @}]

SnapshotTelemetry(r) ==
    IF registered THEN Brief(Telemetry(Given(r.window, SnapshotWindow))) ELSE Unknown

SnapshotHosts(r) == BriefPage(Page(Filtered(r, Given(r.period, DefaultPeriod)), r))

\* None: ResourceNotFoundError.
SnapshotDetails(r) ==
    IF r.host_ip = None THEN None
    ELSE Plain(HostDetails(r.host_ip, Given(r.period, DefaultPeriod)))

SnapshotDestinations(r) ==
    IF r.host_ip = None THEN None
    ELSE BriefPage(Page(TopDestinations(r.host_ip, Given(r.period, DefaultPeriod)), r))

SnapshotPorts(r) ==
    IF r.host_ip = None THEN None
    ELSE BriefPage(Page(TopPorts(r.host_ip, Given(r.period, DefaultPeriod)), r))

Snapshot(r) ==
    CASE r.target = "telemetry"             -> SnapshotTelemetry(r)
      [] r.target = "hosts_table"           -> SnapshotHosts(r)
      [] r.target = "host_details"          -> SnapshotDetails(r)
      [] r.target = "host_top_destinations" -> SnapshotDestinations(r)
      [] r.target = "host_top_ports"        -> SnapshotPorts(r)

(***************************************************************************)
(* The history routes.                                                      *)
(***************************************************************************)
\* _validate_time_range: every other start is refused.  The start a request
\* leaves open is now - period, which is refused as well when it is too old.
ValidStart == (now - Retention)..now

\* calculate_optimal_bucket.
Interval(period) ==
    LET raw  == Max({1, period \div Target})
        fits == {s \in Steps : raw <= s}
    IN IF fits # {} THEN Min(fits) ELSE Max({Hour, (raw \div Hour) * Hour})

\* generate_series takes both ends of the range: the last bucket begins in it.
Count(period)         == period \div Interval(period) + 1
Points(start, period) == {start + i * Interval(period) : i \in 0..(Count(period) - 1)}

Bucket(b, period) == {s \in Second : b <= s /\ s < b + Interval(period)}

\* db_fetch_channel_history and db_fetch_host_history, one point.
ChannelPoint(b, period) ==
    Total(LAMBDA s : PacketsOf(s, 0) + PacketsOf(s, 1), Bucket(b, period))

\* Mutant: only the packets of which the host is the local address.
HostPointLocal(h, b, period) ==
    LET P == {p \in Kind \X Bucket(b, period) : flows[p[2]][p[1]] > 0 /\ Local(p) = h}
    IN [in  |-> Num({p \in P : p[1].dir = 0}), out |-> Num({p \in P : p[1].dir = 1})]

HostPoint(h, b, period) ==
    LET P == {p \in Kind \X Bucket(b, period) : flows[p[2]][p[1]] > 0}
    IN [in  |-> Num({p \in P : p[1].dst = h}), out |-> Num({p \in P : p[1].src = h})]

(***************************************************************************)
(* Properties.                                                              *)
(***************************************************************************)
Column(f, rows) == Total(LAMBDA row : row[f], rows)

\* The views on the packets of one period agree although each has a query of
\* its own: every host has the rates in the table that its details show, the
\* traffic sent is the traffic received, and the destinations and the ports of
\* a host add up to the packets it has as the local address, which are all of
\* its packets when it is never the remote one.
TableAgrees(period) ==
    LET table == HostsTable(period) IN
    /\ \A row \in table :
        [tx |-> row.tx, rx |-> row.rx, tx_bytes |-> row.tx_bytes, rx_bytes |-> row.rx_bytes]
            = HostDetails(row.ip, period)
    /\ Column("tx", table) = Num(Packets(period))
    /\ Column("rx", table) = Num(Packets(period))

TopsAgree(h, period) ==
    LET destinations == TopDestinations(h, period)
        received     == Column("received", destinations)
        details      == HostDetails(h, period)
        row          == CHOOSE r \in HostsTable(period) : r.ip = h
    IN /\ received = Column("packets", TopPorts(h, period))
       /\ received <= details.tx + details.rx
       /\ received = details.tx + details.rx /\ received > 0
            => row.location = "LAN" /\ row.unique_destinations = Cardinality(destinations)

ViewsAgree ==
    \A period \in Periods : TableAgrees(period) /\ \A h \in Host : TopsAgree(h, period)

\* What a snapshot carries is what the push carries.
Agrees(s, p) == \A f \in DOMAIN s : s[f] = p[f]

TelemetryAgrees(s, p) ==
    /\ s.window = p.window /\ s.timestamp = p.timestamp
    /\ Agrees(s.direction_in, p.direction_in) /\ Agrees(s.direction_out, p.direction_out)

PageAgrees(s, p) ==
    /\ s.size = p.size /\ s.total_count = p.total_count
    /\ Cardinality(s.of) = Cardinality(p.of)
    /\ \A row \in s.of : \E other \in p.of : Agrees(row, other)

AnswerAgrees(r, s, p) ==
    /\ p = None => s = None \/ (~registered /\ s = Unknown)
    /\ p # None =>
         /\ r.target = "telemetry" /\ r.window # None => TelemetryAgrees(s, p)
         /\ r.target = "host_details" => Agrees(s, p)
         /\ r.target \notin {"telemetry", "host_details"} => PageAgrees(s, p)

\* The first answer to a subscription, computed by the WebSocket service, and
\* the next push, computed by the reporting service from the same data, tell the
\* same of what both carry.  The exceptions are the window a telemetry request
\* leaves open, and a channel without a row, of which nothing is pushed.
SnapshotMatchesPush == \A r \in Asked : AnswerAgrees(r, Snapshot(r), Push(r))

\* A chart has at most twice the points it aims at, for any period.
BoundedPoints(period) == Count(period) <= 2 * Target

ChartRange(start, period) ==
    {s \in Second : start <= s /\ s < start + Count(period) * Interval(period)}

ChannelChart(start, period) ==
    Total(LAMBDA b : ChannelPoint(b, period), Points(start, period))

HostChart(h, start, period) ==
    LET of == {<<HostPoint(h, b, period), b>> : b \in Points(start, period)} IN
    Total(LAMBDA p : p[1].in + p[1].out, of)

\* For every start the routes accept, old ones and the present second included:
\* the buckets of a chart reach from its start to its end, and every packet of
\* their range is in exactly one of them.  The channel chart, from the
\* aggregate, counts what the charts of its hosts, from the packets, count:
\* each packet once for its source and once for its destination, when the range
\* has settled.
ChartAgrees(start, period) ==
    LET range == ChartRange(start, period)
        chart == ChannelChart(start, period)
    IN /\ Count(period) * Interval(period) > period
       /\ chart = Total(LAMBDA s : PacketsOf(s, 0) + PacketsOf(s, 1), range)
       /\ (\A s \in range : s + Start <= now /\ s \notin missed) =>
            2 * chart = Total(LAMBDA h : HostChart(h, start, period), Host)

HistoryCountsOnce ==
    \A period \in Periods :
        BoundedPoints(period) /\ \A start \in ValidStart : ChartAgrees(start, period)
=============================================================================
