------------------------------- MODULE MCReports -------------------------------
(* The reports on two hosts and a remote address. *)
EXTENDS Reports

CONSTANTS a, b, r

Packet(dir, src, dst, port, protocol, size) ==
    [dir |-> dir, src |-> src, dst |-> dst, src_port |-> 7, dst_port |-> port,
     protocol |-> protocol, size |-> size]

\* In, out, the same remote address as a local one, and a packet that is counted
\* against its direction.
Kinds == {Packet(0, r, a, 8, "TCP", 1), Packet(1, a, r, 9, "UDP", 2),
          Packet(1, r, b, 9, "UDP", 1)}

\* One request of each target with everything left open, one with filters, a
\* second page, and one without its host.
Requests ==
    {[target |-> "telemetry", window |-> w] : w \in {5, None}}
    \cup {[target |-> "hosts_table", period |-> None, ip |-> None, location |-> None,
           limit |-> None, offset |-> 0],
          [target |-> "hosts_table", period |-> 2, ip |-> None, location |-> "LAN",
           limit |-> 1, offset |-> 1]}
    \cup {[target |-> "host_details", period |-> None, host_ip |-> h] : h \in {a, None}}
    \cup {[target |-> t, period |-> None, host_ip |-> a, limit |-> 1, offset |-> 0] :
          t \in {"host_top_destinations", "host_top_ports"}}
=============================================================================
