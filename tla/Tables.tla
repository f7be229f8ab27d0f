--------------------------------- MODULE Tables ---------------------------------
(***************************************************************************)
(* A table of the web interface: HostsTable.tsx, and FullDestinationsTable  *)
(* and FullPortsTable, which are built the same way.  The server sends one  *)
(* page of the rows it finds in a short window; the interface keeps what it *)
(* has received in useTtlArrayCache, sorts it again and cuts its own pages. *)
(*                                                                          *)
(* Both sort orders are descending, a unit is fixed, and the location       *)
(* filter and the choice of the time scale are left out.                    *)
(***************************************************************************)
EXTENDS Integers, FiniteSets, SequencesExt

CONSTANTS
    Host,    \* addresses, as numbers: the order of the database
    Text,    \* [Host -> Nat]: their order as strings, which the interface uses
    Typed,   \* addresses that are typed into the filter
    MaxRate, \* bound: rates are 1..MaxRate
    Limits,  \* choices of "Results per page"
    Period,  \* seconds a row of the server aggregates (period_sec)
    Ttl      \* seconds the interface keeps a row (timeScale)

ASSUME TablesAssumption ==
    /\ Host \subseteq Nat /\ IsFiniteSet(Host)
    /\ Typed \subseteq Host /\ Text \in [Host -> Nat]
    /\ Limits \subseteq Nat \ {0} /\ Limits # {}
    /\ {MaxRate, Period, Ttl} \subseteq Nat \ {0} /\ Period <= Ttl

VARIABLES
    idle,  \* seconds since a host's last packet, up to Period
    rate,  \* its rate over the last Period seconds
    view,  \* what is asked of the server: page, limit, sort, only (the ip filter)
    last,  \* the last update: whether it answers the view, its rows and total_count
    cache  \* the rows of useTtlArrayCache: their rate and age

tvars == <<idle, rate, view, last, cache>>

Anyone == -1
Initial == [page |-> 1, limit |-> CHOOSE l \in Limits : TRUE,
            sort |-> "ip", only |-> Anyone]

TInit ==
    /\ idle = [h \in Host |-> Period] /\ rate = [h \in Host |-> 0]
    /\ view = Initial
    /\ last = [fits |-> FALSE, rows |-> <<>>, total |-> 0]
    /\ cache = <<>>

\* The ways to put the hosts in H in descending order of a key: which of two
\* equal ones comes first is open.
Sorted(H, key) ==
    {q \in SetToSeqs(H) : \A i, j \in 1..Len(q) : i < j => key[q[i]] >= key[q[j]]}

\* The hosts on a page of the list q.
Slice(q, v) ==
    {q[i] : i \in {n \in 1..Len(q) : (v.page - 1) * v.limit < n /\ n <= v.page * v.limit}}

PagesFor(count, v) == (count + v.limit - 1) \div v.limit

(***************************************************************************)
(* The server.                                                              *)
(***************************************************************************)
\* The hosts that the query of a view finds.
Matching(v) ==
    {h \in Host : idle[h] < Period /\ v.only \in {h, Anyone}}

\* The possible answers to a view: the sets of hosts on its page.
Answers(v) ==
    LET key == IF v.sort = "rate" THEN rate ELSE [h \in Host |-> h]
    IN  {Slice(q, v) : q \in Sorted(Matching(v), key)}

\* A host sends or receives.
Traffic(h) ==
    /\ idle' = [idle EXCEPT ![h] = 0]
    /\ \E r \in 1..MaxRate : rate' = [rate EXCEPT ![h] = r]
    /\ UNCHANGED <<view, last, cache>>

\* A second passes.
Tick ==
    /\ idle' = [h \in Host |-> IF idle[h] < Period THEN idle[h] + 1 ELSE idle[h]]
    /\ rate' = [h \in Host |-> IF idle[h] + 1 < Period THEN rate[h] ELSE 0]
    /\ cache' = [h \in DOMAIN cache |->
                   [cache[h] EXCEPT !.age = IF @ <= Ttl THEN @ + 1 ELSE @]]
    /\ UNCHANGED <<view, last>>

(***************************************************************************)
(* The interface.                                                           *)
(***************************************************************************)
\* Mutant: rows that are not in the update keep their rate.
MergedKeeps(page) ==
    [h \in DOMAIN cache \cup page |->
       IF h \in page THEN [rate |-> rate[h], age |-> idle[h]] ELSE cache[h]]

\* Mutant: resetting a row dates it anew.
MergedDates(page) ==
    [h \in DOMAIN cache \cup page |->
       IF h \in page THEN [rate |-> rate[h], age |-> idle[h]]
       ELSE [rate |-> 0, age |-> 0]]

\* useTtlArrayCache, first effect: the rows of an update are taken over, the
\* rate of every other row becomes zero.
Merged(page) ==
    [h \in DOMAIN cache \cup page |->
       IF h \in page THEN [rate |-> rate[h], age |-> idle[h]]
       ELSE [cache[h] EXCEPT !.rate = 0]]

\* An update of the table arrives.
Update ==
    \E page \in Answers(view) :
        /\ last' = [fits |-> TRUE, rows |-> [h \in page |-> rate[h]],
                    total |-> IF page = {} THEN 0 ELSE Cardinality(Matching(view))]
        /\ cache' = Merged(page)
        /\ UNCHANGED <<idle, rate, view>>

\* The periodic clean-up of the cache.
Cleanup ==
    /\ cache' = [h \in {g \in DOMAIN cache : cache[g].age <= Ttl} |-> cache[h]]
    /\ UNCHANGED <<idle, rate, view, last>>

amountOfPages ==
    IF view.only = Anyone THEN PagesFor(Cardinality(DOMAIN cache), view)
    ELSE PagesFor(last.total, view)

\* The possible sets of hosts on the screen.
Displays ==
    LET rates == IF view.only = Anyone THEN [h \in DOMAIN cache |-> cache[h].rate]
                 ELSE last.rows
    IN  {Slice(q, view) : q \in Sorted(DOMAIN rates,
                                       IF view.sort = "rate" THEN rates ELSE Text)}

\* The interface subscribes to another view and shows the last update until the
\* first one of the new view arrives.
Look(v) ==
    /\ v # view
    /\ view' = v /\ last' = [last EXCEPT !.fits = FALSE]
    /\ UNCHANGED <<idle, rate, cache>>

\* A page button, Next or Previous.
Turn(p) ==
    /\ p \in 1..amountOfPages \/ (p = view.page - 1 /\ p > 0)
    /\ Look([view EXCEPT !.page = p])

Sort(s) == Look([view EXCEPT !.sort = s, !.page = 1])

Resize(l) == Look([view EXCEPT !.limit = l, !.page = 1])

Filter(h) == Look([view EXCEPT !.only = h, !.page = 1])

\* The filter is emptied, or what is typed stops being an address: then the
\* page stays.
Unfilter(p) ==
    /\ p \in {1, view.page}
    /\ Look([view EXCEPT !.only = Anyone, !.page = p])

TNext ==
    \/ \E h \in Host : Traffic(h)
    \/ \E h \in Typed : Filter(h)
    \/ Tick \/ Update \/ Cleanup
    \/ \E p \in 1..Cardinality(Host) + 1 : Turn(p) \/ Unfilter(p)
    \/ \E s \in {"ip", "rate"} : Sort(s)
    \/ \E l \in Limits : Resize(l)

TSpec == TInit /\ [][TNext]_tvars

\* Time passes, the poller publishes and the interval of the cache fires.
TFairSpec ==
    TSpec /\ WF_tvars(Tick) /\ WF_tvars(Update) /\ WF_tvars(Cleanup)

(***************************************************************************)
(* Properties.                                                              *)
(***************************************************************************)
\* On the first page of a table sorted by rate, every row of the update it
\* shows is on the screen with the rate the server sent: no row remembered from
\* earlier updates can push one of the busiest hosts off the page.
BusiestOnFirstPage ==
    (last.fits /\ view.page = 1 /\ view.sort = "rate")
    => \A h \in DOMAIN last.rows, shown \in Displays :
          h \in DOMAIN cache => h \in shown /\ cache[h].rate = last.rows[h]

\* A host without traffic for good leaves the table for good, although every
\* update rewrites its row.
GoneRowsVanish ==
    \A h \in Host : <>[](idle[h] >= Period) => <>[](h \notin DOMAIN cache)

\* The pages offered are as many as the table the server reports needs (the
\* page counts are correct when the table relies on the cache).
PagesCoverTable ==
    (last.fits /\ view.only = Anyone)
    => amountOfPages * view.limit >= last.total
=============================================================================
