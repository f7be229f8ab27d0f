------------------------------- MODULE TablesProofs -------------------------------
(***************************************************************************)
(* Proofs about the tables of the web interface (Tables): the rows of the   *)
(* update on the first page of a table that is sorted by rate.              *)
(***************************************************************************)
EXTENDS Tables, FiniteSetTheorems, TLAPS

LEMMA ConstantTypes ==
    /\ Host \subseteq Nat /\ IsFiniteSet(Host) /\ Anyone \notin Host
    /\ Limits \subseteq Nat \ {0} /\ Initial.limit \in Limits
    /\ MaxRate \in Nat \ {0} /\ Period \in Nat \ {0} /\ Ttl \in Nat \ {0}
BY TablesAssumption DEF Anyone, Initial

(***************************************************************************)
(* Lists and their pages.                                                   *)
(***************************************************************************)
\* A sorted list names every host of a finite set once.
LEMMA SortedIs ==
    ASSUME NEW H, IsFiniteSet(H), NEW key, NEW q \in Sorted(H, key)
    PROVE  /\ Cardinality(H) \in Nat /\ Len(q) = Cardinality(H)
           /\ q \in [1..Cardinality(H) -> H]
           /\ q \in Bijection(1..Cardinality(H), H)
           /\ \A i, j \in 1..Cardinality(H) : i < j => key[q[i]] >= key[q[j]]
<1> DEFINE n == Cardinality(H)
<1>1. n \in Nat  BY FS_CardinalityType
<1>2. /\ q \in [1..n -> H] /\ \A i, j \in 1..n : i # j => q[i] # q[j]
      /\ \A i, j \in 1..Len(q) : i < j => key[q[i]] >= key[q[j]]
  BY DEF Sorted, SetToSeqs
<1> HIDE DEF n
<1>3. Len(q) = n
  <2>1. q \in Seq(H)  BY <1>1, <1>2
  <2>2. DOMAIN q = 1..Len(q) /\ Len(q) \in Nat /\ DOMAIN q = 1..n  BY <1>2, <2>1
  <2>3. /\ n = 0 \/ n \in 1..Len(q)
        /\ Len(q) = 0 \/ Len(q) \in 1..n
    BY <1>1, <2>2
  <2>4. Len(q) \in Nat  BY <2>2
  <2> DEFINE len == Len(q)
  <2> HIDE DEF len
  <2>5. len = n  BY <1>1, <2>3, <2>4 DEF len
  <2>6. QED  BY <2>5 DEF len
<1>4. q \in Injection(1..n, H)  BY <1>2 DEF Injection, IsInjective
<1>5. Cardinality(1..n) = n
  <2>1. 1 \in Int /\ n \in Int  BY <1>1
  <2>2. Cardinality(1..n) = IF 1 > n THEN 0 ELSE n - 1 + 1  BY <2>1, FS_Interval
  <2>3. QED  BY <1>1, <2>2
<1>6. q \in Surjection(1..n, H)  BY <1>4, <1>5, FS_Injection DEF n
<1>7. q \in Bijection(1..n, H)  BY <1>4, <1>6 DEF Bijection
<1>8. QED  BY <1>1, <1>2, <1>3, <1>7 DEF n

\* A page is not longer than the limit.
LEMMA SliceFits ==
    ASSUME NEW H, IsFiniteSet(H), NEW key, NEW q \in Sorted(H, key),
           NEW v, v.page \in Nat \ {0}, v.limit \in Nat \ {0}
    PROVE  /\ Slice(q, v) \subseteq H /\ IsFiniteSet(Slice(q, v))
           /\ Cardinality(Slice(q, v)) <= v.limit
<1> DEFINE n     == Cardinality(H)
           skip  == (v.page - 1) * v.limit
           on    == {i \in 1..n : skip < i /\ i <= v.page * v.limit}
           place == [i \in on |-> q[i]]
<1>1. n \in Nat /\ Len(q) = n /\ q \in [1..n -> H]  BY SortedIs
<1>2. Slice(q, v) = {q[i] : i \in on}  BY <1>1 DEF Slice
<1>3. skip \in Nat /\ v.page * v.limit = skip + v.limit
  <2>1. \A p, l \in Nat \ {0} : (p - 1) * l \in Nat /\ p * l = (p - 1) * l + l
    OBVIOUS
  <2>2. QED  BY <2>1
<1> HIDE DEF skip, n
<1>4. on \subseteq (skip + 1)..(skip + v.limit)  BY <1>1, <1>3
<1>5. /\ IsFiniteSet((skip + 1)..(skip + v.limit))
      /\ Cardinality((skip + 1)..(skip + v.limit)) = v.limit
  <2>1. skip + 1 \in Int /\ skip + v.limit \in Int  BY <1>3
  <2>2. IsFiniteSet((skip + 1)..(skip + v.limit)) /\ Cardinality((skip + 1)..(skip + v.limit))
          = IF skip + 1 > skip + v.limit THEN 0 ELSE (skip + v.limit) - (skip + 1) + 1
    BY <2>1, FS_Interval
  <2>3. QED  BY <1>3, <2>2
<1>6. IsFiniteSet(on) /\ Cardinality(on) <= v.limit  BY <1>4, <1>5, FS_Subset
<1>7. Cardinality(on) \in Nat  BY <1>6, FS_CardinalityType
<1>8. place \in Surjection(on, Slice(q, v))  BY <1>2 DEF Surjection
<1> HIDE DEF place, on
<1>9. IsFiniteSet(Slice(q, v)) /\ Cardinality(Slice(q, v)) <= Cardinality(on)
  BY <1>6, <1>8, FS_Surjection
<1>10. Cardinality(Slice(q, v)) \in Nat  BY <1>9, FS_CardinalityType
<1>11. Slice(q, v) \subseteq H  BY <1>1, <1>2 DEF on
<1>12. QED  BY <1>6, <1>7, <1>9, <1>10, <1>11

\* The first page shows what no more than limit others can be before.
LEMMA FirstPageShows ==
    ASSUME NEW H, IsFiniteSet(H), NEW key, NEW q \in Sorted(H, key),
           NEW v, v.page = 1, v.limit \in Nat \ {0},
           NEW h \in H, NEW B, IsFiniteSet(B), Cardinality(B) <= v.limit,
           \A g \in H : key[g] \in Int /\ (key[g] >= key[h] => g \in B)
    PROVE  h \in Slice(q, v)
<1> DEFINE n == Cardinality(H)
<1>1. /\ n \in Nat /\ Len(q) = n /\ q \in Bijection(1..n, H)
      /\ \A i, j \in 1..n : i < j => key[q[i]] >= key[q[j]]
  BY SortedIs
<1> HIDE DEF n
<1>2. PICK i \in 1..n : q[i] = h  BY <1>1 DEF Bijection, Surjection
<1> DEFINE first == [j \in 1..i |-> q[j]]
<1>3. i \in Nat /\ i >= 1 /\ 1..i \subseteq 1..n  BY <1>1, <1>2
<1>4. \A j \in 1..i : first[j] \in B
  <2>1. SUFFICES ASSUME NEW j \in 1..i PROVE q[j] \in B
    OBVIOUS
  <2>2. j \in 1..n /\ q[j] \in H  BY <1>1, <1>3 DEF Bijection, Surjection
  <2>3. key[q[j]] >= key[h]
    <3>1. CASE j = i  BY <1>2, <2>2, <3>1
    <3>2. CASE j < i  BY <1>1, <1>2, <2>2, <3>2
    <3>3. QED  BY <1>3, <3>1, <3>2
  <2>4. QED  BY <2>2, <2>3
<1>5. \A j, k \in 1..i : first[j] = first[k] => j = k
  <2>1. \A j, k \in 1..n : q[j] = q[k] => j = k
    BY <1>1 DEF Bijection, Injection, IsInjective
  <2>2. QED  BY <1>3, <2>1
<1>6. first \in Injection(1..i, B)  BY <1>4, <1>5 DEF Injection, IsInjective
<1> HIDE DEF first
<1>7. Cardinality(1..i) <= Cardinality(B)  BY <1>6, FS_Injection
<1>8. Cardinality(1..i) = i
  <2>1. 1 \in Int /\ i \in Int  BY <1>3
  <2>2. Cardinality(1..i) = IF 1 > i THEN 0 ELSE i - 1 + 1  BY <2>1, FS_Interval
  <2>3. QED  BY <1>3, <2>2
<1>9. i <= v.limit  BY <1>3, <1>7, <1>8, FS_CardinalityType
<1>10. i \in 1..Len(q) /\ (v.page - 1) * v.limit < i /\ i <= v.page * v.limit
  <2>1. \A l \in Nat : (1 - 1) * l = 0 /\ 1 * l = l  OBVIOUS
  <2>2. QED  BY <1>1, <1>2, <1>3, <1>9, <2>1
<1>11. QED  BY <1>2, <1>10 DEF Slice

(***************************************************************************)
(* The update that the table shows, and the rows of the cache.              *)
(***************************************************************************)
Views == [page : Nat \ {0}, limit : Limits, sort : {"ip", "rate"}, only : Host \cup {Anyone}]
Kept  == [rate : 0..MaxRate, age : Nat]

TypesInv ==
    /\ idle \in [Host -> 0..Period] /\ rate \in [Host -> 0..MaxRate]
    /\ \A h \in Host : idle[h] < Period => rate[h] >= 1
    /\ view \in Views
    /\ cache \in [DOMAIN cache -> Kept] /\ DOMAIN cache \subseteq Host
    /\ last.fits \in BOOLEAN
    /\ last = [fits |-> last.fits, rows |-> last.rows, total |-> last.total]

\* The rows of an update fit on a page, and only they have a rate in the cache.
LastInv ==
    last.fits =>
        /\ DOMAIN last.rows \subseteq Host /\ Cardinality(DOMAIN last.rows) <= view.limit
        /\ last.rows \in [DOMAIN last.rows -> 1..MaxRate]
        /\ \A h \in DOMAIN cache :
              cache[h].rate = IF h \in DOMAIN last.rows THEN last.rows[h] ELSE 0

LEMMA ViewIs ==
    ASSUME NEW v \in Views
    PROVE  /\ v.page \in Nat \ {0} /\ v.limit \in Limits /\ v.limit \in Nat \ {0}
           /\ v.sort \in {"ip", "rate"} /\ v.only \in Host \cup {Anyone}
BY ConstantTypes DEF Views

\* A page of the server holds hosts with traffic, and no more than the limit.
LEMMA AnswerFits ==
    ASSUME TypesInv, NEW page \in Answers(view)
    PROVE  /\ page \subseteq Host /\ Cardinality(page) <= view.limit
           /\ \A h \in page : idle[h] < Period /\ rate[h] \in 1..MaxRate
<1> DEFINE key == IF view.sort = "rate" THEN rate ELSE [h \in Host |-> h]
           H   == Matching(view)
<1>1. PICK q \in Sorted(H, key) : page = Slice(q, view)  BY DEF Answers
<1>2. /\ H \subseteq Host /\ IsFiniteSet(H)
      /\ \A h \in H : idle[h] < Period
  <2>1. H \subseteq Host /\ \A h \in H : idle[h] < Period  BY DEF Matching
  <2> HIDE DEF H
  <2>2. QED  BY <2>1, ConstantTypes, FS_Subset
<1>3. view.page \in Nat \ {0} /\ view.limit \in Nat \ {0}  BY ViewIs DEF TypesInv
<1> HIDE DEF H, key
<1>4. page \subseteq H /\ Cardinality(page) <= view.limit
  BY <1>1, <1>2, <1>3, SliceFits
<1>5. \A h \in page : rate[h] \in 1..MaxRate
  BY <1>2, <1>4, ConstantTypes DEF TypesInv
<1>6. QED  BY <1>2, <1>4, <1>5

\* Asking for another view.
LEMMA LookHolds ==
    ASSUME TypesInv, NEW v \in Views, Look(v)
    PROVE  TypesInv' /\ LastInv'
<1>1. /\ view' = v /\ last' = [last EXCEPT !.fits = FALSE] /\ UNCHANGED <<idle, rate, cache>>
  BY DEF Look
<1>2. last' = [fits |-> FALSE, rows |-> last.rows, total |-> last.total]
  BY <1>1 DEF TypesInv
<1>3. last'.fits = FALSE /\ last'.rows = last.rows /\ last'.total = last.total  BY <1>2
<1>4. TypesInv'  BY <1>1, <1>2, <1>3 DEF TypesInv
<1>5. QED  BY <1>3, <1>4 DEF LastInv

LEMMA LastInductive ==
    TypesInv /\ LastInv /\ [TNext]_tvars => TypesInv' /\ LastInv'
<1> SUFFICES ASSUME TypesInv, LastInv, [TNext]_tvars PROVE TypesInv' /\ LastInv'
  OBVIOUS
<1> DEFINE Good == TypesInv' /\ LastInv'
<1> USE ConstantTypes
<1>a. /\ idle \in [Host -> 0..Period] /\ rate \in [Host -> 0..MaxRate]
      /\ \A h \in Host : idle[h] < Period => rate[h] >= 1
      /\ view \in Views
      /\ cache \in [DOMAIN cache -> Kept] /\ DOMAIN cache \subseteq Host
  BY DEF TypesInv
<1>b. \A h \in DOMAIN cache : cache[h] \in Kept /\ cache[h].rate \in 0..MaxRate /\ cache[h].age \in Nat
  BY <1>a DEF Kept
<1>c. 1 \in Nat \ {0}  OBVIOUS
<1>1. ASSUME NEW h \in Host, Traffic(h) PROVE Good
  <2>1. PICK r \in 1..MaxRate : rate' = [rate EXCEPT ![h] = r]  BY <1>1 DEF Traffic
  <2>2. idle' = [idle EXCEPT ![h] = 0] /\ UNCHANGED <<view, last, cache>>  BY <1>1 DEF Traffic
  <2>3. idle' \in [Host -> 0..Period] /\ rate' \in [Host -> 0..MaxRate]
    BY <1>a, <2>1, <2>2
  <2>4. \A g \in Host : idle'[g] < Period => rate'[g] >= 1
    BY <1>a, <2>1, <2>2
  <2>5. TypesInv'  BY <2>2, <2>3, <2>4 DEF TypesInv
  <2>6. QED  BY <2>2, <2>5 DEF LastInv
<1>2. CASE Tick
  <2>1. /\ idle' = [h \in Host |-> IF idle[h] < Period THEN idle[h] + 1 ELSE idle[h]]
        /\ rate' = [h \in Host |-> IF idle[h] + 1 < Period THEN rate[h] ELSE 0]
        /\ UNCHANGED <<view, last>>
    BY <1>2 DEF Tick
  <2>2. DOMAIN cache' = DOMAIN cache
        /\ \A h \in DOMAIN cache : cache'[h] \in Kept /\ cache'[h].rate = cache[h].rate
    <3>1. cache' = [h \in DOMAIN cache |->
                      [cache[h] EXCEPT !.age = IF @ <= Ttl THEN @ + 1 ELSE @]]
      BY <1>2 DEF Tick
    <3>2. ASSUME NEW h \in DOMAIN cache
          PROVE  cache'[h] \in Kept /\ cache'[h].rate = cache[h].rate
      <4> DEFINE age == IF cache[h].age <= Ttl THEN cache[h].age + 1 ELSE cache[h].age
      <4>1. cache'[h] = [cache[h] EXCEPT !.age = age]  BY <3>1
      <4>2. age \in Nat  BY <1>b
      <4> HIDE DEF age
      <4>3. QED  BY <1>b, <4>1, <4>2 DEF Kept
    <3>3. QED  BY <3>1, <3>2
  <2>3. cache' \in [DOMAIN cache' -> Kept]
    <3>1. cache' = [h \in DOMAIN cache' |-> cache'[h]]  BY <1>2, <2>2 DEF Tick
    <3>2. QED  BY <2>2, <3>1
  <2>4. idle' \in [Host -> 0..Period] /\ rate' \in [Host -> 0..MaxRate]
    BY <1>a, <2>1
  <2>5. \A h \in Host : idle'[h] < Period => rate'[h] >= 1
    BY <1>a, <2>1
  <2>6. TypesInv'  BY <1>a, <2>1, <2>2, <2>3, <2>4, <2>5 DEF TypesInv
  <2>7. LastInv'  BY <2>1, <2>2 DEF LastInv
  <2>8. QED  BY <2>6, <2>7
<1>3. CASE Update
  <2>1. PICK page \in Answers(view) :
          /\ last' = [fits |-> TRUE, rows |-> [h \in page |-> rate[h]],
                      total |-> IF page = {} THEN 0 ELSE Cardinality(Matching(view))]
          /\ cache' = Merged(page)
          /\ UNCHANGED <<idle, rate, view>>
    BY <1>3 DEF Update
  <2>2. /\ page \subseteq Host /\ Cardinality(page) <= view.limit
        /\ \A h \in page : idle[h] < Period /\ rate[h] \in 1..MaxRate
    BY AnswerFits
  <2> DEFINE rows  == [h \in page |-> rate[h]]
             total == IF page = {} THEN 0 ELSE Cardinality(Matching(view))
  <2>3. DOMAIN rows = page /\ rows \in [page -> 1..MaxRate] /\ \A h \in page : rows[h] = rate[h]
    BY <2>2
  <2>4. last' = [fits |-> TRUE, rows |-> rows, total |-> total]  BY <2>1
  <2> HIDE DEF rows, total
  <2>5. last'.fits = TRUE /\ last'.rows = rows /\ last'.total = total  BY <2>4
  <2>6. /\ cache' = [h \in DOMAIN cache \cup page |->
                       IF h \in page THEN [rate |-> rate[h], age |-> idle[h]]
                       ELSE [cache[h] EXCEPT !.rate = 0]]
        /\ DOMAIN cache' = DOMAIN cache \cup page
    BY <2>1 DEF Merged
  <2>7. ASSUME NEW h \in DOMAIN cache \cup page
        PROVE  cache'[h] \in Kept /\ cache'[h].rate = IF h \in page THEN rate[h] ELSE 0
    <3>1. CASE h \in page
      <4>1. cache'[h] = [rate |-> rate[h], age |-> idle[h]]  BY <2>6, <3>1
      <4>2. rate[h] \in 0..MaxRate /\ idle[h] \in Nat  BY <1>a, <2>2, <3>1
      <4>3. QED  BY <3>1, <4>1, <4>2 DEF Kept
    <3>2. CASE h \notin page
      <4>1. cache'[h] = [cache[h] EXCEPT !.rate = 0]  BY <2>6, <3>2
      <4>2. QED  BY <1>b, <3>2, <4>1 DEF Kept
    <3>3. QED  BY <3>1, <3>2
  <2>8. cache' \in [DOMAIN cache' -> Kept] /\ DOMAIN cache' \subseteq Host
    <3>1. cache' = [h \in DOMAIN cache' |-> cache'[h]]  BY <2>6
    <3>2. QED  BY <1>a, <2>2, <2>6, <2>7, <3>1
  <2>9. TypesInv'  BY <1>a, <2>1, <2>4, <2>5, <2>8 DEF TypesInv
  <2>10. LastInv'  BY <2>1, <2>2, <2>3, <2>5, <2>6, <2>7 DEF LastInv
  <2>11. QED  BY <2>9, <2>10
<1>4. CASE Cleanup
  <2>1. /\ cache' = [h \in {g \in DOMAIN cache : cache[g].age <= Ttl} |-> cache[h]]
        /\ UNCHANGED <<idle, rate, view, last>>
    BY <1>4 DEF Cleanup
  <2>2. /\ DOMAIN cache' \subseteq DOMAIN cache /\ cache' \in [DOMAIN cache' -> Kept]
        /\ \A h \in DOMAIN cache' : cache'[h] = cache[h]
    BY <1>b, <2>1
  <2>3. TypesInv'  BY <1>a, <2>1, <2>2 DEF TypesInv
  <2>4. LastInv'  BY <2>1, <2>2 DEF LastInv
  <2>5. QED  BY <2>3, <2>4
<1>5. ASSUME NEW p \in 1..Cardinality(Host) + 1, Turn(p) \/ Unfilter(p) PROVE Good
  <2>1. p \in Nat \ {0}  BY FS_CardinalityType
  <2>2. /\ [view EXCEPT !.page = p] \in Views
        /\ [view EXCEPT !.only = Anyone, !.page = p] \in Views
    BY <1>a, <2>1 DEF Views
  <2>3. \E v \in Views : Look(v)  BY <1>5, <2>2 DEF Turn, Unfilter
  <2>4. QED  BY <2>3, LookHolds
<1>6. ASSUME NEW s \in {"ip", "rate"}, Sort(s) PROVE Good
  <2>1. [view EXCEPT !.sort = s, !.page = 1] \in Views  BY <1>a, <1>c DEF Views
  <2>2. QED  BY <1>6, <2>1, LookHolds DEF Sort
<1>7. ASSUME NEW l \in Limits, Resize(l) PROVE Good
  <2>1. [view EXCEPT !.limit = l, !.page = 1] \in Views  BY <1>a, <1>c DEF Views
  <2>2. QED  BY <1>7, <2>1, LookHolds DEF Resize
<1>8. ASSUME NEW h \in Typed, Filter(h) PROVE Good
  <2>1. h \in Host  BY TablesAssumption
  <2>2. [view EXCEPT !.only = h, !.page = 1] \in Views  BY <1>a, <1>c, <2>1 DEF Views
  <2>3. QED  BY <1>8, <2>2, LookHolds DEF Filter
<1>9. CASE UNCHANGED tvars
  BY <1>9 DEF tvars, TypesInv, LastInv
<1>10. QED  BY <1>1, <1>2, <1>3, <1>4, <1>5, <1>6, <1>7, <1>8, <1>9 DEF TNext

LEMMA LastGives ==
    TypesInv /\ LastInv => BusiestOnFirstPage
<1> SUFFICES ASSUME TypesInv, LastInv, last.fits, view.page = 1, view.sort = "rate",
                    NEW h \in DOMAIN last.rows, NEW shown \in Displays, h \in DOMAIN cache
             PROVE  h \in shown /\ cache[h].rate = last.rows[h]
  BY DEF BusiestOnFirstPage
<1> DEFINE B     == DOMAIN last.rows
           rates == IF view.only = Anyone THEN [g \in DOMAIN cache |-> cache[g].rate]
                    ELSE last.rows
           H     == DOMAIN rates
<1>1. /\ B \subseteq Host /\ Cardinality(B) <= view.limit /\ view.limit \in Nat \ {0}
      /\ \A g \in B : last.rows[g] \in 1..MaxRate
      /\ \A g \in DOMAIN cache : cache[g].rate = IF g \in B THEN last.rows[g] ELSE 0
  BY ViewIs DEF TypesInv, LastInv
<1>2. PICK q \in Sorted(H, rates) : shown = Slice(q, view)  BY DEF Displays
<1>3. /\ H = IF view.only = Anyone THEN DOMAIN cache ELSE B
      /\ H \subseteq Host /\ h \in H
      /\ \A g \in H : rates[g] = IF g \in B THEN last.rows[g] ELSE 0
  <2>1. CASE view.only = Anyone  BY <1>1, <2>1 DEF TypesInv
  <2>2. CASE view.only # Anyone  BY <1>1, <2>2
  <2>3. QED  BY <2>1, <2>2
<1> HIDE DEF rates, H
<1>4. IsFiniteSet(H) /\ IsFiniteSet(B)
  BY <1>1, <1>3, ConstantTypes, FS_Subset
<1>5. \A g \in H : rates[g] \in Int /\ (rates[g] >= rates[h] => g \in B)
  BY <1>1, <1>3, ConstantTypes
<1>6. h \in Slice(q, view)
  BY <1>1, <1>2, <1>3, <1>4, <1>5, FirstPageShows
<1>7. QED  BY <1>1, <1>2, <1>6

\* On the first page of a table sorted by rate the busiest hosts that the
\* server reports are all shown, with the rates it reports, whatever the
\* interface remembers of earlier updates and other pages: for any number of
\* hosts and any page size (useTtlArrayCache.tsx, HostsTable.tsx).
THEOREM BusiestShown == TSpec => []BusiestOnFirstPage
<1>1. TInit => TypesInv /\ LastInv
  <2> SUFFICES ASSUME TInit PROVE TypesInv /\ LastInv
    OBVIOUS
  <2>1. Initial \in Views
    BY ConstantTypes DEF Initial, Views
  <2> DEFINE none == <<>>
  <2>2. DOMAIN none = {} /\ none \in [{} -> Kept]  OBVIOUS
  <2>3. /\ idle = [h \in Host |-> Period] /\ rate = [h \in Host |-> 0] /\ view = Initial
        /\ last = [fits |-> FALSE, rows |-> none, total |-> 0] /\ cache = none
    BY DEF TInit
  <2> HIDE DEF none
  <2>4. last.fits = FALSE /\ last.rows = none /\ last.total = 0  BY <2>3
  <2>5. TypesInv  BY <2>1, <2>2, <2>3, <2>4, ConstantTypes DEF TypesInv
  <2>6. QED  BY <2>4, <2>5 DEF LastInv
<1>2. TypesInv /\ LastInv /\ [TNext]_tvars => (TypesInv /\ LastInv)'
  BY LastInductive
<1>3. QED  BY <1>1, <1>2, LastGives, PTL DEF TSpec
=============================================================================
