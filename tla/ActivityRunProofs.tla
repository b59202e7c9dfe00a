-------------------------- MODULE ActivityRunProofs --------------------------
(***************************************************************************)
(* Proof that the activity which decides the stage of an address is the    *)
(* latest of all that is known of it (EnrichedIsLatest), for every set of  *)
(* addresses, histories of any length, page and chunk size, and any number *)
(* of kills and rewritten candidate files.                                 *)
(*                                                                         *)
(* The first part is about the programs as functions: reading a history    *)
(* newest first, the first page that has an activity has the latest one.   *)
(* The second is about the files: whatever was killed, joined or kept from *)
(* an earlier candidate file, a row in a checkpoint, an output or the      *)
(* running scan is the answer for its address (IInv).                      *)
(***************************************************************************)
EXTENDS ActivityRun, FunctionSums, SequenceTheorems, WellFoundedInduction, NaturalsInduction

Event == [time : Nat, shard : {0, 1}, block : Nat, id : Nat]

Entry == [time : Nat, block : Nat, id : Nat, canonical : BOOLEAN]

\* An event, or one of the other source's, which says also whether its block is canonical.
Dated(e) == e.time \in Nat /\ e.shard \in {0, 1} /\ e.block \in Nat /\ e.id \in Nat

\* e stands for the latest of the events in S: it is one of them, or nothing, and none is later.
IsLatest(e, S) ==
    /\ e = NoActivity \/ e \in S
    /\ \A f \in S : f.time <= e.time

\* The activities a history lists, on whatever page.
Listed(shard, entries) ==
    UNION {transaction_activity(shard, entries[i]) : i \in DOMAIN entries}

-----------------------------------------------------------------------------
(***************************************************************************)
(* Latest.                                                                 *)
(***************************************************************************)
LEMMA NothingIsAnEvent == NoActivity \in Event /\ NoActivity.time = 0
BY DEF NoActivity, Event

\* Before is a strict order, of time first.
LEMMA BeforeOrder ==
    ASSUME NEW e, NEW f, NEW g, Dated(e), Dated(f), Dated(g)
    PROVE  /\ ~ Before(e, f) => f.time <= e.time
           /\ ~ Before(e, e)
           /\ Before(e, f) /\ Before(f, g) => Before(e, g)
<1>1. /\ e.time \in Nat /\ e.block \in Nat /\ e.id \in Nat /\ e.shard \in {0, 1}
      /\ f.time \in Nat /\ f.block \in Nat /\ f.id \in Nat /\ f.shard \in {0, 1}
      /\ g.time \in Nat /\ g.block \in Nat /\ g.id \in Nat /\ g.shard \in {0, 1}
    BY Zenon DEF Dated
<1> QED
    BY <1>1 DEF Before

LEMMA EventsAreDated == \A e \in Event : Dated(e)
BY Zenon DEF Event, Dated

\* So a finite set of events has one that no other is after.
LEMMA LatestExists ==
    ASSUME NEW S, \A e \in S : Dated(e), IsFiniteSet(S), S # {}
    PROVE  \E e \in S : \A f \in S : ~ Before(e, f)
<1> DEFINE Good == {T \in SUBSET S : T # {} => \E e \in T : \A f \in T : ~ Before(e, f)}
<1>1. {} \in Good
    BY Zenon
<1>2. ASSUME NEW T \in SUBSET S, NEW x \in T, T \ {x} \in Good
      PROVE  T \in Good
    <2>1. CASE T \ {x} = {}
        <3>1. \A f \in T : f = x
            BY Zenon, <2>1
        <3>2. ~ Before(x, x)
            BY Zenon, BeforeOrder
        <3> QED
            BY Zenon, <3>1, <3>2
    <2>2. CASE T \ {x} # {}
        <3>1. PICK e \in T \ {x} : \A f \in T \ {x} : ~ Before(e, f)
            BY Zenon, <1>2, <2>2
        <3>2. CASE ~ Before(e, x)
            BY Zenon, <3>1, <3>2
        <3>3. CASE Before(e, x)
            <4>1. \A f \in T : ~ Before(x, f)
                <5>1. SUFFICES ASSUME NEW f \in T, Before(x, f) PROVE FALSE
                    BY Zenon
                <5>2. Dated(e) /\ Dated(x) /\ Dated(f)
                    BY Zenon
                <5>3. CASE f = x
                    BY Zenon, <5>1, <5>2, <5>3, BeforeOrder
                <5>4. CASE f # x
                    <6>1. Before(e, f)
                        BY Zenon, <3>3, <5>1, <5>2, BeforeOrder
                    <6> QED
                        BY Zenon, <3>1, <5>4, <6>1
                <5> QED
                    BY Zenon, <5>3, <5>4
            <4> QED
                BY Zenon, <4>1
        <3> QED
            BY Zenon, <3>2, <3>3
    <2> QED
        BY Zenon, <2>1, <2>2
<1>3. S \in Good
    <2> HIDE DEF Good
    <2> QED
        BY Zenon, <1>1, <1>2, SubsetInduction
<1> QED
    BY Zenon, <1>3

\* Latest is the latest.
LEMMA LatestIsLatest ==
    ASSUME NEW S \in SUBSET Event, IsFiniteSet(S)
    PROVE  Latest(S) \in Event /\ IsLatest(Latest(S), S)
<1>1. CASE S = {}
    BY Zenon, <1>1, NothingIsAnEvent DEF Latest, IsLatest
<1>2. CASE S # {}
    <2>1. Latest(S) \in S /\ \A f \in S : ~ Before(Latest(S), f)
        BY Zenon, <1>2, LatestExists, EventsAreDated DEF Latest
    <2> QED
        BY Zenon, <2>1, BeforeOrder, EventsAreDated DEF IsLatest
<1> QED
    BY Zenon, <1>1, <1>2

\* And so it is when records without activity are left out first.
LEMMA LatestOfKnown ==
    ASSUME NEW R \in SUBSET Event, IsFiniteSet(R)
    PROVE  LET e == Latest({r \in R : r # NoActivity}) IN e \in Event /\ IsLatest(e, R)
<1> DEFINE K == {r \in R : r # NoActivity}
<1> DEFINE e == Latest(K)
<1>1. K \in SUBSET Event /\ IsFiniteSet(K)
    BY Zenon, FS_Subset
<1>2. e \in Event /\ IsLatest(e, K)
    <2> HIDE DEF K
    <2> QED
        BY Zenon, <1>1, LatestIsLatest
<1>3. ASSUME NEW r \in R PROVE r.time <= e.time
    <2>1. CASE r # NoActivity
        BY Zenon, <1>2, <2>1 DEF IsLatest
    <2>2. CASE r = NoActivity
        <3>1. e.time \in Nat
            BY Zenon, <1>2 DEF Event
        <3> HIDE DEF e
        <3> QED
            BY <2>2, <3>1, NothingIsAnEvent
    <2> QED
        BY Zenon, <2>1, <2>2
<1> QED
    BY Zenon, <1>2, <1>3 DEF IsLatest

\* What stands for the latest has one time.
LEMMA OneLatest ==
    ASSUME NEW S \in SUBSET Event, NEW e \in Event, NEW f \in Event, IsLatest(e, S), IsLatest(f, S)
    PROVE  e.time = f.time
<1>1. e.time \in Nat /\ f.time \in Nat
    BY Zenon DEF Event
<1>2. e.time <= f.time
    BY <1>1, NothingIsAnEvent DEF IsLatest
<1>3. f.time <= e.time
    BY <1>1, NothingIsAnEvent DEF IsLatest
<1> QED
    BY <1>1, <1>2, <1>3

\* A union of finitely many finite sets.
LEMMA FiniteUnion ==
    ASSUME NEW S, IsFiniteSet(S), NEW g, \A x \in S : IsFiniteSet(g[x])
    PROVE  IsFiniteSet(UNION {g[x] : x \in S})
<1> DEFINE U(T) == UNION {g[x] : x \in T}
           Good == {T \in SUBSET S : IsFiniteSet(U(T))}
<1>1. {} \in Good
    <2>1. U({}) = {}
        BY Zenon
    <2> QED
        BY Zenon, <2>1, FS_EmptySet
<1>2. ASSUME NEW T \in SUBSET S, NEW x \in T, T \ {x} \in Good
      PROVE  T \in Good
    <2>1. U(T) = U(T \ {x}) \cup g[x]
        BY Zenon
    <2>2. IsFiniteSet(U(T \ {x})) /\ IsFiniteSet(g[x])
        BY Zenon, <1>2
    <2> HIDE DEF U
    <2>3. IsFiniteSet(U(T \ {x}) \cup g[x])
        BY Zenon, <2>2, FS_Union
    <2> QED
        BY Zenon, <2>1, <2>3
<1>3. S \in Good
    <2> HIDE DEF Good
    <2> QED
        BY Zenon, <1>1, <1>2, SubsetInduction
<1> QED
    BY Zenon, <1>3

-----------------------------------------------------------------------------
(***************************************************************************)
(* A history, page by page.                                                *)
(***************************************************************************)
\* A set of natural numbers has a least one.
LEMMA LeastOf ==
    ASSUME NEW S \in SUBSET Nat, S # {}
    PROVE  Min(S) \in S /\ \A y \in S : Min(S) <= y
<1>1. IsWellFoundedOn({p \in Nat \X Nat : p[1] < p[2]}, Nat)
    BY Zenon, NatLessThanWellFounded DEF OpToRel
<1>2. PICK x \in S : \A y \in S : ~(<<y, x>> \in {p \in Nat \X Nat : p[1] < p[2]})
    BY Zenon, <1>1, WFMin
<1>3. ASSUME NEW y \in S, y < x
      PROVE  FALSE
    <2>1. <<y, x>> \in Nat \X Nat /\ <<y, x>>[1] < <<y, x>>[2]
        BY Zenon, <1>3
    <2> QED
        BY Zenon, <1>2, <2>1
<1>4. \A y \in S : x <= y
    BY <1>3
<1> QED
    BY Zenon, <1>4 DEF Min

LEMMA LesserOf ==
    ASSUME NEW a \in Nat, NEW b \in Nat
    PROVE  Min({a, b}) = IF a <= b THEN a ELSE b
<1> DEFINE m == Min({a, b})
<1>1. m \in {a, b} /\ \A y \in {a, b} : m <= y
    <2>1. {a, b} \in SUBSET Nat /\ {a, b} # {}
        BY Zenon
    <2> QED
        BY Zenon, <2>1, LeastOf
<1> HIDE DEF m
<1>2. m = IF a <= b THEN a ELSE b
    BY <1>1
<1> QED
    BY Zenon, <1>2 DEF m

\* The pages follow one another.
LEMMA PageBounds ==
    ASSUME NEW p \in Nat
    PROVE  /\ p * PageSize \in Nat /\ (p + 1) * PageSize \in Nat
           /\ (p + 1) * PageSize = p * PageSize + PageSize
           /\ \A q \in Nat : q < p => (q + 1) * PageSize <= p * PageSize
<1>1. PageSize \in Nat \ {0}
    BY Zenon, ActivityAssumption
<1>2. p * PageSize \in Nat /\ (p + 1) * PageSize \in Nat /\ (p + 1) * PageSize = p * PageSize + PageSize
    BY <1>1
<1>3. ASSUME NEW q \in Nat, q < p
      PROVE  (q + 1) * PageSize <= p * PageSize
    <2>1. PICK d \in Nat : p = (q + 1) + d
        <3>1. p - (q + 1) \in Nat /\ p = (q + 1) + (p - (q + 1))
            BY <1>3
        <3> QED
            BY Zenon, <3>1
    <2>2. p * PageSize = (q + 1) * PageSize + d * PageSize /\ d * PageSize \in Nat
          /\ (q + 1) * PageSize \in Nat
        BY <1>1, <2>1
    <2> QED
        BY <2>2
<1> QED
    BY Zenon, <1>2, <1>3

\* Every entry is on a page.
LEMMA PageOf ==
    ASSUME NEW i \in Nat \ {0}
    PROVE  \E q \in Nat : q * PageSize < i /\ i <= (q + 1) * PageSize
<1> DEFINE S == {q \in Nat : i <= (q + 1) * PageSize}
<1>1. PageSize \in Nat \ {0}
    BY Zenon, ActivityAssumption
<1>2. S \in SUBSET Nat /\ S # {}
    <2>1. i <= (i + 1) * PageSize
        <3>1. (i + 1) * PageSize = i * PageSize + PageSize /\ i * PageSize >= i
            <4>1. PICK d \in Nat : PageSize = 1 + d
                <5>1. PageSize - 1 \in Nat /\ PageSize = 1 + (PageSize - 1)
                    BY <1>1
                <5> QED
                    BY Zenon, <5>1
            <4>2. i * PageSize = i + i * d /\ i * d \in Nat
                BY <4>1
            <4>3. (i + 1) * PageSize = i * PageSize + PageSize
                BY <1>1
            <4> QED
                BY <4>2, <4>3
        <3>2. i * PageSize \in Nat
            BY <1>1
        <3> QED
            BY <1>1, <3>1, <3>2
    <2> QED
        BY <2>1
<1>3. PICK q \in S : \A y \in S : q <= y
    <2> HIDE DEF S
    <2> QED
        BY Zenon, <1>2, LeastOf
<1>4. q * PageSize < i
    <2>1. CASE q = 0
        <3>1. 0 * PageSize = 0
            BY <1>1
        <3> QED
            BY <2>1, <3>1
    <2>2. CASE q # 0
        <3>1. q - 1 \in Nat /\ q - 1 \notin S
            BY <1>3, <2>2
        <3>2. ~ (i <= ((q - 1) + 1) * PageSize)
            BY Zenon, <3>1
        <3>3. (q - 1) + 1 = q /\ q * PageSize \in Nat
            BY <1>1, <1>3
        <3> QED
            BY <3>2, <3>3
    <2> QED
        BY Zenon, <2>1, <2>2
<1> QED
    BY Zenon, <1>3, <1>4

\* Page p of a history has the entries after the first p * PageSize, as many as fit.
LEMMA PageProperties ==
    ASSUME NEW h \in Seq(Entry), NEW p \in Nat
    PROVE  /\ Page(h, p) \in Seq(Entry)
           /\ \A k \in DOMAIN Page(h, p) :
                /\ p * PageSize + k \in DOMAIN h /\ Page(h, p)[k] = h[p * PageSize + k]
                /\ k <= PageSize /\ k \in Nat \ {0}
           /\ \A i \in DOMAIN h : p * PageSize < i /\ i <= (p + 1) * PageSize =>
                \E k \in DOMAIN Page(h, p) : i = p * PageSize + k
           /\ Len(Page(h, p)) < PageSize => Len(h) < (p + 1) * PageSize
<1> DEFINE a == p * PageSize
           b == (p + 1) * PageSize
           n == Len(h)
           m == IF b <= n THEN b ELSE n
           g == Page(h, p)
<1>1. a \in Nat /\ b \in Nat /\ b = a + PageSize /\ PageSize \in Nat \ {0}
    BY Zenon, PageBounds, ActivityAssumption
<1>2. n \in Nat /\ DOMAIN h = 1..n /\ \A i \in 1..n : h[i] \in Entry
    BY Zenon, LenProperties, ElementOfSeq
<1>3. Min({b, n}) = m
    <2> HIDE DEF b, n
    <2> QED
        BY Zenon, <1>1, <1>2, LesserOf
<1>4. g = SubSeq(h, a + 1, m)
    BY Zenon, <1>3 DEF Page
<1> HIDE DEF a, b, n, g
<1>5. a + 1 \in Int /\ m \in Int /\ m <= n /\ m <= b
    BY <1>1, <1>2
<1>6. \A i \in (a + 1)..m : h[i] \in Entry
    BY <1>1, <1>2, <1>5
<1> HIDE DEF m
<1>7. /\ g \in Seq(Entry)
      /\ Len(g) = IF a + 1 <= m THEN m - (a + 1) + 1 ELSE 0
      /\ \A i \in 1..m - (a + 1) + 1 : g[i] = h[(a + 1) + i - 1]
    <2>1. PICK u \in Int : u = a + 1
        BY Zenon, <1>5
    <2>2. \A i \in u..m : h[i] \in Entry
        BY Zenon, <1>6, <2>1
    <2>3. /\ SubSeq(h, u, m) \in Seq(Entry)
          /\ Len(SubSeq(h, u, m)) = IF u <= m THEN m - u + 1 ELSE 0
          /\ \A i \in 1..m - u + 1 : SubSeq(h, u, m)[i] = h[u + i - 1]
        BY <1>5, <2>2, SubSeqProperties
    <2> QED
        BY Zenon, <1>4, <2>1, <2>3
<1>8. Len(g) \in Nat /\ DOMAIN g = 1..Len(g)
    BY Zenon, <1>7, LenProperties
<1>9. ASSUME NEW k \in 1..Len(g)
      PROVE  a + k \in 1..n /\ g[k] = h[a + k] /\ k <= PageSize /\ k \in Nat \ {0}
    <2>1. Len(g) = m - a /\ a + 1 <= m /\ k \in 1..m - (a + 1) + 1 /\ (a + 1) + k - 1 = a + k
        BY <1>1, <1>5, <1>7, <1>8
    <2>2. g[k] = h[a + k]
        BY Zenon, <1>7, <2>1
    <2> QED
        BY <1>1, <1>2, <1>5, <2>1, <2>2
<1>10. ASSUME NEW i \in 1..n, a < i, i <= b
       PROVE  \E k \in 1..Len(g) : i = a + k
    <2>1. i <= m
        BY <1>1, <1>2, <1>10 DEF m
    <2>2. i - a \in 1..Len(g) /\ i = a + (i - a)
        BY <1>1, <1>2, <1>5, <1>7, <1>10, <2>1
    <2> QED
        BY Zenon, <2>2
<1>11. Len(g) < PageSize => n < b
    BY <1>1, <1>2, <1>5, <1>7 DEF m
<1> QED
    BY Zenon, <1>2, <1>7, <1>8, <1>9, <1>10, <1>11 DEF a, b, n, g

-----------------------------------------------------------------------------
(***************************************************************************)
(* The scan of an address.                                                 *)
(***************************************************************************)
\* What a listed entry counts for: itself, or nothing.
LEMMA EntryActivity ==
    ASSUME NEW shard \in {0, 1}, NEW entry \in Entry
    PROVE  /\ transaction_activity(shard, entry) \in SUBSET Event
           /\ IsFiniteSet(transaction_activity(shard, entry))
           /\ \A e \in transaction_activity(shard, entry) : e.time = entry.time
<1> DEFINE e == [time |-> entry.time, shard |-> shard, block |-> entry.block, id |-> entry.id]
<1>1. e \in Event /\ e.time = entry.time
    BY Zenon DEF Event, Entry
<1>2. transaction_activity(shard, entry) = {e} \/ transaction_activity(shard, entry) = {}
    BY Zenon DEF transaction_activity
<1> HIDE DEF e
<1>3. IsFiniteSet({e}) /\ IsFiniteSet({})
    BY Zenon, FS_EmptySet, FS_Singleton
<1> QED
    BY Zenon, <1>1, <1>2, <1>3

\* The activities of a list of entries are finitely many events.
LEMMA ListedProperties ==
    ASSUME NEW shard \in {0, 1}, NEW h \in Seq(Entry)
    PROVE  Listed(shard, h) \in SUBSET Event /\ IsFiniteSet(Listed(shard, h))
<1> DEFINE g == [i \in DOMAIN h |-> transaction_activity(shard, h[i])]
<1>1. DOMAIN h = 1..Len(h) /\ Len(h) \in Nat /\ \A i \in 1..Len(h) : h[i] \in Entry
    BY Zenon, LenProperties, ElementOfSeq
<1>2. \A i \in DOMAIN h : g[i] \in SUBSET Event /\ IsFiniteSet(g[i])
    BY Zenon, <1>1, EntryActivity
<1>3. Listed(shard, h) = UNION {g[i] : i \in DOMAIN h}
    BY Zenon DEF Listed
<1>4. IsFiniteSet(DOMAIN h)
    <2>1. 1 \in Int /\ Len(h) \in Int
        BY <1>1
    <2> QED
        BY Zenon, <1>1, <2>1, FS_Interval
<1> HIDE DEF g
<1>5. IsFiniteSet(UNION {g[i] : i \in DOMAIN h})
    <2>1. PICK D : D = DOMAIN h
        BY Zenon
    <2>2. IsFiniteSet(D) /\ \A i \in D : IsFiniteSet(g[i])
        BY Zenon, <1>2, <1>4, <2>1
    <2>3. IsFiniteSet(UNION {g[i] : i \in D})
        BY <2>2, FiniteUnion
    <2> QED
        BY Zenon, <2>1, <2>3
<1> QED
    BY Zenon, <1>2, <1>3, <1>5

\* The activities on page p are those of its entries.
LEMMA OnPageProperties ==
    ASSUME NEW shard \in {0, 1}, NEW h \in Seq(Entry), NEW p \in Nat
    PROVE  /\ OnPage(shard, h, p) \in SUBSET Event /\ IsFiniteSet(OnPage(shard, h, p))
           /\ OnPage(shard, h, p) \subseteq Listed(shard, h)
           /\ \A e \in OnPage(shard, h, p) : \E i \in DOMAIN h :
                p * PageSize < i /\ i <= (p + 1) * PageSize /\ e.time = h[i].time
           /\ \A i \in DOMAIN h : p * PageSize < i /\ i <= (p + 1) * PageSize =>
                transaction_activity(shard, h[i]) \subseteq OnPage(shard, h, p)
<1> DEFINE g == Page(h, p)
<1>1. OnPage(shard, h, p) = Listed(shard, g)
    BY Zenon DEF OnPage, Listed
<1>2. /\ g \in Seq(Entry)
      /\ \A k \in DOMAIN g : /\ p * PageSize + k \in DOMAIN h /\ g[k] = h[p * PageSize + k]
                             /\ k <= PageSize /\ k \in Nat \ {0}
      /\ \A i \in DOMAIN h : p * PageSize < i /\ i <= (p + 1) * PageSize =>
           \E k \in DOMAIN g : i = p * PageSize + k
    BY Zenon, PageProperties
<1> HIDE DEF g
<1>3. Listed(shard, g) \in SUBSET Event /\ IsFiniteSet(Listed(shard, g))
    BY Zenon, <1>2, ListedProperties
<1>4. ASSUME NEW e \in Listed(shard, g)
      PROVE  \E i \in DOMAIN h : /\ p * PageSize < i /\ i <= (p + 1) * PageSize /\ e.time = h[i].time
                                 /\ e \in transaction_activity(shard, h[i])
    <2>1. PICK k \in DOMAIN g : e \in transaction_activity(shard, g[k])
        BY Zenon DEF Listed
    <2>2. PICK i \in DOMAIN h : i = p * PageSize + k
        BY Zenon, <1>2
    <2>3. g[k] = h[i] /\ h[i] \in Entry /\ k <= PageSize /\ k \in Nat \ {0}
        <3>1. h[i] \in Entry
            BY Zenon, LenProperties, ElementOfSeq
        <3> QED
            BY Zenon, <1>2, <2>2, <3>1
    <2>4. p * PageSize < i /\ i <= (p + 1) * PageSize
        <3>1. p * PageSize \in Nat /\ (p + 1) * PageSize = p * PageSize + PageSize /\ PageSize \in Nat
            BY Zenon, PageBounds, ActivityAssumption
        <3> QED
            BY <2>2, <2>3, <3>1
    <2> QED
        BY Zenon, <2>1, <2>3, <2>4, EntryActivity
<1>5. ASSUME NEW i \in DOMAIN h, p * PageSize < i, i <= (p + 1) * PageSize
      PROVE  transaction_activity(shard, h[i]) \subseteq Listed(shard, g)
    <2>1. PICK k \in DOMAIN g : i = p * PageSize + k
        BY Zenon, <1>2, <1>5
    <2>2. g[k] = h[i]
        BY Zenon, <1>2, <2>1
    <2> QED
        BY Zenon, <2>2 DEF Listed
<1>6. Listed(shard, g) \subseteq Listed(shard, h)
    BY Zenon, <1>4 DEF Listed
<1> QED
    BY Zenon, <1>1, <1>3, <1>4, <1>5, <1>6

\* collect_source: the pages are read only until one has an activity, and it finds the latest.
LEMMA SourceIsLatest ==
    ASSUME NEW shard \in {0, 1}, NEW h \in Seq(Entry), NewestFirst(h), collect_source(shard, h).ok
    PROVE  /\ collect_source(shard, h).out \in Event
           /\ IsLatest(collect_source(shard, h).out, Listed(shard, h))
<1> DEFINE Stop(p) == OnPage(shard, h, p) # {} \/ Len(Page(h, p)) < PageSize
           stops == {p \in 0 .. MaxPages - 1 : Stop(p)}
           p == Min(stops)
           e == Latest(OnPage(shard, h, p))
<1>1. stops # {}
    <2>1. Refused.ok = FALSE
        BY Zenon DEF Refused
    <2> QED
        BY Zenon, <2>1 DEF collect_source
<1>2. collect_source(shard, h).out = e
    <2>1. collect_source(shard, h) = Result(TRUE, e)
        BY Zenon, <1>1 DEF collect_source
    <2> HIDE DEF e
    <2> QED
        BY <2>1 DEF Result
<1>3. p \in stops /\ \A q \in stops : p <= q
    <2>1. stops \in SUBSET Nat
        BY ActivityAssumption
    <2> HIDE DEF stops
    <2> QED
        BY Zenon, <1>1, <2>1, LeastOf
<1>4. p \in Nat /\ p < MaxPages /\ MaxPages \in Nat
    BY <1>3, ActivityAssumption
<1>5. ASSUME NEW q \in Nat, q < p PROVE OnPage(shard, h, q) = {}
    <2>1. q \in 0 .. MaxPages - 1
        BY <1>4, <1>5
    <2>2. q \notin stops
        <3> HIDE DEF stops
        <3> QED
            BY <1>3, <1>4, <1>5
    <2> QED
        BY Zenon, <2>1, <2>2
<1>6. Stop(p)
    BY Zenon, <1>3
<1> HIDE DEF stops, p
<1>7. /\ OnPage(shard, h, p) \in SUBSET Event /\ IsFiniteSet(OnPage(shard, h, p))
      /\ OnPage(shard, h, p) \subseteq Listed(shard, h)
    BY Zenon, <1>4, OnPageProperties
<1>8. e \in Event /\ IsLatest(e, OnPage(shard, h, p))
    BY Zenon, <1>7, LatestIsLatest
<1>9. DOMAIN h = 1..Len(h) /\ Len(h) \in Nat /\ \A i \in 1..Len(h) : h[i] \in Entry
    BY Zenon, LenProperties, ElementOfSeq
<1> HIDE DEF e
<1>10. ASSUME NEW f \in Listed(shard, h) PROVE f.time <= e.time
    <2>1. PICK i \in DOMAIN h : f \in transaction_activity(shard, h[i])
        BY Zenon DEF Listed
    <2>2. i \in Nat \ {0}
        BY <1>9
    <2>3. PICK q \in Nat : q * PageSize < i /\ i <= (q + 1) * PageSize
        BY Zenon, <2>2, PageOf
    <2>4. f \in OnPage(shard, h, q)
        BY Zenon, <2>1, <2>3, OnPageProperties
    <2>5. CASE q < p
        BY Zenon, <1>5, <2>4, <2>5
    <2>6. CASE q = p
        BY Zenon, <1>8, <2>4, <2>6 DEF IsLatest
    <2>7. CASE p < q
        <3>1. (p + 1) * PageSize <= q * PageSize /\ q * PageSize \in Nat /\ (p + 1) * PageSize \in Nat
            BY Zenon, <1>4, <2>7, PageBounds
        <3>2. OnPage(shard, h, p) # {}
            <4>1. SUFFICES ASSUME Len(Page(h, p)) < PageSize PROVE FALSE
                BY Zenon, <1>6
            <4>2. Len(h) < (p + 1) * PageSize
                BY Zenon, <1>4, <4>1, PageProperties
            <4> QED
                BY <1>9, <2>1, <2>3, <3>1, <4>2
        <3>3. PICK d \in OnPage(shard, h, p) : TRUE
            BY Zenon, <3>2
        <3>4. PICK k \in DOMAIN h : p * PageSize < k /\ k <= (p + 1) * PageSize /\ d.time = h[k].time
            <4>1. PICK x \in Nat : x = p
                BY Zenon, <1>4
            <4>2. \A c \in OnPage(shard, h, x) : \E k \in DOMAIN h :
                    x * PageSize < k /\ k <= (x + 1) * PageSize /\ c.time = h[k].time
                BY Zenon, OnPageProperties
            <4> QED
                BY Zenon, <3>3, <4>1, <4>2
        <3>5. k < i
            BY <1>9, <2>2, <2>3, <3>1, <3>4
        <3>6. h[i].time <= h[k].time
            BY Zenon, <3>5 DEF NewestFirst
        <3>7. f.time = h[i].time /\ h[i].time \in Nat /\ h[k].time \in Nat
            BY Zenon, <1>9, <2>1, EntryActivity DEF Entry
        <3>8. d.time <= e.time /\ e.time \in Nat
            BY Zenon, <1>8, <3>3 DEF IsLatest, Event
        <3> QED
            BY <3>4, <3>6, <3>7, <3>8
    <2> QED
        BY <1>4, <2>5, <2>6, <2>7
<1> QED
    BY Zenon, <1>2, <1>7, <1>8, <1>10 DEF IsLatest

LEMMA PairIsFinite ==
    ASSUME NEW x, NEW y, NEW R, R \subseteq {x, y}
    PROVE  IsFiniteSet(R)
<1>1. IsFiniteSet({x})
    BY Zenon, FS_Singleton
<1>2. IsFiniteSet({x} \cup {y})
    BY Zenon, <1>1, FS_AddElement
<1>3. R \subseteq {x} \cup {y}
    BY Zenon
<1> QED
    BY Zenon, <1>2, <1>3, FS_Subset

\* What a program returns, when it does not refuse.
LEMMA ResultOf ==
    ASSUME NEW ok \in BOOLEAN, NEW out, Result(ok, out).ok
    PROVE  ok /\ Result(ok, out).out = out
BY DEF Result, Refused

\* An address whose scan does not refuse: the answer is the latest of all its sources.
LEMMA ScanIsLatest ==
    ASSUME NEW shard \in {0, 1}, NEW histories,
           \A spec \in source_specs(shard) : histories[spec] \in Seq(Entry) /\ NewestFirst(histories[spec]),
           ScanAddress(shard, histories).ok
    PROVE  /\ ScanAddress(shard, histories).out \in Event
           /\ IsLatest(ScanAddress(shard, histories).out,
                       UNION {Listed(shard, histories[spec]) : spec \in source_specs(shard)})
<1> DEFINE K == source_specs(shard)
           c == [spec \in K |-> collect_source(shard, histories[spec])]
           results == {collect_source(shard, histories[spec]) : spec \in K}
           r == [spec \in K |-> c[spec].out]
           L == [spec \in K |-> Listed(shard, histories[spec])]
           R == {x.out : x \in results}
<1>1. (\A x \in results : x.ok) /\ ScanAddress(shard, histories).out = combine(R)
    <2>1. ScanAddress(shard, histories) = Result(\A x \in results : x.ok, combine(R))
        BY Zenon DEF ScanAddress
    <2>2. PICK b \in BOOLEAN : b = (\A x \in results : x.ok)
        BY Zenon
    <2>3. PICK o : o = combine(R)
        BY Zenon
    <2> HIDE DEF results, R
    <2>4. Result(b, o).ok /\ ScanAddress(shard, histories) = Result(b, o)
        BY Zenon, <2>1, <2>2, <2>3
    <2>5. b /\ Result(b, o).out = o
        BY Zenon, <2>4, ResultOf
    <2> QED
        BY Zenon, <2>2, <2>3, <2>4, <2>5
<1>2. \A k \in K : r[k] \in Event /\ IsLatest(r[k], L[k])
    BY Zenon, <1>1, SourceIsLatest
<1>3. \A k \in K : L[k] \in SUBSET Event
    BY Zenon, ListedProperties
<1>4. R = {r[k] : k \in K}
    BY Zenon
<1>5. R \in SUBSET Event
    BY Zenon, <1>2, <1>4
<1>6. IsFiniteSet(R)
    <2>1. K \subseteq {"regular", "staking"}
        BY Zenon DEF source_specs
    <2>2. R \subseteq {r["regular"], r["staking"]}
        <3> HIDE DEF r, R
        <3> QED
            BY Zenon, <1>4, <2>1
    <2> HIDE DEF r, R
    <2> QED
        BY Zenon, <2>2, PairIsFinite
<1> HIDE DEF R, r, L, results
<1>7. combine(R) \in Event /\ IsLatest(combine(R), R)
    BY Zenon, <1>5, <1>6, LatestOfKnown DEF combine
<1>8. IsLatest(combine(R), UNION {L[k] : k \in K})
    <2>1. PICK e \in Event : e = combine(R)
        BY Zenon, <1>7
    <2>2. IsLatest(e, R)
        BY Zenon, <1>7, <2>1
    <2> HIDE DEF K
    <2>3. e = NoActivity \/ e \in UNION {L[k] : k \in K}
        BY Zenon, <1>2, <1>4, <2>2 DEF IsLatest
    <2>4. ASSUME NEW k \in K, NEW f \in L[k] PROVE f.time <= e.time
        <3>1. f.time <= r[k].time /\ r[k].time <= e.time
            BY Zenon, <1>2, <1>4, <2>2 DEF IsLatest
        <3>2. f.time \in Nat /\ r[k].time \in Nat /\ e.time \in Nat
            BY Zenon, <1>2, <1>3 DEF Event
        <3> QED
            BY <3>1, <3>2
    <2> QED
        BY Zenon, <2>1, <2>3, <2>4 DEF IsLatest
<1>9. UNION {L[k] : k \in K} = UNION {Listed(shard, histories[spec]) : spec \in K}
    BY Zenon DEF L
<1> QED
    BY Zenon, <1>1, <1>7, <1>8, <1>9

-----------------------------------------------------------------------------
(***************************************************************************)
(* The activity of an address.                                             *)
(***************************************************************************)
\* What the histories of an address list, over the types of a shard.
ListedOn(shard, histories) ==
    UNION {Listed(shard, histories[spec]) : spec \in source_specs(shard)}

\* The histories of an address, as the nodes list them.
GoodHistories(shard, histories) ==
    \A spec \in source_specs(shard) : histories[spec] \in Seq(Entry) /\ NewestFirst(histories[spec])

GoodDirectional(D) ==
    IsFiniteSet(D) /\ D \subseteq [time : Nat, shard : {0, 1}, block : Nat, id : Nat, canonical : BOOLEAN]

\* x has the time of the newest in D.
NewestTime(x, D) ==
    /\ x \in Event
    /\ x = NoActivity \/ \E d \in D : x.time = d.time
    /\ \A d \in D : d.time <= x.time

LEMMA ListedOnProperties ==
    ASSUME NEW shard \in {0, 1}, NEW histories, GoodHistories(shard, histories)
    PROVE  ListedOn(shard, histories) \in SUBSET Event /\ IsFiniteSet(ListedOn(shard, histories))
<1> DEFINE L == [spec \in source_specs(shard) |-> Listed(shard, histories[spec])]
<1>1. PICK K : K = source_specs(shard)
    BY Zenon
<1>2. \A k \in K : L[k] \in SUBSET Event /\ IsFiniteSet(L[k])
    BY Zenon, <1>1, ListedProperties DEF GoodHistories
<1>3. ListedOn(shard, histories) = UNION {L[k] : k \in K}
    BY Zenon, <1>1 DEF ListedOn
<1>4. IsFiniteSet(K)
    <2>1. K \subseteq {"regular", "staking"}
        BY Zenon, <1>1 DEF source_specs
    <2> QED
        BY Zenon, <2>1, PairIsFinite
<1> HIDE DEF L
<1>5. PICK g : g = L
    BY Zenon
<1>6. IsFiniteSet(UNION {g[k] : k \in K})
    <2>1. \A k \in K : IsFiniteSet(g[k])
        BY Zenon, <1>2, <1>5
    <2> QED
        BY <2>1, <1>4, FiniteUnion
<1> QED
    BY Zenon, <1>2, <1>3, <1>5, <1>6

\* What a scan answers has the time of the latest that is listed.
LEMMA ScanHasTheTime ==
    ASSUME NEW shard \in {0, 1}, NEW histories, GoodHistories(shard, histories),
           ScanAddress(shard, histories).ok
    PROVE  /\ ScanAddress(shard, histories).out \in Event
           /\ ScanAddress(shard, histories).out.time = Latest(ListedOn(shard, histories)).time
<1>1. PICK e \in Event : e = ScanAddress(shard, histories).out /\ IsLatest(e, ListedOn(shard, histories))
    BY Zenon, ScanIsLatest DEF GoodHistories, ListedOn
<1>2. PICK S \in SUBSET Event : S = ListedOn(shard, histories) /\ IsFiniteSet(S)
    BY Zenon, ListedOnProperties
<1>3. Latest(S) \in Event /\ IsLatest(Latest(S), S)
    BY Zenon, <1>2, LatestIsLatest
<1>4. e.time = Latest(S).time
    BY Zenon, <1>1, <1>2, <1>3, OneLatest
<1> QED
    BY Zenon, <1>1, <1>2, <1>4

LEMMA LatestOfOne ==
    ASSUME NEW e \in Event
    PROVE  Latest({e}) = e
<1>1. ~ Before(e, e)
    BY Zenon, BeforeOrder, EventsAreDated
<1> QED
    BY Zenon, <1>1 DEF Latest

\* The record of the second source.
LEMMA DirectionalIsNewest ==
    ASSUME NEW D, GoodDirectional(D)
    PROVE  NewestTime(Latest({[time |-> e.time, shard |-> e.shard, block |-> e.block, id |-> e.id]
                                  : e \in latest_event(D)}), D)
<1> DEFINE X(C) == {[time |-> e.time, shard |-> e.shard, block |-> e.block, id |-> e.id] : e \in C}
<1>1. CASE D = {}
    <2>1. X(latest_event(D)) = {}
        BY Zenon, <1>1 DEF latest_event
    <2>2. Latest(X(latest_event(D))) = NoActivity
        BY Zenon, <2>1 DEF Latest
    <2> QED
        BY Zenon, <1>1, <2>2, NothingIsAnEvent DEF NewestTime
<1>2. CASE D # {}
    <2>1. \A d \in D : Dated(d)
        BY Zenon DEF GoodDirectional, Dated
    <2>2. \E d \in D : \A f \in D : ~ Before(d, f)
        BY Zenon, <1>2, <2>1, LatestExists DEF GoodDirectional
    <2>3. PICK d \in D : latest_event(D) = {d} /\ \A f \in D : ~ Before(d, f)
        BY Zenon, <1>2, <2>2 DEF latest_event
    <2>4. PICK x : x = [time |-> d.time, shard |-> d.shard, block |-> d.block, id |-> d.id]
        BY Zenon
    <2>5. x \in Event /\ x.time = d.time
        BY <2>1, <2>4 DEF Event, Dated
    <2>6. X(latest_event(D)) = {x}
        BY Zenon, <2>3, <2>4
    <2>7. Latest(X(latest_event(D))) = x
        BY Zenon, <2>5, <2>6, LatestOfOne
    <2>8. \A f \in D : f.time <= d.time
        BY Zenon, <2>1, <2>3, BeforeOrder
    <2> HIDE DEF X
    <2>9. NewestTime(Latest(X(latest_event(D))), D)
        BY Zenon, <2>5, <2>7, <2>8 DEF NewestTime
    <2> QED
        BY Zenon, <2>9 DEF X
<1> QED
    BY Zenon, <1>1, <1>2

\* The greatest of a set of numbers is the member that no other exceeds.
LEMMA GreatestOf ==
    ASSUME NEW S \in SUBSET Nat, NEW t \in S, \A y \in S : y <= t
    PROVE  Max(S) = t
<1>1. Max(S) \in S /\ \A y \in S : Max(S) >= y
    <2>1. \A y \in S : t >= y
        OBVIOUS
    <2> QED
        BY Zenon, <2>1 DEF Max
<1>2. PICK m \in S : m = Max(S) /\ \A y \in S : m >= y
    BY Zenon, <1>1
<1>3. m = t
    BY <1>2
<1> QED
    BY Zenon, <1>2, <1>3

\* write_enriched takes the newest of the two scans and of the second source.
LEMMA NewestOfThree ==
    ASSUME NEW K0, NEW K1, NEW D, \A e \in K0 \cup K1 \cup D : e.time \in Nat,
           NEW r0, NEW r1, NEW x, NewestTime(r0, K0), NewestTime(r1, K1), NewestTime(x, D)
    PROVE  LET selected == select_activity({r0, r1})
               last == IF x.time > selected.time THEN x ELSE selected
           IN  last.time = Max({e.time : e \in K0 \cup K1 \cup D \cup {NoActivity}})
<1>1. PICK selected \in Event : selected = select_activity({r0, r1}) /\ IsLatest(selected, {r0, r1})
    <2>1. {r0, r1} \in SUBSET Event /\ IsFiniteSet({r0, r1})
        BY Zenon, PairIsFinite DEF NewestTime
    <2>2. PICK R \in SUBSET Event : R = {r0, r1} /\ IsFiniteSet(R)
        BY Zenon, <2>1
    <2>3. Latest({r \in R : r # NoActivity}) \in Event /\ IsLatest(Latest({r \in R : r # NoActivity}), R)
        BY Zenon, <2>2, LatestOfKnown
    <2> QED
        BY Zenon, <2>2, <2>3 DEF select_activity
<1>2. PICK last : last = IF x.time > selected.time THEN x ELSE selected
    BY Zenon
<1>3. x \in Event /\ r0 \in Event /\ r1 \in Event /\ last \in Event
    BY Zenon, <1>2 DEF NewestTime
<1>4. x.time \in Nat /\ r0.time \in Nat /\ r1.time \in Nat /\ selected.time \in Nat /\ last.time \in Nat
    BY Zenon, <1>3 DEF Event
<1>5. x.time <= last.time /\ selected.time <= last.time
    BY <1>2, <1>4
<1>6. r0.time <= selected.time /\ r1.time <= selected.time
    BY Zenon, <1>1 DEF IsLatest
<1>7. PICK S : S = {e.time : e \in K0 \cup K1 \cup D \cup {NoActivity}}
    BY Zenon
<1>8. S \in SUBSET Nat
    BY Zenon, <1>7, NothingIsAnEvent DEF Event
<1>9. last.time \in S
    <2>1. last = x \/ last = r0 \/ last = r1 \/ last = NoActivity
        BY Zenon, <1>1, <1>2 DEF IsLatest
    <2>2. NoActivity.time \in S
        BY Zenon, <1>7
    <2>3. x.time \in S /\ r0.time \in S /\ r1.time \in S
        BY Zenon, <1>7, <2>2 DEF NewestTime
    <2> QED
        BY Zenon, <2>1, <2>2, <2>3
<1>10. \A y \in S : y <= last.time
    <2>1. \A e \in K0 : e.time <= r0.time
        BY Zenon DEF NewestTime
    <2>2. \A e \in K1 : e.time <= r1.time
        BY Zenon DEF NewestTime
    <2>3. \A e \in D : e.time <= x.time
        BY Zenon DEF NewestTime
    <2>4. \A e \in K0 \cup K1 \cup D : e.time <= last.time
        BY <1>4, <1>5, <1>6, <2>1, <2>2, <2>3
    <2>5. NoActivity.time <= last.time
        BY <1>4, NothingIsAnEvent
    <2> QED
        BY Zenon, <1>7, <2>4, <2>5
<1>11. Max(S) = last.time
    <2>1. PICK t \in S : t = last.time
        BY Zenon, <1>9
    <2>2. \A y \in S : y <= t
        BY Zenon, <1>10, <2>1
    <2> QED
        BY Zenon, <1>8, <2>1, <2>2, GreatestOf
<1> QED
    BY Zenon, <1>1, <1>2, <1>7, <1>11

-----------------------------------------------------------------------------
(***************************************************************************)
(* The inductive invariant.                                                *)
(***************************************************************************)
\* What happened does not change, and a scan of it always answers the same.
InputsInv ==
    \A a \in Address :
        /\ \A s \in {0, 1} : /\ GoodHistories(s, history[a][s])
                             /\ found[a][s] = ScanAddress(s, history[a][s])
        /\ GoodDirectional(directional[a])

\* A row is the answer for its address, of a scan that did not refuse.
GoodRows(rows, shard) ==
    \A a \in DOMAIN rows : a \in Address /\ found[a][shard].ok /\ rows[a] = found[a][shard].out

CandidatesInv ==
    /\ DOMAIN candidates \subseteq Address
    /\ increment # None => DOMAIN increment \subseteq Address

CheckpointInv ==
    /\ DOMAIN checkpoint = Scan
    /\ \A scan \in Scan : checkpoint[scan] # None => GoodRows(checkpoint[scan].rows, scan[2])

OutputInv ==
    /\ DOMAIN output = Place \X {0, 1}
    /\ \A p \in Place, s \in {0, 1} : output[<<p, s>>] # None => GoodRows(output[<<p, s>>], s)

RunningInv ==
    running # None =>
        /\ DOMAIN running = {"scan", "of", "step", "rows"}
        /\ running.scan \in Scan
        /\ DOMAIN running.of \subseteq Address
        /\ GoodRows(running.rows, running.scan[2])

ExtraInv ==
    extra # None =>
        \A a \in DOMAIN extra.rows : a \in Address /\ NewestTime(extra.rows[a], directional[a])

\* Whatever candidate file it was scanned for, every row on disk is right for its address.
IInv ==
    /\ InputsInv /\ CandidatesInv /\ CheckpointInv /\ OutputInv /\ RunningInv /\ ExtraInv
    /\ EnrichedIsLatest

LEMMA InitInvariant == Init => IInv
<1> SUFFICES ASSUME Init PROVE IInv
    OBVIOUS
<1>1. PICK w \in Worlds : /\ history = w.history
                         /\ directional = w.directional
                         /\ rejected = w.rejected
                         /\ found = [a \in Address |-> [s \in {0, 1} |-> ScanAddress(s, w.history[a][s])]]
    BY Zenon DEF Init
<1>2. InputsInv
    <2> SUFFICES ASSUME NEW a \in Address
                 PROVE  /\ \A s \in {0, 1} : /\ GoodHistories(s, history[a][s])
                                             /\ found[a][s] = ScanAddress(s, history[a][s])
                        /\ GoodDirectional(directional[a])
        BY Zenon DEF InputsInv
    <2>1. \A s \in {0, 1} : GoodHistories(s, history[a][s])
        BY Zenon, <1>1, WorldsAssumption DEF GoodHistories, Entry
    <2>2. \A s \in {0, 1} : found[a][s] = ScanAddress(s, history[a][s])
        BY Zenon, <1>1
    <2>3. GoodDirectional(directional[a])
        BY Zenon, <1>1, WorldsAssumption DEF GoodDirectional
    <2> QED
        BY Zenon, <2>1, <2>2, <2>3
<1>3. CandidatesInv
    BY Zenon DEF Init, CandidatesInv
<1>4. CheckpointInv
    BY Zenon DEF Init, CheckpointInv
<1>5. OutputInv
    BY Zenon DEF Init, OutputInv
<1>6. RunningInv /\ ExtraInv /\ EnrichedIsLatest
    BY Zenon DEF Init, RunningInv, ExtraInv, EnrichedIsLatest
<1> QED
    BY Zenon, <1>2, <1>3, <1>4, <1>5, <1>6 DEF IInv

LEMMA KeptUnchanged ==
    ASSUME UNCHANGED <<history, rejected>>
    PROVE  \A a, s : Kept(a, s)' = Kept(a, s)
<1> DEFINE U(h, a, s) == UNION {UNION {transaction_activity(s, h[a][s][spec][i]) :
                             i \in DOMAIN h[a][s][spec]} : spec \in source_specs(s)}
<1>1. \A a, s : Usable(a, s) = U(history, a, s) /\ Usable(a, s)' = U(history', a, s)
    BY Zenon DEF Usable
<1> HIDE DEF U
<1>2. \A a, s : Usable(a, s)' = Usable(a, s)
    BY Zenon, <1>1
<1> QED
    BY Zenon, <1>2 DEF Kept

\* What a step leaves alone stays right.
LEMMA Frame ==
    ASSUME IInv, UNCHANGED inputs
    PROVE  /\ InputsInv'
           /\ UNCHANGED <<candidates, increment>> => CandidatesInv'
           /\ UNCHANGED checkpoint => CheckpointInv'
           /\ UNCHANGED output => OutputInv'
           /\ UNCHANGED running => RunningInv'
           /\ UNCHANGED extra => ExtraInv'
           /\ UNCHANGED enriched => EnrichedIsLatest'
<1>1. InputsInv'
    BY Zenon DEF IInv, InputsInv, inputs
<1>2. UNCHANGED <<candidates, increment>> => CandidatesInv'
    BY Zenon DEF IInv, CandidatesInv
<1>3. UNCHANGED checkpoint => CheckpointInv'
    <2> SUFFICES ASSUME UNCHANGED checkpoint PROVE CheckpointInv'
        OBVIOUS
    <2>1. CheckpointInv /\ UNCHANGED found
        BY Zenon DEF IInv, inputs
    <2>2. DOMAIN checkpoint' = Scan
        BY Zenon, <2>1 DEF CheckpointInv
    <2>3. ASSUME NEW scan \in Scan, checkpoint[scan] # None
          PROVE  GoodRows(checkpoint[scan].rows, scan[2])'
        <3>1. PICK rows : rows = checkpoint[scan].rows /\ GoodRows(rows, scan[2])
            BY Zenon, <2>1, <2>3 DEF CheckpointInv
        <3>2. GoodRows(rows, scan[2])'
            BY Zenon, <2>1, <3>1 DEF GoodRows
        <3> QED
            BY Zenon, <3>1, <3>2
    <2> QED
        BY Zenon, <2>2, <2>3 DEF CheckpointInv
<1>4. UNCHANGED output => OutputInv'
    <2> SUFFICES ASSUME UNCHANGED output PROVE OutputInv'
        OBVIOUS
    <2>1. OutputInv /\ UNCHANGED found
        BY Zenon DEF IInv, inputs
    <2>2. DOMAIN output' = Place \X {0, 1}
        BY Zenon, <2>1 DEF OutputInv
    <2>3. ASSUME NEW p \in Place, NEW s \in {0, 1}, output[<<p, s>>] # None
          PROVE  GoodRows(output[<<p, s>>], s)'
        <3>1. PICK rows : rows = output[<<p, s>>] /\ GoodRows(rows, s)
            BY Zenon, <2>1, <2>3 DEF OutputInv
        <3>2. GoodRows(rows, s)'
            BY Zenon, <2>1, <3>1 DEF GoodRows
        <3> QED
            BY Zenon, <3>1, <3>2
    <2> QED
        BY Zenon, <2>2, <2>3 DEF OutputInv
<1>5. UNCHANGED running => RunningInv'
    BY Zenon DEF IInv, RunningInv, GoodRows, inputs
<1>6. UNCHANGED extra => ExtraInv'
    BY Zenon DEF IInv, ExtraInv, inputs
<1>7. UNCHANGED enriched => EnrichedIsLatest'
    <2> SUFFICES ASSUME UNCHANGED enriched PROVE EnrichedIsLatest'
        OBVIOUS
    <2>1. EnrichedIsLatest /\ UNCHANGED <<history, directional, rejected>>
        BY Zenon DEF IInv, inputs
    <2>2. \A a, s : Kept(a, s)' = Kept(a, s)
        BY Zenon, <2>1, KeptUnchanged
    <2> QED
        BY Zenon, <2>1, <2>2 DEF EnrichedIsLatest
<1> QED
    BY Zenon, <1>1, <1>2, <1>3, <1>4, <1>5, <1>6, <1>7

LEMMA EditStep == ASSUME IInv, Edit PROVE IInv'
<1>1. CandidatesInv'
    <2>1. DOMAIN candidates' \subseteq Address
        <3>1. CASE candidates' = [a \in Address |-> 1]
            BY Zenon, <3>1
        <3>2. CASE candidates' = [candidates EXCEPT ![Min(Address)] = 2]
            <4>1. DOMAIN candidates' = DOMAIN candidates
                BY Zenon, <3>2
            <4> QED
                BY Zenon, <4>1 DEF IInv, CandidatesInv
        <3> QED
            BY Zenon, <3>1, <3>2 DEF Edit
    <2> QED
        BY Zenon, <2>1 DEF Edit, joins, IInv, CandidatesInv
<1> QED
    BY Zenon, <1>1, Frame DEF Edit, joins, IInv

LEMMA StartStep == ASSUME IInv, NEW scan \in Scan, Start(scan) PROVE IInv'
<1>1. RunningInv'
    <2>1. UNCHANGED <<found, checkpoint>> /\ Input(scan) # None
        BY Zenon DEF Start, inputs
    <2>2. DOMAIN Input(scan) \subseteq Address
        BY Zenon, <2>1 DEF Input, IInv, CandidatesInv
    <2>3. PICK rows : rows = IF checkpoint[scan] = None THEN <<>> ELSE checkpoint[scan].rows
        BY Zenon
    <2>4. GoodRows(rows, scan[2])'
        <3>1. DOMAIN <<>> = {}
            OBVIOUS
        <3> QED
            BY Zenon, <2>1, <2>3, <3>1 DEF IInv, CheckpointInv, GoodRows
    <2>5. running' = [scan |-> scan, of |-> Input(scan), step |-> "scan", rows |-> rows]
        BY Zenon, <2>3 DEF Start
    <2>6. /\ DOMAIN running' = {"scan", "of", "step", "rows"}
          /\ running'.scan = scan /\ running'.of = Input(scan) /\ running'.rows = rows
        BY <2>5
    <2> QED
        BY Zenon, <2>2, <2>4, <2>6 DEF RunningInv
<1> QED
    BY Zenon, <1>1, Frame DEF Start, joins, IInv

LEMMA KillStep == ASSUME IInv, Kill PROVE IInv'
<1>1. RunningInv'
    BY Zenon DEF Kill, RunningInv
<1> QED
    BY Zenon, <1>1, Frame DEF Kill, joins, IInv

LEMMA CleanUpStep == ASSUME IInv, NEW scan \in Scan, CleanUp(scan) PROVE IInv'
<1>1. CheckpointInv'
    <2>1. UNCHANGED inputs
        BY Zenon DEF CleanUp
    <2>2. CASE UNCHANGED checkpoint
        BY Zenon, <2>1, <2>2, Frame
    <2>3. CASE checkpoint' = [checkpoint EXCEPT ![scan] = None]
        BY Zenon, <2>1, <2>3 DEF IInv, CheckpointInv, GoodRows, inputs
    <2> QED
        BY Zenon, <2>2, <2>3 DEF CleanUp
<1> QED
    BY Zenon, <1>1, Frame DEF CleanUp, joins, IInv

LEMMA WriteSummaryStep == ASSUME IInv, WriteSummary PROVE IInv'
<1>1. RunningInv'
    BY Zenon DEF WriteSummary, RunningInv
<1> QED
    BY Zenon, <1>1, Frame DEF WriteSummary, joins, IInv

LEMMA PrepareStep == ASSUME IInv, Prepare PROVE IInv'
<1>1. CandidatesInv'
    <2>1. DOMAIN increment' \subseteq DOMAIN candidates /\ UNCHANGED candidates
        BY Zenon DEF Prepare, prepare
    <2> QED
        BY Zenon, <2>1 DEF IInv, CandidatesInv
<1> QED
    BY Zenon, <1>1, Frame DEF Prepare, IInv

LEMMA ScanChunkStep == ASSUME IInv, ScanChunk PROVE IInv'
<1> DEFINE shard == running.scan[2]
           rows == [a \in NextChunk \cup DOMAIN running.rows |->
                       IF a \in NextChunk THEN found[a][shard].out ELSE running.rows[a]]
<1>1. UNCHANGED found /\ running # None
    BY Zenon DEF ScanChunk, inputs
<1>2. /\ DOMAIN running = {"scan", "of", "step", "rows"} /\ running.scan \in Scan
      /\ DOMAIN running.of \subseteq Address /\ GoodRows(running.rows, shard)
    BY Zenon, <1>1 DEF IInv, RunningInv
<1>3. RunningInv' /\ CheckpointInv'
    <2>1. CASE \A a \in NextChunk : found[a][shard].ok
        <3>1. /\ running' = [running EXCEPT !.rows = rows]
              /\ checkpoint' = [checkpoint EXCEPT ![running.scan] = [of |-> running.of, rows |-> rows]]
            BY Zenon, <2>1 DEF ScanChunk
        <3>2. GoodRows(rows, shard)
            <4>1. NextChunk \subseteq Address
                BY Zenon, <1>2 DEF NextChunk, Todo
            <4> QED
                BY Zenon, <1>2, <2>1, <4>1 DEF GoodRows
        <3>3. PICK r, sc : r = rows /\ sc = running.scan
            BY Zenon
        <3> HIDE DEF rows
        <3>4. GoodRows(r, sc[2])'
            BY Zenon, <1>1, <3>2, <3>3 DEF GoodRows
        <3>5. /\ DOMAIN running' = {"scan", "of", "step", "rows"} /\ running'.scan = sc
              /\ running'.of = running.of /\ running'.rows = r
            BY <1>2, <3>1, <3>3
        <3>6. RunningInv'
            BY Zenon, <1>2, <3>3, <3>4, <3>5 DEF RunningInv
        <3>7. DOMAIN checkpoint = Scan /\ DOMAIN checkpoint' = Scan
            BY Zenon, <3>1 DEF IInv, CheckpointInv
        <3>8. ASSUME NEW scan \in Scan, checkpoint'[scan] # None
              PROVE  GoodRows(checkpoint[scan].rows, scan[2])'
            <4>1. CASE scan = sc
                <5>1. checkpoint'[scan].rows = r
                    BY <1>2, <3>1, <3>3, <3>7, <4>1
                <5> QED
                    BY Zenon, <3>4, <4>1, <5>1
            <4>2. CASE scan # sc
                <5>1. checkpoint'[scan] = checkpoint[scan]
                    BY Zenon, <3>1, <3>3, <3>7, <4>2
                <5>2. PICK old : old = checkpoint[scan].rows /\ GoodRows(old, scan[2])
                    BY Zenon, <3>8, <5>1 DEF IInv, CheckpointInv
                <5>3. GoodRows(old, scan[2])'
                    BY Zenon, <1>1, <5>2 DEF GoodRows
                <5> QED
                    BY Zenon, <5>1, <5>2, <5>3
            <4> QED
                BY Zenon, <4>1, <4>2
        <3> QED
            BY Zenon, <3>6, <3>7, <3>8 DEF CheckpointInv
    <2>2. CASE ~ \A a \in NextChunk : found[a][shard].ok
        <3>1. running' = None /\ UNCHANGED checkpoint /\ UNCHANGED inputs
            BY Zenon, <2>2 DEF ScanChunk
        <3> QED
            BY Zenon, <3>1, Frame DEF RunningInv
    <2> QED
        BY Zenon, <2>1, <2>2
<1> QED
    BY Zenon, <1>3, Frame DEF ScanChunk, joins, IInv

\* An output is replaced by good rows.
LEMMA OutputReplaced ==
    ASSUME IInv, UNCHANGED found, NEW p \in Place, NEW s \in {0, 1}, NEW rows, GoodRows(rows, s),
           output' = [output EXCEPT ![<<p, s>>] = rows]
    PROVE  OutputInv'
<1>1. DOMAIN output = Place \X {0, 1} /\ DOMAIN output' = Place \X {0, 1}
    BY Zenon DEF IInv, OutputInv
<1>2. ASSUME NEW q \in Place, NEW t \in {0, 1}, output'[<<q, t>>] # None
      PROVE  GoodRows(output[<<q, t>>], t)'
    <2>1. <<q, t>> \in DOMAIN output
        BY Zenon, <1>1
    <2>2. CASE <<q, t>> = <<p, s>>
        <3>1. output'[<<q, t>>] = rows
            BY Zenon, <2>1, <2>2
        <3>2. t = s
            BY <2>2
        <3>3. GoodRows(rows, t)'
            BY Zenon, <3>2 DEF GoodRows
        <3> QED
            BY Zenon, <3>1, <3>3
    <2>3. CASE <<q, t>> # <<p, s>>
        <3>1. output'[<<q, t>>] = output[<<q, t>>]
            BY Zenon, <2>1, <2>3
        <3>2. PICK old : old = output[<<q, t>>] /\ GoodRows(old, t)
            BY Zenon, <1>2, <3>1 DEF IInv, OutputInv
        <3>3. GoodRows(old, t)'
            BY Zenon, <3>2 DEF GoodRows
        <3> QED
            BY Zenon, <3>1, <3>2, <3>3
    <2> QED
        BY Zenon, <2>2, <2>3
<1> QED
    BY Zenon, <1>1, <1>2 DEF OutputInv

LEMMA write_outputStep == ASSUME IInv, write_output PROVE IInv'
<1>1. UNCHANGED found /\ UNCHANGED inputs /\ running # None
    BY Zenon DEF write_output, inputs
<1>2. PICK sc \in Scan : sc = running.scan
    BY Zenon, <1>1 DEF IInv, RunningInv
<1>3. OutputInv' /\ RunningInv'
    <2>1. CASE DOMAIN Input(running.scan) \subseteq DOMAIN running.rows
        <3>1. PICK rows : rows = [a \in DOMAIN Input(running.scan) |-> running.rows[a]]
            BY Zenon
        <3>2. /\ output' = [output EXCEPT ![sc] = rows]
              /\ running' = [running EXCEPT !.step = "summary"]
            BY Zenon, <1>2, <2>1, <3>1 DEF write_output
        <3>3. GoodRows(running.rows, sc[2])
            BY Zenon, <1>1, <1>2 DEF IInv, RunningInv
        <3>4. GoodRows(rows, sc[2])
            BY Zenon, <2>1, <3>1, <3>3 DEF GoodRows
        <3>5. PICK p \in Place, s \in {0, 1} : sc = <<p, s>> /\ sc[2] = s
            BY DEF Scan, Place
        <3>6. OutputInv'
            BY Zenon, <1>1, <3>2, <3>4, <3>5, OutputReplaced
        <3>7. /\ DOMAIN running' = DOMAIN running /\ running'.scan = running.scan
              /\ running'.of = running.of /\ running'.rows = running.rows
            <4>1. DOMAIN running = {"scan", "of", "step", "rows"}
                BY Zenon, <1>1 DEF IInv, RunningInv
            <4> QED
                BY <3>2, <4>1
        <3>8. PICK r : r = running.rows /\ GoodRows(r, sc[2])
            BY Zenon, <3>3
        <3>9. GoodRows(r, sc[2])'
            BY Zenon, <1>1, <3>8 DEF GoodRows
        <3>10. RunningInv'
            BY Zenon, <1>1, <1>2, <3>7, <3>8, <3>9 DEF RunningInv, IInv
        <3> QED
            BY Zenon, <3>6, <3>10
    <2>2. CASE ~ (DOMAIN Input(running.scan) \subseteq DOMAIN running.rows)
        <3>1. running' = None /\ UNCHANGED output
            BY Zenon, <2>2 DEF write_output
        <3> QED
            BY Zenon, <1>1, <3>1, Frame DEF RunningInv
    <2> QED
        BY Zenon, <2>1, <2>2
<1> QED
    BY Zenon, <1>3, Frame DEF write_output, joins, IInv

\* The rows that merge writes.
Joined(x, y) == [a \in DOMAIN x \cup DOMAIN y |-> IF a \in DOMAIN x THEN x[a] ELSE y[a]]

LEMMA MergedRows ==
    ASSUME NEW cands, NEW e, NEW d, merge(cands, e, d).ok
    PROVE  merge(cands, e, d).out.rows = Joined(e.rows, d.rows)
<1>1. PICK rows : rows = Joined(e.rows, d.rows)
    BY Zenon
<1>2. PICK out : out = [of |-> cands, shard |-> e.shard, rows |-> rows]
    BY Zenon
<1>3. PICK ok \in BOOLEAN : merge(cands, e, d) = Result(ok, out)
    BY Zenon, <1>1, <1>2 DEF merge, Joined
<1>4. Result(ok, out).ok
    BY Zenon, <1>3
<1>5. merge(cands, e, d).out = out
    BY Zenon, <1>3, <1>4, ResultOf
<1>6. out.rows = rows
    BY <1>2
<1> QED
    BY Zenon, <1>1, <1>5, <1>6

LEMMA MergeStep == ASSUME IInv, NEW shard \in {0, 1}, Merge(shard) PROVE IInv'
<1>1. UNCHANGED found /\ UNCHANGED inputs
    BY Zenon DEF Merge, inputs
<1>2. PICK e, d, c : e = Read("base", shard) /\ d = Read("added", shard) /\ c = candidates
    BY Zenon
<1>3. GoodRows(e.rows, shard) /\ GoodRows(d.rows, shard)
    <2>1. output[<<"base", shard>>] # None /\ output[<<"added", shard>>] # None
        BY Zenon DEF Merge, Matches
    <2>2. "base" \in Place /\ "added" \in Place
        BY Zenon DEF Place
    <2>3. e.rows = output[<<"base", shard>>] /\ d.rows = output[<<"added", shard>>]
        BY <1>2 DEF Read
    <2> QED
        BY Zenon, <2>1, <2>2, <2>3 DEF IInv, OutputInv
<1>4. PICK result : /\ result = merge(c, e, d)
                    /\ result.ok
                    /\ output' = [output EXCEPT ![<<"joined", shard>>] = result.out.rows]
    BY Zenon, <1>2 DEF Merge
<1>5. PICK rows : /\ rows = result.out.rows
                  /\ rows = Joined(e.rows, d.rows)
    <2>1. merge(c, e, d).ok
        BY Zenon, <1>4
    <2>2. merge(c, e, d).out.rows = Joined(e.rows, d.rows)
        BY <2>1, MergedRows
    <2> QED
        BY Zenon, <1>4, <2>2
<1>6. GoodRows(rows, shard)
    BY ZenonT(40), <1>3, <1>5 DEF GoodRows, Joined
<1>7. OutputInv'
    <2>1. output' = [output EXCEPT ![<<"joined", shard>>] = rows] /\ "joined" \in Place
        BY Zenon, <1>4, <1>5 DEF Place
    <2> QED
        BY Zenon, <1>1, <1>6, <2>1, OutputReplaced
<1> QED
    BY Zenon, <1>1, <1>7, Frame DEF Merge, joins, IInv

LEMMA DirectionalStep == ASSUME IInv, Directional PROVE IInv'
<1>1. UNCHANGED inputs /\ UNCHANGED directional
    BY Zenon DEF Directional, inputs
<1>2. PICK c, D : c = candidates /\ D = directional
    BY Zenon
<1> DEFINE chosen == [a \in DOMAIN c \cap DOMAIN D |-> latest_event(D[a])]
           Strip(C) == {[time |-> e.time, shard |-> e.shard, block |-> e.block, id |-> e.id] : e \in C}
           rows == [a \in DOMAIN c |-> Latest(Strip(chosen[a]))]
           ok == /\ DOMAIN c \subseteq DOMAIN D
                 /\ \A a \in DOMAIN c : \A e \in chosen[a] :
                      e.block <= CutoffBlock[e.shard] /\ e.time <= CutoffTime /\ e.canonical
           out == [of |-> c, rows |-> rows]
<1>3. build_directional_activity(c, D) = Result(ok, out)
    BY Zenon DEF build_directional_activity
<1>4. Result(ok, out).ok /\ extra' = Result(ok, out).out
    BY Zenon, <1>2, <1>3 DEF Directional
<1>5. ok /\ extra' = out
    <2>1. PICK b \in BOOLEAN : b = ok
        BY Zenon
    <2> HIDE DEF ok, out
    <2> QED
        BY Zenon, <1>4, <2>1, ResultOf
<1>6. ASSUME NEW a \in DOMAIN c
      PROVE  a \in Address /\ NewestTime(rows[a], directional'[a])
    <2>1. a \in Address
        BY Zenon, <1>2 DEF IInv, CandidatesInv
    <2>2. GoodDirectional(D[a]) /\ directional'[a] = D[a]
        BY Zenon, <1>1, <1>2, <2>1 DEF IInv, InputsInv
    <2>3. chosen[a] = latest_event(D[a])
        BY Zenon, <1>5
    <2>4. rows[a] = Latest(Strip(latest_event(D[a])))
        BY Zenon, <2>3
    <2>5. NewestTime(Latest(Strip(latest_event(D[a]))), D[a])
        <3>1. PICK d : d = D[a] /\ GoodDirectional(d)
            BY Zenon, <2>2
        <3> QED
            BY Zenon, <3>1, DirectionalIsNewest
    <2> HIDE DEF rows, Strip
    <2> QED
        BY Zenon, <2>1, <2>2, <2>4, <2>5
<1>7. ExtraInv'
    <2>1. extra'.rows = rows /\ DOMAIN rows = DOMAIN c
        <3> HIDE DEF chosen, ok, Strip
        <3> QED
            BY <1>5
    <2> HIDE DEF rows
    <2> QED
        BY Zenon, <1>6, <2>1 DEF ExtraInv
<1> QED
    BY Zenon, <1>1, <1>7, Frame DEF Directional, IInv

\* After the reviewed rejections, the record of a shard has the time of what is kept of it.
LEMMA KeptIsNewest ==
    ASSUME IInv, NEW a \in Address, NEW s \in {0, 1}, NEW scans,
           found[a][s].ok, scans[s].rows[a] = found[a][s].out
    PROVE  /\ NewestTime(apply_rejections(rejected, scans, s, a), Kept(a, s))
           /\ \A e \in Kept(a, s) : e.time \in Nat
<1>1. CASE \E r \in rejected : r.shard = s /\ r.address = a
    <2>1. Kept(a, s) = {} /\ apply_rejections(rejected, scans, s, a) = NoActivity
        BY Zenon, <1>1 DEF Kept, apply_rejections
    <2> QED
        BY Zenon, <2>1, NothingIsAnEvent DEF NewestTime
<1>2. CASE ~ \E r \in rejected : r.shard = s /\ r.address = a
    <2>1. PICK h : h = history[a][s] /\ GoodHistories(s, h) /\ found[a][s] = ScanAddress(s, h)
        BY Zenon DEF IInv, InputsInv
    <2>2. PICK last : last = Latest(ListedOn(s, h))
        BY Zenon
    <2>3. PICK e : e = ScanAddress(s, h).out /\ e \in Event /\ e.time = last.time
        <3>1. ScanAddress(s, h).ok
            BY Zenon, <2>1
        <3>2. /\ ScanAddress(s, h).out \in Event
              /\ ScanAddress(s, h).out.time = Latest(ListedOn(s, h)).time
            BY Zenon, <2>1, <3>1, ScanHasTheTime
        <3> QED
            BY Zenon, <2>2, <3>2
    <2>4. Usable(a, s) = ListedOn(s, h)
        <3>1. Usable(a, s) = ListedOn(s, history[a][s])
            BY Zenon DEF Usable, ListedOn, Listed
        <3> QED
            BY Zenon, <2>1, <3>1
    <2>5. Kept(a, s) = {last}
        BY Zenon, <1>2, <2>2, <2>4 DEF Kept
    <2>6. apply_rejections(rejected, scans, s, a) = e
        BY Zenon, <1>2, <2>1, <2>3 DEF apply_rejections
    <2>7. e.time \in Nat /\ last.time \in Nat
        BY Zenon, <2>3 DEF Event
    <2>8. last.time <= e.time
        BY <2>3, <2>7
    <2> QED
        BY Zenon, <2>3, <2>5, <2>6, <2>7, <2>8 DEF NewestTime
<1> QED
    BY Zenon, <1>1, <1>2

\* The row that enrich-claim-activity writes for an address.
LEMMA EnrichedTime ==
    ASSUME IInv, NEW a \in Address, NEW scans, NEW x,
           \A s \in {0, 1} : found[a][s].ok /\ scans[s].rows[a] = found[a][s].out,
           NewestTime(x.rows[a], directional[a])
    PROVE  Enriched(rejected, scans, x, a).time
           = Max({e.time : e \in Kept(a, 0) \cup Kept(a, 1) \cup directional[a] \cup {NoActivity}})
<1>1. PICK K0, K1, D : K0 = Kept(a, 0) /\ K1 = Kept(a, 1) /\ D = directional[a]
    BY Zenon
<1>2. PICK r0, r1, other : /\ r0 = apply_rejections(rejected, scans, 0, a)
                           /\ r1 = apply_rejections(rejected, scans, 1, a)
                           /\ other = x.rows[a]
    BY Zenon
<1>3. NewestTime(r0, K0) /\ \A e \in K0 : e.time \in Nat
    BY Zenon, <1>1, <1>2, KeptIsNewest
<1>4. NewestTime(r1, K1) /\ \A e \in K1 : e.time \in Nat
    BY Zenon, <1>1, <1>2, KeptIsNewest
<1>5. NewestTime(other, D) /\ \A e \in D : e.time \in Nat
    <2>1. GoodDirectional(directional[a])
        BY Zenon DEF IInv, InputsInv
    <2>2. \A e \in D : e.time \in Nat
        BY Zenon, <1>1, <2>1 DEF GoodDirectional
    <2> QED
        BY Zenon, <1>1, <1>2, <2>2
<1>6. PICK selected, last : /\ selected = select_activity({r0, r1})
                            /\ last = IF other.time > selected.time THEN other ELSE selected
    BY Zenon
<1>7. last.time = Max({e.time : e \in K0 \cup K1 \cup D \cup {NoActivity}})
    <2>1. \A e \in K0 \cup K1 \cup D : e.time \in Nat
        BY Zenon, <1>3, <1>4, <1>5
    <2> QED
        BY Zenon, <1>3, <1>4, <1>5, <1>6, <2>1, NewestOfThree
<1>8. {apply_rejections(rejected, scans, s, a) : s \in {0, 1}} = {r0, r1}
    BY Zenon, <1>2
<1>9. Enriched(rejected, scans, x, a) = last
    BY Zenon, <1>2, <1>6, <1>8 DEF Enriched
<1> QED
    BY Zenon, <1>1, <1>7, <1>9

\* What enrich_claim_activity returns, when it does not refuse.
LEMMA EnrichedRows ==
    ASSUME NEW c, NEW scans, NEW rej, NEW x, enrich_claim_activity(c, scans, rej, x).ok
    PROVE  /\ DOMAIN scans[0].rows = DOMAIN c /\ DOMAIN scans[1].rows = DOMAIN c
           /\ DOMAIN x.rows = DOMAIN c
           /\ enrich_claim_activity(c, scans, rej, x).out = [a \in DOMAIN c |-> Enriched(rej, scans, x, a)]
<1>1. PICK out : out = [a \in DOMAIN c |-> Enriched(rej, scans, x, a)]
    BY Zenon
<1>2. PICK ok \in BOOLEAN :
          ok = (/\ \A s \in {0, 1} : LoadScan(scans[s], c, s)
                /\ DOMAIN scans[0].rows = DOMAIN scans[1].rows
                /\ RejectionsApply(rej, scans)
                /\ LoadSupplement(x, c)
                /\ DOMAIN x.rows = DOMAIN scans[0].rows
                /\ DOMAIN c = DOMAIN scans[0].rows)
    BY Zenon
<1>3. enrich_claim_activity(c, scans, rej, x) = Result(ok, out)
    BY Zenon, <1>1, <1>2 DEF enrich_claim_activity
<1>4. Result(ok, out).ok
    BY Zenon, <1>3
<1>5. ok /\ Result(ok, out).out = out
    BY Zenon, <1>4, ResultOf
<1>6. DOMAIN scans[0].rows = DOMAIN c /\ DOMAIN scans[1].rows = DOMAIN c /\ DOMAIN x.rows = DOMAIN c
    BY Zenon, <1>2, <1>5
<1> QED
    BY Zenon, <1>1, <1>3, <1>5, <1>6

LEMMA EnrichStep == ASSUME IInv, NEW place \in {"base", "joined"}, Enrich(place) PROVE IInv'
<1>1. UNCHANGED inputs /\ UNCHANGED <<history, found, directional, rejected>>
    BY Zenon DEF Enrich, inputs
<1>2. PICK c, scans, x : c = candidates /\ scans = [s \in {0, 1} |-> Read(place, s)] /\ x = extra
    BY Zenon
<1>3. PICK result : /\ result = enrich_claim_activity(c, scans, rejected, x)
                    /\ result.ok /\ enriched' = result.out
    BY Zenon, <1>2 DEF Enrich
<1>4. PICK rej : rej = rejected
    BY Zenon
<1>5. enrich_claim_activity(c, scans, rej, x).ok
    BY Zenon, <1>3, <1>4
<1>6. /\ DOMAIN scans[0].rows = DOMAIN c /\ DOMAIN scans[1].rows = DOMAIN c /\ DOMAIN x.rows = DOMAIN c
      /\ enriched' = [a \in DOMAIN c |-> Enriched(rej, scans, x, a)]
    <2>1. /\ DOMAIN scans[0].rows = DOMAIN c /\ DOMAIN scans[1].rows = DOMAIN c
          /\ DOMAIN x.rows = DOMAIN c
          /\ enrich_claim_activity(c, scans, rej, x).out = [a \in DOMAIN c |-> Enriched(rej, scans, x, a)]
        BY <1>5, EnrichedRows
    <2> QED
        BY Zenon, <1>3, <1>4, <2>1
<1>7. \A s \in {0, 1} : GoodRows(scans[s].rows, s)
    <2> SUFFICES ASSUME NEW s \in {0, 1} PROVE GoodRows(scans[s].rows, s)
        BY Zenon
    <2>1. scans[s] = Read(place, s)
        BY Zenon, <1>2
    <2>2. scans[s].rows = output[<<place, s>>]
        BY <2>1 DEF Read
    <2>3. output[<<place, s>>] # None /\ place \in Place
        BY Zenon DEF Enrich, Matches, Place
    <2> QED
        BY Zenon, <2>2, <2>3 DEF IInv, OutputInv
<1>8. ASSUME NEW a \in DOMAIN c
      PROVE  enriched'[a].time = Max({e.time : e \in Kept(a, 0) \cup Kept(a, 1)
                                                       \cup directional[a] \cup {NoActivity}})
    <2>1. a \in Address
        BY Zenon, <1>2 DEF IInv, CandidatesInv
    <2>2. \A s \in {0, 1} : DOMAIN scans[s].rows = DOMAIN c
        BY Zenon, <1>6
    <2>3. \A s \in {0, 1} : found[a][s].ok /\ scans[s].rows[a] = found[a][s].out
        BY Zenon, <1>7, <2>2 DEF GoodRows
    <2>4. NewestTime(x.rows[a], directional[a])
        BY Zenon, <1>2, <1>6 DEF IInv, ExtraInv, Enrich
    <2>5. enriched'[a] = Enriched(rejected, scans, x, a)
        BY Zenon, <1>4, <1>6
    <2> QED
        BY Zenon, <2>1, <2>3, <2>4, <2>5, EnrichedTime
<1>9. EnrichedIsLatest'
    <2>1. DOMAIN enriched' = DOMAIN c
        BY Zenon, <1>6
    <2>2. \A a, s : Kept(a, s)' = Kept(a, s)
        BY Zenon, <1>1, KeptUnchanged
    <2> QED
        BY Zenon, <1>1, <1>8, <2>1, <2>2 DEF EnrichedIsLatest
<1> QED
    BY Zenon, <1>1, <1>9, Frame DEF Enrich, IInv

-----------------------------------------------------------------------------
LEMMA NextInvariant == IInv /\ [Next]_vars => IInv'
<1> SUFFICES ASSUME IInv, [Next]_vars PROVE IInv'
    OBVIOUS
<1>1. CASE UNCHANGED vars
    <2>1. /\ UNCHANGED inputs /\ UNCHANGED <<candidates, increment>>
          /\ UNCHANGED checkpoint /\ UNCHANGED output /\ UNCHANGED running
          /\ UNCHANGED extra /\ UNCHANGED enriched
        BY Zenon, <1>1 DEF vars, inputs
    <2> QED
        BY Zenon, <2>1, Frame DEF IInv
<1>2. CASE Next
    <2>1. CASE ScanChunk \/ write_output \/ WriteSummary \/ Prepare \/ Directional \/ Edit \/ Kill
        BY Zenon, <2>1, ScanChunkStep, write_outputStep, WriteSummaryStep, PrepareStep,
           DirectionalStep, EditStep, KillStep
    <2>2. CASE \E scan \in Scan : Start(scan) \/ CleanUp(scan)
        BY Zenon, <2>2, StartStep, CleanUpStep
    <2>3. CASE \E shard \in {0, 1} : Merge(shard)
        BY Zenon, <2>3, MergeStep
    <2>4. CASE \E place \in {"base", "joined"} : Enrich(place)
        BY Zenon, <2>4, EnrichStep
    <2> QED
        BY Zenon, <1>2, <2>1, <2>2, <2>3, <2>4 DEF Next, Work
<1> QED
    BY Zenon, <1>1, <1>2

\* Every row of a checkpoint, an output and a running scan is the answer for its address,
\* for whatever candidate file it was made.
THEOREM Invariance == Spec => []IInv
BY InitInvariant, NextInvariant, PTL DEF Spec

\* The activity that decides the stage of an address is the latest of all that is known of
\* it, over all pages, shards, joins, kills and edits of the candidate file.
THEOREM ActivityIsTheLatest == Spec => []EnrichedIsLatest
<1>1. IInv => EnrichedIsLatest
    BY Zenon DEF IInv
<1> QED
    BY <1>1, Invariance, PTL

=============================================================================
