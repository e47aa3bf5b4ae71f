--------------------------- MODULE ListingsProofs ---------------------------
(***************************************************************************)
(* What holds of the lists of shows for every table, every query and every *)
(* size of a page: totals drift no further than the writes that come       *)
(* between the two statements, pages follow each other, a show that starts *)
(* at a time of its own is on the page that its place puts it on, and the  *)
(* public sees whole days.  All pages but huge ones have an offset that an *)
(* int holds.                                                              *)
(***************************************************************************)
EXTENDS Listings, FiniteSetTheorems, SequenceTheorems, TLAPS

-----------------------------------------------------------------------------
(* Arithmetic. *)

\* A page after another begins where that one ends, or later.
LEMMA PagesApart ==
  ASSUME NEW p \in Nat, NEW q \in Nat, NEW k \in Nat, p < q
  PROVE  /\ (p - 1) * k \in Int /\ (q - 1) * k \in Int
         /\ (p - 1) * k + k <= (q - 1) * k
<1>. DEFINE d == q - p - 1
<1>1. d \in Nat /\ q - 1 = (p - 1) + 1 + d
  OBVIOUS
<1>2. (q - 1) * k = (p - 1) * k + k + d * k
  BY <1>1, SMTT(30)
<1>3. d * k \in Nat
  BY <1>1, SMTT(30)
<1>4. (p - 1) * k \in Int /\ (q - 1) * k \in Int
  BY SMTT(30)
<1>. QED
  BY <1>2, <1>3, <1>4

\* A tick lies in the days from d on, or up to d, as its own day says.
LEMMA Days ==
  ASSUME NEW s \in Nat, NEW d \in Nat
  PROVE  /\ s >= d * TicksPerDay <=> d <= s \div TicksPerDay
         /\ s < (d + 1) * TicksPerDay <=> s \div TicksPerDay <= d
<1>. DEFINE T == TicksPerDay
            e == s \div T
<1>0. T \in Nat \ {0}
  BY ListingsAssumption
<1>1. e \in Nat /\ e * T <= s /\ s < (e + 1) * T
  BY <1>0, SMTT(30)
<1>. QED
  BY <1>0, <1>1, SMTT(60)

\* An int that fits is not changed.
LEMMA WrapFits == \A n \in Number : Wrap(n) = n
<1>. SUFFICES ASSUME NEW n \in Number PROVE Wrap(n) = n
  OBVIOUS
<1>1. MaxInt \in Nat
  BY ListingsAssumption
<1>2. n \in Int /\ 0 <= n + MaxInt + 1 /\ n + MaxInt + 1 < 2 * (MaxInt + 1)
  BY <1>1 DEF Number
<1>3. ASSUME NEW a \in Nat, NEW b \in Nat, a < b PROVE a % b = a
  BY <1>3, SMTT(30)
<1>. QED
  BY <1>1, <1>2, <1>3 DEF Wrap

\* A page that is not too large for the largest size is an offset that an int holds.
LEMMA SmallProducts ==
  ASSUME NEW n \in Nat, NEW k \in 1..MaxPageSize, n <= MaxInt \div MaxPageSize
  PROVE  n * k \in 0..MaxInt
<1>. DEFINE m == MaxInt \div MaxPageSize
<1>1. MaxInt \in Nat /\ MaxPageSize \in Nat \ {0} /\ k \in Nat
  BY ListingsAssumption DEF Number
<1>2. m \in Nat /\ m * MaxPageSize <= MaxInt
  BY <1>1, SMTT(30)
<1>3. n * k \in Nat /\ n * k <= n * MaxPageSize
  BY <1>1, SMTT(30)
<1>4. n * MaxPageSize \in Nat /\ n * MaxPageSize <= m * MaxPageSize
  BY <1>1, <1>2, SMTT(30)
<1>. QED
  BY <1>1, <1>2, <1>3, <1>4

-----------------------------------------------------------------------------
(* Ordered lists. *)

\* The first i rows of an ordered list.
Prefix(o, i) == {o[k] : k \in 1..i}

\* A list has every row of its set once, in the order of their times.
LEMMA OrderFacts ==
  ASSUME NEW ids, IsFiniteSet(ids), NEW o \in Orders(ids)
  PROVE  LET n == Cardinality(ids)
         IN  /\ n \in Nat /\ o \in [1..n -> ids] /\ DOMAIN o = 1..n
             /\ \A s \in ids : \E i \in 1..n : o[i] = s
             /\ \A i, j \in 1..n : i # j => o[i] # o[j]
             /\ \A i, j \in 1..n : i < j => shows[o[i]].starts <= shows[o[j]].starts
<1>. DEFINE n == Cardinality(ids)
<1>1. n \in Nat
  BY FS_CardinalityType
<1>2. /\ o \in [1..n -> ids] /\ DOMAIN o = 1..n
      /\ \A i, j \in 1..n : i < j => o[i] # o[j] /\ shows[o[i]].starts <= shows[o[j]].starts
  BY DEF Orders
<1>3. \A i, j \in 1..n : i # j => o[i] # o[j]
  BY <1>1, <1>2
<1>4. o \in Injection(1..n, ids)
  BY <1>2, <1>3 DEF Injection, IsInjective
<1>5. IsFiniteSet(1..n) /\ Cardinality(1..n) = n
  BY <1>1, FS_Interval
<1>6. o \in Surjection(1..n, ids)
  BY <1>4, <1>5, FS_Injection
<1>7. \A s \in ids : \E i \in 1..n : o[i] = s
  BY <1>6 DEF Surjection
<1>. QED
  BY <1>1, <1>2, <1>3, <1>7

\* Its first i rows are i.
LEMMA PrefixCounts ==
  ASSUME NEW ids, IsFiniteSet(ids), NEW o \in Orders(ids),
         NEW i \in 0..Cardinality(ids)
  PROVE  IsFiniteSet(Prefix(o, i)) /\ Cardinality(Prefix(o, i)) = i
<1>. DEFINE n == Cardinality(ids)
            f == [k \in 1..i |-> o[k]]
<1>1. n \in Nat /\ i \in Nat /\ 1..i \subseteq 1..n
  BY FS_CardinalityType
<1>2. \A j, k \in 1..n : j # k => o[j] # o[k]
  BY OrderFacts
<1>3. f \in Surjection(1..i, Prefix(o, i))
  BY DEF Surjection, Prefix
<1>4. f \in Injection(1..i, Prefix(o, i))
  BY <1>1, <1>2, <1>3 DEF Injection, IsInjective, Prefix
<1>5. IsFiniteSet(1..i) /\ Cardinality(1..i) = i
  BY <1>1, FS_Interval
<1>. QED
  BY <1>3, <1>4, <1>5, FS_Surjection

\* The rows of a set that start before a time, and those that start when s does.
Earlier(ids, time) == {t \in ids : shows[t].starts < time}
Ties(ids, s) == {t \in ids : shows[t].starts = shows[s].starts}

\* Times are comparable.
Timed(ids) == \A s \in ids : shows[s].starts \in Nat

\* The place of a row that ties with no other is given by the earlier ones.
LEMMA UntiedPlace ==
  ASSUME NEW ids, IsFiniteSet(ids), Timed(ids), NEW o \in Orders(ids),
         NEW i \in 1..Cardinality(ids), Ties(ids, o[i]) = {o[i]}
  PROVE  Cardinality(Earlier(ids, shows[o[i]].starts)) = i - 1
<1>. DEFINE n == Cardinality(ids)
            s == o[i]
<1>1. /\ n \in Nat /\ i \in 1..n
      /\ \A j \in 1..n : o[j] \in ids
      /\ \A t \in ids : \E j \in 1..n : o[j] = t
      /\ \A j, k \in 1..n : j # k => o[j] # o[k]
      /\ \A j, k \in 1..n : j < k => shows[o[j]].starts <= shows[o[k]].starts
  BY OrderFacts
<1>2. ASSUME NEW t \in Earlier(ids, shows[s].starts) PROVE t \in Prefix(o, i - 1)
  <2>1. PICK j \in 1..n : o[j] = t
    BY <1>1 DEF Earlier
  <2>2. ~(shows[s].starts <= shows[t].starts)
    BY <1>1, <2>1 DEF Earlier, Timed
  <2>3. j < i
    BY <1>1, <2>1, <2>2 DEF Timed
  <2>. QED
    BY <1>1, <2>1, <2>3 DEF Prefix
<1>3. ASSUME NEW t \in Prefix(o, i - 1) PROVE t \in Earlier(ids, shows[s].starts)
  <2>1. PICK j \in 1..(i - 1) : t = o[j]
    BY DEF Prefix
  <2>2. j \in 1..n /\ j < i /\ t \in ids /\ t # s /\ shows[t].starts <= shows[s].starts
    BY <1>1, <2>1
  <2>3. shows[t].starts # shows[s].starts
    BY <2>2 DEF Ties
  <2>. QED
    BY <1>1, <2>2, <2>3 DEF Earlier, Timed
<1>4. Earlier(ids, shows[s].starts) = Prefix(o, i - 1)
  BY <1>2, <1>3
<1>. QED
  BY <1>1, <1>4, PrefixCounts

\* Two lists of one set put rows of the same times at the same places, so what is
\* further down in one starts no earlier than what is further up in the other.
LEMMA PlacesAgree ==
  ASSUME NEW ids, IsFiniteSet(ids), Timed(ids), NEW o \in Orders(ids), NEW p \in Orders(ids),
         NEW i \in 1..Cardinality(ids), NEW j \in 1..Cardinality(ids), i < j
  PROVE  shows[o[i]].starts <= shows[p[j]].starts
<1>. DEFINE n == Cardinality(ids)
<1>1. /\ n \in Nat /\ i \in 1..n /\ j \in 1..n
      /\ \A k \in 1..n : o[k] \in ids /\ p[k] \in ids
      /\ \A t \in ids : \E k \in 1..n : o[k] = t
      /\ \A k, l \in 1..n : k < l => /\ shows[o[k]].starts <= shows[o[l]].starts
                                     /\ shows[p[k]].starts <= shows[p[l]].starts
  BY OrderFacts
<1>2. SUFFICES ASSUME shows[p[j]].starts < shows[o[i]].starts PROVE FALSE
  BY <1>1 DEF Timed
<1>3. ASSUME NEW t \in Prefix(p, j) PROVE t \in Prefix(o, i - 1)
  <2>1. PICK k \in 1..j : t = p[k]
    BY DEF Prefix
  <2>2. t \in ids /\ shows[t].starts <= shows[p[j]].starts
    <3>1. k \in 1..n /\ (k = j \/ k < j)
      BY <1>1
    <3>2. shows[p[j]].starts \in Nat
      BY <1>1 DEF Timed
    <3>. QED
      BY <1>1, <2>1, <3>1, <3>2
  <2>3. PICK l \in 1..n : o[l] = t
    BY <1>1, <2>2
  <2>4. l < i
    BY <1>1, <1>2, <2>2, <2>3 DEF Timed
  <2>. QED
    BY <1>1, <2>3, <2>4 DEF Prefix
<1>4. /\ IsFiniteSet(Prefix(o, i - 1)) /\ Cardinality(Prefix(o, i - 1)) = i - 1
      /\ Cardinality(Prefix(p, j)) = j
  BY <1>1, PrefixCounts
<1>5. Cardinality(Prefix(p, j)) <= Cardinality(Prefix(o, i - 1))
  BY <1>3, <1>4, FS_Subset
<1>. QED
  BY <1>1, <1>4, <1>5

\* How many rows of n LIMIT and OFFSET leave.
Left(n, offset, limit) ==
  IF offset >= n THEN 0 ELSE IF n - offset < limit THEN n - offset ELSE limit

\* And which.
LEMMA CutFacts ==
  ASSUME NEW ids, IsFiniteSet(ids), NEW o \in Orders(ids),
         NEW offset \in Nat, NEW limit \in Nat
  PROVE  LET n == Cardinality(ids)
             c == Cut(o, offset, limit)
             m == Left(n, offset, limit)
         IN  /\ n \in Nat /\ m \in Nat /\ DOMAIN c = 1..m /\ Len(c) = m
             /\ \A i \in 1..m :
                  /\ offset + i \in 1..n /\ o[offset + i] \in ids
                  /\ c[i] = [id |-> o[offset + i], row |-> shows[o[offset + i]]]
<1>. DEFINE n == Cardinality(ids)
            c == Cut(o, offset, limit)
            m == Left(n, offset, limit)
<1>1. n \in Nat /\ o \in [1..n -> ids] /\ DOMAIN o = 1..n
  BY OrderFacts
<1>2. Len(o) = n
  BY <1>1
<1>3. m \in Nat /\ \A i \in 1..m : offset + i \in 1..n /\ o[offset + i] \in ids
  BY <1>1 DEF Left
<1>4. c = [i \in 1..m |-> [id |-> o[offset + i], row |-> shows[o[offset + i]]]]
  BY <1>2 DEF Cut, Left
<1>5. Len(c) = m
  BY <1>3, <1>4
<1>. QED
  BY <1>1, <1>3, <1>4, <1>5

\* They are the rows at the places after the offset.
LEMMA CutPlaces ==
  ASSUME NEW ids, IsFiniteSet(ids), NEW o \in Orders(ids),
         NEW offset \in Nat, NEW limit \in Nat, NEW items, items = Cut(o, offset, limit)
  PROVE  \A s : s \in {items[i].id : i \in DOMAIN items} <=>
                \E i \in 1..Cardinality(ids) :
                  o[i] = s /\ offset < i /\ i <= offset + limit
<1>. DEFINE n == Cardinality(ids)
            m == Left(n, offset, limit)
<1>1. n \in Nat /\ o \in [1..n -> ids] /\ Len(o) = n
  <2>1. n \in Nat /\ o \in [1..n -> ids]
    BY OrderFacts
  <2>. QED
    BY <2>1
<1>2. /\ m \in Nat /\ \A i \in 1..m : offset + i \in 1..n
      /\ items = [i \in 1..m |-> [id |-> o[offset + i], row |-> shows[o[offset + i]]]]
  BY <1>1 DEF Cut, Left
<1>. HIDE DEF n, m
<1>3. ASSUME NEW s \in {items[i].id : i \in DOMAIN items}
      PROVE  \E i \in 1..n : o[i] = s /\ offset < i /\ i <= offset + limit
  <2>1. PICK i \in 1..m : s = items[i].id
    BY <1>1, <1>2
  <2>2. offset + i \in 1..n /\ o[offset + i] = s
    BY <1>1, <1>2, <2>1
  <2>3. offset < offset + i /\ offset + i <= offset + limit
    BY <1>1, <2>1 DEF Left, m
  <2>. QED
    BY <2>2, <2>3
<1>4. ASSUME NEW i \in 1..n, offset < i, i <= offset + limit
      PROVE  o[i] \in {items[j].id : j \in DOMAIN items}
  <2>1. i - offset \in 1..m /\ offset + (i - offset) = i
    BY <1>1, <1>4 DEF Left, m
  <2>2. items[i - offset].id = o[i] /\ i - offset \in DOMAIN items
    BY <1>1, <1>2, <2>1
  <2>. QED
    BY <2>2
<1>. QED
  BY <1>3, <1>4 DEF n

-----------------------------------------------------------------------------
(* The invariant. *)

Item     == [id : ShowId, row : Rows]
Counted  == [total : 0..Cardinality(ShowId), at : 0..MaxWrites]
Response == [items : Seq(Item), page : Number, size : Number, at : 0..MaxWrites]

\* Types, and what a request has found when it gets so far.
ListType ==
  /\ shows \in [ShowId -> Rows \cup {None}]
  /\ writes \in 0..MaxWrites
  /\ query \in [Request -> Queries \cup {None}]
  /\ count \in [Request -> Counted \cup {None}]
  /\ answer \in [Request -> Response \cup {None}]
  /\ pc \in [Request -> {"new", "select", "ok", "ErrInvalid", "error"}]
  /\ \A r \in Request :
       /\ pc[r] \in {"select", "ok"} =>
            query[r] \in Queries /\ count[r] \in Counted /\ count[r].at <= writes
       /\ pc[r] = "ok" =>
            /\ answer[r] \in Response
            /\ count[r].at <= answer[r].at /\ answer[r].at <= writes

\* A total is as far from the number of matching rows as writes have come since.
CloseAt(r) ==
  \A q \in Queries :
    pc[r] \in {"select", "ok"} /\ query[r] = q =>
      /\ Cardinality(Matching(q)) - (writes - count[r].at) <= count[r].total
      /\ count[r].total <= Cardinality(Matching(q)) + (writes - count[r].at)

\* These items are the page of q in an order of the rows as they are.
PageOf(q, items) ==
  \E o \in Orders(Matching(q)) : items = Cut(o, Offset(q), PageSize(q))

\* So are the items of an answer that is up to date.
CurrentAt(r) ==
  \A q \in Queries, items \in Seq(Item) :
    /\ pc[r] = "ok" /\ query[r] = q
    /\ answer[r].items = items /\ answer[r].at = writes
    => PageOf(q, items)

\* An answer says its page as the service does.
SaidAt(r) ==
  pc[r] = "ok" =>
    LET q == query[r]
    IN  /\ Offset(q) \in Nat
        /\ answer[r].page = IF q.by = "public" THEN Page(q) ELSE q.page
        /\ answer[r].size = IF q.by = "public" THEN PageSize(q) ELSE q.size

\* The property of totals, of one request.
FitsAt(r) ==
  pc[r] = "ok" /\ OffsetFits(query[r]) /\ SaysItsPage(query[r]) =>
    LET a == answer[r]
        said == ItemsOnPage(count[r].total, a.page, a.size)
        drift == a.at - count[r].at
    IN  said - drift <= Len(a.items) /\ Len(a.items) <= said + drift

GoodAt(r) == CloseAt(r) /\ CurrentAt(r) /\ SaidAt(r) /\ FitsAt(r)

ListInv == ListType /\ \A r \in Request : GoodAt(r)

-----------------------------------------------------------------------------
(* The rows and the page of a query. *)

\* The page and its size are numbers as they should be.
LEMMA PageFacts ==
  ASSUME NEW q \in Queries
  PROVE  /\ Page(q) \in Number /\ Page(q) \in Nat \ {0}
         /\ PageSize(q) \in 1..MaxPageSize /\ PageSize(q) \in Number /\ PageSize(q) \in Nat
         /\ Offset(q) \in Int
         /\ OffsetFits(q) => Offset(q) = (Page(q) - 1) * PageSize(q)
         /\ SaysItsPage(q) /\ q.by # "public" => q.page = Page(q) /\ q.size = PageSize(q)
<1>1. /\ q.by \in {"public", "admin"} /\ q.page \in Number /\ q.size \in Number
      /\ MaxInt \in Nat /\ MaxPageSize \in Number /\ DefaultPageSize \in 1..MaxPageSize
  BY ListingsAssumption DEF Query
<1>2. Page(q) \in Number /\ Page(q) \in Nat \ {0}
  BY <1>1 DEF Page, Number
<1>3. PageSize(q) \in 1..MaxPageSize /\ PageSize(q) \in Number /\ PageSize(q) \in Nat
  BY <1>1 DEF PageSize, Number
<1>4. (Page(q) - 1) * PageSize(q) \in Int
  BY <1>2, <1>3
<1>5. Offset(q) \in Int
  BY <1>1, <1>4, SMTT(30) DEF Offset, Wrap
<1>6. OffsetFits(q) => Offset(q) = (Page(q) - 1) * PageSize(q)
  BY WrapFits DEF OffsetFits, Offset
<1>7. SaysItsPage(q) /\ q.by # "public" => q.page = Page(q) /\ q.size = PageSize(q)
  BY <1>1 DEF SaysItsPage, Page, PageSize, Number
<1>. QED
  BY <1>2, <1>3, <1>5, <1>6, <1>7

\* The matching rows are finitely many, and they have times.
LEMMA MatchingFacts ==
  ASSUME ListType, NEW q \in Queries
  PROVE  /\ Matching(q) \subseteq ShowId /\ IsFiniteSet(Matching(q))
         /\ Cardinality(Matching(q)) \in 0..Cardinality(ShowId)
         /\ \A s \in Matching(q) : shows[s] \in Rows
         /\ Timed(Matching(q))
<1>1. Matching(q) \subseteq ShowId /\ \A s \in Matching(q) : shows[s] \in Rows
  BY DEF Matching, ListType
<1>2. IsFiniteSet(ShowId)
  BY ListingsAssumption
<1>3. /\ IsFiniteSet(Matching(q)) /\ Cardinality(Matching(q)) <= Cardinality(ShowId)
      /\ Cardinality(Matching(q)) \in Nat /\ Cardinality(ShowId) \in Nat
  BY <1>1, <1>2, FS_Subset, FS_CardinalityType
<1>4. Timed(Matching(q))
  BY <1>1, ListingsAssumption DEF Timed, Row
<1>. QED
  BY <1>1, <1>3, <1>4

\* The items of a page are rows, as many as there should be.
LEMMA PageOfFacts ==
  ASSUME ListType, NEW q \in Queries, Offset(q) \in Nat, NEW items, PageOf(q, items)
  PROVE  /\ items \in Seq(Item)
         /\ OffsetFits(q) =>
              Len(items) = ItemsOnPage(Cardinality(Matching(q)), Page(q), PageSize(q))
<1>. PICK M : M = Matching(q)
  OBVIOUS
<1>. PICK f \in Nat : f = Offset(q)
  OBVIOUS
<1>1. PICK o \in Orders(M) : items = Cut(o, f, PageSize(q))
  BY DEF PageOf
<1>2. IsFiniteSet(M) /\ M \subseteq ShowId /\ \A s \in M : shows[s] \in Rows
  BY MatchingFacts
<1>3. PageSize(q) \in Nat /\ Page(q) \in Nat \ {0}
  BY PageFacts
<1>. PICK k \in Nat : k = PageSize(q)
  BY <1>3
<1>. DEFINE n == Cardinality(M)
            m == Left(n, f, k)
<1>4. /\ n \in Nat /\ m \in Nat /\ Len(items) = m /\ DOMAIN items = 1..m
      /\ \A i \in 1..m :
           /\ o[f + i] \in M
           /\ items[i] = [id |-> o[f + i], row |-> shows[o[f + i]]]
  <2>1. LET c == Cut(o, f, k)
        IN  /\ n \in Nat /\ m \in Nat /\ DOMAIN c = 1..m /\ Len(c) = m
            /\ \A i \in 1..m :
                 /\ f + i \in 1..n /\ o[f + i] \in M
                 /\ c[i] = [id |-> o[f + i], row |-> shows[o[f + i]]]
    BY <1>2, CutFacts
  <2>. HIDE DEF n, m
  <2>. QED
    BY <1>1, <2>1
<1>5. items = [i \in 1..m |-> [id |-> o[f + i], row |-> shows[o[f + i]]]]
  <2>1. Len(o) = n
    <3>1. n \in Nat /\ o \in [1..n -> M]
      BY <1>2, OrderFacts
    <3>. QED
      BY <3>1
  <2>. QED
    BY <1>1, <2>1 DEF Cut, Left
<1>6. items \in Seq(Item)
  <2>1. \A i \in 1..m : [id |-> o[f + i], row |-> shows[o[f + i]]] \in Item
    BY <1>2, <1>4 DEF Item
  <2>. HIDE DEF m
  <2>2. items \in [1..m -> Item]
    BY <1>5, <2>1
  <2>. QED
    BY <1>4, <2>2, SeqDef
<1>7. ASSUME OffsetFits(q) PROVE Len(items) = ItemsOnPage(n, Page(q), PageSize(q))
  <2>1. Offset(q) = (Page(q) - 1) * PageSize(q)
    BY <1>7, PageFacts
  <2>2. ItemsOnPage(n, Page(q), PageSize(q)) =
          IF n - Offset(q) < 0 THEN 0
          ELSE IF n - Offset(q) > PageSize(q) THEN PageSize(q) ELSE n - Offset(q)
    BY <2>1 DEF ItemsOnPage
  <2>. QED
    BY <1>3, <1>4, <2>2 DEF Left
<1>. QED
  BY <1>6, <1>7

\* Totals that are close give numbers of items that are as close.
LEMMA ItemsClose ==
  ASSUME NEW a \in Nat, NEW b \in Nat, NEW d \in Nat, a - d <= b, b <= a + d,
         NEW page \in Nat \ {0}, NEW size \in Nat
  PROVE  /\ ItemsOnPage(b, page, size) - d <= ItemsOnPage(a, page, size)
         /\ ItemsOnPage(a, page, size) <= ItemsOnPage(b, page, size) + d
<1>. DEFINE x == (page - 1) * size
<1>1. x \in Int
  BY SMTT(30)
<1>. HIDE DEF x
<1>2. \A t \in Nat : ItemsOnPage(t, page, size) =
        IF t - x < 0 THEN 0 ELSE IF t - x > size THEN size ELSE t - x
  BY DEF ItemsOnPage, x
<1>. QED
  BY <1>1, <1>2

-----------------------------------------------------------------------------
(* The steps. *)

\* Where the table is the same, so are the pages.
LEMMA PageOfKept ==
  ASSUME UNCHANGED shows, NEW q \in Queries, NEW items, PageOf(q, items)
  PROVE  PageOf(q, items)'
<1>1. PICK o \in Orders(Matching(q)) : items = Cut(o, Offset(q), PageSize(q))
  BY DEF PageOf
<1>2. Matching(q)' = Matching(q)
  BY DEF Matching
<1>3. Orders(Matching(q))' = Orders(Matching(q))
  BY <1>2 DEF Orders
<1>4. Cut(o, Offset(q), PageSize(q))' = Cut(o, Offset(q), PageSize(q))
  BY DEF Cut, Offset, PageSize, Page
<1>. QED
  BY <1>1, <1>3, <1>4 DEF PageOf

\* A request that does nothing, while nothing is written, stays as good as it is.
LEMMA KeptGood ==
  ASSUME ListInv, NEW r \in Request, UNCHANGED <<shows, writes>>,
         query'[r] = query[r], count'[r] = count[r], answer'[r] = answer[r], pc'[r] = pc[r]
  PROVE  GoodAt(r)'
<1>0. GoodAt(r)
  BY DEF ListInv
<1>1. \A q \in Queries : Matching(q)' = Matching(q)
  BY DEF Matching
<1>2. \A q \in Queries, items \in Seq(Item) : PageOf(q, items) => PageOf(q, items)'
  BY PageOfKept
<1>3. CloseAt(r)'
  BY <1>0, <1>1 DEF GoodAt, CloseAt
<1>4. CurrentAt(r)'
  BY <1>0, <1>2 DEF GoodAt, CurrentAt
<1>5. SaidAt(r)'
  BY <1>0 DEF GoodAt, SaidAt, Offset, Page, PageSize
<1>6. FitsAt(r)'
  BY <1>0 DEF GoodAt, FitsAt, OffsetFits, SaysItsPage, Page, PageSize
<1>. QED
  BY <1>3, <1>4, <1>5, <1>6 DEF GoodAt

\* A count is exact when it is made.
LEMMA CountGood ==
  ASSUME ListInv, NEW r \in Request, Count(r)
  PROVE  ListType' /\ GoodAt(r)'
<1>. USE DEF ListInv
<1>1. PICK q \in Queries :
        /\ query' = [query EXCEPT ![r] = q]
        /\ count' = [count EXCEPT ![r] = [total |-> Cardinality(Matching(q)), at |-> writes]]
  BY DEF Count
<1>2. /\ pc' = [pc EXCEPT ![r] = "select"]
      /\ UNCHANGED <<shows, writes, answer>>
  BY DEF Count, Goto
<1>3. [total |-> Cardinality(Matching(q)), at |-> writes] \in Counted
  BY MatchingFacts DEF Counted, ListType
<1>4. /\ query'[r] = q /\ pc'[r] = "select"
      /\ count'[r] = [total |-> Cardinality(Matching(q)), at |-> writes]
  BY <1>1, <1>2 DEF ListType
<1>5. ListType'
  BY <1>1, <1>2, <1>3, <1>4 DEF ListType
<1>6. Matching(q)' = Matching(q)
  BY <1>2 DEF Matching
<1>7. CloseAt(r)'
  <2>1. Cardinality(Matching(q)) \in Nat /\ writes \in Nat
    BY MatchingFacts DEF ListType
  <2>. QED
    BY <1>2, <1>4, <1>6, <2>1 DEF CloseAt
<1>. QED
  BY <1>4, <1>5, <1>7 DEF GoodAt, CurrentAt, SaidAt, FitsAt

\* A page is up to date when it is selected, and fits the count.
LEMMA SelectGood ==
  ASSUME ListInv, NEW r \in Request, SelectPage(r)
  PROVE  ListType' /\ GoodAt(r)'
<1>. USE DEF ListInv
<1>0. pc[r] = "select" /\ query[r] \in Queries
  BY DEF SelectPage, ListType
<1>. PICK q \in Queries : query[r] = q
  BY <1>0
<1>. DEFINE page == IF q.by = "public" THEN Page(q) ELSE q.page
            size == IF q.by = "public" THEN PageSize(q) ELSE q.size
<1>1. /\ pc[r] = "select" /\ Offset(q) >= 0
      /\ pc' = [pc EXCEPT ![r] = "ok"] /\ UNCHANGED <<shows, writes, query, count>>
  BY DEF SelectPage, Goto
<1>2. PICK o \in Orders(Matching(q)) :
        answer' = [answer EXCEPT ![r] = [items |-> Cut(o, Offset(q), PageSize(q)),
                                         at |-> writes, page |-> page, size |-> size]]
  BY DEF SelectPage
<1>items. PICK items : items = Cut(o, Offset(q), PageSize(q))
  OBVIOUS
<1>3. count[r] \in Counted /\ count[r].at <= writes
  BY <1>1 DEF ListType
<1>4. Offset(q) \in Nat
  BY <1>1, PageFacts
<1>5. PageOf(q, items)
  BY <1>items DEF PageOf
<1>6. /\ items \in Seq(Item)
      /\ OffsetFits(q) =>
           Len(items) = ItemsOnPage(Cardinality(Matching(q)), Page(q), PageSize(q))
  BY <1>4, <1>5, PageOfFacts
<1>7. page \in Number /\ size \in Number
  BY PageFacts, ListingsAssumption DEF Query
<1>8. /\ answer'[r] = [items |-> items, at |-> writes, page |-> page, size |-> size]
      /\ query'[r] = q /\ query[r] = q /\ count'[r] = count[r] /\ pc'[r] = "ok"
  BY <1>1, <1>2, <1>items DEF ListType
<1>9. answer'[r] \in Response
  BY <1>6, <1>7, <1>8 DEF Response, ListType
<1>10. ListType'
  <2>1. answer' = [answer EXCEPT ![r] = answer'[r]]
    BY <1>2 DEF ListType
  <2>. QED
    BY <1>1, <1>3, <1>8, <1>9, <2>1 DEF ListType
<1>11. CloseAt(r)'
  <2>1. \A x \in Queries : Matching(x)' = Matching(x)
    BY <1>1 DEF Matching
  <2>2. CloseAt(r)
    BY DEF GoodAt
  <2>. QED
    BY <1>1, <1>8, <2>1, <2>2 DEF CloseAt
<1>12. CurrentAt(r)'
  <2>1. PageOf(q, items)'
    BY <1>1, <1>3, <1>5, PageOfKept
  <2>. QED
    BY <1>3, <1>5, <1>8, <2>1 DEF CurrentAt
<1>13. SaidAt(r)'
  BY <1>4, <1>8 DEF SaidAt, Offset, Page, PageSize
<1>14. FitsAt(r)'
  <2>1. SUFFICES ASSUME OffsetFits(q), SaysItsPage(q)
        PROVE  LET said == ItemsOnPage(count[r].total, page, size)
                   drift == writes - count[r].at
               IN  said - drift <= Len(items) /\ Len(items) <= said + drift
    BY <1>1, <1>8 DEF FitsAt, OffsetFits, SaysItsPage, Page, PageSize
  <2>2. page = Page(q) /\ size = PageSize(q)
    BY <1>3, <2>1, PageFacts
  <2>3. /\ Cardinality(Matching(q)) \in Nat /\ count[r].total \in Nat
        /\ writes - count[r].at \in Nat
    <3>1. /\ count[r].total \in 0..Cardinality(ShowId) /\ count[r].at \in 0..MaxWrites
          /\ writes \in 0..MaxWrites
      BY <1>3 DEF Counted, ListType
    <3>2. Cardinality(ShowId) \in Nat
      BY FS_CardinalityType, ListingsAssumption
    <3>. QED
      BY <1>3, <3>1, <3>2, MatchingFacts, ListingsAssumption
  <2>4. /\ Cardinality(Matching(q)) - (writes - count[r].at) <= count[r].total
        /\ count[r].total <= Cardinality(Matching(q)) + (writes - count[r].at)
    BY <1>1, <1>3 DEF GoodAt, CloseAt
  <2>5. Page(q) \in Nat \ {0} /\ PageSize(q) \in Nat
    BY <1>3, PageFacts
  <2>. QED
    <3>. DEFINE all == Cardinality(Matching(q))
                total == count[r].total
                drift == writes - count[r].at
    <3>1. /\ all \in Nat /\ total \in Nat /\ drift \in Nat
          /\ all - drift <= total /\ total <= all + drift
      BY <2>3, <2>4
    <3>. HIDE DEF all, total, drift
    <3>2. /\ ItemsOnPage(total, Page(q), PageSize(q)) - drift <= ItemsOnPage(all, Page(q), PageSize(q))
          /\ ItemsOnPage(all, Page(q), PageSize(q)) <= ItemsOnPage(total, Page(q), PageSize(q)) + drift
      BY <2>5, <3>1, ItemsClose
    <3>3. Len(items) = ItemsOnPage(all, Page(q), PageSize(q))
      BY <1>6, <2>1 DEF all
    <3>. QED
      BY <2>2, <3>2, <3>3 DEF total, drift
<1>. QED
  BY <1>10, <1>11, <1>12, <1>13, <1>14 DEF GoodAt

\* A write moves one row.
LEMMA WriteGood ==
  ASSUME ListInv, NEW s \in ShowId, Write(s)
  PROVE  ListInv'
<1>. USE DEF ListInv
<1>1. PICK row \in Rows \cup {None} : shows' = [shows EXCEPT ![s] = row]
  BY DEF Write
<1>2. /\ writes < MaxWrites /\ writes' = writes + 1 /\ UNCHANGED <<query, count, answer, pc>>
  BY DEF Write
<1>3. MaxWrites \in Nat
  BY ListingsAssumption
<1>4. ListType'
  <2>1. writes \in Nat /\ writes' \in 0..MaxWrites
    BY <1>2, <1>3 DEF ListType
  <2>2. shows' \in [ShowId -> Rows \cup {None}]
    BY <1>1 DEF ListType
  <2>3. ASSUME NEW r \in Request
        PROVE  /\ pc[r] \in {"select", "ok"} => count[r].at <= writes'
               /\ pc[r] = "ok" => answer[r].at <= writes'
    BY <1>2, <1>3, <2>1 DEF ListType, Counted, Response
  <2>. QED
    BY <1>2, <2>1, <2>2, <2>3 DEF ListType
<1>5. ASSUME NEW q \in Queries
      PROVE  /\ Cardinality(Matching(q)) \in Nat /\ Cardinality(Matching(q))' \in Nat
             /\ Cardinality(Matching(q)) - 1 <= Cardinality(Matching(q))'
             /\ Cardinality(Matching(q))' <= Cardinality(Matching(q)) + 1
  <2>1. IsFiniteSet(Matching(q)) /\ Cardinality(Matching(q)) \in Nat
    BY MatchingFacts
  <2>2. IsFiniteSet(Matching(q)') /\ Cardinality(Matching(q)') \in Nat
    <3>1. Matching(q)' \subseteq ShowId
      BY DEF Matching
    <3>. QED
      BY <3>1, ListingsAssumption, FS_Subset, FS_CardinalityType
  <2>3. Matching(q)' \ {s} = Matching(q) \ {s}
    <3>1. \A t \in ShowId \ {s} : shows'[t] = shows[t]
      BY <1>1 DEF ListType
    <3>. QED
      BY <3>1 DEF Matching
  <2>4. /\ Cardinality(Matching(q) \ {s}) \in {Cardinality(Matching(q)), Cardinality(Matching(q)) - 1}
        /\ Cardinality(Matching(q)' \ {s}) \in {Cardinality(Matching(q)'), Cardinality(Matching(q)') - 1}
    BY <2>1, <2>2, FS_RemoveElement
  <2>. QED
    BY <2>1, <2>2, <2>3, <2>4
<1>6. ASSUME NEW r \in Request PROVE GoodAt(r)'
  <2>0. GoodAt(r)
    OBVIOUS
  <2>1. CloseAt(r)'
    <3>. SUFFICES ASSUME NEW q \in Queries, pc[r] \in {"select", "ok"}, query[r] = q
                  PROVE  /\ Cardinality(Matching(q))' - (writes' - count[r].at) <= count[r].total
                         /\ count[r].total <= Cardinality(Matching(q))' + (writes' - count[r].at)
      BY <1>2 DEF CloseAt
    <3>1. count[r].total \in Int /\ count[r].at \in Int /\ writes \in Int
      BY <1>3 DEF ListType, Counted
    <3>2. /\ Cardinality(Matching(q)) - (writes - count[r].at) <= count[r].total
          /\ count[r].total <= Cardinality(Matching(q)) + (writes - count[r].at)
      BY <2>0 DEF GoodAt, CloseAt
    <3>. QED
      BY <1>2, <1>5, <3>1, <3>2
  <2>2. CurrentAt(r)'
    <3>1. pc[r] = "ok" => answer[r].at # writes'
      BY <1>2, <1>3 DEF ListType, Response
    <3>. QED
      BY <1>2, <3>1 DEF CurrentAt
  <2>3. SaidAt(r)'
    BY <1>2, <2>0 DEF GoodAt, SaidAt, Offset, Page, PageSize
  <2>4. FitsAt(r)'
    BY <1>2, <2>0 DEF GoodAt, FitsAt, OffsetFits, SaysItsPage, Page, PageSize
  <2>. QED
    BY <2>1, <2>2, <2>3, <2>4 DEF GoodAt
<1>. QED
  BY <1>4, <1>6

LEMMA InitGood ==
  ASSUME Init
  PROVE  ListInv
<1>1. MaxWrites \in Nat /\ 0 \in 0..MaxWrites
  BY ListingsAssumption
<1>2. ListType
  BY <1>1 DEF Init, ListType
<1>3. ASSUME NEW r \in Request PROVE GoodAt(r)
  BY DEF Init, GoodAt, CloseAt, CurrentAt, SaidAt, FitsAt
<1>. QED
  BY <1>2, <1>3 DEF ListInv

LEMMA NextGood ==
  ASSUME ListInv, [Next]_vars
  PROVE  ListInv'
<1>1. ASSUME NEW r \in Request, Refuse(r) \/ Fail(r) PROVE ListInv'
  <2>1. /\ UNCHANGED <<shows, writes, query, count, answer>>
        /\ pc' \in [Request -> {"new", "select", "ok", "ErrInvalid", "error"}]
        /\ pc'[r] \in {"ErrInvalid", "error"}
        /\ \A x \in Request \ {r} : pc'[x] = pc[x]
    BY <1>1 DEF Refuse, Fail, Goto, ListInv, ListType
  <2>2. ListType'
    BY <2>1 DEF ListInv, ListType
  <2>3. ASSUME NEW x \in Request PROVE GoodAt(x)'
    <3>1. CASE x = r
      BY <2>1, <3>1 DEF GoodAt, CloseAt, CurrentAt, SaidAt, FitsAt
    <3>2. CASE x # r
      BY <2>1, <3>2, KeptGood
    <3>. QED
      BY <3>1, <3>2
  <2>. QED
    BY <2>2, <2>3 DEF ListInv
<1>2. ASSUME NEW r \in Request, Count(r) PROVE ListInv'
  <2>1. ListType' /\ GoodAt(r)'
    BY <1>2, CountGood
  <2>2. ASSUME NEW x \in Request \ {r} PROVE GoodAt(x)'
    BY <1>2, KeptGood DEF Count, Goto, ListInv, ListType
  <2>. QED
    BY <2>1, <2>2 DEF ListInv
<1>3. ASSUME NEW r \in Request, SelectPage(r) PROVE ListInv'
  <2>1. ListType' /\ GoodAt(r)'
    BY <1>3, SelectGood
  <2>2. ASSUME NEW x \in Request \ {r} PROVE GoodAt(x)'
    <3>1. /\ UNCHANGED <<shows, writes, query, count>> /\ pc'[x] = pc[x]
          /\ answer'[x] = answer[x]
      BY <1>3 DEF SelectPage, Goto, ListInv, ListType
    <3>. QED
      BY <3>1, KeptGood
  <2>. QED
    BY <2>1, <2>2 DEF ListInv
<1>4. ASSUME NEW s \in ShowId, Write(s) PROVE ListInv'
  BY <1>4, WriteGood
<1>5. ASSUME UNCHANGED vars PROVE ListInv'
  <2>1. ListType'
    BY <1>5 DEF vars, ListInv, ListType
  <2>2. ASSUME NEW x \in Request PROVE GoodAt(x)'
    BY <1>5, KeptGood DEF vars
  <2>. QED
    BY <2>1, <2>2 DEF ListInv
<1>. QED
  BY <1>1, <1>2, <1>3, <1>4, <1>5 DEF Next

LEMMA Invariance == Spec => []ListInv
<1>1. Init => ListInv
  BY InitGood
<1>2. ListInv /\ [Next]_vars => ListInv'
  BY NextGood
<1>. QED
  BY <1>1, <1>2, PTL DEF Spec

-----------------------------------------------------------------------------
(* The theorems. *)

\* The columns, the locals of the two statements and the responses are what they
\* should be, and a page is never selected before its count.
THEOREM ListingsTypeCorrect == Spec => []TypeOK
<1>1. ListInv => TypeOK
  <2>. SUFFICES ASSUME ListInv PROVE TypeOK
    OBVIOUS
  <2>1. ListType
    BY DEF ListInv
  <2>2. None \notin Queries
    BY ListingsAssumption
  <2>3. ASSUME NEW r \in Request, pc[r] \in {"select", "ok"}
        PROVE  /\ query[r] # None
               /\ count[r].total \in 0..Cardinality(ShowId) /\ count[r].at \in 0..writes
    BY <2>1, <2>2, <2>3, ListingsAssumption DEF ListType, Counted
  <2>4. ASSUME NEW r \in Request, pc[r] = "ok"
        PROVE  /\ answer[r].items \in Seq([id : ShowId, row : Rows])
               /\ answer[r].page \in Number /\ answer[r].size \in Number
               /\ answer[r].at \in count[r].at..writes
    <3>1. /\ answer[r] \in Response /\ count[r] \in Counted /\ writes \in 0..MaxWrites
          /\ count[r].at <= answer[r].at /\ answer[r].at <= writes
      BY <2>1, <2>4 DEF ListType
    <3>2. answer[r].items \in Seq([id : ShowId, row : Rows])
      BY <3>1 DEF Response, Item
    <3>3. answer[r].page \in Number /\ answer[r].size \in Number
      BY <3>1 DEF Response
    <3>4. answer[r].at \in 0..MaxWrites /\ count[r].at \in 0..MaxWrites
      BY <3>1 DEF Response, Counted
    <3>. QED
      BY <3>1, <3>2, <3>3, <3>4, ListingsAssumption
  <2>. QED
    BY <2>1, <2>3, <2>4 DEF ListType, TypeOK
<1>. QED
  BY <1>1, Invariance, PTL

\* A total is wrong by no more than the writes between COUNT and SELECT.
THEOREM TotalsFit == Spec => []TotalFitsItems
<1>1. ListInv => TotalFitsItems
  BY DEF ListInv, GoodAt, FitsAt, TotalFitsItems
<1>. QED
  BY <1>1, Invariance, PTL

\* What an answer lists that is up to date and whose offset fits: the rows at the
\* places of its page in an order of the matching rows.
LEMMA FreshFacts ==
  ASSUME ListInv, NEW r \in Request, Fresh(r)
  PROVE  /\ query[r] \in Queries
         /\ \E o \in Orders(Matching(query[r])) :
              \A s : s \in Listed(r) <=>
                \E i \in 1..Cardinality(Matching(query[r])) :
                  /\ o[i] = s
                  /\ (Page(query[r]) - 1) * PageSize(query[r]) < i
                  /\ i <= (Page(query[r]) - 1) * PageSize(query[r]) + PageSize(query[r])
<1>1. /\ pc[r] = "ok" /\ query[r] \in Queries /\ answer[r].at = writes
      /\ answer[r].items \in Seq(Item) /\ OffsetFits(query[r]) /\ Offset(query[r]) \in Nat
  BY DEF Fresh, ListInv, ListType, Response, GoodAt, SaidAt
<1>. PICK q \in Queries : query[r] = q
  BY <1>1
<1>. PICK M : M = Matching(q)
  OBVIOUS
<1>. PICK f \in Nat : f = Offset(q)
  BY <1>1
<1>2. PICK o \in Orders(M) : answer[r].items = Cut(o, f, PageSize(q))
  <2>1. CurrentAt(r)
    BY DEF ListInv, GoodAt
  <2>2. PageOf(q, answer[r].items)
    BY <1>1, <2>1 DEF CurrentAt
  <2>. QED
    BY <2>2 DEF PageOf
<1>3. PageSize(q) \in Nat /\ f = (Page(q) - 1) * PageSize(q)
  BY <1>1, PageFacts
<1>4. IsFiniteSet(M)
  BY MatchingFacts DEF ListInv
<1>. PICK items : items = answer[r].items
  OBVIOUS
<1>. PICK k \in Nat : k = PageSize(q)
  BY <1>3
<1>5. \A s : s \in {items[i].id : i \in DOMAIN items} <=>
               \E i \in 1..Cardinality(M) : o[i] = s /\ f < i /\ i <= f + k
  <2>1. items = Cut(o, f, k)
    BY <1>2
  <2>. QED
    BY <1>4, <2>1, CutPlaces
<1>. QED
  BY <1>3, <1>5 DEF Listed

\* A show that starts at a time of its own is on its page, and on no other.
THEOREM UntiedAreOnTheirPage == Spec => []UntiedOnItsPage
<1>1. ListInv => UntiedOnItsPage
  <2>. SUFFICES ASSUME ListInv, NEW r \in Request, Fresh(r),
                       NEW s \in Matching(query[r]), Ties(Matching(query[r]), s) = {s}
                PROVE  LET q == query[r]
                           first == (Page(q) - 1) * PageSize(q)
                       IN  s \in Listed(r) <=>
                             Cardinality(Earlier(Matching(q), shows[s].starts))
                               \in first..first + PageSize(q) - 1
    BY DEF UntiedOnItsPage, Ties, Earlier
  <2>1. query[r] \in Queries
    BY FreshFacts
  <2>. PICK q \in Queries : query[r] = q
    BY <2>1
  <2>. PICK M : M = Matching(q)
    OBVIOUS
  <2>. DEFINE n == Cardinality(M)
              k == PageSize(q)
              f == (Page(q) - 1) * PageSize(q)
  <2>2. PICK o \in Orders(M) :
          \A t : t \in Listed(r) <=> \E i \in 1..n : o[i] = t /\ f < i /\ i <= f + k
    BY FreshFacts
  <2>3. IsFiniteSet(M) /\ Timed(M)
    BY MatchingFacts DEF ListInv
  <2>4. n \in Nat /\ \A i, j \in 1..n : i # j => o[i] # o[j]
    BY <2>3, OrderFacts
  <2>5. PICK i \in 1..n : o[i] = s
    BY <2>3, OrderFacts
  <2>6. Cardinality(Earlier(M, shows[s].starts)) = i - 1
    BY <2>3, <2>5, UntiedPlace
  <2>7. k \in Nat /\ f \in Int
    BY PageFacts
  <2>. HIDE DEF n, k, f
  <2>8. s \in Listed(r) <=> f < i /\ i <= f + k
    BY <2>2, <2>4, <2>5
  <2>9. i - 1 \in f..f + k - 1 <=> f < i /\ i <= f + k
    BY <2>4, <2>7
  <2>. QED
    BY <2>6, <2>8, <2>9 DEF n, k, f
<1>. QED
  BY <1>1, Invariance, PTL

\* Pages of one list have the same rows to choose from, and pages of one size.
LEMMA SameListFacts ==
  ASSUME NEW p \in Queries, NEW q \in Queries, SameList(p, q)
  PROVE  PageSize(p) = PageSize(q) /\ Matching(p) = Matching(q)
<1>1. p \in Query /\ q \in Query
  BY ListingsAssumption
<1>2. /\ p.by = q.by /\ p.status = q.status /\ p.terms = q.terms
      /\ p.from = q.from /\ p.to = q.to
  BY <1>1 DEF SameList, Query
<1>3. Statuses(p) = Statuses(q) /\ DateTo(p) = DateTo(q)
  BY <1>2 DEF Statuses, DateTo
<1>. QED
  BY <1>2, <1>3 DEF SameList, Matching

\* Two pages of one list follow each other, and share no show but a tied one.
THEOREM PagesFollowEachOther == Spec => []PagesFollow
<1>1. ListInv => PagesFollow
  <2>. SUFFICES ASSUME ListInv, NEW r1 \in Request, NEW r2 \in Request,
                       Fresh(r1), Fresh(r2), SameList(query[r1], query[r2]),
                       Page(query[r1]) < Page(query[r2]),
                       NEW s \in Listed(r1), NEW t \in Listed(r2)
                PROVE  /\ shows[s].starts <= shows[t].starts
                       /\ s = t => \E u \in Matching(query[r1]) :
                                     u # s /\ shows[u].starts = shows[s].starts
    BY DEF PagesFollow
  <2>1. query[r1] \in Queries /\ query[r2] \in Queries
    BY FreshFacts
  <2>. PICK q1 \in Queries : query[r1] = q1
    BY <2>1
  <2>. PICK q2 \in Queries : query[r2] = q2
    BY <2>1
  <2>2. PageSize(q1) = PageSize(q2) /\ Matching(q1) = Matching(q2)
    BY SameListFacts
  <2>. PICK M : M = Matching(q1)
    OBVIOUS
  <2>. DEFINE n == Cardinality(M)
              k == PageSize(q1)
              f == (Page(q1) - 1) * k
              g == (Page(q2) - 1) * k
  <2>3. PICK o \in Orders(M) :
          \A x : x \in Listed(r1) <=> \E i \in 1..n : o[i] = x /\ f < i /\ i <= f + k
    BY FreshFacts
  <2>4. PICK p \in Orders(M) :
          \A x : x \in Listed(r2) <=> \E i \in 1..n : p[i] = x /\ g < i /\ i <= g + k
    BY <2>2, FreshFacts
  <2>5. IsFiniteSet(M) /\ Timed(M) /\ n \in Nat
    BY MatchingFacts, FS_CardinalityType DEF ListInv
  <2>6. /\ k \in Nat /\ Page(q1) \in Nat /\ Page(q2) \in Nat
    BY PageFacts
  <2>7. f \in Int /\ g \in Int /\ f + k <= g
    BY <2>6, PagesApart
  <2>8. PICK i \in 1..n : o[i] = s /\ f < i /\ i <= f + k
    BY <2>3
  <2>9. PICK j \in 1..n : p[j] = t /\ g < j /\ j <= g + k
    BY <2>4
  <2>10. i < j
    <3>. HIDE DEF n, f, g, k
    <3>. QED
      BY <2>5, <2>6, <2>7, <2>8, <2>9
  <2>11. shows[o[i]].starts <= shows[p[j]].starts
    BY <2>5, <2>10, PlacesAgree
  <2>12. ASSUME s = t, Ties(M, s) = {s} PROVE FALSE
    <3>1. Cardinality(Earlier(M, shows[s].starts)) = i - 1
      BY <2>5, <2>8, <2>12, UntiedPlace
    <3>2. Cardinality(Earlier(M, shows[s].starts)) = j - 1
      BY <2>5, <2>9, <2>12, UntiedPlace
    <3>. QED
      BY <2>5, <2>10, <3>1, <3>2
  <2>13. s \in M
    BY <2>5, <2>8, OrderFacts
  <2>14. s = t => \E u \in M : u # s /\ shows[u].starts = shows[s].starts
    BY <2>12, <2>13 DEF Ties
  <2>. QED
    BY <2>8, <2>9, <2>11, <2>14
<1>. QED
  BY <1>1, Invariance, PTL

\* The public sees published shows, those of whole days, and is told their number.
THEOREM PublicPeriods == Spec => []PublicSeesWholeDays
<1>1. ListInv => PublicSeesWholeDays
  <2>. SUFFICES ASSUME ListInv, NEW r \in Request, Fresh(r), query[r].by = "public"
                PROVE  /\ Listed(r) \subseteq OnDays(query[r])
                       /\ count[r].at = writes =>
                            count[r].total = Cardinality(OnDays(query[r]))
    BY DEF PublicSeesWholeDays
  <2>1. query[r] \in Queries
    BY FreshFacts
  <2>. PICK q \in Queries : query[r] = q
    BY <2>1
  <2>2. IsFiniteSet(Matching(q)) /\ Cardinality(Matching(q)) \in Nat
    BY MatchingFacts, FS_CardinalityType DEF ListInv
  <2>3. Matching(q) = OnDays(q)
    <3>1. q.from \in Nat \cup {None} /\ q.to \in Nat \cup {None} /\ None \notin Nat
      BY ListingsAssumption DEF Query
    <3>2. ASSUME NEW s \in ShowId, shows[s] # None PROVE s \in Matching(q) <=> s \in OnDays(q)
      <4>1. shows[s].starts \in Nat
        BY <3>2, ListingsAssumption DEF ListInv, ListType, Row
      <4>2. q.from # None =>
              (shows[s].starts >= q.from * TicksPerDay <=> q.from <= shows[s].starts \div TicksPerDay)
        BY <3>1, <4>1, Days
      <4>3. q.to # None =>
              (shows[s].starts < (q.to + 1) * TicksPerDay <=> shows[s].starts \div TicksPerDay <= q.to)
        BY <3>1, <4>1, Days
      <4>. QED
        BY <3>2, <4>2, <4>3 DEF Matching, OnDays, Statuses, DateTo
    <3>. QED
      BY <3>2 DEF Matching, OnDays
  <2>4. Listed(r) \subseteq Matching(q)
    <3>1. PICK o \in Orders(Matching(q)) :
            \A s \in Listed(r) : \E i \in 1..Cardinality(Matching(q)) : o[i] = s
      BY FreshFacts
    <3>2. \A i \in 1..Cardinality(Matching(q)) : o[i] \in Matching(q)
      BY <2>2, OrderFacts
    <3>. QED
      BY <3>1, <3>2
  <2>5. ASSUME count[r].at = writes PROVE count[r].total = Cardinality(Matching(q))
    <3>1. pc[r] = "ok" /\ count[r] \in Counted /\ writes \in 0..MaxWrites
      BY DEF Fresh, ListInv, ListType
    <3>2. count[r].total \in 0..Cardinality(ShowId) /\ Cardinality(ShowId) \in Nat
      BY <3>1, ListingsAssumption, FS_CardinalityType DEF Counted
    <3>3. /\ Cardinality(Matching(q)) - (writes - count[r].at) <= count[r].total
          /\ count[r].total <= Cardinality(Matching(q)) + (writes - count[r].at)
      BY <3>1 DEF ListInv, GoodAt, CloseAt
    <3>. QED
      BY <2>2, <2>5, <3>1, <3>2, <3>3, ListingsAssumption
  <2>. QED
    BY <2>3, <2>4, <2>5
<1>. QED
  BY <1>1, Invariance, PTL

\* ShowService.List, pgAdminRepo.ListShows: (page - 1) * page_size overflows for huge
\* pages only.  Up to page MaxInt \div MaxPageSize + 1, whatever the size, OFFSET is
\* the number the client means, so the database neither refuses it nor is asked for
\* another page; beyond it, no theorem above says anything.
THEOREM OffsetsFit ==
  ASSUME NEW q \in Queries, Page(q) <= MaxInt \div MaxPageSize + 1
  PROVE  OffsetFits(q) /\ Offset(q) = (Page(q) - 1) * PageSize(q) /\ Offset(q) >= 0
<1>. DEFINE n == Page(q) - 1
<1>1. MaxInt \in Nat /\ MaxPageSize \in Nat \ {0}
  BY ListingsAssumption DEF Number
<1>2. n \in Nat /\ n <= MaxInt \div MaxPageSize /\ PageSize(q) \in 1..MaxPageSize
  BY <1>1, PageFacts
<1>3. n * PageSize(q) \in 0..MaxInt
  BY <1>2, SmallProducts
<1>4. OffsetFits(q)
  BY <1>1, <1>3 DEF OffsetFits, Number
<1>. QED
  BY <1>3, <1>4, PageFacts
=============================================================================
