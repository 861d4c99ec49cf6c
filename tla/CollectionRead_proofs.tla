----------------------- MODULE CollectionRead_proofs -----------------------
(***************************************************************************)
(* Proofs about CollectionRead for tables and pages of every size, every   *)
(* set of first requests and any number of writes: a walk over the pages   *)
(* of an entity set is exact.  WalkInv is inductive.                       *)
(***************************************************************************)
EXTENDS CollectionRead, FiniteSetTheorems, SequenceTheorems,
        WellFoundedInduction, TLAPS

-----------------------------------------------------------------------------
(* Orders.                                                                 *)

\* A nonempty set of natural numbers has a least element.
LEMMA LeastNumber ==
  ASSUME NEW T \in SUBSET Nat, T # {}
  PROVE  \E i \in T : \A h \in T : i <= h
<1>1. \E i \in T : \A h \in T : ~(<<h, i>> \in OpToRel(<, Nat))
  BY NatLessThanWellFounded, WFMin
<1>2. PICK i \in T : \A h \in T : ~(<<h, i>> \in OpToRel(<, Nat))
  BY <1>1
<1>3. ASSUME NEW h \in T, h < i PROVE FALSE
  <2>1. <<h, i>> \in OpToRel(<, Nat)
    BY <1>3 DEF OpToRel
  <2> QED BY <1>2, <2>1
<1>4. \A h \in T : ~(h < i)
  BY <1>3
<1>5. i \in T /\ T \subseteq Nat
  OBVIOUS
<1> HIDE <1>2
<1> QED BY <1>4, <1>5

\* Keys of one table are ordered by their first different column.
LEMMA LexTotal ==
  ASSUME NEW j \in Seq(Nat), NEW k \in Seq(Nat), Len(j) = Len(k), j # k
  PROVE  LexLess(j, k) \/ LexLess(k, j)
<1> DEFINE T == {i \in 1..Len(j) : j[i] # k[i]}
<1>1. T # {}
  BY SeqEqual
<1>2. PICK i \in T : \A h \in T : i <= h
  <2>1. T \in SUBSET Nat
    OBVIOUS
  <2> HIDE DEF T
  <2> QED BY <1>1, <2>1, LeastNumber
<1>3. \A h \in 1..(i - 1) : h \in 1..Len(j) /\ h \notin T
  BY <1>2
<1>4. i \in DOMAIN j /\ i \in DOMAIN k /\ j[i] \in Nat /\ k[i] \in Nat /\ j[i] # k[i]
  BY <1>2
<1>5. CASE j[i] < k[i]
  <2>1. \A h \in 1..(i - 1) : j[h] = k[h]
    BY <1>3
  <2> QED BY <1>4, <1>5, <2>1 DEF LexLess
<1>6. CASE k[i] < j[i]
  <2>1. \A h \in 1..(i - 1) : k[h] = j[h]
    BY <1>3
  <2> QED BY <1>4, <1>6, <2>1 DEF LexLess
<1> QED BY <1>4, <1>5, <1>6

\* No key is before another one that is before it.
LEMMA LexAsymmetric ==
  ASSUME NEW j \in Seq(Nat), NEW k \in Seq(Nat), LexLess(j, k), LexLess(k, j)
  PROVE  FALSE
<1>1. PICK i \in DOMAIN j : j[i] < k[i] /\ \A h \in 1..(i - 1) : j[h] = k[h]
  BY DEF LexLess
<1>2. PICK g \in DOMAIN k : k[g] < j[g] /\ \A h \in 1..(g - 1) : k[h] = j[h]
  BY DEF LexLess
<1>3. i \in Nat \ {0} /\ g \in Nat \ {0}
  OBVIOUS
<1>4. CASE i < g
  <2>1. i \in 1..(g - 1)
    BY <1>3, <1>4
  <2>2. i \in DOMAIN k \/ i \notin DOMAIN k
    OBVIOUS
  <2>3. g \in 1..Len(k) /\ i \in 1..Len(k) /\ k[i] \in Nat /\ j[i] \in Nat
    BY <1>3, <1>4
  <2> QED BY <1>1, <1>2, <2>1, <2>3
<1>5. CASE g < i
  <2>1. g \in 1..(i - 1)
    BY <1>3, <1>5
  <2>2. g \in 1..Len(j) /\ k[g] \in Nat /\ j[g] \in Nat
    BY <1>3, <1>5
  <2> QED BY <1>1, <1>2, <2>1, <2>2
<1>6. CASE i = g
  <2>1. j[i] \in Nat /\ k[i] \in Nat
    BY <1>6
  <2> QED BY <1>1, <1>2, <1>6, <2>1
<1> QED BY <1>3, <1>4, <1>5, <1>6

\* What the database has to go by: the key, or values that differ.
Orderly(order) == order \in Orders /\ (order # "none" => Distinct(rows))

\* The keys of the table in hand.
LEMMA KeysOfTable ==
  ASSUME TypeOK
  PROVE  /\ IsFiniteSet(keys)
         /\ \A k \in keys : k \in Seq(Nat) /\ k # <<>> /\ k[1] \in Nat
         /\ \A j, k \in keys : Len(j) = Len(k)
         /\ DOMAIN rows \subseteq keys
         /\ \A k \in DOMAIN rows : rows[k] \in Column
         /\ Column \subseteq Int
BY CollectionReadAssumption DEF TypeOK, Column, Null

\* An order leaves no choice between two rows.
LEMMA TotalOrder ==
  ASSUME TypeOK, NEW order, Orderly(order), NEW j \in DOMAIN rows, NEW k \in DOMAIN rows
  PROVE  /\ j # k => Before(j, k, order) \/ Before(k, j, order)
         /\ ~(Before(j, k, order) /\ Before(k, j, order))
<1>1. /\ j \in Seq(Nat) /\ k \in Seq(Nat) /\ Len(j) = Len(k)
      /\ rows[j] \in Int /\ rows[k] \in Int
  BY KeysOfTable
<1>2. CASE order = "none"
  BY <1>1, <1>2, LexTotal, LexAsymmetric DEF Before
<1>3. CASE order = "asc" \/ order = "desc"
  <2>1. j # k => rows[j] # rows[k]
    BY <1>3 DEF Orderly, Distinct
  <2>2. /\ Before(j, k, order) <=> IF order = "asc" THEN rows[j] < rows[k] ELSE rows[k] < rows[j]
        /\ Before(k, j, order) <=> IF order = "asc" THEN rows[k] < rows[j] ELSE rows[j] < rows[k]
    BY <1>3 DEF Before
  <2> QED BY <1>1, <2>1, <2>2
<1> QED BY <1>2, <1>3 DEF Orderly, Orders

\* s holds every row of S at one position.
Enumerates(s, S) ==
  /\ IsFiniteSet(S) /\ s \in Seq(S) /\ Len(s) = Cardinality(S)
  /\ \A k \in S : \E i \in 1..Len(s) : s[i] = k
  /\ \A i, j \in 1..Len(s) : s[i] = s[j] => i = j

\* And in order.
Lists(s, S, order) ==
  /\ Enumerates(s, S)
  /\ \A i, j \in 1..Len(s) : i < j => Before(s[i], s[j], order)
                                     /\ ~Before(s[j], s[i], order)

\* What the database returns for the rows S enumerates them.
LEMMA OrderingEnumerates ==
  ASSUME TypeOK, NEW S \in SUBSET DOMAIN rows, NEW order, NEW s \in Orderings(S, order)
  PROVE  Enumerates(s, S)
<1>1. IsFiniteSet(S) /\ Cardinality(S) \in Nat
  BY KeysOfTable, FS_Subset, FS_CardinalityType
<1> DEFINE n == Cardinality(S)
<1>2. s \in [1..n -> S]
  BY DEF Orderings
<1>3. s \in Seq(S) /\ Len(s) = n
  <2> HIDE DEF n
  <2>1. n \in Nat
    BY <1>1 DEF n
  <2> QED BY <1>2, <2>1, SeqDef, LenProperties
<1>4. \A i, j \in 1..n : s[i] = s[j] => i = j
  BY <1>2 DEF Orderings
<1>5. s \in Surjection(1..n, S)
  <2>1. s \in Injection(1..n, S)
    BY <1>2, <1>4 DEF Injection, IsInjective
  <2>2. IsFiniteSet(1..n) /\ Cardinality(1..n) = n
    BY <1>1, FS_Interval
  <2> QED BY <1>1, <2>1, <2>2, FS_Injection
<1>6. \A k \in S : \E i \in 1..n : s[i] = k
  BY <1>5 DEF Surjection
<1> QED BY <1>1, <1>3, <1>4, <1>6 DEF Enumerates

\* Where the order leaves no choice it lists them.
LEMMA OrderingLists ==
  ASSUME TypeOK, NEW S \in SUBSET DOMAIN rows, NEW order, Orderly(order),
         NEW s \in Orderings(S, order)
  PROVE  Lists(s, S, order)
<1>1. Enumerates(s, S)
  BY OrderingEnumerates
<1>2. ASSUME NEW i \in 1..Len(s), NEW j \in 1..Len(s), i < j
      PROVE  Before(s[i], s[j], order) /\ ~Before(s[j], s[i], order)
  <2>1. s[i] \in DOMAIN rows /\ s[j] \in DOMAIN rows /\ s[i] # s[j]
    BY <1>1, <1>2, ElementOfSeq DEF Enumerates
  <2>2. ~Before(s[j], s[i], order)
    BY <1>1, <1>2, LenProperties DEF Orderings, Enumerates
  <2> QED BY <2>1, <2>2, TotalOrder
<1> QED BY <1>1, <1>2 DEF Lists

\* The position of a row tells how many rows are before it.
LEMMA RankOfPosition ==
  ASSUME TypeOK, NEW S \in SUBSET DOMAIN rows, NEW order, Orderly(order),
         NEW s, Lists(s, S, order), NEW i \in 1..Len(s)
  PROVE  Cardinality({j \in S : Before(j, s[i], order)}) = i - 1
<1>0. /\ s \in Seq(S)
      /\ \A k \in S : \E a \in 1..Len(s) : s[a] = k
      /\ \A a, b \in 1..Len(s) : s[a] = s[b] => a = b
      /\ \A a, b \in 1..Len(s) : a < b => Before(s[a], s[b], order)
                                         /\ ~Before(s[b], s[a], order)
  BY DEF Lists, Enumerates
<1> DEFINE T == {j \in S : Before(j, s[i], order)}
           f == [a \in 1..(i - 1) |-> s[a]]
<1>1. \A a \in 1..(i - 1) : a \in 1..Len(s) /\ s[a] \in T
  <2> SUFFICES ASSUME NEW a \in 1..(i - 1) PROVE a \in 1..Len(s) /\ s[a] \in T
    OBVIOUS
  <2>1. Len(s) \in Nat /\ a \in 1..Len(s) /\ a < i
    BY <1>0
  <2>2. s[a] \in S
    BY <1>0, <2>1, ElementOfSeq
  <2> QED BY <1>0, <2>1, <2>2
<1>2. ASSUME NEW k \in T PROVE \E a \in 1..(i - 1) : s[a] = k
  <2>1. PICK a \in 1..Len(s) : s[a] = k
    BY <1>0
  <2>2. ~(i < a)
    BY <1>0, <2>1
  <2>3. a # i
    BY <1>0, <2>1, TotalOrder
  <2> QED BY <2>1, <2>2, <2>3
<1>3. f \in Bijection(1..(i - 1), T)
  BY <1>0, <1>1, <1>2 DEF Bijection, Injection, IsInjective, Surjection
<1>4. IsFiniteSet(1..(i - 1)) /\ Cardinality(1..(i - 1)) = i - 1
  BY FS_Interval
<1> QED BY <1>3, <1>4, FS_Bijection DEF ExistsBijection

-----------------------------------------------------------------------------
(* One page.                                                               *)

\* The rows the query of the request in hand is about.
Candidates == {k \in DOMAIN rows : /\ AfterToken(k, req.token, req.orderby)
                                   /\ req.restrict = "db" => k \in Matching}

Skipped == IF req.skip = None THEN 0 ELSE req.skip
Rest(s) == Offset(s, req.skip)
Read(s) == Limit(Rest(s), IF top = None THEN None ELSE top + 1)

\* How many of n rows are read.
ReadLength(n) ==
  IF n <= Skipped THEN 0
  ELSE IF top = None \/ n - Skipped <= top + 1 THEN n - Skipped ELSE top + 1

\* OFFSET leaves the rows behind the skipped ones.
LEMMA RestOfRows ==
  ASSUME NEW S, NEW s \in Seq(S), req.skip \in Number
  PROVE  /\ Skipped \in Nat /\ Rest(s) \in Seq(S)
         /\ Len(Rest(s)) = IF Len(s) <= Skipped THEN 0 ELSE Len(s) - Skipped
         /\ \A i \in 1..Len(Rest(s)) :
              Skipped + i \in 1..Len(s) /\ Rest(s)[i] = s[Skipped + i]
<1>1. CASE req.skip = None
  BY <1>1 DEF Skipped, Rest, Offset
<1>2. CASE req.skip # None
  <2> DEFINE n == req.skip
  <2>1. n \in Nat /\ Skipped = n /\ Rest(s) = SubSeq(s, n + 1, Len(s))
    BY <1>2 DEF Skipped, Rest, Offset, Number
  <2>2. CASE Len(s) <= n
    <3>1. Rest(s) = <<>>
      BY <2>1, <2>2, SubSeqEmpty
    <3> QED BY <2>1, <2>2, <3>1
  <2>3. CASE ~(Len(s) <= n)
    <3>1. n + 1 \in Int /\ Len(s) \in Int /\ \A i \in (n + 1)..Len(s) : s[i] \in S
      BY <2>1, ElementOfSeq
    <3> DEFINE w == SubSeq(s, n + 1, Len(s))
    <3>2. /\ w \in Seq(S) /\ Len(w) = IF n + 1 <= Len(s) THEN Len(s) - (n + 1) + 1 ELSE 0
          /\ \A i \in 1 .. Len(s) - (n + 1) + 1 : w[i] = s[(n + 1) + i - 1]
      BY <3>1, SubSeqProperties
    <3>3. Len(w) = Len(s) - n
      BY <2>1, <2>3, <3>1, <3>2
    <3>4. ASSUME NEW i \in 1..Len(w) PROVE n + i \in 1..Len(s) /\ w[i] = s[n + i]
      <4>1. i \in 1 .. Len(s) - (n + 1) + 1 /\ (n + 1) + i - 1 = n + i
        BY <2>1, <3>1, <3>3, <3>4
      <4>2. n + i \in 1..Len(s)
        BY <2>1, <3>1, <3>3, <3>4
      <4>3. w[i] = s[(n + 1) + i - 1]
        BY <3>2, <4>1
      <4> HIDE DEF w
      <4> QED BY <4>1, <4>2, <4>3
    <3> QED BY <2>1, <2>3, <3>2, <3>3, <3>4
  <2> QED BY <2>2, <2>3
<1> QED BY <1>1, <1>2

\* LIMIT reads one row more than the page has.
LEMMA ReadRows ==
  ASSUME NEW S, NEW s \in Seq(S), req.skip \in Number, top \in Number
  PROVE  /\ Read(s) \in Seq(S) /\ Len(Read(s)) = ReadLength(Len(s))
         /\ \A i \in 1..Len(Read(s)) :
              Skipped + i \in 1..Len(s) /\ Read(s)[i] = s[Skipped + i]
<1>1. /\ Skipped \in Nat /\ Rest(s) \in Seq(S)
      /\ Len(Rest(s)) = IF Len(s) <= Skipped THEN 0 ELSE Len(s) - Skipped
      /\ \A i \in 1..Len(Rest(s)) :
           Skipped + i \in 1..Len(s) /\ Rest(s)[i] = s[Skipped + i]
  BY RestOfRows
<1>2. CASE top = None \/ top + 1 >= Len(Rest(s))
  <2>1. Read(s) = Rest(s)
    BY <1>2 DEF Read, Limit
  <2> QED BY <1>1, <1>2, <2>1 DEF ReadLength, Number
<1>3. CASE ~(top = None \/ top + 1 >= Len(Rest(s)))
  <2>1. top \in Nat /\ top + 1 # None /\ Read(s) = SubSeq(Rest(s), 1, top + 1)
    BY <1>3 DEF Read, Limit, Number, None
  <2>2. top + 1 < Len(Rest(s))
    BY <1>1, <1>3, <2>1
  <2>3. /\ Read(s) \in Seq(S) /\ Len(Read(s)) = top + 1
        /\ \A i \in 1..(top + 1) : Read(s)[i] = Rest(s)[i]
    BY <1>1, <2>1, <2>2, SubSeqProperties
  <2>4. ReadLength(Len(s)) = top + 1
    <3>1. Len(s) \in Nat /\ Len(s) > Skipped /\ Len(s) - Skipped > top + 1
      BY <1>1, <2>1, <2>2
    <3> QED BY <1>1, <2>1, <3>1 DEF ReadLength, None
  <2> QED BY <1>1, <2>1, <2>2, <2>3, <2>4
<1> QED BY <1>2, <1>3

\* Picking the rows that match in memory keeps each of them.
LEMMA SelectionIsWhole ==
  ASSUME NEW S, NEW s \in Seq(S), \A i, j \in 1..Len(s) : s[i] = s[j] => i = j,
         NEW t \in Selections(s)
  PROVE  /\ t \in Seq(S)
         /\ {t[i] : i \in 1..Len(t)} = {s[i] : i \in 1..Len(s)} \cap Matching
         /\ \A i, j \in 1..Len(t) : t[i] = t[j] => i = j
<1> DEFINE R == {s[i] : i \in 1..Len(s)}
           T == R \cap Matching
           n == Cardinality(T)
<1>1. DOMAIN s = 1..Len(s) /\ Len(s) \in Nat /\ R \subseteq S
  BY LenProperties, ElementOfSeq
<1>2. /\ t \in [1..n -> T]
      /\ \A i, j \in DOMAIN t : i < j =>
           \E g, h \in DOMAIN s : g < h /\ s[g] = t[i] /\ s[h] = t[j]
  BY <1>1 DEF Selections
<1>3. IsFiniteSet(T) /\ n \in Nat
  <2> DEFINE f == [i \in 1..Len(s) |-> s[i]]
  <2>1. f \in Surjection(1..Len(s), R)
    BY DEF Surjection
  <2>2. IsFiniteSet(R)
    BY <1>1, <2>1, FS_Surjection, FS_Interval
  <2> QED BY <2>2, FS_Intersection, FS_CardinalityType
<1>4. \A i, j \in 1..n : t[i] = t[j] => i = j
  <2> SUFFICES ASSUME NEW i \in 1..n, NEW j \in 1..n, t[i] = t[j], i < j PROVE FALSE
    BY <1>3
  <2>1. i \in DOMAIN t /\ j \in DOMAIN t
    BY <1>2
  <2>2. PICK g, h \in DOMAIN s : g < h /\ s[g] = t[i] /\ s[h] = t[j]
    BY <1>2, <2>1
  <2> QED BY <1>1, <2>2
<1>5. t \in Surjection(1..n, T)
  <2>1. t \in Injection(1..n, T)
    BY <1>2, <1>4 DEF Injection, IsInjective
  <2>2. IsFiniteSet(1..n) /\ Cardinality(1..n) = n
    BY <1>3, FS_Interval
  <2> QED BY <1>3, <2>1, <2>2, FS_Injection
<1>6. t \in Seq(S) /\ Len(t) = n
  <2> HIDE DEF n
  <2>1. t \in [1..n -> S]
    BY <1>1, <1>2
  <2> QED BY <1>3, <2>1, SeqDef, LenProperties
<1>7. {t[i] : i \in 1..n} = T
  <2> HIDE DEF n, T
  <2> QED BY <1>2, <1>5 DEF Surjection
<1> QED BY <1>4, <1>6, <1>7

\* A token made for a row is behind exactly the rows after it.
LEMMA TokenOfRow ==
  ASSUME TypeOK, PageOK, Resumable, req \in Options,
         NEW j \in DOMAIN rows, NEW k \in DOMAIN rows,
         NEW t \in TokensOf([k |-> j, v |-> Fetched(j)], req.orderby, req.shape)
  PROVE  /\ t \in Tokens /\ t.kind = "row" /\ t # NoToken
         /\ AfterToken(k, t, req.orderby) <=> Before(j, k, req.orderby)
<1>1. /\ j \in Seq(Nat) /\ k \in Seq(Nat) /\ Len(j) = 1 /\ Len(k) = 1
      /\ j[1] \in Nat /\ k[1] \in Nat /\ Float(j[1]) = j[1] /\ j # <<>>
      /\ rows[j] \in Int /\ rows[k] \in Int /\ rows[j] \in Column
  BY KeysOfTable DEF Resumable
<1> DEFINE o == IF req.orderby = "none" THEN None ELSE Fetched(j)
<1>2. t = Token(j[1], j[1], o)
  <2>1. PICK i \in DOMAIN j : t = Token(Float(j[1]), Float(j[i]), o)
    BY DEF TokensOf
  <2>2. i = 1
    BY <1>1, <2>1
  <2> QED BY <1>1, <2>1, <2>2
<1>3. t.kind = "row" /\ t.k = j[1] /\ t.r = j[1] /\ t.o = o /\ t # NoToken
  <2>1. NoToken.kind = "none"
    BY DEF NoToken
  <2> QED BY <1>2, <2>1 DEF Token
<1>4. req.orderby # "none" => o = rows[j] /\ Distinct(rows)
  BY DEF Resumable, Fetched, PageOK
<1>5. o \in Nat \cup {None, Null}
  BY <1>1, <1>4, CollectionReadAssumption DEF Column
<1>6. t \in Tokens
  BY <1>1, <1>2, <1>5 DEF Tokens, Token
<1>7. CASE req.orderby = "none"
  <2>1. AfterToken(k, t, req.orderby) <=> k[1] > j[1]
    BY <1>3, <1>7 DEF AfterToken
  <2>2. Before(j, k, req.orderby) <=> LexLess(j, k)
    BY <1>7 DEF Before
  <2>3. LexLess(j, k) <=> j[1] < k[1]
    <3>1. DOMAIN j = {1}
      BY <1>1
    <3>2. \A h \in 1..(1 - 1) : j[h] = k[h]
      OBVIOUS
    <3> QED BY <3>1, <3>2 DEF LexLess
  <2> QED BY <1>1, <1>3, <1>6, <2>1, <2>2, <2>3
<1>8. CASE req.orderby \in {"asc", "desc"}
  <2>1. o = rows[j] /\ rows[j] # Null /\ rows[k] # Null /\ (rows[j] = rows[k] => j = k)
    BY <1>4, <1>8 DEF Distinct
  <2>2. AfterToken(k, t, req.orderby) <=>
          \/ req.orderby = "asc" /\ rows[k] > rows[j]
          \/ req.orderby = "desc" /\ rows[k] < rows[j]
          \/ rows[k] = rows[j] /\ k[1] > j[1]
    BY <1>3, <1>8, <2>1 DEF AfterToken
  <2>3. rows[k] = rows[j] => ~(k[1] > j[1])
    BY <1>1, <2>1
  <2>4. Before(j, k, req.orderby) <=>
          IF req.orderby = "asc" THEN rows[j] < rows[k] ELSE rows[k] < rows[j]
    BY <1>8 DEF Before
  <2> QED BY <1>1, <1>3, <1>6, <1>8, <2>2, <2>3, <2>4
<1> QED BY <1>7, <1>8 DEF Options, Orders

\* What comes after a row that is after the token is after the token.
LEMMA AfterIsUpward ==
  ASSUME TypeOK, PageOK, Resumable, req \in Options,
         NEW t \in Tokens, t = NoToken \/ t.kind = "row",
         NEW j \in DOMAIN rows, NEW k \in DOMAIN rows,
         AfterToken(j, t, req.orderby), Before(j, k, req.orderby)
  PROVE  AfterToken(k, t, req.orderby)
<1>1. /\ j \in Seq(Nat) /\ k \in Seq(Nat) /\ Len(j) = 1 /\ Len(k) = 1
      /\ j[1] \in Nat /\ k[1] \in Nat /\ rows[j] \in Int /\ rows[k] \in Int
  BY KeysOfTable DEF Resumable
<1> SUFFICES ASSUME t # NoToken PROVE AfterToken(k, t, req.orderby)
  BY DEF AfterToken
<1>2. t.k \in Nat /\ t.r \in Nat /\ t.o \in Nat \cup {None, Null}
  BY DEF Tokens, Garbage, NoToken
<1>3. CASE req.orderby = "none"
  <2>1. j[1] > t.k
    BY <1>3 DEF AfterToken
  <2>2. PICK i \in DOMAIN j : j[i] < k[i]
    BY <1>3 DEF Before, LexLess
  <2>3. i = 1
    BY <1>1
  <2> QED BY <1>1, <1>2, <1>3, <2>1, <2>2, <2>3 DEF AfterToken
<1>4. CASE req.orderby \in {"asc", "desc"}
  <2>1. rows[k] # Null
    BY <1>4 DEF Resumable, PageOK, Distinct
  <2>2. t.o # Null /\ t.o \in Int
    BY <1>2, <1>4 DEF AfterToken, None
  <2>3. \/ req.orderby = "asc" /\ rows[j] > t.o
        \/ req.orderby = "desc" /\ rows[j] < t.o
        \/ rows[j] = t.o
    BY <1>4 DEF AfterToken
  <2>4. IF req.orderby = "asc" THEN rows[j] < rows[k] ELSE rows[k] < rows[j]
    BY <1>4 DEF Before
  <2>5. \/ req.orderby = "asc" /\ rows[k] > t.o
        \/ req.orderby = "desc" /\ rows[k] < t.o
    BY <1>1, <1>4, <2>2, <2>3, <2>4
  <2> QED BY <1>4, <2>1, <2>2, <2>5 DEF AfterToken
<1> QED BY <1>3, <1>4 DEF Options, Orders

-----------------------------------------------------------------------------
(* The fetch.                                                              *)

\* The query returned s, and kept is what is left of what was read.
Fetches(s, kept) ==
  /\ s \in Orderings(Candidates, req.orderby)
  /\ kept \in IF req.restrict = "memory" THEN Selections(Read(s)) ELSE {Read(s)}
  /\ page' = [i \in DOMAIN kept |-> [k |-> kept[i], v |-> Fetched(kept[i])]]
  /\ passed' = IF link = NoLink
               THEN {s[i] : i \in DOMAIN s} \ {Rest(s)[i] : i \in DOMAIN Rest(s)}
               ELSE passed
  /\ UNCHANGED <<table, req, top, total, link, returned>>

\* A fetch fails or returns a page.
LEMMA FetchCases ==
  ASSUME FetchResults
  PROVE  /\ pc = "fetch"
         /\ UNCHANGED <<table, req, top, total, link, returned>>
         /\ \/ pc' = "failed" /\ UNCHANGED <<page, passed>>
            \/ pc' = "fetched" /\ \E s, kept : Fetches(s, kept)
<1>1. UNCHANGED <<table, req, top, total, link, returned>> /\ pc = "fetch"
  BY DEF FetchResults
<1>2. CASE pc' = "failed" /\ UNCHANGED <<page, passed>>
  BY <1>1, <1>2
<1>3. CASE pc' = "fetched"
  <2>1. PICK s \in Orderings(Candidates, req.orderby) :
          /\ \E kept \in IF req.restrict = "memory" THEN Selections(Read(s)) ELSE {Read(s)} :
               page' = [i \in DOMAIN kept |-> [k |-> kept[i], v |-> Fetched(kept[i])]]
          /\ passed' = IF link = NoLink
                       THEN {s[i] : i \in DOMAIN s} \ {Rest(s)[i] : i \in DOMAIN Rest(s)}
                       ELSE passed
    BY <1>3 DEF FetchResults, Candidates, Read, Rest
  <2>2. PICK kept \in IF req.restrict = "memory" THEN Selections(Read(s)) ELSE {Read(s)} :
          page' = [i \in DOMAIN kept |-> [k |-> kept[i], v |-> Fetched(kept[i])]]
    BY <2>1
  <2>3. Fetches(s, kept)
    BY <1>1, <2>1, <2>2 DEF Fetches
  <2> QED BY <1>1, <1>3, <2>3
<1> QED BY <1>1, <1>2, <1>3 DEF FetchResults

\* What a page consists of.
LEMMA PageRows ==
  ASSUME TypeOK, req \in Options, NEW s, NEW kept, Fetches(s, kept)
  PROVE  /\ Enumerates(s, Candidates)
         /\ page' \in Seq([k : keys, v : Column]) /\ Len(page') = Len(kept)
         /\ \A i \in 1..Len(kept) : page'[i] = [k |-> kept[i], v |-> Fetched(kept[i])]
         /\ kept \in Seq(Candidates)
         /\ \A i \in 1..Len(kept) : Restricted(kept[i], req.restrict)
         /\ \A k : Restricted(k, req.restrict) =>
              (k \in {kept[i] : i \in 1..Len(kept)} <=>
               k \in {Read(s)[i] : i \in 1..Len(Read(s))})
         /\ req.restrict # "memory" => kept = Read(s)
         /\ Read(s) \in Seq(Candidates) /\ Len(Read(s)) = ReadLength(Len(s))
         /\ \A i \in 1..Len(Read(s)) :
              Skipped + i \in 1..Len(s) /\ Read(s)[i] = s[Skipped + i]
<1>1. Enumerates(s, Candidates)
  BY OrderingEnumerates DEF Candidates, Fetches
<1>2. /\ Read(s) \in Seq(Candidates) /\ Len(Read(s)) = ReadLength(Len(s))
      /\ \A i \in 1..Len(Read(s)) :
           Skipped + i \in 1..Len(s) /\ Read(s)[i] = s[Skipped + i]
  BY <1>1, ReadRows DEF Enumerates, Options, TypeOK, Number
<1>3. \A i, j \in 1..Len(Read(s)) : Read(s)[i] = Read(s)[j] => i = j
  <2>1. Skipped \in Nat
    BY DEF Skipped, Options, Number
  <2> QED BY <1>1, <1>2, <2>1 DEF Enumerates
<1>4. /\ kept \in Seq(Candidates)
      /\ req.restrict # "memory" => kept = Read(s)
      /\ \A k : Restricted(k, req.restrict) =>
           (k \in {kept[i] : i \in 1..Len(kept)} <=>
            k \in {Read(s)[i] : i \in 1..Len(Read(s))})
      /\ \A i \in 1..Len(kept) : Restricted(kept[i], req.restrict)
  <2>1. CASE req.restrict = "memory"
    <3>1. kept \in Selections(Read(s))
      BY <2>1 DEF Fetches
    <3>2. /\ kept \in Seq(Candidates)
          /\ {kept[i] : i \in 1..Len(kept)} =
             {Read(s)[i] : i \in 1..Len(Read(s))} \cap Matching
      <4> DEFINE r == Read(s)
                 C == Candidates
      <4>1. r \in Seq(C) /\ kept \in Selections(r) /\ \A i, j \in 1..Len(r) : r[i] = r[j] => i = j
        BY <1>2, <1>3, <3>1
      <4> HIDE DEF r, C
      <4>2. kept \in Seq(C) /\ {kept[i] : i \in 1..Len(kept)} = {r[i] : i \in 1..Len(r)} \cap Matching
        BY <4>1, SelectionIsWhole
      <4> QED BY <4>2 DEF r, C
    <3> QED BY <2>1, <3>2 DEF Restricted
  <2>2. CASE req.restrict # "memory"
    <3>1. kept = Read(s)
      BY <2>2 DEF Fetches
    <3>2. \A i \in 1..Len(kept) : kept[i] \in Candidates
      BY <1>2, <3>1, ElementOfSeq
    <3>3. req.restrict = "none" \/ req.restrict = "db"
      BY <2>2 DEF Options
    <3> QED BY <1>2, <2>2, <3>1, <3>2, <3>3 DEF Restricted, Candidates
  <2> QED BY <2>1, <2>2
<1>5. /\ page' \in Seq([k : keys, v : Column]) /\ Len(page') = Len(kept)
      /\ \A i \in 1..Len(kept) : page'[i] = [k |-> kept[i], v |-> Fetched(kept[i])]
  <2>1. DOMAIN kept = 1..Len(kept) /\ Len(kept) \in Nat
    BY <1>4, LenProperties
  <2>2. \A i \in 1..Len(kept) : kept[i] \in DOMAIN rows
    BY <1>4, ElementOfSeq DEF Candidates
  <2>3. \A k \in DOMAIN rows : k \in keys /\ Fetched(k) \in Column
    BY KeysOfTable, CollectionReadAssumption DEF Fetched, ZeroValue, Column
  <2>4. page' = [i \in 1..Len(kept) |-> [k |-> kept[i], v |-> Fetched(kept[i])]]
    BY <2>1 DEF Fetches
  <2>5. page' \in [1..Len(kept) -> [k : keys, v : Column]]
    BY <2>2, <2>3, <2>4
  <2> QED BY <2>1, <2>4, <2>5, SeqDef, LenProperties
<1> QED BY <1>1, <1>2, <1>4, <1>5

\* Which rows are on a page.
LEMMA ShownRows ==
  ASSUME TypeOK, req \in Options, NEW s, NEW kept, Fetches(s, kept),
         req.restrict = "memory" => top = None,
         NEW p \in 1..Len(s), Restricted(s[p], req.restrict)
  PROVE  Shown(s[p])' <=> p > Skipped /\ (top = None \/ p <= Skipped + top)
<1> DEFINE r == Read(s)
<1>1. /\ Len(s) \in Nat /\ Skipped \in Nat /\ top \in Number
      /\ \A i, j \in 1..Len(s) : s[i] = s[j] => i = j
  <2>1. Enumerates(s, Candidates)
    BY PageRows
  <2>2. s \in Seq(Candidates) /\ \A i, j \in 1..Len(s) : s[i] = s[j] => i = j
    BY <2>1 DEF Enumerates
  <2>3. Skipped \in Nat /\ top \in Number
    BY DEF Skipped, Options, Number, TypeOK
  <2> QED BY <2>2, <2>3, LenProperties
<1>2. /\ page' \in Seq([k : keys, v : Column]) /\ Len(page') = Len(kept)
      /\ \A i \in 1..Len(kept) : page'[i].k = kept[i]
      /\ Len(r) = ReadLength(Len(s))
      /\ \A i \in 1..Len(r) : Skipped + i \in 1..Len(s) /\ r[i] = s[Skipped + i]
      /\ req.restrict # "memory" => kept = r
      /\ s[p] \in {kept[i] : i \in 1..Len(kept)} <=> s[p] \in {r[i] : i \in 1..Len(r)}
  <2>1. /\ page' \in Seq([k : keys, v : Column]) /\ Len(page') = Len(kept)
        /\ \A i \in 1..Len(kept) : page'[i] = [k |-> kept[i], v |-> Fetched(kept[i])]
        /\ Len(r) = ReadLength(Len(s))
        /\ \A i \in 1..Len(r) : Skipped + i \in 1..Len(s) /\ r[i] = s[Skipped + i]
        /\ req.restrict # "memory" => kept = r
    BY PageRows
  <2>2. \A k : Restricted(k, req.restrict) =>
          (k \in {kept[i] : i \in 1..Len(kept)} <=> k \in {r[i] : i \in 1..Len(r)})
    BY PageRows, Zenon
  <2>3. s[p] \in {kept[i] : i \in 1..Len(kept)} <=> s[p] \in {r[i] : i \in 1..Len(r)}
    BY <2>2, Zenon
  <2>4. ASSUME NEW i \in 1..Len(kept) PROVE page'[i].k = kept[i]
    <3>1. page'[i] = [k |-> kept[i], v |-> Fetched(kept[i])]
      BY <2>1, Zenon
    <3> QED BY ONLY <3>1
  <2> HIDE DEF r
  <2> QED BY <2>1, <2>3, <2>4, Zenon
<1>3. top' = top
  BY DEF Fetches
<1>4. Shown(s[p])' <=> \E i \in 1..Len(kept) : kept[i] = s[p] /\ (top = None \/ i <= top)
  <2>1. DOMAIN page' = 1..Len(kept)
    BY <1>2, LenProperties
  <2> QED BY <1>2, <1>3, <2>1 DEF Shown
<1> HIDE DEF r
<1>5. Shown(s[p])' <=> \E i \in 1..Len(r) : r[i] = s[p] /\ (top = None \/ i <= top)
  <2>1. CASE req.restrict = "memory"
    BY <1>2, <1>4, <2>1
  <2>2. CASE req.restrict # "memory"
    BY <1>2, <1>4, <2>2
  <2> QED BY <2>1, <2>2
<1>6. ASSUME NEW i \in 1..Len(r), r[i] = s[p] PROVE p = Skipped + i
  BY <1>1, <1>2, <1>6
<1>7. ASSUME p > Skipped, top = None \/ p <= Skipped + top
      PROVE  p - Skipped \in 1..Len(r) /\ r[p - Skipped] = s[p]
  <2>1. ReadLength(Len(s)) \in Nat /\ p - Skipped <= ReadLength(Len(s))
    BY <1>1, <1>7 DEF ReadLength, Number, None
  <2>2. p - Skipped \in 1..Len(r)
    BY <1>1, <1>2, <1>7, <2>1
  <2>3. r[p - Skipped] = s[Skipped + (p - Skipped)]
    BY <1>2, <2>2
  <2> QED BY <1>1, <2>2, <2>3
<1>8. ASSUME Shown(s[p])' PROVE p > Skipped /\ (top = None \/ p <= Skipped + top)
  <2>1. PICK i \in 1..Len(r) : r[i] = s[p] /\ (top = None \/ i <= top)
    BY <1>5, <1>8
  <2>2. p = Skipped + i /\ i >= 1
    BY <1>6, <2>1
  <2> QED BY <1>1, <2>1, <2>2 DEF Number
<1>9. ASSUME p > Skipped, top = None \/ p <= Skipped + top PROVE Shown(s[p])'
  <2>1. top = None \/ p - Skipped <= top
    BY <1>1, <1>9 DEF Number
  <2> QED BY <1>5, <1>7, <1>9, <2>1
<1> QED BY <1>8, <1>9

\* The links a page may have.
LinksFor(pg) ==
  IF top = None \/ Len(pg) <= top THEN {NoLink}
  ELSE LET tokens == IF top = 0 THEN {} ELSE TokensOf(pg[top], req.orderby, req.shape)
       IN IF tokens # {}
          THEN {[req EXCEPT !.skip = None, !.token = t] : t \in tokens}
          ELSE {[req EXCEPT !.skip = Skipped + top, !.token = NoToken]}

\* They are the links of the page in hand.
LEMMA NextLinksAre == NextLinks = LinksFor(page)
BY DEF NextLinks, LinksFor, Skipped

\* A request is not the absence of one.
LEMMA OptionsAreALink == \A o \in Options : o # NoLink
<1>1. DOMAIN NoLink = {"kind"}
  BY DEF NoLink
<1>2. \A o \in Options : "skip" \in DOMAIN o
  BY DEF Options
<1> QED BY <1>1, <1>2

\* A key is a number after JSON as well.
LEMMA FloatIsNumber == \A n \in Nat : Float(n) \in Nat
BY DEF Float

\* A link goes on with the same walk.
LEMMA LinkFor ==
  ASSUME TypeOK, req \in Options, NEW pg \in Seq([k : keys, v : Column]),
         NEW l \in LinksFor(pg)
  PROVE  /\ l = NoLink => top = None \/ Len(pg) <= top
         /\ l # NoLink =>
              /\ top \in Nat /\ Len(pg) > top /\ SameWalk(l, req) /\ Cursor(l)
              /\ l.token # NoToken =>
                   top # 0 /\ l.token \in TokensOf(pg[top], req.orderby, req.shape)
              /\ l.token = NoToken => l.skip = Skipped + top
<1>1. CASE top = None \/ Len(pg) <= top
  <2>1. l = NoLink
    BY <1>1 DEF LinksFor
  <2> QED BY <1>1, <2>1
<1>2. CASE ~(top = None \/ Len(pg) <= top)
  <2> DEFINE tokens == IF top = 0 THEN {} ELSE TokensOf(pg[top], req.orderby, req.shape)
  <2>1. top \in Nat /\ Len(pg) > top /\ Skipped \in Nat
    BY <1>2, LenProperties DEF TypeOK, Skipped, Options, Number
  <2>2. CASE tokens # {}
    <3>1. PICK t \in tokens : l = [req EXCEPT !.skip = None, !.token = t]
      BY <1>2, <2>2 DEF LinksFor
    <3>2. top # 0 /\ t \in TokensOf(pg[top], req.orderby, req.shape) /\ top \in 1..Len(pg)
      BY <2>1, <2>2
    <3>3. pg[top].k \in keys /\ pg[top].v \in Column
      <4>1. pg[top] \in [k : keys, v : Column]
        BY <3>2, ElementOfSeq
      <4> QED BY <4>1
    <3>4. t \in Tokens /\ t.kind = "row" /\ t # NoToken
      <4>1. PICK i \in DOMAIN pg[top].k :
              t = Token(Float(pg[top].k[1]), Float(pg[top].k[i]),
                        IF req.orderby = "none" THEN None ELSE pg[top].v)
        BY <3>2 DEF TokensOf
      <4>2. pg[top].k[1] \in Nat /\ pg[top].k[i] \in Nat
        <5>1. pg[top].k \in Seq(Nat) /\ pg[top].k[1] \in Nat
          BY <3>3, KeysOfTable
        <5> QED BY <4>1, <5>1, ElementOfSeq
      <4>3. pg[top].v \in Nat \cup {None, Null}
        BY <3>3, CollectionReadAssumption DEF Column
      <4> QED BY <4>1, <4>2, <4>3, FloatIsNumber DEF Token, Tokens, NoToken
    <3>5. l \in Options /\ l.token = t /\ l.skip = None
      BY <3>1, <3>4 DEF Options, Number
    <3>6. SameWalk(l, req)
      BY <3>1, <3>5 DEF SameWalk, Options
    <3>7. ~Countable
      BY <3>2 DEF Countable, TokensOf
    <3>8. Cursor(l)
      BY <3>4, <3>5, <3>7 DEF Cursor
    <3> QED BY <2>1, <3>2, <3>4, <3>5, <3>6, <3>8, OptionsAreALink
  <2>3. CASE tokens = {}
    <3>1. l = [req EXCEPT !.skip = Skipped + top, !.token = NoToken]
      BY <1>2, <2>3 DEF LinksFor
    <3>2. l \in Options /\ l.token = NoToken /\ l.skip = Skipped + top /\ l.skip # None
      <4>1. Skipped + top \in Number /\ NoToken \in Tokens /\ Skipped + top # None
        BY <2>1 DEF Number, Tokens, None
      <4>2. l.token = NoToken /\ l.skip = Skipped + top
        BY <3>1 DEF Options
      <4>3. l \in Options
        BY <3>1, <4>1 DEF Options
      <4> QED BY <4>1, <4>2, <4>3
    <3>3. SameWalk(l, req)
      BY <3>1, <3>2 DEF SameWalk, Options
    <3>4. ~Resumable
      <4> SUFFICES ASSUME Resumable PROVE FALSE
        OBVIOUS
      <4>1. top # 0 /\ top \in 1..Len(pg)
        BY <2>1 DEF Resumable
      <4>2. pg[top].k \in keys
        <5>1. pg[top] \in [k : keys, v : Column]
          BY <4>1, ElementOfSeq
        <5> QED BY <5>1
      <4>3. 1 \in DOMAIN pg[top].k
        BY <4>2, KeysOfTable DEF Resumable
      <4>4. TokensOf(pg[top], req.orderby, req.shape) # {}
        BY <4>3 DEF Resumable, TokensOf
      <4> QED BY <2>3, <4>1, <4>4
    <3>5. Cursor(l)
      BY <3>2, <3>4 DEF Cursor
    <3> QED BY <2>1, <3>2, <3>3, <3>5, OptionsAreALink
  <2> QED BY <2>2, <2>3
<1> QED BY <1>1, <1>2

\* The conditions of an exact walk speak of nothing a fetch changes.
LEMMA FetchKeeps ==
  ASSUME NEW s, NEW kept, Fetches(s, kept)
  PROVE  /\ Resumable' <=> Resumable
         /\ Countable' <=> Countable
         /\ \A k : Due(k)' <=> Due(k)
         /\ \A k, r : Ahead(k, r)' <=> Ahead(k, r)
         /\ NextLinks' = LinksFor(page')
BY DEF Fetches, table, Resumable, Countable, Due, Ahead, AfterToken, Rank,
       Selected, Before, NextLinks, LinksFor, Skipped

\* Under the conditions of an exact walk the order leaves no choice, and a
\* restriction left to memory is met only where there is one page.
LEMMA ExactWalks ==
  ASSUME TypeOK, PageOK, req \in Options, Resumable \/ Countable
  PROVE  Orderly(req.orderby) /\ top # 0 /\ (req.restrict = "memory" => top = None)
BY DEF Orderly, Resumable, Countable, PageOK, Options

\* Before a fetch: with a cursor the candidates are the rows ahead, without
\* one they are all rows.
LEMMA TokenOfRequest ==
  ASSUME LinksAgree, pc = "fetch"
  PROVE  /\ req.token = NoToken \/ (req.token.kind = "row" /\ req.skip = None)
         /\ link = NoLink => req.token = NoToken
         /\ link # NoLink => req = link /\ Cursor(req)
BY DEF LinksAgree, Cursor, Asking

\* A row that is due and not ahead has been handled; the others are all
\* candidates, and have not been returned.
LEMMA BeforeFetch ==
  ASSUME TypeOK, PageOK, LinksAgree, WalkContinues, pc = "fetch",
         Resumable \/ Countable, NEW s, Lists(s, Candidates, req.orderby),
         NEW k \in keys, Due(k)
  PROVE  /\ k \notin Candidates => link # NoLink /\ Resumable /\ Handled(k)
         /\ \A p \in 1..Len(s) : s[p] = k =>
              /\ p > Skipped => returned[k] = 0
              /\ p <= Skipped => link = NoLink \/ Handled(k)
<1>1. /\ req \in Options /\ k \in DOMAIN rows /\ Restricted(k, req.restrict)
      /\ (req.restrict = "db" => k \in Matching)
  BY DEF LinksAgree, Due, Restricted
<1>2. link = NoLink => returned[k] = 0
  BY DEF LinksAgree, Asking
<1>3. link # NoLink => IF Ahead(k, req) THEN returned[k] = 0 ELSE Handled(k)
  BY TokenOfRequest DEF WalkContinues, Asking
<1>4. k \notin Candidates => req.token # NoToken /\ ~AfterToken(k, req.token, req.orderby)
  BY <1>1 DEF Candidates, AfterToken
<1>5. k \notin Candidates => link # NoLink /\ Resumable /\ Handled(k)
  <2> SUFFICES ASSUME k \notin Candidates PROVE link # NoLink /\ Resumable /\ Handled(k)
    OBVIOUS
  <2>1. req.token # NoToken /\ ~AfterToken(k, req.token, req.orderby)
    BY <1>4
  <2>2. link # NoLink /\ Cursor(req)
    BY <2>1, TokenOfRequest
  <2>3. ~Ahead(k, req)
    BY <2>1 DEF Ahead
  <2> QED BY <1>3, <2>1, <2>2, <2>3 DEF Cursor
<1>6. ASSUME NEW p \in 1..Len(s), s[p] = k, link # NoLink
      PROVE  Ahead(k, req) <=> p > Skipped
  <2>0. Len(s) \in Nat /\ s \in Seq(Candidates) /\ k \in Candidates
    <3>1. s \in Seq(Candidates)
      BY DEF Lists, Enumerates
    <3> QED BY <1>6, <3>1, ElementOfSeq, LenProperties
  <2>1. CASE req.token # NoToken
    <3>1. Ahead(k, req)
      BY <2>0, <2>1 DEF Ahead, Candidates
    <3>2. Skipped = 0
      BY <2>1, TokenOfRequest DEF Skipped
    <3> QED BY <3>1, <3>2
  <2>2. CASE req.token = NoToken
    <3>1. Candidates = Selected(req)
      BY <2>2 DEF Candidates, Selected, AfterToken
    <3>2. Rank(k, req) = p - 1
      <4>1. Cardinality({j \in Candidates : Before(j, s[p], req.orderby)}) = p - 1
        <5>1. Candidates \in SUBSET DOMAIN rows /\ Orderly(req.orderby)
          BY <1>1, ExactWalks DEF Candidates
        <5> DEFINE C == Candidates
        <5>2. C \in SUBSET DOMAIN rows /\ Lists(s, C, req.orderby)
          BY <5>1
        <5> HIDE DEF C
        <5>3. Cardinality({j \in C : Before(j, s[p], req.orderby)}) = p - 1
          BY <1>6, <5>1, <5>2, RankOfPosition
        <5> QED BY <5>3 DEF C
      <4> QED BY <1>6, <3>1, <4>1 DEF Rank
    <3>3. Skipped = req.skip /\ req.skip \in Nat
      BY <1>1, <1>6, <2>2, TokenOfRequest DEF Cursor, Skipped, Options, Number
    <3> QED BY <2>2, <3>2, <3>3 DEF Ahead
  <2> QED BY <2>1, <2>2
<1>7. ASSUME NEW p \in 1..Len(s), s[p] = k
      PROVE  /\ p > Skipped => returned[k] = 0
             /\ p <= Skipped => link = NoLink \/ Handled(k)
  <2>1. p \in Int /\ Skipped \in Int
    BY <1>1, <1>7 DEF Skipped, Options, Number
  <2> QED BY <1>2, <1>3, <1>6, <1>7, <2>1
<1> QED BY <1>5, <1>7

\* The link of the page leaves behind what is up to its last row.
LEMMA AfterFetch ==
  ASSUME TypeOK, PageOK, LinksAgree, pc = "fetch", Resumable \/ Countable,
         NEW s, NEW kept, Fetches(s, kept), Lists(s, Candidates, req.orderby),
         NEW l \in LinksFor(page')
  PROVE  /\ l = NoLink => top = None \/ Len(s) <= Skipped + top
         /\ l # NoLink =>
              /\ top \in Nat /\ Len(s) > Skipped + top
              /\ \A p \in 1..Len(s) : Ahead(s[p], l) <=> p > Skipped + top
              /\ Resumable => \A k \in DOMAIN rows \ Candidates :
                   (req.restrict = "db" => k \in Matching) => ~Ahead(k, l)
<1>1. req \in Options /\ Skipped \in Nat /\ Len(s) \in Nat /\ s \in Seq(Candidates)
  <2>1. s \in Seq(Candidates)
    BY DEF Lists, Enumerates
  <2> QED BY <2>1, LenProperties DEF LinksAgree, Skipped, Options, Number
<1>2. /\ page' \in Seq([k : keys, v : Column]) /\ Len(page') = Len(kept)
      /\ \A i \in 1..Len(kept) : page'[i] = [k |-> kept[i], v |-> Fetched(kept[i])]
      /\ req.restrict # "memory" => kept = Read(s)
      /\ Len(Read(s)) = ReadLength(Len(s))
      /\ \A i \in 1..Len(Read(s)) :
           Skipped + i \in 1..Len(s) /\ Read(s)[i] = s[Skipped + i]
  BY <1>1, PageRows
<1>3. /\ l = NoLink => top = None \/ Len(page') <= top
      /\ l # NoLink =>
           /\ top \in Nat /\ Len(page') > top /\ SameWalk(l, req) /\ Cursor(l)
           /\ l.token # NoToken =>
                top # 0 /\ l.token \in TokensOf(page'[top], req.orderby, req.shape)
           /\ l.token = NoToken => l.skip = Skipped + top
  BY <1>1, <1>2, LinkFor
<1>4. top # None => Len(page') = ReadLength(Len(s)) /\ kept = Read(s)
  BY <1>1, <1>2, ExactWalks
<1>5. top \in Number /\ top # 0
  BY <1>1, ExactWalks DEF TypeOK, Number
<1>6. l = NoLink => top = None \/ Len(s) <= Skipped + top
  BY <1>1, <1>3, <1>4, <1>5 DEF ReadLength, Number, None
<1>7. ASSUME l # NoLink
      PROVE  /\ top \in Nat /\ Len(s) > Skipped + top
             /\ \A p \in 1..Len(s) : Ahead(s[p], l) <=> p > Skipped + top
             /\ Resumable => \A k \in DOMAIN rows \ Candidates :
                  (req.restrict = "db" => k \in Matching) => ~Ahead(k, l)
  <2>1. top \in Nat /\ top # 0 /\ top # None /\ SameWalk(l, req) /\ Cursor(l)
    BY <1>3, <1>5, <1>7 DEF None
  <2>2. Len(s) > Skipped + top
    BY <1>1, <1>3, <1>4, <1>7, <2>1 DEF ReadLength
  <2>3. l.orderby = req.orderby /\ l.restrict = req.restrict
    BY <1>1, <2>1 DEF SameWalk, Options
  <2>4. CASE Resumable
    <3> DEFINE j == s[Skipped + top]
    <3>1. l.token # NoToken
      BY <2>1, <2>4 DEF Cursor
    <3>2. top \in 1..Len(kept) /\ kept[top] = j /\ Skipped + top \in 1..Len(s)
      BY <1>2, <1>3, <1>4, <1>7, <2>1
    <3>3. page'[top] = [k |-> j, v |-> Fetched(j)]
      BY <1>2, <3>2
    <3>4. j \in Candidates /\ j \in DOMAIN rows
      BY <1>1, <3>2, ElementOfSeq DEF Candidates
    <3>5. l.token \in TokensOf([k |-> j, v |-> Fetched(j)], req.orderby, req.shape)
      BY <1>3, <1>7, <3>1, <3>3
    <3>6. \A k \in DOMAIN rows : Ahead(k, l) <=> Before(j, k, req.orderby)
      <4> HIDE DEF j
      <4> SUFFICES ASSUME NEW k \in DOMAIN rows
                   PROVE  Ahead(k, l) <=> Before(j, k, req.orderby)
        OBVIOUS
      <4>1. AfterToken(k, l.token, req.orderby) <=> Before(j, k, req.orderby)
        BY <1>1, <2>4, <3>4, <3>5, TokenOfRow
      <4> QED BY <2>3, <3>1, <4>1 DEF Ahead
    <3>7. ASSUME NEW p \in 1..Len(s) PROVE Ahead(s[p], l) <=> p > Skipped + top
      <4>1. s[p] \in DOMAIN rows
        BY <1>1, ElementOfSeq DEF Candidates
      <4>2. Ahead(s[p], l) <=> Before(j, s[p], req.orderby)
        BY <3>6, <4>1
      <4>3. p > Skipped + top => Before(j, s[p], req.orderby)
        BY <3>2 DEF Lists
      <4>4. p < Skipped + top => ~Before(j, s[p], req.orderby)
        BY <3>2 DEF Lists
      <4>5. p = Skipped + top => ~Before(j, s[p], req.orderby)
        BY <1>1, <3>4, ExactWalks, TotalOrder
      <4>6. p \in Int /\ Skipped + top \in Int
        BY <1>1, <2>1
      <4> QED BY <4>2, <4>3, <4>4, <4>5, <4>6
    <3>8. ASSUME NEW k \in DOMAIN rows, k \notin Candidates,
                 req.restrict = "db" => k \in Matching
          PROVE  ~Ahead(k, l)
      <4>1. ~AfterToken(k, req.token, req.orderby)
        BY <3>8 DEF Candidates
      <4>2. AfterToken(j, req.token, req.orderby)
        BY <3>4 DEF Candidates
      <4>3. req.token \in Tokens
        BY <1>1 DEF Options
      <4>4. ~Before(j, k, req.orderby)
        <5> HIDE DEF j
        <5> QED BY <1>1, <2>4, <3>4, <3>8, <4>1, <4>2, <4>3, TokenOfRequest, AfterIsUpward
      <4> QED BY <3>6, <3>8, <4>4
    <3> QED BY <2>1, <2>2, <3>7, <3>8
  <2>5. CASE ~Resumable
    <3>1. Countable /\ l.token = NoToken /\ l.skip = Skipped + top
      BY <1>3, <1>7, <2>1, <2>5 DEF Cursor
    <3>2. req.token = NoToken
      BY <3>1, TokenOfRequest DEF Cursor
    <3>3. Candidates = Selected(l)
      BY <2>3, <3>2 DEF Candidates, Selected, AfterToken
    <3>4. ASSUME NEW p \in 1..Len(s) PROVE Ahead(s[p], l) <=> p > Skipped + top
      <4>1. Cardinality({h \in Candidates : Before(h, s[p], req.orderby)}) = p - 1
        BY <1>1, ExactWalks, RankOfPosition DEF Candidates
      <4>2. Rank(s[p], l) = p - 1
        BY <2>3, <3>3, <4>1 DEF Rank
      <4> QED BY <1>1, <2>1, <3>1, <4>2 DEF Ahead
    <3> QED BY <2>1, <2>2, <2>5, <3>4
  <2> QED BY <2>4, <2>5
<1> QED BY <1>6, <1>7

\* A fetched page and its link leave behind what the client has seen.
LEMMA FetchAdvances ==
  ASSUME TypeOK, PageOK, LinksAgree, WalkContinues, pc = "fetch",
         NEW s, NEW kept, Fetches(s, kept)
  PROVE  PageAdvances'
<1>1. req \in Options /\ Skipped \in Nat /\ top \in Number
  BY DEF LinksAgree, Skipped, Options, Number, TypeOK
<1> SUFFICES ASSUME Resumable \/ Countable, NEW k \in keys, NEW l \in LinksFor(page'), Due(k)
             PROVE  IF Shown(k)' THEN returned[k] = 0 /\ (l # NoLink => ~Ahead(k, l))
                    ELSE IF l # NoLink /\ Ahead(k, l) THEN returned[k] = 0
                    ELSE returned[k] = 1 \/ k \in passed'
  <2>1. keys' = keys /\ returned' = returned
    BY DEF Fetches, table
  <2> QED BY <2>1, FetchKeeps DEF PageAdvances, Handled
<1>2. /\ Lists(s, Candidates, req.orderby) /\ s \in Seq(Candidates) /\ Len(s) \in Nat
      /\ \A j \in Candidates : \E p \in 1..Len(s) : s[p] = j
      /\ \A p, q \in 1..Len(s) : s[p] = s[q] => p = q
  <2>1. Candidates \in SUBSET DOMAIN rows /\ s \in Orderings(Candidates, req.orderby)
    BY DEF Fetches, Candidates
  <2>2. Lists(s, Candidates, req.orderby)
    BY <1>1, <2>1, ExactWalks, OrderingLists
  <2> QED BY <2>2, LenProperties DEF Lists, Enumerates
<1>3. k \in DOMAIN rows /\ Restricted(k, req.restrict) /\ (req.restrict = "db" => k \in Matching)
  BY DEF Due, Restricted
<1>4. passed' = IF link = NoLink
                THEN {s[i] : i \in DOMAIN s} \ {Rest(s)[i] : i \in DOMAIN Rest(s)}
                ELSE passed
  BY DEF Fetches
<1>5. CASE k \notin Candidates
  <2>1. link # NoLink /\ Resumable /\ Handled(k)
    BY <1>2, <1>5, BeforeFetch
  <2>2. ~Shown(k)'
    <3>1. /\ kept \in Seq(Candidates) /\ Len(page') = Len(kept)
          /\ page' \in Seq([k : keys, v : Column])
          /\ \A i \in 1..Len(kept) : page'[i] = [k |-> kept[i], v |-> Fetched(kept[i])]
      BY <1>1, PageRows
    <3>2. ASSUME NEW i \in DOMAIN page' PROVE page'[i].k # k
      <4>1. i \in 1..Len(kept)
        BY <3>1, LenProperties
      <4>2. page'[i] = [k |-> kept[i], v |-> Fetched(kept[i])]
        BY <3>1, <4>1, Zenon
      <4>3. page'[i].k = kept[i]
        BY ONLY <4>2
      <4>4. kept[i] \in Candidates
        BY <3>1, <4>1, ElementOfSeq
      <4> QED BY <1>5, <4>3, <4>4
    <3> QED BY <3>2 DEF Shown
  <2>3. l # NoLink => ~Ahead(k, l)
    BY <1>2, <1>3, <1>5, <2>1, AfterFetch
  <2> QED BY <1>4, <2>1, <2>2, <2>3 DEF Handled
<1>6. CASE k \in Candidates
  <2>1. PICK p \in 1..Len(s) : s[p] = k
    BY <1>2, <1>6
  <2>2. Shown(k)' <=> p > Skipped /\ (top = None \/ p <= Skipped + top)
    <3>1. Restricted(s[p], req.restrict) /\ (req.restrict = "memory" => top = None)
      BY <1>1, <1>3, <2>1, ExactWalks
    <3>2. Shown(s[p])' <=> p > Skipped /\ (top = None \/ p <= Skipped + top)
      BY <1>1, <3>1, ShownRows
    <3> QED BY <2>1, <3>2
  <2>3. p > Skipped => returned[k] = 0
    BY <1>2, <2>1, BeforeFetch
  <2>4. p <= Skipped => returned[k] = 1 \/ k \in passed'
    <3> SUFFICES ASSUME p <= Skipped, link = NoLink PROVE k \in passed'
      BY <1>2, <1>4, <2>1, BeforeFetch DEF Handled
    <3>1. k \in {s[i] : i \in DOMAIN s}
      BY <1>2, <2>1, LenProperties
    <3>2. ASSUME NEW i \in DOMAIN Rest(s) PROVE Rest(s)[i] # k
      <4>1. /\ Rest(s) \in Seq(Candidates)
            /\ \A h \in 1..Len(Rest(s)) :
                 Skipped + h \in 1..Len(s) /\ Rest(s)[h] = s[Skipped + h]
        BY <1>1, <1>2, RestOfRows DEF Options
      <4>2. i \in 1..Len(Rest(s))
        BY <4>1, LenProperties
      <4>3. Skipped + i \in 1..Len(s) /\ Rest(s)[i] = s[Skipped + i] /\ Skipped + i # p
        BY <1>1, <4>1, <4>2
      <4> QED BY <1>2, <2>1, <4>3
    <3> QED BY <1>4, <3>1, <3>2
  <2>5. /\ l = NoLink => top = None \/ Len(s) <= Skipped + top
        /\ l # NoLink => top \in Nat /\ (Ahead(k, l) <=> p > Skipped + top)
    BY <1>2, <2>1, AfterFetch
  <2>6. top = None \/ (top \in Nat /\ top # None)
    BY <1>1 DEF Number, None
  <2>7. l # NoLink => top # None
    BY <2>5 DEF None
  <2> HIDE DEF Skipped
  <2>8. CASE p <= Skipped
    BY <1>1, <2>1, <2>2, <2>4, <2>5, <2>8
  <2>9. CASE p > Skipped
    BY <1>1, <1>2, <2>1, <2>2, <2>3, <2>5, <2>6, <2>7, <2>9
  <2> QED BY <1>1, <2>1, <2>8, <2>9
<1> QED BY <1>5, <1>6

-----------------------------------------------------------------------------
(* The steps.                                                              *)

\* A walk begins with nothing returned.
LEMMA WalkInit == Init => WalkInv
<1> SUFFICES ASSUME Init PROVE WalkInv
  OBVIOUS
<1>1. req \in Options /\ Requests \subseteq Options
  BY CollectionReadAssumption DEF Init
<1>2. TypeOK
  <2>1. \E S \in SUBSET keys : rows \in [S -> Column]
    BY DEF Init
  <2> QED BY <1>1, <2>1 DEF Init, TypeOK, Options, Number
<1>3. PageOK
  BY DEF Init, PageOK
<1>4. LinksAgree
  BY <1>1 DEF Init, LinksAgree, Asking
<1>5. WalkContinues /\ PageAdvances /\ WalkIsDone
  BY DEF Init, WalkContinues, PageAdvances, WalkIsDone
<1>6. StillTable
  BY DEF Init, StillTable
<1> QED BY <1>2, <1>3, <1>4, <1>5, <1>6 DEF WalkInv

\* While the table stands still, what lies ahead of a cursor does.
LEMMA TableFrame ==
  ASSUME UNCHANGED table
  PROVE  /\ \A k, r : Ahead(k, r)' <=> Ahead(k, r)
         /\ req' = req => /\ \A k : Due(k)' <=> Due(k)
                          /\ CountRows' = CountRows
         /\ req' = req /\ top' = top => /\ Resumable' <=> Resumable
                                        /\ Countable' <=> Countable
BY DEF table, Resumable, Countable, Due, Ahead, AfterToken, Rank, Selected,
       Before, CountRows

\* The count is a number.
LEMMA CountIsNumber == TypeOK => CountRows \in Nat
<1> SUFFICES ASSUME TypeOK PROVE CountRows \in Nat
  OBVIOUS
<1>1. IsFiniteSet({k \in DOMAIN rows : Restricted(k, req.restrict)})
  BY KeysOfTable, FS_Subset
<1> QED BY <1>1, FS_CardinalityType DEF CountRows

\* parseCollectionQueryOptions gives the page its size.
LEMMA ParseKeeps == WalkInv /\ ParseQueryOptions => WalkInv'
<1> SUFFICES ASSUME WalkInv, ParseQueryOptions PROVE WalkInv'
  OBVIOUS
<1> USE DEF WalkInv
<1>0. /\ pc = "begun" /\ pc' \in {"count", "failed"}
      /\ UNCHANGED <<table, req, total, page, link, returned, passed>>
      /\ pc' = "count" => ValidOptions /\ top' = PageSize(req)
      /\ pc' = "failed" => top' = top
  BY DEF ParseQueryOptions
<1>1. UNCHANGED <<keys, nullable, rows, touched, clean>>
  BY <1>0 DEF table
<1>2. req \in Options /\ PageSize(req) \in Number
  BY DEF LinksAgree, Options, PageSize, Number
<1>3. TypeOK'
  BY <1>0, <1>1, <1>2 DEF TypeOK, Column, Number
<1>4. PageOK'
  BY <1>0, <1>1 DEF PageOK, Column, Distinct
<1>5. link # NoLink => top' = top
  BY <1>0 DEF LinksAgree
<1>6. /\ \A k : Due(k)' <=> Due(k)
      /\ CountRows' = CountRows
      /\ \A k, r : Ahead(k, r)' <=> Ahead(k, r)
      /\ link # NoLink => (Resumable' <=> Resumable) /\ (Countable' <=> Countable)
  BY <1>0, <1>5, TableFrame
<1>7. LinksAgree'
  <2>1. link = NoLink /\ pc' = "count" => req.token = NoToken
    <3> SUFFICES ASSUME link = NoLink, pc' = "count" PROVE req.token = NoToken
      OBVIOUS
    <3>1. req \in Requests /\ req.token # Garbage /\ (req.skip = None \/ req.token = NoToken)
      BY <1>0 DEF LinksAgree, ValidOptions
    <3>2. req.token.kind = "row" => req.skip # None
      BY <3>1, CollectionReadAssumption
    <3>3. req.token = NoToken \/ req.token.kind = "row"
      BY <1>2, <3>1 DEF Options, Tokens
    <3> QED BY <3>1, <3>2, <3>3
  <2>2. link # NoLink => SameWalk(link, req) /\ Cursor(link)'
    BY <1>0, <1>6 DEF LinksAgree, Cursor
  <2>3. PageSize(req)' = PageSize(req)
    BY <1>0 DEF PageSize
  <2>4. link' = link /\ req' = req /\ returned' = returned /\ passed' = passed /\ keys' = keys
    BY <1>0, <1>1
  <2>5. link # NoLink => top' = PageSize(req)
    BY <1>0 DEF LinksAgree
  <2>6. link # NoLink => req = link
    BY <1>0 DEF LinksAgree, Asking
  <2>7. link = NoLink => returned = [k \in keys |-> 0] /\ passed = {}
    BY <1>0 DEF LinksAgree, Asking
  <2> QED BY <1>0, <1>2, <2>1, <2>2, <2>3, <2>4, <2>5, <2>6, <2>7 DEF LinksAgree, SameWalk, Asking
<1>8. WalkContinues'
  <2>1. link # NoLink /\ (Resumable' \/ Countable') =>
          \A k \in keys : Due(k) => IF Ahead(k, link) THEN returned[k] = 0 ELSE Handled(k)
    BY <1>0, <1>6 DEF WalkContinues, Asking
  <2>2. \A k : Handled(k)' <=> Handled(k)
    BY <1>0 DEF Handled
  <2> QED BY <1>0, <1>1, <1>6, <2>1, <2>2 DEF WalkContinues
<1>9. PageAdvances' /\ WalkIsDone'
  BY <1>0 DEF PageAdvances, WalkIsDone
<1>10. StillTable'
  BY <1>0, <1>1, <1>6 DEF StillTable, Restricted
<1> QED BY <1>3, <1>4, <1>7, <1>8, <1>9, <1>10

\* countEntities counts the table there is.
LEMMA CountKeeps == WalkInv /\ CountEntities => WalkInv'
<1> SUFFICES ASSUME WalkInv, CountEntities PROVE WalkInv'
  OBVIOUS
<1> USE DEF WalkInv
<1>0. /\ pc = "count" /\ pc' \in {"fetch", "failed"}
      /\ UNCHANGED <<table, req, top, page, link, returned, passed>>
      /\ total' \in {total, CountRows, None}
  BY DEF CountEntities
<1>1. UNCHANGED <<keys, nullable, rows, touched, clean>>
  BY <1>0 DEF table
<1>2. /\ \A k : Due(k)' <=> Due(k)
      /\ CountRows' = CountRows
      /\ \A k, r : Ahead(k, r)' <=> Ahead(k, r)
      /\ (Resumable' <=> Resumable) /\ (Countable' <=> Countable)
  BY <1>0, TableFrame
<1>3. TypeOK'
  BY <1>0, <1>1, CountIsNumber DEF TypeOK, Column
<1>4. PageOK'
  BY <1>0, <1>1 DEF PageOK, Column, Distinct
<1>5. LinksAgree'
  BY <1>0, <1>1, <1>2 DEF LinksAgree, SameWalk, Cursor, Asking, PageSize
<1>6. WalkContinues'
  <2>1. \A k : Handled(k)' <=> Handled(k)
    BY <1>0 DEF Handled
  <2> QED BY <1>0, <1>1, <1>2, <2>1 DEF WalkContinues, Asking
<1>7. PageAdvances' /\ WalkIsDone'
  BY <1>0 DEF PageAdvances, WalkIsDone
<1>8. StillTable'
  BY <1>0, <1>1, <1>2 DEF StillTable, Restricted
<1> QED BY <1>3, <1>4, <1>5, <1>6, <1>7, <1>8

\* fetchResults reads the next page.
LEMMA FetchResultsKeeps == WalkInv /\ FetchResults => WalkInv'
<1> SUFFICES ASSUME WalkInv, FetchResults PROVE WalkInv'
  OBVIOUS
<1> USE DEF WalkInv
<1>0. /\ pc = "fetch"
      /\ UNCHANGED <<table, req, top, total, link, returned>>
      /\ \/ pc' = "failed" /\ UNCHANGED <<page, passed>>
         \/ pc' = "fetched" /\ \E s, kept : Fetches(s, kept)
  BY FetchCases
<1>1. UNCHANGED <<keys, nullable, rows, touched, clean>>
  BY <1>0 DEF table
<1>2. /\ CountRows' = CountRows
      /\ (Resumable' <=> Resumable) /\ (Countable' <=> Countable)
  BY <1>0, TableFrame
<1>3. req \in Options
  BY DEF LinksAgree
<1>4. LinksAgree'
  BY <1>0, <1>1, <1>2 DEF LinksAgree, SameWalk, Cursor, Asking, PageSize
<1>5. WalkContinues' /\ WalkIsDone'
  BY <1>0 DEF WalkContinues, WalkIsDone, Asking
<1>6. CASE pc' = "failed" /\ UNCHANGED <<page, passed>>
  <2>1. TypeOK' /\ PageOK' /\ PageAdvances' /\ StillTable'
    BY <1>0, <1>1, <1>2, <1>6
       DEF TypeOK, PageOK, Column, Distinct, PageAdvances, StillTable, Restricted
  <2> QED BY <1>4, <1>5, <2>1
<1>7. CASE pc' = "fetched" /\ \E s, kept : Fetches(s, kept)
  <2>1. PICK s, kept : Fetches(s, kept)
    BY <1>7
  <2>2. PageAdvances'
    BY <1>0, <2>1, FetchAdvances
  <2>3. /\ Enumerates(s, Candidates)
        /\ page' \in Seq([k : keys, v : Column]) /\ Len(page') = Len(kept)
        /\ \A i \in 1..Len(kept) : page'[i] = [k |-> kept[i], v |-> Fetched(kept[i])]
        /\ kept \in Seq(Candidates)
        /\ \A i \in 1..Len(kept) : Restricted(kept[i], req.restrict)
    BY <1>3, <2>1, PageRows
  <2>4. Candidates \subseteq DOMAIN rows /\ DOMAIN rows \subseteq keys
    BY KeysOfTable DEF Candidates
  <2>5. passed' = passed \/ passed' \subseteq Candidates
    <3>1. {s[i] : i \in DOMAIN s} \subseteq Candidates
      BY <2>3, ElementOfSeq, LenProperties DEF Enumerates
    <3> QED BY <2>1, <3>1 DEF Fetches
  <2>6. \A i \in DOMAIN page' : page'[i].k \in Candidates /\ Restricted(page'[i].k, req.restrict)
    <3> SUFFICES ASSUME NEW i \in DOMAIN page'
                 PROVE  page'[i].k \in Candidates /\ Restricted(page'[i].k, req.restrict)
      OBVIOUS
    <3>1. i \in 1..Len(kept)
      BY <2>3, LenProperties
    <3>2. page'[i] = [k |-> kept[i], v |-> Fetched(kept[i])]
      BY <2>3, <3>1, Zenon
    <3>3. page'[i].k = kept[i]
      BY ONLY <3>2
    <3> QED BY <2>3, <3>1, <3>3, ElementOfSeq
  <2>7. TypeOK'
    BY <1>0, <1>1, <1>7, <2>4, <2>5, <2>6 DEF TypeOK, Column
  <2>8. PageOK'
    BY <1>1, <2>3 DEF PageOK, Column, Distinct
  <2>9. StillTable'
    BY <1>0, <1>1, <1>2, <2>4, <2>5, <2>6 DEF StillTable, Restricted
  <2> QED BY <1>4, <1>5, <2>2, <2>7, <2>8, <2>9
<1> QED BY <1>0, <1>6, <1>7

\* The rows of the response are those shown.
LEMMA ResponseIsShown ==
  ASSUME TypeOK, PageOK, NEW k
  PROVE  (\E i \in DOMAIN Limit(page, top) : Limit(page, top)[i].k = k) <=> Shown(k)
<1>1. page \in Seq([k : keys, v : Column]) /\ DOMAIN page = 1..Len(page) /\ Len(page) \in Nat
  BY LenProperties DEF PageOK
<1>2. CASE top = None \/ top >= Len(page)
  <2>1. Limit(page, top) = page
    BY <1>2 DEF Limit
  <2>2. \A i \in DOMAIN page : top = None \/ i <= top
    BY <1>1, <1>2 DEF TypeOK
  <2> QED BY <2>1, <2>2 DEF Shown
<1>3. CASE ~(top = None \/ top >= Len(page))
  <2> DEFINE w == Limit(page, top)
  <2>1. top \in Nat /\ top < Len(page) /\ w = SubSeq(page, 1, top)
    BY <1>1, <1>3 DEF Limit, TypeOK
  <2>2. DOMAIN w = 1..top /\ \A i \in 1..top : w[i] = page[i]
    <3>1. \A i \in 1..top : page[i] \in [k : keys, v : Column]
      <4>1. \A i \in 1..top : i \in 1..Len(page)
        BY <1>1, <2>1
      <4> QED BY <1>1, <4>1, ElementOfSeq
    <3>2. /\ w \in Seq([k : keys, v : Column])
          /\ Len(w) = IF 1 <= top THEN top - 1 + 1 ELSE 0
          /\ \A i \in 1..(top - 1 + 1) : w[i] = page[1 + i - 1]
      BY <2>1, <3>1, SubSeqProperties
    <3>3. Len(w) = top
      BY <2>1, <3>2
    <3>4. \A i \in 1..top : w[i] = page[i]
      BY <2>1, <3>2
    <3> QED BY <3>2, <3>3, <3>4, LenProperties
  <2>3. \A i : i \in 1..top <=> i \in DOMAIN page /\ i <= top
    BY <1>1, <2>1
  <2>4. top # None
    BY <1>3
  <2> HIDE DEF w
  <2>5. (\E i \in DOMAIN w : w[i].k = k) <=> \E i \in DOMAIN page : page[i].k = k /\ i <= top
    BY <2>2, <2>3
  <2> QED BY <2>4, <2>5 DEF w, Shown
<1> QED BY <1>2, <1>3

\* The response shows the page, and its link leaves it behind.
LEMMA ResponseKeeps == WalkInv /\ WriteResponse => WalkInv'
<1> SUFFICES ASSUME WalkInv, WriteResponse PROVE WalkInv'
  OBVIOUS
<1> USE DEF WalkInv
<1>0. /\ pc = "fetched" /\ UNCHANGED <<table, req, top, total, page, passed>>
      /\ \/ /\ link' \in NextLinks
            /\ pc' = IF link' = NoLink THEN "ended" ELSE "answered"
            /\ returned' = [k \in keys |->
                 IF \E i \in DOMAIN Limit(page, top) : Limit(page, top)[i].k = k
                 THEN IF returned[k] = 2 THEN 2 ELSE returned[k] + 1
                 ELSE returned[k]]
         \/ pc' = "failed" /\ UNCHANGED <<link, returned>>
  BY DEF WriteResponse
<1>1. UNCHANGED <<keys, nullable, rows, touched, clean>>
  BY <1>0 DEF table
<1>2. /\ \A k : Due(k)' <=> Due(k)
      /\ CountRows' = CountRows
      /\ \A k, r : Ahead(k, r)' <=> Ahead(k, r)
      /\ (Resumable' <=> Resumable) /\ (Countable' <=> Countable)
  BY <1>0, TableFrame
<1>3. req \in Options
  BY DEF LinksAgree
<1>4. PageOK' /\ PageAdvances'
  BY <1>0, <1>1 DEF PageOK, Column, Distinct, PageAdvances
<1>5. CASE pc' = "failed" /\ UNCHANGED <<link, returned>>
  <2>1. TypeOK' /\ WalkContinues' /\ WalkIsDone'
    BY <1>0, <1>1, <1>5 DEF TypeOK, Column, WalkContinues, WalkIsDone, Asking
  <2>2. StillTable'
    BY <1>0, <1>1, <1>2, <1>5 DEF StillTable, Restricted
  <2>3. LinksAgree'
    BY <1>0, <1>1, <1>2, <1>5 DEF LinksAgree, SameWalk, Cursor, Asking, PageSize
  <2> QED BY <1>4, <2>1, <2>2, <2>3
<1>6. CASE /\ link' \in NextLinks
           /\ pc' = IF link' = NoLink THEN "ended" ELSE "answered"
           /\ returned' = [k \in keys |->
                IF \E i \in DOMAIN Limit(page, top) : Limit(page, top)[i].k = k
                THEN IF returned[k] = 2 THEN 2 ELSE returned[k] + 1
                ELSE returned[k]]
  <2>1. returned' = [k \in keys |->
                      IF Shown(k) THEN IF returned[k] = 2 THEN 2 ELSE returned[k] + 1
                      ELSE returned[k]]
    BY <1>6, ResponseIsShown
  <2>2. returned \in [keys -> 0..2] /\ returned' \in [keys -> 0..2]
    BY <2>1 DEF TypeOK
  <2>3. link' # NoLink => SameWalk(link', req) /\ Cursor(link') /\ Cursor(link)'
    <3>1. link' # NoLink => SameWalk(link', req) /\ Cursor(link')
      BY <1>3, <1>6, NextLinksAre, LinkFor DEF PageOK
    <3> QED BY <1>2, <3>1 DEF Cursor
  <2>4. TypeOK'
    BY <1>0, <1>1, <1>6, <2>2, <2>3 DEF TypeOK, Column, Cursor
  <2>5. LinksAgree'
    <3>1. top = PageSize(req)
      BY <1>0 DEF LinksAgree
    <3>2. pc' \in {"ended", "answered"} /\ (pc' = "answered" => link' # NoLink)
      BY <1>6
    <3>3. link' # NoLink => SameWalk(link', req') /\ Cursor(link)'
      BY <1>0, <2>3 DEF SameWalk
    <3> QED BY <1>0, <1>3, <3>1, <3>2, <3>3 DEF LinksAgree, Asking, PageSize
  <2>6. ASSUME Resumable \/ Countable, NEW k \in keys, Due(k)
        PROVE  IF link' # NoLink /\ Ahead(k, link') THEN returned'[k] = 0 ELSE Handled(k)'
    <3>1. IF Shown(k) THEN returned[k] = 0 /\ (link' # NoLink => ~Ahead(k, link'))
          ELSE IF link' # NoLink /\ Ahead(k, link') THEN returned[k] = 0
          ELSE Handled(k)
      BY <1>0, <1>6, <2>6 DEF PageAdvances
    <3>2. returned'[k] = IF Shown(k) THEN IF returned[k] = 2 THEN 2 ELSE returned[k] + 1
                         ELSE returned[k]
      BY <2>1
    <3> QED BY <1>0, <3>1, <3>2 DEF Handled
  <2>7. WalkContinues'
    <3> SUFFICES ASSUME link' # NoLink, Resumable \/ Countable, NEW k \in keys, Due(k)
                 PROVE  IF Ahead(k, link') THEN returned'[k] = 0 ELSE Handled(k)'
      BY <1>1, <1>2 DEF WalkContinues
    <3> QED BY <2>6
  <2>8. WalkIsDone'
    <3> SUFFICES ASSUME link' = NoLink, Resumable \/ Countable, NEW k \in keys, Due(k)
                 PROVE  Handled(k)'
      BY <1>1, <1>2, <1>6 DEF WalkIsDone
    <3> QED BY <2>6
  <2>9. StillTable'
    <3>1. pc' # "fetched"
      BY <1>6
    <3>2. ASSUME touched = {}, NEW k \in keys, returned'[k] > 0
          PROVE  k \in DOMAIN rows /\ Restricted(k, req.restrict)
      <4>1. Shown(k) \/ returned[k] > 0
        BY <2>1, <3>2
      <4> QED BY <1>0, <3>2, <4>1 DEF StillTable, Shown
    <3> QED BY <1>0, <1>1, <1>2, <3>1, <3>2 DEF StillTable, Restricted
  <2> QED BY <1>4, <2>4, <2>5, <2>7, <2>8, <2>9
<1> QED BY <1>0, <1>5, <1>6

\* What a link keeps of its request.
LEMMA LinkKeepsOptions ==
  ASSUME NEW r \in Options, NEW l, SameWalk(l, r)
  PROVE  /\ l \in Options /\ SameWalk(l, l) /\ PageSize(l) = PageSize(r)
         /\ l.orderby = r.orderby /\ l.shape = r.shape /\ l.restrict = r.restrict
<1>1. l \in Options /\ l = [r EXCEPT !.skip = l.skip, !.token = l.token]
  BY DEF SameWalk
<1>2. /\ l.orderby = r.orderby /\ l.shape = r.shape /\ l.restrict = r.restrict
      /\ l.top = r.top /\ l.maxpage = r.maxpage
      /\ l.entityTop = r.entityTop /\ l.serviceTop = r.serviceTop
  BY <1>1 DEF Options
<1>3. l = [l EXCEPT !.skip = l.skip, !.token = l.token]
  BY <1>1 DEF Options
<1> QED BY <1>1, <1>2, <1>3 DEF SameWalk, PageSize

\* The client follows the link.
LEMMA FollowKeeps == WalkInv /\ FollowLink => WalkInv'
<1> SUFFICES ASSUME WalkInv, FollowLink PROVE WalkInv'
  OBVIOUS
<1> USE DEF WalkInv
<1>0. /\ pc = "answered" /\ pc' = "begun" /\ req' = link
      /\ UNCHANGED <<table, top, total, page, link, returned, passed>>
  BY DEF FollowLink
<1>1. UNCHANGED <<keys, nullable, rows, touched, clean>>
  BY <1>0 DEF table
<1>2. /\ link # NoLink /\ req \in Options /\ SameWalk(link, req) /\ Cursor(link)
      /\ top = PageSize(req)
  BY <1>0 DEF LinksAgree
<1>3. /\ link \in Options /\ SameWalk(link, link) /\ PageSize(link) = PageSize(req)
      /\ link.orderby = req.orderby /\ link.shape = req.shape /\ link.restrict = req.restrict
  BY <1>2, LinkKeepsOptions
<1>4. \A k, r : Ahead(k, r)' <=> Ahead(k, r)
  BY <1>0, TableFrame
<1>5. /\ (Resumable' <=> Resumable) /\ (Countable' <=> Countable)
      /\ \A k : Due(k)' <=> Due(k)
      /\ CountRows' = CountRows
  BY <1>0, <1>1, <1>3 DEF Resumable, Countable, Due, CountRows, Restricted
<1>6. TypeOK'
  BY <1>0, <1>1, <1>3 DEF TypeOK, Column, Options, Number
<1>7. PageOK'
  BY <1>0, <1>1 DEF PageOK, Column, Distinct
<1>8. LinksAgree'
  <2>1. Cursor(link)'
    BY <1>0, <1>2, <1>5 DEF Cursor
  <2> QED BY <1>0, <1>2, <1>3, <2>1 DEF LinksAgree, SameWalk, Asking, PageSize
<1>9. WalkContinues'
  <2>1. \A k : Handled(k)' <=> Handled(k)
    BY <1>0 DEF Handled
  <2> QED BY <1>0, <1>1, <1>2, <1>4, <1>5, <2>1 DEF WalkContinues
<1>10. PageAdvances' /\ WalkIsDone'
  BY <1>0 DEF PageAdvances, WalkIsDone
<1>11. StillTable'
  BY <1>0, <1>1, <1>3, <1>5 DEF StillTable, Restricted
<1> QED BY <1>6, <1>7, <1>8, <1>9, <1>10, <1>11

\* A write of another client owes the walk nothing about its own row, and
\* moves no other row across a token.
LEMMA WriteKeeps == ASSUME NEW k \in keys PROVE WalkInv /\ Write(k) => WalkInv'
<1> SUFFICES ASSUME WalkInv, Write(k) PROVE WalkInv'
  OBVIOUS
<1> USE DEF WalkInv
<1>0. /\ touched' = touched \cup {k} /\ clean' = (clean /\ Distinct(rows'))
      /\ UNCHANGED <<keys, nullable, pc, req, top, total, page, link, returned, passed>>
      /\ \/ rows' = [j \in DOMAIN rows \ {k} |-> rows[j]]
         \/ \E v \in Column :
              rows' = [j \in DOMAIN rows \cup {k} |-> IF j = k THEN v ELSE rows[j]]
  BY DEF Write, walk
<1>1. /\ \E S \in SUBSET keys : rows' \in [S -> Column]
      /\ \A j \in DOMAIN rows' : j # k => j \in DOMAIN rows /\ rows'[j] = rows[j]
  <2>1. \A j \in DOMAIN rows : rows[j] \in Column
    BY KeysOfTable
  <2>2. DOMAIN rows \subseteq keys
    BY KeysOfTable
  <2>3. CASE rows' = [j \in DOMAIN rows \ {k} |-> rows[j]]
    <3>1. rows' \in [DOMAIN rows \ {k} -> Column]
      BY <2>1, <2>3
    <3> QED BY <2>2, <2>3, <3>1
  <2>4. CASE \E v \in Column :
               rows' = [j \in DOMAIN rows \cup {k} |-> IF j = k THEN v ELSE rows[j]]
    <3>1. rows' \in [DOMAIN rows \cup {k} -> Column]
      BY <2>1, <2>4
    <3> QED BY <2>2, <2>4, <3>1
  <2> QED BY <1>0, <2>3, <2>4
<1>2. touched' # {} /\ ~Countable' /\ (Resumable' => Resumable)
  BY <1>0 DEF Countable, Resumable
<1>3. ASSUME NEW j, Due(j)'
      PROVE  Due(j) /\ j \in DOMAIN rows' /\ rows'[j] = rows[j]
  BY <1>0, <1>1, <1>3 DEF Due, Restricted
<1>4. ASSUME NEW j, Due(j)', NEW l, l.token # NoToken
      PROVE  Ahead(j, l)' <=> Ahead(j, l)
  BY <1>3, <1>4 DEF Ahead, AfterToken
<1>5. \A j : Handled(j)' <=> Handled(j)
  BY <1>0 DEF Handled
<1>6. TypeOK'
  <2>1. Column' = Column
    BY <1>0 DEF Column
  <2> QED BY <1>0, <1>1, <2>1 DEF TypeOK
<1>7. PageOK'
  BY <1>0 DEF PageOK, Column, Distinct
<1>8. LinksAgree'
  <2>1. link # NoLink => Cursor(link)'
    BY <1>0, <1>2 DEF LinksAgree, Cursor
  <2> QED BY <1>0, <2>1 DEF LinksAgree, SameWalk, Asking, PageSize
<1>9. WalkContinues'
  <2> SUFFICES ASSUME link # NoLink, Asking \/ pc = "answered", Resumable', NEW j \in keys, Due(j)'
               PROVE  IF Ahead(j, link)' THEN returned[j] = 0 ELSE Handled(j)'
    BY <1>0, <1>2 DEF WalkContinues, Asking
  <2>1. link.token # NoToken
    BY <1>2 DEF LinksAgree, Cursor
  <2>2. IF Ahead(j, link) THEN returned[j] = 0 ELSE Handled(j)
    BY <1>2, <1>3 DEF WalkContinues
  <2>3. link' = link
    BY <1>0
  <2>4. Ahead(j, link)' <=> Ahead(j, link)
    <3>1. \A l : l.token # NoToken => (AfterToken(j, l.token, l.orderby)' <=> AfterToken(j, l.token, l.orderby))
      BY <1>3 DEF AfterToken
    <3> QED BY <2>1, <2>3, <1>3 DEF Ahead, AfterToken
  <2> QED BY <1>5, <2>2, <2>4
<1>10. PageAdvances'
  <2>0. NextLinks' = NextLinks /\ (\A j : Shown(j)' <=> Shown(j))
    BY <1>0 DEF NextLinks, Shown
  <2> SUFFICES ASSUME pc = "fetched", Resumable', NEW j \in keys, NEW l \in NextLinks, Due(j)'
               PROVE  IF Shown(j) THEN returned[j] = 0 /\ (l # NoLink => ~Ahead(j, l)')
                      ELSE IF l # NoLink /\ Ahead(j, l)' THEN returned[j] = 0
                      ELSE Handled(j)
    BY <1>0, <1>2, <1>5, <2>0 DEF PageAdvances
  <2>1. l # NoLink => l.token # NoToken
    <3>1. l # NoLink => Cursor(l)
      BY NextLinksAre, LinkFor DEF LinksAgree, PageOK
    <3> QED BY <1>2, <3>1 DEF Cursor
  <2>2. l # NoLink => (Ahead(j, l)' <=> Ahead(j, l))
    BY <1>4, <2>1
  <2>3. IF Shown(j) THEN returned[j] = 0 /\ (l # NoLink => ~Ahead(j, l))
        ELSE IF l # NoLink /\ Ahead(j, l) THEN returned[j] = 0
        ELSE Handled(j)
    BY <1>2, <1>3 DEF PageAdvances
  <2> QED BY <2>2, <2>3
<1>11. WalkIsDone'
  BY <1>0, <1>2, <1>3, <1>5 DEF WalkIsDone
<1>12. StillTable'
  BY <1>2 DEF StillTable
<1> QED BY <1>6, <1>7, <1>8, <1>9, <1>10, <1>11, <1>12

-----------------------------------------------------------------------------
(* The theorems.                                                           *)

\* WalkInv is inductive: no step of the handler, of the client or of another
\* client breaks it (collection_read.go).
THEOREM WalkInvariance == Spec => []WalkInv
<1>1. WalkInv /\ [Next]_vars => WalkInv'
  <2> SUFFICES ASSUME WalkInv, [Next]_vars PROVE WalkInv'
    OBVIOUS
  <2>1. CASE ParseQueryOptions
    BY <2>1, ParseKeeps
  <2>2. CASE CountEntities
    BY <2>2, CountKeeps
  <2>3. CASE FetchResults
    BY <2>3, FetchResultsKeeps
  <2>4. CASE WriteResponse
    BY <2>4, ResponseKeeps
  <2>5. CASE FollowLink
    BY <2>5, FollowKeeps
  <2>6. CASE \E k \in keys : Write(k)
    BY <2>6, WriteKeeps
  <2>7. CASE UNCHANGED vars
    <3>1. /\ UNCHANGED <<keys, nullable, rows, pc, req, top, total, page, link,
                         returned, passed, touched, clean>>
          /\ UNCHANGED table
      BY <2>7 DEF vars, table
    <3>2. /\ \A k : Due(k)' <=> Due(k)
          /\ CountRows' = CountRows
          /\ \A k, r : Ahead(k, r)' <=> Ahead(k, r)
          /\ (Resumable' <=> Resumable) /\ (Countable' <=> Countable)
      BY <3>1, TableFrame
    <3>3. NextLinks' = NextLinks /\ \A k : (Shown(k)' <=> Shown(k)) /\ (Handled(k)' <=> Handled(k))
      BY <3>1 DEF NextLinks, Shown, Handled
    <3>4. TypeOK' /\ PageOK'
      BY <3>1 DEF WalkInv, TypeOK, PageOK, Column, Distinct
    <3>5. LinksAgree'
      BY <3>1, <3>2 DEF WalkInv, LinksAgree, SameWalk, Cursor, Asking, PageSize
    <3>6. WalkContinues' /\ WalkIsDone'
      BY <3>1, <3>2, <3>3 DEF WalkInv, WalkContinues, WalkIsDone, Asking
    <3>7. PageAdvances'
      BY <3>1, <3>2, <3>3 DEF WalkInv, PageAdvances
    <3>8. StillTable'
      BY <3>1, <3>2 DEF WalkInv, StillTable, Restricted
    <3> QED BY <3>4, <3>5, <3>6, <3>7, <3>8 DEF WalkInv
  <2> QED BY <2>1, <2>2, <2>3, <2>4, <2>5, <2>6, <2>7 DEF Next, ServerStep
<1> QED BY <1>1, WalkInit, PTL DEF Spec

\* A walk over pages loses and repeats no row that stayed, whatever is
\* written around it, and agrees with its count while nobody writes
\* (applySkipTokenFilter, calculateNextLink, countEntities).
THEOREM WalkReturnsEachRowOnce == Spec => []WalkIsExact
<1>1. WalkInv => WalkIsExact
  <2> SUFFICES ASSUME WalkInv PROVE WalkIsExact
    OBVIOUS
  <2> USE DEF WalkInv
  <2>1. DOMAIN rows \subseteq keys
    BY KeysOfTable
  <2>2. UntouchedRowsExactlyOnce
    BY <2>1 DEF UntouchedRowsExactlyOnce, WalkIsDone, Due, Handled
  <2>3. CountMatchesWalk
    <3> SUFFICES ASSUME pc = "ended", total # None, touched = {}, Resumable \/ Countable
                 PROVE  total = Cardinality({k \in keys : returned[k] > 0} \cup
                                            {k \in passed : Restricted(k, req.restrict)})
      BY DEF CountMatchesWalk
    <3>1. total = CountRows
      BY DEF StillTable
    <3>2. {k \in DOMAIN rows : Restricted(k, req.restrict)} =
          {k \in keys : returned[k] > 0} \cup {k \in passed : Restricted(k, req.restrict)}
      <4>1. ASSUME NEW k \in DOMAIN rows, Restricted(k, req.restrict)
            PROVE  k \in keys /\ (returned[k] > 0 \/ k \in passed)
        BY <2>1, <4>1 DEF WalkIsDone, Due, Handled
      <4>2. ASSUME NEW k \in keys, returned[k] > 0
            PROVE  k \in DOMAIN rows /\ Restricted(k, req.restrict)
        BY <4>2 DEF StillTable
      <4>3. passed \subseteq DOMAIN rows
        BY DEF StillTable
      <4> QED BY <4>1, <4>2, <4>3
    <3> QED BY <3>1, <3>2 DEF CountRows
  <2> QED BY <2>2, <2>3 DEF WalkIsExact
<1> QED BY <1>1, WalkInvariance, PTL
=============================================================================
