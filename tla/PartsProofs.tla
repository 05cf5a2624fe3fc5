----------------------------- MODULE PartsProofs -----------------------------
(***************************************************************************)
(* What holds of the parts that compute, for every value of their          *)
(* constants: the ranking of a query's hits, the chunks of a file, the     *)
(* page of operations and the parameters of a knowledge base.  Each has a  *)
(* section: what its operators give, its inductive invariant, a lemma for  *)
(* each of its actions, the theorem.  What they share, the places picked   *)
(* of a list and what an order lists, comes first.                         *)
(***************************************************************************)
EXTENDS Ranking, Ingestion, Overview, Configuration, FiniteSetTheorems, FunctionTheorems,
  NaturalsInduction, TLAPS

-----------------------------------------------------------------------------
(* Selections: what is read off sets and sequences.                        *)

(* A set of naturals that is not empty has a least member. *)
LEMMA LeastNatural ==
  ASSUME NEW S \in SUBSET Nat, S # {}
  PROVE  \E n \in S : \A m \in S : n <= m
<1> DEFINE Below == {pair \in Nat \X Nat : pair[1] < pair[2]}
<1>1. IsWellFoundedOn(Below, Nat) BY NatLessThanWellFounded DEF OpToRel
<1> HIDE DEF Below
<1>2. PICK n \in S : \A m \in S : <<m, n>> \notin Below BY <1>1, WFMin
<1>3. \A m \in S : ~(m < n) BY <1>2 DEF Below
<1> QED BY <1>3

(* Counting: a set of naturals with 0 and with the next of each but the    *)
(* last has all of them. *)
LEMMA Counting ==
  ASSUME NEW last \in Nat, NEW S, 0 \in S,
         \A n \in 0..(last - 1) : n \in S => n + 1 \in S
  PROVE  0..last \subseteq S
<1> DEFINE others == {n \in 0..last : n \notin S}
<1> SUFFICES ASSUME others # {} PROVE FALSE OBVIOUS
<1>1. PICK n \in others : \A m \in others : n <= m
  <2>1. others \in SUBSET Nat OBVIOUS
  <2> HIDE DEF others
  <2> QED BY <2>1, LeastNatural
<1>2. n \in 0..last /\ n \notin S /\ n # 0 BY <1>1
<1>3. n - 1 \in 0..(last - 1) /\ n - 1 \notin others BY <1>1, <1>2
<1>4. n - 1 \in S BY <1>3
<1>5. n - 1 + 1 \in S BY <1>3, <1>4
<1> QED BY <1>2, <1>5

-----------------------------------------------------------------------------
(* Lists in an order.  UpTo(S, order, x) are the members of S up to x in a *)
(* total order, which is a set of pairs.                                   *)

UpTo(S, order, x) == {y \in S : <<y, x>> \in order}

IsOrder(order, S) ==
  /\ \A x, y \in S : <<x, y>> \in order \/ <<y, x>> \in order
  /\ \A x, y \in S : <<x, y>> \in order /\ <<y, x>> \in order => x = y
  /\ \A x, y, z \in S : <<x, y>> \in order /\ <<y, z>> \in order => <<x, z>> \in order

(* The numbers of members up to each member number the members of a finite *)
(* set from 1 on, in its order.                                            *)
LEMMA Numbered ==
  ASSUME NEW S, IsFiniteSet(S), NEW order, IsOrder(order, S)
  PROVE  /\ [x \in S |-> Cardinality(UpTo(S, order, x))] \in Bijection(S, 1..Cardinality(S))
         /\ \A x, y \in S : Cardinality(UpTo(S, order, x)) <= Cardinality(UpTo(S, order, y))
                            <=> <<x, y>> \in order
<1> DEFINE place == [x \in S |-> Cardinality(UpTo(S, order, x))]
<1>1. Cardinality(S) \in Nat BY FS_CardinalityType
<1>2. ASSUME NEW x \in S PROVE place[x] \in 1..Cardinality(S)
  <2>1. UpTo(S, order, x) \in SUBSET S /\ x \in UpTo(S, order, x) BY DEF UpTo, IsOrder
  <2>2. IsFiniteSet(UpTo(S, order, x)) /\ Cardinality(UpTo(S, order, x)) <= Cardinality(S)
    BY <2>1, FS_Subset
  <2>3. Cardinality(UpTo(S, order, x)) \in Nat BY <2>2, FS_CardinalityType
  <2>4. Cardinality(UpTo(S, order, x)) # 0 BY <2>1, <2>2, FS_EmptySet
  <2> QED BY <2>2, <2>3, <2>4, <1>1
<1>3. ASSUME NEW x \in S, NEW y \in S, <<x, y>> \in order, x # y PROVE place[x] < place[y]
  <2>1. UpTo(S, order, x) \in SUBSET UpTo(S, order, y) BY <1>3 DEF UpTo, IsOrder
  <2>2. y \in UpTo(S, order, y) /\ y \notin UpTo(S, order, x) BY <1>3 DEF UpTo, IsOrder
  <2>3. UpTo(S, order, y) \in SUBSET S BY DEF UpTo
  <2>4. IsFiniteSet(UpTo(S, order, y)) BY <2>3, FS_Subset
  <2>5. /\ Cardinality(UpTo(S, order, x)) <= Cardinality(UpTo(S, order, y))
        /\ Cardinality(UpTo(S, order, y)) # Cardinality(UpTo(S, order, x))
    BY <2>1, <2>2, <2>4, FS_Subset
  <2>6. place[x] \in Int /\ place[y] \in Int BY <1>2, <1>1
  <2> QED BY <2>5, <2>6
<1>4. \A x, y \in S : place[x] <= place[y] <=> <<x, y>> \in order
  <2> TAKE x \in S, y \in S
  <2>1. place[x] \in Int /\ place[y] \in Int BY <1>2, <1>1
  <2>2. CASE x = y BY <2>1, <2>2 DEF IsOrder
  <2>3. CASE x # y /\ <<x, y>> \in order BY <2>1, <2>3, <1>3
  <2>4. CASE x # y /\ <<x, y>> \notin order
    <3>1. <<y, x>> \in order BY <2>4 DEF IsOrder
    <3>2. place[y] < place[x] BY <3>1, <2>4, <1>3
    <3> QED BY <2>1, <2>4, <3>2
  <2> QED BY <2>2, <2>3, <2>4
<1>5. \A x, y \in S : place[x] = place[y] => x = y
  <2> TAKE x \in S, y \in S
  <2> HAVE place[x] = place[y]
  <2>1. place[x] \in Int /\ place[y] \in Int BY <1>2, <1>1
  <2>2. place[x] <= place[y] /\ place[y] <= place[x] BY <2>1
  <2> QED BY <2>2, <1>4 DEF IsOrder
<1>6. place \in Injection(S, 1..Cardinality(S)) BY <1>2, <1>5 DEF Injection, IsInjective
<1>7. IsFiniteSet(1..Cardinality(S)) /\ Cardinality(1..Cardinality(S)) = Cardinality(S)
  BY <1>1, FS_Interval
<1>8. place \in Surjection(S, 1..Cardinality(S)) BY <1>6, <1>7, FS_Injection
<1>9. place \in Bijection(S, 1..Cardinality(S)) BY <1>6, <1>8 DEF Bijection
<1> QED BY <1>4, <1>9

(* A list that has the member with number n at place n. *)
LEMMA Listed ==
  ASSUME NEW S, IsFiniteSet(S), NEW order, IsOrder(order, S),
         NEW list, \A n \in 1..Cardinality(S) : list[n] \in S,
         \A n \in 1..Cardinality(S) : Cardinality(UpTo(S, order, list[n])) = n
  PROVE  /\ \A m, n \in 1..Cardinality(S) : m <= n <=> <<list[m], list[n]>> \in order
         /\ \A m, n \in 1..Cardinality(S) : list[m] = list[n] => m = n
         /\ \A x \in S : \E n \in 1..Cardinality(S) : list[n] = x
<1> DEFINE place == [x \in S |-> Cardinality(UpTo(S, order, x))]
<1>2. /\ place \in Bijection(S, 1..Cardinality(S))
      /\ \A x, y \in S : place[x] <= place[y] <=> <<x, y>> \in order
  BY Numbered
<1>3. /\ place \in [S -> 1..Cardinality(S)]
      /\ \A x, y \in S : place[x] = place[y] => x = y
  BY <1>2 DEF Bijection, Injection, Surjection, IsInjective
<1>4. \A n \in 1..Cardinality(S) : list[n] \in S /\ place[list[n]] = n
  OBVIOUS
<1> HIDE DEF place
<1>6. \A m, n \in 1..Cardinality(S) : m <= n <=> <<list[m], list[n]>> \in order
  BY <1>4, <1>2
<1>7. \A m, n \in 1..Cardinality(S) : list[m] = list[n] => m = n BY <1>4
<1>8. \A x \in S : \E n \in 1..Cardinality(S) : list[n] = x BY <1>3, <1>4
<1> QED BY <1>6, <1>7, <1>8

(* There is a member with every number. *)
LEMMA EveryNumber ==
  ASSUME NEW S, IsFiniteSet(S), NEW order, IsOrder(order, S)
  PROVE  \A n \in 1..Cardinality(S) : \E x \in S : Cardinality(UpTo(S, order, x)) = n
<1> DEFINE place == [x \in S |-> Cardinality(UpTo(S, order, x))]
<1>1. place \in Surjection(S, 1..Cardinality(S)) BY Numbered DEF Bijection
<1>2. \A n \in 1..Cardinality(S) : \E x \in S : place[x] = n BY <1>1 DEF Surjection
<1> QED BY <1>2

(* Ascending lists a finite set of integers, from the smallest on. *)
LEMMA AscendingIs ==
  ASSUME NEW places \in SUBSET Int, IsFiniteSet(places)
  PROVE  /\ Cardinality(places) \in Nat
         /\ Ascending(places) \in [1..Cardinality(places) -> places]
         /\ \A m, n \in 1..Cardinality(places) :
              m < n => Ascending(places)[m] < Ascending(places)[n]
         /\ \A i \in places : \E n \in 1..Cardinality(places) : Ascending(places)[n] = i
<1> DEFINE order == {pair \in places \X places : pair[1] <= pair[2]}
<1>1. IsOrder(order, places) BY DEF IsOrder
<1>2. \A i \in places : UpTo(places, order, i) = {j \in places : j <= i} BY DEF UpTo
<1>3. \A m, n \in places : <<m, n>> \in order <=> m <= n OBVIOUS
<1> HIDE DEF order
<1>4. Cardinality(places) \in Nat BY FS_CardinalityType
<1>5. \A n \in 1..Cardinality(places) : \E i \in places : Cardinality({j \in places : j <= i}) = n
  <2>1. \A n \in 1..Cardinality(places) :
          \E i \in places : Cardinality(UpTo(places, order, i)) = n
    BY <1>1, EveryNumber
  <2> TAKE n \in 1..Cardinality(places)
  <2>2. PICK i \in places : Cardinality(UpTo(places, order, i)) = n BY <2>1
  <2>3. UpTo(places, order, i) = {j \in places : j <= i} BY <1>2
  <2> QED BY <2>2, <2>3
<1>6. PICK list : list = Ascending(places) OBVIOUS
<1>7. /\ list \in [1..Cardinality(places) -> places]
      /\ \A n \in 1..Cardinality(places) : Cardinality({j \in places : j <= list[n]}) = n
  BY <1>5, <1>6 DEF Ascending
<1>8. \A n \in 1..Cardinality(places) : Cardinality(UpTo(places, order, list[n])) = n
  BY <1>2, <1>7
<1>9. /\ \A m, n \in 1..Cardinality(places) : m <= n <=> <<list[m], list[n]>> \in order
      /\ \A m, n \in 1..Cardinality(places) : list[m] = list[n] => m = n
      /\ \A x \in places : \E n \in 1..Cardinality(places) : list[n] = x
  <2>1. \A n \in 1..Cardinality(places) : list[n] \in places BY <1>7
  <2> QED BY <1>1, <1>8, <2>1, Listed
<1>10. \A m, n \in 1..Cardinality(places) : m < n => list[m] < list[n]
  <2> TAKE m \in 1..Cardinality(places), n \in 1..Cardinality(places)
  <2> HAVE m < n
  <2>1. list[m] \in places /\ list[n] \in places BY <1>7
  <2>2. <<list[m], list[n]>> \in order /\ list[m] # list[n] BY <1>4, <1>9
  <2>3. list[m] <= list[n] BY <2>1, <2>2, <1>3
  <2>4. list[m] \in Int /\ list[n] \in Int BY <2>1
  <2> QED BY <2>2, <2>3, <2>4
<1> QED BY <1>4, <1>6, <1>7, <1>9, <1>10

(* The items picked: those at the places, in order, and no others. *)
LEMMA PickedIs ==
  ASSUME NEW T, NEW row \in Seq(T), NEW places \in SUBSET DOMAIN row
  PROVE  /\ IsFiniteSet(places) /\ Cardinality(places) <= Len(row)
         /\ Cardinality(places) \in Nat
         /\ Picked(row, places) \in Seq(T)
         /\ Len(Picked(row, places)) = Cardinality(places)
         /\ Ascending(places) \in [1..Cardinality(places) -> places]
         /\ \A n \in 1..Cardinality(places) : Picked(row, places)[n] = row[Ascending(places)[n]]
         /\ \A m, n \in 1..Cardinality(places) :
              m < n => Ascending(places)[m] < Ascending(places)[n]
         /\ \A i \in places : \E n \in 1..Cardinality(places) : Ascending(places)[n] = i
<1>1. IsFiniteSet(1..Len(row)) /\ Cardinality(1..Len(row)) = Len(row)
  <2>1. Len(row) \in Int /\ 0 <= Len(row) /\ 1 \in Int OBVIOUS
  <2> QED BY <2>1, FS_Interval, SMTT(30)
<1>2. places \in SUBSET (1..Len(row)) OBVIOUS
<1>3. IsFiniteSet(places) /\ Cardinality(places) <= Len(row) BY <1>1, <1>2, FS_Subset
<1>4. /\ Cardinality(places) \in Nat
      /\ Ascending(places) \in [1..Cardinality(places) -> places]
      /\ \A m, n \in 1..Cardinality(places) :
           m < n => Ascending(places)[m] < Ascending(places)[n]
      /\ \A i \in places : \E n \in 1..Cardinality(places) : Ascending(places)[n] = i
  BY <1>2, <1>3, AscendingIs, SMTT(30)
<1>5. Picked(row, places) = [n \in 1..Cardinality(places) |-> row[Ascending(places)[n]]]
  BY <1>4 DEF Picked
<1>6. \A n \in 1..Cardinality(places) : row[Ascending(places)[n]] \in T BY <1>4
<1>7. Picked(row, places) \in Seq(T) /\ Len(Picked(row, places)) = Cardinality(places)
  BY <1>4, <1>5, <1>6
<1> QED BY <1>3, <1>4, <1>5, <1>7

-----------------------------------------------------------------------------
(* The ranking of a query's hits.                                          *)

HitsOf(S) == [chunk : S, score : Int]
KeysOf(S) == ({"vector_id"} \X S) \cup ({"doc_id"} \X {DocumentOf[c] : c \in S})
EntriesOf(S) == [key : KeysOf(S), chunk : S, score : Int, source : {"dense", "sparse"}]

(* The entries after each hit of a row, one hit at a time. *)
Appends(after, entries, row, source, strategy, weight) ==
  /\ after[0] = entries
  /\ \A rank \in 1..Len(row) :
       after[rank] = AppendHit(after[rank - 1], row[rank], source,
                               Contribution(row, rank, strategy, weight))

(* What AppendRow computes recursively exists. *)
LEMMA AppendRowIs ==
  ASSUME NEW entries, NEW row, Len(row) \in Nat, NEW source, NEW strategy, NEW weight
  PROVE  \E after : /\ Appends(after, entries, row, source, strategy, weight)
                    /\ AppendRow(entries, row, source, strategy, weight) = after[Len(row)]
<1> DEFINE Next(before, rank) == AppendHit(before, row[rank], source,
                                           Contribution(row, rank, strategy, weight))
<1> DEFINE Turns(g, n) == g = [rank \in 0..n |-> IF rank = 0 THEN entries
                                                 ELSE Next(g[rank - 1], rank)]
<1>1. \E g : Turns(g, 0)
  <2> DEFINE g == [rank \in 0..0 |-> entries]
  <2>1. g = [rank \in 0..0 |-> IF rank = 0 THEN entries ELSE Next(g[rank - 1], rank)] OBVIOUS
  <2> QED BY <2>1
<1>2. ASSUME NEW n \in Nat, \E g : Turns(g, n) PROVE \E g : Turns(g, n + 1)
  <2>1. PICK g : Turns(g, n) BY <1>2
  <2> DEFINE h == [rank \in 0..(n + 1) |-> IF rank = n + 1 THEN Next(g[n], n + 1) ELSE g[rank]]
  <2> HIDE DEF Next
  <2>2. \A rank \in 0..n : g[rank] = IF rank = 0 THEN entries ELSE Next(g[rank - 1], rank)
    BY <2>1
  <2>3. ASSUME NEW rank \in 0..(n + 1)
        PROVE  h[rank] = IF rank = 0 THEN entries ELSE Next(h[rank - 1], rank)
    <3>1. CASE rank = n + 1
      <4>1. h[rank] = Next(g[n], n + 1) /\ h[rank - 1] = g[n] BY <3>1
      <4> QED BY <3>1, <4>1
    <3>2. CASE rank # n + 1 /\ rank # 0
      <4>1. h[rank] = g[rank] /\ h[rank - 1] = g[rank - 1] BY <3>2
      <4> QED BY <3>2, <4>1, <2>2
    <3>3. CASE rank = 0 /\ rank # n + 1 BY <3>3, <2>2
    <3> QED BY <3>1, <3>2, <3>3
  <2>4. h = [rank \in 0..(n + 1) |-> IF rank = 0 THEN entries ELSE Next(h[rank - 1], rank)]
    <3> DEFINE k == [rank \in 0..(n + 1) |-> IF rank = 0 THEN entries ELSE Next(h[rank - 1], rank)]
    <3>1. DOMAIN h = 0..(n + 1) /\ DOMAIN k = 0..(n + 1) OBVIOUS
    <3>2. \A rank \in 0..(n + 1) : h[rank] = k[rank] BY <2>3
    <3>3. h = [rank \in 0..(n + 1) |-> h[rank]] /\ k = [rank \in 0..(n + 1) |-> k[rank]] OBVIOUS
    <3> HIDE DEF h, k
    <3>4. h = k BY <3>2, <3>3
    <3> QED BY <3>4 DEF k
  <2> QED BY <2>4
<1>3. \E g : Turns(g, Len(row))
  <2> DEFINE done == {n \in Nat : \E g : Turns(g, n)}
  <2> HIDE DEF Turns
  <2>1. 0 \in done BY <1>1
  <2>2. \A n \in 0..(Len(row) - 1) : n \in done => n + 1 \in done BY <1>2
  <2>3. 0..Len(row) \subseteq done
    <3> HIDE DEF done
    <3> QED BY <2>1, <2>2, Counting
  <2> QED BY <2>3
<1> DEFINE after == CHOOSE g : Turns(g, Len(row))
<1>5. Turns(after, Len(row))
  <2> HIDE DEF Turns
  <2> QED BY <1>3
<1>6. AppendRow(entries, row, source, strategy, weight) = after[Len(row)] BY DEF AppendRow
<1> HIDE DEF after
<1>7. Appends(after, entries, row, source, strategy, weight)
  <2> HIDE DEF Next
  <2>1. \A rank \in 0..Len(row) : after[rank] = IF rank = 0 THEN entries
                                               ELSE Next(after[rank - 1], rank)
    BY <1>5
  <2>2. after[0] = entries /\ \A rank \in 1..Len(row) : after[rank] = Next(after[rank - 1], rank)
    BY <2>1
  <2> QED BY <2>2 DEF Appends, Next
<1> QED BY <1>6, <1>7

(* Scores stay integers. *)
LEMMA ContributionType ==
  ASSUME NEW S, NEW row \in Seq(HitsOf(S)), NEW rank \in 1..Len(row), NEW strategy,
         NEW weight \in Int
  PROVE  Contribution(row, rank, strategy, weight) \in Int
<1>1. RrfK \in Nat \ {0} /\ Scale \in Nat BY RankingAssumption
<1>2. \A i \in 1..Len(row) : row[i].score \in Int
  <2>1. \A i \in 1..Len(row) : row[i] \in HitsOf(S) OBVIOUS
  <2> QED BY <2>1 DEF HitsOf
<1>3. Scale \div (RrfK + rank) \in Int BY <1>1
<1>4. NormalizedScores(row)[rank] \in Int
  <2> DEFINE low  == row[Len(row)].score
             high == row[1].score
  <2>1. low \in Int /\ high \in Int /\ row[rank].score \in Int BY <1>2
  <2>2. NormalizedScores(row)[rank] = IF high <= low THEN Scale
          ELSE ((row[rank].score - low) * Scale) \div (high - low)
    BY DEF NormalizedScores
  <2>3. CASE high <= low BY <2>2, <2>3, <1>1
  <2>4. CASE ~(high <= low)
    <3>1. PICK a \in Int, b \in Int : a = (row[rank].score - low) * Scale /\ b = high - low
      <4>1. (row[rank].score - low) * Scale \in Int /\ high - low \in Int BY <2>1, <1>1
      <4> QED BY <4>1
    <3>2. b > 0 BY <3>1, <2>4, <2>1
    <3>3. a \div b \in Int BY <3>2
    <3> QED BY <2>2, <2>4, <3>1, <3>3
  <2> QED BY <2>3, <2>4
<1>5. PICK gain \in Int : Contribution(row, rank, strategy, weight) = weight * gain
  BY <1>3, <1>4 DEF Contribution
<1> QED BY <1>5

(* The dense hits become an entry each. *)
LEMMA DenseEntries ==
  ASSUME NEW S, NEW row \in Seq(HitsOf(S)), NEW strategy, NEW weight \in Int,
         \A i, j \in 1..Len(row) : row[i].chunk = row[j].chunk => i = j
  PROVE  LET entries == AppendRow(<<>>, row, "dense", strategy, weight)
         IN  /\ entries \in Seq(EntriesOf(S)) /\ Len(entries) = Len(row)
             /\ \A i \in 1..Len(row) :
                  /\ entries[i].chunk = row[i].chunk /\ entries[i].source = "dense"
                  /\ entries[i].key = <<"vector_id", row[i].chunk>>
<1> DEFINE Gain(rank) == Contribution(row, rank, strategy, weight)
<1> DEFINE Entry(i) == [key |-> <<"vector_id", row[i].chunk>>, chunk |-> row[i].chunk,
                        score |-> Gain(i), source |-> "dense"]
<1>1. PICK after : /\ Appends(after, <<>>, row, "dense", strategy, weight)
                   /\ AppendRow(<<>>, row, "dense", strategy, weight) = after[Len(row)]
  BY AppendRowIs
<1>2. after[0] = <<>> /\ \A rank \in 1..Len(row) :
        after[rank] = AppendHit(after[rank - 1], row[rank], "dense", Gain(rank))
  BY <1>1 DEF Appends
<1>3. \A i \in 1..Len(row) : Entry(i) \in EntriesOf(S)
  <2>1. \A i \in 1..Len(row) : Gain(i) \in Int BY ContributionType
  <2>2. \A i \in 1..Len(row) : row[i].chunk \in S
    <3>1. \A i \in 1..Len(row) : row[i] \in HitsOf(S) OBVIOUS
    <3> QED BY <3>1 DEF HitsOf
  <2> HIDE DEF Gain
  <2> QED BY <2>1, <2>2 DEF EntriesOf, KeysOf
<1> HIDE DEF Gain
<1> DEFINE Made(n) == after[n] = [i \in 1..n |-> Entry(i)]
<1>4. Made(0) BY <1>2
<1>5. ASSUME NEW n \in 0..(Len(row) - 1), Made(n) PROVE Made(n + 1)
  <2>1. n + 1 \in 1..Len(row) /\ n \in Nat OBVIOUS
  <2>2. after[n + 1] = AppendHit(after[n], row[n + 1], "dense", Gain(n + 1)) BY <1>2, <2>1
  <2>3. PICK before : before = after[n] OBVIOUS
  <2>4. before = [i \in 1..n |-> Entry(i)] BY <2>3, <1>5
  <2>5. ItemKey("dense", row[n + 1]) = <<"vector_id", row[n + 1].chunk>> BY DEF ItemKey
  <2>6. \A i \in DOMAIN before : before[i].key # ItemKey("dense", row[n + 1])
    <3> TAKE i \in DOMAIN before
    <3>1. i \in 1..n /\ before[i].key = <<"vector_id", row[i].chunk>> BY <2>4
    <3>2. i \in 1..Len(row) /\ i # n + 1 BY <3>1, <2>1
    <3>3. row[i].chunk # row[n + 1].chunk BY <3>2, <2>1
    <3> QED BY <3>1, <3>3, <2>5
  <2>7. after[n + 1] = Append(before, Entry(n + 1)) BY <2>2, <2>3, <2>5, <2>6 DEF AppendHit
  <2> HIDE DEF Entry
  <2>8. Append(before, Entry(n + 1)) = [i \in 1..(n + 1) |-> Entry(i)]
    <3>1. before \in Seq(EntriesOf(S)) /\ Len(before) = n
      <4>1. \A i \in 1..n : Entry(i) \in EntriesOf(S) BY <1>3, <2>1
      <4> QED BY <2>4, <4>1, <2>1
    <3>2. Entry(n + 1) \in EntriesOf(S) BY <1>3, <2>1
    <3> QED BY <3>1, <3>2, <2>4
  <2> QED BY <2>7, <2>8
<1>6. Made(Len(row))
  <2> DEFINE done == {n \in 0..Len(row) : Made(n)}
  <2> HIDE DEF Made
  <2>1. Len(row) \in Nat /\ 0 \in done BY <1>4
  <2>2. \A n \in 0..(Len(row) - 1) : n \in done => n + 1 \in done BY <1>5
  <2>3. 0..Len(row) \subseteq done
    <3> HIDE DEF done
    <3> QED BY <2>1, <2>2, Counting
  <2> QED BY <2>3
<1>7. PICK entries : entries = AppendRow(<<>>, row, "dense", strategy, weight) OBVIOUS
<1>8. entries = [i \in 1..Len(row) |-> Entry(i)] BY <1>1, <1>6, <1>7
<1>9. entries \in Seq(EntriesOf(S)) /\ Len(entries) = Len(row)
  <2> HIDE DEF Entry
  <2> QED BY <1>8, <1>3
<1>10. \A i \in 1..Len(row) :
         /\ entries[i].chunk = row[i].chunk /\ entries[i].source = "dense"
         /\ entries[i].key = <<"vector_id", row[i].chunk>>
  <2> TAKE i \in 1..Len(row)
  <2>1. entries[i] = Entry(i) BY <1>8
  <2> QED BY <2>1
<1> HIDE DEF Entry
<1> QED BY <1>7, <1>9, <1>10

KeysDiffer(entries) ==
  \A i, j \in 1..Len(entries) : entries[i].key = entries[j].key => i = j

(* The entries when the first n hits of the sparse row are in: those of    *)
(* the dense row before them, and behind these an entry for each document. *)
SparseSoFar(S, base, row, entries, n) ==
  /\ entries \in Seq(EntriesOf(S)) /\ Len(entries) >= Len(base) /\ Len(entries) <= Len(base) + n
  /\ KeysDiffer(entries)
  /\ \A i \in 1..Len(entries) : entries[i].key = ItemKey(entries[i].source, entries[i])
  /\ \A i \in 1..Len(base) :
       entries[i].source = "dense" /\ entries[i].chunk = base[i].chunk
  /\ \A i \in 1..Len(entries) : i > Len(base) =>
       /\ entries[i].source = "sparse"
       /\ \E j \in 1..n : entries[i].chunk = row[j].chunk
  /\ \A j \in 1..n : \E i \in 1..Len(entries) : entries[i].key = ItemKey("sparse", row[j])

(* One more sparse hit: it adds to the entry of its document if there is   *)
(* one, and becomes the entry of its document if there is none. *)
LEMMA SparseTurn ==
  ASSUME NEW S, NEW base, Len(base) \in Nat, NEW row \in Seq(HitsOf(S)), NEW entries,
         NEW n \in 0..(Len(row) - 1), SparseSoFar(S, base, row, entries, n), NEW gain \in Int
  PROVE  SparseSoFar(S, base, row, AppendHit(entries, row[n + 1], "sparse", gain), n + 1)
<1> DEFINE hit == row[n + 1]
<1> DEFINE key == <<"doc_id", DocumentOf[hit.chunk]>>
<1>1. n + 1 \in 1..Len(row) /\ n \in Nat OBVIOUS
<1>2. hit \in HitsOf(S) BY <1>1
<1>3. hit.chunk \in S /\ key \in KeysOf(S) BY <1>2 DEF HitsOf, KeysOf
<1>4. ItemKey("sparse", hit) = key BY DEF ItemKey
<1>5. entries \in Seq(EntriesOf(S)) BY DEF SparseSoFar
<1>6. \A i \in 1..Len(entries) : entries[i] \in EntriesOf(S) BY <1>5
<1>7. \A j \in 1..n : ItemKey("sparse", row[j]) = <<"doc_id", DocumentOf[row[j].chunk]>>
  BY DEF ItemKey
<1>8. CASE \E i \in DOMAIN entries : entries[i].key = key
  <2> DEFINE more == [i \in DOMAIN entries |->
                        IF entries[i].key = key
                        THEN [entries[i] EXCEPT !.score = @ + gain] ELSE entries[i]]
  <2>1. AppendHit(entries, hit, "sparse", gain) = more BY <1>4, <1>8 DEF AppendHit
  <2>2. DOMAIN entries = 1..Len(entries) BY <1>5
  <2>3. \A i \in 1..Len(entries) :
          /\ more[i] \in EntriesOf(S) /\ more[i].key = entries[i].key
          /\ more[i].chunk = entries[i].chunk /\ more[i].source = entries[i].source
    <3> TAKE i \in 1..Len(entries)
    <3>1. entries[i] \in EntriesOf(S) BY <1>6
    <3> QED BY <2>2, <3>1 DEF EntriesOf
  <2>4. more \in Seq(EntriesOf(S)) /\ Len(more) = Len(entries)
    <3>1. more \in [1..Len(entries) -> EntriesOf(S)] BY <2>2, <2>3
    <3> HIDE DEF more
    <3> QED BY <3>1, <1>5
  <2> HIDE DEF more
  <2>5. KeysDiffer(more) BY <2>3, <2>4 DEF SparseSoFar, KeysDiffer
  <2>6. \A i \in 1..Len(entries) :
          ItemKey(more[i].source, more[i]) = ItemKey(entries[i].source, entries[i])
    BY <2>3 DEF ItemKey
  <2>8. \A j \in 1..(n + 1) : \E i \in 1..Len(more) : more[i].key = ItemKey("sparse", row[j])
    <3> TAKE j \in 1..(n + 1)
    <3>1. CASE j = n + 1
      <4>1. PICK i \in 1..Len(entries) : entries[i].key = key BY <1>8, <2>2
      <4> QED BY <3>1, <4>1, <2>3, <2>4, <1>4
    <3>2. CASE j # n + 1
      <4>1. j \in 1..n BY <3>2
      <4>2. PICK i \in 1..Len(entries) : entries[i].key = ItemKey("sparse", row[j])
        BY <4>1 DEF SparseSoFar
      <4> QED BY <4>2, <2>3, <2>4
    <3> QED BY <3>1, <3>2
  <2>9. \A i \in 1..Len(more) : i > Len(base) =>
          /\ more[i].source = "sparse"
          /\ \E j \in 1..(n + 1) : more[i].chunk = row[j].chunk
    <3> TAKE i \in 1..Len(more)
    <3> HAVE i > Len(base)
    <3>1. i \in 1..Len(entries) BY <2>4
    <3>2. PICK j \in 1..n : entries[i].chunk = row[j].chunk
      BY <3>1 DEF SparseSoFar
    <3>3. entries[i].source = "sparse" BY <3>1 DEF SparseSoFar
    <3>4. more[i].source = "sparse" /\ more[i].chunk = row[j].chunk BY <3>1, <3>2, <3>3, <2>3
    <3>5. j \in 1..(n + 1) BY <1>1
    <3> QED BY <3>4, <3>5
  <2>10. /\ Len(more) >= Len(base) /\ Len(more) <= Len(base) + (n + 1)
         /\ \A i \in 1..Len(more) : more[i].key = ItemKey(more[i].source, more[i])
         /\ \A i \in 1..Len(base) : more[i].source = "dense" /\ more[i].chunk = base[i].chunk
    <3>1. Len(entries) >= Len(base) /\ Len(entries) <= Len(base) + n BY DEF SparseSoFar
    <3>2. Len(entries) \in Nat BY <1>5
    <3>3. Len(more) >= Len(base) /\ Len(more) <= Len(base) + (n + 1) BY <3>1, <3>2, <2>4
    <3>4. \A i \in 1..Len(more) : more[i].key = ItemKey(more[i].source, more[i])
      BY <2>3, <2>4, <2>6 DEF SparseSoFar
    <3>5. \A i \in 1..Len(base) : more[i].source = "dense" /\ more[i].chunk = base[i].chunk
      BY <2>3, <3>1, <3>2 DEF SparseSoFar
    <3> QED BY <3>3, <3>4, <3>5
  <2> QED BY <2>1, <2>4, <2>5, <2>8, <2>9, <2>10 DEF SparseSoFar
<1>9. CASE ~\E i \in DOMAIN entries : entries[i].key = key
  <2> DEFINE new == [key |-> key, chunk |-> hit.chunk, score |-> gain, source |-> "sparse"]
  <2> DEFINE more == Append(entries, new)
  <2>1. AppendHit(entries, hit, "sparse", gain) = more BY <1>4, <1>9 DEF AppendHit
  <2>2. new \in EntriesOf(S) BY <1>3 DEF EntriesOf
  <2>3. new.key = key /\ new.chunk = hit.chunk /\ new.source = "sparse" OBVIOUS
  <2> HIDE DEF new
  <2>4. /\ more \in Seq(EntriesOf(S)) /\ Len(more) = Len(entries) + 1
        /\ more[Len(entries) + 1] = new
        /\ \A i \in 1..Len(entries) : more[i] = entries[i]
    BY <1>5, <2>2
  <2>5. Len(entries) \in Nat /\ Len(base) <= Len(entries) /\ Len(entries) <= Len(base) + n
    BY <1>5 DEF SparseSoFar
  <2> HIDE DEF more
  <2>6. \A i \in 1..Len(entries) : entries[i].key # key BY <1>9, <1>5
  <2>7. KeysDiffer(more)
    <3> SUFFICES ASSUME NEW i \in 1..Len(more), NEW j \in 1..Len(more), more[i].key = more[j].key
                 PROVE  i = j
      BY DEF KeysDiffer
    <3>1. CASE i \in 1..Len(entries) /\ j \in 1..Len(entries)
      <4>1. entries[i].key = entries[j].key BY <3>1, <2>4
      <4>2. KeysDiffer(entries) BY DEF SparseSoFar
      <4> QED BY <3>1, <4>1, <4>2 DEF KeysDiffer
    <3>2. CASE i = Len(entries) + 1 /\ j \in 1..Len(entries) BY <3>2, <2>3, <2>4, <2>6
    <3>3. CASE j = Len(entries) + 1 /\ i \in 1..Len(entries) BY <3>3, <2>3, <2>4, <2>6
    <3> QED BY <3>1, <3>2, <3>3, <2>4, <2>5
  <2>9. \A i \in 1..Len(more) : more[i].key = ItemKey(more[i].source, more[i])
    <3> TAKE i \in 1..Len(more)
    <3>1. CASE i \in 1..Len(entries) BY <3>1, <2>4, SMTT(30) DEF SparseSoFar
    <3>2. CASE i = Len(entries) + 1
      <4>1. ItemKey("sparse", new) = key BY <2>3 DEF ItemKey
      <4> QED BY <3>2, <4>1, <2>3, <2>4
    <3> QED BY <3>1, <3>2, <2>4, <2>5
  <2>10. \A i \in 1..Len(base) : more[i].source = "dense" /\ more[i].chunk = base[i].chunk
    <3> TAKE i \in 1..Len(base)
    <3>1. i \in 1..Len(entries) BY <2>5
    <3> QED BY <3>1, <2>4 DEF SparseSoFar
  <2>11. \A i \in 1..Len(more) : i > Len(base) =>
           /\ more[i].source = "sparse"
           /\ \E j \in 1..(n + 1) : more[i].chunk = row[j].chunk
    <3> TAKE i \in 1..Len(more)
    <3> HAVE i > Len(base)
    <3>1. CASE i \in 1..Len(entries)
      <4>1. PICK j \in 1..n : entries[i].chunk = row[j].chunk
        BY <3>1 DEF SparseSoFar
      <4>2. entries[i].source = "sparse" BY <3>1 DEF SparseSoFar
      <4>3. more[i] = entries[i] BY <3>1, <2>4
      <4>4. j \in 1..(n + 1) BY <1>1
      <4> QED BY <4>1, <4>2, <4>3, <4>4
    <3>2. CASE i = Len(entries) + 1
      <4>1. more[i].source = "sparse" /\ more[i].chunk = row[n + 1].chunk BY <3>2, <2>3, <2>4
      <4>2. n + 1 \in 1..(n + 1) BY <1>1
      <4> QED BY <4>1, <4>2
    <3> QED BY <3>1, <3>2, <2>4, <2>5
  <2>12. \A j \in 1..(n + 1) : \E i \in 1..Len(more) : more[i].key = ItemKey("sparse", row[j])
    <3> TAKE j \in 1..(n + 1)
    <3>1. CASE j = n + 1
      <4>1. Len(entries) + 1 \in 1..Len(more) BY <2>4, <2>5
      <4>2. more[Len(entries) + 1].key = ItemKey("sparse", row[j])
        BY <3>1, <2>3, <2>4, <1>4
      <4> QED BY <4>1, <4>2
    <3>2. CASE j # n + 1
      <4>1. j \in 1..n BY <3>2
      <4>2. PICK i \in 1..Len(entries) : entries[i].key = ItemKey("sparse", row[j])
        BY <4>1 DEF SparseSoFar
      <4>3. i \in 1..Len(more) /\ more[i] = entries[i] BY <2>4, <2>5
      <4> QED BY <4>2, <4>3
    <3> QED BY <3>1, <3>2
  <2>13. Len(more) >= Len(base) /\ Len(more) <= Len(base) + (n + 1) BY <2>4, <2>5
  <2>14. more \in Seq(EntriesOf(S)) BY <2>4
  <2>15. SparseSoFar(S, base, row, more, n + 1)
    BY <2>7, <2>9, <2>10, <2>11, <2>12, <2>13, <2>14 DEF SparseSoFar
  <2> QED BY <2>1, <2>15
<1> QED BY <1>8, <1>9

(* The entries when both rows are in. *)
LEMMA SparseEntries ==
  ASSUME NEW S, NEW base \in Seq(EntriesOf(S)), NEW row \in Seq(HitsOf(S)), NEW strategy,
         NEW weight \in Int, KeysDiffer(base),
         \A i \in 1..Len(base) : base[i].source = "dense"
                                 /\ base[i].key = ItemKey(base[i].source, base[i])
  PROVE  SparseSoFar(S, base, row, AppendRow(base, row, "sparse", strategy, weight), Len(row))
<1> DEFINE Gain(rank) == Contribution(row, rank, strategy, weight)
<1>1. PICK after : /\ Appends(after, base, row, "sparse", strategy, weight)
                   /\ AppendRow(base, row, "sparse", strategy, weight) = after[Len(row)]
  BY AppendRowIs
<1>2. after[0] = base /\ \A rank \in 1..Len(row) :
        after[rank] = AppendHit(after[rank - 1], row[rank], "sparse", Gain(rank))
  BY <1>1 DEF Appends
<1>3. \A i \in 1..Len(row) : Gain(i) \in Int BY ContributionType
<1> HIDE DEF Gain
<1> DEFINE done == {n \in 0..Len(row) : SparseSoFar(S, base, row, after[n], n)}
<1>4. 0 \in done
  <2>1. Len(base) \in Nat /\ Len(row) \in Nat OBVIOUS
  <2>2. SparseSoFar(S, base, row, base, 0) BY <2>1 DEF SparseSoFar
  <2> QED BY <1>2, <2>1, <2>2
<1>5. ASSUME NEW n \in 0..(Len(row) - 1), n \in done PROVE n + 1 \in done
  <2>1. SparseSoFar(S, base, row, after[n], n) BY <1>5
  <2>2. n + 1 \in 1..Len(row) /\ Len(base) \in Nat OBVIOUS
  <2>3. after[n + 1] = AppendHit(after[n], row[n + 1], "sparse", Gain(n + 1)) BY <1>2, <2>2
  <2>4. Gain(n + 1) \in Int BY <1>3, <2>2
  <2>7. PICK gain \in Int : gain = Gain(n + 1) BY <2>4
  <2>5. PICK before : before = after[n] OBVIOUS
  <2>6. SparseSoFar(S, base, row, AppendHit(before, row[n + 1], "sparse", gain), n + 1)
    BY <2>1, <2>2, <2>5, SparseTurn
  <2> QED BY <2>2, <2>3, <2>5, <2>6, <2>7
<1>6. Len(row) \in done
  <2> HIDE DEF done
  <2>1. Len(row) \in Nat OBVIOUS
  <2>2. \A n \in 0..(Len(row) - 1) : n \in done => n + 1 \in done BY <1>5
  <2>3. 0..Len(row) \subseteq done BY <1>4, <2>1, <2>2, Counting
  <2> QED BY <2>1, <2>3
<1> QED BY <1>1, <1>6

(* ByScore reorders the entries, and the scores fall. *)
LEMMA ByScoreIs ==
  ASSUME NEW S, NEW entries \in Seq(EntriesOf(S))
  PROVE  \E order \in [1..Len(entries) -> 1..Len(entries)] :
           /\ ByScore(entries) = [n \in 1..Len(entries) |-> entries[order[n]]]
           /\ \A m, n \in 1..Len(entries) : order[m] = order[n] => m = n
           /\ \A i \in 1..Len(entries) : \E n \in 1..Len(entries) : order[n] = i
           /\ \A m, n \in 1..Len(entries) :
                m <= n => entries[order[m]].score >= entries[order[n]].score
<1> DEFINE D == 1..Len(entries)
<1> DEFINE Ahead(j, i) == \/ entries[j].score > entries[i].score
                          \/ entries[j].score = entries[i].score /\ j <= i
<1> DEFINE order == {pair \in D \X D : Ahead(pair[1], pair[2])}
<1>1. Len(entries) \in Nat /\ DOMAIN entries = D OBVIOUS
<1>2. \A i \in D : entries[i].score \in Int
  <2>1. \A i \in D : entries[i] \in EntriesOf(S) OBVIOUS
  <2> QED BY <2>1 DEF EntriesOf
<1>3. IsFiniteSet(D) /\ Cardinality(D) = Len(entries) BY <1>1, FS_Interval
<1>4. \A i, j \in D : <<i, j>> \in order <=> Ahead(i, j) OBVIOUS
<1>5. IsOrder(order, D)
  <2>1. \A i, j \in D : Ahead(i, j) \/ Ahead(j, i) BY <1>1, <1>2
  <2>2. \A i, j \in D : Ahead(i, j) /\ Ahead(j, i) => i = j BY <1>1, <1>2
  <2>3. \A i, j, k \in D : Ahead(i, j) /\ Ahead(j, k) => Ahead(i, k) BY <1>1, <1>2
  <2> HIDE DEF Ahead, order, D
  <2> QED BY <1>4, <2>1, <2>2, <2>3 DEF IsOrder
<1>6. \A i \in D : UpTo(D, order, i) = {j \in D : Ahead(j, i)}
  <2> HIDE DEF Ahead, D
  <2> QED BY DEF UpTo
<1>7. ByScore(entries)
      = [n \in D |-> entries[CHOOSE i \in D : Cardinality({j \in D : Ahead(j, i)}) = n]]
  BY <1>1 DEF ByScore
<1> HIDE DEF Ahead, order
<1>8. \A n \in D : \E i \in D : Cardinality({j \in D : Ahead(j, i)}) = n
  <2>1. \A n \in D : \E i \in D : Cardinality(UpTo(D, order, i)) = n
    <3> HIDE DEF D
    <3>1. \A n \in 1..Cardinality(D) : \E i \in D : Cardinality(UpTo(D, order, i)) = n
      BY <1>3, <1>5, EveryNumber
    <3> QED BY <1>3, <3>1 DEF D
  <2> TAKE n \in D
  <2>2. PICK i \in D : Cardinality(UpTo(D, order, i)) = n BY <2>1
  <2>3. UpTo(D, order, i) = {j \in D : Ahead(j, i)} BY <1>6
  <2> QED BY <2>2, <2>3
<1> DEFINE list == [n \in D |-> CHOOSE i \in D : Cardinality({j \in D : Ahead(j, i)}) = n]
<1>9. \A n \in D : list[n] \in D /\ Cardinality({j \in D : Ahead(j, list[n])}) = n
  BY <1>8
<1>10. list \in [D -> D] /\ ByScore(entries) = [n \in D |-> entries[list[n]]]
  <2>1. \A n \in D : list[n] = CHOOSE i \in D : Cardinality({j \in D : Ahead(j, i)}) = n OBVIOUS
  <2>2. list \in [D -> D] BY <1>9
  <2> QED BY <1>7, <2>2
<1> HIDE DEF list
<1>11. \A n \in D : Cardinality(UpTo(D, order, list[n])) = n
  <2> TAKE n \in D
  <2>1. PICK i \in D : i = list[n] /\ Cardinality({j \in D : Ahead(j, i)}) = n BY <1>9
  <2>2. UpTo(D, order, i) = {j \in D : Ahead(j, i)} BY <1>6
  <2> QED BY <2>1, <2>2
<1>12. /\ \A m, n \in D : m <= n <=> <<list[m], list[n]>> \in order
       /\ \A m, n \in D : list[m] = list[n] => m = n
       /\ \A i \in D : \E n \in D : list[n] = i
  <2>1. 1..Cardinality(D) = D BY <1>3
  <2>2. \A n \in 1..Cardinality(D) : list[n] \in D BY <1>9, <2>1
  <2>3. \A n \in 1..Cardinality(D) : Cardinality(UpTo(D, order, list[n])) = n BY <1>11, <2>1
  <2> HIDE DEF D
  <2>4. /\ \A m, n \in 1..Cardinality(D) : m <= n <=> <<list[m], list[n]>> \in order
        /\ \A m, n \in 1..Cardinality(D) : list[m] = list[n] => m = n
        /\ \A i \in D : \E n \in 1..Cardinality(D) : list[n] = i
    BY <1>3, <1>5, <2>2, <2>3, Listed
  <2> QED BY <2>1, <2>4
<1>13. \A m, n \in D : m <= n => entries[list[m]].score >= entries[list[n]].score
  <2> TAKE m \in D, n \in D
  <2> HAVE m <= n
  <2>1. PICK i \in D, j \in D : i = list[m] /\ j = list[n] BY <1>9
  <2>2. Ahead(i, j) BY <1>4, <1>12, <2>1
  <2> QED BY <2>1, <2>2, <1>2 DEF Ahead
<1> QED BY <1>10, <1>12, <1>13

(* What fusion makes of the two rows when there is room for both. *)
FusedWell(S, fused, primary, secondary) ==
  /\ fused \in Seq(EntriesOf(S))
  /\ From("dense", fused) = ChunksIn(primary)
  /\ From("sparse", fused) \subseteq ChunksIn(secondary)
  /\ TheirDocuments(From("sparse", fused)) = TheirDocuments(ChunksIn(secondary))
  /\ \A i, j \in DOMAIN fused :
       i < j => /\ fused[i].score >= fused[j].score
                /\ fused[i].source = fused[j].source => fused[i].chunk # fused[j].chunk

(* Two rows fused: every dense hit has its entry, every document of the    *)
(* sparse row one of its sparse hits, in the order of their scores.        *)
LEMMA FusedIs ==
  ASSUME NEW S, NEW primary \in Seq(HitsOf(S)), NEW secondary \in Seq(HitsOf(S)),
         NEW limit \in Nat, Len(primary) + Len(secondary) <= limit, NEW strategy,
         \A i, j \in 1..Len(primary) : primary[i].chunk = primary[j].chunk => i = j
  PROVE  FusedWell(S, Fused(primary, secondary, limit, strategy), primary, secondary)
<1>1. Weights[1] \in Int /\ Weights[2] \in Int BY RankingAssumption
<1> DEFINE d == Len(primary)
<1>2. d \in Nat /\ Len(secondary) \in Nat /\ DOMAIN primary = 1..d
      /\ DOMAIN secondary = 1..Len(secondary)
  OBVIOUS
<1>3. PICK base : base = AppendRow(<<>>, primary, "dense", strategy, Weights[1]) OBVIOUS
<1>4. /\ base \in Seq(EntriesOf(S)) /\ Len(base) = d
      /\ \A i \in 1..d : /\ base[i].chunk = primary[i].chunk /\ base[i].source = "dense"
                         /\ base[i].key = <<"vector_id", primary[i].chunk>>
  BY <1>1, <1>3, DenseEntries
<1>5. KeysDiffer(base)
  <2>1. \A i, j \in 1..d : base[i].key = base[j].key => primary[i].chunk = primary[j].chunk
    BY <1>4
  <2> QED BY <1>4, <2>1 DEF KeysDiffer
<1>6. \A i \in 1..Len(base) : base[i].source = "dense"
                              /\ base[i].key = ItemKey(base[i].source, base[i])
  BY <1>4 DEF ItemKey
<1>7. PICK entries : entries = AppendRow(base, secondary, "sparse", strategy, Weights[2]) OBVIOUS
<1>8. SparseSoFar(S, base, secondary, entries, Len(secondary))
  BY <1>1, <1>4, <1>5, <1>6, <1>7, SparseEntries
<1>9. entries \in Seq(EntriesOf(S)) /\ Len(entries) \in Nat
      /\ Len(entries) >= d /\ Len(entries) <= d + Len(secondary)
  BY <1>4, <1>8 DEF SparseSoFar
<1>17. \A i \in 1..d : entries[i].source = "dense" /\ entries[i].chunk = primary[i].chunk
  <2>1. \A i \in 1..d : entries[i].source = "dense" /\ entries[i].chunk = base[i].chunk
    BY <1>4, <1>8 DEF SparseSoFar
  <2> QED BY <1>4, <2>1
<1>18. \A i \in 1..Len(entries) : i > d =>
         /\ entries[i].source = "sparse"
         /\ \E j \in 1..Len(secondary) : entries[i].chunk = secondary[j].chunk
  BY <1>4, <1>8 DEF SparseSoFar
<1>10. PICK order \in [1..Len(entries) -> 1..Len(entries)] :
           /\ ByScore(entries) = [n \in 1..Len(entries) |-> entries[order[n]]]
           /\ \A m, n \in 1..Len(entries) : order[m] = order[n] => m = n
           /\ \A i \in 1..Len(entries) : \E n \in 1..Len(entries) : order[n] = i
           /\ \A m, n \in 1..Len(entries) :
                m <= n => entries[order[m]].score >= entries[order[n]].score
  BY <1>9, ByScoreIs
<1>11. PICK fused : fused = [n \in 1..Len(entries) |-> entries[order[n]]] OBVIOUS
<1>12. /\ fused \in Seq(EntriesOf(S)) /\ Len(fused) = Len(entries)
       /\ DOMAIN fused = 1..Len(entries)
       /\ \A n \in 1..Len(entries) : fused[n] = entries[order[n]]
  <2>1. \A n \in 1..Len(entries) : entries[order[n]] \in EntriesOf(S)
    <3> TAKE n \in 1..Len(entries)
    <3>1. PICK i \in 1..Len(entries) : i = order[n] BY <1>10
    <3>2. entries[i] \in EntriesOf(S) BY <1>9
    <3> QED BY <3>1, <3>2
  <2> QED BY <1>9, <1>11, <2>1
<1>13. Fused(primary, secondary, limit, strategy) = fused
  <2>1. Least(limit, Len(entries)) = Len(entries) BY <1>2, <1>9 DEF Least
  <2>2. Fused(primary, secondary, limit, strategy) = SubSeq(fused, 1, Len(entries))
    BY <1>3, <1>7, <1>10, <1>11, <2>1 DEF Fused
  <2> QED BY <2>2, <1>12
<1>14. From("dense", fused) = ChunksIn(primary)
  <2>1. ASSUME NEW n \in 1..Len(entries), fused[n].source = "dense"
        PROVE  \E i \in 1..d : fused[n].chunk = primary[i].chunk
    <3>1. PICK i \in 1..Len(entries) : i = order[n] BY <1>10
    <3>2. entries[i].source = "dense" /\ fused[n] = entries[i] BY <2>1, <1>12, <3>1
    <3>3. ~(i > d) BY <1>18, <3>2
    <3>4. i \in 1..d BY <3>3, <1>2, <1>9
    <3> QED BY <3>2, <3>4, <1>17
  <2>2. ASSUME NEW i \in 1..d
        PROVE  \E n \in 1..Len(entries) :
                  fused[n].source = "dense" /\ fused[n].chunk = primary[i].chunk
    <3>1. i \in 1..Len(entries) BY <1>2, <1>9
    <3>2. PICK n \in 1..Len(entries) : order[n] = i BY <3>1, <1>10
    <3>3. entries[i].source = "dense" /\ entries[i].chunk = primary[i].chunk
      BY <1>17
    <3> QED BY <3>2, <3>3, <1>12
  <2>3. From("dense", fused)
          = {fused[n].chunk : n \in {m \in 1..Len(entries) : fused[m].source = "dense"}}
    BY <1>12 DEF From
  <2>4. PICK left : left = From("dense", fused) OBVIOUS
  <2>5. PICK right : right = ChunksIn(primary) OBVIOUS
  <2>6. \A x : x \in left <=> \E n \in 1..Len(entries) :
                                fused[n].source = "dense" /\ x = fused[n].chunk
    BY <2>3, <2>4
  <2>7. \A x : x \in right <=> \E i \in 1..d : x = primary[i].chunk
    BY <1>2, <2>5 DEF ChunksIn
  <2>8. \A x : x \in left <=> x \in right
    <3> TAKE x
    <3>1. ASSUME x \in left PROVE x \in right BY <3>1, <2>1, <2>6, <2>7
    <3>2. ASSUME x \in right PROVE x \in left BY <3>2, <2>2, <2>6, <2>7
    <3> QED BY <3>1, <3>2
  <2> QED BY <2>4, <2>5, <2>8
<1>19. \A n \in 1..Len(entries) : fused[n].source = "sparse" =>
         \E j \in 1..Len(secondary) : fused[n].chunk = secondary[j].chunk
  <2> TAKE n \in 1..Len(entries)
  <2> HAVE fused[n].source = "sparse"
  <2>1. PICK i \in 1..Len(entries) : i = order[n] BY <1>10
  <2>2. entries[i].source = "sparse" /\ fused[n] = entries[i] BY <1>12, <2>1
  <2>3. i > d BY <1>2, <1>17, <2>2
  <2> QED BY <2>2, <2>3, <1>18
<1>20. \A j \in 1..Len(secondary) : \E n \in 1..Len(entries) :
         fused[n].source = "sparse" /\ DocumentOf[fused[n].chunk] = DocumentOf[secondary[j].chunk]
  <2> TAKE j \in 1..Len(secondary)
  <2>1. PICK i \in 1..Len(entries) : entries[i].key = ItemKey("sparse", secondary[j])
    BY <1>8 DEF SparseSoFar
  <2>2. entries[i].key = ItemKey(entries[i].source, entries[i]) BY <1>8 DEF SparseSoFar
  <2>3. entries[i] \in EntriesOf(S) BY <1>9
  <2>4. entries[i].source # "dense" BY <2>1, <2>2 DEF ItemKey
  <2>5. entries[i].source = "sparse" BY <2>3, <2>4 DEF EntriesOf
  <2>6. DocumentOf[entries[i].chunk] = DocumentOf[secondary[j].chunk]
    BY <2>1, <2>2, <2>5 DEF ItemKey
  <2>7. PICK n \in 1..Len(entries) : order[n] = i BY <1>10
  <2> QED BY <2>5, <2>6, <2>7, <1>12
<1>21. \A x : x \in From("sparse", fused) <=>
         \E n \in 1..Len(entries) : fused[n].source = "sparse" /\ x = fused[n].chunk
  BY <1>12 DEF From
<1>22. \A x : x \in ChunksIn(secondary) <=> \E j \in 1..Len(secondary) : x = secondary[j].chunk
  BY <1>2 DEF ChunksIn
<1>15. /\ From("sparse", fused) \subseteq ChunksIn(secondary)
       /\ TheirDocuments(From("sparse", fused)) = TheirDocuments(ChunksIn(secondary))
  <2>1. From("sparse", fused) \subseteq ChunksIn(secondary) BY <1>19, <1>21, <1>22
  <2>2. \A x \in ChunksIn(secondary) :
          \E y \in From("sparse", fused) : DocumentOf[y] = DocumentOf[x]
    <3> TAKE x \in ChunksIn(secondary)
    <3>1. PICK j \in 1..Len(secondary) : x = secondary[j].chunk BY <1>22
    <3>2. PICK n \in 1..Len(entries) :
            fused[n].source = "sparse" /\ DocumentOf[fused[n].chunk] = DocumentOf[secondary[j].chunk]
      BY <1>20
    <3> QED BY <3>1, <3>2, <1>21
  <2>3. PICK found : found = From("sparse", fused) OBVIOUS
  <2>4. PICK all : all = ChunksIn(secondary) OBVIOUS
  <2>5. {DocumentOf[x] : x \in found} = {DocumentOf[x] : x \in all} BY <2>1, <2>2, <2>3, <2>4
  <2> QED BY <2>1, <2>3, <2>4, <2>5 DEF TheirDocuments
<1>16. \A i, j \in DOMAIN fused :
         i < j => /\ fused[i].score >= fused[j].score
                  /\ fused[i].source = fused[j].source => fused[i].chunk # fused[j].chunk
  <2> SUFFICES ASSUME NEW i \in 1..Len(entries), NEW j \in 1..Len(entries), i < j
               PROVE  /\ fused[i].score >= fused[j].score
                      /\ fused[i].source = fused[j].source => fused[i].chunk # fused[j].chunk
    BY <1>12
  <2>1. fused[i] = entries[order[i]] /\ fused[j] = entries[order[j]] BY <1>12
  <2>2. entries[order[i]].score >= entries[order[j]].score BY <1>10
  <2>3. PICK m \in 1..Len(entries), n \in 1..Len(entries) : m = order[i] /\ n = order[j]
    BY <1>10
  <2>4. m # n BY <1>10, <2>3
  <2>5. entries[m].key # entries[n].key BY <1>8, <2>4 DEF SparseSoFar, KeysDiffer
  <2>6. /\ entries[m].key = ItemKey(entries[m].source, entries[m])
        /\ entries[n].key = ItemKey(entries[n].source, entries[n])
    BY <1>8 DEF SparseSoFar
  <2>7. entries[m].source = entries[n].source => entries[m].chunk # entries[n].chunk
    BY <2>5, <2>6 DEF ItemKey
  <2> QED BY <2>1, <2>2, <2>3, <2>7
<1> QED BY <1>12, <1>13, <1>14, <1>15, <1>16 DEF FusedWell

(* The rows of the snapshots, and how many there are of them at each step. *)
Rows  == Seq(HitsOf(IndexedChunks)) \cup Seq(EntriesOf(IndexedChunks))
Taken == CASE progress \in {"none", "asked"}   -> 0
           [] progress \in {"dense", "sparse"} -> 1
           [] progress = "merged"              -> 2
           [] OTHER                            -> 3

SnapshotsTyped ==
  /\ progress \in {"none", "asked", "dense", "sparse", "merged", "reranked", "answered"}
  /\ snapshots \in Seq(Seq(Rows)) /\ Len(snapshots) = Taken
  /\ \A n \in 1..Len(snapshots) : Len(snapshots[n]) = 1

Asked ==
  /\ query.admits \in SUBSET IndexedChunks
  /\ query.wanted \in Nat /\ query.candidates \in Nat

DenseWell(row) ==
  /\ row \in Seq(HitsOf(query.admits)) /\ Len(row) <= query.candidates
  /\ \A i, j \in 1..Len(row) : row[i].chunk = row[j].chunk => i = j

RerankedWell(row, merged) ==
  /\ row \in Seq(EntriesOf(query.admits)) /\ Len(row) = Least(query.wanted, Len(merged))
  /\ ToSet(row) \subseteq ToSet(merged) /\ IsInjective(row)

(* CandidatesReachReranker looks at the fused row next to the two it was   *)
(* made of; for the next step these are hits of admitted chunks, no more   *)
(* of either than candidates were asked for, and no chunk twice among the  *)
(* dense ones.  The answer is the row of the last snapshot. *)
RankingInv ==
  /\ SnapshotsTyped
  /\ progress # "none" => Asked
  /\ Len(snapshots) >= 1 => DenseWell(snapshots[1][1])
  /\ progress \in {"sparse", "merged", "reranked", "answered"} =>
       sparse \in Seq(HitsOf(query.admits)) /\ Len(sparse) <= query.candidates
  /\ Len(snapshots) >= 2 => FusedWell(query.admits, snapshots[2][1], snapshots[1][1], sparse)
  /\ Len(snapshots) >= 3 => RerankedWell(snapshots[3][1], snapshots[2][1])
  /\ progress = "answered" => answer = snapshots[3][1]

(* Before the first query there are no snapshots.                          *)
LEMMA RankingStarts == RankingInit => RankingInv
BY DEF RankingInit, RankingInv, SnapshotsTyped, Taken

(* One more snapshot: those before it stay. *)
LEMMA Snapped ==
  ASSUME SnapshotsTyped, NEW row \in Rows
  PROVE  LET new == Append(snapshots, <<row>>)
         IN  /\ new \in Seq(Seq(Rows)) /\ Len(new) = Taken + 1 /\ Len(snapshots) = Taken
             /\ \A n \in 1..Len(new) : Len(new[n]) = 1
             /\ \A n \in 1..Taken : new[n] = snapshots[n]
             /\ new[Taken + 1][1] = row
<1>1. <<row>> \in Seq(Rows) /\ Len(<<row>>) = 1 /\ <<row>>[1] = row OBVIOUS
<1>2. PICK one : one = <<row>> OBVIOUS
<1>3. snapshots \in Seq(Seq(Rows)) /\ Len(snapshots) = Taken /\ Taken \in Nat
  BY DEF SnapshotsTyped
<1> HIDE DEF Taken
<1>4. PICK new : new = Append(snapshots, one) OBVIOUS
<1>5. one \in Seq(Rows) /\ Len(one) = 1 /\ one[1] = row BY <1>1, <1>2
<1>6. /\ new \in Seq(Seq(Rows)) /\ Len(new) = Taken + 1 /\ new[Taken + 1] = one
      /\ \A n \in 1..Taken : new[n] = snapshots[n]
  <2> HIDE DEF Rows
  <2> QED BY <1>3, <1>4, <1>5
<1>7. \A n \in 1..Len(new) : Len(new[n]) = 1
  <2> TAKE n \in 1..Len(new)
  <2>1. CASE n = Taken + 1 BY <2>1, <1>5, <1>6
  <2>2. CASE n # Taken + 1
    <3>1. n \in 1..Taken BY <2>2, <1>3, <1>6
    <3>2. Len(snapshots[n]) = 1 BY <3>1, <1>3 DEF SnapshotsTyped
    <3> QED BY <3>1, <3>2, <1>6
  <2> QED BY <2>1, <2>2
<1> QED BY <1>2, <1>3, <1>4, <1>5, <1>6, <1>7

(* A row of admitted hits or entries is a row of the snapshots. *)
LEMMA AdmittedRows ==
  ASSUME NEW S \in SUBSET IndexedChunks
  PROVE  Seq(HitsOf(S)) \subseteq Rows /\ Seq(EntriesOf(S)) \subseteq Rows
<1>1. HitsOf(S) \subseteq HitsOf(IndexedChunks) BY DEF HitsOf
<1>2. KeysOf(S) \subseteq KeysOf(IndexedChunks) BY DEF KeysOf
<1>3. EntriesOf(S) \subseteq EntriesOf(IndexedChunks) BY <1>2 DEF EntriesOf
<1>4. \A row : row \in Seq(HitsOf(S)) => row \in Seq(HitsOf(IndexedChunks))
  <2> TAKE row
  <2> HAVE row \in Seq(HitsOf(S))
  <2>1. row \in [1..Len(row) -> HitsOf(IndexedChunks)] BY <1>1
  <2> QED BY <2>1
<1>5. \A row : row \in Seq(EntriesOf(S)) => row \in Seq(EntriesOf(IndexedChunks))
  <2> TAKE row
  <2> HAVE row \in Seq(EntriesOf(S))
  <2>1. row \in [1..Len(row) -> EntriesOf(IndexedChunks)] BY <1>3
  <2> QED BY <2>1
<1> QED BY <1>4, <1>5 DEF Rows

(* An order of a finite set is a sequence without repetition. *)
LEMMA OrderIs ==
  ASSUME NEW S, IsFiniteSet(S), NEW order \in SetToSeqs(S)
  PROVE  /\ order \in Seq(S) /\ Len(order) = Cardinality(S) /\ Cardinality(S) \in Nat
         /\ \A i, j \in 1..Len(order) : order[i] = order[j] => i = j
<1>1. Cardinality(S) \in Nat BY FS_CardinalityType
<1>2. order \in [1..Cardinality(S) -> S]
      /\ \A i, j \in 1..Cardinality(S) : i # j => order[i] # order[j]
  BY DEF SetToSeqs
<1>3. order \in Seq(S) /\ Len(order) = Cardinality(S) BY <1>1, <1>2
<1> QED BY <1>1, <1>2, <1>3

(* The first of an order with their scores are hits of it, no two of the   *)
(* same. *)
LEMMA BestAre ==
  ASSUME NEW S, NEW order \in Seq(S), \A i, j \in 1..Len(order) : order[i] = order[j] => i = j,
         NEW size \in Nat, NEW scores, \A i \in 1..Len(order) : scores[i] \in Int
  PROVE  LET best == SubSeq(order, 1, Least(size, Len(order)))
             hits == Scored(best, scores)
         IN  /\ best \in Seq(S) /\ DOMAIN best = 1..Len(best) /\ Len(best) <= Len(order)
             /\ \A i \in 1..Len(best) : best[i] = order[i]
             /\ hits \in Seq(HitsOf(S)) /\ Len(hits) = Len(best) /\ Len(hits) <= size
             /\ \A i \in 1..Len(hits) : hits[i].chunk = best[i] /\ hits[i].score = scores[i]
             /\ \A i, j \in 1..Len(hits) : hits[i].chunk = hits[j].chunk => i = j
<1>1. PICK n \in Nat : n = Least(size, Len(order)) BY DEF Least
<1>2. n <= size /\ n <= Len(order) BY <1>1 DEF Least
<1>3. PICK best : best = SubSeq(order, 1, n) OBVIOUS
<1>4. /\ best \in Seq(S) /\ Len(best) = n /\ DOMAIN best = 1..n
      /\ \A i \in 1..n : best[i] = order[i]
  BY <1>2, <1>3
<1>5. PICK hits : hits = Scored(best, scores) OBVIOUS
<1>6. hits = [i \in 1..n |-> [chunk |-> best[i], score |-> scores[i]]] BY <1>4, <1>5 DEF Scored
<1>7. \A i \in 1..n : [chunk |-> best[i], score |-> scores[i]] \in HitsOf(S)
  <2> TAKE i \in 1..n
  <2>1. best[i] \in S /\ scores[i] \in Int BY <1>2, <1>4
  <2> QED BY <2>1 DEF HitsOf
<1>8. hits \in Seq(HitsOf(S)) /\ Len(hits) = n BY <1>6, <1>7
<1>9. \A i \in 1..n : hits[i].chunk = best[i] /\ hits[i].score = scores[i] BY <1>6
<1>10. \A i, j \in 1..n : hits[i].chunk = hits[j].chunk => i = j BY <1>2, <1>4, <1>9
<1> QED BY <1>1, <1>2, <1>3, <1>4, <1>5, <1>8, <1>9, <1>10

(* A query comes in: what is asked for, and nothing yet ranked.            *)
LEMMA BuildInputsKeeps ==
  ASSUME RankingInv, NEW admits \in Filters, NEW asked \in AskedTopKs, NEW profile \in ProfileTopKs,
         NEW strategy, BuildInputs(admits, asked, profile, strategy)
  PROVE  RankingInv'
<1>1. asked \in Int /\ profile \in Int /\ admits \in SUBSET IndexedChunks BY RankingAssumption
<1>2. Wanted(asked) \in Nat BY <1>1 DEF Wanted
<1>3. Candidates(asked, profile) \in Nat BY <1>1, <1>2 DEF Candidates
<1>4. Asked' BY <1>1, <1>2, <1>3 DEF BuildInputs, Asked
<1>5. SnapshotsTyped' /\ Len(snapshots') = 0 BY DEF BuildInputs, RankingInv, SnapshotsTyped, Taken
<1>6. progress' = "asked" BY DEF BuildInputs
<1> QED BY <1>4, <1>5, <1>6 DEF RankingInv

(* The dense search: its hits are admitted ones, and no chunk is twice     *)
(* among them.                                                             *)
LEMMA SearchDenseKeeps ==
  ASSUME RankingInv, NEW shape \in ScoreShapes, SearchDense(shape)
  PROVE  RankingInv'
<1>1. /\ progress = "asked" /\ progress' = "dense" /\ query' = query /\ sparse' = sparse
      /\ answer' = answer
  BY DEF SearchDense
<1>2. Asked /\ SnapshotsTyped BY <1>1 DEF RankingInv
<1>3. PICK order \in SetToSeqs(query.admits) :
        LET hits == SubSeq(order, 1, Least(query.candidates, Len(order)))
        IN snapshots' = Append(snapshots, <<Scored(hits, shape)>>)
  BY DEF SearchDense
<1>4. IsFiniteSet(query.admits) /\ Cardinality(query.admits) <= Cardinality(IndexedChunks)
  BY <1>2, RankingAssumption, FS_Subset DEF Asked
<1>5. /\ order \in Seq(query.admits) /\ Len(order) = Cardinality(query.admits)
      /\ \A i, j \in 1..Len(order) : order[i] = order[j] => i = j
  BY <1>4, OrderIs
<1>6. \A i \in 1..Len(order) : shape[i] \in Int
  <2>1. Cardinality(IndexedChunks) \in Nat BY RankingAssumption, FS_CardinalityType
  <2>2. shape \in Seq(Int) /\ Len(shape) = Cardinality(IndexedChunks) BY RankingAssumption
  <2>3. \A i \in 1..Len(order) : i \in 1..Len(shape) BY <1>4, <1>5, <2>1, <2>2
  <2> QED BY <2>2, <2>3
<1>7. PICK row : row = Scored(SubSeq(order, 1, Least(query.candidates, Len(order))), shape) OBVIOUS
<1>8. DenseWell(row)
  <2>1. query.candidates \in Nat BY <1>2 DEF Asked
  <2>2. /\ row \in Seq(HitsOf(query.admits)) /\ Len(row) <= query.candidates
        /\ \A i, j \in 1..Len(row) : row[i].chunk = row[j].chunk => i = j
    BY <1>5, <1>6, <1>7, <2>1, BestAre
  <2> QED BY <2>2 DEF DenseWell
<1>9. row \in Rows BY <1>2, <1>8, AdmittedRows DEF DenseWell, Asked
<1>10. PICK new : new = Append(snapshots, <<row>>) OBVIOUS
<1>11. /\ new \in Seq(Seq(Rows)) /\ Len(new) = 1 /\ new[1][1] = row
       /\ \A n \in 1..Len(new) : Len(new[n]) = 1
  BY <1>1, <1>2, <1>9, <1>10, Snapped DEF Taken
<1>12. snapshots' = new BY <1>3, <1>7, <1>10
<1>13. SnapshotsTyped' BY <1>1, <1>11, <1>12 DEF SnapshotsTyped, Taken
<1>14. DenseWell(snapshots[1][1])' BY <1>1, <1>8, <1>11, <1>12 DEF DenseWell
<1>15. Asked' BY <1>1, <1>2 DEF Asked
<1>16. Len(snapshots') = 1 BY <1>11, <1>12
<1> QED BY <1>1, <1>13, <1>14, <1>15, <1>16 DEF RankingInv

(* The sparse search: its hits are admitted ones.                          *)
LEMMA SearchSparseKeeps ==
  ASSUME RankingInv, NEW shape \in ScoreShapes, SearchSparse(shape)
  PROVE  RankingInv'
<1>1. /\ progress = "dense" /\ progress' = "sparse" /\ query' = query /\ snapshots' = snapshots
      /\ answer' = answer
  BY DEF SearchSparse
<1>2. Asked /\ SnapshotsTyped /\ Len(snapshots) = 1 /\ DenseWell(snapshots[1][1])
  BY <1>1 DEF RankingInv, SnapshotsTyped, Taken
<1>3. PICK relevant \in SUBSET query.admits : \E order \in MaskedOrders(relevant) :
        LET best == SubSeq(order, 1, Least(query.candidates, Len(order)))
            scores == [i \in DOMAIN shape |->
              IF i <= Cardinality(relevant) THEN shape[i] + 1 ELSE 0]
            admitted == {i \in DOMAIN best : best[i] \in query.admits}
        IN sparse' = Picked(Scored(best, scores), admitted)
  BY DEF SearchSparse
<1>22. PICK order \in MaskedOrders(relevant) :
        LET best == SubSeq(order, 1, Least(query.candidates, Len(order)))
            scores == [i \in DOMAIN shape |->
              IF i <= Cardinality(relevant) THEN shape[i] + 1 ELSE 0]
            admitted == {i \in DOMAIN best : best[i] \in query.admits}
        IN sparse' = Picked(Scored(best, scores), admitted)
  BY <1>3
<1>4. PICK scores : scores = [i \in DOMAIN shape |->
                                IF i <= Cardinality(relevant) THEN shape[i] + 1 ELSE 0]
  OBVIOUS
<1>5. IsFiniteSet(IndexedChunks) /\ order \in SetToSeqs(IndexedChunks)
  BY RankingAssumption DEF MaskedOrders
<1>6. /\ order \in Seq(IndexedChunks) /\ Len(order) = Cardinality(IndexedChunks)
      /\ \A i, j \in 1..Len(order) : order[i] = order[j] => i = j
  BY <1>5, OrderIs
<1>7. \A i \in 1..Len(order) : scores[i] \in Int
  <2>1. shape \in Seq(Int) /\ Len(shape) = Cardinality(IndexedChunks) BY RankingAssumption
  <2>2. \A i \in 1..Len(shape) : shape[i] \in Int BY <2>1
  <2>3. DOMAIN shape = 1..Len(shape) BY <2>1
  <2> QED BY <1>4, <1>6, <2>1, <2>2, <2>3
<1>8. PICK best : best = SubSeq(order, 1, Least(query.candidates, Len(order))) OBVIOUS
<1>9. PICK hits : hits = Scored(best, scores) OBVIOUS
<1>10. /\ best \in Seq(IndexedChunks) /\ DOMAIN best = 1..Len(best)
       /\ hits \in Seq(HitsOf(IndexedChunks)) /\ Len(hits) = Len(best)
       /\ Len(hits) <= query.candidates
       /\ \A i \in 1..Len(hits) : hits[i].chunk = best[i]
  <2>1. query.candidates \in Nat BY <1>2 DEF Asked
  <2> QED BY <1>6, <1>7, <1>8, <1>9, <2>1, BestAre
<1>11. PICK admitted : admitted = {i \in DOMAIN best : best[i] \in query.admits} OBVIOUS
<1>12. sparse' = Picked(hits, admitted) BY <1>22, <1>4, <1>8, <1>9, <1>11
<1>13. admitted \in SUBSET DOMAIN hits /\ Len(hits) \in Nat BY <1>10, <1>11
<1>14. PICK kept : kept = Picked(hits, admitted) OBVIOUS
<1>15. /\ kept \in Seq(HitsOf(IndexedChunks)) /\ Len(kept) = Cardinality(admitted)
       /\ Cardinality(admitted) \in Nat /\ Cardinality(admitted) <= Len(hits)
       /\ Ascending(admitted) \in [1..Cardinality(admitted) -> admitted]
       /\ \A n \in 1..Cardinality(admitted) : kept[n] = hits[Ascending(admitted)[n]]
  BY <1>10, <1>13, <1>14, PickedIs
<1>16. \A n \in 1..Len(kept) : kept[n] \in HitsOf(query.admits)
  <2> TAKE n \in 1..Len(kept)
  <2>1. PICK i \in admitted : i = Ascending(admitted)[n] BY <1>15
  <2>2. i \in 1..Len(hits) /\ hits[i].chunk \in query.admits BY <1>10, <1>11
  <2>3. hits[i] \in HitsOf(IndexedChunks) BY <1>10, <2>2
  <2> QED BY <1>15, <2>1, <2>2, <2>3 DEF HitsOf
<1>17. kept \in Seq(HitsOf(query.admits))
  <2>1. kept = [n \in 1..Len(kept) |-> kept[n]] /\ Len(kept) \in Nat BY <1>15
  <2> QED BY <1>16, <2>1
<1>18. Len(kept) <= query.candidates
  <2>1. query.candidates \in Nat BY <1>2 DEF Asked
  <2> QED BY <1>10, <1>13, <1>15, <2>1
<1>19. sparse' = kept BY <1>12, <1>14
<1>20. Asked' /\ SnapshotsTyped' /\ DenseWell(snapshots[1][1])' /\ Len(snapshots') = 1
  BY <1>1, <1>2 DEF Asked, SnapshotsTyped, Taken, DenseWell
<1>21. (sparse \in Seq(HitsOf(query.admits)) /\ Len(sparse) <= query.candidates)'
  BY <1>1, <1>17, <1>18, <1>19
<1> QED BY <1>1, <1>20, <1>21 DEF RankingInv

(* The rows are fused, and the limit leaves room for all of both.          *)
LEMMA MergeKeeps ==
  ASSUME RankingInv, Merge
  PROVE  RankingInv'
<1>1. /\ progress = "sparse" /\ progress' = "merged" /\ query' = query /\ sparse' = sparse
      /\ answer' = answer
      /\ snapshots' = Append(snapshots, <<Fused(snapshots[1][1], sparse,
                                 MergeLimit(query.candidates), query.strategy)>>)
  BY DEF Merge, Dense
<1>2. Asked /\ SnapshotsTyped /\ Len(snapshots) = 1 /\ DenseWell(snapshots[1][1])
  BY <1>1 DEF RankingInv, SnapshotsTyped, Taken
<1>3. sparse \in Seq(HitsOf(query.admits)) /\ Len(sparse) <= query.candidates
  BY <1>1 DEF RankingInv
<1>4. PICK dense : dense = snapshots[1][1] OBVIOUS
<1>5. DenseWell(dense) BY <1>2, <1>4
<1>6. PICK limit : limit = MergeLimit(query.candidates) OBVIOUS
<1>7. limit \in Nat /\ Len(dense) + Len(sparse) <= limit
  <2>1. query.candidates \in Nat /\ Len(dense) <= query.candidates /\ Len(dense) \in Nat
    BY <1>2, <1>5 DEF Asked, DenseWell
  <2>2. Len(sparse) \in Nat BY <1>3
  <2> QED BY <1>3, <1>6, <2>1, <2>2 DEF MergeLimit
<1>8. PICK row : row = Fused(dense, sparse, limit, query.strategy) OBVIOUS
<1>9. FusedWell(query.admits, row, dense, sparse)
  BY <1>3, <1>5, <1>7, <1>8, FusedIs DEF DenseWell
<1>10. row \in Rows BY <1>2, <1>9, AdmittedRows DEF FusedWell, Asked
<1>11. PICK new : new = Append(snapshots, <<row>>) OBVIOUS
<1>12. /\ new \in Seq(Seq(Rows)) /\ Len(new) = 2 /\ new[2][1] = row /\ new[1][1] = dense
       /\ \A n \in 1..Len(new) : Len(new[n]) = 1
  BY <1>1, <1>2, <1>4, <1>10, <1>11, Snapped DEF Taken
<1>13. snapshots' = new BY <1>1, <1>4, <1>6, <1>8, <1>11
<1>14. SnapshotsTyped' BY <1>1, <1>12, <1>13 DEF SnapshotsTyped, Taken
<1>15. DenseWell(snapshots[1][1])' BY <1>1, <1>5, <1>12, <1>13 DEF DenseWell
<1>16. FusedWell(query.admits, snapshots[2][1], snapshots[1][1], sparse)'
  BY <1>1, <1>9, <1>12, <1>13
<1>17. Asked' BY <1>1, <1>2 DEF Asked
<1>18. Len(snapshots') = 2 BY <1>12, <1>13
<1>19. (sparse \in Seq(HitsOf(query.admits)) /\ Len(sparse) <= query.candidates)' BY <1>1, <1>3
<1> QED BY <1>1, <1>14, <1>15, <1>16, <1>17, <1>18, <1>19 DEF RankingInv

(* The reranker orders the fused entries anew and takes the first.         *)
LEMMA RerankKeeps ==
  ASSUME RankingInv, Rerank
  PROVE  RankingInv'
<1>1. /\ progress = "merged" /\ progress' = "reranked" /\ query' = query /\ sparse' = sparse
      /\ answer' = answer
  BY DEF Rerank
<1>2. /\ Asked /\ SnapshotsTyped /\ Len(snapshots) = 2 /\ DenseWell(snapshots[1][1])
      /\ FusedWell(query.admits, snapshots[2][1], snapshots[1][1], sparse)
      /\ sparse \in Seq(HitsOf(query.admits)) /\ Len(sparse) <= query.candidates
  BY <1>1 DEF RankingInv, SnapshotsTyped, Taken
<1>3. PICK merged : merged = snapshots[2][1] OBVIOUS
<1>4. PICK ranks \in Rankings(Len(merged), query.wanted) :
        snapshots' = Append(snapshots, <<[i \in DOMAIN ranks |-> merged[ranks[i]]]>>)
  BY <1>3 DEF Rerank, Merged
<1>5. /\ merged \in Seq(EntriesOf(query.admits)) /\ Len(merged) \in Nat
      /\ DOMAIN merged = 1..Len(merged)
      /\ \A i, j \in 1..Len(merged) : i < j => merged[i] # merged[j]
  BY <1>2, <1>3, SMTT(30) DEF FusedWell
<1>6. PICK size \in Nat : size = Least(query.wanted, Len(merged))
  BY <1>2, <1>5 DEF Least, Asked
<1>7. PICK best \in SUBSET (1..Len(merged)) : Cardinality(best) = size /\ ranks \in SetToSeqs(best)
  BY <1>4, <1>6 DEF Rankings, kSubset
<1>8. IsFiniteSet(1..Len(merged)) BY <1>5, FS_Interval
<1>9. /\ ranks \in Seq(best) /\ Len(ranks) = size
      /\ \A i, j \in 1..Len(ranks) : ranks[i] = ranks[j] => i = j
  <2>1. IsFiniteSet(best) BY <1>8, FS_Subset
  <2> QED BY <1>7, <2>1, OrderIs
<1>10. PICK row : row = [i \in 1..size |-> merged[ranks[i]]] OBVIOUS
<1>11. \A i \in 1..size : ranks[i] \in 1..Len(merged)
  <2>1. \A i \in 1..size : ranks[i] \in best BY <1>9
  <2> QED BY <2>1
<1>12. /\ row \in Seq(EntriesOf(query.admits)) /\ Len(row) = size /\ DOMAIN row = 1..size
       /\ \A i \in 1..size : row[i] = merged[ranks[i]]
  <2>1. \A i \in 1..size : merged[ranks[i]] \in EntriesOf(query.admits) BY <1>5, <1>11
  <2> QED BY <1>10, <2>1
<1>13. ToSet(row) \subseteq ToSet(merged) BY <1>5, <1>11, <1>12 DEF ToSet
<1>14. IsInjective(row)
  <2> SUFFICES ASSUME NEW i \in 1..size, NEW j \in 1..size, row[i] = row[j] PROVE i = j
    BY <1>12 DEF IsInjective
  <2>1. PICK m \in 1..Len(merged), n \in 1..Len(merged) : m = ranks[i] /\ n = ranks[j] BY <1>11
  <2>2. merged[m] = merged[n] BY <1>12, <2>1
  <2>3. m = n BY <1>5, <2>2
  <2> QED BY <1>9, <2>1, <2>3
<1>15. RerankedWell(row, merged) BY <1>6, <1>12, <1>13, <1>14 DEF RerankedWell
<1>16. row \in Rows BY <1>2, <1>12, AdmittedRows DEF Asked
<1>17. PICK new : new = Append(snapshots, <<row>>) OBVIOUS
<1>18. /\ new \in Seq(Seq(Rows)) /\ Len(new) = 3 /\ new[3][1] = row
       /\ new[1] = snapshots[1] /\ new[2] = snapshots[2]
       /\ \A n \in 1..Len(new) : Len(new[n]) = 1
  <2>1. Taken = 2 BY <1>1 DEF Taken
  <2>2. /\ new \in Seq(Seq(Rows)) /\ Len(new) = Taken + 1 /\ new[Taken + 1][1] = row
        /\ \A n \in 1..Taken : new[n] = snapshots[n]
        /\ \A n \in 1..Len(new) : Len(new[n]) = 1
    BY <1>2, <1>16, <1>17, Snapped
  <2> QED BY <2>1, <2>2
<1>19. snapshots' = new
  <2>1. DOMAIN ranks = 1..size BY <1>9
  <2> QED BY <1>4, <1>10, <1>17, <2>1
<1>20. SnapshotsTyped' BY <1>1, <1>18, <1>19 DEF SnapshotsTyped, Taken
<1>21. DenseWell(snapshots[1][1])' BY <1>1, <1>2, <1>18, <1>19 DEF DenseWell
<1>22. FusedWell(query.admits, snapshots[2][1], snapshots[1][1], sparse)'
  BY <1>1, <1>2, <1>18, <1>19
<1>23. RerankedWell(snapshots[3][1], snapshots[2][1])'
  BY <1>1, <1>3, <1>15, <1>18, <1>19 DEF RerankedWell
<1>24. Asked' BY <1>1, <1>2 DEF Asked
<1>25. Len(snapshots') = 3 BY <1>18, <1>19
<1>26. (sparse \in Seq(HitsOf(query.admits)) /\ Len(sparse) <= query.candidates)' BY <1>1, <1>2
<1> QED BY <1>1, <1>20, <1>21, <1>22, <1>23, <1>24, <1>25, <1>26 DEF RankingInv

(* Flattening a row of one item gives the item. *)
LEMMA FlattenOne ==
  ASSUME NEW seqs, Len(seqs) = 1
  PROVE  FlattenSeq(seqs) = seqs[1]
<1> DEFINE Flat(f) == f = [i \in 1..Len(seqs) |-> IF i = 1 THEN seqs[i] ELSE f[i - 1] \o seqs[i]]
<1>1. \E f : Flat(f)
  <2> DEFINE f == [i \in 1..1 |-> seqs[1]]
  <2>1. Flat(f) OBVIOUS
  <2> QED BY <2>1
<1> DEFINE flat == CHOOSE f : Flat(f)
<1>2. Flat(flat)
  <2> HIDE DEF Flat
  <2> QED BY <1>1
<1>3. FlattenSeq(seqs) = flat[1] BY DEF FlattenSeq
<1> HIDE DEF flat
<1>4. flat[1] = seqs[1] BY <1>2
<1> QED BY <1>3, <1>4

(* The answer is the last row.                                             *)
LEMMA TakeItemsKeeps ==
  ASSUME RankingInv, TakeItems
  PROVE  RankingInv'
<1>1. /\ progress = "reranked" /\ progress' = "answered" /\ query' = query /\ sparse' = sparse
      /\ snapshots' = snapshots /\ answer' = FlattenSeq(Last(snapshots))
  BY DEF TakeItems
<1>2. SnapshotsTyped /\ Len(snapshots) = 3 BY <1>1 DEF RankingInv, SnapshotsTyped, Taken
<1>3. Last(snapshots) = snapshots[3] /\ Len(snapshots[3]) = 1
  BY <1>2 DEF SnapshotsTyped, Last
<1>4. answer' = snapshots[3][1] BY <1>1, <1>3, FlattenOne
<1>5. /\ Asked /\ DenseWell(snapshots[1][1]) /\ RerankedWell(snapshots[3][1], snapshots[2][1])
      /\ FusedWell(query.admits, snapshots[2][1], snapshots[1][1], sparse)
      /\ sparse \in Seq(HitsOf(query.admits)) /\ Len(sparse) <= query.candidates
  BY <1>1, <1>2 DEF RankingInv
<1>6. Asked' /\ Len(snapshots') = 3 BY <1>1, <1>2, <1>5 DEF Asked
<1>7. SnapshotsTyped' BY <1>1, <1>2 DEF SnapshotsTyped, Taken
<1>8. DenseWell(snapshots[1][1])' BY <1>1, <1>5 DEF DenseWell
<1>9. RerankedWell(snapshots[3][1], snapshots[2][1])' BY <1>1, <1>5 DEF RerankedWell
<1>10. /\ FusedWell(query.admits, snapshots[2][1], snapshots[1][1], sparse)'
       /\ (sparse \in Seq(HitsOf(query.admits)) /\ Len(sparse) <= query.candidates)'
  BY <1>1, <1>5
<1> QED BY <1>1, <1>4, <1>6, <1>7, <1>8, <1>9, <1>10 DEF RankingInv

(* Every step of a query keeps the invariant.                              *)
LEMMA RankingKeeps == RankingInv /\ [RankingNext]_rankingVars => RankingInv'
<1> SUFFICES ASSUME RankingInv, [RankingNext]_rankingVars PROVE RankingInv' OBVIOUS
<1>1. CASE UNCHANGED rankingVars
  <2>1. /\ query' = query /\ progress' = progress /\ snapshots' = snapshots
        /\ sparse' = sparse /\ answer' = answer
    BY <1>1 DEF rankingVars
  <2>2. SnapshotsTyped' BY <2>1 DEF RankingInv, SnapshotsTyped, Taken
  <2>3. (progress # "none" => Asked)' BY <2>1 DEF RankingInv, Asked
  <2>4. (Len(snapshots) >= 1 => DenseWell(snapshots[1][1]))' BY <2>1 DEF RankingInv, DenseWell
  <2>5. (Len(snapshots) >= 3 => RerankedWell(snapshots[3][1], snapshots[2][1]))'
    BY <2>1 DEF RankingInv, RerankedWell
  <2> QED BY <2>1, <2>2, <2>3, <2>4, <2>5 DEF RankingInv
<1>2. ASSUME NEW admits \in Filters, NEW asked \in AskedTopKs, NEW profile \in ProfileTopKs,
             NEW strategy \in Strategies, BuildInputs(admits, asked, profile, strategy)
      PROVE  RankingInv'
  BY <1>2, BuildInputsKeeps
<1>3. ASSUME NEW shape \in ScoreShapes, SearchDense(shape) PROVE RankingInv'
  BY <1>3, SearchDenseKeeps
<1>4. ASSUME NEW shape \in ScoreShapes, SearchSparse(shape) PROVE RankingInv'
  BY <1>4, SearchSparseKeeps
<1>5. CASE Merge BY <1>5, MergeKeeps
<1>6. CASE Rerank BY <1>6, RerankKeeps
<1>7. CASE TakeItems BY <1>7, TakeItemsKeeps
<1> QED BY <1>1, <1>2, <1>3, <1>4, <1>5, <1>6, <1>7 DEF RankingNext

(* For every set of chunks, filters, limits and strategies and all scores: *)
(* the reranker is handed every dense hit and sparse hits of all documents *)
(* the sparse search found one in, without one falling out at the limit,   *)
(* and the answer is as many admitted entries as were asked for or there   *)
(* are, all of the fused ones and none twice (merge_retrieve_items,        *)
(* _fuse_rows, reranker_rerank_items).                                     *)
THEOREM AnswerCorrect == RankingSpec => []AnswerIsRanked
<1>1. RankingInv => AnswerIsRanked
  <2> SUFFICES ASSUME RankingInv PROVE AnswerIsRanked OBVIOUS
  <2>1. CandidatesReachReranker
    BY DEF RankingInv, FusedWell, CandidatesReachReranker, Merged, Dense
  <2>2. ASSUME progress = "answered"
        PROVE  /\ Len(answer) = Least(query.wanted, Len(Merged))
               /\ \A i \in DOMAIN answer : answer[i].chunk \in query.admits
               /\ ToSet(answer) \subseteq ToSet(Merged) /\ IsInjective(answer)
    <3>1. RerankedWell(answer, Merged)
      BY <2>2 DEF RankingInv, SnapshotsTyped, Taken, Merged
    <3>2. \A i \in DOMAIN answer : answer[i] \in EntriesOf(query.admits)
      BY <3>1 DEF RerankedWell
    <3> QED BY <3>1, <3>2 DEF RerankedWell, EntriesOf
  <2> QED BY <2>1, <2>2 DEF AnswerIsRanked
<1> QED BY RankingStarts, RankingKeeps, <1>1, PTL DEF RankingSpec

-----------------------------------------------------------------------------
(* Lists put together, and parts of a number.                              *)

(* What FlattenSeq computes recursively exists. *)
LEMMA FlattenGrows ==
  ASSUME NEW T, NEW seqs \in Seq(Seq(T)), Len(seqs) # 0
  PROVE  \E flat : /\ flat[1] = seqs[1]
                   /\ \A i \in 2..Len(seqs) : flat[i] = flat[i - 1] \o seqs[i]
                   /\ FlattenSeq(seqs) = flat[Len(seqs)]
<1> DEFINE N == Len(seqs)
<1> DEFINE Turns(g, n) == g = [i \in 1..n |-> IF i = 1 THEN seqs[i] ELSE g[i - 1] \o seqs[i]]
<1>1. N \in Nat /\ N >= 1 /\ \A i \in 1..N : seqs[i] \in Seq(T) OBVIOUS
<1>2. \E g : Turns(g, 1)
  <2> DEFINE g == [i \in 1..1 |-> seqs[1]]
  <2>1. g = [i \in 1..1 |-> IF i = 1 THEN seqs[i] ELSE g[i - 1] \o seqs[i]] OBVIOUS
  <2> QED BY <2>1
<1>3. ASSUME NEW n \in 1..(N - 1), \E g : Turns(g, n) PROVE \E g : Turns(g, n + 1)
  <2>1. PICK g : Turns(g, n) BY <1>3
  <2> DEFINE h == [i \in 1..(n + 1) |-> IF i = n + 1 THEN g[n] \o seqs[n + 1] ELSE g[i]]
  <2>2. \A i \in 1..n : g[i] = IF i = 1 THEN seqs[i] ELSE g[i - 1] \o seqs[i] BY <2>1
  <2>3. ASSUME NEW i \in 1..(n + 1)
        PROVE  h[i] = IF i = 1 THEN seqs[i] ELSE h[i - 1] \o seqs[i]
    <3>1. CASE i = n + 1
      <4>1. h[i] = g[n] \o seqs[n + 1] /\ h[i - 1] = g[n] /\ i # 1
        <5>1. n \in Nat /\ n # 0 BY <1>1
        <5>2. i - 1 = n /\ i - 1 \in 1..(n + 1) /\ i - 1 # n + 1 /\ i # 1 BY <3>1, <5>1
        <5>3. h[i - 1] = g[i - 1] BY <5>2
        <5>4. h[i] = g[n] \o seqs[n + 1] BY <3>1
        <5> QED BY <5>2, <5>3, <5>4
      <4> QED BY <3>1, <4>1
    <3>2. CASE i # n + 1 /\ i # 1
      <4>1. h[i] = g[i] /\ h[i - 1] = g[i - 1] /\ i \in 1..n BY <3>2
      <4> QED BY <3>2, <4>1, <2>2
    <3>3. CASE i = 1
      <4>1. h[i] = g[i] /\ i \in 1..n BY <3>3
      <4> QED BY <3>3, <4>1, <2>2
    <3> QED BY <3>1, <3>2, <3>3
  <2> DEFINE k == [i \in 1..(n + 1) |-> IF i = 1 THEN seqs[i] ELSE h[i - 1] \o seqs[i]]
  <2>4. \A i \in 1..(n + 1) : h[i] = k[i] BY <2>3
  <2>5. h = [i \in 1..(n + 1) |-> h[i]] /\ k = [i \in 1..(n + 1) |-> k[i]] OBVIOUS
  <2>6. h = k
    <3> HIDE DEF h, k
    <3> QED BY <2>4, <2>5
  <2>7. Turns(h, n + 1)
    <3>1. h = [i \in 1..(n + 1) |-> IF i = 1 THEN seqs[i] ELSE h[i - 1] \o seqs[i]]
      <4> HIDE DEF h
      <4> QED BY <2>6
    <3> HIDE DEF h
    <3> QED BY <3>1
  <2> HIDE DEF h
  <2> QED BY <2>7
<1>4. \E g : Turns(g, N)
  <2> DEFINE done == {n \in Nat : \E g : Turns(g, n + 1)}
  <2> HIDE DEF Turns
  <2>1. 0 \in done BY <1>2
  <2>2. \A n \in 0..(N - 1 - 1) : n \in done => n + 1 \in done
    <3> TAKE n \in 0..(N - 1 - 1)
    <3> HAVE n \in done
    <3>1. n + 1 \in 1..(N - 1) /\ \E g : Turns(g, n + 1) BY <1>1
    <3>2. \E g : Turns(g, n + 1 + 1) BY <3>1, <1>3
    <3> QED BY <3>2
  <2>3. 0..(N - 1) \subseteq done
    <3> HIDE DEF done
    <3>1. N - 1 \in Nat BY <1>1
    <3> QED BY <3>1, <2>1, <2>2, Counting
  <2>4. N - 1 \in 0..(N - 1) /\ N - 1 + 1 = N BY <1>1
  <2>5. N - 1 \in done BY <2>3, <2>4
  <2> QED BY <2>4, <2>5
<1>5. PICK flat : Turns(flat, N) /\ FlattenSeq(seqs) = flat[N]
  <2> DEFINE chosen == CHOOSE g : Turns(g, N)
  <2>1. Turns(chosen, N)
    <3> HIDE DEF Turns
    <3> QED BY <1>4
  <2>2. FlattenSeq(seqs) = chosen[N] BY DEF FlattenSeq
  <2> HIDE DEF chosen, Turns
  <2> QED BY <2>1, <2>2
<1>7. /\ flat[1] = seqs[1]
      /\ \A i \in 2..N : flat[i] = flat[i - 1] \o seqs[i]
  <2>1. \A i \in 1..N : flat[i] = IF i = 1 THEN seqs[i] ELSE flat[i - 1] \o seqs[i] BY <1>5
  <2>2. flat[1] = seqs[1] BY <1>1, <2>1
  <2>3. \A i \in 2..N : i \in 1..N /\ i # 1 BY <1>1
  <2> QED BY <2>1, <2>2, <2>3
<1> QED BY <1>5, <1>7

(* A flattened sequence holds what its sequences hold. *)
LEMMA FlattenIs ==
  ASSUME NEW T, NEW seqs \in Seq(Seq(T))
  PROVE  /\ FlattenSeq(seqs) \in Seq(T)
         /\ \A x : (\E c \in 1..Len(FlattenSeq(seqs)) : FlattenSeq(seqs)[c] = x)
                   <=> \E i \in 1..Len(seqs) : \E w \in 1..Len(seqs[i]) : seqs[i][w] = x
<1>1. CASE Len(seqs) = 0
  <2>1. FlattenSeq(seqs) = seqs BY <1>1 DEF FlattenSeq
  <2>2. seqs = <<>> BY <1>1
  <2>3. seqs \in Seq(T) /\ Len(seqs) = 0 BY <2>2
  <2> QED BY <2>1, <2>3
<1>2. CASE Len(seqs) # 0
  <2> DEFINE N == Len(seqs)
  <2>1. N \in Nat /\ N >= 1 /\ \A i \in 1..N : seqs[i] \in Seq(T) BY <1>2
  <2>7. PICK flat : /\ flat[1] = seqs[1]
                    /\ \A i \in 2..N : flat[i] = flat[i - 1] \o seqs[i]
                    /\ FlattenSeq(seqs) = flat[N]
    BY <1>2, FlattenGrows
  <2> DEFINE Holds(s, n) ==
        \A x : (\E c \in 1..Len(s) : s[c] = x)
               <=> \E i \in 1..n : \E w \in 1..Len(seqs[i]) : seqs[i][w] = x
  <2>8. ASSUME NEW n \in 1..(N - 1), flat[n] \in Seq(T), Holds(flat[n], n)
        PROVE  flat[n + 1] \in Seq(T) /\ Holds(flat[n + 1], n + 1)
    <3>1. n + 1 \in 2..N /\ n \in Nat BY <2>1
    <3>2. PICK s, t : s = flat[n] /\ t = seqs[n + 1] OBVIOUS
    <3>3. flat[n + 1] = s \o t /\ s \in Seq(T) /\ t \in Seq(T)
      <4>1. n + 1 - 1 = n /\ n + 1 \in 1..N BY <3>1, <2>1
      <4>2. PICK m \in 2..N : m = n + 1 BY <3>1
      <4>3. flat[m] = flat[m - 1] \o seqs[m] BY <2>7
      <4>4. m - 1 = n BY <4>2, <3>1
      <4>5. flat[n + 1] = flat[n] \o seqs[n + 1] BY <4>2, <4>3, <4>4
      <4> HIDE DEF Holds, N
      <4> QED BY <2>1, <2>8, <3>2, <4>1, <4>5
    <3>4. /\ s \o t \in Seq(T) /\ Len(s \o t) = Len(s) + Len(t)
          /\ \A c \in 1..Len(s) : (s \o t)[c] = s[c]
          /\ \A c \in 1..Len(t) : (s \o t)[Len(s) + c] = t[c]
          /\ Len(s) \in Nat /\ Len(t) \in Nat
      BY <3>3
    <3>5. PICK joined : joined = s \o t OBVIOUS
    <3>6. Holds(joined, n + 1)
      <4> TAKE x
      <4>1. (\E c \in 1..Len(joined) : joined[c] = x)
            <=> (\E c \in 1..Len(s) : s[c] = x) \/ (\E c \in 1..Len(t) : t[c] = x)
        <5>1. ASSUME NEW c \in 1..Len(joined), joined[c] = x
              PROVE  (\E k \in 1..Len(s) : s[k] = x) \/ (\E k \in 1..Len(t) : t[k] = x)
          <6>1. CASE c <= Len(s) BY <6>1, <5>1, <3>4, <3>5
          <6>2. CASE c > Len(s)
            <7>1. c - Len(s) \in 1..Len(t) /\ Len(s) + (c - Len(s)) = c BY <6>2, <3>4, <3>5
            <7>2. t[c - Len(s)] = x BY <7>1, <5>1, <3>4, <3>5
            <7> QED BY <7>1, <7>2
          <6> QED BY <6>1, <6>2, <3>4
        <5>2. ASSUME NEW c \in 1..Len(s), s[c] = x PROVE \E k \in 1..Len(joined) : joined[k] = x
          <6>1. c \in 1..Len(joined) /\ joined[c] = x BY <5>2, <3>4, <3>5
          <6> QED BY <6>1
        <5>3. ASSUME NEW c \in 1..Len(t), t[c] = x PROVE \E k \in 1..Len(joined) : joined[k] = x
          <6>1. Len(s) + c \in 1..Len(joined) /\ joined[Len(s) + c] = x BY <5>3, <3>4, <3>5
          <6> QED BY <6>1
        <5> QED BY <5>1, <5>2, <5>3
      <4>2. (\E c \in 1..Len(s) : s[c] = x)
            <=> \E i \in 1..n : \E w \in 1..Len(seqs[i]) : seqs[i][w] = x
        BY <2>8, <3>2
      <4>3. (\E i \in 1..(n + 1) : \E w \in 1..Len(seqs[i]) : seqs[i][w] = x)
            <=> \/ \E i \in 1..n : \E w \in 1..Len(seqs[i]) : seqs[i][w] = x
                \/ \E w \in 1..Len(t) : t[w] = x
        <5>1. \A i : i \in 1..(n + 1) <=> i \in 1..n \/ i = n + 1 BY <3>1
        <5> QED BY <5>1, <3>2
      <4> QED BY <4>1, <4>2, <4>3
    <3> HIDE DEF Holds
    <3> QED BY <3>3, <3>4, <3>5, <3>6
  <2> DEFINE done == {n \in Nat : flat[n + 1] \in Seq(T) /\ Holds(flat[n + 1], n + 1)}
  <2>9. 0 \in done
    <3>1. flat[1] \in Seq(T) BY <2>1, <2>7
    <3>2. Holds(flat[1], 1)
      <4> TAKE x
      <4>1. \A i : i \in 1..1 <=> i = 1 OBVIOUS
      <4> QED BY <4>1, <2>7
    <3> HIDE DEF Holds
    <3> QED BY <3>1, <3>2
  <2> HIDE DEF Holds
  <2>10. \A n \in 0..(N - 1 - 1) : n \in done => n + 1 \in done
    <3> TAKE n \in 0..(N - 1 - 1)
    <3> HAVE n \in done
    <3>1. n + 1 \in 1..(N - 1) /\ flat[n + 1] \in Seq(T) /\ Holds(flat[n + 1], n + 1) BY <2>1
    <3>2. flat[n + 1 + 1] \in Seq(T) /\ Holds(flat[n + 1 + 1], n + 1 + 1) BY <3>1, <2>8
    <3> QED BY <3>2
  <2>11. 0..(N - 1) \subseteq done
    <3> HIDE DEF done
    <3>1. N - 1 \in Nat BY <2>1
    <3> QED BY <3>1, <2>9, <2>10, Counting
  <2>12. N - 1 \in 0..(N - 1) /\ N - 1 + 1 = N BY <2>1
  <2>13. flat[N] \in Seq(T) /\ Holds(flat[N], N)
    <3>1. N - 1 \in done BY <2>11, <2>12
    <3> QED BY <2>12, <3>1
  <2> QED BY <2>7, <2>13 DEF Holds
<1> QED BY <1>1, <1>2

(* A quotient rounded down. *)
LEMMA QuotientIs ==
  ASSUME NEW a \in Nat, NEW step \in Nat \ {0}
  PROVE  /\ a \div step \in Nat
         /\ (a \div step) * step <= a /\ a < (a \div step) * step + step
OBVIOUS

-----------------------------------------------------------------------------
(* The chunks of a file.                                                   *)

Units == Nat \X Nat
Words(text) == {text[p] : p \in DOMAIN text}

RawIds    == {"stem"} \cup Nat
NormalIds == Documents \X RawIds
RowsWith(ids, docs) == [id : ids, text : Seq(Units), doc : docs, hash : Nat]
RawRows    == RowsWith(RawIds, {"none"})
NormalRows == RowsWith(NormalIds, Documents)

(* What a part of a sequence holds. *)
LEMMA SubSeqIs ==
  ASSUME NEW T, NEW s \in Seq(T), NEW a \in Nat, NEW b \in Nat, a >= 1, b <= Len(s)
  PROVE  /\ SubSeq(s, a, b) \in Seq(T)
         /\ Len(SubSeq(s, a, b)) = IF a <= b THEN b - a + 1 ELSE 0
         /\ \A c \in 1..Len(SubSeq(s, a, b)) : SubSeq(s, a, b)[c] = s[a + c - 1]
OBVIOUS

(* Windows that overlap by less than their size and whose last one reaches *)
(* the end leave no unit of the text out. *)
LEMMA WindowsAre ==
  ASSUME NEW T, NEW text \in Seq(T), inHand.profile \in WriteProfiles
  PROVE  /\ Windows(text) \in Seq(Seq(T)) /\ Len(Windows(text)) >= 1
         /\ \A w \in 1..Len(Windows(text)) : \A c \in 1..Len(Windows(text)[w]) :
              \E p \in 1..Len(text) : Windows(text)[w][c] = text[p]
         /\ \A p \in 1..Len(text) : \E w \in 1..Len(Windows(text)) :
              \E c \in 1..Len(Windows(text)[w]) : Windows(text)[w][c] = text[p]
<1>1. PICK size \in Nat \ {0}, overlap \in Nat :
        size = Settings.size /\ overlap = Settings.overlap
  BY IngestionAssumption DEF Settings
<1>2. PICK lap \in Nat : lap = Overlap /\ lap < size
  <2>1. size \div 4 \in Nat /\ (size \div 4) * 4 <= size BY QuotientIs
  <2>2. size \div 4 < size BY <2>1
  <2> QED BY <1>1, <2>1, <2>2 DEF Overlap
<1>3. PICK step \in Nat \ {0} : step = size - lap BY <1>1, <1>2
<1>4. PICK length \in Nat : length = Len(text) OBVIOUS
<1>5. PICK rest \in Nat : rest = IF length <= size THEN 0 ELSE length - size BY <1>1, <1>4
<1>6. PICK last \in Nat : last = (rest + step - 1) \div step
  <2>1. rest + step - 1 \in Nat BY <1>3, <1>5
  <2> QED BY <2>1, QuotientIs
<1>7. rest <= last * step
  <2>1. rest + step - 1 \in Nat BY <1>3, <1>5
  <2>2. rest + step - 1 < last * step + step BY <1>6, <2>1, QuotientIs
  <2>3. last * step \in Nat BY <1>6, <1>3
  <2> QED BY <2>2, <2>3
<1> DEFINE MadeFrom(w) == (w - 1) * step + 1
<1> DEFINE To(w) == IF (w - 1) * step + size < length THEN (w - 1) * step + size ELSE length
<1>8. Windows(text) = [w \in 1..(last + 1) |-> SubSeq(text, MadeFrom(w), To(w))]
  BY <1>1, <1>2, <1>3, <1>4, <1>5, <1>6 DEF Windows
<1>9. \A w \in 1..(last + 1) :
        MadeFrom(w) \in Nat /\ MadeFrom(w) >= 1 /\ To(w) \in Nat /\ To(w) <= length
  <2> TAKE w \in 1..(last + 1)
  <2>1. PICK k \in Nat : k = (w - 1) * step
    <3>1. w - 1 \in Nat OBVIOUS
    <3> QED BY <3>1
  <2> QED BY <2>1, <1>4, <1>1
<1>10. PICK windows : windows = Windows(text) OBVIOUS
<1>11. ASSUME NEW w \in 1..(last + 1)
       PROVE  /\ windows[w] \in Seq(T)
              /\ Len(windows[w]) = IF MadeFrom(w) <= To(w) THEN To(w) - MadeFrom(w) + 1 ELSE 0
              /\ \A c \in 1..Len(windows[w]) : windows[w][c] = text[MadeFrom(w) + c - 1]
  <2>1. PICK a \in Nat, b \in Nat : a = MadeFrom(w) /\ b = To(w) /\ a >= 1 /\ b <= length BY <1>9
  <2>2. windows[w] = SubSeq(text, a, b) BY <1>8, <1>10, <2>1
  <2> HIDE DEF MadeFrom, To
  <2>3. /\ SubSeq(text, a, b) \in Seq(T)
        /\ Len(SubSeq(text, a, b)) = IF a <= b THEN b - a + 1 ELSE 0
        /\ \A c \in 1..Len(SubSeq(text, a, b)) : SubSeq(text, a, b)[c] = text[a + c - 1]
    <3>1. a \in Nat /\ b \in Nat /\ a >= 1 /\ b <= Len(text) BY <1>4, <2>1
    <3>2. text \in Seq(T) OBVIOUS
    <3> QED BY <3>1, <3>2, SubSeqIs
  <2> QED BY <2>1, <2>2, <2>3
<1>12. windows \in Seq(Seq(T)) /\ Len(windows) = last + 1
  <2>1. \A w \in 1..(last + 1) : windows[w] \in Seq(T) BY <1>11
  <2>2. windows = [w \in 1..(last + 1) |-> windows[w]] BY <1>8, <1>10
  <2>3. windows \in [1..(last + 1) -> Seq(T)] BY <2>1, <2>2
  <2> QED BY <2>3
<1>13. ASSUME NEW w \in 1..(last + 1), NEW c \in 1..Len(windows[w])
       PROVE  \E p \in 1..length : windows[w][c] = text[p]
  <2>1. PICK a \in Nat, b \in Nat : a = MadeFrom(w) /\ b = To(w) /\ a >= 1 /\ b <= length BY <1>9
  <2>2. Len(windows[w]) = (IF a <= b THEN b - a + 1 ELSE 0) /\ windows[w][c] = text[a + c - 1]
    BY <1>11, <2>1
  <2>3. a + c - 1 \in 1..length BY <2>1, <2>2, <1>4
  <2> QED BY <2>2, <2>3
<1>14. ASSUME NEW p \in 1..length
       PROVE  \E w \in 1..(last + 1) : \E c \in 1..Len(windows[w]) : windows[w][c] = text[p]
  <2>1. ASSUME NEW w \in 1..(last + 1), MadeFrom(w) <= p, p <= (w - 1) * step + size
        PROVE  \E c \in 1..Len(windows[w]) : windows[w][c] = text[p]
    <3>1. PICK a \in Nat, b \in Nat : a = MadeFrom(w) /\ b = To(w) /\ a >= 1 /\ b <= length BY <1>9
    <3>2. PICK k \in Nat : k = (w - 1) * step
      <4>1. w - 1 \in Nat OBVIOUS
      <4> QED BY <4>1
    <3>3. a <= p /\ p <= b BY <2>1, <3>1, <3>2, <1>1, <1>4
    <3>4. Len(windows[w]) = b - a + 1
      <4>1. Len(windows[w]) = IF MadeFrom(w) <= To(w) THEN To(w) - MadeFrom(w) + 1 ELSE 0 BY <1>11
      <4> HIDE DEF MadeFrom, To
      <4> QED BY <4>1, <3>1, <3>3
    <3>5. p - a + 1 \in 1..Len(windows[w]) /\ a + (p - a + 1) - 1 = p BY <3>1, <3>3, <3>4
    <3>6. windows[w][p - a + 1] = text[a + (p - a + 1) - 1] BY <1>11, <3>1, <3>5
    <3> QED BY <3>5, <3>6
  <2>2. PICK q \in Nat : q = (p - 1) \div step /\ q * step <= p - 1 /\ p - 1 < q * step + step
    <3>1. p - 1 \in Nat BY <1>4
    <3> QED BY <3>1, QuotientIs
  <2>3. CASE q <= last
    <3>1. q + 1 \in 1..(last + 1) /\ q + 1 - 1 = q BY <2>3
    <3>2. PICK k \in Nat : k = q * step OBVIOUS
    <3>3. PICK w \in 1..(last + 1) : w = q + 1 /\ w - 1 = q BY <3>1
    <3>4. (w - 1) * step = k BY <3>2, <3>3
    <3>7. k <= p - 1 /\ p - 1 < k + step BY <2>2, <3>2
    <3>8. step <= size /\ p \in Nat BY <1>1, <1>2, <1>3, <1>4
    <3>9. k + 1 <= p /\ p <= k + size BY <3>7, <3>8, <1>1, <1>3
    <3>5. MadeFrom(w) <= p /\ p <= (w - 1) * step + size BY <3>4, <3>9
    <3>6. \E c \in 1..Len(windows[w]) : windows[w][c] = text[p] BY <2>1, <3>5
    <3> QED BY <3>6
  <2>4. CASE q > last
    <3>1. last + 1 \in 1..(last + 1) /\ last + 1 - 1 = last OBVIOUS
    <3>2. last * step <= q * step BY <2>4
    <3>3. PICK k \in Nat, m \in Nat : k = q * step /\ m = last * step OBVIOUS
    <3>4. PICK w \in 1..(last + 1) : w = last + 1 /\ w - 1 = last BY <3>1
    <3>5. (w - 1) * step = m BY <3>3, <3>4
    <3>6. MadeFrom(w) <= p BY <2>2, <3>2, <3>3, <3>5, <1>4
    <3>9. rest <= m BY <1>7, <3>3
    <3>10. p <= rest + size BY <1>1, <1>4, <1>5
    <3>11. p <= m + size /\ p \in Nat BY <3>9, <3>10, <1>1, <1>4, <1>5
    <3>7. p <= (w - 1) * step + size BY <3>5, <3>11
    <3>8. \E c \in 1..Len(windows[w]) : windows[w][c] = text[p] BY <2>1, <3>6, <3>7
    <3> QED BY <3>8
  <2> QED BY <2>3, <2>4
<1> HIDE DEF MadeFrom, To
<1> QED BY <1>4, <1>10, <1>12, <1>13, <1>14

(* The rows of the document and the content in hand; the units that rows   *)
(* hold; ids that name the document and the place of a chunk. *)
Mine == {row \in NormalRows : row.doc = inHand.doc /\ row.hash = inHand.hash}

Holds(rows, u) == \E c \in DOMAIN rows : \E p \in 1..Len(rows[c].text) : rows[c].text[p] = u

SameUnits(chunks, rows) == \A u : Holds(chunks, u) <=> Holds(rows, u)

(* Chunks made of rows of the document in hand. *)
MadeOf(chunks, rows) ==
  /\ \E n \in Nat : DOMAIN chunks = 1..n
  /\ \A c \in DOMAIN chunks :
       /\ chunks[c].doc = inHand.doc /\ chunks[c].hash = inHand.hash
       /\ chunks[c].text \in Seq(Units)
  /\ SameUnits(chunks, rows)

IdsName(d, chunks) ==
  \A c \in DOMAIN chunks : chunks[c].id[1] = d /\ chunks[c].id[Len(chunks[c].id)] = c - 1

(* The chunker's pieces hold what the rows hold. *)
LEMMA RawChunksAre ==
  ASSUME NEW rows \in Seq(Mine), inHand.profile \in WriteProfiles
  PROVE  /\ MadeOf(RawChunks(rows), rows)
         /\ \A c \in DOMAIN RawChunks(rows) :
              /\ DOMAIN RawChunks(rows)[c] = {"id", "text", "doc", "hash"}
              /\ RawChunks(rows)[c].id = <<c - 1>>
<1> DEFINE CutFrom(i) == LET windows == Windows(rows[i].text)
                    IN [w \in DOMAIN windows |-> [rows[i] EXCEPT !.text = windows[w]]]
<1> DEFINE seqs == [i \in DOMAIN rows |-> CutFrom(i)]
<1>1. DOMAIN rows = 1..Len(rows) /\ Len(rows) \in Nat /\ \A i \in 1..Len(rows) : rows[i] \in Mine
  OBVIOUS
<1>2. \A i \in 1..Len(rows) : rows[i].text \in Seq(Units)
  BY <1>1 DEF Mine, NormalRows, RowsWith
<1>3. ASSUME NEW i \in 1..Len(rows)
      PROVE  /\ CutFrom(i) \in Seq(Mine) /\ Len(CutFrom(i)) = Len(Windows(rows[i].text))
             /\ \A w \in 1..Len(CutFrom(i)) : CutFrom(i)[w].text = Windows(rows[i].text)[w]
  <2>1. PICK windows : windows = Windows(rows[i].text) OBVIOUS
  <2>2. windows \in Seq(Seq(Units)) BY <1>2, <2>1, WindowsAre
  <2>3. CutFrom(i) = [w \in 1..Len(windows) |-> [rows[i] EXCEPT !.text = windows[w]]]
    BY <2>1, <2>2
  <2>4. ASSUME NEW w \in 1..Len(windows)
        PROVE  /\ [rows[i] EXCEPT !.text = windows[w]] \in Mine
               /\ [rows[i] EXCEPT !.text = windows[w]].text = windows[w]
    <3>1. windows[w] \in Seq(Units) BY <2>2
    <3>2. rows[i] \in Mine BY <1>1
    <3> QED BY <3>1, <3>2 DEF Mine, NormalRows, RowsWith
  <2>5. PICK of : of = CutFrom(i) OBVIOUS
  <2>6. /\ DOMAIN of = 1..Len(windows)
        /\ \A w \in 1..Len(windows) : of[w] \in Mine /\ of[w].text = windows[w]
    <3>1. of = [w \in 1..Len(windows) |-> [rows[i] EXCEPT !.text = windows[w]]] BY <2>3, <2>5
    <3>2. DOMAIN of = 1..Len(windows) BY <3>1
    <3>3. \A w \in 1..Len(windows) : of[w] = [rows[i] EXCEPT !.text = windows[w]] BY <3>1
    <3> QED BY <2>4, <3>2, <3>3
  <2>7. of \in Seq(Mine) /\ Len(of) = Len(windows)
    <3>1. PICK n \in Nat : n = Len(windows) BY <2>2
    <3>2. of = [w \in 1..n |-> of[w]]
      <4>1. of = [w \in 1..Len(windows) |-> [rows[i] EXCEPT !.text = windows[w]]] BY <2>3, <2>5
      <4> QED BY <4>1, <3>1
    <3>3. of \in [1..n -> Mine]
      <4> HIDE DEF Mine
      <4> QED BY <2>6, <3>1, <3>2
    <3> HIDE DEF Mine
    <3> QED BY <3>1, <3>3
  <2> HIDE DEF CutFrom
  <2> QED BY <2>1, <2>5, <2>6, <2>7
<1> HIDE DEF CutFrom
<1>4. /\ seqs \in Seq(Seq(Mine)) /\ Len(seqs) = Len(rows)
      /\ \A i \in 1..Len(rows) : seqs[i] = CutFrom(i)
  <2>1. seqs \in [1..Len(rows) -> Seq(Mine)] BY <1>1, <1>3
  <2> QED BY <1>1, <2>1
<1>5. PICK all : all = seqs OBVIOUS
<1>6. PICK pieces : pieces = FlattenSeq(all) OBVIOUS
<1>7. /\ pieces \in Seq(Mine)
      /\ \A x : (\E c \in 1..Len(pieces) : pieces[c] = x)
                <=> \E i \in 1..Len(all) : \E w \in 1..Len(all[i]) : all[i][w] = x
  <2>1. all \in Seq(Seq(Mine)) BY <1>4, <1>5
  <2> HIDE DEF seqs, Mine
  <2>2. PICK T : T = Mine OBVIOUS
  <2>3. all \in Seq(Seq(T)) BY <2>1, <2>2
  <2>4. /\ FlattenSeq(all) \in Seq(T)
        /\ \A x : (\E c \in 1..Len(FlattenSeq(all)) : FlattenSeq(all)[c] = x)
                  <=> \E i \in 1..Len(all) : \E w \in 1..Len(all[i]) : all[i][w] = x
    BY <2>3, FlattenIs, ZenonT(40)
  <2> QED BY <2>2, <2>4, <1>6
<1>8. PICK chunks : chunks = RawChunks(rows) OBVIOUS
<1>9. chunks = [c \in DOMAIN pieces |-> [pieces[c] EXCEPT !.id = <<c - 1>>]]
  BY <1>5, <1>6, <1>8 DEF RawChunks, CutFrom
<1> HIDE DEF seqs
<1>10. DOMAIN chunks = 1..Len(pieces) /\ Len(pieces) \in Nat BY <1>7, <1>9
<1>11. ASSUME NEW c \in 1..Len(pieces)
       PROVE  /\ DOMAIN chunks[c] = {"id", "text", "doc", "hash"}
              /\ chunks[c].id = <<c - 1>> /\ chunks[c].text = pieces[c].text
              /\ chunks[c].doc = inHand.doc /\ chunks[c].hash = inHand.hash
              /\ chunks[c].text \in Seq(Units)
  <2>1. pieces[c] \in Mine BY <1>7
  <2>2. chunks[c] = [pieces[c] EXCEPT !.id = <<c - 1>>] BY <1>9, <1>10
  <2> QED BY <2>1, <2>2 DEF Mine, NormalRows, RowsWith
<1>12. SameUnits(chunks, rows)
  <2> SUFFICES ASSUME NEW u PROVE Holds(chunks, u) <=> Holds(rows, u) BY DEF SameUnits
  <2>1. ASSUME Holds(chunks, u) PROVE Holds(rows, u)
    <3>1. PICK c \in 1..Len(pieces) : \E p \in 1..Len(chunks[c].text) : chunks[c].text[p] = u
      BY <2>1, <1>10 DEF Holds
    <3>2. PICK p \in 1..Len(pieces[c].text) : pieces[c].text[p] = u BY <3>1, <1>11
    <3>3. PICK i \in 1..Len(all) : \E w \in 1..Len(all[i]) : all[i][w] = pieces[c] BY <1>7
    <3>4. PICK w \in 1..Len(all[i]) : all[i][w] = pieces[c] BY <3>3
    <3>5. i \in 1..Len(rows) /\ all[i] = CutFrom(i) BY <1>4, <1>5
    <3>6. w \in 1..Len(Windows(rows[i].text)) /\ pieces[c].text = Windows(rows[i].text)[w]
      BY <1>3, <3>4, <3>5
    <3>8. PICK text : text = rows[i].text OBVIOUS
    <3>9. text \in Seq(Units) BY <1>2, <3>5, <3>8
    <3>10. PICK windows : windows = Windows(text) OBVIOUS
    <3>11. \A v \in 1..Len(windows) : \A k \in 1..Len(windows[v]) :
             \E q \in 1..Len(text) : windows[v][k] = text[q]
      <4>1. \A v \in 1..Len(Windows(text)) : \A k \in 1..Len(Windows(text)[v]) :
             \E q \in 1..Len(text) : Windows(text)[v][k] = text[q]
        BY <3>9, WindowsAre
      <4> QED BY <4>1, <3>10
    <3>12. w \in 1..Len(windows) /\ p \in 1..Len(windows[w]) /\ windows[w][p] = u
      BY <3>2, <3>6, <3>8, <3>10
    <3>7. PICK q \in 1..Len(rows[i].text) : u = rows[i].text[q] BY <3>8, <3>11, <3>12
    <3> QED BY <1>1, <3>5, <3>7 DEF Holds
  <2>2. ASSUME Holds(rows, u) PROVE Holds(chunks, u)
    <3>1. PICK i \in 1..Len(rows) : \E p \in 1..Len(rows[i].text) : rows[i].text[p] = u
      BY <2>2, <1>1 DEF Holds
    <3>2. PICK p \in 1..Len(rows[i].text) : rows[i].text[p] = u BY <3>1
    <3>3. PICK w \in 1..Len(Windows(rows[i].text)) :
            \E c \in 1..Len(Windows(rows[i].text)[w]) : Windows(rows[i].text)[w][c] = u
      BY <1>2, <3>2, WindowsAre
    <3>4. w \in 1..Len(CutFrom(i)) /\ CutFrom(i)[w].text = Windows(rows[i].text)[w] BY <1>3, <3>3
    <3>5. i \in 1..Len(all) /\ all[i] = CutFrom(i) BY <1>4, <1>5
    <3>6. PICK c \in 1..Len(pieces) : pieces[c] = CutFrom(i)[w] BY <1>7, <3>4, <3>5
    <3>7. \E k \in 1..Len(chunks[c].text) : chunks[c].text[k] = u BY <1>11, <3>3, <3>4, <3>6
    <3> QED BY <1>10, <3>7 DEF Holds
  <2> QED BY <2>1, <2>2
<1>13. MadeOf(chunks, rows) BY <1>10, <1>11, <1>12 DEF MadeOf
<1> QED BY <1>8, <1>10, <1>11, <1>13

(* The chunks that are saved hold what the rows hold, and their ids name   *)
(* the document and their places, whether the chunker was there or not. *)
LEMMA ChunksAre ==
  ASSUME NEW rows \in Seq(Mine), inHand.profile \in WriteProfiles
  PROVE  /\ MadeOf(NormalizedChunks(Chunked(rows)), rows)
         /\ IdsName(inHand.doc, NormalizedChunks(Chunked(rows)))
<1> DEFINE d == inHand.doc
<1>1. DOMAIN rows = 1..Len(rows) /\ Len(rows) \in Nat /\ \A i \in 1..Len(rows) : rows[i] \in Mine
  OBVIOUS
<1>2. PICK chunks : chunks = Chunked(rows) OBVIOUS
<1>3. /\ MadeOf(chunks, rows)
      /\ \A c \in DOMAIN chunks :
           /\ DOMAIN chunks[c] = {"id", "text", "doc", "hash"}
           /\ chunks[c].id = <<c - 1>> \/ chunks[c].id = <<d, "chunk", c - 1>>
  <2>1. CASE Can("chunker") BY <1>2, <2>1, RawChunksAre, SMTT(30) DEF Chunked
  <2>2. CASE ~Can("chunker")
    <3>1. chunks = [c \in 1..Len(rows) |-> [rows[c] EXCEPT !.id = <<d, "chunk", c - 1>>]]
      BY <1>1, <1>2, <2>2 DEF Chunked, PassthroughChunks
    <3>2. DOMAIN chunks = 1..Len(rows) BY <3>1
    <3>3. ASSUME NEW c \in 1..Len(rows)
          PROVE  /\ DOMAIN chunks[c] = {"id", "text", "doc", "hash"}
                 /\ chunks[c].id = <<d, "chunk", c - 1>>
                 /\ chunks[c].doc = d /\ chunks[c].hash = inHand.hash
                 /\ chunks[c].text = rows[c].text /\ rows[c].text \in Seq(Units)
      <4>1. rows[c] \in Mine BY <1>1
      <4>2. chunks[c] = [rows[c] EXCEPT !.id = <<d, "chunk", c - 1>>] BY <3>1
      <4> QED BY <4>1, <4>2 DEF Mine, NormalRows, RowsWith
    <3>4. SameUnits(chunks, rows) BY <1>1, <3>2, <3>3 DEF SameUnits, Holds
    <3> QED BY <1>1, <3>2, <3>3, <3>4 DEF MadeOf
  <2> QED BY <2>1, <2>2
<1>4. PICK final : final = NormalizedChunks(chunks) OBVIOUS
<1>5. final = [c \in DOMAIN chunks |-> [chunks[c] EXCEPT !.id = <<d, "chunk">> \o @]]
  BY <1>4 DEF NormalizedChunks
<1>6. PICK n \in Nat : DOMAIN chunks = 1..n BY <1>3 DEF MadeOf
<1>7. ASSUME NEW c \in 1..n
      PROVE  /\ final[c].doc = chunks[c].doc /\ final[c].hash = chunks[c].hash
             /\ final[c].text = chunks[c].text
             /\ final[c].id[1] = d /\ final[c].id[Len(final[c].id)] = c - 1
  <2>1. final[c] = [chunks[c] EXCEPT !.id = <<d, "chunk">> \o @] BY <1>5, <1>6
  <2>2. /\ final[c].doc = chunks[c].doc /\ final[c].hash = chunks[c].hash
        /\ final[c].text = chunks[c].text
        /\ final[c].id = <<d, "chunk">> \o chunks[c].id
    BY <2>1, <1>3, <1>6
  <2> DEFINE Names == {d, "chunk"} \cup Nat
  <2>3. PICK head, id : head = <<d, "chunk">> /\ id = chunks[c].id OBVIOUS
  <2>4. head \in Seq(Names) /\ Len(head) = 2 /\ head[1] = d BY <2>3
  <2>5. c - 1 \in Nat BY <1>6
  <2>6. id \in Seq(Names) /\ Len(id) \in {1, 3} /\ id[Len(id)] = c - 1
    <3>1. CASE id = <<c - 1>> BY <3>1, <2>5
    <3>2. CASE id = <<d, "chunk", c - 1>> BY <3>2, <2>5
    <3> QED BY <1>3, <1>6, <2>3, <3>1, <3>2
  <2>7. (head \o id)[1] = d /\ Len(head \o id) = 2 + Len(id)
          /\ (head \o id)[2 + Len(id)] = id[Len(id)]
    <3>4. Len(id) = 1 \/ Len(id) = 3 BY <2>6
    <3>5. PICK k : k = Len(id) OBVIOUS
    <3>1. k = Len(id) /\ k \in Nat /\ k >= 1 BY <3>4, <3>5
    <3>2. /\ Len(head \o id) = Len(head) + Len(id)
          /\ \A h \in 1..Len(head) : (head \o id)[h] = head[h]
          /\ \A i \in 1..Len(id) : (head \o id)[Len(head) + i] = id[i]
      <4> HIDE DEF Names
      <4>1. head \in Seq(Names) /\ id \in Seq(Names) BY <2>4, <2>6
      <4> QED BY <4>1
    <3>3. 1 \in 1..Len(head) /\ k \in 1..Len(id) BY <2>4, <3>1
    <3> HIDE DEF Names
    <3> QED BY <2>4, <3>1, <3>2, <3>3
  <2> QED BY <2>2, <2>3, <2>6, <2>7
<1>8. DOMAIN final = 1..n BY <1>5, <1>6
<1>9. IdsName(d, final) BY <1>7, <1>8 DEF IdsName
<1>10. SameUnits(final, rows)
  <2>1. \A u : Holds(final, u) <=> Holds(chunks, u) BY <1>6, <1>7, <1>8 DEF Holds
  <2> QED BY <2>1, <1>3 DEF MadeOf, SameUnits
<1>11. MadeOf(final, rows) BY <1>3, <1>6, <1>7, <1>8, <1>10 DEF MadeOf
<1> QED BY <1>2, <1>4, <1>9, <1>11

(* A selection holds what stands at the places, and nothing else.          *)
LEMMA PickedHolds ==
  ASSUME NEW T, NEW row \in Seq(T), NEW places \in SUBSET DOMAIN row
  PROVE  /\ Picked(row, places) \in Seq(T)
         /\ Len(Picked(row, places)) \in Nat
         /\ \A n \in 1..Len(Picked(row, places)) : \E i \in places : Picked(row, places)[n] = row[i]
         /\ \A i \in places : \E n \in 1..Len(Picked(row, places)) : Picked(row, places)[n] = row[i]
<1>1. PICK picked, order : picked = Picked(row, places) /\ order = Ascending(places) OBVIOUS
<1>2. PICK size : size = Cardinality(places) OBVIOUS
<1>3. /\ picked \in Seq(T) /\ Len(picked) = size /\ size \in Nat
      /\ order \in [1..size -> places]
      /\ \A n \in 1..size : picked[n] = row[order[n]]
      /\ \A i \in places : \E n \in 1..size : order[n] = i
  BY <1>1, <1>2, PickedIs
<1> QED BY <1>1, <1>3

(* The file in hand. *)
InHandTyped ==
  /\ "stage" \in DOMAIN inHand
  /\ inHand.doc \in Documents /\ inHand.hash \in Nat \ {0}
  /\ inHand.layout \in Seq(UnitKinds) /\ inHand.broken \in Nat
  /\ inHand.profile \in WriteProfiles /\ inHand.temp \in BOOLEAN

SeenPlaces == {i \in Places : inHand.layout[i] # "blank"} \ Unseen

(* A text holds the units at the places of its kinds.                      *)
LEMMA TextIs ==
  ASSUME InHandTyped, NEW kinds
  PROVE  /\ TextOf(kinds) \in Seq(Units)
         /\ TextOf(kinds) # Unread
         /\ TextOf(kinds) = NoRows <=> Reflowed(kinds) = {}
         /\ \A u : (\E p \in 1..Len(TextOf(kinds)) : TextOf(kinds)[p] = u)
                   <=> u \in {Unit(i) : i \in Reflowed(kinds)}
<1>1. PICK n \in Nat : n = Len(inHand.layout) /\ Places = 1..n BY DEF InHandTyped, Places
<1>2. inHand.hash \in Nat /\ inHand.hash # 0 BY DEF InHandTyped
<1>3. \A i \in 1..n : Unit(i) \in Units /\ Unit(i) # <<0, 0>> BY <1>2 DEF Unit, Units
<1>4. PICK row : row = [i \in Places |-> Unit(i)] OBVIOUS
<1>5. row \in [1..n -> Units] BY <1>1, <1>3, <1>4
<1>6. row \in Seq(Units) /\ DOMAIN row = 1..n BY <1>5
<1>7. PICK places : places = Reflowed(kinds) OBVIOUS
<1>8. places \in SUBSET DOMAIN row BY <1>1, <1>6, <1>7 DEF Reflowed
<1>9. PICK text : text = TextOf(kinds) OBVIOUS
<1>10. text = Picked(row, places) BY <1>4, <1>7, <1>9 DEF TextOf
<1>11. /\ text \in Seq(Units) /\ Len(text) \in Nat
       /\ \A c \in 1..Len(text) : \E i \in places : text[c] = row[i]
       /\ \A i \in places : \E c \in 1..Len(text) : text[c] = row[i]
  BY <1>6, <1>8, <1>10, PickedHolds
<1>12. \A i \in places : row[i] = Unit(i) /\ i \in 1..n BY <1>1, <1>4, <1>6, <1>8
<1>13. text # Unread
  <2> SUFFICES ASSUME text = Unread PROVE FALSE OBVIOUS
  <2>1. Len(text) = 1 /\ text[1] = <<0, 0>> BY DEF Unread
  <2>2. PICK i \in places : text[1] = row[i] BY <1>11, <2>1
  <2> QED BY <2>1, <2>2, <1>3, <1>12
<1>14. text = NoRows <=> places = {}
  <2>1. ASSUME text = NoRows PROVE places = {}
    <3>1. Len(text) = 0 BY <2>1 DEF NoRows
    <3> QED BY <3>1, <1>11
  <2>2. ASSUME places = {} PROVE text = NoRows
    <3>1. Len(text) = 0 BY <2>2, <1>11
    <3> QED BY <3>1, <1>11 DEF NoRows
  <2> QED BY <2>1, <2>2
<1>15. ASSUME NEW u
       PROVE  (\E p \in 1..Len(text) : text[p] = u) <=> u \in {Unit(i) : i \in places}
  <2>1. ASSUME NEW p \in 1..Len(text), text[p] = u PROVE \E i \in places : u = Unit(i)
    BY <2>1, <1>11, <1>12
  <2>2. ASSUME NEW i \in places, u = Unit(i) PROVE \E p \in 1..Len(text) : text[p] = u
    BY <2>2, <1>11, <1>12
  <2> QED BY <2>1, <2>2
<1> QED BY <1>7, <1>9, <1>11, <1>13, <1>14, <1>15

(* What is read of a Word or text file: nothing, if none of its readers can *)
(* read it, or the text at the places that are seen.                       *)
LEMMA ReadTextIs ==
  ASSUME InHandTyped, Ext \in Texts \ {".pdf"}
  PROVE  /\ ReadText = Unread => ~Readable \/ SeenPlaces = {}
         /\ ReadText # Unread =>
              \/ ReadText = NoRows /\ (~Readable \/ SeenPlaces = {})
              \/ \E kinds : /\ ReadText = TextOf(kinds) /\ ReadText # NoRows
                            /\ Reflowed(kinds) = SeenPlaces
<1> DEFINE Both == TextOf({"text", "box"})
<1> DEFINE Body == TextOf({"text"})
<1>1. PICK n \in Nat : n = Len(inHand.layout) /\ Places = 1..n BY DEF InHandTyped, Places
<1>2. \A i \in Places : inHand.layout[i] \in {"text", "box", "blank"}
  BY <1>1 DEF InHandTyped, UnitKinds
<1>3. /\ Both # Unread /\ Body # Unread
      /\ Both = NoRows <=> Reflowed({"text", "box"}) = {}
      /\ Body = NoRows <=> Reflowed({"text"}) = {}
  BY TextIs
<1>4. /\ Reflowed({"text", "box"}) = {i \in Places : inHand.layout[i] # "blank"}
      /\ Reflowed({"text"}) = {i \in Places : inHand.layout[i] # "blank"}
                              \ {i \in Places : inHand.layout[i] = "box"}
  <2>1. \A i \in Places : inHand.layout[i] \in {"text", "box"} \ {"blank"}
          <=> inHand.layout[i] # "blank"
    BY <1>2
  <2>2. \A i \in Places : inHand.layout[i] \in {"text"} \ {"blank"}
                          <=> inHand.layout[i] # "blank" /\ inHand.layout[i] # "box"
    BY <1>2
  <2> QED BY <2>1, <2>2 DEF Reflowed
<1>5. Ext \notin Excel /\ Ext # ".pdf" BY DEF Texts, Excel, Plain, Pages, Legacy
<1>6. CASE Ext \notin Legacy \cup {".docx"}
  <2>1. ReadText = IF Can("reader") THEN Both ELSE NoRows BY <1>6 DEF ReadText
  <2>2. SeenPlaces = Reflowed({"text", "box"}) BY <1>4, <1>5, <1>6 DEF SeenPlaces, Unseen
  <2>3. Readable <=> Can("reader") BY <1>5, <1>6 DEF Readable
  <2>4. NoRows # Unread
    <3>1. Len(NoRows) = 0 /\ Len(Unread) = 1 BY DEF NoRows, Unread
    <3> QED BY <3>1
  <2> QED BY <2>1, <2>2, <2>3, <2>4, <1>3
<1>7. CASE Ext \in Legacy \cup {".docx"}
  <2>1. ReadText = IF Ext = ".docx" /\ Converted = Unread THEN DocxText ELSE Converted
    BY <1>7 DEF ReadText, Legacy
  <2>2. Readable <=> \/ /\ Can("docx") \/ Can("zip")
                        /\ Ext = ".docx" \/ Can("office") \/ Can("textutil")
                     \/ Can("extractor") /\ ~Can("office")
    BY <1>5, <1>7 DEF Readable, Can, Legacy
  <2>3. Unseen = IF Can("docx") /\ ~(Can("extractor") /\ ~Can("office"))
                 THEN {i \in Places : inHand.layout[i] = "box"} ELSE {}
    BY <1>5, <1>7 DEF Unseen
  <2>4. SeenPlaces = IF Can("docx") /\ ~(Can("extractor") /\ ~Can("office"))
                     THEN Reflowed({"text"}) ELSE Reflowed({"text", "box"})
    BY <2>3, <1>4 DEF SeenPlaces
  <2>5. Reflowed({"text", "box"}) = {} => SeenPlaces = {} /\ Reflowed({"text"}) = {}
    BY <1>4 DEF SeenPlaces
  <2>6. DocxText = IF Can("docx") THEN Body ELSE IF Can("zip") THEN Both ELSE Unread
    BY DEF DocxText, ZipText
  <2>7. ExtractedText = IF Can("extractor") /\ Both # NoRows THEN Both ELSE Unread
    BY DEF ExtractedText
  <2>8. Converted = IF Can("office") THEN DocxText
                    ELSE IF Can("extractor") /\ Both # NoRows THEN Both
                    ELSE IF Can("textutil") THEN DocxText ELSE Unread
    BY <2>7, <1>3 DEF Converted, OfficeConverts, TextutilConverts
  <2>9. ReadText = Unread => ~Readable \/ SeenPlaces = {}
    <3> HIDE DEF Both, Body
    <3> QED BY <2>1, <2>2, <2>5, <2>6, <2>8, <1>3, <1>7 DEF Legacy
  <2>10. ReadText # Unread => \/ ReadText = Body /\ SeenPlaces = Reflowed({"text"})
                              \/ ReadText = Both /\ SeenPlaces = Reflowed({"text", "box"})
                              \/ ReadText \in {Body, Both} /\ Both = NoRows
    <3> HIDE DEF Both, Body
    <3> QED BY <2>1, <2>4, <2>6, <2>8, <1>3
  <2>11. Both = NoRows => Body = NoRows /\ SeenPlaces = {} BY <2>5, <1>3
  <2>12. ReadText # Unread =>
           \/ ReadText = NoRows /\ SeenPlaces = {}
           \/ ReadText = TextOf({"text"}) /\ ReadText # NoRows /\ Reflowed({"text"}) = SeenPlaces
           \/ /\ ReadText = TextOf({"text", "box"}) /\ ReadText # NoRows
              /\ Reflowed({"text", "box"}) = SeenPlaces
    BY <2>10, <2>11, <1>3
  <2> QED BY <2>9, <2>12
<1> QED BY <1>6, <1>7

(* The rows of a document hold what the raw ones held; there are none only *)
(* if those held nothing.                                                  *)
LEMMA NormalizedIs ==
  ASSUME InHandTyped, NEW rows \in Seq(RawRows)
  PROVE  /\ NormalizedCorpus(rows) \in Seq(Mine)
         /\ SameUnits(NormalizedCorpus(rows), rows)
         /\ NormalizedCorpus(rows) = NoRows <=> \A u : ~Holds(rows, u)
<1>1. DOMAIN rows = 1..Len(rows) /\ Len(rows) \in Nat /\ \A i \in 1..Len(rows) : rows[i] \in RawRows
  <2> HIDE DEF RawRows
  <2> QED OBVIOUS
<1>2. \A i \in 1..Len(rows) : rows[i].text \in Seq(Units) /\ rows[i].id \in RawIds
  BY <1>1 DEF RawRows, RowsWith
<1>3. PICK places : places = {i \in DOMAIN rows : rows[i].text # NoRows} OBVIOUS
<1>4. PICK full : full = Picked(rows, places) OBVIOUS
<1>5. /\ full \in Seq(RawRows) /\ Len(full) \in Nat
      /\ \A c \in 1..Len(full) : \E i \in places : full[c] = rows[i]
      /\ \A i \in places : \E c \in 1..Len(full) : full[c] = rows[i]
  <2>1. places \in SUBSET DOMAIN rows BY <1>3
  <2>2. PICK T : T = RawRows OBVIOUS
  <2>3. rows \in Seq(T) BY <2>2
  <2>4. /\ full \in Seq(T) /\ Len(full) \in Nat
        /\ \A c \in 1..Len(full) : \E i \in places : full[c] = rows[i]
        /\ \A i \in places : \E c \in 1..Len(full) : full[c] = rows[i]
    BY <2>1, <2>3, <1>4, PickedHolds
  <2> HIDE DEF RawRows
  <2> QED BY <2>2, <2>4
<1>6. PICK normal : normal = NormalizedCorpus(rows) OBVIOUS
<1>7. normal = [c \in DOMAIN full |-> [full[c] EXCEPT !.id = <<inHand.doc, @>>,
                                                   !.doc = inHand.doc, !.hash = inHand.hash]]
  BY <1>3, <1>4, <1>6 DEF NormalizedCorpus
<1>8. DOMAIN full = 1..Len(full) /\ \A c \in 1..Len(full) : full[c] \in RawRows
  <2> HIDE DEF RawRows
  <2> QED BY <1>5
<1>9. ASSUME NEW c \in 1..Len(full)
      PROVE  normal[c] \in Mine /\ normal[c].text = full[c].text
  <2>1. full[c] \in RawRows BY <1>8
  <2>2. inHand.doc \in Documents /\ inHand.hash \in Nat BY DEF InHandTyped
  <2>3. normal[c] = [full[c] EXCEPT !.id = <<inHand.doc, @>>, !.doc = inHand.doc,
                                    !.hash = inHand.hash]
    BY <1>7, <1>8
  <2>4. full[c].id \in RawIds /\ DOMAIN full[c] = {"id", "text", "doc", "hash"}
        /\ full[c].text \in Seq(Units)
    BY <2>1 DEF RawRows, RowsWith
  <2>5. PICK id : id = <<inHand.doc, full[c].id>> OBVIOUS
  <2>6. id \in NormalIds BY <2>2, <2>4, <2>5 DEF NormalIds
  <2>7. normal[c] = [full[c] EXCEPT !.id = id, !.doc = inHand.doc, !.hash = inHand.hash]
    BY <2>3, <2>5
  <2>8. normal[c] = [id |-> id, text |-> full[c].text, doc |-> inHand.doc, hash |-> inHand.hash]
    BY <2>1, <2>7 DEF RawRows, RowsWith
  <2> QED BY <2>2, <2>4, <2>6, <2>8 DEF Mine, NormalRows, RowsWith
<1>10. normal \in Seq(Mine) /\ Len(normal) = Len(full) /\ DOMAIN normal = 1..Len(full)
  <2>1. normal = [c \in 1..Len(full) |-> normal[c]] BY <1>7, <1>8
  <2> HIDE DEF Mine
  <2>2. PICK n \in Nat : n = Len(full) BY <1>5
  <2>3. normal \in [1..n -> Mine] BY <1>9, <2>1, <2>2
  <2>4. normal \in Seq(Mine) /\ Len(normal) = n /\ DOMAIN normal = 1..n BY <2>2, <2>3
  <2> QED BY <2>2, <2>4
<1>11. SameUnits(normal, rows)
  <2> SUFFICES ASSUME NEW u PROVE Holds(normal, u) <=> Holds(rows, u) BY DEF SameUnits
  <2>1. ASSUME Holds(normal, u) PROVE Holds(rows, u)
    <3>1. PICK c \in 1..Len(full) : \E p \in 1..Len(full[c].text) : full[c].text[p] = u
      BY <2>1, <1>9, <1>10 DEF Holds
    <3>2. PICK i \in places : full[c] = rows[i] BY <1>5
    <3> QED BY <3>1, <3>2, <1>3 DEF Holds
  <2>2. ASSUME Holds(rows, u) PROVE Holds(normal, u)
    <3>1. PICK i \in 1..Len(rows) : \E p \in 1..Len(rows[i].text) : rows[i].text[p] = u
      BY <2>2, <1>1 DEF Holds
    <3>2. rows[i].text # NoRows
      <4>1. Len(NoRows) = 0 BY DEF NoRows
      <4> QED BY <3>1, <4>1
    <3>3. i \in places BY <3>2, <1>1, <1>3
    <3>4. PICK c \in 1..Len(full) : full[c] = rows[i] BY <3>3, <1>5
    <3>5. c \in DOMAIN normal /\ normal[c].text = rows[i].text BY <3>4, <1>9, <1>10
    <3> QED BY <3>1, <3>5 DEF Holds
  <2> QED BY <2>1, <2>2
<1>12. ASSUME normal = NoRows, NEW u PROVE ~Holds(rows, u)
  <2>1. DOMAIN normal = {} BY <1>12 DEF NoRows
  <2>2. ~Holds(normal, u) BY <2>1 DEF Holds
  <2> QED BY <2>2, <1>11 DEF SameUnits
<1>13. ASSUME normal # NoRows PROVE \E u : Holds(rows, u)
  <2>1. Len(full) # 0
    <3>1. Len(normal) # 0
      <4> HIDE DEF Mine
      <4> QED BY <1>10, <1>13 DEF NoRows
    <3> QED BY <3>1, <1>10
  <2>2. 1 \in 1..Len(full) BY <2>1, <1>5
  <2>3. PICK i \in places : full[1] = rows[i] BY <2>2, <1>5
  <2>4. i \in 1..Len(rows) /\ rows[i].text # NoRows BY <2>3, <1>1, <1>3
  <2>5. PICK text : text = rows[i].text OBVIOUS
  <2>6. text \in Seq(Units) /\ text # NoRows BY <2>4, <2>5, <1>2
  <2>7. Len(text) # 0 /\ Len(text) \in Nat
    <3> HIDE DEF Units
    <3> QED BY <2>6 DEF NoRows
  <2>8. 1 \in 1..Len(text) BY <2>7
  <2>9. i \in DOMAIN rows /\ 1 \in 1..Len(rows[i].text) BY <2>4, <2>5, <2>8, <1>1
  <2> QED BY <2>9 DEF Holds
<1> QED BY <1>6, <1>10, <1>11, <1>12, <1>13

(* What rows hold is a set of units.                                       *)
HoldJust(rows, units) == \A u : Holds(rows, u) <=> u \in units

(* A file that becomes one raw row: the row holds what the text holds.     *)
LEMMA OneRow ==
  ASSUME NEW text \in Seq(Units), NEW units,
         \A u : (\E p \in 1..Len(text) : text[p] = u) <=> u \in units
  PROVE  /\ <<RawRow("stem", text)>> \in Seq(RawRows)
         /\ HoldJust(<<RawRow("stem", text)>>, units)
<1>1. PICK row : row = RawRow("stem", text) OBVIOUS
<1>2. row \in RawRows /\ row.text = text
  <2>1. 0 \in Nat OBVIOUS
  <2> QED BY <1>1, <2>1 DEF RawRow, RawRows, RowsWith, RawIds
<1>3. PICK rows : rows = <<row>> OBVIOUS
<1>4. rows \in Seq(RawRows) /\ DOMAIN rows = {1} /\ rows[1] = row
  <2> HIDE DEF RawRows
  <2> QED BY <1>2, <1>3
<1>5. \A u : Holds(rows, u) <=> \E p \in 1..Len(text) : text[p] = u BY <1>2, <1>4 DEF Holds
<1>6. HoldJust(rows, units) BY <1>5 DEF HoldJust
<1> QED BY <1>1, <1>3, <1>4, <1>6

(* A file of which nothing is read has no rows, and they hold nothing.     *)
LEMMA NothingHeld == NoRows \in Seq(RawRows) /\ HoldJust(NoRows, {})
<1>1. NoRows \in Seq(RawRows)
  <2> HIDE DEF RawRows
  <2> QED BY DEF NoRows
<1>2. DOMAIN NoRows = {} BY DEF NoRows
<1> QED BY <1>1, <1>2 DEF HoldJust, Holds

(* The rows of a sheet.                                                    *)
LEMMA ExcelRowsAre ==
  ASSUME InHandTyped, Ext \in Excel
  PROVE  /\ ExcelRows \in Seq(RawRows)
         /\ HoldJust(ExcelRows, {Unit(i) : i \in SeenPlaces})
<1>1. PICK n \in Nat : n = Len(inHand.layout) /\ Places = 1..n BY DEF InHandTyped, Places
<1>2. \A i \in Places : inHand.layout[i] \in {"text", "box", "blank"}
  BY <1>1 DEF InHandTyped, UnitKinds
<1>3. inHand.hash \in Nat /\ inHand.broken \in Nat BY DEF InHandTyped
<1>4. PICK list : list = [i \in Places |-> RawRow(i, <<Unit(i)>>)] OBVIOUS
<1>5. ASSUME NEW i \in 1..n
      PROVE  /\ list[i] \in RawRows /\ list[i].text = <<Unit(i)>>
  <2>1. list[i] = RawRow(i, <<Unit(i)>>) BY <1>1, <1>4
  <2>2. PICK unit : unit = Unit(i) OBVIOUS
  <2>3. unit \in Units BY <1>3, <2>2 DEF Unit, Units
  <2>4. <<unit>> \in Seq(Units)
    <3> HIDE DEF Units
    <3> QED BY <2>3
  <2>5. i \in Nat /\ 0 \in Nat OBVIOUS
  <2> QED BY <2>1, <2>2, <2>4, <2>5 DEF RawRow, RawRows, RowsWith, RawIds
<1>6. list \in Seq(RawRows) /\ DOMAIN list = 1..n
  <2>1. list = [i \in 1..n |-> list[i]] BY <1>1, <1>4
  <2> HIDE DEF RawRows
  <2>2. list \in [1..n -> RawRows] BY <1>5, <2>1
  <2> QED BY <2>2
<1>7. PICK places : places = {i \in Reflowed({"text", "box"}) : i < inHand.broken} OBVIOUS
<1>8. places \in SUBSET DOMAIN list BY <1>1, <1>6, <1>7 DEF Reflowed
<1>9. places = SeenPlaces
  <2>1. Unseen = {i \in Places : i >= inHand.broken} BY DEF Unseen
  <2>2. \A i \in Places : i < inHand.broken <=> ~(i >= inHand.broken) BY <1>1, <1>3
  <2> QED BY <1>2, <1>7, <2>1, <2>2 DEF SeenPlaces, Reflowed
<1>10. PICK rows : rows = ExcelRows OBVIOUS
<1>11. /\ rows \in Seq(RawRows) /\ Len(rows) \in Nat
       /\ \A c \in 1..Len(rows) : \E i \in places : rows[c] = list[i]
       /\ \A i \in places : \E c \in 1..Len(rows) : rows[c] = list[i]
  <2>1. rows = Picked(list, places) BY <1>4, <1>7, <1>10 DEF ExcelRows
  <2>2. PICK T : T = RawRows OBVIOUS
  <2>3. list \in Seq(T) BY <2>2, <1>6
  <2>4. /\ rows \in Seq(T) /\ Len(rows) \in Nat
        /\ \A c \in 1..Len(rows) : \E i \in places : rows[c] = list[i]
        /\ \A i \in places : \E c \in 1..Len(rows) : rows[c] = list[i]
    BY <2>1, <2>3, <1>8, PickedHolds
  <2> HIDE DEF RawRows
  <2> QED BY <2>2, <2>4
<1>12. DOMAIN rows = 1..Len(rows)
  <2> HIDE DEF RawRows
  <2> QED BY <1>11
<1>13. \A i \in places : i \in 1..n BY <1>6, <1>8
<1>14. HoldJust(rows, {Unit(i) : i \in places})
  <2> SUFFICES ASSUME NEW u PROVE Holds(rows, u) <=> \E i \in places : u = Unit(i)
    BY DEF HoldJust
  <2>1. ASSUME Holds(rows, u) PROVE \E i \in places : u = Unit(i)
    <3>1. PICK c \in 1..Len(rows) : \E p \in 1..Len(rows[c].text) : rows[c].text[p] = u
      BY <2>1, <1>12 DEF Holds
    <3>2. PICK i \in places : rows[c] = list[i] BY <1>11
    <3>3. rows[c].text = <<Unit(i)>> BY <3>2, <1>5, <1>13
    <3>4. Len(rows[c].text) = 1 /\ rows[c].text[1] = Unit(i) BY <3>3
    <3> QED BY <3>1, <3>4
  <2>2. ASSUME NEW i \in places, u = Unit(i) PROVE Holds(rows, u)
    <3>1. PICK c \in 1..Len(rows) : rows[c] = list[i] BY <1>11
    <3>2. rows[c].text = <<Unit(i)>> BY <3>1, <1>5, <1>13
    <3>3. 1 \in 1..Len(rows[c].text) /\ rows[c].text[1] = Unit(i) BY <3>2
    <3> QED BY <3>1, <3>3, <2>2, <1>12 DEF Holds
  <2> QED BY <2>1, <2>2
<1> QED BY <1>9, <1>10, <1>11, <1>14

(* What the chunks of the file in hand are to hold.                        *)
Expected == IF Outdated THEN ToSet(markdown[inHand.doc]) ELSE {Unit(i) : i \in SeenPlaces}

CorpusReady ==
  /\ corpusRows[inHand.doc] \in Seq(Mine) /\ HoldJust(corpusRows[inHand.doc], Expected)
  /\ Expected # {}

ChunksNumbered(d) ==
  /\ \E n \in Nat : DOMAIN chunkRows[d] = 1..n
  /\ IdsName(d, chunkRows[d])
  /\ \A c \in DOMAIN chunkRows[d] : chunkRows[d][c].text \in Seq(Units)

ChunksCurrent(d) ==
  /\ chunkRows[d] # NoRows
  /\ \A c \in DOMAIN chunkRows[d] :
       chunkRows[d][c].doc = d /\ chunkRows[d][c].hash = record[d].hash
  /\ \A u : Holds(chunkRows[d], u) => u[1] = record[d].hash

IngestionInv ==
  /\ contents \in Nat
  /\ inHand.stage # "none" => InHandTyped
  /\ markdown \in [Documents -> Seq(Units)]
  /\ DOMAIN corpusRows = Documents /\ DOMAIN chunkRows = Documents /\ DOMAIN record = Documents
  /\ \A d \in Documents : ChunksNumbered(d)
  /\ \A d \in Documents \ stale : record[d].status = "active" => ChunksCurrent(d)
  /\ inHand.stage = "chunk" => CorpusReady
  /\ inHand.stage = "saved" => /\ HoldJust(chunkRows[inHand.doc], Expected)
                               /\ Outdated => inHand.doc \in stale
  /\ inHand.stage = "failed" => ~Readable \/ SeenPlaces = {}

(* A step that only moves the file to its next stage.                      *)
LEMMA StageOnly ==
  ASSUME InHandTyped, NEW s, inHand' = [inHand EXCEPT !.stage = s], suffix' = suffix
  PROVE  /\ inHand'.stage = s /\ InHandTyped' /\ inHand'.doc = inHand.doc
         /\ inHand'.hash = inHand.hash
         /\ Mine' = Mine /\ SeenPlaces' = SeenPlaces /\ Readable' = Readable
         /\ Outdated' = Outdated
         /\ {Unit(i) : i \in SeenPlaces}' = {Unit(i) : i \in SeenPlaces}
<1>1. PICK file : file = inHand' OBVIOUS
<1>2. /\ file.stage = s /\ DOMAIN file = DOMAIN inHand
      /\ file.doc = inHand.doc /\ file.hash = inHand.hash /\ file.layout = inHand.layout
      /\ file.broken = inHand.broken /\ file.profile = inHand.profile /\ file.temp = inHand.temp
      /\ file.able = inHand.able
  BY <1>1 DEF InHandTyped
<1>3. /\ inHand'.stage = s /\ DOMAIN inHand' = DOMAIN inHand
      /\ inHand'.doc = inHand.doc /\ inHand'.hash = inHand.hash /\ inHand'.layout = inHand.layout
      /\ inHand'.broken = inHand.broken /\ inHand'.profile = inHand.profile
      /\ inHand'.temp = inHand.temp /\ inHand'.able = inHand.able
  BY <1>1, <1>2
<1>4. InHandTyped' BY <1>3 DEF InHandTyped
<1>5. Ext' = Ext BY <1>3 DEF Ext
<1>6. Mine' = Mine BY <1>3 DEF Mine
<1>7. Places' = Places BY <1>3 DEF Places
<1>8. Unseen' = Unseen BY <1>3, <1>5, <1>7 DEF Unseen, Can
<1>9. SeenPlaces' = SeenPlaces BY <1>3, <1>7, <1>8 DEF SeenPlaces
<1>10. Readable' = Readable BY <1>3, <1>5 DEF Readable, Can
<1>11. Outdated' = Outdated BY <1>3, <1>5 DEF Outdated, Can
<1>12. {Unit(i) : i \in SeenPlaces}' = {Unit(i) : i \in SeenPlaces} BY <1>3, <1>9 DEF Unit
<1> QED BY <1>3, <1>4, <1>6, <1>9, <1>10, <1>11, <1>12

(* A file fails.                                                           *)
LEMMA FailsKeeps ==
  ASSUME IngestionInv, inHand.stage = "build", FileFails, ~Readable \/ SeenPlaces = {},
         DOMAIN corpusRows' = Documents, markdown' \in [Documents -> Seq(Units)]
  PROVE  IngestionInv'
<1>1. /\ inHand' = [inHand EXCEPT !.stage = "failed"]
      /\ record' = [record EXCEPT ![inHand.doc] = [status |-> "failed", hash |-> inHand.hash]]
      /\ suffix' = suffix /\ contents' = contents /\ chunkRows' = chunkRows /\ stale' = stale
  BY DEF FileFails
<1>2. InHandTyped BY DEF IngestionInv
<1>3. inHand'.stage = "failed" /\ InHandTyped' /\ SeenPlaces' = SeenPlaces /\ Readable' = Readable
  BY <1>1, <1>2, StageOnly
<1>4. DOMAIN record' = Documents BY <1>1 DEF IngestionInv
<1>5. \A d \in Documents : ChunksNumbered(d)' BY <1>1 DEF IngestionInv, ChunksNumbered
<1>6. ASSUME NEW d \in Documents \ stale', record'[d].status = "active" PROVE ChunksCurrent(d)'
  <2>1. record'[d] = record[d] BY <1>1, <1>6 DEF IngestionInv
  <2>2. ChunksCurrent(d) BY <2>1, <1>1, <1>6 DEF IngestionInv
  <2> QED BY <2>1, <2>2, <1>1 DEF ChunksCurrent, Holds
<1>7. contents' \in Nat /\ DOMAIN chunkRows' = Documents BY <1>1 DEF IngestionInv
<1> QED BY <1>3, <1>4, <1>5, <1>6, <1>7 DEF IngestionInv

(* A file has rows.                                                        *)
LEMMA ReadyKeeps ==
  ASSUME IngestionInv, inHand.stage = "build", inHand' = [inHand EXCEPT !.stage = "chunk"],
         UNCHANGED <<suffix, contents, chunkRows, record, stale>>,
         DOMAIN corpusRows' = Documents, markdown' \in [Documents -> Seq(Units)], CorpusReady'
  PROVE  IngestionInv'
<1>1. /\ suffix' = suffix /\ contents' = contents /\ chunkRows' = chunkRows /\ record' = record
      /\ stale' = stale
  OBVIOUS
<1>2. InHandTyped BY DEF IngestionInv
<1>3. inHand'.stage = "chunk" /\ InHandTyped' BY <1>1, <1>2, StageOnly
<1>4. \A d \in Documents : ChunksNumbered(d)' BY <1>1 DEF IngestionInv, ChunksNumbered
<1>5. \A d \in Documents \ stale' : record'[d].status = "active" => ChunksCurrent(d)'
  BY <1>1 DEF IngestionInv, ChunksCurrent, Holds
<1>6. contents' \in Nat /\ DOMAIN chunkRows' = Documents /\ DOMAIN record' = Documents
  BY <1>1 DEF IngestionInv
<1> QED BY <1>3, <1>4, <1>5, <1>6 DEF IngestionInv

(* Rows are normalized: a document without text fails.                     *)
LEMMA NormalizeIs ==
  ASSUME IngestionInv, InHandTyped, NEW rows \in Seq(RawRows), NEW units, HoldJust(rows, units),
         Normalize(rows)
  PROVE  /\ DOMAIN corpusRows' = Documents /\ suffix' = suffix
         /\ units = {} => FileFails
         /\ units # {} => /\ inHand' = [inHand EXCEPT !.stage = "chunk"]
                          /\ UNCHANGED <<suffix, contents, chunkRows, record, stale>>
                          /\ corpusRows'[inHand.doc] \in Seq(Mine)
                          /\ HoldJust(corpusRows'[inHand.doc], units)
<1>1. PICK normal : normal = NormalizedCorpus(rows) OBVIOUS
<1>2. /\ normal \in Seq(Mine) /\ SameUnits(normal, rows)
      /\ normal = NoRows <=> \A u : ~Holds(rows, u)
  BY <1>1, NormalizedIs
<1>3. normal = NoRows <=> units = {} BY <1>2 DEF HoldJust
<1>4. HoldJust(normal, units) BY <1>2 DEF HoldJust, SameUnits
<1>5. inHand.doc \in Documents /\ DOMAIN corpusRows = Documents
  BY DEF InHandTyped, IngestionInv
<1>6. CASE normal = NoRows
  <2>1. FileFails /\ corpusRows' = [corpusRows EXCEPT ![inHand.doc] = rows]
    BY <1>1, <1>6 DEF Normalize
  <2>2. DOMAIN corpusRows' = Documents BY <2>1, <1>5
  <2>3. suffix' = suffix BY <2>1 DEF FileFails
  <2> QED BY <2>1, <2>2, <2>3, <1>3, <1>6
<1>7. CASE normal # NoRows
  <2>1. /\ inHand' = [inHand EXCEPT !.stage = "chunk"]
        /\ corpusRows' = [corpusRows EXCEPT ![inHand.doc] = normal]
        /\ UNCHANGED <<suffix, contents, chunkRows, record, stale>>
    BY <1>1, <1>7 DEF Normalize
  <2>2. DOMAIN corpusRows' = Documents /\ corpusRows'[inHand.doc] = normal BY <2>1, <1>5
  <2> QED BY <2>1, <2>2, <1>2, <1>3, <1>4, <1>7
<1> QED BY <1>6, <1>7

(* What rows hold that are built and normalized is what is expected.       *)
LEMMA BuildKeeps ==
  ASSUME IngestionInv, inHand.stage = "build",
         NEW rows \in Seq(RawRows), NEW units, HoldJust(rows, units), Normalize(rows),
         markdown' \in [Documents -> Seq(Units)],
         units = {} => ~Readable \/ SeenPlaces = {},
         units # {} => units = IF Outdated THEN ToSet(markdown'[inHand.doc])
                               ELSE {Unit(i) : i \in SeenPlaces}
  PROVE  IngestionInv'
<1>1. InHandTyped BY DEF IngestionInv
<1>2. /\ DOMAIN corpusRows' = Documents /\ suffix' = suffix
      /\ units = {} => FileFails
      /\ units # {} => /\ inHand' = [inHand EXCEPT !.stage = "chunk"]
                       /\ UNCHANGED <<suffix, contents, chunkRows, record, stale>>
                       /\ corpusRows'[inHand.doc] \in Seq(Mine)
                       /\ HoldJust(corpusRows'[inHand.doc], units)
  BY <1>1, NormalizeIs
<1>3. CASE units = {} BY <1>2, <1>3, FailsKeeps
<1>4. CASE units # {}
  <2>1. /\ inHand' = [inHand EXCEPT !.stage = "chunk"]
        /\ UNCHANGED <<suffix, contents, chunkRows, record, stale>>
    BY <1>2, <1>4
  <2>2. /\ inHand'.doc = inHand.doc /\ Mine' = Mine /\ Outdated' = Outdated
        /\ {Unit(i) : i \in SeenPlaces}' = {Unit(i) : i \in SeenPlaces}
    BY <2>1, <1>1, <1>2, StageOnly
  <2>3. Expected' = units BY <2>2, <1>4 DEF Expected
  <2>4. CorpusReady'
    <3>1. corpusRows'[inHand.doc] \in Seq(Mine) /\ HoldJust(corpusRows'[inHand.doc], units)
      BY <1>2, <1>4
    <3>2. corpusRows'[inHand'.doc] \in Seq(Mine') BY <3>1, <2>2
    <3>3. HoldJust(corpusRows[inHand.doc], Expected)'
      <4>1. \A u : Holds(corpusRows'[inHand.doc], u) <=> u \in units BY <3>1 DEF HoldJust
      <4> QED BY <4>1, <2>2, <2>3 DEF HoldJust, Holds
    <3> QED BY <3>2, <3>3, <2>3, <1>4 DEF CorpusReady
  <2> QED BY <2>1, <2>4, <1>2, ReadyKeeps
<1> QED BY <1>3, <1>4

(* Before the first file nothing is stored and nothing is in hand.         *)
LEMMA IngestionStarts == IngestionInit => IngestionInv
<1> SUFFICES ASSUME IngestionInit PROVE IngestionInv OBVIOUS
<1>1. inHand.stage = "none" /\ contents = 0 BY DEF IngestionInit, NoFile
<1>2. markdown \in [Documents -> Seq(Units)]
  <2>1. Unread \in Seq(Units)
    <3>1. <<0, 0>> \in Units BY DEF Units
    <3> HIDE DEF Units
    <3> QED BY <3>1 DEF Unread
  <2> HIDE DEF Units
  <2> QED BY <2>1 DEF IngestionInit
<1>3. DOMAIN corpusRows = Documents /\ DOMAIN chunkRows = Documents /\ DOMAIN record = Documents
  BY DEF IngestionInit
<1>4. ASSUME NEW d \in Documents PROVE ChunksNumbered(d) /\ record[d].status # "active"
  <2>1. chunkRows[d] = NoRows /\ record[d].status = "none" BY DEF IngestionInit
  <2>2. DOMAIN NoRows = 1..0 BY DEF NoRows
  <2>3. 0 \in Nat /\ 1..0 = {} OBVIOUS
  <2> QED BY <2>1, <2>2, <2>3 DEF ChunksNumbered, IdsName
<1> QED BY <1>1, <1>2, <1>3, <1>4 DEF IngestionInv

(* A file comes in. *)
LEMMA TakeFileKeeps ==
  ASSUME IngestionInv, NEW d \in Documents, NEW layout \in Layouts, NEW profile \in WriteProfiles,
         NEW able, NEW broken \in Nat, NEW temp \in BOOLEAN,
         TakeFile(d, layout, able, broken, profile, temp)
  PROVE  IngestionInv'
<1>1. PICK number : number = contents + 1 OBVIOUS
<1>2. /\ contents' = number
      /\ inHand' = [stage |-> "build", doc |-> d, hash |-> number, layout |-> layout,
                    able |-> able, broken |-> broken, profile |-> profile, temp |-> temp]
      /\ suffix' = suffix /\ corpusRows' = corpusRows /\ chunkRows' = chunkRows
      /\ markdown' = markdown /\ record' = record /\ stale' = stale
  BY <1>1 DEF TakeFile
<1>3. number \in Nat \ {0} BY <1>1 DEF IngestionInv
<1>4. layout \in Seq(UnitKinds) BY IngestionAssumption
<1>5. InHandTyped' /\ inHand'.stage = "build" BY <1>2, <1>3, <1>4 DEF InHandTyped
<1>6. \A e \in Documents : ChunksNumbered(e)' BY <1>2 DEF IngestionInv, ChunksNumbered
<1>7. \A e \in Documents \ stale' : record'[e].status = "active" => ChunksCurrent(e)'
  BY <1>2 DEF IngestionInv, ChunksCurrent, Holds
<1>8. /\ contents' \in Nat /\ markdown' \in [Documents -> Seq(Units)]
      /\ DOMAIN corpusRows' = Documents /\ DOMAIN chunkRows' = Documents
      /\ DOMAIN record' = Documents
  BY <1>2, <1>3 DEF IngestionInv
<1> QED BY <1>5, <1>6, <1>7, <1>8 DEF IngestionInv

(* A spreadsheet is read: a row for each of its rows.                      *)
LEMMA BuildExcelKeeps == IngestionInv /\ BuildExcel => IngestionInv'
<1> SUFFICES ASSUME IngestionInv, BuildExcel PROVE IngestionInv' OBVIOUS
<1>1. inHand.stage = "build" /\ Ext \in Excel /\ Normalize(ExcelRows) /\ markdown' = markdown
  BY DEF BuildExcel
<1>2. InHandTyped BY <1>1 DEF IngestionInv
<1>3. PICK rows, units : rows = ExcelRows /\ units = {Unit(i) : i \in SeenPlaces} OBVIOUS
<1>4. rows \in Seq(RawRows) /\ HoldJust(rows, units) BY <1>1, <1>2, <1>3, ExcelRowsAre
<1>5. ~Outdated BY <1>1 DEF Outdated, Excel
<1>6. units = {} => SeenPlaces = {} BY <1>3
<1>7. markdown' \in [Documents -> Seq(Units)] BY <1>1 DEF IngestionInv
<1>8. Normalize(rows) BY <1>1, <1>3
<1> QED BY <1>1, <1>3, <1>4, <1>5, <1>6, <1>7, <1>8, BuildKeeps

(* A document is laid out by MinerU: what its Markdown holds, if it was    *)
(* written.                                                                *)
LEMMA BuildMineruKeeps == IngestionInv /\ BuildMineru => IngestionInv'
<1> SUFFICES ASSUME IngestionInv, BuildMineru PROVE IngestionInv' OBVIOUS
<1>1. inHand.stage = "build" /\ Ext = ".pdf" BY DEF BuildMineru
<1>2. InHandTyped BY <1>1 DEF IngestionInv
<1>3. PICK doc \in Documents : doc = inHand.doc BY <1>2 DEF InHandTyped
<1>4. markdown \in [Documents -> Seq(Units)] /\ DOMAIN corpusRows = Documents BY DEF IngestionInv
<1>5. CASE ~Can("mineru")
  <2>1. FileFails /\ corpusRows' = corpusRows /\ markdown' = markdown
    BY <1>5 DEF BuildMineru
  <2>2. ~Readable BY <1>1, <1>5 DEF Readable, Excel, Legacy, Can
  <2> QED BY <1>1, <1>4, <2>1, <2>2, FailsKeeps
<1>6. CASE Can("mineru")
  <2>1. /\ Normalize(MineruRows)
        /\ markdown' = [markdown EXCEPT ![doc] = IF inHand.temp THEN @ ELSE Parsed]
    BY <1>3, <1>6 DEF BuildMineru
  <2>2. PICK text : text = TextOf({"text", "box"}) OBVIOUS
  <2>3. /\ text \in Seq(Units) /\ text # Unread
        /\ text = NoRows <=> Reflowed({"text", "box"}) = {}
        /\ \A u : (\E p \in 1..Len(text) : text[p] = u)
                  <=> u \in {Unit(i) : i \in Reflowed({"text", "box"})}
    BY <1>2, <2>2, TextIs
  <2>4. Reflowed({"text", "box"}) = SeenPlaces
    <3>1. \A i \in Places : inHand.layout[i] \in {"text", "box", "blank"}
      <4>1. PICK n \in Nat : n = Len(inHand.layout) /\ Places = 1..n
        BY <1>2 DEF InHandTyped, Places
      <4> QED BY <1>2, <4>1 DEF InHandTyped, UnitKinds
    <3>2. Unseen = {} BY <1>1 DEF Unseen, Excel, Legacy
    <3> QED BY <3>1, <3>2 DEF SeenPlaces, Reflowed
  <2>5. PICK parsed : parsed = Parsed OBVIOUS
  <2>6. markdown'[doc] = (IF inHand.temp THEN markdown[doc] ELSE parsed)
        /\ \A d \in Documents \ {doc} : markdown'[d] = markdown[d]
    BY <2>1, <2>5, <1>4
  <2>7. CASE Can("output")
    <3>1. parsed = text BY <2>2, <2>5, <2>7 DEF Parsed
    <3>2. PICK rows, units : rows = MineruRows /\ units = {Unit(i) : i \in SeenPlaces} OBVIOUS
    <3>9. text # Unread /\ text \in Seq(Units) BY <2>3
    <3>3. rows = <<RawRow("stem", text)>> BY <3>1, <3>2, <3>9, <2>5 DEF MineruRows
    <3>4. rows \in Seq(RawRows) /\ HoldJust(rows, units)
      <4>1. \A u : (\E p \in 1..Len(text) : text[p] = u) <=> u \in units BY <2>3, <2>4, <3>2
      <4> QED BY <4>1, <3>3, <3>9, OneRow
    <3>5. ~Outdated BY <2>7 DEF Outdated
    <3>6. units = {} => SeenPlaces = {} BY <3>2
    <3>7. markdown' \in [Documents -> Seq(Units)]
      <4>1. markdown' = [markdown EXCEPT ![doc] = IF inHand.temp THEN @ ELSE text]
        BY <2>1, <2>5, <3>1
      <4>2. PICK T : T = Seq(Units) OBVIOUS
      <4>3. markdown \in [Documents -> T] /\ text \in T BY <4>2, <3>9, <1>4
      <4> QED BY <4>1, <4>2, <4>3
    <3>8. Normalize(rows) BY <2>1, <3>2
    <3> QED BY <1>1, <3>2, <3>4, <3>5, <3>6, <3>7, <3>8, BuildKeeps
  <2>8. CASE ~Can("output")
    <3>1. ~Readable BY <1>1, <2>8 DEF Readable, Excel, Legacy, Can
    <3>2. Outdated BY <1>1, <1>6, <2>8 DEF Outdated
    <3>3. parsed = IF inHand.temp THEN Unread ELSE markdown[doc] BY <1>3, <2>5, <2>8 DEF Parsed
    <3>4. markdown' = markdown
      <4>1. markdown'[doc] = markdown[doc] BY <2>6, <3>3
      <4> HIDE DEF Units
      <4> QED BY <4>1, <2>1, <1>4
    <3>5. PICK rows : rows = MineruRows OBVIOUS
    <3>6. Normalize(rows) BY <2>1, <3>5
    <3>7. markdown' \in [Documents -> Seq(Units)] BY <3>4, <1>4
    <3>8. CASE parsed = Unread
      <4>1. rows = NoRows BY <3>5, <3>8, <2>5 DEF MineruRows
      <4>2. rows \in Seq(RawRows) /\ HoldJust(rows, {}) BY <4>1, NothingHeld
      <4> QED BY <1>1, <4>2, <3>1, <3>6, <3>7, BuildKeeps
    <3>9. CASE parsed # Unread
      <4>1. rows = <<RawRow("stem", parsed)>> BY <3>5, <3>9, <2>5 DEF MineruRows
      <4>2. parsed = markdown[doc] /\ parsed \in Seq(Units)
        <5>1. parsed = markdown[doc] BY <3>3, <3>9
        <5> HIDE DEF Units
        <5> QED BY <5>1, <1>4
      <4>3. PICK units : units = ToSet(parsed) OBVIOUS
      <4>4. \A u : (\E p \in 1..Len(parsed) : parsed[p] = u) <=> u \in units
        <5>1. DOMAIN parsed = 1..Len(parsed)
          <6> HIDE DEF Units
          <6> QED BY <4>2
        <5> QED BY <5>1, <4>3 DEF ToSet
      <4>5. rows \in Seq(RawRows) /\ HoldJust(rows, units) BY <4>1, <4>2, <4>4, OneRow
      <4>6. units = ToSet(markdown'[inHand.doc]) BY <4>2, <4>3, <3>4, <1>3
      <4> QED BY <1>1, <4>5, <4>6, <3>1, <3>2, <3>6, <3>7, BuildKeeps
    <3> QED BY <3>8, <3>9
  <2> QED BY <2>7, <2>8
<1> QED BY <1>5, <1>6

(* A text is read: one row, or the Markdown left by a former content.      *)
LEMMA BuildTextKeeps == IngestionInv /\ BuildText => IngestionInv'
<1> SUFFICES ASSUME IngestionInv, BuildText PROVE IngestionInv' OBVIOUS
<1>1. inHand.stage = "build" /\ Ext \in Texts \ {".pdf"} /\ markdown' = markdown
  BY DEF BuildText
<1>2. InHandTyped BY <1>1 DEF IngestionInv
<1>3. markdown' \in [Documents -> Seq(Units)] /\ DOMAIN corpusRows = Documents
  BY <1>1 DEF IngestionInv
<1>4. ~Outdated BY <1>1 DEF Outdated
<1>5. /\ ReadText = Unread => ~Readable \/ SeenPlaces = {}
      /\ ReadText # Unread =>
           \/ ReadText = NoRows /\ (~Readable \/ SeenPlaces = {})
           \/ \E kinds : /\ ReadText = TextOf(kinds) /\ ReadText # NoRows
                         /\ Reflowed(kinds) = SeenPlaces
  BY <1>1, <1>2, ReadTextIs
<1>6. CASE ReadText = Unread
  <2>1. FileFails /\ corpusRows' = corpusRows BY <1>6 DEF BuildText
  <2> QED BY <2>1, <1>1, <1>3, <1>5, <1>6, FailsKeeps
<1>7. CASE ReadText # Unread /\ ReadText = NoRows
  <2>1. Normalize(NoRows) BY <1>7 DEF BuildText, TextRows
  <2> QED BY <2>1, <1>1, <1>3, <1>5, <1>7, NothingHeld, BuildKeeps
<1>8. CASE ReadText # Unread /\ ReadText # NoRows
  <2>1. PICK kinds : ReadText = TextOf(kinds) /\ Reflowed(kinds) = SeenPlaces BY <1>5, <1>8
  <2>2. PICK text, units : text = ReadText /\ units = {Unit(i) : i \in SeenPlaces} OBVIOUS
  <2>3. /\ text \in Seq(Units)
        /\ \A u : (\E p \in 1..Len(text) : text[p] = u) <=> u \in units
    BY <1>2, <2>1, <2>2, TextIs
  <2>4. PICK rows : rows = <<RawRow("stem", text)>> OBVIOUS
  <2>5. Normalize(rows) BY <1>8, <2>2, <2>4 DEF BuildText, TextRows
  <2>6. rows \in Seq(RawRows) /\ HoldJust(rows, units) BY <2>3, <2>4, OneRow
  <2>7. units = {} => SeenPlaces = {} BY <2>2
  <2> QED BY <1>1, <1>3, <1>4, <2>2, <2>5, <2>6, <2>7, BuildKeeps
<1> QED BY <1>6, <1>7, <1>8

(* The corpus is cut into chunks, which are numbered and stored.           *)
LEMMA ChunkDocumentKeeps == IngestionInv /\ ChunkDocument => IngestionInv'
<1> SUFFICES ASSUME IngestionInv, ChunkDocument PROVE IngestionInv' OBVIOUS
<1>1. PICK rows, chunks : rows = corpusRows[inHand.doc] /\ chunks = NormalizedChunks(Chunked(rows))
  OBVIOUS
<1>2. /\ inHand.stage = "chunk"
      /\ chunkRows' = [chunkRows EXCEPT ![inHand.doc] = chunks]
      /\ record' = [record EXCEPT ![inHand.doc] = [status |-> "active", hash |-> inHand.hash]]
      /\ inHand' = [inHand EXCEPT !.stage = "saved"]
      /\ suffix' = suffix /\ contents' = contents /\ corpusRows' = corpusRows
      /\ markdown' = markdown
      /\ stale' = IF Outdated THEN stale \cup {inHand.doc} ELSE stale \ {inHand.doc}
  BY <1>1 DEF ChunkDocument
<1>3. InHandTyped /\ CorpusReady BY <1>2 DEF IngestionInv
<1>4. rows \in Seq(Mine) /\ HoldJust(rows, Expected) /\ Expected # {} BY <1>1, <1>3 DEF CorpusReady
<1>5. MadeOf(chunks, rows) /\ IdsName(inHand.doc, chunks)
  <2>1. inHand.profile \in WriteProfiles BY <1>3 DEF InHandTyped
  <2> QED BY <2>1, <1>1, <1>4, ChunksAre
<1>6. PICK doc \in Documents : doc = inHand.doc BY <1>3 DEF InHandTyped
<1>7. /\ chunkRows'[doc] = chunks /\ record'[doc] = [status |-> "active", hash |-> inHand.hash]
      /\ \A d \in Documents \ {doc} : chunkRows'[d] = chunkRows[d] /\ record'[d] = record[d]
      /\ DOMAIN chunkRows' = Documents /\ DOMAIN record' = Documents
  BY <1>2, <1>6 DEF IngestionInv
<1>8. /\ inHand'.stage = "saved" /\ InHandTyped' /\ inHand'.doc = doc /\ Outdated' = Outdated
      /\ {Unit(i) : i \in SeenPlaces}' = {Unit(i) : i \in SeenPlaces}
  BY <1>2, <1>3, <1>6, StageOnly
<1>9. Expected' = Expected
  <2>1. ToSet(markdown[inHand.doc])' = ToSet(markdown[inHand.doc]) BY <1>2, <1>6, <1>8
  <2> QED BY <2>1, <1>8 DEF Expected
<1>10. HoldJust(chunks, Expected) BY <1>4, <1>5 DEF MadeOf, SameUnits, HoldJust
<1>11. HoldJust(chunkRows[inHand.doc], Expected)'
  <2>1. \A u : Holds(chunks, u) <=> u \in Expected BY <1>10 DEF HoldJust
  <2> QED BY <2>1, <1>7, <1>8, <1>9 DEF HoldJust, Holds
<1>12. ASSUME NEW d \in Documents PROVE ChunksNumbered(d)'
  <2>1. CASE d = doc
    <3>1. (\E n \in Nat : DOMAIN chunks = 1..n)
            /\ \A c \in DOMAIN chunks : chunks[c].text \in Seq(Units)
      BY <1>5 DEF MadeOf
    <3>2. IdsName(d, chunkRows'[d]) BY <2>1, <1>5, <1>6, <1>7
    <3> QED BY <2>1, <3>1, <3>2, <1>7 DEF ChunksNumbered, IdsName
  <2>2. CASE d # doc
    <3>1. ChunksNumbered(d) BY DEF IngestionInv
    <3> QED BY <2>2, <3>1, <1>7 DEF ChunksNumbered, IdsName
  <2> QED BY <2>1, <2>2
<1>13. ASSUME NEW d \in Documents \ stale', record'[d].status = "active" PROVE ChunksCurrent(d)'
  <2>1. CASE d = doc
    <3>1. chunks # NoRows
      <4>1. PICK u : u \in Expected BY <1>4
      <4>2. Holds(chunks, u) BY <4>1, <1>10 DEF HoldJust
      <4>3. DOMAIN NoRows = {} BY DEF NoRows
      <4> QED BY <4>2, <4>3 DEF Holds
    <3>2. \A c \in DOMAIN chunks : chunks[c].doc = d /\ chunks[c].hash = inHand.hash
      BY <2>1, <1>5, <1>6 DEF MadeOf
    <3>3. ~Outdated BY <2>1, <1>2, <1>6, <1>13
    <3>4. \A u : Holds(chunks, u) => u[1] = inHand.hash
      <4> TAKE u
      <4> HAVE Holds(chunks, u)
      <4>1. u \in {Unit(i) : i \in SeenPlaces} BY <3>3, <1>10 DEF HoldJust, Expected
      <4>2. PICK i : u = Unit(i) BY <4>1
      <4> QED BY <4>2 DEF Unit
    <3> QED BY <2>1, <3>1, <3>2, <3>4, <1>7 DEF ChunksCurrent, Holds
  <2>2. CASE d # doc
    <3>1. d \notin stale BY <2>2, <1>2, <1>6
    <3>2. ChunksCurrent(d) BY <2>2, <3>1, <1>7, <1>13 DEF IngestionInv
    <3> QED BY <2>2, <3>2, <1>7 DEF ChunksCurrent, Holds
  <2> QED BY <2>1, <2>2
<1>15. Outdated' => inHand'.doc \in stale' BY <1>2, <1>6, <1>8
<1>14. contents' \in Nat /\ markdown' \in [Documents -> Seq(Units)]
         /\ DOMAIN corpusRows' = Documents
  BY <1>2 DEF IngestionInv
<1> QED BY <1>7, <1>8, <1>11, <1>12, <1>13, <1>14, <1>15 DEF IngestionInv

(* Every step of an ingestion keeps the invariant.                         *)
LEMMA IngestionInductive == IngestionInv /\ [IngestionNext]_ingestionVars => IngestionInv'
<1> SUFFICES ASSUME IngestionInv, [IngestionNext]_ingestionVars PROVE IngestionInv' OBVIOUS
<1>1. CASE BuildExcel BY <1>1, BuildExcelKeeps
<1>2. CASE BuildMineru BY <1>2, BuildMineruKeeps
<1>3. CASE BuildText BY <1>3, BuildTextKeeps
<1>4. CASE ChunkDocument BY <1>4, ChunkDocumentKeeps
<1>5. ASSUME NEW d \in Documents, NEW layout \in Layouts, NEW profile \in WriteProfiles,
             NEW able \in SUBSET Tools(suffix[d]),
             NEW broken \in (IF suffix[d] \in Excel THEN 1..(Len(layout) + 1) ELSE {0}),
             NEW temp \in (IF suffix[d] = ".pdf" THEN BOOLEAN ELSE {FALSE}),
             TakeFile(d, layout, able, broken, profile, temp)
      PROVE  IngestionInv'
  <2>1. broken \in Nat
    <3>1. Len(layout) \in Nat
      <4>1. layout \in Seq(UnitKinds) BY IngestionAssumption
      <4> QED BY <4>1
    <3>2. CASE suffix[d] \in Excel BY <3>1, <3>2
    <3>3. CASE suffix[d] \notin Excel BY <3>3
    <3> QED BY <3>2, <3>3
  <2>2. temp \in BOOLEAN OBVIOUS
  <2> QED BY <1>5, <2>1, <2>2, TakeFileKeeps
<1>6. CASE UNCHANGED ingestionVars
  <2>1. /\ suffix' = suffix /\ contents' = contents /\ inHand' = inHand
        /\ corpusRows' = corpusRows /\ chunkRows' = chunkRows /\ markdown' = markdown
        /\ record' = record /\ stale' = stale
    BY <1>6 DEF ingestionVars
  <2>2. InHandTyped' = InHandTyped BY <2>1 DEF InHandTyped
  <2>3. Places' = Places /\ Unseen' = Unseen BY <2>1 DEF Places, Unseen, Ext, Can
  <2>4. SeenPlaces' = SeenPlaces BY <2>1, <2>3 DEF SeenPlaces
  <2>5. Readable' = Readable /\ Outdated' = Outdated BY <2>1 DEF Readable, Outdated, Ext, Can
  <2>6. Expected' = Expected BY <2>1, <2>4, <2>5 DEF Expected, Unit
  <2>7. CorpusReady' = CorpusReady BY <2>1, <2>6 DEF CorpusReady, Mine, HoldJust, Holds
  <2>8. HoldJust(chunkRows[inHand.doc], Expected)' = HoldJust(chunkRows[inHand.doc], Expected)
    BY <2>1, <2>6 DEF HoldJust, Holds
  <2>9. \A d : /\ ChunksNumbered(d)' = ChunksNumbered(d) /\ ChunksCurrent(d)' = ChunksCurrent(d)
    BY <2>1 DEF ChunksNumbered, ChunksCurrent, IdsName, Holds
  <2> QED BY <2>1, <2>2, <2>4, <2>5, <2>7, <2>8, <2>9 DEF IngestionInv
<1> QED BY <1>1, <1>2, <1>3, <1>4, <1>5, <1>6 DEF IngestionNext

(* Ids that name the document and the place of a chunk are all different.  *)
LEMMA IngestionInvImplies == IngestionInv => FileBecomesChunks
<1> SUFFICES ASSUME IngestionInv PROVE FileBecomesChunks OBVIOUS
<1>1. ASSUME NEW d \in Documents, NEW u PROVE u \in UnitsOf(d) <=> Holds(chunkRows[d], u)
  <2>1. PICK chunks : chunks = chunkRows[d] OBVIOUS
  <2>2. \A c \in DOMAIN chunks : chunks[c].text \in Seq(Units)
    BY <2>1 DEF IngestionInv, ChunksNumbered
  <2>3. \A c \in DOMAIN chunks : DOMAIN chunks[c].text = 1..Len(chunks[c].text)
    <3> HIDE DEF Units
    <3> QED BY <2>2
  <2>4. u \in UnitsOf(d) <=> \E c \in DOMAIN chunks : u \in ToSet(chunks[c].text)
    BY <2>1 DEF UnitsOf
  <2>5. \A c \in DOMAIN chunks :
          u \in ToSet(chunks[c].text) <=> \E p \in 1..Len(chunks[c].text) : chunks[c].text[p] = u
    BY <2>3 DEF ToSet
  <2> QED BY <2>1, <2>4, <2>5 DEF Holds
<1>2. ASSUME inHand.stage = "saved", inHand.doc \notin stale
      PROVE  UnitsOf(inHand.doc) = {Unit(i) : i \in SeenPlaces}
  <2>1. HoldJust(chunkRows[inHand.doc], Expected) /\ InHandTyped /\ ~Outdated
    BY <1>2 DEF IngestionInv
  <2>2. PICK doc \in Documents : doc = inHand.doc BY <2>1 DEF InHandTyped
  <2>3. PICK expected : expected = {Unit(i) : i \in SeenPlaces} OBVIOUS
  <2>4. \A u : Holds(chunkRows[doc], u) <=> u \in expected
    BY <2>1, <2>2, <2>3 DEF HoldJust, Expected
  <2>5. \A u : u \in UnitsOf(doc) <=> u \in expected BY <1>1, <2>4
  <2> QED BY <2>2, <2>3, <2>5
<1>3. inHand.stage = "failed" => ~Readable \/ SeenPlaces = {} BY DEF IngestionInv
<1>4. ASSUME NEW d \in Documents \ stale PROVE HoldsItsContent(d)
  <2> SUFFICES ASSUME record[d].status = "active"
               PROVE  /\ chunkRows[d] # NoRows /\ \A u \in UnitsOf(d) : u[1] = record[d].hash
                      /\ \A c \in DOMAIN chunkRows[d] :
                           chunkRows[d][c].doc = d /\ chunkRows[d][c].hash = record[d].hash
    BY DEF HoldsItsContent
  <2>1. ChunksCurrent(d) BY DEF IngestionInv
  <2> QED BY <2>1, <1>1 DEF ChunksCurrent
<1>5. ASSUME NEW d \in Documents, NEW e \in Documents,
             NEW b \in DOMAIN chunkRows[d], NEW c \in DOMAIN chunkRows[e],
             chunkRows[d][b].id = chunkRows[e][c].id
      PROVE  d = e /\ b = c
  <2>1. ChunksNumbered(d) /\ ChunksNumbered(e) BY DEF IngestionInv
  <2>2. PICK id : id = chunkRows[d][b].id OBVIOUS
  <2>3. id[1] = d /\ id[Len(id)] = b - 1 BY <2>1, <2>2 DEF ChunksNumbered, IdsName
  <2>4. id[1] = e /\ id[Len(id)] = c - 1 BY <2>1, <2>2, <1>5 DEF ChunksNumbered, IdsName
  <2>5. b \in Int /\ c \in Int BY <2>1 DEF ChunksNumbered
  <2> QED BY <2>3, <2>4, <2>5
<1>6. SeenPlaces = {i \in Places : inHand.layout[i] # "blank"} \ Unseen BY DEF SeenPlaces
<1> QED BY <1>2, <1>3, <1>4, <1>5, <1>6 DEF FileBecomesChunks

(* For every set of documents and layouts of files and every write         *)
(* profile: but for documents whose chunks are stale Markdown of MinerU, a *)
(* file that is taken up becomes chunks that hold all that is read of it   *)
(* and nothing else, and the text of an active document's chunks is of the *)
(* content recorded; and the ids of chunks are all different               *)
(* (KBAdmin._upsert_file and the corpus and chunk servers).                *)
THEOREM IngestionCorrect == IngestionSpec => []FileBecomesChunks
<1>1. IngestionInit => IngestionInv BY IngestionStarts
<1>2. IngestionInv /\ [IngestionNext]_ingestionVars => IngestionInv' BY IngestionInductive
<1>3. IngestionInv => FileBecomesChunks BY IngestionInvImplies
<1> QED BY <1>1, <1>2, <1>3, PTL DEF IngestionSpec

-----------------------------------------------------------------------------
(* The page of operations.                                                 *)

(* Lists and what is among their items.                                    *)
Among(x, rows) == \E i \in DOMAIN rows : rows[i] = x

(* The members of a row: none when it is empty, its first otherwise.       *)
LEMMA NothingAmong ==
  ASSUME NEW T, NEW rows \in Seq(T)
  PROVE  /\ rows = <<>> <=> \A x : ~Among(x, rows)
         /\ rows # <<>> => Among(Head(rows), rows)
         /\ \A x : Among(x, rows) => x \in T
<1>1. PICK n \in Nat : n = Len(rows) /\ DOMAIN rows = 1..n OBVIOUS
<1>2. ASSUME rows # <<>> PROVE Among(Head(rows), rows)
  <2>1. n # 0 BY <1>1, <1>2
  <2>2. 1 \in DOMAIN rows BY <1>1, <2>1
  <2>3. Head(rows) = rows[1] BY <1>2
  <2> QED BY <2>2, <2>3 DEF Among
<1>3. ASSUME rows = <<>>, NEW x PROVE ~Among(x, rows)
  <2>1. DOMAIN rows = {} BY <1>3
  <2> QED BY <2>1 DEF Among
<1>4. \A x : Among(x, rows) => x \in T BY DEF Among
<1> QED BY <1>2, <1>3, <1>4

(* A selection: its length, and what is among it.                          *)
LEMMA PickedAmong ==
  ASSUME NEW T, NEW rows \in Seq(T), NEW places \in SUBSET DOMAIN rows
  PROVE  /\ Picked(rows, places) \in Seq(T)
         /\ Len(Picked(rows, places)) = Cardinality(places)
         /\ Len(Picked(rows, places)) <= Len(rows)
         /\ \A x : Among(x, Picked(rows, places)) <=> \E i \in places : rows[i] = x
<1>1. PICK picked, order, size : /\ picked = Picked(rows, places) /\ order = Ascending(places)
                                 /\ size = Cardinality(places)
  OBVIOUS
<1>2. /\ picked \in Seq(T) /\ Len(picked) = size /\ size \in Nat /\ size <= Len(rows)
      /\ order \in [1..size -> places]
      /\ \A n \in 1..size : picked[n] = rows[order[n]]
      /\ \A i \in places : \E n \in 1..size : order[n] = i
  BY <1>1, PickedIs
<1>3. DOMAIN picked = 1..size BY <1>2
<1>4. \A x : Among(x, picked) <=> \E i \in places : rows[i] = x
  <2> TAKE x
  <2>1. ASSUME NEW n \in 1..size, picked[n] = x PROVE \E i \in places : rows[i] = x
    BY <2>1, <1>2
  <2>2. ASSUME NEW i \in places, rows[i] = x PROVE \E n \in 1..size : picked[n] = x
    BY <2>2, <1>2
  <2> QED BY <2>1, <2>2, <1>3 DEF Among
<1> QED BY <1>1, <1>2, <1>4

(* The selections of the page, by what they select. *)
LEMMA WithIs ==
  ASSUME NEW T, NEW rows \in Seq(T), NEW v
  PROVE  /\ With(rows, v) \in Seq(T) /\ Len(With(rows, v)) <= Len(rows)
         /\ Len(With(rows, v)) = Cardinality({i \in DOMAIN rows : rows[i].status = v})
         /\ \A x : Among(x, With(rows, v)) <=> Among(x, rows) /\ x.status = v
<1>1. PICK places : places = {i \in DOMAIN rows : rows[i].status = v} OBVIOUS
<1>2. places \in SUBSET DOMAIN rows /\ With(rows, v) = Picked(rows, places) BY <1>1 DEF With
<1>3. \A x : (\E i \in places : rows[i] = x) <=> Among(x, rows) /\ x.status = v
  BY <1>1 DEF Among
<1>4. /\ Picked(rows, places) \in Seq(T)
      /\ Len(Picked(rows, places)) = Cardinality(places)
      /\ Len(Picked(rows, places)) <= Len(rows)
      /\ \A x : Among(x, Picked(rows, places)) <=> \E i \in places : rows[i] = x
  BY <1>2, PickedAmong
<1> QED BY <1>1, <1>2, <1>3, <1>4

(* The rows in a state, picked.                                            *)
LEMMA InIs ==
  ASSUME NEW T, NEW rows \in Seq(T), NEW v
  PROVE  /\ In(rows, v) \in Seq(T) /\ Len(In(rows, v)) <= Len(rows)
         /\ \A x : Among(x, In(rows, v)) <=> Among(x, rows) /\ InflightState(x) = v
<1>1. PICK places : places = {i \in DOMAIN rows : InflightState(rows[i]) = v} OBVIOUS
<1>2. places \in SUBSET DOMAIN rows /\ In(rows, v) = Picked(rows, places) BY <1>1 DEF In
<1>3. \A x : (\E i \in places : rows[i] = x) <=> Among(x, rows) /\ InflightState(x) = v
  BY <1>1 DEF Among
<1>4. /\ Picked(rows, places) \in Seq(T)
      /\ Len(Picked(rows, places)) <= Len(rows)
      /\ \A x : Among(x, Picked(rows, places)) <=> \E i \in places : rows[i] = x
  BY <1>2, PickedAmong
<1> QED BY <1>2, <1>3, <1>4

(* The rows of a part, picked.                                             *)
LEMMA OfIs ==
  ASSUME NEW T, NEW rows \in Seq(T), NEW v
  PROVE  /\ Of(rows, v) \in Seq(T) /\ Len(Of(rows, v)) <= Len(rows)
         /\ \A x : Among(x, Of(rows, v)) <=> Among(x, rows) /\ x.part = v
<1>1. PICK places : places = {i \in DOMAIN rows : rows[i].part = v} OBVIOUS
<1>2. places \in SUBSET DOMAIN rows /\ Of(rows, v) = Picked(rows, places) BY <1>1 DEF Of
<1>3. \A x : (\E i \in places : rows[i] = x) <=> Among(x, rows) /\ x.part = v
  BY <1>1 DEF Among
<1>4. /\ Picked(rows, places) \in Seq(T)
      /\ Len(Picked(rows, places)) <= Len(rows)
      /\ \A x : Among(x, Picked(rows, places)) <=> \E i \in places : rows[i] = x
  BY <1>2, PickedAmong
<1> QED BY <1>2, <1>3, <1>4

(* The rows of a knowledge base, picked.                                   *)
LEMMA AtPlaceIs ==
  ASSUME NEW T, NEW rows \in Seq(T), NEW v
  PROVE  /\ AtPlace(rows, v) \in Seq(T) /\ Len(AtPlace(rows, v)) <= Len(rows)
         /\ \A x : Among(x, AtPlace(rows, v)) <=> Among(x, rows) /\ x.kb = v
<1>1. PICK places : places = {i \in DOMAIN rows : rows[i].kb = v} OBVIOUS
<1>2. places \in SUBSET DOMAIN rows /\ AtPlace(rows, v) = Picked(rows, places)
  BY <1>1 DEF AtPlace
<1>3. \A x : (\E i \in places : rows[i] = x) <=> Among(x, rows) /\ x.kb = v
  BY <1>1 DEF Among
<1>4. /\ Picked(rows, places) \in Seq(T)
      /\ Len(Picked(rows, places)) <= Len(rows)
      /\ \A x : Among(x, Picked(rows, places)) <=> \E i \in places : rows[i] = x
  BY <1>2, PickedAmong
<1> QED BY <1>2, <1>3, <1>4

(* The items that the page shows are some of the rows.                     *)
LEMMA RecentItemsIs ==
  ASSUME NEW T, NEW rows \in Seq(T), NEW v
  PROVE  /\ RecentItems(rows, v) \in Seq(T) /\ Len(RecentItems(rows, v)) <= Len(rows)
         /\ \A x : Among(x, RecentItems(rows, v)) => Among(x, rows)
<1>1. PICK places : places = {i \in DOMAIN rows : rows[i].start >= now - v} OBVIOUS
<1>2. places \in SUBSET DOMAIN rows /\ RecentItems(rows, v) = Picked(rows, places)
  BY <1>1 DEF RecentItems
<1>3. \A x : (\E i \in places : rows[i] = x) => Among(x, rows) BY <1>1 DEF Among
<1>4. /\ Picked(rows, places) \in Seq(T)
      /\ Len(Picked(rows, places)) <= Len(rows)
      /\ \A x : Among(x, Picked(rows, places)) <=> \E i \in places : rows[i] = x
  BY <1>2, PickedAmong
<1> QED BY <1>2, <1>3, <1>4

(* The newest rows: not more than the limit, and all if there are no more. *)
LEMMA NewestAre ==
  ASSUME NEW T, NEW rows \in Seq(T), NEW limit \in Nat
  PROVE  /\ Newest(rows, limit) \in Seq(T)
         /\ Len(Newest(rows, limit)) <= Len(rows)
         /\ \A x : Among(x, Newest(rows, limit)) => Among(x, rows)
         /\ Len(rows) <= limit => \A x : Among(x, rows) => Among(x, Newest(rows, limit))
<1>1. PICK n \in Nat : n = Len(rows) /\ DOMAIN rows = 1..n OBVIOUS
<1>2. PICK back : back = Reverse(rows) OBVIOUS
<1>3. back = [i \in 1..n |-> rows[n - i + 1]] BY <1>1, <1>2 DEF Reverse
<1>4. \A i \in 1..n : n - i + 1 \in 1..n /\ n - (n - i + 1) + 1 = i BY <1>1
<1>5. back \in [1..n -> T] BY <1>1, <1>3, <1>4
<1>6. back \in Seq(T) /\ Len(back) = n /\ DOMAIN back = 1..n BY <1>5
<1>7. PICK last \in Nat : last = (IF n < limit THEN n ELSE limit) /\ last <= n
  <2>1. CASE n < limit BY <2>1
  <2>2. CASE ~(n < limit) BY <2>2, <1>1
  <2> QED BY <2>1, <2>2
<1>8. PICK newest : newest = Newest(rows, limit) OBVIOUS
<1>9. newest = SubSeq(back, 1, last) BY <1>1, <1>2, <1>7, <1>8 DEF Newest
<1>10. /\ newest \in Seq(T) /\ Len(newest) = last
       /\ \A i \in 1..last : newest[i] = back[i]
  <2>1. SubSeq(back, 1, last) = [i \in 1..last |-> back[i]]
    <3>1. SubSeq(back, 1, last) = [i \in 1..(last - 1 + 1) |-> back[i + 1 - 1]]
      BY <1>6, <1>7
    <3>2. last - 1 + 1 = last /\ \A i \in 1..last : i + 1 - 1 = i BY <1>7
    <3> QED BY <3>1, <3>2
  <2>2. \A i \in 1..last : back[i] \in T BY <1>5, <1>7
  <2>3. newest \in [1..last -> T] BY <1>9, <2>1, <2>2
  <2>4. newest \in Seq(T) /\ Len(newest) = last BY <2>3
  <2>5. newest = [i \in 1..last |-> back[i]] BY <1>9, <2>1
  <2>6. \A i \in 1..last : newest[i] = back[i] BY <2>5
  <2> QED BY <2>4, <2>6
<1>11. DOMAIN newest = 1..last BY <1>7, <1>10
<1>12. ASSUME NEW x, Among(x, newest) PROVE Among(x, rows)
  <2>1. PICK i \in 1..last : newest[i] = x BY <1>11, <1>12 DEF Among
  <2>2. i \in 1..n BY <1>7
  <2>3. n - i + 1 \in 1..n BY <2>2, <1>4
  <2>4. rows[n - i + 1] = x BY <2>1, <2>2, <1>3, <1>10
  <2> QED BY <2>3, <2>4, <1>1 DEF Among
<1>13. ASSUME n <= limit, NEW x, Among(x, rows) PROVE Among(x, newest)
  <2>1. PICK i \in 1..n : rows[i] = x BY <1>1, <1>13 DEF Among
  <2>2. last = n BY <1>7, <1>13
  <2>3. PICK j \in 1..n : j = n - i + 1 /\ n - j + 1 = i BY <1>4
  <2>4. newest[j] = back[j] BY <2>2, <1>10
  <2>5. back[j] = rows[n - j + 1] BY <1>3
  <2>6. newest[j] = x BY <2>1, <2>3, <2>4, <2>5
  <2> QED BY <2>2, <2>6, <1>11 DEF Among
<1> QED BY <1>1, <1>7, <1>8, <1>10, <1>12, <1>13

(* Of no more than eleven durations the 95th percentile is the longest.    *)
LEMMA PercentileIs ==
  ASSUME NEW durations \in Seq({Fast, Slow}), Len(durations) <= 11
  PROVE  P95(durations) >= Slow <=> \E i \in DOMAIN durations : durations[i] = Slow
<1>1. Fast \in Nat /\ Slow \in Nat /\ Fast < Slow BY OverviewAssumption
<1>2. PICK n \in Nat : n = Len(durations) /\ DOMAIN durations = 1..n /\ n <= 11 OBVIOUS
<1>3. \A i \in 1..n : durations[i] \in {Fast, Slow} BY <1>2
<1>4. CASE n = 0
  <2>1. durations = <<>> BY <1>2, <1>4
  <2>2. P95(durations) = 0 BY <2>1 DEF P95
  <2> QED BY <2>2, <1>1, <1>2, <1>4
<1>5. CASE n # 0
  <2>1. durations # <<>> BY <1>2, <1>5
  <2>10. n <= 11 /\ n >= 1
    <3>1. n <= 11 BY <1>2
    <3>2. n >= 1 BY <1>5
    <3> QED BY <3>1, <3>2
  <2>2. RoundHalfEven(95 * (n - 1), 100) = n - 1
    <3>1. n \in 1..11 BY <2>10
    <3>2. \A m \in 0..10 : RoundHalfEven(95 * m, 100) = m
      <4> SUFFICES ASSUME NEW m \in 0..10 PROVE RoundHalfEven(95 * m, 100) = m OBVIOUS
      <4>1. m \in {0, 1, 2, 3, 4, 5, 6, 7, 8, 9, 10} OBVIOUS
      <4> QED BY <4>1 DEF RoundHalfEven
    <3>3. n - 1 \in 0..10 BY <3>1
    <3> QED BY <3>2, <3>3
  <2>3. P95(durations) = NthSmallest(durations, n)
    <3>1. n - 1 + 1 = n BY <1>2
    <3> QED BY <2>1, <2>2, <3>1, <1>2 DEF P95
  <2> DEFINE Less(i) == {j \in 1..n : durations[j] < durations[i]}
  <2> DEFINE UpToIt(i) == {j \in 1..n : durations[j] <= durations[i]}
  <2>4. IsFiniteSet(1..n) /\ Cardinality(1..n) = n
    <3>1. n \in Int /\ 1 \in Int /\ ~(1 > n) /\ n - 1 + 1 = n BY <2>10
    <3>2. /\ IsFiniteSet(1..n) /\ Cardinality(1..n) = IF 1 > n THEN 0 ELSE n - 1 + 1
      BY <3>1, FS_Interval
    <3> QED BY <3>1, <3>2
  <2>5. \E i \in 1..n : \A j \in 1..n : durations[j] <= durations[i]
    <3>1. CASE \E i \in 1..n : durations[i] = Slow
      <4>1. PICK i \in 1..n : durations[i] = Slow BY <3>1
      <4>2. \A j \in 1..n : durations[j] <= Slow
        <5> TAKE j \in 1..n
        <5>1. durations[j] = Fast \/ durations[j] = Slow BY <1>3
        <5> QED BY <5>1, <1>1
      <4> QED BY <4>1, <4>2
    <3>2. CASE \A i \in 1..n : durations[i] # Slow
      <4>1. 1 \in 1..n BY <1>2, <1>5
      <4>2. \A j \in 1..n : durations[j] = Fast BY <3>2, <1>3
      <4> QED BY <4>1, <4>2, <1>1
    <3> QED BY <3>1, <3>2
  <2>6. \E i \in 1..n : Cardinality(Less(i)) < n /\ n <= Cardinality(UpToIt(i))
    <3>1. PICK i \in 1..n : \A j \in 1..n : durations[j] <= durations[i] BY <2>5
    <3>2. UpToIt(i) = 1..n BY <3>1
    <3>3. Less(i) \subseteq (1..n) \ {i}
      <4>1. durations[i] \in Int BY <1>1, <1>3
      <4> QED BY <4>1
    <3>4. /\ IsFiniteSet((1..n) \ {i}) /\ Cardinality((1..n) \ {i}) = n - 1
      BY <2>4, FS_RemoveElement
    <3>5. Cardinality(Less(i)) <= n - 1 BY <3>3, <3>4, FS_Subset
    <3>6. Cardinality(Less(i)) \in Nat BY <3>3, <3>4, FS_Subset, FS_CardinalityType
    <3>7. Cardinality(Less(i)) < n /\ n <= Cardinality(UpToIt(i))
      <4>1. Cardinality(UpToIt(i)) = n BY <3>2, <2>4
      <4> HIDE DEF Less, UpToIt
      <4> QED BY <4>1, <3>5, <3>6, <2>10
    <3> HIDE DEF Less, UpToIt
    <3> QED BY <3>7
  <2>7. PICK i \in 1..n : P95(durations) = durations[i] /\ n <= Cardinality(UpToIt(i))
    <3>1. PICK chosen :
            chosen = CHOOSE i \in 1..n : Cardinality(Less(i)) < n /\ n <= Cardinality(UpToIt(i))
      OBVIOUS
    <3>2. chosen \in 1..n /\ n <= Cardinality(UpToIt(chosen))
      <4> HIDE DEF Less, UpToIt
      <4> QED BY <3>1, <2>6
    <3>3. NthSmallest(durations, n) = durations[chosen] BY <3>1, <1>2 DEF NthSmallest
    <3> QED BY <2>3, <3>2, <3>3
  <2>8. UpToIt(i) = 1..n
    <3> SUFFICES ASSUME UpToIt(i) # 1..n PROVE FALSE OBVIOUS
    <3>1. PICK j \in 1..n : UpToIt(i) \subseteq (1..n) \ {j} OBVIOUS
    <3>2. /\ IsFiniteSet((1..n) \ {j}) /\ Cardinality((1..n) \ {j}) = n - 1
      BY <2>4, FS_RemoveElement
    <3>3. Cardinality(UpToIt(i)) <= n - 1 /\ Cardinality(UpToIt(i)) \in Nat
      <4> HIDE DEF UpToIt
      <4> QED BY <3>1, <3>2, FS_Subset, FS_CardinalityType
    <3> HIDE DEF UpToIt
    <3> QED BY <3>3, <2>7, <1>2
  <2>9. \A j \in 1..n : durations[j] <= durations[i] BY <2>8
  <2> QED BY <2>7, <2>9, <1>1, <1>2, <1>3
<1> QED BY <1>4, <1>5

-----------------------------------------------------------------------------
(* Spans. *)
Statuses == {"running", "failed", "success"}

SpanRow ==
  {row \in [part : Parts, kb : {kind[2] : kind \in Kinds}, start : Nat,
           status : Statuses, ms : Nat] :
     /\ row.status = "running" => row.ms = 0
     /\ row.status = "failed" => row.ms = Fast
     /\ row.status = "success" => row.ms \in {Fast, Slow}}

(* Among the newest rows of a quiet hour: a slow one is reported.          *)
LEMMA SlowOneReported ==
  ASSUME NEW rows \in Seq(SpanRow), Len(With(Of(rows, "retrieve"), "success")) <= 11
  PROVE  Latency(Of(rows, "retrieve")) >= Slow
         <=> \E i \in DOMAIN rows : rows[i].part = "retrieve" /\ rows[i].ms = Slow
<1>1. Fast \in Nat /\ Slow \in Nat /\ Fast < Slow BY OverviewAssumption
<1>2. PICK T : T = SpanRow OBVIOUS
<1>3. rows \in Seq(T) BY <1>2
<1>4. PICK mine : mine = Of(rows, "retrieve") OBVIOUS
<1>5. /\ mine \in Seq(T)
      /\ \A x : Among(x, mine) <=> Among(x, rows) /\ x.part = "retrieve"
  BY <1>3, <1>4, OfIs
<1>6. PICK good : good = With(mine, "success") OBVIOUS
<1>7. /\ good \in Seq(T)
      /\ \A x : Among(x, good) <=> Among(x, mine) /\ x.status = "success"
  BY <1>5, <1>6, WithIs
<1>8. PICK durations : durations = [i \in DOMAIN good |-> good[i].ms] OBVIOUS
<1>9. Latency(mine) = P95(durations) BY <1>6, <1>8 DEF Latency
<1>10. PICK n \in Nat : n = Len(good) /\ DOMAIN good = 1..n BY <1>7
<1>11. \A i \in 1..n : good[i] \in SpanRow /\ good[i].status = "success"
  <2> TAKE i \in 1..n
  <2>1. Among(good[i], good) BY <1>10 DEF Among
  <2> HIDE DEF SpanRow
  <2> QED BY <2>1, <1>2, <1>7, <1>10
<1>12. \A i \in 1..n : good[i].ms \in {Fast, Slow} BY <1>11 DEF SpanRow
<1>13. durations \in Seq({Fast, Slow}) /\ Len(durations) = n /\ DOMAIN durations = 1..n
  <2>1. durations \in [1..n -> {Fast, Slow}] BY <1>8, <1>10, <1>12
  <2> QED BY <2>1
<1>14. n <= 11 BY <1>4, <1>6, <1>10
<1>15. P95(durations) >= Slow <=> \E i \in 1..n : durations[i] = Slow
  <2>1. Len(durations) <= 11 BY <1>13, <1>14
  <2> QED BY <2>1, <1>13, PercentileIs
<1>16. (\E i \in 1..n : durations[i] = Slow) <=> \E x : Among(x, good) /\ x.ms = Slow
  BY <1>8, <1>10, <1>13 DEF Among
<1>17. (\E x : Among(x, good) /\ x.ms = Slow)
       <=> \E x : Among(x, rows) /\ x.part = "retrieve" /\ x.ms = Slow
  <2>1. ASSUME NEW x, Among(x, rows), x.ms = Slow PROVE x.status = "success"
    <3>1. x \in SpanRow
      <4> HIDE DEF SpanRow
      <4> QED BY <2>1 DEF Among
    <3> QED BY <2>1, <3>1, <1>1 DEF SpanRow, Statuses
  <2> QED BY <2>1, <1>5, <1>7
<1> QED BY <1>4, <1>9, <1>15, <1>16, <1>17 DEF Among

(* The places in the rows of what a part has in a state, and a numbering.  *)
StatePlaces(rows, part, state) ==
  {i \in DOMAIN rows : rows[i].part = part /\ InflightState(rows[i]) = state}

Numbers(f, rows, part, state) ==
  /\ \A n \in DOMAIN In(Of(rows, part), state) : f[n] \in StatePlaces(rows, part, state)
  /\ \A m, n \in DOMAIN In(Of(rows, part), state) : f[m] = f[n] => m = n
  /\ \A i \in StatePlaces(rows, part, state) : \E n \in DOMAIN In(Of(rows, part), state) : f[n] = i

(* The rows of a part in a state can be numbered by where they are in all  *)
(* the rows.                                                               *)
LEMMA StateNumbered ==
  ASSUME NEW T, NEW rows \in Seq(T), NEW part, NEW state
  PROVE  \E f : Numbers(f, rows, part, state)
<1>1. PICK first : first = {i \in DOMAIN rows : rows[i].part = part} OBVIOUS
<1>2. PICK mine : mine = Of(rows, part) OBVIOUS
<1>3. mine = Picked(rows, first) /\ first \in SUBSET DOMAIN rows BY <1>1, <1>2 DEF Of
<1>4. PICK there, k : there = Ascending(first) /\ k = Cardinality(first) OBVIOUS
<1>5. /\ mine \in Seq(T) /\ Len(mine) = k /\ k \in Nat
      /\ there \in [1..k -> first]
      /\ \A n \in 1..k : mine[n] = rows[there[n]]
      /\ \A m, n \in 1..k : m < n => there[m] < there[n]
      /\ \A i \in first : \E n \in 1..k : there[n] = i
  BY <1>3, <1>4, PickedIs
<1>6. DOMAIN mine = 1..k BY <1>5
<1>7. PICK second : second = {i \in DOMAIN mine : InflightState(mine[i]) = state} OBVIOUS
<1>8. PICK found : found = In(mine, state) OBVIOUS
<1>9. found = Picked(mine, second) /\ second \in SUBSET DOMAIN mine BY <1>7, <1>8 DEF In
<1>10. PICK here, l : here = Ascending(second) /\ l = Cardinality(second) OBVIOUS
<1>11. /\ found \in Seq(T) /\ Len(found) = l /\ l \in Nat
       /\ here \in [1..l -> second]
       /\ \A m, n \in 1..l : m < n => here[m] < here[n]
       /\ \A i \in second : \E n \in 1..l : here[n] = i
  <2>1. mine \in Seq(T) BY <1>5
  <2> QED BY <2>1, <1>9, <1>10, PickedIs
<1>12. DOMAIN found = 1..l BY <1>11
<1>13. PICK n0 \in Nat : DOMAIN rows = 1..n0 OBVIOUS
<1>14. \A m, n \in 1..k : there[m] = there[n] => m = n
  <2> TAKE m, n \in 1..k
  <2>1. there[m] \in 1..n0 /\ there[n] \in 1..n0 BY <1>3, <1>5, <1>13
  <2>2. m < n \/ n < m \/ m = n OBVIOUS
  <2> QED BY <2>1, <2>2, <1>5
<1>15. \A m, n \in 1..l : here[m] = here[n] => m = n
  <2> TAKE m, n \in 1..l
  <2>1. here[m] \in 1..k /\ here[n] \in 1..k BY <1>6, <1>9, <1>11
  <2>2. m < n \/ n < m \/ m = n OBVIOUS
  <2> QED BY <2>1, <2>2, <1>11
<1>16. PICK f : f = [n \in 1..l |-> there[here[n]]] OBVIOUS
<1>17. \A n \in 1..l : f[n] = there[here[n]] /\ here[n] \in 1..k /\ here[n] \in second
  BY <1>6, <1>9, <1>11, <1>16
<1>18. ASSUME NEW n \in 1..l PROVE f[n] \in StatePlaces(rows, part, state)
  <2>1. PICK h : h = here[n] OBVIOUS
  <2>2. f[n] = there[h] /\ h \in 1..k /\ h \in second BY <2>1, <1>17
  <2>3. there[h] \in first /\ mine[h] = rows[there[h]] BY <2>2, <1>5
  <2>4. InflightState(mine[h]) = state BY <2>2, <1>7
  <2> QED BY <2>2, <2>3, <2>4, <1>1 DEF StatePlaces
<1>19. ASSUME NEW i \in StatePlaces(rows, part, state) PROVE \E n \in 1..l : f[n] = i
  <2>1. i \in first BY <1>1 DEF StatePlaces
  <2>2. PICK h \in 1..k : there[h] = i BY <2>1, <1>5
  <2>3. mine[h] = rows[i] BY <2>2, <1>5
  <2>4. h \in second BY <2>2, <2>3, <1>6, <1>7 DEF StatePlaces
  <2>5. PICK n \in 1..l : here[n] = h BY <2>4, <1>11
  <2> QED BY <2>2, <2>5, <1>17
<1>20. \A m, n \in 1..l : f[m] = f[n] => m = n BY <1>14, <1>15, <1>17
<1>21. Numbers(f, rows, part, state)
  BY <1>2, <1>8, <1>12, <1>18, <1>19, <1>20 DEF Numbers
<1> QED BY <1>21

(* Every running operation is counted once, under its part and state.      *)
LEMMA CountedOnce ==
  ASSUME NEW T, NEW rows \in Seq(T),
         \A i \in DOMAIN rows : rows[i].part \in Parts /\ rows[i].status = "running"
  PROVE  Cardinality(UNION {UNION {{<<part, state, n>> : n \in DOMAIN In(Of(rows, part), state)} :
                                      state \in {"active", "stalled"}} : part \in Parts})
         = Len(rows)
<1> DEFINE States == {"active", "stalled"}
<1> DEFINE Own(part, state) == {<<part, state, n>> : n \in DOMAIN In(Of(rows, part), state)}
<1>1. PICK counted : counted = UNION {UNION {Own(part, state) : state \in States} : part \in Parts}
  OBVIOUS
<1>2. \A t : t \in counted <=> \E part \in Parts, state \in States :
                                 \E n \in DOMAIN In(Of(rows, part), state) : t = <<part, state, n>>
  BY <1>1
<1>3. PICK size \in Nat : size = Len(rows) /\ DOMAIN rows = 1..size OBVIOUS
<1> DEFINE number(part, state) == CHOOSE f : Numbers(f, rows, part, state)
<1>4. ASSUME NEW part, NEW state PROVE Numbers(number(part, state), rows, part, state)
  <2>1. \E f : Numbers(f, rows, part, state) BY StateNumbered
  <2> QED BY <2>1
<1> HIDE DEF number, Own
<1>5. PICK place : place = [t \in counted |-> number(t[1], t[2])[t[3]]] OBVIOUS
<1>6. ASSUME NEW t \in counted
      PROVE  /\ place[t] \in 1..size
             /\ t[1] = rows[place[t]].part /\ t[2] = InflightState(rows[place[t]])
             /\ t = <<t[1], t[2], t[3]>> /\ t[3] \in DOMAIN In(Of(rows, t[1]), t[2])
             /\ place[t] = number(t[1], t[2])[t[3]]
  <2>1. PICK part \in Parts, state \in States :
          \E n \in DOMAIN In(Of(rows, part), state) : t = <<part, state, n>>
    BY <1>2
  <2>2. PICK n \in DOMAIN In(Of(rows, part), state) : t = <<part, state, n>> BY <2>1
  <2>3. t[1] = part /\ t[2] = state /\ t[3] = n BY <2>2
  <2>4. place[t] = number(part, state)[n] BY <2>3, <1>5
  <2>5. place[t] \in StatePlaces(rows, part, state) BY <2>4, <1>4 DEF Numbers
  <2> QED BY <2>2, <2>3, <2>4, <2>5, <1>3 DEF StatePlaces
<1>7. ASSUME NEW t \in counted, NEW u \in counted, place[t] = place[u] PROVE t = u
  <2>1. t[1] = u[1] /\ t[2] = u[2] BY <1>6, <1>7
  <2>2. number(t[1], t[2])[t[3]] = number(t[1], t[2])[u[3]] BY <2>1, <1>6, <1>7
  <2>3. t[3] = u[3]
    <3>1. Numbers(number(t[1], t[2]), rows, t[1], t[2]) BY <1>4
    <3> QED BY <2>1, <2>2, <3>1, <1>6 DEF Numbers
  <2> QED BY <2>1, <2>3, <1>6
<1>8. ASSUME NEW i \in 1..size PROVE \E t \in counted : place[t] = i
  <2>1. PICK part, state : part = rows[i].part /\ state = InflightState(rows[i]) OBVIOUS
  <2>2. part \in Parts /\ state \in States BY <2>1, <1>3 DEF InflightState
  <2>3. i \in StatePlaces(rows, part, state) BY <2>1, <1>3 DEF StatePlaces
  <2>4. PICK n \in DOMAIN In(Of(rows, part), state) : number(part, state)[n] = i
    BY <2>3, <1>4 DEF Numbers
  <2>5. PICK t : t = <<part, state, n>> OBVIOUS
  <2>6. t \in counted BY <2>2, <2>5, <1>2
  <2>7. t[1] = part /\ t[2] = state /\ t[3] = n BY <2>5
  <2> QED BY <2>4, <2>6, <2>7, <1>5
<1>9. place \in [counted -> 1..size] BY <1>5, <1>6
<1>10. place \in Bijection(counted, 1..size)
  <2>1. place \in Injection(counted, 1..size) BY <1>7, <1>9 DEF Injection, IsInjective
  <2>2. place \in Surjection(counted, 1..size) BY <1>8, <1>9 DEF Surjection
  <2> QED BY <2>1, <2>2 DEF Bijection
<1>11. ExistsBijection(1..size, counted)
  <2>1. ExistsBijection(counted, 1..size) BY <1>10 DEF ExistsBijection
  <2> QED BY <2>1, Fun_ExistsBijSymmetric
<1>12. IsFiniteSet(1..size) /\ Cardinality(1..size) = size
  <2>1. size \in Int /\ 1 \in Int OBVIOUS
  <2>2. IsFiniteSet(1..size) /\ Cardinality(1..size) = IF 1 > size THEN 0 ELSE size - 1 + 1
    BY <2>1, FS_Interval
  <2> QED BY <2>2
<1>13. Cardinality(counted) = size BY <1>11, <1>12, FS_Bijection
<1> QED BY <1>1, <1>3, <1>13 DEF Own

RunningRow == {row \in SpanRow : row.status = "running"}

(* A row on the page is that of a span, as it was when it was read.        *)
FromSpan(row) == \E i \in DOMAIN spans : spans[i].part = row.part /\ spans[i].start = row.start

(* The page has of a part just the operations that run. *)
Told(part) ==
  \A x : x.part = part => (Among(x, page.running) <=> Among(x, spans) /\ x.status = "running")

Steps == {"none", "recent", "running", "health", "shown"}

OverviewInv ==
  /\ now \in Nat /\ spans \in Seq(SpanRow) /\ held \in SUBSET Nat
  /\ DOMAIN page = DOMAIN NoPage /\ page.step \in Steps
  /\ page.rows \in Seq(SpanRow)
  /\ \A row : Among(row, page.rows) => FromSpan(row)
  /\ page.running \in Seq(RunningRow)
  /\ page.step \in {"running", "health", "shown"} /\ ~page.cut =>
       \A part \in Parts \ page.changed : Told(part)
  /\ page.step \in {"health", "shown"} /\ ~page.cut =>
       \A part \in Parts \ page.changed :
         PartStatus(part, page.rows, page.running) = "stalled" => page.health # "ok"
  /\ /\ page.step \in {"health", "shown"} /\ "rustfs_event_queue" \notin page.changed
     /\ QueueStatus(backlog, held) # "healthy"
     => page.health # "ok"
  /\ page.step = "shown" => page.workers = RunningRows

(* The running rows that are read. *)
LEMMA RunningRowsAre ==
  ASSUME spans \in Seq(SpanRow)
  PROVE  /\ RunningRows \in Seq(RunningRow)
         /\ \A x : Among(x, RunningRows) => Among(x, spans) /\ x.status = "running"
         /\ ~Overflow => \A x : Among(x, spans) /\ x.status = "running" => Among(x, RunningRows)
<1>1. PICK T : T = SpanRow OBVIOUS
<1>2. spans \in Seq(T) BY <1>1
<1>3. RunningLimit \in Nat BY OverviewAssumption
<1>4. PICK live : live = With(spans, "running") OBVIOUS
<1>5. /\ live \in Seq(T)
      /\ \A x : Among(x, live) <=> Among(x, spans) /\ x.status = "running"
  BY <1>2, <1>4, WithIs
<1>6. PICK rows : rows = RunningRows OBVIOUS
<1>7. rows = Newest(live, RunningLimit) BY <1>4, <1>6 DEF RunningRows
<1>8. /\ rows \in Seq(T)
      /\ \A x : Among(x, rows) => Among(x, live)
      /\ Len(live) <= RunningLimit => \A x : Among(x, live) => Among(x, rows)
  BY <1>3, <1>5, <1>7, NewestAre
<1>9. rows \in Seq(RunningRow)
  <2>1. PICK n \in Nat : n = Len(rows) /\ DOMAIN rows = 1..n BY <1>8
  <2>2. \A i \in 1..n : rows[i] \in RunningRow
    <3> TAKE i \in 1..n
    <3>1. Among(rows[i], rows) BY <2>1 DEF Among
    <3>2. rows[i].status = "running" BY <3>1, <1>5, <1>8
    <3>3. rows[i] \in SpanRow
      <4> HIDE DEF SpanRow
      <4> QED BY <2>1, <1>1, <1>8
    <3> HIDE DEF SpanRow
    <3> QED BY <3>2, <3>3 DEF RunningRow
  <2>3. rows = [i \in 1..n |-> rows[i]]
    <3> HIDE DEF SpanRow
    <3> QED BY <2>1, <1>8
  <2>4. rows \in [1..n -> RunningRow]
    <3> HIDE DEF RunningRow
    <3> QED BY <2>2, <2>3
  <2> HIDE DEF RunningRow
  <2> QED BY <2>4
<1>10. ~Overflow => Len(live) <= RunningLimit
  <2>1. Len(live) \in Nat BY <1>5
  <2> QED BY <2>1, <1>3, <1>4 DEF Overflow
<1> QED BY <1>5, <1>6, <1>8, <1>9, <1>10

(* The recent rows that are read. *)
LEMMA RecentRowsAre ==
  ASSUME spans \in Seq(SpanRow), NEW window
  PROVE  /\ RecentRows(window) \in Seq(SpanRow)
         /\ \A x : Among(x, RecentRows(window)) => Among(x, spans)
<1>1. PICK T : T = SpanRow OBVIOUS
<1>2. spans \in Seq(T) /\ RecentLimit \in Nat BY <1>1, OverviewAssumption
<1>3. PICK newest : newest = Newest(spans, RecentLimit) OBVIOUS
<1>4. /\ newest \in Seq(T)
      /\ \A x : Among(x, newest) => Among(x, spans)
  BY <1>2, <1>3, NewestAre
<1>5. PICK rows : rows = RecentItems(newest, window) OBVIOUS
<1>6. /\ rows \in Seq(T)
      /\ \A x : Among(x, rows) => Among(x, newest)
  BY <1>4, <1>5, RecentItemsIs
<1>7. rows = RecentRows(window) BY <1>3, <1>5 DEF RecentRows
<1> HIDE DEF SpanRow
<1> QED BY <1>1, <1>4, <1>6, <1>7

(* What a part's status says of the operations that run.                   *)
LEMMA StatusIs ==
  ASSUME NEW T, NEW running \in Seq(T), NEW part, NEW rows
  PROVE  /\ PartStatus(part, rows, running) = "active"
            <=> \E x : Among(x, running) /\ x.part = part /\ InflightState(x) = "active"
         /\ PartStatus(part, rows, running) = "stalled"
            <=> /\ \E x : Among(x, running) /\ x.part = part /\ InflightState(x) = "stalled"
                /\ ~\E x : Among(x, running) /\ x.part = part /\ InflightState(x) = "active"
<1>1. PICK live : live = Of(running, part) OBVIOUS
<1>2. live \in Seq(T) /\ \A x : Among(x, live) <=> Among(x, running) /\ x.part = part
  BY <1>1, OfIs
<1>3. PICK works, hangs : works = In(live, "active") /\ hangs = In(live, "stalled") OBVIOUS
<1>4. works \in Seq(T) /\ \A x : Among(x, works) <=> Among(x, live) /\ InflightState(x) = "active"
  BY <1>2, <1>3, InIs
<1>5. hangs \in Seq(T) /\ \A x : Among(x, hangs) <=> Among(x, live) /\ InflightState(x) = "stalled"
  BY <1>2, <1>3, InIs
<1>6. works = <<>> <=> \A x : ~Among(x, works) BY <1>4, NothingAmong
<1>7. hangs = <<>> <=> \A x : ~Among(x, hangs) BY <1>5, NothingAmong
<1>8. /\ PartStatus(part, rows, running) = "active" <=> works # <<>>
      /\ PartStatus(part, rows, running) = "stalled" <=> hangs # <<>> /\ works = <<>>
  BY <1>1, <1>3 DEF PartStatus
<1> QED BY <1>2, <1>4, <1>5, <1>6, <1>7, <1>8

-----------------------------------------------------------------------------
(* Before the first page there are no spans.                               *)
LEMMA OverviewStarts == OverviewInit => OverviewInv
<1> SUFFICES ASSUME OverviewInit PROVE OverviewInv OBVIOUS
<1>1. page = NoPage /\ spans = <<>> /\ now = 0 /\ held = {} BY DEF OverviewInit
<1>2. <<>> \in Seq(SpanRow) /\ <<>> \in Seq(RunningRow)
  <2> HIDE DEF SpanRow, RunningRow
  <2> QED OBVIOUS
<1>3. \A row : ~Among(row, <<>>) BY DEF Among
<1>4. page.rows = <<>> /\ page.running = <<>> /\ page.step = "none" BY <1>1 DEF NoPage
<1> QED BY <1>1, <1>2, <1>3, <1>4 DEF OverviewInv, Steps

(* A page that is not begun says nothing. *)
LEMMA NewPageKeeps ==
  ASSUME OverviewInv, now' \in Nat, spans' \in Seq(SpanRow), held' \in SUBSET Nat,
         page' = NoPage
  PROVE  OverviewInv'
<1>1. <<>> \in Seq(SpanRow) /\ <<>> \in Seq(RunningRow)
  <2> HIDE DEF SpanRow, RunningRow
  <2> QED OBVIOUS
<1>2. \A row : ~Among(row, <<>>) BY DEF Among
<1>3. page'.rows = <<>> /\ page'.running = <<>> /\ page'.step = "none"
        /\ DOMAIN page' = DOMAIN NoPage
  BY DEF NoPage
<1>4. \A row : ~Among(row, page.rows)' BY <1>2, <1>3 DEF Among
<1>5. spans' \in Seq(SpanRow)' /\ page'.rows \in Seq(SpanRow)' /\ page'.running \in Seq(RunningRow)'
  BY <1>1, <1>3 DEF SpanRow, RunningRow
<1> QED BY <1>3, <1>4, <1>5 DEF OverviewInv, Steps

(* Something changes while the page is put together: the page still tells  *)
(* of what has not.                                                        *)
LEMMA ChangesKeep ==
  ASSUME OverviewInv, NEW what, Changes(what), now' = now,
         spans' \in Seq(SpanRow), held' \in SUBSET Nat,
         \A row : FromSpan(row) => FromSpan(row)',
         \A x : x.part # what => (Among(x, spans)' <=> Among(x, spans)),
         what # "rustfs_event_queue" => backlog' = backlog /\ held' = held
  PROVE  OverviewInv'
<1>1. CASE ~Building
  <2>1. page' = NoPage BY <1>1 DEF Changes
  <2>2. now' \in Nat BY DEF OverviewInv
  <2> QED BY <2>1, <2>2, NewPageKeeps
<1>2. CASE Building
  <2>1. page' = [page EXCEPT !.changed = @ \cup {what}, !.meanwhile = @ + 1]
    BY <1>2 DEF Changes
  <2>2. DOMAIN page = DOMAIN NoPage BY DEF OverviewInv
  <2>3. /\ page'.step = page.step /\ page'.rows = page.rows /\ page'.running = page.running
        /\ page'.changed = page.changed \cup {what} /\ DOMAIN page' = DOMAIN NoPage
        /\ page'.cut = page.cut /\ page'.health = page.health
    BY <2>1, <2>2 DEF NoPage
  <2>4. page'.step # "shown" BY <2>3, <1>2 DEF Building
  <2>5. \A row : Among(row, page.rows)' => FromSpan(row)'
    <3>1. \A row : Among(row, page.rows)' => Among(row, page.rows) BY <2>3 DEF Among
    <3> QED BY <3>1 DEF OverviewInv
  <2>6. SpanRow' = SpanRow /\ RunningRow' = RunningRow BY DEF SpanRow, RunningRow
  <2>7. ASSUME NEW part \in Parts \ page'.changed, Told(part) PROVE Told(part)'
    <3>1. part # what BY <2>3
    <3>2. \A x : Among(x, page.running)' <=> Among(x, page.running) BY <2>3 DEF Among
    <3> QED BY <3>1, <3>2, <2>7 DEF Told
  <2>8. \A part : PartStatus(part, page.rows, page.running)'
          = PartStatus(part, page.rows, page.running)
    BY <2>3 DEF PartStatus, In, Of, With, InflightState
  <2>9. "rustfs_event_queue" \notin page'.changed =>
          QueueStatus(backlog, held)' = QueueStatus(backlog, held)
    BY <2>3 DEF QueueStatus
  <2>10. page'.changed = page.changed \cup {what} BY <2>3
  <2>11. /\ now' \in Nat /\ spans' \in Seq(SpanRow)' /\ page'.rows \in Seq(SpanRow)'
         /\ page'.running \in Seq(RunningRow)' /\ page'.step \in Steps
    BY <2>3, <2>6 DEF OverviewInv
  <2>12. page'.step \in {"running", "health", "shown"} /\ ~page'.cut =>
           \A part \in Parts \ page'.changed : Told(part)'
    BY <2>3, <2>7 DEF OverviewInv
  <2>13. page'.step \in {"health", "shown"} /\ ~page'.cut =>
           \A part \in Parts \ page'.changed :
             PartStatus(part, page.rows, page.running)' = "stalled" => page'.health # "ok"
    BY <2>3, <2>8 DEF OverviewInv
  <2>14. /\ page'.step \in {"health", "shown"} /\ "rustfs_event_queue" \notin page'.changed
         /\ QueueStatus(backlog, held)' # "healthy"
         => page'.health # "ok"
    BY <2>3, <2>9 DEF OverviewInv
  <2> QED BY <2>3, <2>4, <2>5, <2>11, <2>12, <2>13, <2>14 DEF OverviewInv
<1> QED BY <1>1, <1>2

(* An operation begins.                                                    *)
LEMMA StartsKeeps ==
  ASSUME OverviewInv, NEW kind \in Kinds, Starts(kind[1], kind[2])
  PROVE  OverviewInv'
<1>1. PICK row : row = [part |-> kind[1], kb |-> kind[2], start |-> now,
                        status |-> "running", ms |-> 0]
  OBVIOUS
<1>2. /\ spans' = Append(spans, row) /\ Changes(kind[1]) /\ now' = now
      /\ backlog' = backlog /\ held' = held
  BY <1>1 DEF Starts
<1>3. row \in SpanRow
  <2>1. now \in Nat /\ 0 \in Nat /\ kind[1] \in Parts BY OverviewAssumption DEF OverviewInv
  <2> QED BY <1>1, <2>1 DEF SpanRow, Statuses
<1>4. /\ spans' \in Seq(SpanRow) /\ DOMAIN spans' = DOMAIN spans \cup {Len(spans) + 1}
      /\ \A i \in DOMAIN spans : i \in DOMAIN spans' /\ spans'[i] = spans[i]
      /\ spans'[Len(spans) + 1] = row
  <2>1. spans \in Seq(SpanRow) BY DEF OverviewInv
  <2> HIDE DEF SpanRow
  <2>2. spans' \in Seq(SpanRow) BY <1>2, <1>3, <2>1
  <2> QED BY <1>2, <1>3, <2>1, <2>2
<1>5. \A x : x.part # kind[1] => (Among(x, spans)' <=> Among(x, spans))
  <2>1. row.part = kind[1] BY <1>1
  <2> QED BY <2>1, <1>4 DEF Among
<1>6. \A x : FromSpan(x) => FromSpan(x)' BY <1>4 DEF FromSpan
<1>7. held' \in SUBSET Nat BY <1>2 DEF OverviewInv
<1> QED BY <1>2, <1>4, <1>5, <1>6, <1>7, ChangesKeep

(* An operation ends, well or not.                                         *)
LEMMA FinishesKeeps ==
  ASSUME OverviewInv, NEW i \in DOMAIN spans, NEW status, NEW ms, Finishes(i, status, ms),
         \/ status = "failed" /\ ms = Fast
         \/ status = "success" /\ ms \in {Fast, Slow}
  PROVE  OverviewInv'
<1>1. /\ spans' = [spans EXCEPT ![i].status = status, ![i].ms = ms]
      /\ Changes(spans[i].part) /\ now' = now /\ backlog' = backlog /\ held' = held
  BY DEF Finishes
<1>2. spans \in Seq(SpanRow) /\ spans[i] \in SpanRow
  <2> HIDE DEF SpanRow
  <2> QED BY DEF OverviewInv
<1>3. PICK row : row = [spans[i] EXCEPT !.status = status, !.ms = ms] OBVIOUS
<1>4. row \in SpanRow /\ row.part = spans[i].part /\ row.start = spans[i].start
  <2>1. ms \in Nat /\ status \in Statuses BY OverviewAssumption DEF Statuses
  <2>2. DOMAIN spans[i] = {"part", "kb", "start", "status", "ms"} BY <1>2 DEF SpanRow
  <2>3. /\ row.part = spans[i].part /\ row.kb = spans[i].kb /\ row.start = spans[i].start
        /\ row.status = status /\ row.ms = ms
    BY <1>3, <2>2
  <2>4. row = [part |-> spans[i].part, kb |-> spans[i].kb, start |-> spans[i].start,
               status |-> status, ms |-> ms]
    BY <1>2, <1>3 DEF SpanRow
  <2>5. spans[i].part \in Parts /\ spans[i].kb \in {kind[2] : kind \in Kinds}
          /\ spans[i].start \in Nat
    BY <1>2 DEF SpanRow
  <2>6. row \in [part : Parts, kb : {kind[2] : kind \in Kinds}, start : Nat,
                status : Statuses, ms : Nat]
    BY <2>1, <2>4, <2>5
  <2>7. /\ row.status = "running" => row.ms = 0
        /\ row.status = "failed" => row.ms = Fast
        /\ row.status = "success" => row.ms \in {Fast, Slow}
    BY <2>3
  <2> QED BY <2>3, <2>6, <2>7 DEF SpanRow
<1>5. spans' = [spans EXCEPT ![i] = row] BY <1>1, <1>2, <1>3
<1>6. /\ spans' \in Seq(SpanRow) /\ Len(spans') = Len(spans) /\ DOMAIN spans' = DOMAIN spans
      /\ \A j \in DOMAIN spans : spans'[j] = IF j = i THEN row ELSE spans[j]
  <2> HIDE DEF SpanRow
  <2> QED BY <1>2, <1>4, <1>5
<1>7. \A x : FromSpan(x) => FromSpan(x)' BY <1>4, <1>6 DEF FromSpan
<1>8. \A x : x.part # spans[i].part => (Among(x, spans)' <=> Among(x, spans))
  BY <1>4, <1>6 DEF Among
<1>9. held' \in SUBSET Nat BY <1>1 DEF OverviewInv
<1> QED BY <1>1, <1>6, <1>7, <1>8, <1>9, ChangesKeep

(* A step of the page or of the queue leaves the spans as they are.        *)
LEMMA SpansStay ==
  ASSUME spans' = spans, now' = now
  PROVE  /\ RunningRows' = RunningRows
         /\ \A row : FromSpan(row)' <=> FromSpan(row)
         /\ SpanRow' = SpanRow /\ RunningRow' = RunningRow
         /\ \A part, rows, running :
              PartStatus(part, rows, running)' = PartStatus(part, rows, running)
<1>1. RunningRows' = RunningRows BY DEF RunningRows, Newest, With
<1>2. \A row : FromSpan(row)' <=> FromSpan(row) BY DEF FromSpan
<1>3. SpanRow' = SpanRow /\ RunningRow' = RunningRow BY DEF SpanRow, RunningRow
<1>4. ASSUME NEW part, NEW rows, NEW running
      PROVE  PartStatus(part, rows, running)' = PartStatus(part, rows, running)
  BY DEF PartStatus, In, Of, With, InflightState
<1> QED BY <1>1, <1>2, <1>3, <1>4

(* The queue of events changes, and with it no span.                       *)
LEMMA QueueKeeps ==
  ASSUME OverviewInv, Changes("rustfs_event_queue"), now' = now, spans' = spans,
         held' \in SUBSET Nat
  PROVE  OverviewInv'
<1>1. spans' \in Seq(SpanRow) BY DEF OverviewInv
<1>2. \A row : FromSpan(row) => FromSpan(row)' BY DEF FromSpan
<1>3. \A x : Among(x, spans)' <=> Among(x, spans) BY DEF Among
<1>4. PICK what : what = "rustfs_event_queue" OBVIOUS
<1>5. Changes(what) BY <1>4
<1> QED BY <1>1, <1>2, <1>3, <1>4, <1>5, ChangesKeep

(* The page reads the recent spans.                                        *)
LEMMA ReadRecentKeeps == OverviewInv /\ ReadRecent => OverviewInv'
<1> SUFFICES ASSUME OverviewInv, ReadRecent PROVE OverviewInv' OBVIOUS
<1>1. PICK rows : rows = RecentRows(RecentWindow) OBVIOUS
<1>2. /\ page' = [NoPage EXCEPT !.step = "recent", !.rows = rows]
      /\ spans' = spans /\ now' = now /\ held' = held
  BY <1>1 DEF ReadRecent
<1>3. /\ page'.step = "recent" /\ page'.rows = rows /\ page'.running = <<>>
      /\ DOMAIN page' = DOMAIN NoPage
  BY <1>2 DEF NoPage
<1>4. spans \in Seq(SpanRow) BY DEF OverviewInv
<1>5. /\ rows \in Seq(SpanRow)
      /\ \A x : Among(x, rows) => Among(x, spans)
  BY <1>1, <1>4, RecentRowsAre
<1>6. \A row : Among(row, page.rows)' => FromSpan(row)'
  <2>1. \A x : Among(x, rows) => FromSpan(x) BY <1>5 DEF Among, FromSpan
  <2>2. \A x : Among(x, page.rows)' => Among(x, rows) BY <1>3 DEF Among
  <2> QED BY <2>1, <2>2, <1>2 DEF FromSpan
<1>7. <<>> \in Seq(RunningRow)
  <2> HIDE DEF RunningRow
  <2> QED OBVIOUS
<1>8. SpanRow' = SpanRow /\ RunningRow' = RunningRow BY DEF SpanRow, RunningRow
<1> QED BY <1>2, <1>3, <1>5, <1>6, <1>7, <1>8 DEF OverviewInv, Steps

(* The page reads the running spans: all of them, or it is cut.            *)
LEMMA ReadRunningKeeps == OverviewInv /\ ReadRunning => OverviewInv'
<1> SUFFICES ASSUME OverviewInv, ReadRunning PROVE OverviewInv' OBVIOUS
<1>1. /\ page' = [page EXCEPT !.step = "running", !.running = RunningRows, !.cut = Overflow]
      /\ spans' = spans /\ now' = now /\ held' = held
  BY DEF ReadRunning
<1>2. DOMAIN page = DOMAIN NoPage BY DEF OverviewInv
<1>3. /\ page'.step = "running" /\ page'.rows = page.rows /\ page'.running = RunningRows
      /\ page'.cut = Overflow /\ DOMAIN page' = DOMAIN NoPage
  BY <1>1, <1>2 DEF NoPage
<1>4. /\ RunningRows \in Seq(RunningRow)
      /\ \A x : Among(x, RunningRows) => Among(x, spans) /\ x.status = "running"
      /\ ~Overflow => \A x : Among(x, spans) /\ x.status = "running" => Among(x, RunningRows)
  BY RunningRowsAre DEF OverviewInv
<1>5. /\ RunningRows' = RunningRows /\ \A row : FromSpan(row)' <=> FromSpan(row)
      /\ SpanRow' = SpanRow /\ RunningRow' = RunningRow
  BY <1>1, SpansStay
<1>6. \A row : Among(row, page.rows)' => FromSpan(row)'
  <2>1. \A row : Among(row, page.rows)' => Among(row, page.rows) BY <1>3 DEF Among
  <2> QED BY <1>5, <2>1 DEF OverviewInv
<1>7. ASSUME ~Overflow, NEW part PROVE Told(part)'
  <2>1. \A x : Among(x, page.running)' <=> Among(x, RunningRows) BY <1>3 DEF Among
  <2>2. \A x : Among(x, spans)' <=> Among(x, spans) BY <1>1 DEF Among
  <2> QED BY <2>1, <2>2, <1>4, <1>7 DEF Told
<1> QED BY <1>1, <1>3, <1>4, <1>5, <1>6, <1>7 DEF OverviewInv, Steps

(* Of a part that has not changed, the health is read of the rows that the *)
(* page has.                                                               *)
LEMMA SameStatus ==
  ASSUME OverviewInv, ~Overflow, NEW part, Told(part), NEW rows,
         PartStatus(part, page.rows, page.running) = "stalled"
  PROVE  PartStatus(part, rows, RunningRows) = "stalled"
<1>1. /\ RunningRows \in Seq(RunningRow)
      /\ \A x : Among(x, RunningRows) => Among(x, spans) /\ x.status = "running"
      /\ \A x : Among(x, spans) /\ x.status = "running" => Among(x, RunningRows)
  BY RunningRowsAre DEF OverviewInv
<1>2. \A x : x.part = part => (Among(x, page.running) <=> Among(x, RunningRows))
  BY <1>1 DEF Told
<1>3. PICK old, new, mine : old = page.running /\ new = RunningRows /\ mine = page.rows OBVIOUS
<1>4. PICK T : T = RunningRow OBVIOUS
<1>5. old \in Seq(T) /\ new \in Seq(T) BY <1>1, <1>3, <1>4 DEF OverviewInv
<1>6. PartStatus(part, mine, old) = "stalled" BY <1>3
<1>7. /\ \E x : Among(x, old) /\ x.part = part /\ InflightState(x) = "stalled"
      /\ ~\E x : Among(x, old) /\ x.part = part /\ InflightState(x) = "active"
  BY <1>5, <1>6, StatusIs
<1>8. PartStatus(part, rows, new) = "stalled"
        <=> /\ \E x : Among(x, new) /\ x.part = part /\ InflightState(x) = "stalled"
            /\ ~\E x : Among(x, new) /\ x.part = part /\ InflightState(x) = "active"
  BY <1>5, StatusIs
<1>9. \A x : x.part = part => (Among(x, old) <=> Among(x, new)) BY <1>2, <1>3
<1>10. PartStatus(part, rows, new) = "stalled" BY <1>7, <1>8, <1>9
<1> QED BY <1>3, <1>10

(* The page reads the state of the parts, of the spans and events there    *)
(* are now.                                                                *)
LEMMA ReadHealthKeeps ==
  ASSUME OverviewInv, NEW answers \in BOOLEAN, NEW ready \in BOOLEAN, ReadHealth(answers, ready)
  PROVE  OverviewInv'
<1>1. PICK health : health = Health(answers, ready, RecentRows(HealthWindow), RunningRows,
                                    backlog, held)
  OBVIOUS
<1>2. /\ page' = [page EXCEPT !.step = "health", !.cut = @ \/ Overflow, !.health = health]
      /\ spans' = spans /\ now' = now /\ backlog' = backlog /\ held' = held
      /\ page.step = "running"
  BY <1>1 DEF ReadHealth
<1>3. DOMAIN page = DOMAIN NoPage BY DEF OverviewInv
<1>4. /\ page'.step = "health" /\ page'.rows = page.rows /\ page'.running = page.running
      /\ page'.health = health /\ page'.changed = page.changed /\ DOMAIN page' = DOMAIN NoPage
      /\ page'.cut = (page.cut \/ Overflow)
  BY <1>2, <1>3 DEF NoPage
<1>5. /\ RunningRows' = RunningRows /\ \A row : FromSpan(row)' <=> FromSpan(row)
      /\ SpanRow' = SpanRow /\ RunningRow' = RunningRow
  BY <1>2, SpansStay
<1>6. \A row : Among(row, page.rows)' => FromSpan(row)'
  <2>1. \A row : Among(row, page.rows)' => Among(row, page.rows) BY <1>4 DEF Among
  <2> QED BY <1>5, <2>1 DEF OverviewInv
<1>7. ASSUME ~page'.cut, NEW part \in Parts \ page.changed PROVE Told(part)
  BY <1>2, <1>4, <1>7 DEF OverviewInv
<1>8. ASSUME ~page'.cut, NEW part \in Parts \ page.changed,
             PartStatus(part, page.rows, page.running) = "stalled"
      PROVE  health # "ok"
  <2>1. ~Overflow /\ Told(part) BY <1>4, <1>7, <1>8
  <2>2. PartStatus(part, RecentRows(HealthWindow), RunningRows) = "stalled"
    BY <2>1, <1>8, SameStatus
  <2> QED BY <2>2, <1>1 DEF Health
<1>9. QueueStatus(backlog, held) # "healthy" => health # "ok" BY <1>1 DEF Health
<1>10. QueueStatus(backlog, held)' = QueueStatus(backlog, held) BY <1>2, SMTT(30) DEF QueueStatus
<1>11. \A part : PartStatus(part, page.rows, page.running)'
        = PartStatus(part, page.rows, page.running)
  BY <1>2, <1>4 DEF PartStatus, In, Of, With, InflightState
<1>12. \A part : Told(part) => Told(part)' BY <1>2, <1>4 DEF Told, Among
<1>13. ~page'.cut => \A part \in Parts \ page'.changed : Told(part)' BY <1>4, <1>7, <1>12
<1>14. ~page'.cut => \A part \in Parts \ page'.changed :
         PartStatus(part, page.rows, page.running)' = "stalled" => page'.health # "ok"
  BY <1>4, <1>8, <1>11
<1>15. QueueStatus(backlog, held)' # "healthy" => page'.health # "ok" BY <1>4, <1>9, <1>10
<1> QED BY <1>2, <1>4, <1>5, <1>6, <1>13, <1>14, <1>15 DEF OverviewInv, Steps

(* The page adds its alerts, of the spans there are now.                   *)
LEMMA ReadAlertsKeeps == OverviewInv /\ ReadAlerts => OverviewInv'
<1> SUFFICES ASSUME OverviewInv, ReadAlerts PROVE OverviewInv' OBVIOUS
<1>1. /\ page' = [page EXCEPT !.step = "shown", !.queued = backlog, !.workers = RunningRows]
      /\ spans' = spans /\ now' = now /\ page.step = "health"
      /\ backlog' = backlog /\ held' = held
  BY DEF ReadAlerts
<1>2. DOMAIN page = DOMAIN NoPage BY DEF OverviewInv
<1>3. /\ page'.step = "shown" /\ page'.rows = page.rows /\ page'.running = page.running
      /\ page'.health = page.health /\ page'.changed = page.changed /\ DOMAIN page' = DOMAIN NoPage
      /\ page'.cut = page.cut /\ page'.workers = RunningRows
  BY <1>1, <1>2 DEF NoPage
<1>4. /\ RunningRows' = RunningRows /\ \A row : FromSpan(row)' <=> FromSpan(row)
      /\ SpanRow' = SpanRow /\ RunningRow' = RunningRow
  BY <1>1, SpansStay
<1>5. \A row : Among(row, page.rows)' => FromSpan(row)'
  <2>1. \A row : Among(row, page.rows)' => Among(row, page.rows) BY <1>3, SMTT(30) DEF Among
  <2> QED BY <1>4, <2>1 DEF OverviewInv
<1>6. \A part : PartStatus(part, page.rows, page.running)'
        = PartStatus(part, page.rows, page.running)
  BY <1>1, <1>3 DEF PartStatus, In, Of, With, InflightState
<1>7. QueueStatus(backlog, held)' = QueueStatus(backlog, held) BY <1>1 DEF QueueStatus
<1>8. \A part : Told(part) => Told(part)' BY <1>1, <1>3 DEF Told, Among
<1>9. ~page'.cut => \A part \in Parts \ page'.changed : Told(part)'
  BY <1>1, <1>3, <1>8 DEF OverviewInv
<1>10. ~page'.cut => \A part \in Parts \ page'.changed :
         PartStatus(part, page.rows, page.running)' = "stalled" => page'.health # "ok"
  BY <1>1, <1>3, <1>6 DEF OverviewInv
<1>11. "rustfs_event_queue" \notin page'.changed /\ QueueStatus(backlog, held)' # "healthy"
       => page'.health # "ok"
  BY <1>1, <1>3, <1>7 DEF OverviewInv
<1> QED BY <1>1, <1>3, <1>4, <1>5, <1>9, <1>10, <1>11 DEF OverviewInv, Steps

(* Every step of the page and of the operations keeps the invariant.       *)
LEMMA OverviewInductive == OverviewInv /\ [OverviewNext]_overviewVars => OverviewInv'
<1> SUFFICES ASSUME OverviewInv, [OverviewNext]_overviewVars PROVE OverviewInv' OBVIOUS
<1>1. ASSUME NEW kind \in Kinds, Starts(kind[1], kind[2]) PROVE OverviewInv' BY <1>1, StartsKeeps
<1>2. ASSUME NEW i \in DOMAIN spans, Finishes(i, "failed", Fast) PROVE OverviewInv'
  BY <1>2, FinishesKeeps
<1>3. ASSUME NEW i \in DOMAIN spans, NEW ms \in {Fast, Slow}, Finishes(i, "success", ms)
      PROVE  OverviewInv'
  BY <1>3, FinishesKeeps
<1>4. CASE TimePasses \/ QueryFails
  <2>1. /\ now' = now \/ now' = now + 1
        /\ page' = NoPage /\ spans' = spans /\ held' = held
    BY <1>4 DEF TimePasses, QueryFails
  <2>2. now' \in Nat /\ spans' \in Seq(SpanRow) /\ held' \in SUBSET Nat BY <2>1 DEF OverviewInv
  <2> QED BY <2>1, <2>2, NewPageKeeps
<1>5. ASSUME NEW n \in Backlogs, BacklogBecomes(n) PROVE OverviewInv'
  <2>1. Changes("rustfs_event_queue") /\ now' = now /\ spans' = spans /\ held' = held
    BY <1>5 DEF BacklogBecomes
  <2>2. held' \in SUBSET Nat BY <2>1 DEF OverviewInv
  <2> QED BY <2>1, <2>2, QueueKeeps
<1>6. CASE EventUpdated
  <2>1. Changes("rustfs_event_queue") /\ now' = now /\ spans' = spans BY <1>6 DEF EventUpdated
  <2>2. held' \in SUBSET Nat BY <1>6 DEF EventUpdated, OverviewInv
  <2> QED BY <2>1, <2>2, QueueKeeps
<1>7. ASSUME NEW t \in held, EventLeaves(t) PROVE OverviewInv'
  <2>1. Changes("rustfs_event_queue") /\ now' = now /\ spans' = spans BY <1>7 DEF EventLeaves
  <2>2. held' \in SUBSET Nat BY <1>7 DEF EventLeaves, OverviewInv
  <2> QED BY <2>1, <2>2, QueueKeeps
<1>8. CASE UNCHANGED overviewVars
  <2>1. spans' = spans /\ now' = now /\ page' = page /\ backlog' = backlog /\ held' = held
    BY <1>8 DEF overviewVars
  <2>2. /\ RunningRows' = RunningRows /\ \A row : FromSpan(row)' <=> FromSpan(row)
        /\ SpanRow' = SpanRow /\ RunningRow' = RunningRow
    BY <2>1, SpansStay
  <2>3. \A row : Among(row, page.rows)' <=> Among(row, page.rows) BY <2>1 DEF Among
  <2>4. \A part : PartStatus(part, page.rows, page.running)'
          = PartStatus(part, page.rows, page.running)
    BY <2>1 DEF PartStatus, In, Of, With, InflightState
  <2>5. QueueStatus(backlog, held)' = QueueStatus(backlog, held) BY <2>1 DEF QueueStatus
  <2>6. \A part : Told(part)' <=> Told(part) BY <2>1 DEF Told, Among
  <2> QED BY <2>1, <2>2, <2>3, <2>4, <2>5, <2>6 DEF OverviewInv
<1> QED BY <1>1, <1>2, <1>3, <1>4, <1>5, <1>6, <1>7, <1>8, ReadRecentKeeps, ReadRunningKeeps,
           ReadHealthKeeps, ReadAlertsKeeps DEF OverviewNext

(* A running row is fresh just when it does not hang. *)
LEMMA FreshOrHangs ==
  ASSUME OverviewInv, NEW row \in RunningRow
  PROVE  /\ InflightState(row) = "active" <=> row.start >= now - ActiveAge
         /\ InflightState(row) = "stalled" <=> ~(row.start >= now - ActiveAge)
<1>1. row.status = "running" /\ row.start \in Int BY DEF RunningRow, SpanRow
<1>2. now \in Int /\ ActiveAge \in Int BY OverviewAssumption DEF OverviewInv
<1>3. now - row.start > ActiveAge <=> ~(row.start >= now - ActiveAge) BY <1>1, <1>2
<1> QED BY <1>1, <1>3 DEF InflightState

(* Of a part that nothing happens to meanwhile. *)
LEMMA StatusTold ==
  ASSUME OverviewInv, page.step = "shown", ~page.cut, NEW part \in Parts \ page.changed
  PROVE  LET runs  == {i \in DOMAIN spans : spans[i].part = part /\ spans[i].status = "running"}
             fresh == {i \in runs : spans[i].start >= now - ActiveAge}
             shown == PartStatus(part, page.rows, page.running)
         IN /\ shown = "active" <=> fresh # {}
            /\ shown = "stalled" <=> runs # {} /\ fresh = {}
            /\ shown = "stalled" => page.health # "ok"
<1> DEFINE runs == {i \in DOMAIN spans : spans[i].part = part /\ spans[i].status = "running"}
<1> DEFINE fresh == {i \in runs : spans[i].start >= now - ActiveAge}
<1>1. PICK running : running = page.running OBVIOUS
<1>2. running \in Seq(RunningRow) BY <1>1 DEF OverviewInv
<1>3. \A x : x.part = part => (Among(x, running) <=> Among(x, spans) /\ x.status = "running")
  BY <1>1 DEF OverviewInv, Told
<1>4. \A x : Among(x, running) => x \in RunningRow
  <2>1. PICK T : T = RunningRow OBVIOUS
  <2>2. running \in Seq(T) BY <1>2, <2>1
  <2> HIDE DEF RunningRow
  <2> QED BY <2>1, <2>2, NothingAmong
<1>5. /\ PartStatus(part, page.rows, running) = "active"
         <=> \E x : Among(x, running) /\ x.part = part /\ InflightState(x) = "active"
      /\ PartStatus(part, page.rows, running) = "stalled"
         <=> /\ \E x : Among(x, running) /\ x.part = part /\ InflightState(x) = "stalled"
             /\ ~\E x : Among(x, running) /\ x.part = part /\ InflightState(x) = "active"
  BY <1>2, StatusIs
<1>6. \A x : Among(x, running) => /\ InflightState(x) = "active" <=> x.start >= now - ActiveAge
                                  /\ InflightState(x) = "stalled" <=> ~(x.start >= now - ActiveAge)
  BY <1>4, FreshOrHangs
<1>7. (\E x : Among(x, running) /\ x.part = part /\ InflightState(x) = "active") <=> fresh # {}
  <2>1. ASSUME NEW x, Among(x, running), x.part = part, InflightState(x) = "active"
        PROVE  fresh # {}
    <3>1. x.status = "running" /\ Among(x, spans) BY <2>1, <1>3
    <3>2. PICK i \in DOMAIN spans : spans[i] = x BY <3>1 DEF Among
    <3>3. i \in fresh BY <2>1, <3>1, <3>2, <1>6
    <3> QED BY <3>3
  <2>2. ASSUME NEW i \in fresh
        PROVE  \E x : Among(x, running) /\ x.part = part /\ InflightState(x) = "active"
    <3>1. Among(spans[i], spans) /\ spans[i].status = "running" BY DEF Among
    <3>2. Among(spans[i], running) BY <3>1, <1>3
    <3> QED BY <3>2, <1>6
  <2> QED BY <2>1, <2>2
<1>8. (\E x : Among(x, running) /\ x.part = part) <=> runs # {}
  <2>1. ASSUME NEW x, Among(x, running), x.part = part PROVE runs # {}
    <3>1. x.status = "running" /\ Among(x, spans) BY <2>1, <1>3
    <3>2. PICK i \in DOMAIN spans : spans[i] = x BY <3>1 DEF Among
    <3>3. i \in runs BY <2>1, <3>1, <3>2
    <3> QED BY <3>3
  <2>2. ASSUME NEW i \in runs PROVE \E x : Among(x, running) /\ x.part = part
    <3>1. Among(spans[i], spans) /\ spans[i].status = "running" BY DEF Among
    <3>2. Among(spans[i], running) BY <3>1, <1>3
    <3> QED BY <3>2
  <2> QED BY <2>1, <2>2
<1>9. PartStatus(part, page.rows, page.running) = "active" <=> fresh # {}
  BY <1>1, <1>5, <1>7
<1>10. PartStatus(part, page.rows, page.running) = "stalled" <=> runs # {} /\ fresh = {}
  <2>1. (\E x : Among(x, running) /\ x.part = part /\ InflightState(x) = "stalled")
        <=> \E x : Among(x, running) /\ x.part = part /\ InflightState(x) # "active"
    BY <1>6
  <2> HIDE DEF runs, fresh
  <2> QED BY <2>1, <1>1, <1>5, <1>7, <1>8
<1>11. PartStatus(part, page.rows, page.running) = "stalled" => page.health # "ok"
  BY DEF OverviewInv
<1> QED BY <1>9, <1>10, <1>11

(* A queue that is too long, or of which an event hangs, all the while. *)
LEMMA QueueTold ==
  ASSUME OverviewInv, page.step = "shown", "rustfs_event_queue" \notin page.changed,
         backlog > CriticalQueue \/ \E t \in held : t < now - ActiveAge
  PROVE  page.health # "ok"
<1>1. QueueStatus(backlog, held) # "healthy" => page.health # "ok" BY DEF OverviewInv
<1>2. now \in Int /\ ActiveAge \in Int /\ \A t \in held : t \in Int
  BY OverviewAssumption DEF OverviewInv
<1>3. \A t \in held : t < now - ActiveAge => now - t > ActiveAge BY <1>2
<1>4. QueueStatus(backlog, held) # "healthy" BY <1>3 DEF QueueStatus
<1> QED BY <1>1, <1>4

(* A queue that no worker begins to work on.                               *)
LEMMA StallTold ==
  ASSUME OverviewInv, page.step = "shown", page.queued > 0,
         \A i \in DOMAIN spans : spans[i].part = "worker" => spans[i].start < now - ActiveAge
  PROVE  "worker_stalled" \in Alerts(page.rows, page.queued, page.workers)
<1>1. spans \in Seq(SpanRow) /\ page.rows \in Seq(SpanRow) BY DEF OverviewInv
<1>2. \A i \in DOMAIN spans : spans[i].start \in Int
  <2>1. \A i \in DOMAIN spans : spans[i] \in SpanRow
    <3> HIDE DEF SpanRow
    <3> QED BY <1>1
  <2> QED BY <2>1 DEF SpanRow
<1>3. PICK workers : workers = page.workers OBVIOUS
<1>4. /\ workers \in Seq(RunningRow)
      /\ \A x : Among(x, workers) => Among(x, spans) /\ x.status = "running"
  BY <1>1, <1>3, RunningRowsAre DEF OverviewInv
<1>5. PICK T : T = RunningRow OBVIOUS
<1>6. PICK live : live = Of(workers, "worker") OBVIOUS
<1>7. live \in Seq(T) /\ \A x : Among(x, live) <=> Among(x, workers) /\ x.part = "worker"
  <2>1. workers \in Seq(T) BY <1>4, <1>5
  <2> QED BY <2>1, <1>6, OfIs
<1>8. PICK works : works = In(live, "active") OBVIOUS
<1>9. works \in Seq(T) /\ \A x : Among(x, works) <=> Among(x, live) /\ InflightState(x) = "active"
  BY <1>7, <1>8, InIs
<1>10. works = <<>>
  <2>1. ASSUME NEW x, Among(x, works) PROVE FALSE
    <3>1. Among(x, workers) /\ x.part = "worker" /\ InflightState(x) = "active"
      BY <2>1, <1>7, <1>9
    <3>2. PICK i \in DOMAIN spans : spans[i] = x BY <3>1, <1>4 DEF Among
    <3>3. x \in RunningRow
      <4>1. workers \in Seq(T) BY <1>4, <1>5
      <4>2. x \in T BY <4>1, <3>1, NothingAmong
      <4> QED BY <4>2, <1>5
    <3>4. x.start >= now - ActiveAge BY <3>1, <3>3, FreshOrHangs
    <3>5. x.start < now - ActiveAge /\ x.start \in Int BY <3>1, <3>2, <1>2
    <3>6. now - ActiveAge \in Int BY OverviewAssumption DEF OverviewInv
    <3> QED BY <3>4, <3>5, <3>6
  <2> QED BY <2>1, <1>9, NothingAmong
<1>11. PICK U : U = SpanRow OBVIOUS
<1>12. PICK mine, done : mine = Of(page.rows, "worker") /\ done = With(mine, "success") OBVIOUS
<1>13. mine \in Seq(U) /\ \A x : Among(x, mine) <=> Among(x, page.rows) /\ x.part = "worker"
  <2>1. page.rows \in Seq(U) BY <1>1, <1>11
  <2> QED BY <2>1, <1>12, OfIs
<1>14. done \in Seq(U) /\ \A x : Among(x, done) <=> Among(x, mine) /\ x.status = "success"
  <2>1. mine \in Seq(U) /\ done = With(mine, "success") BY <1>12, <1>13
  <2> QED BY <2>1, WithIs
<1>15. done = <<>> \/ Head(done).start < now - ActiveAge
  <2> SUFFICES ASSUME done # <<>> PROVE Head(done).start < now - ActiveAge OBVIOUS
  <2>1. Among(Head(done), done) BY <1>14, NothingAmong
  <2>2. Among(Head(done), page.rows) /\ Head(done).part = "worker" BY <2>1, <1>13, <1>14
  <2>3. FromSpan(Head(done)) BY <2>2 DEF OverviewInv
  <2> QED BY <2>2, <2>3 DEF FromSpan
<1>16. WorkerStalled(page.rows, page.queued, page.workers)
  BY <1>3, <1>6, <1>8, <1>10, <1>12, <1>15 DEF WorkerStalled
<1> QED BY <1>16 DEF Alerts

(* The alert for slow reads is there when one of the reads was slow.       *)
LEMMA SlowTold ==
  ASSUME OverviewInv, NEW queued, NEW workers,
         Len(With(Of(page.rows, "retrieve"), "success")) <= 11
  PROVE  "retrieve_latency_high" \in Alerts(page.rows, queued, workers)
         <=> \E i \in DOMAIN page.rows : page.rows[i].part = "retrieve" /\ page.rows[i].ms = Slow
<1>1. page.rows \in Seq(SpanRow) BY DEF OverviewInv
<1>2. "retrieve_latency_high" \in Alerts(page.rows, queued, workers)
      <=> Latency(Of(page.rows, "retrieve")) >= Slow
  BY DEF Alerts
<1> QED BY <1>1, <1>2, SlowOneReported

(* A knowledge base at work is listed before one that rests.               *)
LEMMA WorkFirst ==
  ASSUME OverviewInv, NEW a, NEW b,
         {i \in DOMAIN page.running : page.running[i].kb = a
                                      /\ page.running[i].start >= now - ActiveAge} # {},
         {i \in DOMAIN page.running : page.running[i].kb = b
                                      /\ page.running[i].start >= now - ActiveAge} = {}
  PROVE  Before(KBKey(a, page.rows, page.running), KBKey(b, page.rows, page.running))
<1>1. PICK T : T = RunningRow OBVIOUS
<1>2. PICK running : running = page.running OBVIOUS
<1>3. running \in Seq(T) BY <1>1, <1>2 DEF OverviewInv
<1>4. ASSUME NEW kb
      PROVE  /\ Len(In(AtPlace(running, kb), "active")) \in Nat
             /\ Len(In(AtPlace(running, kb), "active")) > 0
                <=> \E i \in DOMAIN running :
                      running[i].kb = kb /\ running[i].start >= now - ActiveAge
  <2>1. PICK there : there = AtPlace(running, kb) OBVIOUS
  <2>2. there \in Seq(T) /\ \A x : Among(x, there) <=> Among(x, running) /\ x.kb = kb
    BY <1>3, <2>1, AtPlaceIs
  <2>3. PICK works : works = In(there, "active") OBVIOUS
  <2>4. /\ works \in Seq(T)
        /\ \A x : Among(x, works) <=> Among(x, there) /\ InflightState(x) = "active"
    BY <2>2, <2>3, InIs
  <2>5. Len(works) \in Nat /\ (Len(works) > 0 <=> works # <<>>) BY <2>4
  <2>6. works # <<>> <=> \E x : Among(x, works) BY <2>4, NothingAmong
  <2>7. \A x : Among(x, running) => (InflightState(x) = "active" <=> x.start >= now - ActiveAge)
    <3>1. \A x : Among(x, running) => x \in RunningRow BY <1>1, <1>3, NothingAmong
    <3> QED BY <3>1, FreshOrHangs
  <2>8. (\E x : Among(x, works))
        <=> \E x : Among(x, running) /\ x.kb = kb /\ x.start >= now - ActiveAge
    BY <2>2, <2>4, <2>7
  <2>9. (\E x : Among(x, running) /\ x.kb = kb /\ x.start >= now - ActiveAge)
        <=> \E i \in DOMAIN running : running[i].kb = kb /\ running[i].start >= now - ActiveAge
    BY DEF Among
  <2> QED BY <2>1, <2>3, <2>5, <2>6, <2>8, <2>9
<1>5. KBKey(a, page.rows, running)[1] = 0
  <2>1. Len(In(AtPlace(running, a), "active")) > 0 BY <1>2, <1>4
  <2> QED BY <2>1 DEF KBKey
<1>6. KBKey(b, page.rows, running)[1] = 1
  <2>1. ~(Len(In(AtPlace(running, b), "active")) > 0) BY <1>2, <1>4
  <2> QED BY <2>1 DEF KBKey
<1>7. 1 \in 1..4 /\ 1..(1 - 1) = {} OBVIOUS
<1> HIDE DEF KBKey
<1> QED BY <1>2, <1>5, <1>6, <1>7 DEF Before

(* What the invariant says of a page that is shown is what the page should *)
(* tell.                                                                   *)
LEMMA OverviewInvImplies == OverviewInv => PageTellsTheTruth
<1> SUFFICES ASSUME OverviewInv, page.step = "shown"
             PROVE  PageTellsTheTruth
  BY DEF PageTellsTheTruth
<1> DEFINE runs(part) == {i \in DOMAIN spans : spans[i].part = part /\ spans[i].status = "running"}
<1> DEFINE fresh(part) == {i \in runs(part) : spans[i].start >= now - ActiveAge}
<1> DEFINE shown(part) == PartStatus(part, page.rows, page.running)
<1>1. ~page.cut =>
        \A part \in Parts \ page.changed :
          /\ shown(part) = "active" <=> fresh(part) # {}
          /\ shown(part) = "stalled" <=> runs(part) # {} /\ fresh(part) = {}
          /\ shown(part) = "stalled" => page.health # "ok"
  BY StatusTold
<1>2. Cardinality(UNION {UNION {{<<part, state, n>> :
        n \in DOMAIN In(Of(page.running, part), state)} :
                                  state \in {"active", "stalled"}} : part \in Parts})
      = Len(page.running)
  <2>1. PICK T : T = RunningRow OBVIOUS
  <2>2. page.running \in Seq(T) BY <2>1 DEF OverviewInv
  <2>3. \A i \in DOMAIN page.running : page.running[i] \in RunningRow
    <3> HIDE DEF RunningRow
    <3> QED BY <2>1, <2>2
  <2>4. \A i \in DOMAIN page.running :
          page.running[i].part \in Parts /\ page.running[i].status = "running"
    BY <2>3 DEF RunningRow, SpanRow
  <2> QED BY <2>2, <2>4, CountedOnce
<1>3. page.queued > 0
      /\ (\A i \in DOMAIN spans : spans[i].part = "worker" => spans[i].start < now - ActiveAge)
      => "worker_stalled" \in Alerts(page.rows, page.queued, page.workers)
  BY StallTold
<1>4. Len(With(Of(page.rows, "retrieve"), "success")) <= 11 =>
        ("retrieve_latency_high" \in Alerts(page.rows, page.queued, page.workers)
         <=> \E i \in DOMAIN page.rows : page.rows[i].part = "retrieve" /\ page.rows[i].ms = Slow)
  BY SlowTold
<1> DEFINE fresh_at(kb) == {i \in DOMAIN page.running : /\ page.running[i].kb = kb
                                                        /\ page.running[i].start >= now - ActiveAge}
<1>5. \A a, b \in {k[2] : k \in Kinds} :
        fresh_at(a) # {} /\ fresh_at(b) = {} =>
          Before(KBKey(a, page.rows, page.running), KBKey(b, page.rows, page.running))
  BY WorkFirst
<1>6. /\ "rustfs_event_queue" \notin page.changed
      /\ backlog > CriticalQueue \/ \E t \in held : t < now - ActiveAge
      => page.health # "ok"
  BY QueueTold
<1> QED BY <1>1, <1>2, <1>3, <1>4, <1>5, <1>6 DEF PageTellsTheTruth

(* For all kinds of operations, numbers of spans and limits of the lists:  *)
(* a page shows a part that did not change under it active or stalled as   *)
(* it is, whatever else changed, if no more run than are listed; its       *)
(* health is not "ok" over a part or an event that hangs; it counts each   *)
(* running operation once, and alerts of a stalled worker and of slow      *)
(* reads, when they are few (ObservabilityService.build_overview).         *)
THEOREM OverviewCorrect == OverviewSpec => []PageTellsTheTruth
<1>1. OverviewInit => OverviewInv BY OverviewStarts
<1>2. OverviewInv /\ [OverviewNext]_overviewVars => OverviewInv' BY OverviewInductive
<1>3. OverviewInv => PageTellsTheTruth BY OverviewInvImplies
<1> QED BY <1>1, <1>2, <1>3, PTL DEF OverviewSpec

(* The keys: strings, of which the prover is told those that the code has  *)
(* by name. *)
Keys ==
  STRING \cup Sections
  \cup {"corpus_path", "embedding_path", "collection_name", "index_backend",
        "retriever_index_backend", "backend_configs", "bm25", "save_path", "index_backend_configs",
        "faiss", "index_path", "milvus", "uri", "model_name_or_path",
        "retriever_model_name_or_path", "gpu_ids", "retriever_gpu_ids", "device",
        "sentence_transformers", "infinity", "backend"}
Paths == Seq(Keys) \ {<<>>}

(* Two paths are comparable when they agree as far as both go. *)
LEMMA PrefixIs ==
  ASSUME NEW K, NEW p \in Seq(K), NEW q \in Seq(K)
  PROVE  IsPrefix(p, q) <=> /\ Len(p) <= Len(q)
                            /\ \A i \in 1..Len(p) : p[i] = q[i]
<1>1. ASSUME Len(p) <= Len(q)
      PROVE  SubSeq(p, 1, Len(p)) = SubSeq(q, 1, Len(p)) <=> \A i \in 1..Len(p) : p[i] = q[i]
  <2>1. PICK n \in Nat : n = Len(p) OBVIOUS
  <2>2. /\ SubSeq(p, 1, n) = [i \in 1..n |-> p[i]]
        /\ SubSeq(q, 1, n) = [i \in 1..n |-> q[i]]
    BY <1>1, <2>1
  <2> QED BY <2>1, <2>2
<1> QED BY <1>1 DEF IsPrefix

(* Two paths are comparable when they agree as far as both go.             *)
LEMMA ComparableIs ==
  ASSUME NEW K, NEW p \in Seq(K), NEW q \in Seq(K)
  PROVE  Comparable(p, q) <=> \A i \in 1..Len(p) : i <= Len(q) => p[i] = q[i]
<1>1. IsPrefix(p, q) <=> /\ Len(p) <= Len(q)
                         /\ \A i \in 1..Len(p) : p[i] = q[i]
  BY PrefixIs
<1>2. IsPrefix(q, p) <=> /\ Len(q) <= Len(p)
                         /\ \A i \in 1..Len(q) : q[i] = p[i]
  BY PrefixIs
<1>3. Len(p) \in Nat /\ Len(q) \in Nat OBVIOUS
<1> QED BY <1>1, <1>2, <1>3 DEF Comparable

(* A path that is comparable to two that are not comparable to each other  *)
(* is a prefix of both. *)
LEMMA ForkIs ==
  ASSUME NEW K, NEW p \in Seq(K), NEW q \in Seq(K), NEW r \in Seq(K),
         Comparable(q, p), Comparable(q, r), ~Comparable(p, r)
  PROVE  IsPrefix(q, p) /\ IsPrefix(q, r)
<1>1. Len(p) \in Nat /\ Len(q) \in Nat /\ Len(r) \in Nat OBVIOUS
<1>2. \A i \in 1..Len(q) : i <= Len(p) => q[i] = p[i] BY ComparableIs
<1>3. \A i \in 1..Len(q) : i <= Len(r) => q[i] = r[i] BY ComparableIs
<1>4. PICK i \in 1..Len(p) : i <= Len(r) /\ p[i] # r[i] BY ComparableIs
<1>5. Len(q) < i BY <1>1, <1>2, <1>3, <1>4
<1>6. Len(q) <= Len(p) /\ Len(q) <= Len(r) BY <1>1, <1>4, <1>5
<1>7. (\A j \in 1..Len(q) : q[j] = p[j]) /\ (\A j \in 1..Len(q) : q[j] = r[j])
  BY <1>1, <1>2, <1>3, <1>6
<1> QED BY <1>6, <1>7, PrefixIs

(* Comparable paths begin with the same key. *)
LEMMA SameHead ==
  ASSUME NEW p \in Paths, NEW q \in Paths, Comparable(p, q)
  PROVE  Head(p) = Head(q)
<1>1. p \in Seq(Keys) /\ q \in Seq(Keys) /\ p # <<>> /\ q # <<>> BY DEF Paths
<1> HIDE DEF Paths
<1>2. PICK K : K = Keys OBVIOUS
<1>3. p \in Seq(K) /\ q \in Seq(K) BY <1>1, <1>2
<1>4. \A i \in 1..Len(p) : i <= Len(q) => p[i] = q[i] BY <1>3, ComparableIs
<1>5. 1 \in 1..Len(p) /\ 1 <= Len(q) BY <1>1, <1>3
<1>6. p[1] = q[1] BY <1>4, <1>5
<1> QED BY <1>1, <1>3, <1>6

(* A path is comparable to itself, and comparing is symmetric. *)
LEMMA SelfComparable ==
  ASSUME NEW p \in Paths
  PROVE  Comparable(p, p)
<1>1. PICK K : K = Keys OBVIOUS
<1>2. p \in Seq(K) BY <1>1 DEF Paths
<1> QED BY <1>2, ComparableIs

(* It does not matter which path is named first.                           *)
LEMMA ComparableBothWays ==
  ASSUME NEW p, NEW q
  PROVE  Comparable(p, q) <=> Comparable(q, p)
BY DEF Comparable

(* A key put before a path. *)
LEMMA KeyBefore ==
  ASSUME NEW K, NEW s \in K, NEW p \in Seq(K)
  PROVE  /\ <<s>> \o p \in Seq(K) /\ Len(<<s>> \o p) = 1 + Len(p) /\ (<<s>> \o p)[1] = s
         /\ \A i \in 1..Len(p) : (<<s>> \o p)[i + 1] = p[i]
<1>1. Len(<<s>>) = 1 OBVIOUS
<1>2. <<s>>[1] = s OBVIOUS
<1>3. <<s>> \in Seq(K) OBVIOUS
<1>4. PICK t \in Seq(K) : t = <<s>> BY <1>3
<1>5. t \o p \in Seq(K) /\ Len(t \o p) = Len(t) + Len(p) OBVIOUS
<1>6. \A i \in 1..Len(p) : (t \o p)[Len(t) + i] = p[i] OBVIOUS
<1>7. (t \o p)[1] = t[1] BY <1>1, <1>4
<1>8. Len(t) = 1 /\ t[1] = s BY <1>1, <1>2, <1>4
<1>9. \A i \in 1..Len(p) : 1 + i = i + 1 OBVIOUS
<1>10. \A i \in 1..Len(p) : (t \o p)[i + 1] = p[i] BY <1>6, <1>8, <1>9
<1>11. t \o p = <<s>> \o p BY <1>4
<1>12. PICK b : b = t \o p OBVIOUS
<1>13. /\ b \in Seq(K) /\ Len(b) = 1 + Len(p) /\ b[1] = s
       /\ \A i \in 1..Len(p) : b[i + 1] = p[i]
  BY <1>5, <1>7, <1>8, <1>10, <1>12
<1> QED BY <1>11, <1>12, <1>13

(* A key put before paths. *)
LEMMA BelowIs ==
  ASSUME NEW s \in Keys, NEW p \in Paths
  PROVE  /\ <<s>> \o p \in Paths /\ Head(<<s>> \o p) = s /\ Tail(<<s>> \o p) = p
         /\ Len(<<s>> \o p) > 1
<1>1. PICK K : K = Keys OBVIOUS
<1>2. p \in Seq(K) /\ p # <<>> /\ s \in K BY <1>1 DEF Paths
<1>3. PICK b : b = <<s>> \o p OBVIOUS
<1>4. /\ b \in Seq(K) /\ Len(b) = 1 + Len(p) /\ b[1] = s
      /\ \A i \in 1..Len(p) : b[i + 1] = p[i]
  <2>1. /\ <<s>> \o p \in Seq(K) /\ Len(<<s>> \o p) = 1 + Len(p) /\ (<<s>> \o p)[1] = s
        /\ \A i \in 1..Len(p) : (<<s>> \o p)[i + 1] = p[i]
    BY <1>2, KeyBefore
  <2> QED BY <2>1, <1>3
<1>5. Len(p) \in Nat /\ Len(p) > 0 BY <1>2
<1>6. b # <<>> /\ Head(b) = s /\ Len(b) > 1
  <2>1. Len(b) > 1 BY <1>4, <1>5
  <2>2. b # <<>> BY <2>1
  <2>3. Head(b) = b[1] BY <1>4, <2>2
  <2> QED BY <1>4, <2>1, <2>2, <2>3
<1>7. Tail(b) = p
  <2>1. Tail(b) \in Seq(K) /\ Len(Tail(b)) = Len(p) BY <1>4, <1>5, <1>6
  <2>2. \A i \in 1..Len(p) : Tail(b)[i] = b[i + 1] BY <1>4, <1>5, <1>6, <2>1
  <2>3. \A i \in 1..Len(p) : Tail(b)[i] = p[i] BY <2>2, <1>4
  <2> QED BY <2>1, <2>3, <1>2
<1> QED BY <1>1, <1>3, <1>4, <1>6, <1>7 DEF Paths

(* Under one key, paths are comparable as they are without it.             *)
LEMMA BelowComparable ==
  ASSUME NEW s \in Keys, NEW p \in Paths, NEW q \in Paths
  PROVE  Comparable(<<s>> \o p, <<s>> \o q) <=> Comparable(p, q)
<1>1. PICK K : K = Keys OBVIOUS
<1>2. p \in Seq(K) /\ q \in Seq(K) /\ s \in K BY <1>1 DEF Paths
<1>3. PICK b, c : b = <<s>> \o p /\ c = <<s>> \o q OBVIOUS
<1>4. /\ b \in Seq(K) /\ Len(b) = 1 + Len(p) /\ b[1] = s
      /\ \A i \in 1..Len(p) : b[i + 1] = p[i]
  <2>1. /\ <<s>> \o p \in Seq(K) /\ Len(<<s>> \o p) = 1 + Len(p) /\ (<<s>> \o p)[1] = s
        /\ \A i \in 1..Len(p) : (<<s>> \o p)[i + 1] = p[i]
    BY <1>2, KeyBefore
  <2> QED BY <2>1, <1>3
<1>5. /\ c \in Seq(K) /\ Len(c) = 1 + Len(q) /\ c[1] = s
      /\ \A i \in 1..Len(q) : c[i + 1] = q[i]
  <2>1. /\ <<s>> \o q \in Seq(K) /\ Len(<<s>> \o q) = 1 + Len(q) /\ (<<s>> \o q)[1] = s
        /\ \A i \in 1..Len(q) : (<<s>> \o q)[i + 1] = q[i]
    BY <1>2, KeyBefore
  <2> QED BY <2>1, <1>3
<1>6. Len(p) \in Nat /\ Len(q) \in Nat BY <1>2
<1>7. Comparable(b, c) <=> \A i \in 1..Len(b) : i <= Len(c) => b[i] = c[i]
  BY <1>4, <1>5, ComparableIs
<1>8. Comparable(p, q) <=> \A i \in 1..Len(p) : i <= Len(q) => p[i] = q[i]
  BY <1>2, ComparableIs
<1>9. ASSUME \A i \in 1..Len(b) : i <= Len(c) => b[i] = c[i], NEW i \in 1..Len(p), i <= Len(q)
      PROVE  p[i] = q[i]
  <2>1. i + 1 \in 1..Len(b) /\ i + 1 <= Len(c) /\ i \in 1..Len(q) BY <1>4, <1>5, <1>6, <1>9
  <2>2. b[i + 1] = c[i + 1] BY <2>1, <1>9
  <2> QED BY <2>1, <2>2, <1>4, <1>5
<1>10. ASSUME \A i \in 1..Len(p) : i <= Len(q) => p[i] = q[i], NEW i \in 1..Len(b), i <= Len(c)
       PROVE  b[i] = c[i]
  <2>1. CASE i = 1 BY <2>1, <1>4, <1>5
  <2>2. CASE i # 1
    <3>1. PICK k \in 1..Len(p) : i = k + 1
      <4>1. i - 1 \in 1..Len(p) /\ i = i - 1 + 1 BY <2>2, <1>4, <1>6
      <4> QED BY <4>1
    <3>2. k <= Len(q) /\ k \in 1..Len(q) BY <3>1, <1>10, <1>5, <1>6
    <3> QED BY <3>1, <3>2, <1>4, <1>5, <1>10
  <2> QED BY <2>1, <2>2
<1> QED BY <1>3, <1>7, <1>8, <1>9, <1>10

(* A path of a section is its name before what comes below it. *)
LEMMA SplitIs ==
  ASSUME NEW p \in Paths, Len(p) > 1
  PROVE  Tail(p) \in Paths /\ p = <<Head(p)>> \o Tail(p) /\ Head(p) \in Keys
<1>1. PICK K : K = Keys OBVIOUS
<1>2. p \in Seq(K) /\ p # <<>> BY <1>1 DEF Paths
<1>3. Tail(p) \in Seq(K) /\ Len(Tail(p)) = Len(p) - 1 /\ Head(p) \in K BY <1>2
<1>4. PICK t \in Seq(K), h \in K : t = Tail(p) /\ h = Head(p) BY <1>3
<1>5. \A i \in 1..Len(t) : t[i] = p[i + 1] BY <1>2, <1>4
<1>6. <<h>> \o t \in Seq(K) /\ Len(<<h>> \o t) = Len(p) BY <1>2, <1>3, <1>4
<1>7. ASSUME NEW i \in 1..Len(p) PROVE (<<h>> \o t)[i] = p[i]
  <2>1. CASE i = 1
    <3>1. (<<h>> \o t)[1] = h BY <1>4
    <3>2. p[1] = h BY <1>2, <1>4
    <3> QED BY <2>1, <3>1, <3>2
  <2>2. CASE i # 1
    <3>1. PICK k \in 1..Len(t) : i = k + 1
      <4>1. i - 1 \in 1..Len(t) /\ i = i - 1 + 1 BY <2>2, <1>2, <1>3, <1>4
      <4> QED BY <4>1
    <3>2. (<<h>> \o t)[k + 1] = t[k] BY <3>1, <1>4
    <3> QED BY <3>1, <3>2, <1>5
  <2> QED BY <2>1, <2>2
<1>8. <<h>> \o t = p
  <2>1. PICK c : c = <<h>> \o t OBVIOUS
  <2>2. c \in Seq(K) /\ Len(c) = Len(p) /\ \A i \in 1..Len(p) : c[i] = p[i] BY <1>6, <1>7, <2>1
  <2>3. c = p BY <1>2, <2>2
  <2> QED BY <2>1, <2>3
<1>9. Len(p) \in Nat /\ Len(t) > 0 BY <1>2, <1>3, <1>4
<1>10. t # <<>> BY <1>9
<1>11. Tail(p) \in Paths BY <1>1, <1>4, <1>10 DEF Paths
<1>12. p = <<Head(p)>> \o Tail(p) BY <1>4, <1>8
<1> QED BY <1>1, <1>3, <1>11, <1>12

(* Of a list of trees, the nearest first, place p is decided by tree i,    *)
(* which has a leaf there, when no nearer one has one above or below it;   *)
(* a merge of the trees from..last has the leaves so decided. *)
Decides(T, from, i, p) ==
  /\ p \in DOMAIN T[i]
  /\ \A j \in from..(i - 1) : \A q \in DOMAIN T[j] : ~Comparable(p, q)

IsMerge(M, T, from, last) ==
  /\ M = [p \in DOMAIN M |-> M[p]]
  /\ \A p : p \in DOMAIN M <=> \E i \in from..last : Decides(T, from, i, p)
  /\ \A i \in from..last : \A p : Decides(T, from, i, p) => M[p] = T[i][p]

InPaths(T, from, last) == \A i \in from..last : DOMAIN T[i] \subseteq Paths

(* There is one merge of a list of trees.                                  *)
LEMMA OneMerge ==
  ASSUME NEW M, NEW L, NEW T, NEW from, NEW last,
         IsMerge(M, T, from, last), IsMerge(L, T, from, last)
  PROVE  M = L
<1>1. DOMAIN M = DOMAIN L BY DEF IsMerge
<1>2. ASSUME NEW p \in DOMAIN M PROVE M[p] = L[p]
  <2>1. PICK i \in from..last : Decides(T, from, i, p) BY <1>2 DEF IsMerge
  <2> QED BY <2>1 DEF IsMerge
<1>3. M = [p \in DOMAIN M |-> M[p]] /\ L = [p \in DOMAIN L |-> L[p]] BY DEF IsMerge
<1>4. PICK D : D = DOMAIN M OBVIOUS
<1>5. M = [p \in D |-> M[p]] /\ L = [p \in D |-> L[p]] BY <1>1, <1>3, <1>4
<1>6. [p \in D |-> M[p]] = [p \in D |-> L[p]] BY <1>2, <1>4
<1> QED BY <1>5, <1>6

(* What the constructors of trees make.                                    *)
LEMMA OverIs ==
  ASSUME NEW top, NEW rest
  PROVE  /\ DOMAIN Over(top, rest) = DOMAIN top \cup DOMAIN rest
         /\ \A p \in DOMAIN top : Over(top, rest)[p] = top[p]
         /\ \A p \in DOMAIN rest : p \notin DOMAIN top => Over(top, rest)[p] = rest[p]
         /\ Over(top, rest) = [p \in DOMAIN Over(top, rest) |-> Over(top, rest)[p]]
BY DEF Over

(* A tree laid over another: its own leaves, and those of the other that   *)
(* none of them is above, below or at.                                     *)
LEMMA OverlayIs ==
  ASSUME NEW base, NEW over, DOMAIN base \subseteq Paths
  PROVE  /\ \A p : p \in DOMAIN Overlay(base, over)
                   <=> \/ p \in DOMAIN over
                       \/ p \in DOMAIN base /\ \A o \in DOMAIN over : ~Comparable(o, p)
         /\ \A p \in DOMAIN over : Overlay(base, over)[p] = over[p]
         /\ \A p \in DOMAIN base :
              (\A o \in DOMAIN over : ~Comparable(o, p)) => Overlay(base, over)[p] = base[p]
         /\ Overlay(base, over) = [p \in DOMAIN Overlay(base, over) |-> Overlay(base, over)[p]]
<1> DEFINE Left == {q \in DOMAIN base : \A o \in DOMAIN over : ~Comparable(o, q)}
<1>1. PICK rest : rest = [p \in Left |-> base[p]] OBVIOUS
<1>2. Overlay(base, over) = Over(over, rest) BY <1>1 DEF Overlay
<1>3. DOMAIN rest = Left /\ \A p \in Left : rest[p] = base[p] BY <1>1
<1>4. \A p \in Left : p \notin DOMAIN over BY SelfComparable
<1>5. PICK t : t = Overlay(base, over) OBVIOUS
<1>6. /\ DOMAIN t = DOMAIN over \cup Left
      /\ \A p \in DOMAIN over : t[p] = over[p]
      /\ \A p \in Left : t[p] = base[p]
      /\ t = [p \in DOMAIN t |-> t[p]]
  <2>1. /\ DOMAIN t = DOMAIN over \cup DOMAIN rest
        /\ \A p \in DOMAIN over : t[p] = over[p]
        /\ \A p \in DOMAIN rest : p \notin DOMAIN over => t[p] = rest[p]
        /\ t = [p \in DOMAIN t |-> t[p]]
    <3>1. t = Over(over, rest) BY <1>2, <1>5
    <3>2. DOMAIN Over(over, rest) = DOMAIN over \cup DOMAIN rest BY OverIs
    <3>3. \A p \in DOMAIN over : Over(over, rest)[p] = over[p] BY DEF Over
    <3>4. \A p \in DOMAIN rest : p \notin DOMAIN over => Over(over, rest)[p] = rest[p]
      BY DEF Over
    <3>5. Over(over, rest) = [p \in DOMAIN Over(over, rest) |-> Over(over, rest)[p]] BY OverIs
    <3> QED BY <3>1, <3>2, <3>3, <3>4, <3>5
  <2> QED BY <2>1, <1>3, <1>4
<1>7. \A p : p \in DOMAIN t <=> \/ p \in DOMAIN over
                                \/ p \in DOMAIN base /\ \A o \in DOMAIN over : ~Comparable(o, p)
  BY <1>6
<1>8. \A p \in DOMAIN base : (\A o \in DOMAIN over : ~Comparable(o, p)) => t[p] = base[p]
  BY <1>6
<1> HIDE DEF Left
<1> QED BY <1>5, <1>6, <1>7, <1>8

(* A nearer tree is merged over a merge.                                   *)
LEMMA NearerMerged ==
  ASSUME NEW M, NEW T, NEW from \in Nat, NEW last \in Nat, from <= last,
         IsMerge(M, T, from + 1, last), InPaths(T, from, last)
  PROVE  IsMerge(Overlay(M, T[from]), T, from, last)
<1>1. PICK t : t = Overlay(M, T[from]) OBVIOUS
<1>2. DOMAIN M \subseteq Paths
  <2>1. ASSUME NEW p \in DOMAIN M PROVE p \in Paths
    <3>1. PICK i \in (from + 1)..last : p \in DOMAIN T[i] BY <2>1 DEF IsMerge, Decides
    <3>2. i \in from..last BY <3>1
    <3> QED BY <3>1, <3>2 DEF InPaths
  <2> QED BY <2>1
<1>3. /\ \A p : p \in DOMAIN t <=> \/ p \in DOMAIN T[from]
                                   \/ p \in DOMAIN M /\ \A o \in DOMAIN T[from] : ~Comparable(o, p)
      /\ \A p \in DOMAIN T[from] : t[p] = T[from][p]
      /\ \A p \in DOMAIN M : (\A o \in DOMAIN T[from] : ~Comparable(o, p)) => t[p] = M[p]
      /\ t = [p \in DOMAIN t |-> t[p]]
  BY <1>1, <1>2, OverlayIs
<1>4. \A p : Decides(T, from, from, p) <=> p \in DOMAIN T[from]
  <2>1. from..(from - 1) = {} OBVIOUS
  <2> QED BY <2>1 DEF Decides
<1>5. ASSUME NEW i \in (from + 1)..last, NEW p
      PROVE  Decides(T, from, i, p) <=> /\ Decides(T, from + 1, i, p)
                                        /\ \A o \in DOMAIN T[from] : ~Comparable(o, p)
  <2>1. \A j : j \in from..(i - 1) <=> j \in (from + 1)..(i - 1) \/ j = from BY <1>5
  <2> QED BY <2>1, ComparableBothWays DEF Decides
<1>6. \A i : i \in from..last <=> i = from \/ i \in (from + 1)..last OBVIOUS
<1>7. /\ \A p : p \in DOMAIN M <=> \E i \in (from + 1)..last : Decides(T, from + 1, i, p)
      /\ \A i \in (from + 1)..last : \A p : Decides(T, from + 1, i, p) => M[p] = T[i][p]
  BY DEF IsMerge
<1>8. \A p : p \in DOMAIN t <=> \E i \in from..last : Decides(T, from, i, p)
  BY <1>3, <1>4, <1>5, <1>6, <1>7
<1>9. ASSUME NEW i \in from..last, NEW p, Decides(T, from, i, p) PROVE t[p] = T[i][p]
  <2>1. CASE i = from BY <2>1, <1>3, <1>4, <1>9
  <2>2. CASE i \in (from + 1)..last
    <3>1. Decides(T, from + 1, i, p) /\ \A o \in DOMAIN T[from] : ~Comparable(o, p)
      BY <1>5, <1>9, <2>2
    <3>2. p \in DOMAIN M /\ M[p] = T[i][p] BY <3>1, <1>7, <2>2
    <3> QED BY <3>1, <3>2, <1>3
  <2> QED BY <2>1, <2>2, <1>6
<1> QED BY <1>1, <1>3, <1>8, <1>9 DEF IsMerge

(* The trees merged one after the other, the farthest first. *)
LEMMA AllMerged ==
  ASSUME NEW T, NEW last \in Nat, InPaths(T, 1, last), NEW merged, merged[0] = <<>>,
         \A n \in 1..last : merged[n] = Overlay(merged[n - 1], T[last - n + 1])
  PROVE  IsMerge(merged[last], T, 1, last)
<1> DEFINE S == {n \in Nat : IsMerge(merged[n], T, last - n + 1, last)}
<1>1. 0 \in S
  <2>1. (last - 0 + 1)..last = {} OBVIOUS
  <2>2. PICK e : e = merged[0] OBVIOUS
  <2>3. DOMAIN e = {} /\ e = [p \in DOMAIN e |-> e[p]]
    <3>1. e = <<>> BY <2>2
    <3> QED BY <3>1
  <2>4. IsMerge(e, T, last - 0 + 1, last) BY <2>1, <2>3 DEF IsMerge
  <2> QED BY <2>2, <2>4
<1>2. ASSUME NEW n \in 0..(last - 1), n \in S PROVE n + 1 \in S
  <2>1. PICK from \in Nat : from = last - (n + 1) + 1 /\ from >= 1 /\ from <= last
    <3>1. last - (n + 1) + 1 \in Nat /\ last - (n + 1) + 1 >= 1 /\ last - (n + 1) + 1 <= last
      BY <1>2
    <3> QED BY <3>1
  <2>2. from + 1 = last - n + 1 BY <1>2, <2>1
  <2>3. PICK M : M = merged[n] OBVIOUS
  <2>4. IsMerge(M, T, from + 1, last) BY <1>2, <2>2, <2>3
  <2>5. InPaths(T, from, last) BY <2>1 DEF InPaths
  <2>6. IsMerge(Overlay(M, T[from]), T, from, last) BY <2>1, <2>4, <2>5, NearerMerged
  <2>7. merged[n + 1] = Overlay(M, T[from])
    <3>1. n + 1 \in 1..last /\ n + 1 - 1 = n BY <1>2
    <3>2. merged[n + 1] = Overlay(merged[n + 1 - 1], T[last - (n + 1) + 1]) BY <3>1
    <3> QED BY <2>1, <2>3, <3>1, <3>2
  <2>8. n + 1 \in Nat BY <1>2
  <2> QED BY <2>1, <2>6, <2>7, <2>8
<1>3. 0..last \subseteq S
  <2> HIDE DEF S
  <2> QED BY <1>1, <1>2, Counting
<1>4. last \in S BY <1>3
<1>5. last - last + 1 = 1 OBVIOUS
<1> QED BY <1>4, <1>5

Bodies == body \in [ConfigFiles -> FileBodies]

(* The files on the way from f: f first, and none after the end of the     *)
(* chain. *)
LEMMA BasesAre ==
  ASSUME NEW f \in ConfigFiles, Bodies, NEW N \in Nat, N = Cardinality(ConfigFiles)
  PROVE  /\ \A n \in 0..N : BaseOf(f)[n] \in ConfigFiles \cup {NoBase}
         /\ BaseOf(f)[0] = f
         /\ \A n \in 1..N : BaseOf(f)[n - 1] = NoBase => BaseOf(f)[n] = NoBase
<1> DEFINE Next(x) == IF x = NoBase THEN NoBase ELSE body[x].base
<1> DEFINE Turns(g, n) == g = [i \in 0..n |-> IF i = 0 THEN f ELSE Next(g[i - 1])]
<1>1. \E g : Turns(g, 0)
  <2> DEFINE g == [i \in 0..0 |-> f]
  <2>1. g = [i \in 0..0 |-> IF i = 0 THEN f ELSE Next(g[i - 1])] OBVIOUS
  <2> QED BY <2>1
<1>2. ASSUME NEW n \in Nat, \E g : Turns(g, n) PROVE \E g : Turns(g, n + 1)
  <2>1. PICK g : Turns(g, n) BY <1>2
  <2> DEFINE h == [i \in 0..(n + 1) |-> IF i = n + 1 THEN Next(g[n]) ELSE g[i]]
  <2>2. \A i \in 0..n : g[i] = IF i = 0 THEN f ELSE Next(g[i - 1]) BY <2>1
  <2>3. ASSUME NEW i \in 0..(n + 1)
        PROVE  h[i] = IF i = 0 THEN f ELSE Next(h[i - 1])
    <3>1. CASE i = n + 1
      <4>1. i # 0 /\ i - 1 = n /\ n \in 0..(n + 1) /\ n # n + 1 BY <3>1
      <4>2. h[n] = g[n] BY <4>1
      <4>3. h[i] = Next(g[n]) BY <3>1
      <4> HIDE DEF h, Next
      <4> QED BY <4>1, <4>2, <4>3
    <3>2. CASE i # n + 1 /\ i # 0
      <4>1. h[i] = g[i] /\ h[i - 1] = g[i - 1] /\ i \in 0..n BY <3>2
      <4>2. g[i] = Next(g[i - 1])
        <5> HIDE DEF Next, h
        <5> QED BY <2>2, <3>2, <4>1
      <4> HIDE DEF Next, h
      <4> QED BY <3>2, <4>1, <4>2
    <3>3. CASE i = 0
      <4>1. h[i] = g[i] /\ i \in 0..n BY <3>3
      <4> HIDE DEF Next, h
      <4> QED BY <3>3, <4>1, <2>2
    <3> QED BY <3>1, <3>2, <3>3
  <2> DEFINE k == [i \in 0..(n + 1) |-> IF i = 0 THEN f ELSE Next(h[i - 1])]
  <2>4. \A i \in 0..(n + 1) : h[i] = k[i]
    <3> HIDE DEF h, Next
    <3> QED BY <2>3
  <2>5. h = [i \in 0..(n + 1) |-> h[i]] /\ k = [i \in 0..(n + 1) |-> k[i]] OBVIOUS
  <2>6. h = k
    <3> HIDE DEF h, k
    <3> QED BY <2>4, <2>5
  <2>7. Turns(h, n + 1)
    <3>1. h = [i \in 0..(n + 1) |-> IF i = 0 THEN f ELSE Next(h[i - 1])]
      <4> HIDE DEF h, Next
      <4> QED BY <2>6
    <3> HIDE DEF h, Next
    <3> QED BY <3>1
  <2> HIDE DEF h, Turns
  <2> QED BY <2>7
<1>3. \E g : Turns(g, N)
  <2> DEFINE done == {n \in Nat : \E g : Turns(g, n)}
  <2> HIDE DEF Turns
  <2>1. 0 \in done BY <1>1
  <2>2. \A n \in 0..(N - 1) : n \in done => n + 1 \in done
    <3> TAKE n \in 0..(N - 1)
    <3> HAVE n \in done
    <3>1. n \in Nat /\ \E g : Turns(g, n) OBVIOUS
    <3>2. \E g : Turns(g, n + 1) BY <3>1, <1>2
    <3> QED BY <3>1, <3>2
  <2>3. 0..N \subseteq done
    <3> HIDE DEF done
    <3> QED BY <2>1, <2>2, Counting
  <2>4. N \in 0..N OBVIOUS
  <2> QED BY <2>3, <2>4
<1>4. PICK far : Turns(far, N) /\ BaseOf(f) = far
  <2> DEFINE chosen == CHOOSE g : Turns(g, N)
  <2>1. Turns(chosen, N)
    <3> HIDE DEF Turns
    <3> QED BY <1>3
  <2>2. BaseOf(f) = chosen BY DEF BaseOf
  <2> HIDE DEF chosen, Turns
  <2> QED BY <2>1, <2>2
<1>5. /\ far[0] = f
      /\ \A n \in 1..N : far[n] = Next(far[n - 1])
  <2>1. \A i \in 0..N : far[i] = IF i = 0 THEN f ELSE Next(far[i - 1]) BY <1>4
  <2>2. \A n \in 1..N : n \in 0..N /\ n # 0 OBVIOUS
  <2> HIDE DEF Turns, Next
  <2> QED BY <2>1, <2>2
<1> HIDE DEF Turns
<1>6. \A x \in ConfigFiles \cup {NoBase} : Next(x) \in ConfigFiles \cup {NoBase}
  BY ConfigAssumption DEF Bodies
<1>7. Next(NoBase) = NoBase OBVIOUS
<1> HIDE DEF Next
<1> DEFINE S == {n \in Nat : far[n] \in ConfigFiles \cup {NoBase}}
<1>8. 0 \in S BY <1>5
<1>9. \A n \in 0..(N - 1) : n \in S => n + 1 \in S
  <2> TAKE n \in 0..(N - 1)
  <2> HAVE n \in S
  <2>1. n + 1 \in 1..N /\ n + 1 - 1 = n /\ n + 1 \in Nat OBVIOUS
  <2>2. far[n + 1] = Next(far[n]) BY <2>1, <1>5
  <2> QED BY <2>1, <2>2, <1>6
<1>10. 0..N \subseteq S
  <2> HIDE DEF S
  <2> QED BY <1>8, <1>9, Counting
<1> QED BY <1>4, <1>5, <1>7, <1>10

(* The chain of a file.                                                    *)
LEMMA ChainIs ==
  ASSUME NEW f \in ConfigFiles, Bodies
  PROVE  \E last \in Nat : /\ Len(Chain(f)) = last /\ DOMAIN Chain(f) = 1..last /\ last >= 1
                           /\ \A i \in 1..last : Chain(f)[i] \in ConfigFiles
<1>1. PICK N \in Nat : N = Cardinality(ConfigFiles) BY ConfigAssumption, FS_CardinalityType
<1>2. PICK far : far = BaseOf(f) OBVIOUS
<1>3. /\ \A n \in 0..N : far[n] \in ConfigFiles \cup {NoBase}
      /\ far[0] = f
      /\ \A n \in 1..N : far[n - 1] = NoBase => far[n] = NoBase
  BY <1>1, <1>2, BasesAre
<1> DEFINE There == {n \in 0..N : far[n] # NoBase}
<1>4. IsFiniteSet(There) /\ Cardinality(There) \in Nat
  <2>1. IsFiniteSet(0..N) BY FS_Interval
  <2>2. There \subseteq 0..N OBVIOUS
  <2> HIDE DEF There
  <2> QED BY <2>1, <2>2, FS_Subset, FS_CardinalityType
<1>5. PICK last \in Nat : last = Cardinality(There) BY <1>4
<1>6. Chain(f) = [i \in 1..last |-> far[i - 1]]
  BY <1>1, <1>2, <1>5 DEF Chain
<1>7. last >= 1
  <2>1. 0 \in There BY <1>3, ConfigAssumption
  <2>2. Cardinality(There) # 0
    <3> HIDE DEF There
    <3> QED BY <2>1, <1>4, FS_EmptySet
  <2> QED BY <2>2, <1>5
<1>8. last <= N + 1
  <2>1. IsFiniteSet(0..N) /\ Cardinality(0..N) = N + 1 BY FS_Interval
  <2>2. There \subseteq 0..N OBVIOUS
  <2> HIDE DEF There
  <2>3. Cardinality(There) <= Cardinality(0..N) BY <2>1, <2>2, FS_Subset
  <2> QED BY <2>1, <2>3, <1>5
<1>9. ASSUME NEW i \in 1..last PROVE far[i - 1] \in ConfigFiles
  <2>1. i - 1 \in 0..N BY <1>8
  <2> SUFFICES ASSUME far[i - 1] = NoBase PROVE FALSE BY <2>1, <1>3
  <2> DEFINE S == {n \in Nat : i - 1 + n <= N => far[i - 1 + n] = NoBase}
  <2>2. 0 \in S BY <2>1
  <2>3. \A n \in 0..(N - 1) : n \in S => n + 1 \in S
    <3> TAKE n \in 0..(N - 1)
    <3> HAVE n \in S
    <3> SUFFICES ASSUME i - 1 + (n + 1) <= N PROVE far[i - 1 + (n + 1)] = NoBase OBVIOUS
    <3>1. i - 1 + (n + 1) \in 1..N /\ i - 1 + (n + 1) - 1 = i - 1 + n /\ i - 1 + n <= N
      BY <2>1
    <3>2. PICK k \in 1..N : k = i - 1 + (n + 1) BY <3>1
    <3>3. far[k - 1] = NoBase BY <3>1, <3>2
    <3> QED BY <3>2, <3>3, <1>3
  <2>4. 0..N \subseteq S
    <3> HIDE DEF S
    <3> QED BY <2>2, <2>3, Counting
  <2>5. There \subseteq 0..(i - 2)
    <3> SUFFICES ASSUME NEW n \in There PROVE n \in 0..(i - 2) OBVIOUS
    <3>1. n \in 0..N /\ far[n] # NoBase OBVIOUS
    <3> HIDE DEF There
    <3> SUFFICES ASSUME n > i - 2 PROVE FALSE BY <3>1
    <3>2. n - (i - 1) \in 0..N /\ i - 1 + (n - (i - 1)) = n BY <3>1, <2>1
    <3>3. n - (i - 1) \in S BY <3>2, <2>4
    <3> QED BY <3>1, <3>2, <3>3
  <2>6. IsFiniteSet(0..(i - 2)) /\ Cardinality(0..(i - 2)) = IF i - 2 < 0 THEN 0 ELSE i - 1
    <3>1. 0 \in Int /\ i - 2 \in Int OBVIOUS
    <3>2. Cardinality(0..(i - 2)) = IF 0 > i - 2 THEN 0 ELSE i - 2 - 0 + 1
      BY <3>1, FS_Interval
    <3>3. IsFiniteSet(0..(i - 2)) BY <3>1, FS_Interval
    <3> QED BY <3>2, <3>3
  <2>7. Cardinality(There) <= Cardinality(0..(i - 2))
    <3> HIDE DEF There
    <3> QED BY <2>5, <2>6, FS_Subset
  <2> HIDE DEF There
  <2> QED BY <2>6, <2>7, <1>5
<1>10. Len(Chain(f)) = last /\ DOMAIN Chain(f) = 1..last BY <1>6
<1>11. \A i \in 1..last : Chain(f)[i] \in ConfigFiles BY <1>6, <1>9
<1> QED BY <1>7, <1>10, <1>11

TreesOf(f) == [i \in 1..Len(Chain(f)) |-> body[Chain(f)[i]].tree]

(* The keys and the places of files and servers are as they should be. *)
LEMMA PlacesTyped ==
  /\ FilePlaces \subseteq Paths /\ DOMAIN ServerTree \subseteq Paths
  /\ \A s \in Sections : s \in Keys
<1>1. \A p \in FilePlaces : p \in Seq(STRING) \ {<<>>} BY ConfigAssumption DEF FilePlaces
<1>2. \A p \in DOMAIN ServerTree : p \in Seq(STRING) \ {<<>>}
  <2> TAKE p \in DOMAIN ServerTree
  <2>1. p \in Seq(STRING) /\ Len(p) > 1 BY ConfigAssumption
  <2>2. p # <<>> BY <2>1
  <2> QED BY <2>1, <2>2
<1>3. Sections \subseteq Keys BY DEF Keys
<1>4. STRING \subseteq Keys BY DEF Keys
<1>5. \A p \in Seq(STRING) \ {<<>>} : p \in Paths
  <2> TAKE p \in Seq(STRING) \ {<<>>}
  <2>1. PICK K : K = STRING OBVIOUS
  <2>2. p \in Seq(K) /\ K \subseteq Keys BY <1>4, <2>1
  <2>3. p \in Seq(Keys) BY <2>2
  <2> QED BY <2>3 DEF Paths
<1> QED BY <1>1, <1>2, <1>3, <1>5

(* The leaves of the files on the way are where files have leaves.         *)
LEMMA TreesTyped ==
  ASSUME NEW f \in ConfigFiles, Bodies
  PROVE  \A i \in 1..Len(Chain(f)) : DOMAIN TreesOf(f)[i] \subseteq FilePlaces
<1>1. \A i \in 1..Len(Chain(f)) : Chain(f)[i] \in ConfigFiles BY ChainIs
<1>2. \A g \in ConfigFiles : body[g] \in FileBodies BY DEF Bodies
<1>3. \A b \in FileBodies : DOMAIN b.tree \subseteq FilePlaces BY DEF FilePlaces
<1> QED BY <1>1, <1>2, <1>3 DEF TreesOf

(* The files merged are the merge of their trees. *)
LEMMA OverrideIs ==
  ASSUME NEW f \in ConfigFiles, Bodies
  PROVE  IsMerge(OverrideOf(f), TreesOf(f), 1, Len(Chain(f)))
<1>1. PICK N \in Nat : N = Len(Chain(f)) /\ N >= 1 BY ChainIs
<1>2. PICK T : T = TreesOf(f) OBVIOUS
<1> DEFINE Tree(i) == body[Chain(f)[N - i + 1]].tree
<1> DEFINE Turns(g, n) == g = [i \in 0..n |-> IF i = 0 THEN <<>> ELSE Overlay(g[i - 1], Tree(i))]
<1>3. \E g : Turns(g, 0)
  <2> DEFINE g == [i \in 0..0 |-> <<>>]
  <2>1. g = [i \in 0..0 |-> IF i = 0 THEN <<>> ELSE Overlay(g[i - 1], Tree(i))] OBVIOUS
  <2> QED BY <2>1
<1>4. ASSUME NEW n \in Nat, \E g : Turns(g, n) PROVE \E g : Turns(g, n + 1)
  <2>1. PICK g : Turns(g, n) BY <1>4
  <2> DEFINE h == [i \in 0..(n + 1) |-> IF i = n + 1 THEN Overlay(g[n], Tree(n + 1)) ELSE g[i]]
  <2> HIDE DEF Tree
  <2>2. \A i \in 0..n : g[i] = IF i = 0 THEN <<>> ELSE Overlay(g[i - 1], Tree(i)) BY <2>1
  <2>3. ASSUME NEW i \in 0..(n + 1)
        PROVE  h[i] = IF i = 0 THEN <<>> ELSE Overlay(h[i - 1], Tree(i))
    <3>1. CASE i = n + 1
      <4>1. i # 0 /\ i - 1 = n /\ n \in 0..(n + 1) /\ n # n + 1 BY <3>1
      <4>2. h[n] = g[n] BY <4>1
      <4>3. h[i] = Overlay(g[n], Tree(n + 1)) BY <3>1
      <4> HIDE DEF h
      <4> QED BY <3>1, <4>1, <4>2, <4>3
    <3>2. CASE i # n + 1 /\ i # 0
      <4>1. h[i] = g[i] /\ h[i - 1] = g[i - 1] /\ i \in 0..n BY <3>2
      <4>2. g[i] = Overlay(g[i - 1], Tree(i))
        <5> HIDE DEF h
        <5> QED BY <2>2, <3>2, <4>1
      <4> HIDE DEF h
      <4> QED BY <3>2, <4>1, <4>2
    <3>3. CASE i = 0
      <4>1. h[i] = g[i] /\ i \in 0..n BY <3>3
      <4> HIDE DEF h
      <4> QED BY <3>3, <4>1, <2>2
    <3> QED BY <3>1, <3>2, <3>3
  <2> DEFINE k == [i \in 0..(n + 1) |-> IF i = 0 THEN <<>> ELSE Overlay(h[i - 1], Tree(i))]
  <2>4. \A i \in 0..(n + 1) : h[i] = k[i]
    <3> HIDE DEF h
    <3> QED BY <2>3
  <2>5. h = [i \in 0..(n + 1) |-> h[i]] /\ k = [i \in 0..(n + 1) |-> k[i]] OBVIOUS
  <2>6. h = k
    <3> HIDE DEF h, k
    <3> QED BY <2>4, <2>5
  <2>7. Turns(h, n + 1)
    <3>1. h = [i \in 0..(n + 1) |-> IF i = 0 THEN <<>> ELSE Overlay(h[i - 1], Tree(i))]
      <4> HIDE DEF h
      <4> QED BY <2>6
    <3> HIDE DEF h
    <3> QED BY <3>1
  <2> HIDE DEF h, Turns
  <2> QED BY <2>7
<1>5. \E g : Turns(g, N)
  <2> DEFINE done == {n \in Nat : \E g : Turns(g, n)}
  <2> HIDE DEF Turns
  <2>1. 0 \in done BY <1>3
  <2>2. \A n \in 0..(N - 1) : n \in done => n + 1 \in done
    <3> TAKE n \in 0..(N - 1)
    <3> HAVE n \in done
    <3>1. n \in Nat /\ \E g : Turns(g, n) OBVIOUS
    <3>2. \E g : Turns(g, n + 1) BY <3>1, <1>4
    <3> QED BY <3>1, <3>2
  <2>3. 0..N \subseteq done
    <3> HIDE DEF done
    <3> QED BY <2>1, <2>2, Counting
  <2>4. N \in 0..N OBVIOUS
  <2> QED BY <2>3, <2>4
<1>6. PICK merged : Turns(merged, N) /\ OverrideOf(f) = merged[N]
  <2> DEFINE chosen == CHOOSE g : Turns(g, N)
  <2>1. Turns(chosen, N)
    <3> HIDE DEF Turns
    <3> QED BY <1>5
  <2>2. OverrideOf(f) = chosen[N] BY <1>1 DEF OverrideOf
  <2> HIDE DEF chosen, Turns
  <2> QED BY <2>1, <2>2
<1>7. \A i \in 0..N : merged[i] = IF i = 0 THEN <<>> ELSE Overlay(merged[i - 1], Tree(i)) BY <1>6
<1> HIDE DEF Turns
<1>8. \A i \in 1..N : Tree(i) = T[N - i + 1]
  <2> TAKE i \in 1..N
  <2>1. N - i + 1 \in 1..Len(Chain(f)) BY <1>1
  <2> QED BY <2>1, <1>2 DEF TreesOf
<1> HIDE DEF Tree
<1>9. merged[0] = <<>> BY <1>7
<1>10. \A n \in 1..N : merged[n] = Overlay(merged[n - 1], T[N - n + 1])
  <2>1. \A n \in 1..N : n \in 0..N /\ n # 0 OBVIOUS
  <2> QED BY <2>1, <1>7, <1>8
<1>11. InPaths(T, 1, N)
  <2>1. \A i \in 1..N : DOMAIN T[i] \subseteq FilePlaces BY <1>1, <1>2, TreesTyped
  <2> QED BY <2>1, PlacesTyped DEF InPaths
<1>12. IsMerge(merged[N], T, 1, N) BY <1>9, <1>10, <1>11, AllMerged
<1> QED BY <1>1, <1>2, <1>6, <1>12

(* A retriever section of one file is one of the merge. *)
LEMMA NestedIs ==
  ASSUME NEW T, NEW n \in Nat, NEW M, IsMerge(M, T, 1, n), DictsStay,
         \A i \in 1..n : DOMAIN T[i] \subseteq FilePlaces
  PROVE  Nested(M) <=> \E i \in 1..n : Nested(T[i])
<1>1. ASSUME Nested(M) PROVE \E i \in 1..n : Nested(T[i])
  <2>1. PICK p \in DOMAIN M : Head(p) = "retriever" /\ Len(p) > 1 BY <1>1 DEF Nested
  <2>2. PICK i \in 1..n : p \in DOMAIN T[i] BY <2>1 DEF IsMerge, Decides
  <2> QED BY <2>1, <2>2 DEF Nested
<1>2. ASSUME NEW k \in 1..n, Nested(T[k]) PROVE Nested(M)
  <2> DEFINE S == {i \in 1..n : Nested(T[i])}
  <2>1. PICK i \in S : \A m \in S : i <= m
    <3>1. S \in SUBSET Nat OBVIOUS
    <3>2. S # {} BY <1>2
    <3> HIDE DEF S
    <3> QED BY <3>1, <3>2, LeastNatural
  <2>2. i \in 1..n /\ Nested(T[i]) OBVIOUS
  <2>3. PICK p \in DOMAIN T[i] : Head(p) = "retriever" /\ Len(p) > 1 BY <2>2 DEF Nested
  <2>4. ASSUME NEW j \in 1..(i - 1), NEW q \in DOMAIN T[j] PROVE ~Comparable(p, q)
    <3> SUFFICES ASSUME Comparable(p, q) PROVE FALSE OBVIOUS
    <3>1. j \in 1..n /\ ~(i <= j) BY <2>2, <2>4
    <3>2. p \in Paths /\ q \in Paths /\ q \in FilePlaces BY <2>2, <2>3, <3>1, <2>4, PlacesTyped
    <3>3. Head(q) = "retriever" BY <2>3, <3>2, SameHead
    <3>4. Len(q) # 1
      <4>1. "retriever" \in Sections BY DEF Sections
      <4> QED BY <3>2, <3>3, <4>1 DEF DictsStay
    <3>5. Len(q) > 1
      <4>1. q \in Seq(Keys) /\ q # <<>> BY <3>2 DEF Paths
      <4>2. Len(q) \in Nat /\ Len(q) # 0 BY <4>1
      <4>3. PICK m \in Nat : m = Len(q) BY <4>2
      <4> QED BY <3>4, <4>2, <4>3
    <3>6. Nested(T[j]) BY <3>3, <3>5, <2>4 DEF Nested
    <3>7. j \in S BY <3>1, <3>6
    <3> QED BY <2>1, <3>1, <3>7
  <2>5. Decides(T, 1, i, p) BY <2>3, <2>4 DEF Decides
  <2>6. p \in DOMAIN M BY <2>2, <2>5 DEF IsMerge
  <2> QED BY <2>3, <2>6 DEF Nested
<1> QED BY <1>1, <1>2

(* The leaves under some keys. *)
LEMMA PickLocalIs ==
  ASSUME NEW t, NEW fields
  PROVE  /\ \A p : p \in DOMAIN PickLocal(t, fields) <=> p \in DOMAIN t /\ Head(p) \in fields
         /\ \A p \in DOMAIN PickLocal(t, fields) : PickLocal(t, fields)[p] = t[p]
         /\ PickLocal(t, fields)
            = [p \in DOMAIN PickLocal(t, fields) |-> PickLocal(t, fields)[p]]
BY DEF PickLocal

(* The sections of merged trees are the merge of the sections.             *)
LEMMA PickedMerge ==
  ASSUME NEW T, NEW n \in Nat, NEW M, IsMerge(M, T, 1, n), InPaths(T, 1, n), NEW fields,
         NEW R, \A i \in 1..n : R[i] = PickLocal(T[i], fields)
  PROVE  IsMerge(PickLocal(M, fields), R, 1, n)
<1>1. PICK L : L = PickLocal(M, fields) OBVIOUS
<1>2. /\ \A p : p \in DOMAIN L <=> p \in DOMAIN M /\ Head(p) \in fields
      /\ \A p \in DOMAIN L : L[p] = M[p]
      /\ L = [p \in DOMAIN L |-> L[p]]
  <2>1. \A p : p \in DOMAIN PickLocal(M, fields) <=> p \in DOMAIN M /\ Head(p) \in fields
    BY PickLocalIs
  <2>2. \A p \in DOMAIN PickLocal(M, fields) : PickLocal(M, fields)[p] = M[p] BY PickLocalIs
  <2>3. PickLocal(M, fields) = [p \in DOMAIN PickLocal(M, fields) |-> PickLocal(M, fields)[p]]
    BY PickLocalIs
  <2> QED BY <1>1, <2>1, <2>2, <2>3
<1>3. \A i \in 1..n : \A p : p \in DOMAIN R[i] <=> p \in DOMAIN T[i] /\ Head(p) \in fields
  BY PickLocalIs
<1>4. ASSUME NEW i \in 1..n, NEW p
      PROVE  Decides(R, 1, i, p) <=> Decides(T, 1, i, p) /\ Head(p) \in fields
  <2>1. CASE p \notin DOMAIN T[i] \/ Head(p) \notin fields BY <2>1, <1>3 DEF Decides
  <2>2. CASE p \in DOMAIN T[i] /\ Head(p) \in fields
    <3>1. ASSUME NEW j \in 1..(i - 1)
          PROVE  (\A q \in DOMAIN R[j] : ~Comparable(p, q))
                 <=> (\A q \in DOMAIN T[j] : ~Comparable(p, q))
      <4>1. j \in 1..n OBVIOUS
      <4>2. p \in Paths /\ \A q \in DOMAIN T[j] : q \in Paths BY <2>2, <4>1 DEF InPaths
      <4>3. \A q \in DOMAIN T[j] : Comparable(p, q) => Head(q) = Head(p) BY <4>2, SameHead
      <4> QED BY <4>1, <4>3, <1>3, <2>2
    <3>2. p \in DOMAIN R[i] BY <2>2, <1>3
    <3> QED BY <3>1, <3>2, <2>2 DEF Decides
  <2> QED BY <2>1, <2>2
<1>5. \A p : p \in DOMAIN L <=> \E i \in 1..n : Decides(R, 1, i, p)
  <2>1. \A p : p \in DOMAIN M <=> \E i \in 1..n : Decides(T, 1, i, p) BY DEF IsMerge
  <2> QED BY <2>1, <1>2, <1>4
<1>6. \A i \in 1..n : \A p : Decides(R, 1, i, p) => L[p] = R[i][p]
  <2> TAKE i \in 1..n
  <2> TAKE p
  <2> HAVE Decides(R, 1, i, p)
  <2>1. Decides(T, 1, i, p) BY <1>4
  <2>2. M[p] = T[i][p] BY <2>1 DEF IsMerge
  <2>3. L[p] = M[p] BY <1>2, <1>5
  <2>4. p \in DOMAIN R[i] BY DEF Decides
  <2>5. p \in DOMAIN PickLocal(T[i], fields) BY <2>4
  <2>6. PickLocal(T[i], fields)[p] = T[i][p] BY <2>5, PickLocalIs
  <2> QED BY <2>2, <2>3, <2>6
<1> QED BY <1>1, <1>2, <1>5, <1>6 DEF IsMerge

-----------------------------------------------------------------------------
(* A flat file, read. *)

(* The place where a flat file's leaf is read. *)
ReadAt(p) == IF Head(p) \in OtherSections THEN p ELSE <<"retriever">> \o p

Flat(t) == DOMAIN t \subseteq Paths /\ \A p \in DOMAIN t : Head(p) # "retriever"

(* A tree put under a key.                                                 *)
LEMMA UnderIs ==
  ASSUME NEW s \in Keys, NEW t, DOMAIN t \subseteq Paths
  PROVE  /\ \A x : x \in DOMAIN Under(s, t) <=> \E p \in DOMAIN t : x = <<s>> \o p
         /\ \A p \in DOMAIN t : Under(s, t)[<<s>> \o p] = t[p]
<1>1. \A x : x \in DOMAIN Under(s, t) <=> \E p \in DOMAIN t : x = <<s>> \o p BY DEF Under
<1>2. ASSUME NEW p \in DOMAIN t PROVE Under(s, t)[<<s>> \o p] = t[p]
  <2>1. PICK x : x = <<s>> \o p OBVIOUS
  <2>2. Tail(x) = p
    <3>1. p \in Paths OBVIOUS
    <3> QED BY <2>1, <3>1, BelowIs
  <2>3. x \in {<<s>> \o q : q \in DOMAIN t} BY <2>1
  <2>4. Under(s, t)[x] = t[Tail(x)] BY <2>3 DEF Under
  <2> QED BY <2>1, <2>2, <2>4
<1> QED BY <1>1, <1>2

(* Where leaves are read, paths are comparable as they were in the file.   *)
LEMMA ReadAtIs ==
  ASSUME NEW p \in Paths, NEW q \in Paths, Head(p) # "retriever", Head(q) # "retriever"
  PROVE  /\ ReadAt(p) \in Paths /\ Head(ReadAt(p)) \in Sections
         /\ Comparable(ReadAt(p), ReadAt(q)) <=> Comparable(p, q)
         /\ ReadAt(p) = ReadAt(q) => p = q
<1>1. "retriever" \in Keys BY DEF Keys, Sections
<1>2. "retriever" \notin OtherSections BY DEF OtherSections
<1>3. PICK b : b = <<"retriever">> \o p OBVIOUS
<1>4. PICK c : c = <<"retriever">> \o q OBVIOUS
<1>5. b \in Paths /\ Head(b) = "retriever" /\ Tail(b) = p BY <1>1, <1>3, BelowIs
<1>6. c \in Paths /\ Head(c) = "retriever" /\ Tail(c) = q BY <1>1, <1>4, BelowIs
<1>7. Comparable(b, c) <=> Comparable(p, q) BY <1>1, <1>3, <1>4, BelowComparable
<1>8. ReadAt(p) = IF Head(p) \in OtherSections THEN p ELSE b BY <1>3 DEF ReadAt
<1>9. ReadAt(q) = IF Head(q) \in OtherSections THEN q ELSE c BY <1>4 DEF ReadAt
<1>10. CASE Head(p) \in OtherSections /\ Head(q) \in OtherSections
  BY <1>8, <1>9, <1>10 DEF Sections
<1>11. CASE Head(p) \notin OtherSections /\ Head(q) \notin OtherSections
  <2>1. b = c => p = q BY <1>5, <1>6
  <2> QED BY <1>5, <1>7, <1>8, <1>9, <1>11, <2>1 DEF Sections
<1>12. CASE Head(p) \in OtherSections /\ Head(q) \notin OtherSections
  <2>1. ~Comparable(p, q) BY <1>12, SameHead
  <2>2. ~Comparable(p, c) /\ p # c BY <1>2, <1>6, <1>12, SameHead
  <2> QED BY <1>8, <1>9, <1>12, <2>1, <2>2 DEF Sections
<1>13. CASE Head(p) \notin OtherSections /\ Head(q) \in OtherSections
  <2>1. ~Comparable(p, q) BY <1>13, SameHead
  <2>2. ~Comparable(b, q) /\ b # q BY <1>2, <1>5, <1>13, SameHead
  <2> QED BY <1>5, <1>8, <1>9, <1>13, <2>1, <2>2 DEF Sections
<1> QED BY <1>10, <1>11, <1>12, <1>13

(* What a flat file gives when it is read.                                 *)
LEMMA FlatRead ==
  ASSUME NEW t, Flat(t)
  PROVE  /\ \A x : x \in DOMAIN Normalized(t) <=> \E p \in DOMAIN t : x = ReadAt(p)
         /\ \A p \in DOMAIN t : Normalized(t)[ReadAt(p)] = t[p]
         /\ Normalized(t) = [x \in DOMAIN Normalized(t) |-> Normalized(t)[x]]
<1> DEFINE heads == {Head(p) : p \in DOMAIN t} \ OtherSections
<1>1. PICK own : own = PickLocal(t, OtherSections) OBVIOUS
<1>2. PICK loose : loose = PickLocal(t, heads) OBVIOUS
<1>3. PICK below : below = Under("retriever", loose) OBVIOUS
<1>4. Normalized(t) = Over(own, below)
  <2>1. ~Nested(t) BY DEF Nested, Flat
  <2> QED BY <2>1, <1>1, <1>2, <1>3 DEF Normalized
<1>5. /\ \A p : p \in DOMAIN own <=> p \in DOMAIN t /\ Head(p) \in OtherSections
      /\ \A p \in DOMAIN own : own[p] = t[p]
  <2>1. \A p : p \in DOMAIN PickLocal(t, OtherSections)
               <=> p \in DOMAIN t /\ Head(p) \in OtherSections
    BY PickLocalIs
  <2>2. \A p \in DOMAIN PickLocal(t, OtherSections) : PickLocal(t, OtherSections)[p] = t[p]
    BY PickLocalIs
  <2> QED BY <1>1, <2>1, <2>2
<1>6. /\ \A p : p \in DOMAIN loose <=> p \in DOMAIN t /\ Head(p) \notin OtherSections
      /\ \A p \in DOMAIN loose : loose[p] = t[p]
  <2>1. \A p : p \in DOMAIN PickLocal(t, heads) <=> p \in DOMAIN t /\ Head(p) \in heads
    <3> HIDE DEF heads
    <3> QED BY PickLocalIs
  <2>2. \A p \in DOMAIN PickLocal(t, heads) : PickLocal(t, heads)[p] = t[p]
    <3> HIDE DEF heads
    <3> QED BY PickLocalIs
  <2>3. \A p \in DOMAIN t : Head(p) \in heads <=> Head(p) \notin OtherSections OBVIOUS
  <2> HIDE DEF heads
  <2> QED BY <1>2, <2>1, <2>2, <2>3
<1>7. /\ \A x : x \in DOMAIN below <=> \E p \in DOMAIN loose : x = <<"retriever">> \o p
      /\ \A p \in DOMAIN loose : below[<<"retriever">> \o p] = loose[p]
  <2>1. DOMAIN loose \subseteq Paths BY <1>6 DEF Flat
  <2>2. "retriever" \in Keys BY DEF Keys, Sections
  <2>3. PICK s \in Keys : s = "retriever" BY <2>2
  <2>4. /\ \A x : x \in DOMAIN Under(s, loose) <=> \E p \in DOMAIN loose : x = <<s>> \o p
        /\ \A p \in DOMAIN loose : Under(s, loose)[<<s>> \o p] = loose[p]
    BY <2>1, UnderIs
  <2> QED BY <2>3, <2>4, <1>3
<1>8. PICK M : M = Normalized(t) OBVIOUS
<1>9. /\ DOMAIN M = DOMAIN own \cup DOMAIN below
      /\ \A p \in DOMAIN own : M[p] = own[p]
      /\ \A p \in DOMAIN below : p \notin DOMAIN own => M[p] = below[p]
      /\ M = [x \in DOMAIN M |-> M[x]]
  <2>1. M = Over(own, below) BY <1>4, <1>8
  <2> QED BY <2>1 DEF Over
<1>10. \A x : x \in DOMAIN M <=> \E p \in DOMAIN t : x = ReadAt(p)
  BY <1>5, <1>6, <1>7, <1>9 DEF ReadAt
<1>11. ASSUME NEW p \in DOMAIN t PROVE M[ReadAt(p)] = t[p]
  <2>1. CASE Head(p) \in OtherSections
    <3>1. ReadAt(p) = p BY <2>1 DEF ReadAt
    <3>2. p \in DOMAIN own BY <2>1, <1>5
    <3> QED BY <3>1, <3>2, <1>5, <1>9
  <2>2. CASE Head(p) \notin OtherSections
    <3>1. ReadAt(p) = <<"retriever">> \o p BY <2>2 DEF ReadAt
    <3>2. PICK x : x = <<"retriever">> \o p OBVIOUS
    <3>3. p \in DOMAIN loose /\ loose[p] = t[p] BY <2>2, <1>6
    <3>4. x \in DOMAIN below /\ below[x] = loose[p] BY <3>2, <3>3, <1>7
    <3>5. x \notin DOMAIN own
      <4>1. "retriever" \in Keys BY DEF Keys, Sections
      <4>2. p \in Paths BY DEF Flat
      <4>3. Head(x) = "retriever" BY <3>2, <4>1, <4>2, BelowIs
      <4> QED BY <4>3, <1>5 DEF Flat
    <3> QED BY <3>1, <3>2, <3>3, <3>4, <3>5, <1>9
  <2> QED BY <2>1, <2>2
<1> QED BY <1>8, <1>9, <1>10, <1>11

(* Flat files can be read one by one, or merged and then read. *)
LEMMA FlatMerge ==
  ASSUME NEW T, NEW n \in Nat, NEW M, IsMerge(M, T, 1, n), \A i \in 1..n : Flat(T[i]),
         NEW R, \A i \in 1..n : R[i] = Normalized(T[i])
  PROVE  IsMerge(Normalized(M), R, 1, n)
<1>1. PICK L : L = Normalized(M) OBVIOUS
<1>2. /\ \A p : p \in DOMAIN M <=> \E i \in 1..n : Decides(T, 1, i, p)
      /\ \A i \in 1..n : \A p : Decides(T, 1, i, p) => M[p] = T[i][p]
  BY DEF IsMerge
<1>3. Flat(M)
  <2>1. \A p \in DOMAIN M : \E i \in 1..n : p \in DOMAIN T[i] BY <1>2 DEF Decides
  <2>2. \A i \in 1..n : \A p \in DOMAIN T[i] : p \in Paths /\ Head(p) # "retriever" BY DEF Flat
  <2> QED BY <2>1, <2>2 DEF Flat
<1>4. /\ \A x : x \in DOMAIN L <=> \E p \in DOMAIN M : x = ReadAt(p)
      /\ \A p \in DOMAIN M : L[ReadAt(p)] = M[p]
      /\ L = [x \in DOMAIN L |-> L[x]]
  <2>1. \A x : x \in DOMAIN Normalized(M) <=> \E p \in DOMAIN M : x = ReadAt(p) BY <1>3, FlatRead
  <2>2. \A p \in DOMAIN M : Normalized(M)[ReadAt(p)] = M[p] BY <1>3, FlatRead
  <2>3. Normalized(M) = [x \in DOMAIN Normalized(M) |-> Normalized(M)[x]] BY <1>3, FlatRead
  <2> QED BY <1>1, <2>1, <2>2, <2>3
<1>5. ASSUME NEW i \in 1..n
      PROVE  /\ \A x : x \in DOMAIN R[i] <=> \E p \in DOMAIN T[i] : x = ReadAt(p)
             /\ \A p \in DOMAIN T[i] : R[i][ReadAt(p)] = T[i][p]
  <2>1. PICK t : t = T[i] OBVIOUS
  <2>2. Flat(t) BY <2>1
  <2>3. \A x : x \in DOMAIN Normalized(t) <=> \E p \in DOMAIN t : x = ReadAt(p) BY <2>2, FlatRead
  <2>4. \A p \in DOMAIN t : Normalized(t)[ReadAt(p)] = t[p] BY <2>2, FlatRead
  <2>5. R[i] = Normalized(t) BY <2>1
  <2> QED BY <2>1, <2>3, <2>4, <2>5
<1>6. ASSUME NEW i \in 1..n, NEW p \in DOMAIN T[i]
      PROVE  Decides(R, 1, i, ReadAt(p)) <=> Decides(T, 1, i, p)
  <2>1. ReadAt(p) \in DOMAIN R[i] BY <1>5
  <2>2. p \in Paths /\ Head(p) # "retriever" BY DEF Flat
  <2>3. ASSUME NEW j \in 1..(i - 1)
        PROVE  (\A x \in DOMAIN R[j] : ~Comparable(ReadAt(p), x))
               <=> (\A q \in DOMAIN T[j] : ~Comparable(p, q))
    <3>1. j \in 1..n OBVIOUS
    <3>2. \A q \in DOMAIN T[j] : q \in Paths /\ Head(q) # "retriever" BY <3>1 DEF Flat
    <3>3. \A q \in DOMAIN T[j] : Comparable(ReadAt(p), ReadAt(q)) <=> Comparable(p, q)
      BY <2>2, <3>2, ReadAtIs
    <3>4. \A x : x \in DOMAIN R[j] <=> \E q \in DOMAIN T[j] : x = ReadAt(q) BY <3>1, <1>5
    <3> QED BY <3>3, <3>4
  <2> QED BY <2>1, <2>3 DEF Decides
<1>7. ASSUME NEW i \in 1..n, NEW x, Decides(R, 1, i, x)
      PROVE  \E p \in DOMAIN T[i] : x = ReadAt(p) /\ Decides(T, 1, i, p)
  <2>1. x \in DOMAIN R[i] BY <1>7 DEF Decides
  <2>2. PICK p \in DOMAIN T[i] : x = ReadAt(p) BY <2>1, <1>5
  <2> QED BY <2>2, <1>6, <1>7
<1>8. \A x : x \in DOMAIN L <=> \E i \in 1..n : Decides(R, 1, i, x)
  <2> TAKE x
  <2>1. ASSUME x \in DOMAIN L PROVE \E i \in 1..n : Decides(R, 1, i, x)
    <3>1. PICK p \in DOMAIN M : x = ReadAt(p) BY <2>1, <1>4
    <3>2. PICK i \in 1..n : Decides(T, 1, i, p) BY <3>1, <1>2
    <3>3. p \in DOMAIN T[i] BY <3>2 DEF Decides
    <3> QED BY <3>1, <3>2, <3>3, <1>6
  <2>2. ASSUME NEW i \in 1..n, Decides(R, 1, i, x) PROVE x \in DOMAIN L
    <3>1. PICK p \in DOMAIN T[i] : x = ReadAt(p) /\ Decides(T, 1, i, p) BY <2>2, <1>7
    <3>2. p \in DOMAIN M BY <3>1, <1>2
    <3> QED BY <3>1, <3>2, <1>4
  <2> QED BY <2>1, <2>2
<1>9. ASSUME NEW i \in 1..n, NEW x, Decides(R, 1, i, x) PROVE L[x] = R[i][x]
  <2>1. PICK p \in DOMAIN T[i] : x = ReadAt(p) /\ Decides(T, 1, i, p) BY <1>9, <1>7
  <2>2. p \in DOMAIN M /\ M[p] = T[i][p] BY <2>1, <1>2
  <2>3. L[x] = M[p] BY <2>1, <2>2, <1>4
  <2>4. R[i][x] = T[i][p] BY <2>1, <1>5
  <2> QED BY <2>2, <2>3, <2>4
<1> QED BY <1>1, <1>4, <1>8, <1>9 DEF IsMerge

(* Trees with the same leaves and the same values are the same.            *)
LEMMA SameTree ==
  ASSUME NEW M, NEW L, M = [p \in DOMAIN M |-> M[p]], L = [p \in DOMAIN L |-> L[p]],
         \A p : p \in DOMAIN M <=> p \in DOMAIN L, \A p \in DOMAIN M : M[p] = L[p]
  PROVE  M = L
<1>1. PICK D : D = DOMAIN M OBVIOUS
<1>2. DOMAIN L = D BY <1>1
<1>3. M = [p \in D |-> M[p]] /\ L = [p \in D |-> L[p]] BY <1>1, <1>2
<1>4. [p \in D |-> M[p]] = [p \in D |-> L[p]] BY <1>1
<1> QED BY <1>3, <1>4

(* What the nearest speaker decides is a merge. *)
LEMMA NearestIs ==
  ASSUME NEW n \in Nat, NEW T, DOMAIN T = 1..n, InPaths(T, 1, n)
  PROVE  IsMerge(Nearest(T), T, 1, n)
<1> DEFINE Speaks(i, p) == /\ \E q \in DOMAIN T[i] : Comparable(p, q)
                           /\ \A j \in 1..(i - 1) : \A q \in DOMAIN T[j] : ~Comparable(p, q)
<1> DEFINE speaker(p) == CHOOSE i \in 1..n : Speaks(i, p)
<1> DEFINE places == {p \in UNION {DOMAIN T[i] : i \in 1..n} : p \in DOMAIN T[speaker(p)]}
<1>1. Nearest(T) = [p \in places |-> T[speaker(p)][p]] BY DEF Nearest
<1>2. \A i, k \in 1..n : \A p : Speaks(i, p) /\ Speaks(k, p) => i = k
  <2> SUFFICES ASSUME NEW i \in 1..n, NEW k \in 1..n, NEW p, Speaks(i, p), Speaks(k, p), i < k
               PROVE  FALSE
    <3>1. \A i, k \in 1..n : i < k \/ k < i \/ i = k OBVIOUS
    <3> HIDE DEF Speaks
    <3> QED BY <3>1
  <2>1. i \in 1..(k - 1) OBVIOUS
  <2> QED BY <2>1
<1>3. ASSUME NEW k \in 1..n, NEW p \in DOMAIN T[k] PROVE \E i \in 1..n : Speaks(i, p)
  <2> DEFINE S == {i \in 1..n : \E q \in DOMAIN T[i] : Comparable(p, q)}
  <2>1. p \in Paths BY DEF InPaths
  <2>2. k \in S BY <2>1, SelfComparable
  <2>3. PICK i \in S : \A m \in S : i <= m
    <3>1. S \in SUBSET Nat /\ S # {} BY <2>2
    <3> HIDE DEF S
    <3> QED BY <3>1, LeastNatural
  <2>4. ASSUME NEW j \in 1..(i - 1), NEW q \in DOMAIN T[j] PROVE ~Comparable(p, q)
    <3>1. j \in 1..n /\ ~(i <= j) OBVIOUS
    <3>2. j \notin S BY <2>3, <3>1
    <3> QED BY <3>1, <3>2
  <2>5. Speaks(i, p) BY <2>4
  <2> QED BY <2>5
<1>4. ASSUME NEW p, \E i \in 1..n : Speaks(i, p)
      PROVE  speaker(p) \in 1..n /\ Speaks(speaker(p), p)
  <2> HIDE DEF Speaks
  <2> QED BY <1>4
<1>5. ASSUME NEW i \in 1..n, NEW p, Decides(T, 1, i, p) PROVE p \in places /\ speaker(p) = i
  <2>1. p \in DOMAIN T[i] /\ p \in Paths BY <1>5 DEF Decides, InPaths
  <2>2. Speaks(i, p) BY <1>5, <2>1, SelfComparable DEF Decides
  <2>3. speaker(p) = i
    <3>1. speaker(p) \in 1..n /\ Speaks(speaker(p), p)
      <4> HIDE DEF speaker, Speaks
      <4> QED BY <2>2, <1>4
    <3> HIDE DEF speaker, Speaks
    <3> QED BY <3>1, <2>2, <1>2
  <2> HIDE DEF speaker, Speaks
  <2> QED BY <2>1, <2>3
<1>6. ASSUME NEW p \in places PROVE speaker(p) \in 1..n /\ Decides(T, 1, speaker(p), p)
  <2>1. PICK k \in 1..n : p \in DOMAIN T[k]
    <3> HIDE DEF speaker
    <3> QED OBVIOUS
  <2>2. \E i \in 1..n : Speaks(i, p)
    <3> HIDE DEF Speaks
    <3> QED BY <2>1, <1>3
  <2>3. speaker(p) \in 1..n /\ Speaks(speaker(p), p)
    <3> HIDE DEF Speaks, speaker
    <3> QED BY <2>2, <1>4
  <2>4. p \in DOMAIN T[speaker(p)]
    <3> HIDE DEF speaker
    <3> QED OBVIOUS
  <2> HIDE DEF speaker
  <2> QED BY <2>3, <2>4 DEF Decides
<1> HIDE DEF speaker, Speaks
<1>7. PICK M : M = Nearest(T) OBVIOUS
<1>8. DOMAIN M = places /\ (\A p \in places : M[p] = T[speaker(p)][p])
      /\ M = [p \in DOMAIN M |-> M[p]]
  <2> HIDE DEF places
  <2> QED BY <1>1, <1>7
<1> HIDE DEF places
<1>9. \A p : p \in DOMAIN M <=> \E i \in 1..n : Decides(T, 1, i, p) BY <1>5, <1>6, <1>8
<1>10. \A i \in 1..n : \A p : Decides(T, 1, i, p) => M[p] = T[i][p] BY <1>5, <1>8
<1> QED BY <1>7, <1>8, <1>9, <1>10 DEF IsMerge

-----------------------------------------------------------------------------
(* The servers' own files below all.                                       *)

(* Short paths are paths.                                                  *)
LEMMA TuplesTyped ==
  ASSUME NEW K, NEW a \in K, NEW b \in K, NEW c \in K, NEW d \in K
  PROVE  /\ <<a>> \in Seq(K) \ {<<>>}
         /\ <<a, b>> \in Seq(K) \ {<<>>} /\ Len(<<a, b>>) > 1
         /\ <<a, b, c>> \in Seq(K) \ {<<>>} /\ Len(<<a, b, c>>) > 1
         /\ <<a, b, c, d>> \in Seq(K) \ {<<>>} /\ Len(<<a, b, c, d>>) > 1
<1>1. <<a>> \in Seq(K) OBVIOUS
<1>2. <<a, b>> \in Seq(K) OBVIOUS
<1>3. <<a, b, c>> \in Seq(K) OBVIOUS
<1>4. <<a, b, c, d>> \in Seq(K) OBVIOUS
<1>5. Len(<<a>>) = 1 /\ Len(<<a, b>>) = 2 /\ Len(<<a, b, c>>) = 3 /\ Len(<<a, b, c, d>>) = 4
  OBVIOUS
<1>6. Len(<<>>) = 0 OBVIOUS
<1> QED BY <1>1, <1>2, <1>3, <1>4, <1>5, <1>6

(* Where the runtime sets a leaf is a path below a section.                *)
LEMMA SetPlacesTyped == \A p \in SetPlaces : p \in Paths /\ Len(p) > 1
<1>1. ASSUME NEW p \in RuntimePlaces PROVE p \in Paths
  <2>1. \E a, b, c \in Keys : p = <<a>> \/ p = <<a, b, c>> BY DEF RuntimePlaces, Keys
  <2>2. PICK a \in Keys, b \in Keys, c \in Keys : p = <<a>> \/ p = <<a, b, c>> BY <2>1
  <2>3. <<a>> \in Seq(Keys) \ {<<>>} /\ <<a, b, c>> \in Seq(Keys) \ {<<>>} BY TuplesTyped
  <2> QED BY <2>2, <2>3 DEF Paths
<1>2. ASSUME NEW p \in RuntimePlaces
      PROVE  <<"retriever">> \o p \in Paths /\ Len(<<"retriever">> \o p) > 1
  <2>1. "retriever" \in Keys BY DEF Keys, Sections
  <2> QED BY <1>1, <2>1, BelowIs
<1>3. ASSUME NEW p \in ModelFields \cup RerankModelFields \cup GpuFields
                      \cup {<<"reranker", "gpu_ids">>} \cup DeviceFields
      PROVE  p \in Paths /\ Len(p) > 1
  <2>1. \E a, b, c, d \in Keys : p = <<a, b>> \/ p = <<a, b, c, d>>
    BY <1>3 DEF ModelFields, RerankModelFields, GpuFields, DeviceFields, Keys, Sections,
                OtherSections
  <2>2. PICK a \in Keys, b \in Keys, c \in Keys, d \in Keys : p = <<a, b>> \/ p = <<a, b, c, d>>
    BY <2>1
  <2>3. /\ <<a, b>> \in Seq(Keys) \ {<<>>} /\ Len(<<a, b>>) > 1
        /\ <<a, b, c, d>> \in Seq(Keys) \ {<<>>} /\ Len(<<a, b, c, d>>) > 1
    BY TuplesTyped
  <2> QED BY <2>2, <2>3 DEF Paths
<1> QED BY <1>2, <1>3 DEF SetPlaces

(* All places of leaves are paths.                                         *)
LEMMA LeafPlacesTyped == LeafPlaces \subseteq Paths
<1>1. "retriever" \in Keys BY DEF Keys, Sections
<1>2. \A p \in FilePlaces : <<"retriever">> \o p \in Paths BY <1>1, PlacesTyped, BelowIs
<1> QED BY <1>2, PlacesTyped, SetPlacesTyped DEF LeafPlaces, GivenPlaces

(* A place of the servers which files say something of is one their merge  *)
(* says something of. *)
LEMMA SpokenOf ==
  ASSUME NEW R, NEW n \in Nat, NEW M, IsMerge(M, R, 1, n), DictsStay,
         \A i \in 1..n : DOMAIN R[i] \subseteq GivenPlaces, NEW p \in DOMAIN ServerTree
  PROVE  (\E q \in DOMAIN M : Comparable(p, q))
         <=> \E i \in 1..n : \E q \in DOMAIN R[i] : Comparable(p, q)
<1>1. ASSUME NEW q \in DOMAIN M, Comparable(p, q)
      PROVE  \E i \in 1..n : \E r \in DOMAIN R[i] : Comparable(p, r)
  <2>1. PICK i \in 1..n : q \in DOMAIN R[i] BY DEF IsMerge, Decides
  <2> QED BY <1>1, <2>1
<1>2. ASSUME NEW k \in 1..n, NEW o \in DOMAIN R[k], Comparable(p, o)
      PROVE  \E q \in DOMAIN M : Comparable(p, q)
  <2> DEFINE S == {i \in 1..n : \E q \in DOMAIN R[i] : Comparable(p, q)}
  <2>1. PICK i \in S : \A m \in S : i <= m
    <3>1. S \in SUBSET Nat OBVIOUS
    <3>2. S # {} BY <1>2
    <3> HIDE DEF S
    <3> QED BY <3>1, <3>2, LeastNatural
  <2>2. PICK q \in DOMAIN R[i] : Comparable(p, q) OBVIOUS
  <2>3. ASSUME NEW j \in 1..(i - 1), NEW r \in DOMAIN R[j] PROVE ~Comparable(q, r)
    <3> SUFFICES ASSUME Comparable(q, r) PROVE FALSE OBVIOUS
    <3>1. i \in 1..n /\ j \in 1..n /\ ~(i <= j) OBVIOUS
    <3>2. j \notin S BY <2>1, <3>1
    <3>3. ~Comparable(p, r) BY <3>1, <3>2
    <3>4. q \in LeafPlaces /\ r \in LeafPlaces /\ r \in GivenPlaces BY <3>1 DEF LeafPlaces
    <3>5. p \in Paths /\ q \in Paths /\ r \in Paths BY <3>4, LeafPlacesTyped, PlacesTyped
    <3>6. PICK K : K = Keys OBVIOUS
    <3>7. p \in Seq(K) /\ q \in Seq(K) /\ r \in Seq(K) BY <3>5, <3>6 DEF Paths
    <3>8. Comparable(q, p) BY <2>2, ComparableBothWays
    <3>9. IsPrefix(q, p) /\ IsPrefix(q, r)
      <4> HIDE DEF S
      <4> QED BY <3>3, <3>7, <3>8, ForkIs
    <3>10. Comparable(p, r) BY <3>4, <3>9 DEF DictsStay
    <3> QED BY <3>3, <3>10
  <2>4. i \in 1..n OBVIOUS
  <2> HIDE DEF S
  <2>5. Decides(R, 1, i, q) BY <2>2, <2>3 DEF Decides
  <2>6. q \in DOMAIN M BY <2>4, <2>5 DEF IsMerge
  <2> QED BY <2>2, <2>6
<1> QED BY <1>1, <1>2

(* Laid over the servers' own files, the merge of the trees is the merge   *)
(* with these as the farthest.                                             *)
LEMMA ServerMerged ==
  ASSUME NEW R, NEW n \in Nat, NEW M, IsMerge(M, R, 1, n), DictsStay,
         \A i \in 1..n : DOMAIN R[i] \subseteq GivenPlaces,
         NEW T, \A i \in 1..n : T[i] = R[i], T[n + 1] = ServerTree
  PROVE  IsMerge(Overlay(ServerTree, M), T, 1, n + 1)
<1>1. PICK L : L = Overlay(ServerTree, M) OBVIOUS
<1>2. DOMAIN ServerTree \subseteq Paths BY PlacesTyped
<1>3. /\ \A p : p \in DOMAIN L <=> \/ p \in DOMAIN M
                                   \/ p \in DOMAIN ServerTree
                                        /\ \A o \in DOMAIN M : ~Comparable(o, p)
      /\ \A p \in DOMAIN M : L[p] = M[p]
      /\ \A p \in DOMAIN ServerTree :
           (\A o \in DOMAIN M : ~Comparable(o, p)) => L[p] = ServerTree[p]
      /\ L = [p \in DOMAIN L |-> L[p]]
  BY <1>1, <1>2, OverlayIs
<1>4. /\ \A p : p \in DOMAIN M <=> \E i \in 1..n : Decides(R, 1, i, p)
      /\ \A i \in 1..n : \A p : Decides(R, 1, i, p) => M[p] = R[i][p]
  BY DEF IsMerge
<1>5. \A i \in 1..n : \A p : Decides(T, 1, i, p) <=> Decides(R, 1, i, p)
  <2> TAKE i \in 1..n
  <2>1. \A j \in 1..(i - 1) : T[j] = R[j] /\ T[i] = R[i] OBVIOUS
  <2> QED BY <2>1 DEF Decides
<1>6. \A p : Decides(T, 1, n + 1, p)
             <=> p \in DOMAIN ServerTree /\ \A o \in DOMAIN M : ~Comparable(o, p)
  <2> TAKE p
  <2>1. n + 1 - 1 = n OBVIOUS
  <2>2. \A j \in 1..n : T[j] = R[j] OBVIOUS
  <2>3. Decides(T, 1, n + 1, p)
        <=> p \in DOMAIN ServerTree /\ \A j \in 1..n : \A q \in DOMAIN R[j] : ~Comparable(p, q)
    BY <2>1, <2>2 DEF Decides
  <2>4. p \in DOMAIN ServerTree => ((\E q \in DOMAIN M : Comparable(p, q))
                                    <=> \E i \in 1..n : \E q \in DOMAIN R[i] : Comparable(p, q))
    BY SpokenOf
  <2>5. \A o : Comparable(p, o) <=> Comparable(o, p) BY ComparableBothWays
  <2> QED BY <2>3, <2>4, <2>5
<1>7. \A i : i \in 1..(n + 1) <=> i \in 1..n \/ i = n + 1 OBVIOUS
<1>8. \A p : p \in DOMAIN L <=> \E i \in 1..(n + 1) : Decides(T, 1, i, p)
  BY <1>3, <1>4, <1>5, <1>6, <1>7
<1>9. ASSUME NEW i \in 1..(n + 1), NEW p, Decides(T, 1, i, p) PROVE L[p] = T[i][p]
  <2>1. CASE i \in 1..n
    <3>1. Decides(R, 1, i, p) BY <2>1, <1>5, <1>9
    <3>2. p \in DOMAIN M /\ M[p] = R[i][p] BY <2>1, <3>1, <1>4
    <3> QED BY <2>1, <3>2, <1>3
  <2>2. CASE i = n + 1
    <3>1. p \in DOMAIN ServerTree /\ \A o \in DOMAIN M : ~Comparable(o, p) BY <2>2, <1>6, <1>9
    <3> QED BY <2>2, <3>1, <1>3
  <2> QED BY <2>1, <2>2, <1>7
<1> QED BY <1>1, <1>3, <1>8, <1>9 DEF IsMerge

(* Sections only: of the servers' own files nothing else is left. *)
LEMMA SectionsOverlaid ==
  ASSUME NEW N, DOMAIN N \subseteq Paths
  PROVE  PickLocal(Overlay(ServerTree, N), Sections) = Overlay(ServerTree, PickLocal(N, Sections))
<1>1. PICK L : L = Overlay(ServerTree, N) OBVIOUS
<1>2. PICK P : P = PickLocal(N, Sections) OBVIOUS
<1>3. DOMAIN ServerTree \subseteq Paths BY PlacesTyped
<1>4. /\ \A p : p \in DOMAIN L <=> \/ p \in DOMAIN N
                                   \/ p \in DOMAIN ServerTree
                                        /\ \A o \in DOMAIN N : ~Comparable(o, p)
      /\ \A p \in DOMAIN N : L[p] = N[p]
      /\ \A p \in DOMAIN ServerTree :
           (\A o \in DOMAIN N : ~Comparable(o, p)) => L[p] = ServerTree[p]
  BY <1>1, <1>3, OverlayIs
<1>5. PICK Q : Q = Overlay(ServerTree, P) OBVIOUS
<1>6. /\ \A p : p \in DOMAIN Q <=> \/ p \in DOMAIN P
                                   \/ p \in DOMAIN ServerTree
                                        /\ \A o \in DOMAIN P : ~Comparable(o, p)
      /\ \A p \in DOMAIN P : Q[p] = P[p]
      /\ \A p \in DOMAIN ServerTree :
           (\A o \in DOMAIN P : ~Comparable(o, p)) => Q[p] = ServerTree[p]
      /\ Q = [p \in DOMAIN Q |-> Q[p]]
  BY <1>3, <1>5, OverlayIs
<1>7. /\ \A p : p \in DOMAIN P <=> p \in DOMAIN N /\ Head(p) \in Sections
      /\ \A p \in DOMAIN P : P[p] = N[p]
  <2>1. \A p : p \in DOMAIN PickLocal(N, Sections) <=> p \in DOMAIN N /\ Head(p) \in Sections
    BY PickLocalIs
  <2>2. \A p \in DOMAIN PickLocal(N, Sections) : PickLocal(N, Sections)[p] = N[p] BY PickLocalIs
  <2> QED BY <1>2, <2>1, <2>2
<1>8. PICK W : W = PickLocal(L, Sections) OBVIOUS
<1>9. /\ \A p : p \in DOMAIN W <=> p \in DOMAIN L /\ Head(p) \in Sections
      /\ \A p \in DOMAIN W : W[p] = L[p]
      /\ W = [p \in DOMAIN W |-> W[p]]
  <2>1. \A p : p \in DOMAIN PickLocal(L, Sections) <=> p \in DOMAIN L /\ Head(p) \in Sections
    BY PickLocalIs
  <2>2. \A p \in DOMAIN PickLocal(L, Sections) : PickLocal(L, Sections)[p] = L[p] BY PickLocalIs
  <2>3. PickLocal(L, Sections) = [p \in DOMAIN PickLocal(L, Sections) |-> PickLocal(L, Sections)[p]]
    BY PickLocalIs
  <2> QED BY <1>8, <2>1, <2>2, <2>3
<1>10. \A p \in DOMAIN ServerTree : Head(p) \in Sections BY ConfigAssumption
<1>11. ASSUME NEW p \in DOMAIN ServerTree
       PROVE  (\A o \in DOMAIN N : ~Comparable(o, p)) <=> (\A o \in DOMAIN P : ~Comparable(o, p))
  <2>1. \A o \in DOMAIN N : Comparable(o, p) => Head(o) = Head(p) BY <1>3, SameHead
  <2> QED BY <2>1, <1>7, <1>10
<1>12. \A p : p \in DOMAIN W <=> p \in DOMAIN Q BY <1>4, <1>6, <1>7, <1>9, <1>10, <1>11
<1>13. ASSUME NEW p \in DOMAIN W PROVE W[p] = Q[p]
  <2>1. W[p] = L[p] /\ p \in DOMAIN L /\ Head(p) \in Sections /\ p \in DOMAIN Q BY <1>9, <1>12
  <2>2. CASE p \in DOMAIN N
    <3>1. p \in DOMAIN P BY <2>1, <2>2, <1>7
    <3> QED BY <2>1, <2>2, <3>1, <1>4, <1>6, <1>7
  <2>3. CASE p \notin DOMAIN N
    <3>1. p \in DOMAIN ServerTree /\ \A o \in DOMAIN N : ~Comparable(o, p) BY <2>1, <2>3, <1>4
    <3>2. \A o \in DOMAIN P : ~Comparable(o, p) BY <3>1, <1>11
    <3> QED BY <2>1, <3>1, <3>2, <1>4, <1>6
  <2> QED BY <2>2, <2>3
<1>14. W = Q BY <1>6, <1>9, <1>12, <1>13, SameTree
<1> QED BY <1>1, <1>2, <1>5, <1>8, <1>14

(* One tree more, behind a list of them. *)
LEMMA OneMore ==
  ASSUME NEW n \in Nat, NEW s, s = [i \in 1..n |-> s[i]], NEW x
  PROVE  /\ DOMAIN (s \o <<x>>) = 1..(n + 1)
         /\ \A i \in 1..n : (s \o <<x>>)[i] = s[i]
         /\ (s \o <<x>>)[n + 1] = x
<1>1. PICK K : K = {s[i] : i \in 1..n} \cup {x} OBVIOUS
<1>2. s \in Seq(K) /\ Len(s) = n
  <2>1. s \in [1..n -> K] BY <1>1
  <2> QED BY <2>1
<1>3. <<x>> \in Seq(K) /\ Len(<<x>>) = 1 /\ <<x>>[1] = x
  <2>1. x \in K BY <1>1
  <2>2. <<x>> \in Seq(K) BY <2>1
  <2>3. Len(<<x>>) = 1 OBVIOUS
  <2>4. <<x>>[1] = x OBVIOUS
  <2> QED BY <2>2, <2>3, <2>4
<1>4. PICK t \in Seq(K) : t = <<x>> BY <1>3
<1>5. s \o t \in Seq(K) /\ Len(s \o t) = n + Len(t) BY <1>2
<1>6. \A i \in 1..n : (s \o t)[i] = s[i] BY <1>2
<1>7. Len(t) = 1 /\ t[1] = x BY <1>3, <1>4
<1>8. (s \o t)[n + 1] = t[1]
  <2>1. \A i \in 1..Len(t) : (s \o t)[Len(s) + i] = t[i] BY <1>2
  <2>2. 1 \in 1..Len(t) BY <1>7
  <2> QED BY <2>1, <2>2, <1>2
<1>9. DOMAIN (s \o t) = 1..(n + 1) BY <1>5, <1>7
<1> QED BY <1>4, <1>6, <1>7, <1>8, <1>9

(* The sections of the merged files, as the files are read one by one. *)
LEMMA ReadMerged ==
  ASSUME NEW f \in ConfigFiles, Bodies, DictsStay,
         NEW n \in Nat, n = Len(Chain(f)), NEW T, T = TreesOf(f), NEW R,
         \A i \in 1..n : R[i] = IF \E k \in 1..n : Nested(T[k]) THEN PickLocal(T[i], Sections)
                                ELSE Normalized(T[i])
  PROVE  /\ IsMerge(PickLocal(Normalized(OverrideOf(f)), Sections), R, 1, n)
         /\ \A i \in 1..n : DOMAIN R[i] \subseteq GivenPlaces
         /\ DOMAIN Normalized(OverrideOf(f)) \subseteq GivenPlaces
         /\ \A p \in DOMAIN Normalized(OverrideOf(f)) : Head(p) \in Sections => Len(p) > 1
<1>1. PICK M : M = OverrideOf(f) OBVIOUS
<1>2. IsMerge(M, T, 1, n) BY <1>1, OverrideIs
<1>3. \A i \in 1..n : DOMAIN T[i] \subseteq FilePlaces BY TreesTyped
<1>4. InPaths(T, 1, n) BY <1>3, PlacesTyped DEF InPaths
<1>5. Nested(M) <=> \E i \in 1..n : Nested(T[i]) BY <1>2, <1>3, NestedIs
<1>6. DOMAIN M \subseteq FilePlaces
  <2>1. \A p \in DOMAIN M : \E i \in 1..n : p \in DOMAIN T[i] BY <1>2 DEF IsMerge, Decides
  <2> QED BY <2>1, <1>3
<1>7. FilePlaces \subseteq GivenPlaces BY DEF GivenPlaces
<1>8. \A p \in FilePlaces : Head(p) \in Sections => Len(p) > 1
  <2> TAKE p \in FilePlaces
  <2> HAVE Head(p) \in Sections
  <2>1. Len(p) # 1 BY DEF DictsStay
  <2>2. p \in Seq(Keys) /\ p # <<>> BY PlacesTyped DEF Paths
  <2>3. PICK m \in Nat : m = Len(p) BY <2>2
  <2>4. m # 0 BY <2>2, <2>3
  <2> QED BY <2>1, <2>3, <2>4
<1>9. CASE \E i \in 1..n : Nested(T[i])
  <2>1. Normalized(M) = M BY <1>5, <1>9 DEF Normalized
  <2>2. \A i \in 1..n : R[i] = PickLocal(T[i], Sections) BY <1>9
  <2>3. IsMerge(PickLocal(M, Sections), R, 1, n) BY <1>2, <1>4, <2>2, PickedMerge
  <2>4. \A i \in 1..n : DOMAIN R[i] \subseteq GivenPlaces
    <3>1. \A i \in 1..n : \A p \in DOMAIN PickLocal(T[i], Sections) : p \in DOMAIN T[i]
      BY PickLocalIs
    <3> QED BY <3>1, <2>2, <1>3, <1>7
  <2> QED BY <1>1, <1>6, <1>7, <1>8, <2>1, <2>3, <2>4
<1>10. CASE ~\E i \in 1..n : Nested(T[i])
  <2>1. ASSUME NEW i \in 1..n PROVE Flat(T[i])
    <3>1. ASSUME NEW p \in DOMAIN T[i], Head(p) = "retriever" PROVE FALSE
      <4>1. Head(p) \in Sections BY <3>1 DEF Sections
      <4>2. Len(p) > 1 BY <4>1, <1>3, <1>8
      <4>3. Nested(T[i]) BY <3>1, <4>2 DEF Nested
      <4> QED BY <4>3, <1>10
    <3> QED BY <3>1, <1>4 DEF Flat, InPaths
  <2>2. \A i \in 1..n : R[i] = Normalized(T[i]) BY <1>10
  <2>3. IsMerge(Normalized(M), R, 1, n) BY <1>2, <2>1, <2>2, FlatMerge
  <2>4. Flat(M)
    <3>1. \A p \in DOMAIN M : \E i \in 1..n : p \in DOMAIN T[i] BY <1>2 DEF IsMerge, Decides
    <3> QED BY <3>1, <2>1 DEF Flat
  <2>5. \A p \in FilePlaces : ReadAt(p) \in GivenPlaces BY DEF ReadAt, GivenPlaces
  <2>6. ASSUME NEW t, Flat(t), DOMAIN t \subseteq FilePlaces
        PROVE  /\ DOMAIN Normalized(t) \subseteq GivenPlaces
               /\ \A x \in DOMAIN Normalized(t) : Head(x) \in Sections /\ Len(x) > 1
    <3>1. ASSUME NEW x \in DOMAIN Normalized(t)
          PROVE  x \in GivenPlaces /\ Head(x) \in Sections /\ Len(x) > 1
      <4>1. PICK p \in DOMAIN t : x = ReadAt(p) BY <2>6, FlatRead
      <4>2. p \in FilePlaces /\ p \in Paths /\ Head(p) # "retriever" BY <2>6 DEF Flat
      <4>3. Head(ReadAt(p)) \in Sections BY <4>2, ReadAtIs
      <4>4. Len(ReadAt(p)) > 1
        <5>1. CASE Head(p) \in OtherSections
          <6>1. Head(p) \in Sections /\ ReadAt(p) = p BY <5>1 DEF ReadAt, Sections
          <6> QED BY <6>1, <4>2, <1>8
        <5>2. CASE Head(p) \notin OtherSections
          <6>1. ReadAt(p) = <<"retriever">> \o p BY <5>2 DEF ReadAt
          <6>2. "retriever" \in Keys BY DEF Keys, Sections
          <6>3. Len(<<"retriever">> \o p) > 1 BY <6>2, <4>2, BelowIs
          <6> QED BY <6>1, <6>3
        <5> QED BY <5>1, <5>2
      <4> QED BY <4>1, <4>2, <4>3, <4>4, <2>5
    <3> QED BY <3>1
  <2>7. PICK N : N = Normalized(M) OBVIOUS
  <2>8. DOMAIN N \subseteq GivenPlaces /\ \A x \in DOMAIN N : Head(x) \in Sections /\ Len(x) > 1
    BY <2>4, <2>6, <2>7, <1>6
  <2>9. PickLocal(N, Sections) = N
    <3>1. PICK P : P = PickLocal(N, Sections) OBVIOUS
    <3>2. \A p : p \in DOMAIN PickLocal(N, Sections) <=> p \in DOMAIN N /\ Head(p) \in Sections
      BY PickLocalIs
    <3>3. \A p \in DOMAIN PickLocal(N, Sections) : PickLocal(N, Sections)[p] = N[p] BY PickLocalIs
    <3>4. PickLocal(N, Sections)
          = [p \in DOMAIN PickLocal(N, Sections) |-> PickLocal(N, Sections)[p]]
      BY PickLocalIs
    <3>5. N = [p \in DOMAIN N |-> N[p]] BY <2>3, <2>7 DEF IsMerge
    <3>6. \A p : p \in DOMAIN P <=> p \in DOMAIN N BY <3>1, <3>2, <2>8
    <3>7. \A p \in DOMAIN P : P[p] = N[p] BY <3>1, <3>3
    <3>8. P = [p \in DOMAIN P |-> P[p]] BY <3>1, <3>4
    <3>9. P = N BY <3>5, <3>6, <3>7, <3>8, SameTree
    <3> QED BY <3>1, <3>9
  <2>10. \A i \in 1..n : DOMAIN R[i] \subseteq GivenPlaces BY <2>1, <2>2, <2>6, <1>3
  <2> QED BY <1>1, <2>3, <2>7, <2>8, <2>9, <2>10
<1> QED BY <1>9, <1>10

(* Every key takes effect. *)
LEMMA LoadIsSays ==
  ASSUME NEW f \in ConfigFiles, Bodies, DictsStay
  PROVE  PickLocal(Load(f), Sections) = Says(f)
<1>1. PICK n \in Nat : Len(Chain(f)) = n /\ DOMAIN Chain(f) = 1..n BY ChainIs
<1>2. PICK T : T = TreesOf(f) OBVIOUS
<1>3. \A i \in 1..n : T[i] = body[Chain(f)[i]].tree BY <1>1, <1>2 DEF TreesOf
<1> DEFINE nested == \E k \in 1..n : Nested(body[Chain(f)[k]].tree)
<1> DEFINE read(t) == IF nested THEN PickLocal(t, Sections) ELSE Normalized(t)
<1>4. PICK R : R = [i \in 1..n |-> read(body[Chain(f)[i]].tree)] OBVIOUS
<1>5. Says(f) = Nearest(R \o <<ServerTree>>) BY <1>1, <1>4 DEF Says
<1>6. nested <=> \E k \in 1..n : Nested(T[k]) BY <1>3
<1>7. \A i \in 1..n : R[i] = IF \E k \in 1..n : Nested(T[k]) THEN PickLocal(T[i], Sections)
                            ELSE Normalized(T[i])
  <2> HIDE DEF nested
  <2> QED BY <1>3, <1>4, <1>6
<1>8. R = [i \in 1..n |-> R[i]] BY <1>4
<1> HIDE DEF nested, read
<1>9. PICK N : N = Normalized(OverrideOf(f)) OBVIOUS
<1>10. IsMerge(PickLocal(N, Sections), R, 1, n) BY <1>1, <1>2, <1>7, <1>9, ReadMerged
<1>11. \A i \in 1..n : DOMAIN R[i] \subseteq GivenPlaces BY <1>1, <1>2, <1>7, ReadMerged
<1>12. DOMAIN N \subseteq GivenPlaces BY <1>1, <1>2, <1>7, <1>9, ReadMerged
<1>13. PICK U : U = R \o <<ServerTree>> OBVIOUS
<1>14. DOMAIN U = 1..(n + 1) /\ (\A i \in 1..n : U[i] = R[i]) /\ U[n + 1] = ServerTree
  <2>1. PICK x : x = ServerTree OBVIOUS
  <2>2. /\ DOMAIN (R \o <<x>>) = 1..(n + 1)
        /\ \A i \in 1..n : (R \o <<x>>)[i] = R[i]
        /\ (R \o <<x>>)[n + 1] = x
    BY <1>8, OneMore
  <2> QED BY <2>1, <2>2, <1>13
<1>15. PICK P : P = PickLocal(N, Sections) OBVIOUS
<1>16. IsMerge(Overlay(ServerTree, P), U, 1, n + 1)
  BY <1>10, <1>11, <1>14, <1>15, ServerMerged
<1>17. InPaths(U, 1, n + 1)
  <2>1. \A i \in 1..(n + 1) : i \in 1..n \/ i = n + 1 OBVIOUS
  <2>2. \A i \in 1..(n + 1) : DOMAIN U[i] \subseteq LeafPlaces
    BY <2>1, <1>11, <1>14 DEF LeafPlaces
  <2> QED BY <2>2, LeafPlacesTyped DEF InPaths
<1>18. IsMerge(Nearest(U), U, 1, n + 1)
  <2>1. n + 1 \in Nat OBVIOUS
  <2> QED BY <2>1, <1>14, <1>17, NearestIs
<1>19. Overlay(ServerTree, P) = Nearest(U) BY <1>16, <1>18, OneMerge
<1>20. PickLocal(Overlay(ServerTree, N), Sections) = Overlay(ServerTree, P)
  <2>1. DOMAIN N \subseteq Paths BY <1>12, LeafPlacesTyped DEF LeafPlaces
  <2> QED BY <2>1, <1>15, SectionsOverlaid
<1>21. Load(f) = Overlay(ServerTree, N) BY <1>9 DEF Load, WithDefaults
<1> QED BY <1>5, <1>13, <1>19, <1>20, <1>21

(* Trees whose leaves are where they may be, below the sections' names;    *)
(* and those that say something of every place the servers have.           *)
Placed(t) == DOMAIN t \subseteq LeafPlaces /\ \A p \in DOMAIN t : Head(p) \in Sections => Len(p) > 1
Covers(t) == \A p \in DOMAIN ServerTree : \E q \in DOMAIN t : Comparable(p, q)

(* Laid over one another, leaves stay where they may be.                   *)
LEMMA OverlaidPlaced ==
  ASSUME NEW t, NEW over, Placed(t), Placed(over)
  PROVE  Placed(Overlay(t, over))
<1>1. DOMAIN t \subseteq Paths BY LeafPlacesTyped DEF Placed
<1>2. \A p \in DOMAIN Overlay(t, over) : p \in DOMAIN over \/ p \in DOMAIN t BY <1>1, OverlayIs
<1>3. PICK o : o = Overlay(t, over) OBVIOUS
<1>4. \A p \in DOMAIN o : p \in LeafPlaces /\ (Head(p) \in Sections => Len(p) > 1)
  BY <1>2, <1>3 DEF Placed
<1>5. Placed(o) BY <1>4 DEF Placed
<1> QED BY <1>3, <1>5

(* The leaves of the servers' own files are where they may be.             *)
LEMMA ServersPlaced == Placed(ServerTree)
<1>1. DOMAIN ServerTree \subseteq LeafPlaces BY DEF LeafPlaces
<1>2. \A p \in DOMAIN ServerTree : Len(p) > 1 BY ConfigAssumption
<1> QED BY <1>1, <1>2 DEF Placed

(* Over the servers' own files something is said of each of their places.  *)
LEMMA ServersCovered ==
  ASSUME NEW t, Placed(t)
  PROVE  Covers(Overlay(ServerTree, t))
<1>1. DOMAIN ServerTree \subseteq Paths BY PlacesTyped
<1>2. PICK o : o = Overlay(ServerTree, t) OBVIOUS
<1>3. \A p : p \in DOMAIN o <=> \/ p \in DOMAIN t
                                \/ p \in DOMAIN ServerTree /\ \A q \in DOMAIN t : ~Comparable(q, p)
  BY <1>1, <1>2, OverlayIs
<1>4. ASSUME NEW p \in DOMAIN ServerTree PROVE \E q \in DOMAIN o : Comparable(p, q)
  <2>1. CASE p \in DOMAIN o
    <3>1. Comparable(p, p) BY <1>1, SelfComparable
    <3> QED BY <2>1, <3>1
  <2>2. CASE p \notin DOMAIN o
    <3>1. PICK q \in DOMAIN t : Comparable(q, p) BY <2>2, <1>3
    <3>2. q \in DOMAIN o BY <1>3
    <3>3. Comparable(p, q) BY <3>1, ComparableBothWays
    <3> QED BY <3>2, <3>3
  <2> QED BY <2>1, <2>2
<1>5. Covers(o) BY <1>4 DEF Covers
<1> QED BY <1>2, <1>5

(* What the runtime sets takes no place of the servers away.               *)
LEMMA StaysCovered ==
  ASSUME NEW t, NEW over, Placed(t), DOMAIN over \subseteq SetPlaces, Covers(t), DictsStay
  PROVE  Covers(Overlay(t, over))
<1>1. DOMAIN t \subseteq Paths /\ DOMAIN over \subseteq Paths /\ DOMAIN ServerTree \subseteq Paths
  BY LeafPlacesTyped, PlacesTyped, SetPlacesTyped DEF Placed
<1>2. PICK o : o = Overlay(t, over) OBVIOUS
<1>3. \A p : p \in DOMAIN o <=> \/ p \in DOMAIN over
                                \/ p \in DOMAIN t /\ \A q \in DOMAIN over : ~Comparable(q, p)
  BY <1>1, <1>2, OverlayIs
<1>4. ASSUME NEW p \in DOMAIN ServerTree PROVE \E q \in DOMAIN o : Comparable(p, q)
  <2>1. PICK q \in DOMAIN t : Comparable(p, q) BY DEF Covers
  <2>2. CASE q \in DOMAIN o BY <2>1, <2>2
  <2>3. CASE q \notin DOMAIN o
    <3>1. PICK r \in DOMAIN over : Comparable(r, q) BY <2>3, <1>3
    <3>2. r \in DOMAIN o BY <1>3
    <3>3. Comparable(p, r)
      <4> SUFFICES ASSUME ~Comparable(p, r) PROVE FALSE OBVIOUS
      <4>1. PICK K : K = Keys OBVIOUS
      <4>2. p \in Seq(K) /\ q \in Seq(K) /\ r \in Seq(K) BY <1>1, <4>1 DEF Paths
      <4>3. Comparable(q, p) /\ Comparable(q, r) BY <2>1, <3>1, ComparableBothWays
      <4>4. IsPrefix(q, p) /\ IsPrefix(q, r) BY <4>2, <4>3, ForkIs
      <4>5. q \in LeafPlaces /\ r \in GivenPlaces BY DEF Placed, GivenPlaces
      <4> QED BY <4>4, <4>5 DEF DictsStay
    <3> QED BY <3>2, <3>3
  <2> QED BY <2>2, <2>3
<1>5. Covers(o) BY <1>4 DEF Covers
<1> QED BY <1>2, <1>5

-----------------------------------------------------------------------------
(* The profile of a knowledge base.                                        *)

(* What the runtime sets is where leaves may be.                           *)
LEMMA SetsPlaced ==
  ASSUME NEW t, DOMAIN t \subseteq SetPlaces
  PROVE  Placed(t)
BY SetPlacesTyped DEF Placed, LeafPlaces, GivenPlaces

(* The parameters of a file, the servers' own below them.                  *)
LEMMA LoadPlaced ==
  ASSUME NEW f \in ConfigFiles, Bodies, DictsStay
  PROVE  Placed(Load(f)) /\ Nested(Load(f))
<1>1. PICK n \in Nat : n = Len(Chain(f)) BY ChainIs
<1>2. PICK T : T = TreesOf(f) OBVIOUS
<1>3. PICK R : R = [i \in 1..n |-> IF \E k \in 1..n : Nested(T[k]) THEN PickLocal(T[i], Sections)
                                   ELSE Normalized(T[i])]
  OBVIOUS
<1>4. \A i \in 1..n : R[i] = IF \E k \in 1..n : Nested(T[k]) THEN PickLocal(T[i], Sections)
                             ELSE Normalized(T[i])
  BY <1>3
<1>5. PICK N : N = Normalized(OverrideOf(f)) OBVIOUS
<1>6. DOMAIN N \subseteq GivenPlaces /\ \A p \in DOMAIN N : Head(p) \in Sections => Len(p) > 1
  BY <1>1, <1>2, <1>4, <1>5, ReadMerged
<1>7. Placed(N) BY <1>6 DEF Placed, LeafPlaces
<1>8. Load(f) = Overlay(ServerTree, N) BY <1>5 DEF Load, WithDefaults
<1>9. PICK L : L = Overlay(ServerTree, N) OBVIOUS
<1>10. Placed(L) BY <1>7, <1>9, ServersPlaced, OverlaidPlaced
<1>11. Covers(L) BY <1>7, <1>9, ServersCovered
<1>12. Nested(L)
  <2>1. PICK p \in DOMAIN ServerTree : Head(p) = "retriever" BY ConfigAssumption
  <2>2. PICK q \in DOMAIN L : Comparable(p, q) BY <1>11 DEF Covers
  <2>3. p \in Paths /\ q \in Paths BY <1>10, LeafPlacesTyped, PlacesTyped DEF Placed
  <2>4. Head(q) = "retriever" BY <2>1, <2>2, <2>3, SameHead
  <2>5. Len(q) > 1 BY <2>4, <1>10 DEF Placed, Sections
  <2> QED BY <2>4, <2>5 DEF Nested
<1> QED BY <1>8, <1>9, <1>10, <1>12

(* The tree before a process puts in its devices. *)
Named(f, uri) == CanonicalModels(Overlay(WithDefaults(Load(f)), RuntimeOverrides(uri)))

(* The parameters with the index and the models named.                     *)
LEMMA NamedIs ==
  ASSUME NEW f \in ConfigFiles, Bodies, DictsStay, NEW uri
  PROVE  Placed(Named(f, uri)) /\ Covers(Named(f, uri))
<1>1. PICK L : L = Load(f) OBVIOUS
<1>2. Placed(L) /\ Nested(L) BY <1>1, LoadPlaced
<1>3. PICK D : D = Overlay(ServerTree, L) OBVIOUS
<1>4. WithDefaults(L) = D BY <1>2, <1>3 DEF WithDefaults, Normalized
<1>5. Placed(D) /\ Covers(D) BY <1>2, <1>3, ServersPlaced, OverlaidPlaced, ServersCovered
<1>6. PICK o : o = RuntimeOverrides(uri) OBVIOUS
<1>7. Placed(o) /\ DOMAIN o \subseteq SetPlaces
  <2>1. DOMAIN o = {<<"retriever">> \o p : p \in RuntimePlaces}
    BY <1>6 DEF RuntimeOverrides, Under
  <2>2. DOMAIN o \subseteq SetPlaces BY <2>1 DEF SetPlaces
  <2> QED BY <2>2, SetsPlaced
<1>8. PICK M : M = Overlay(D, o) OBVIOUS
<1>9. Placed(M) /\ Covers(M) BY <1>5, <1>7, <1>8, OverlaidPlaced, StaysCovered
<1>10. PICK a : a = [p \in ModelFields |->
                      CanonicalModel(Value(M, <<"retriever", "model_name_or_path">>))]
  OBVIOUS
<1>11. PICK b : b = [p \in IF DOMAIN Section(M, "reranker") # {} THEN RerankModelFields ELSE {} |->
                      CanonicalModel(Value(M, <<"reranker", "model_name_or_path">>))]
  OBVIOUS
<1>12. PICK c : c = Over(a, b) OBVIOUS
<1>13. CanonicalModels(M) = Overlay(M, c) BY <1>10, <1>11, <1>12 DEF CanonicalModels
<1>14. Placed(c) /\ DOMAIN c \subseteq SetPlaces
  <2>1. DOMAIN a = ModelFields /\ DOMAIN b \subseteq RerankModelFields BY <1>10, <1>11
  <2>2. DOMAIN c = DOMAIN a \cup DOMAIN b BY <1>12 DEF Over
  <2>3. DOMAIN c \subseteq SetPlaces BY <2>1, <2>2 DEF SetPlaces
  <2> QED BY <2>3, SetsPlaced
<1>15. Placed(Overlay(M, c)) /\ Covers(Overlay(M, c))
  BY <1>9, <1>14, OverlaidPlaced, StaysCovered
<1>16. Named(f, uri) = Overlay(M, c) BY <1>1, <1>4, <1>6, <1>8, <1>13 DEF Named
<1> QED BY <1>15, <1>16

(* A process puts in its devices only. *)
LEMMA ProfileIs ==
  ASSUME NEW t, NEW env
  PROVE  \/ AcceleratorProfile(t, env) = t
         \/ \E place : /\ AcceleratorProfile(t, env) = Overlay(t, place)
                       /\ DOMAIN place \subseteq GpuFields \cup {<<"reranker", "gpu_ids">>}
                                                 \cup DeviceFields
<1>1. PICK reranks : reranks = (DOMAIN Section(t, "reranker") # {}) OBVIOUS
<1>2. PICK a : a = [p \in IF DOMAIN Section(t, "reranker") # {} THEN DeviceFields ELSE {} |->
                      <<env.mode>>]
  OBVIOUS
<1>3. PICK b : b = [p \in GpuFields \cup (IF DOMAIN Section(t, "reranker") # {}
                                          THEN {<<"reranker", "gpu_ids">>} ELSE {}) |->
                      IF env.mode = "cpu" THEN Null ELSE env.gpus]
  OBVIOUS
<1>4. PICK place : place = Over(a, b) OBVIOUS
<1>5. AcceleratorProfile(t, env) = IF env.mode = "auto" THEN t ELSE Overlay(t, place)
  BY <1>2, <1>3, <1>4 DEF AcceleratorProfile
<1>6. DOMAIN place = DOMAIN a \cup DOMAIN b BY <1>4 DEF Over
<1>7. DOMAIN a \subseteq DeviceFields
        /\ DOMAIN b \subseteq GpuFields \cup {<<"reranker", "gpu_ids">>}
  BY <1>2, <1>3
<1>8. DOMAIN place \subseteq GpuFields \cup {<<"reranker", "gpu_ids">>} \cup DeviceFields
  BY <1>6, <1>7
<1> QED BY <1>5, <1>8

(* The parameters a process works with.                                    *)
LEMMA ResolvedIs ==
  ASSUME NEW row, row.path \in ConfigFiles, Bodies, DictsStay, NEW env
  PROVE  Placed(Resolve(row, env)) /\ Covers(Resolve(row, env))
<1>1. PICK uri : uri = IndexUri(Load(row.path), row) OBVIOUS
<1>2. PICK t : t = Named(row.path, uri) OBVIOUS
<1>3. Placed(t) /\ Covers(t) BY <1>2, NamedIs
<1>4. Resolve(row, env) = AcceleratorProfile(t, env) BY <1>1, <1>2 DEF Resolve, Named
<1>5. CASE AcceleratorProfile(t, env) = t BY <1>3, <1>4, <1>5
<1>6. CASE \E place : /\ AcceleratorProfile(t, env) = Overlay(t, place)
                      /\ DOMAIN place \subseteq GpuFields \cup {<<"reranker", "gpu_ids">>}
                                                \cup DeviceFields
  <2>1. PICK place : /\ AcceleratorProfile(t, env) = Overlay(t, place)
                     /\ DOMAIN place \subseteq GpuFields \cup {<<"reranker", "gpu_ids">>}
                                               \cup DeviceFields
    BY <1>6
  <2>2. DOMAIN place \subseteq SetPlaces BY <2>1 DEF SetPlaces
  <2>3. Placed(place) BY <2>2, SetsPlaced
  <2>4. Placed(Overlay(t, place)) /\ Covers(Overlay(t, place))
    BY <1>3, <2>2, <2>3, OverlaidPlaced, StaysCovered
  <2> QED BY <1>4, <2>1, <2>4
<1> QED BY <1>5, <1>6, ProfileIs

(* A section of a tree.                                                    *)
LEMMA SectionIs ==
  ASSUME NEW t, Placed(t), NEW s \in Sections
  PROVE  /\ \A x : x \in DOMAIN Section(t, s) <=> x \in Paths /\ <<s>> \o x \in DOMAIN t
         /\ \A x \in DOMAIN Section(t, s) : Section(t, s)[x] = t[<<s>> \o x]
<1>1. s \in Keys BY PlacesTyped
<1>2. DOMAIN t \subseteq Paths BY LeafPlacesTyped DEF Placed
<1>3. \A x : x \in DOMAIN Section(t, s)
             <=> \E q \in DOMAIN t : Len(q) > 1 /\ Head(q) = s /\ x = Tail(q)
  BY DEF Section
<1>4. ASSUME NEW q \in DOMAIN t, Len(q) > 1, Head(q) = s
      PROVE  Tail(q) \in Paths /\ <<s>> \o Tail(q) \in DOMAIN t
  <2>1. q \in Paths BY <1>2
  <2>2. Tail(q) \in Paths /\ q = <<Head(q)>> \o Tail(q) BY <1>4, <2>1, SplitIs
  <2> QED BY <2>2, <1>4
<1>5. ASSUME NEW x \in Paths, <<s>> \o x \in DOMAIN t PROVE x \in DOMAIN Section(t, s)
  <2>1. PICK q : q = <<s>> \o x OBVIOUS
  <2>2. Head(q) = s /\ Tail(q) = x /\ Len(q) > 1 BY <1>1, <2>1, BelowIs
  <2> QED BY <1>3, <1>5, <2>1, <2>2
<1>6. \A x \in DOMAIN Section(t, s) : Section(t, s)[x] = t[<<s>> \o x] BY DEF Section
<1> QED BY <1>3, <1>4, <1>5, <1>6

(* The fields picked of a tree are a tree.                                 *)
LEMMA PickLocalTree ==
  ASSUME NEW t, NEW F
  PROVE  PickLocal(t, F) = [p \in DOMAIN PickLocal(t, F) |-> PickLocal(t, F)[p]]
BY PickLocalIs

(* Of a tree that covers the servers', a section covers the server's own.  *)
LEMMA SectionCovers ==
  ASSUME NEW t, Placed(t), Covers(t), NEW s \in Sections, NEW F,
         NEW p \in DOMAIN PickLocal(Section(ServerTree, s), F)
  PROVE  \E q \in DOMAIN PickLocal(Section(t, s), F) : Comparable(p, q)
<1>1. p \in DOMAIN Section(ServerTree, s) /\ Head(p) \in F BY PickLocalIs
<1>2. s \in Keys BY PlacesTyped
<1>3. p \in Paths /\ <<s>> \o p \in DOMAIN ServerTree BY <1>1, ServersPlaced, SectionIs
<1>4. PICK b : b = <<s>> \o p OBVIOUS
<1>5. b \in Paths /\ Head(b) = s BY <1>2, <1>3, <1>4, BelowIs
<1>6. PICK q \in DOMAIN t : Comparable(b, q) BY <1>3, <1>4 DEF Covers
<1>7. q \in Paths BY LeafPlacesTyped DEF Placed
<1>8. Head(q) = s BY <1>5, <1>6, <1>7, SameHead
<1>9. Len(q) > 1 BY <1>8 DEF Placed
<1>10. PICK x : x = Tail(q) OBVIOUS
<1>11. x \in Paths /\ q = <<s>> \o x BY <1>7, <1>8, <1>9, <1>10, SplitIs
<1>12. x \in DOMAIN Section(t, s) BY <1>11, SectionIs
<1>13. Comparable(p, x)
  <2>1. Comparable(<<s>> \o p, <<s>> \o x) BY <1>4, <1>6, <1>11
  <2> QED BY <2>1, <1>2, <1>3, <1>11, BelowComparable
<1>14. Head(x) \in F BY <1>1, <1>3, <1>11, <1>13, SameHead
<1>15. x \in DOMAIN PickLocal(Section(t, s), F) BY <1>12, <1>14, PickLocalIs
<1> QED BY <1>13, <1>15

(* A server sent what differs from its own parameters has what was meant,  *)
(* if that says something of each of its own. *)
LEMMA ServerHasIs ==
  ASSUME NEW s, NEW F, NEW target, target = [p \in DOMAIN target |-> target[p]],
         DOMAIN target \subseteq Paths, s \in Sections,
         \A p \in DOMAIN PickLocal(Section(ServerTree, s), F) :
           \E q \in DOMAIN target : Comparable(p, q)
  PROVE  ServerHas(s, F, target) = target
<1>1. PICK own : own = PickLocal(Section(ServerTree, s), F) OBVIOUS
<1>2. DOMAIN own \subseteq Paths
  <2>1. \A p \in DOMAIN own : p \in DOMAIN Section(ServerTree, s) BY <1>1, PickLocalIs
  <2>2. \A p \in DOMAIN Section(ServerTree, s) : p \in Paths BY ServersPlaced, SectionIs
  <2> QED BY <2>1, <2>2
<1> DEFINE differ == {Head(p) : p \in {q \in DOMAIN target :
                        PickLocal(own, {Head(q)}) # PickLocal(target, {Head(q)})}}
<1>3. PICK sent : sent = PickLocal(target, differ) OBVIOUS
<1>4. ServerHas(s, F, target) = Overlay(own, sent)
  BY <1>1, <1>3 DEF ServerHas, ExtractOverride
<1>5. \A p \in DOMAIN target : Head(p) \in differ
                               <=> PickLocal(own, {Head(p)}) # PickLocal(target, {Head(p)})
  OBVIOUS
<1> HIDE DEF differ
<1>6. /\ \A p : p \in DOMAIN sent <=> p \in DOMAIN target /\ Head(p) \in differ
      /\ \A p \in DOMAIN sent : sent[p] = target[p]
  <2>1. \A p : p \in DOMAIN PickLocal(target, differ) <=> p \in DOMAIN target /\ Head(p) \in differ
    BY PickLocalIs
  <2>2. \A p \in DOMAIN PickLocal(target, differ) : PickLocal(target, differ)[p] = target[p]
    BY PickLocalIs
  <2> QED BY <1>3, <2>1, <2>2
<1>7. PICK o : o = Overlay(own, sent) OBVIOUS
<1>8. /\ \A p : p \in DOMAIN o <=> \/ p \in DOMAIN sent
                                   \/ p \in DOMAIN own /\ \A q \in DOMAIN sent : ~Comparable(q, p)
      /\ \A p \in DOMAIN sent : o[p] = sent[p]
      /\ \A p \in DOMAIN own : (\A q \in DOMAIN sent : ~Comparable(q, p)) => o[p] = own[p]
      /\ o = [p \in DOMAIN o |-> o[p]]
  BY <1>2, <1>7, OverlayIs
<1>9. ASSUME NEW h, PickLocal(own, {h}) = PickLocal(target, {h}), NEW p, Head(p) = h
      PROVE  /\ p \in DOMAIN own <=> p \in DOMAIN target
             /\ p \in DOMAIN own => own[p] = target[p]
  <2>1. PICK a : a = PickLocal(own, {h}) OBVIOUS
  <2>2. \A x : x \in DOMAIN a <=> x \in DOMAIN own /\ Head(x) \in {h} BY <2>1, PickLocalIs
  <2>3. \A x \in DOMAIN a : a[x] = own[x] BY <2>1, PickLocalIs
  <2>4. a = PickLocal(target, {h}) BY <2>1, <1>9
  <2>5. \A x : x \in DOMAIN a <=> x \in DOMAIN target /\ Head(x) \in {h} BY <2>4, PickLocalIs
  <2>6. \A x \in DOMAIN a : a[x] = target[x] BY <2>4, PickLocalIs
  <2> QED BY <2>2, <2>3, <2>5, <2>6, <1>9
<1>10. ASSUME NEW p \in DOMAIN target PROVE p \in DOMAIN o /\ o[p] = target[p]
  <2>1. CASE Head(p) \in differ BY <2>1, <1>6, <1>8
  <2>2. CASE Head(p) \notin differ
    <3>1. PICK h : h = Head(p) OBVIOUS
    <3>2. PickLocal(own, {h}) = PickLocal(target, {h}) BY <2>2, <3>1, <1>5
    <3>3. p \in DOMAIN own /\ own[p] = target[p] BY <3>1, <3>2, <1>9
    <3>4. \A q \in DOMAIN sent : ~Comparable(q, p)
      <4> SUFFICES ASSUME NEW q \in DOMAIN sent, Comparable(q, p) PROVE FALSE OBVIOUS
      <4>1. q \in DOMAIN target /\ Head(q) \in differ BY <1>6
      <4>2. q \in Paths /\ p \in Paths BY <4>1
      <4>3. Head(q) = Head(p) BY <4>2, SameHead
      <4> QED BY <4>1, <4>3, <2>2
    <3> QED BY <3>3, <3>4, <1>8
  <2> QED BY <2>1, <2>2
<1>11. ASSUME NEW p \in DOMAIN o PROVE p \in DOMAIN target
  <2>1. CASE p \in DOMAIN sent BY <2>1, <1>6
  <2>2. CASE p \in DOMAIN own /\ \A q \in DOMAIN sent : ~Comparable(q, p)
    <3>1. PICK q \in DOMAIN target : Comparable(p, q) BY <2>2, <1>1
    <3>2. p \in Paths /\ q \in Paths BY <2>2, <1>2
    <3>3. Head(q) = Head(p) BY <3>1, <3>2, SameHead
    <3>4. q \notin DOMAIN sent BY <2>2, <3>1, ComparableBothWays
    <3>5. Head(q) \notin differ BY <3>4, <1>6
    <3>6. PICK h : h = Head(q) OBVIOUS
    <3>7. PickLocal(own, {h}) = PickLocal(target, {h}) BY <3>5, <3>6, <1>5
    <3> QED BY <3>3, <3>6, <3>7, <2>2, <1>9
  <2> QED BY <2>1, <2>2, <1>8
<1>12. \A p : p \in DOMAIN o <=> p \in DOMAIN target BY <1>10, <1>11
<1>13. o = target BY <1>8, <1>10, <1>12, SameTree
<1> QED BY <1>4, <1>7, <1>13

(* What is picked of a section is paths. *)
LEMMA PickedPaths ==
  ASSUME NEW t, Placed(t), NEW s \in Sections, NEW F
  PROVE  DOMAIN PickLocal(Section(t, s), F) \subseteq Paths
<1>1. \A p \in DOMAIN PickLocal(Section(t, s), F) : p \in DOMAIN Section(t, s) BY PickLocalIs
<1>2. \A p \in DOMAIN Section(t, s) : p \in Paths BY SectionIs
<1> QED BY <1>1, <1>2

(* A server that is sent the fields of a section has these fields.         *)
LEMMA ServerHasSection ==
  ASSUME NEW t, Placed(t), Covers(t), NEW s \in Sections, NEW F
  PROVE  ServerHas(s, F, PickLocal(Section(t, s), F)) = PickLocal(Section(t, s), F)
<1>1. PICK d : d = PickLocal(Section(t, s), F) OBVIOUS
<1>2. d = [p \in DOMAIN d |-> d[p]] BY <1>1, PickLocalTree
<1>3. DOMAIN d \subseteq Paths BY <1>1, PickedPaths
<1>4. \A p \in DOMAIN PickLocal(Section(ServerTree, s), F) : \E q \in DOMAIN d : Comparable(p, q)
  BY <1>1, SectionCovers
<1>5. ServerHas(s, F, d) = d BY <1>2, <1>3, <1>4, ServerHasIs
<1> QED BY <1>1, <1>5

(* The parameters of the sparse index: the dense ones with the backend     *)
(* bm25.                                                                   *)
LEMMA SparseIs ==
  ASSUME NEW t
  PROVE  /\ \A p : p \in DOMAIN Sparse(t) <=> p = <<"backend">> \/ p \in DOMAIN t
         /\ Sparse(t)[<<"backend">>] = <<"bm25">>
         /\ \A p \in DOMAIN t : p # <<"backend">> => Sparse(t)[p] = t[p]
         /\ Sparse(t) = [p \in DOMAIN Sparse(t) |-> Sparse(t)[p]]
BY DEF Sparse, Over, Leaf

(* A server that is sent the sparse parameters has these.                  *)
LEMMA ServerHasSparse ==
  ASSUME NEW t, Placed(t), Covers(t), NEW F
  PROVE  ServerHas("retriever", F, Sparse(PickLocal(Section(t, "retriever"), F)))
         = Sparse(PickLocal(Section(t, "retriever"), F))
<1>1. PICK s \in Sections : s = "retriever" BY DEF Sections
<1>2. PICK d : d = PickLocal(Section(t, s), F) OBVIOUS
<1>3. PICK e : e = Sparse(d) OBVIOUS
<1>4. e = [p \in DOMAIN e |-> e[p]] BY <1>3, SparseIs
<1>5. \A p : p \in DOMAIN e <=> p = <<"backend">> \/ p \in DOMAIN d BY <1>3, SparseIs
<1>6. <<"backend">> \in Paths
  <2>1. "backend" \in Keys BY DEF Keys
  <2>2. <<"backend">> \in Seq(Keys) \ {<<>>} BY <2>1, TuplesTyped
  <2> QED BY <2>2 DEF Paths
<1>7. DOMAIN e \subseteq Paths BY <1>2, <1>5, <1>6, PickedPaths
<1>8. \A p \in DOMAIN PickLocal(Section(ServerTree, s), F) : \E q \in DOMAIN e : Comparable(p, q)
  BY <1>2, <1>5, SectionCovers
<1>9. ServerHas(s, F, e) = e BY <1>4, <1>7, <1>8, ServerHasIs
<1> QED BY <1>1, <1>2, <1>3, <1>9

-----------------------------------------------------------------------------
(* The two sides.                                                          *)

Shared == RetrieverFields \ {"gpu_ids"}

(* The first key and the second one. *)
LEMMA FirstKeys ==
  ASSUME NEW K, NEW a \in K, NEW b \in K
  PROVE  Head(<<a>>) = a /\ Head(Tail(<<a, b>>)) = b
<1>1. PICK s \in Seq(K) : s = <<a>> /\ s # <<>> BY TuplesTyped
<1>2. s[1] = a
  <2>1. <<a>>[1] = a OBVIOUS
  <2> QED BY <1>1, <2>1
<1>3. Head(s) = a BY <1>1, <1>2
<1>4. PICK t \in Seq(K) : t = <<a, b>> /\ t # <<>> BY TuplesTyped
<1>5. Len(t) = 2 /\ t[2] = b
  <2>1. Len(<<a, b>>) = 2 OBVIOUS
  <2>2. <<a, b>>[2] = b OBVIOUS
  <2> QED BY <1>4, <2>1, <2>2
<1>6. Tail(t) \in Seq(K) /\ Len(Tail(t)) = 1 BY <1>4, <1>5
<1>7. PICK r \in Seq(K) : r = Tail(t) BY <1>6
<1>8. r[1] = t[2] BY <1>4, <1>5, <1>6, <1>7
<1>9. r # <<>>
  <2>1. Len(r) = 1 BY <1>6, <1>7
  <2>2. Len(<<>>) = 0 OBVIOUS
  <2>3. CASE r = <<>>
    <3>1. Len(r) = 0 BY <2>2, <2>3
    <3> QED BY <2>1, <3>1
  <2> QED BY <2>3
<1>10. Head(r) = b BY <1>5, <1>8, <1>9
<1> QED BY <1>1, <1>3, <1>4, <1>7, <1>10

(* Fields picked of fields picked.                                         *)
LEMMA PickedTwice ==
  ASSUME NEW t, NEW F, NEW G, G \subseteq F
  PROVE  PickLocal(PickLocal(t, F), G) = PickLocal(t, G)
<1>1. PICK m : m = PickLocal(t, F) OBVIOUS
<1>2. (\A p : p \in DOMAIN m <=> p \in DOMAIN t /\ Head(p) \in F) /\ \A p \in DOMAIN m : m[p] = t[p]
  <2>1. \A p : p \in DOMAIN PickLocal(t, F) <=> p \in DOMAIN t /\ Head(p) \in F BY PickLocalIs
  <2>2. \A p \in DOMAIN PickLocal(t, F) : PickLocal(t, F)[p] = t[p] BY PickLocalIs
  <2> QED BY <1>1, <2>1, <2>2
<1>3. PICK a : a = PickLocal(m, G) OBVIOUS
<1>4. /\ \A p : p \in DOMAIN a <=> p \in DOMAIN m /\ Head(p) \in G
      /\ \A p \in DOMAIN a : a[p] = m[p]
      /\ a = [p \in DOMAIN a |-> a[p]]
  <2>1. \A p : p \in DOMAIN PickLocal(m, G) <=> p \in DOMAIN m /\ Head(p) \in G BY PickLocalIs
  <2>2. \A p \in DOMAIN PickLocal(m, G) : PickLocal(m, G)[p] = m[p] BY PickLocalIs
  <2>3. a = [p \in DOMAIN a |-> a[p]] BY <1>3, PickLocalTree
  <2> QED BY <1>3, <2>1, <2>2, <2>3
<1>5. PICK b : b = PickLocal(t, G) OBVIOUS
<1>6. /\ \A p : p \in DOMAIN b <=> p \in DOMAIN t /\ Head(p) \in G
      /\ \A p \in DOMAIN b : b[p] = t[p]
      /\ b = [p \in DOMAIN b |-> b[p]]
  <2>1. \A p : p \in DOMAIN PickLocal(t, G) <=> p \in DOMAIN t /\ Head(p) \in G BY PickLocalIs
  <2>2. \A p \in DOMAIN PickLocal(t, G) : PickLocal(t, G)[p] = t[p] BY PickLocalIs
  <2>3. b = [p \in DOMAIN b |-> b[p]] BY <1>5, PickLocalTree
  <2> QED BY <1>5, <2>1, <2>2, <2>3
<1>7. \A p : p \in DOMAIN a <=> p \in DOMAIN b BY <1>2, <1>4, <1>6
<1>8. \A p \in DOMAIN a : a[p] = b[p] BY <1>2, <1>4, <1>6, <1>7
<1>9. a = b BY <1>4, <1>6, <1>7, <1>8, SameTree
<1> QED BY <1>1, <1>3, <1>5, <1>9

(* The sparse parameters are the dense ones but for the backend. *)
LEMMA PickedSparse ==
  ASSUME NEW s, NEW F, NEW G, G \subseteq F, "backend" \in G
  PROVE  PickLocal(Sparse(PickLocal(s, F)), G) = Sparse(PickLocal(s, G))
<1>1. PICK m : m = PickLocal(s, F) OBVIOUS
<1>2. PICK k : k = <<"backend">> /\ Head(k) = "backend"
  <2>1. "backend" \in Keys BY DEF Keys
  <2> QED BY <2>1, FirstKeys
<1>3. PICK b : b = PickLocal(m, G) OBVIOUS
<1>4. b = PickLocal(s, G) BY <1>1, <1>3, PickedTwice
<1>5. /\ \A p : p \in DOMAIN b <=> p \in DOMAIN m /\ Head(p) \in G
      /\ \A p \in DOMAIN b : b[p] = m[p]
  <2>1. \A p : p \in DOMAIN PickLocal(m, G) <=> p \in DOMAIN m /\ Head(p) \in G BY PickLocalIs
  <2>2. \A p \in DOMAIN PickLocal(m, G) : PickLocal(m, G)[p] = m[p] BY PickLocalIs
  <2> QED BY <1>3, <2>1, <2>2
<1>6. PICK e : e = Sparse(m) OBVIOUS
<1>7. /\ \A p : p \in DOMAIN e <=> p = k \/ p \in DOMAIN m
      /\ e[k] = <<"bm25">> /\ \A p \in DOMAIN m : p # k => e[p] = m[p]
  BY <1>2, <1>6, SparseIs
<1>8. PICK c : c = Sparse(b) OBVIOUS
<1>9. /\ \A p : p \in DOMAIN c <=> p = k \/ p \in DOMAIN b
      /\ c[k] = <<"bm25">> /\ \A p \in DOMAIN b : p # k => c[p] = b[p]
      /\ c = [p \in DOMAIN c |-> c[p]]
  BY <1>2, <1>8, SparseIs
<1>10. PICK a : a = PickLocal(e, G) OBVIOUS
<1>11. /\ \A p : p \in DOMAIN a <=> p \in DOMAIN e /\ Head(p) \in G
       /\ \A p \in DOMAIN a : a[p] = e[p]
       /\ a = [p \in DOMAIN a |-> a[p]]
  <2>1. \A p : p \in DOMAIN PickLocal(e, G) <=> p \in DOMAIN e /\ Head(p) \in G BY PickLocalIs
  <2>2. \A p \in DOMAIN PickLocal(e, G) : PickLocal(e, G)[p] = e[p] BY PickLocalIs
  <2>3. a = [p \in DOMAIN a |-> a[p]] BY <1>10, PickLocalTree
  <2> QED BY <1>10, <2>1, <2>2, <2>3
<1>12. \A p : p \in DOMAIN a <=> p \in DOMAIN c BY <1>2, <1>5, <1>7, <1>9, <1>11
<1>13. \A p \in DOMAIN a : a[p] = c[p] BY <1>5, <1>7, <1>9, <1>11, <1>12
<1>14. a = c BY <1>9, <1>11, <1>12, <1>13, SameTree
<1> QED BY <1>1, <1>4, <1>6, <1>8, <1>10, <1>14

(* The devices of a process change nothing of what the sides share. *)
LEMMA DevicesApart ==
  ASSUME NEW t, Placed(t), NEW env
  PROVE  PickLocal(Section(AcceleratorProfile(t, env), "retriever"), Shared)
         = PickLocal(Section(t, "retriever"), Shared)
<1>1. CASE AcceleratorProfile(t, env) = t BY <1>1
<1>2. CASE \E place : /\ AcceleratorProfile(t, env) = Overlay(t, place)
                      /\ DOMAIN place \subseteq GpuFields \cup {<<"reranker", "gpu_ids">>}
                                                \cup DeviceFields
  <2>1. PICK place : /\ AcceleratorProfile(t, env) = Overlay(t, place)
                     /\ DOMAIN place \subseteq GpuFields \cup {<<"reranker", "gpu_ids">>}
                                               \cup DeviceFields
    BY <1>2
  <2>2. PICK s \in Sections : s = "retriever" BY DEF Sections
  <2>3. s \in Keys BY PlacesTyped
  <2>4. DOMAIN place \subseteq SetPlaces BY <2>1 DEF SetPlaces
  <2>5. Placed(place) BY <2>4, SetsPlaced
  <2>6. PICK o : o = Overlay(t, place) OBVIOUS
  <2>7. Placed(o) BY <2>5, <2>6, OverlaidPlaced
  <2>8. DOMAIN t \subseteq Paths /\ DOMAIN place \subseteq Paths
    BY <2>5, LeafPlacesTyped DEF Placed
  <2>9. /\ \A p : p \in DOMAIN o <=> \/ p \in DOMAIN place
                                     \/ p \in DOMAIN t /\ \A q \in DOMAIN place : ~Comparable(q, p)
        /\ \A p \in DOMAIN t : (\A q \in DOMAIN place : ~Comparable(q, p)) => o[p] = t[p]
    BY <2>6, <2>8, OverlayIs
  <2>10. ASSUME NEW x \in Paths, Head(x) \in Shared, NEW q \in DOMAIN place
         PROVE  ~Comparable(q, <<s>> \o x)
    <3> SUFFICES ASSUME Comparable(q, <<s>> \o x) PROVE FALSE OBVIOUS
    <3>1. PICK y : y = <<s>> \o x OBVIOUS
    <3>2. y \in Paths /\ Head(y) = s BY <2>3, <3>1, BelowIs
    <3>3. q \in Paths /\ Len(q) > 1
      <4>1. q \in SetPlaces BY <2>4
      <4> QED BY <4>1, SetPlacesTyped
    <3>4. Head(q) = "retriever" BY <2>2, <3>1, <3>2, <3>3, SameHead
    <3>5. q \in GpuFields BY <2>1, <3>4 DEF DeviceFields
    <3>6. PICK z : z = Tail(q) OBVIOUS
    <3>7. z \in Paths /\ q = <<s>> \o z BY <2>2, <3>3, <3>4, <3>6, SplitIs
    <3>8. Head(z) \in {"gpu_ids", "retriever_gpu_ids"} 
      <4>1. "gpu_ids" \in Keys /\ "retriever_gpu_ids" \in Keys /\ "retriever" \in Keys
        BY DEF Keys, Sections
      <4>2. /\ Head(Tail(<<"retriever", "gpu_ids">>)) = "gpu_ids"
            /\ Head(Tail(<<"retriever", "retriever_gpu_ids">>)) = "retriever_gpu_ids"
        BY <4>1, FirstKeys
      <4> QED BY <3>5, <3>6, <4>2 DEF GpuFields
    <3>9. Comparable(<<s>> \o z, <<s>> \o x) BY <3>7
    <3>10. Comparable(z, x) BY <2>3, <3>7, <3>9, BelowComparable
    <3>11. Head(z) = Head(x) BY <3>7, <3>10, SameHead
    <3> QED BY <2>10, <3>8, <3>11 DEF Shared, RetrieverFields
  <2>11. ASSUME NEW x \in Paths, Head(x) \in Shared
         PROVE  /\ <<s>> \o x \in DOMAIN o <=> <<s>> \o x \in DOMAIN t
                /\ <<s>> \o x \in DOMAIN t => o[<<s>> \o x] = t[<<s>> \o x]
    <3>1. PICK y : y = <<s>> \o x OBVIOUS
    <3>2. y \in Paths BY <2>3, <3>1, BelowIs
    <3>3. \A q \in DOMAIN place : ~Comparable(q, y) BY <2>10, <2>11, <3>1
    <3>4. y \notin DOMAIN place BY <3>2, <3>3, SelfComparable
    <3> QED BY <3>1, <3>3, <3>4, <2>9
  <2>12. PICK A : A = Section(o, s) OBVIOUS
  <2>13. PICK B : B = Section(t, s) OBVIOUS
  <2>14. /\ \A x : x \in DOMAIN A <=> x \in Paths /\ <<s>> \o x \in DOMAIN o
         /\ \A x \in DOMAIN A : A[x] = o[<<s>> \o x]
    BY <2>7, <2>12, SectionIs
  <2>15. /\ \A x : x \in DOMAIN B <=> x \in Paths /\ <<s>> \o x \in DOMAIN t
         /\ \A x \in DOMAIN B : B[x] = t[<<s>> \o x]
    BY <2>13, SectionIs
  <2>16. PICK a : a = PickLocal(A, Shared) OBVIOUS
  <2>17. PICK b : b = PickLocal(B, Shared) OBVIOUS
  <2>18. /\ \A p : p \in DOMAIN a <=> p \in DOMAIN A /\ Head(p) \in Shared
         /\ \A p \in DOMAIN a : a[p] = A[p]
         /\ a = [p \in DOMAIN a |-> a[p]]
    <3>1. \A p : p \in DOMAIN a <=> p \in DOMAIN A /\ Head(p) \in Shared BY <2>16, PickLocalIs
    <3>2. \A p \in DOMAIN a : a[p] = A[p] BY <2>16, PickLocalIs
    <3>3. a = [p \in DOMAIN a |-> a[p]] BY <2>16, PickLocalTree
    <3> QED BY <3>1, <3>2, <3>3
  <2>19. /\ \A p : p \in DOMAIN b <=> p \in DOMAIN B /\ Head(p) \in Shared
         /\ \A p \in DOMAIN b : b[p] = B[p]
         /\ b = [p \in DOMAIN b |-> b[p]]
    <3>1. \A p : p \in DOMAIN b <=> p \in DOMAIN B /\ Head(p) \in Shared BY <2>17, PickLocalIs
    <3>2. \A p \in DOMAIN b : b[p] = B[p] BY <2>17, PickLocalIs
    <3>3. b = [p \in DOMAIN b |-> b[p]] BY <2>17, PickLocalTree
    <3> QED BY <3>1, <3>2, <3>3
  <2>20. \A p : p \in DOMAIN a <=> p \in DOMAIN b BY <2>11, <2>14, <2>15, <2>18, <2>19
  <2>21. \A p \in DOMAIN a : a[p] = b[p] BY <2>11, <2>14, <2>15, <2>18, <2>19, <2>20
  <2>22. a = b BY <2>18, <2>19, <2>20, <2>21, SameTree
  <2> QED BY <2>1, <2>2, <2>6, <2>12, <2>13, <2>16, <2>17, <2>22
<1> QED BY <1>1, <1>2, ProfileIs

-----------------------------------------------------------------------------
(* The operations.                                                         *)

Built(t) == [Nowhere EXCEPT !.dense = RetrieverParams(t), !.sparse = BM25Params(t)]

(* What was built and read last was so with the row and the files there    *)
(* are. *)
ConfigInv ==
  /\ Bodies
  /\ kbRow # NoRow => kbRow.path \in ConfigFiles
  /\ readWith # Nowhere =>
       kbRow # NoRow /\ \E prompt : readWith = Payload(Resolve(kbRow, machine["read"]), prompt)
  /\ builtWith # Nowhere => kbRow # NoRow /\ builtWith = Built(Resolve(kbRow, machine["index"]))

(* At first nothing is registered, built or read.                          *)
LEMMA ConfigStarts == ConfigInit => ConfigInv
BY DEF ConfigInit, ConfigInv, Bodies

(* A file is edited: nobody has read or built with it since.               *)
LEMMA EditFileKeeps ==
  ASSUME ConfigInv, NEW f \in ConfigFiles, NEW new \in FileBodies, EditFile(f, new)
  PROVE  ConfigInv'
BY DEF ConfigInv, EditFile, Bodies

(* A knowledge base is registered anew: it is neither built nor read.      *)
LEMMA RegisterKeeps ==
  ASSUME ConfigInv, NEW f \in ConfigFiles, NEW given, Register(f, given)
  PROVE  ConfigInv'
<1>1. body' = body /\ builtWith' = Nowhere /\ readWith' = Nowhere BY DEF Register
<1>2. kbRow'.path = f BY DEF Register
<1> QED BY <1>1, <1>2 DEF ConfigInv, Bodies

(* An index is built with what the row and the files say.                  *)
LEMMA WriteIndexKeeps == ConfigInv /\ WriteIndex => ConfigInv'
<1> SUFFICES ASSUME ConfigInv, WriteIndex PROVE ConfigInv' OBVIOUS
<1>1. UNCHANGED <<body, machine, kbRow, readWith>> /\ kbRow # NoRow BY DEF WriteIndex, Resolvable
<1>2. builtWith' = Built(Resolve(kbRow, machine["index"])) BY DEF WriteIndex, Built
<1>3. Resolve(kbRow, machine["index"])' = Resolve(kbRow, machine["index"])
  BY <1>1 DEF Resolve, IndexUri, Load, OverrideOf, Chain, BaseOf
<1>4. Resolve(kbRow, machine["read"])' = Resolve(kbRow, machine["read"])
  BY <1>1 DEF Resolve, IndexUri, Load, OverrideOf, Chain, BaseOf
<1> QED BY <1>1, <1>2, <1>3, <1>4 DEF ConfigInv, Bodies

(* A read hands over what the row and the files say.                       *)
LEMMA ReadIndexKeeps ==
  ASSUME ConfigInv, NEW prompt, ReadIndex(prompt)
  PROVE  ConfigInv'
<1>1. UNCHANGED <<body, machine, kbRow, builtWith>> /\ kbRow # NoRow BY DEF ReadIndex, Resolvable
<1>2. readWith' = Payload(Resolve(kbRow, machine["read"]), prompt) BY DEF ReadIndex
<1>3. Resolve(kbRow, machine["index"])' = Resolve(kbRow, machine["index"])
  BY <1>1 DEF Resolve, IndexUri, Load, OverrideOf, Chain, BaseOf
<1>4. Resolve(kbRow, machine["read"])' = Resolve(kbRow, machine["read"])
  BY <1>1 DEF Resolve, IndexUri, Load, OverrideOf, Chain, BaseOf
<1> QED BY <1>1, <1>2, <1>3, <1>4 DEF ConfigInv, Bodies

(* Every step keeps the invariant.                                         *)
LEMMA ConfigInductive == ConfigInv /\ [ConfigNext]_configVars => ConfigInv'
<1> SUFFICES ASSUME ConfigInv, [ConfigNext]_configVars PROVE ConfigInv' OBVIOUS
<1>1. CASE \E f \in ConfigFiles, new \in FileBodies : EditFile(f, new) BY <1>1, EditFileKeeps
<1>2. CASE \E f \in ConfigFiles, given \in GivenUris : Register(f, given) BY <1>2, RegisterKeeps
<1>3. CASE WriteIndex BY <1>3, WriteIndexKeeps
<1>4. CASE \E prompt \in {Null, <<"asked">>} : ReadIndex(prompt) BY <1>4, ReadIndexKeeps
<1>5. CASE UNCHANGED configVars
  <2>1. UNCHANGED <<body, machine, kbRow, readWith, builtWith>> BY <1>5 DEF configVars
  <2>2. Resolve(kbRow, machine["index"])' = Resolve(kbRow, machine["index"])
    BY <2>1 DEF Resolve, IndexUri, Load, OverrideOf, Chain, BaseOf
  <2>3. Resolve(kbRow, machine["read"])' = Resolve(kbRow, machine["read"])
    BY <2>1 DEF Resolve, IndexUri, Load, OverrideOf, Chain, BaseOf
  <2> QED BY <2>1, <2>2, <2>3 DEF ConfigInv, Bodies
<1> QED BY <1>1, <1>2, <1>3, <1>4, <1>5 DEF ConfigNext

(* What a read hands to the servers is what they have. *)
LEMMA PayloadIs ==
  ASSUME NEW t, Placed(t), Covers(t), NEW prompt
  PROVE  /\ Payload(t, prompt).dense = PickLocal(Section(t, "retriever"), RetrieverFields)
         /\ Payload(t, prompt).sparse
            = Sparse(PickLocal(Section(t, "retriever"), RetrieverFields))
         /\ Payload(t, prompt).reranker = PickLocal(Section(t, "reranker"), RerankerFields)
<1>1. "retriever" \in Sections /\ "reranker" \in Sections BY DEF Sections, OtherSections
<1>2. ServerHas("retriever", RetrieverFields, PickLocal(Section(t, "retriever"), RetrieverFields))
      = PickLocal(Section(t, "retriever"), RetrieverFields)
  BY <1>1, ServerHasSection
<1>3. ServerHas("reranker", RerankerFields, PickLocal(Section(t, "reranker"), RerankerFields))
      = PickLocal(Section(t, "reranker"), RerankerFields)
  BY <1>1, ServerHasSection
<1>4. ServerHas("retriever", RetrieverFields,
                Sparse(PickLocal(Section(t, "retriever"), RetrieverFields)))
      = Sparse(PickLocal(Section(t, "retriever"), RetrieverFields))
  BY ServerHasSparse
<1>5. /\ Payload(t, prompt).dense
         = ServerHas("retriever", RetrieverFields,
                     PickLocal(Section(t, "retriever"), RetrieverFields))
      /\ Payload(t, prompt).sparse
         = ServerHas("retriever", RetrieverFields,
                     Sparse(PickLocal(Section(t, "retriever"), RetrieverFields)))
      /\ Payload(t, prompt).reranker
         = ServerHas("reranker", RerankerFields, PickLocal(Section(t, "reranker"), RerankerFields))
  BY DEF Payload
<1> QED BY <1>2, <1>3, <1>4, <1>5

(* The invariant and the files merged give the property.                   *)
LEMMA ConfigInvImplies == DictsStay /\ ConfigInv => ParametersArrive
<1> SUFFICES ASSUME DictsStay, ConfigInv PROVE ParametersArrive OBVIOUS
<1>1. Bodies BY DEF ConfigInv
<1>2. ASSUME kbRow # NoRow PROVE KeysTakeEffect
  BY <1>1, <1>2, LoadIsSays DEF ConfigInv, KeysTakeEffect
<1>3. ASSUME readWith # Nowhere PROVE ServersHaveProfile
  <2>1. PICK prompt : readWith = Payload(Resolve(kbRow, machine["read"]), prompt)
    BY <1>3 DEF ConfigInv
  <2>2. kbRow.path \in ConfigFiles BY <1>3 DEF ConfigInv
  <2>3. PICK t : t = Resolve(kbRow, machine["read"]) OBVIOUS
  <2>4. Placed(t) /\ Covers(t) BY <1>1, <2>2, <2>3, ResolvedIs
  <2>5. t = BuildRuntime(Load(kbRow.path), IndexUri(Load(kbRow.path), kbRow), machine["read"])
    BY <2>3 DEF Resolve, BuildRuntime
  <2>6. readWith = Payload(t, prompt) BY <2>1, <2>3
  <2>7. /\ readWith.dense = PickLocal(Section(t, "retriever"), RetrieverFields)
        /\ readWith.reranker = PickLocal(Section(t, "reranker"), RerankerFields)
    BY <2>4, <2>6, PayloadIs
  <2> QED BY <2>3, <2>5, <2>7 DEF ServersHaveProfile
<1>4. ASSUME readWith # Nowhere, builtWith # Nowhere PROVE SidesAgree
  <2>1. PICK prompt : readWith = Payload(Resolve(kbRow, machine["read"]), prompt)
    BY <1>4 DEF ConfigInv
  <2>2. kbRow.path \in ConfigFiles BY <1>4 DEF ConfigInv
  <2>3. PICK uri : uri = IndexUri(Load(kbRow.path), kbRow) OBVIOUS
  <2>4. PICK n : n = Named(kbRow.path, uri) OBVIOUS
  <2>5. Placed(n) BY <1>1, <2>2, <2>4, NamedIs
  <2>6. PICK r : r = Resolve(kbRow, machine["read"]) OBVIOUS
  <2>7. PICK w : w = Resolve(kbRow, machine["index"]) OBVIOUS
  <2>8. r = AcceleratorProfile(n, machine["read"]) /\ w = AcceleratorProfile(n, machine["index"])
    BY <2>3, <2>4, <2>6, <2>7 DEF Resolve, Named
  <2>9. PickLocal(Section(r, "retriever"), Shared) = PickLocal(Section(w, "retriever"), Shared)
    BY <2>5, <2>8, DevicesApart
  <2>10. PICK R : R = Section(r, "retriever") OBVIOUS
  <2>11. PICK W : W = Section(w, "retriever") OBVIOUS
  <2>12. PickLocal(R, Shared) = PickLocal(W, Shared) BY <2>9, <2>10, <2>11
  <2>13. Placed(r) /\ Covers(r) BY <1>1, <2>2, <2>6, ResolvedIs
  <2>14. /\ readWith.dense = PickLocal(R, RetrieverFields)
         /\ readWith.sparse = Sparse(PickLocal(R, RetrieverFields))
    BY <2>1, <2>6, <2>10, <2>13, PayloadIs
  <2>15. builtWith = Built(w) BY <1>4, <2>7 DEF ConfigInv
  <2>16. /\ builtWith.dense = PickLocal(W, RetrieverFields \cup {"embedding_path"})
         /\ builtWith.sparse = Sparse(PickLocal(W, RetrieverFields))
    BY <2>11, <2>15 DEF Built, Nowhere, RetrieverParams, BM25Params
  <2>17. /\ Shared \subseteq RetrieverFields /\ "backend" \in Shared
         /\ Shared \subseteq RetrieverFields \cup {"embedding_path"}
    BY DEF Shared, RetrieverFields
  <2>18. PickLocal(readWith.dense, Shared) = PickLocal(R, Shared) BY <2>14, <2>17, PickedTwice
  <2>19. PickLocal(builtWith.dense, Shared) = PickLocal(W, Shared) BY <2>16, <2>17, PickedTwice
  <2>20. PickLocal(readWith.sparse, Shared) = Sparse(PickLocal(R, Shared))
    BY <2>14, <2>17, PickedSparse
  <2>21. PickLocal(builtWith.sparse, Shared) = Sparse(PickLocal(W, Shared))
    BY <2>16, <2>17, PickedSparse
  <2> QED BY <2>12, <2>18, <2>19, <2>20, <2>21 DEF SidesAgree, Shared
<1> QED BY <1>2, <1>3, <1>4 DEF ParametersArrive

(* For every set of files, however long their chains and whatever their    *)
(* keys, every tree of the servers' own and every environment, where no    *)
(* dict is emptied and filled again: a key takes effect as the nearest     *)
(* file that speaks of it says, the servers work with the profile of the   *)
(* knowledge base though they are sent only what differs, and an index is  *)
(* read with what it was built with (load_server_parameters,               *)
(* resolve_kb_server_parameters, build_read_pipeline_payload).             *)
THEOREM ConfigurationCorrect == DictsStay /\ ConfigSpec => []ParametersArrive
<1> SUFFICES ASSUME DictsStay PROVE ConfigSpec => []ParametersArrive OBVIOUS
<1>1. ConfigInit => ConfigInv BY ConfigStarts
<1>2. ConfigInv /\ [ConfigNext]_configVars => ConfigInv' BY ConfigInductive
<1>3. ConfigInv => ParametersArrive BY ConfigInvImplies
<1> QED BY <1>1, <1>2, <1>3, PTL DEF ConfigSpec

=============================================================================
