---------------------------- MODULE DatasetProofs -----------------------------
(***************************************************************************)
(* What holds of the building of evaluation datasets, for all origins,     *)
(* rows, chunk settings, separators and plans.  First what its operators   *)
(* give: sums and the allocation of generations, the splitter, chunks and  *)
(* pools, the tasks that are drawn.  Then four invariants of a run: of the *)
(* caches, of the contents it works with, of what is whole of them and of  *)
(* its questions.                                                          *)
(***************************************************************************)
EXTENDS PartsProofs, Dataset, SequenceTheorems

-----------------------------------------------------------------------------
(* Sums.                                                                   *)

(* Sums(g, numbers): g has the sum of the first n numbers at n. *)
Sums(g, numbers) ==
  g[0] = 0 /\ \A n \in 1..Len(numbers) : g[n] = g[n - 1] + numbers[n]

(* What SumOf computes recursively exists. *)
LEMMA SumGrows ==
  ASSUME NEW numbers \in Seq(Int)
  PROVE  \E upTo : Sums(upTo, numbers) /\ SumOf(numbers) = upTo[Len(numbers)]
<1> DEFINE Turns(g, k) == g = [n \in 0..k |-> IF n = 0 THEN 0 ELSE g[n - 1] + numbers[n]]
<1>1. \E g : Turns(g, 0)
  <2> DEFINE g == [n \in 0..0 |-> 0]
  <2>1. g = [n \in 0..0 |-> IF n = 0 THEN 0 ELSE g[n - 1] + numbers[n]] OBVIOUS
  <2> QED BY <2>1
<1>2. ASSUME NEW k \in Nat, \E g : Turns(g, k) PROVE \E g : Turns(g, k + 1)
  <2>1. PICK g : Turns(g, k) BY <1>2
  <2> DEFINE h == [n \in 0..(k + 1) |-> IF n = k + 1 THEN g[k] + numbers[k + 1] ELSE g[n]]
  <2>2. \A n \in 0..k : g[n] = IF n = 0 THEN 0 ELSE g[n - 1] + numbers[n] BY <2>1
  <2>3. ASSUME NEW n \in 0..(k + 1)
        PROVE  h[n] = IF n = 0 THEN 0 ELSE h[n - 1] + numbers[n]
    <3>1. CASE n = k + 1
      <4>1. h[n] = g[k] + numbers[k + 1] /\ h[n - 1] = g[k] BY <3>1
      <4> QED BY <3>1, <4>1
    <3>2. CASE n # k + 1 /\ n # 0
      <4>1. h[n] = g[n] /\ h[n - 1] = g[n - 1] /\ n \in 0..k BY <3>2
      <4> QED BY <3>2, <4>1, <2>2
    <3>3. CASE n = 0 /\ n # k + 1 BY <3>3, <2>2
    <3> QED BY <3>1, <3>2, <3>3
  <2> DEFINE f == [n \in 0..(k + 1) |-> IF n = 0 THEN 0 ELSE h[n - 1] + numbers[n]]
  <2>4. \A n \in 0..(k + 1) : h[n] = f[n] BY <2>3
  <2>5. h = [n \in 0..(k + 1) |-> h[n]] /\ f = [n \in 0..(k + 1) |-> f[n]] OBVIOUS
  <2>6. h = f
    <3> HIDE DEF h, f
    <3> QED BY <2>4, <2>5
  <2>7. h = [n \in 0..(k + 1) |-> IF n = 0 THEN 0 ELSE h[n - 1] + numbers[n]]
    <3> HIDE DEF h
    <3> QED BY <2>6
  <2> HIDE DEF h
  <2> QED BY <2>7
<1>3. Len(numbers) \in Nat OBVIOUS
<1>4. \E g : Turns(g, Len(numbers))
  <2> DEFINE done == {n \in Nat : \E g : Turns(g, n)}
  <2> HIDE DEF Turns
  <2>1. 0 \in done BY <1>1
  <2>2. \A n \in 0..(Len(numbers) - 1) : n \in done => n + 1 \in done BY <1>2, <1>3
  <2>3. 0..Len(numbers) \subseteq done
    <3> HIDE DEF done
    <3> QED BY <2>1, <2>2, <1>3, Counting
  <2> QED BY <2>3, <1>3
<1> DEFINE upTo == CHOOSE g : Turns(g, Len(numbers))
<1>5. Turns(upTo, Len(numbers))
  <2> HIDE DEF Turns
  <2> QED BY <1>4
<1>6. SumOf(numbers) = upTo[Len(numbers)] BY DEF SumOf
<1> HIDE DEF upTo
<1>7. Sums(upTo, numbers)
  <2>1. \A n \in 0..Len(numbers) : upTo[n] = IF n = 0 THEN 0 ELSE upTo[n - 1] + numbers[n]
    BY <1>5
  <2>2. upTo[0] = 0 BY <1>3, <2>1
  <2>3. \A n \in 1..Len(numbers) : n \in 0..Len(numbers) /\ n # 0 BY <1>3
  <2> QED BY <2>1, <2>2, <2>3 DEF Sums
<1> QED BY <1>6, <1>7

(* Sums of integers are integers, and of naturals naturals that no number  *)
(* exceeds. *)
LEMMA SumType ==
  ASSUME NEW numbers \in Seq(Int), NEW g, Sums(g, numbers)
  PROVE  \A n \in 0..Len(numbers) : g[n] \in Int
<1> DEFINE done == {n \in Nat : g[n] \in Int}
<1>1. Len(numbers) \in Nat /\ 0 \in done BY DEF Sums
<1>2. \A n \in 0..(Len(numbers) - 1) : n \in done => n + 1 \in done
  <2> TAKE n \in 0..(Len(numbers) - 1)
  <2> HAVE n \in done
  <2>1. n + 1 \in 1..Len(numbers) /\ n + 1 - 1 = n /\ n \in Nat BY <1>1
  <2>2. g[n + 1] = g[n] + numbers[n + 1] BY <2>1 DEF Sums
  <2> QED BY <2>1, <2>2
<1>3. 0..Len(numbers) \subseteq done
  <2> HIDE DEF done
  <2> QED BY <1>1, <1>2, Counting
<1> QED BY <1>3

(* A sum is a whole number. *)
LEMMA SumIsInt ==
  ASSUME NEW numbers \in Seq(Int)
  PROVE  SumOf(numbers) \in Int
<1>1. PICK g : Sums(g, numbers) /\ SumOf(numbers) = g[Len(numbers)] BY SumGrows
<1>2. Len(numbers) \in 0..Len(numbers) OBVIOUS
<1> QED BY <1>1, <1>2, SumType

(* Numbers that are sums of two, as are their sums. *)
LEMMA SumPlus ==
  ASSUME NEW a \in Seq(Int), NEW b \in Seq(Int), NEW c \in Seq(Int),
         Len(a) = Len(c), Len(b) = Len(c),
         \A i \in 1..Len(c) : c[i] = a[i] + b[i]
  PROVE  SumOf(c) = SumOf(a) + SumOf(b)
<1>1. PICK f : Sums(f, a) /\ SumOf(a) = f[Len(a)] BY SumGrows
<1>2. PICK g : Sums(g, b) /\ SumOf(b) = g[Len(b)] BY SumGrows
<1>3. PICK h : Sums(h, c) /\ SumOf(c) = h[Len(c)] BY SumGrows
<1>4. \A n \in 0..Len(c) : f[n] \in Int /\ g[n] \in Int /\ h[n] \in Int
  BY <1>1, <1>2, <1>3, SumType
<1> DEFINE done == {n \in Nat : h[n] = f[n] + g[n]}
<1>5. Len(c) \in Nat /\ 0 \in done BY <1>1, <1>2, <1>3 DEF Sums
<1>6. \A n \in 0..(Len(c) - 1) : n \in done => n + 1 \in done
  <2> TAKE n \in 0..(Len(c) - 1)
  <2> HAVE n \in done
  <2>1. n + 1 \in 1..Len(c) /\ n + 1 - 1 = n /\ n \in Nat /\ n \in 0..Len(c) BY <1>5
  <2>2. /\ f[n + 1] = f[n] + a[n + 1] /\ g[n + 1] = g[n] + b[n + 1]
        /\ h[n + 1] = h[n] + c[n + 1]
    BY <1>1, <1>2, <1>3, <2>1 DEF Sums
  <2>3. c[n + 1] = a[n + 1] + b[n + 1] /\ a[n + 1] \in Int /\ b[n + 1] \in Int BY <2>1
  <2>4. PICK x \in Int, y \in Int, u \in Int, v \in Int :
          x = f[n] /\ y = g[n] /\ u = a[n + 1] /\ v = b[n + 1]
    BY <1>4, <2>1, <2>3
  <2>5. h[n + 1] = x + y + (u + v) BY <2>2, <2>3, <2>4
  <2>6. f[n + 1] + g[n + 1] = x + u + (y + v) BY <2>2, <2>4
  <2>7. h[n + 1] = f[n + 1] + g[n + 1] BY <2>5, <2>6
  <2> QED BY <2>1, <2>7
<1>7. 0..Len(c) \subseteq done
  <2> HIDE DEF done
  <2> QED BY <1>5, <1>6, Counting
<1>8. Len(c) \in done BY <1>5, <1>7
<1> QED BY <1>1, <1>2, <1>3, <1>8

(* Multiples of numbers. *)
LEMMA SumTimes ==
  ASSUME NEW a \in Seq(Int), NEW c \in Seq(Int), NEW k \in Int, Len(a) = Len(c),
         \A i \in 1..Len(c) : c[i] = k * a[i]
  PROVE  SumOf(c) = k * SumOf(a)
<1>1. PICK f : Sums(f, a) /\ SumOf(a) = f[Len(a)] BY SumGrows
<1>3. PICK h : Sums(h, c) /\ SumOf(c) = h[Len(c)] BY SumGrows
<1>4. \A n \in 0..Len(c) : f[n] \in Int /\ h[n] \in Int BY <1>1, <1>3, SumType
<1> DEFINE done == {n \in Nat : h[n] = k * f[n]}
<1>5. Len(c) \in Nat /\ 0 \in done BY <1>1, <1>3 DEF Sums
<1>6. \A n \in 0..(Len(c) - 1) : n \in done => n + 1 \in done
  <2> TAKE n \in 0..(Len(c) - 1)
  <2> HAVE n \in done
  <2>1. n + 1 \in 1..Len(c) /\ n + 1 - 1 = n /\ n \in Nat /\ n \in 0..Len(c) BY <1>5
  <2>2. f[n + 1] = f[n] + a[n + 1] /\ h[n + 1] = h[n] + c[n + 1]
    BY <1>1, <1>3, <2>1 DEF Sums
  <2>3. PICK x \in Int, y \in Int : x = f[n] /\ y = a[n + 1] BY <1>4, <2>1
  <2>4. h[n] = k * x /\ c[n + 1] = k * y BY <2>1, <2>3
  <2>5. k * (x + y) = k * x + k * y OBVIOUS
  <2>6. h[n + 1] = k * f[n + 1] BY <2>2, <2>3, <2>4, <2>5
  <2> QED BY <2>1, <2>6
<1>7. 0..Len(c) \subseteq done
  <2> HIDE DEF done
  <2> QED BY <1>5, <1>6, Counting
<1>8. Len(c) \in done BY <1>5, <1>7
<1> QED BY <1>1, <1>3, <1>8

(* Smaller numbers have a smaller sum. *)
LEMMA SumBounds ==
  ASSUME NEW a \in Seq(Int), NEW c \in Seq(Int), Len(a) = Len(c),
         \A i \in 1..Len(c) : a[i] <= c[i]
  PROVE  SumOf(a) <= SumOf(c)
<1>1. PICK f : Sums(f, a) /\ SumOf(a) = f[Len(a)] BY SumGrows
<1>3. PICK h : Sums(h, c) /\ SumOf(c) = h[Len(c)] BY SumGrows
<1>4. \A n \in 0..Len(c) : f[n] \in Int /\ h[n] \in Int BY <1>1, <1>3, SumType
<1> DEFINE done == {n \in Nat : f[n] <= h[n]}
<1>5. Len(c) \in Nat /\ 0 \in done BY <1>1, <1>3 DEF Sums
<1>6. \A n \in 0..(Len(c) - 1) : n \in done => n + 1 \in done
  <2> TAKE n \in 0..(Len(c) - 1)
  <2> HAVE n \in done
  <2>1. n + 1 \in 1..Len(c) /\ n + 1 - 1 = n /\ n \in Nat /\ n \in 0..Len(c) BY <1>5
  <2>2. f[n + 1] = f[n] + a[n + 1] /\ h[n + 1] = h[n] + c[n + 1]
    BY <1>1, <1>3, <2>1 DEF Sums
  <2>3. f[n] \in Int /\ h[n] \in Int /\ a[n + 1] \in Int /\ c[n + 1] \in Int BY <1>4, <2>1
  <2>4. a[n + 1] <= c[n + 1] BY <2>1
  <2> QED BY <2>1, <2>2, <2>3, <2>4, SMTT(30)
<1>7. 0..Len(c) \subseteq done
  <2> HIDE DEF done
  <2> QED BY <1>5, <1>6, Counting
<1>8. Len(c) \in done BY <1>5, <1>7
<1> QED BY <1>1, <1>3, <1>8

(* Ones at some places and zeros elsewhere: their sum counts the places. *)
LEMMA SumCounts ==
  ASSUME NEW a \in Seq(Int), NEW places \in SUBSET DOMAIN a,
         \A i \in 1..Len(a) : a[i] = IF i \in places THEN 1 ELSE 0
  PROVE  SumOf(a) = Cardinality(places)
<1>1. PICK f : Sums(f, a) /\ SumOf(a) = f[Len(a)] BY SumGrows
<1>2. Len(a) \in Nat /\ DOMAIN a = 1..Len(a) OBVIOUS
<1> DEFINE First(n) == {i \in places : i <= n}
<1> DEFINE done == {n \in Nat : IsFiniteSet(First(n)) /\ f[n] = Cardinality(First(n))}
<1>5. 0 \in done
  <2>1. First(0) = {} BY <1>2
  <2> QED BY <1>1, <2>1, FS_EmptySet DEF Sums
<1>6. \A n \in 0..(Len(a) - 1) : n \in done => n + 1 \in done
  <2> TAKE n \in 0..(Len(a) - 1)
  <2> HAVE n \in done
  <2>1. n + 1 \in 1..Len(a) /\ n + 1 - 1 = n /\ n \in Nat BY <1>2
  <2>2. f[n + 1] = f[n] + a[n + 1] BY <1>1, <2>1 DEF Sums
  <2>3. CASE n + 1 \in places
    <3>1. First(n + 1) = First(n) \cup {n + 1} /\ n + 1 \notin First(n) BY <2>3, <2>1, <1>2
    <3>2. IsFiniteSet(First(n + 1)) /\ Cardinality(First(n + 1)) = Cardinality(First(n)) + 1
      <4> HIDE DEF First
      <4> QED BY <3>1, FS_AddElement
    <3>3. a[n + 1] = 1 BY <2>1, <2>3
    <3> QED BY <2>1, <2>2, <3>2, <3>3
  <2>4. CASE n + 1 \notin places
    <3>1. First(n + 1) = First(n) BY <2>4, <2>1, <1>2
    <3>2. a[n + 1] = 0 BY <2>1, <2>4
    <3>3. Cardinality(First(n)) \in Nat
      <4> HIDE DEF First
      <4> QED BY FS_CardinalityType
    <3> HIDE DEF First
    <3> QED BY <2>1, <2>2, <3>1, <3>2, <3>3
  <2> QED BY <2>3, <2>4
<1>7. 0..Len(a) \subseteq done
  <2> HIDE DEF done
  <2> QED BY <1>2, <1>5, <1>6, Counting
<1>8. Len(a) \in done
  <2> HIDE DEF done
  <2> QED BY <1>2, <1>7
<1>9. First(Len(a)) = places BY <1>2
<1> QED BY <1>1, <1>8, <1>9

(* No natural number exceeds the sum of the naturals it is one of. *)
LEMMA SumMember ==
  ASSUME NEW a \in Seq(Nat), NEW i \in 1..Len(a)
  PROVE  SumOf(a) \in Nat /\ a[i] <= SumOf(a)
<1> DEFINE ones == [j \in 1..Len(a) |-> IF j \in {i} THEN 1 ELSE 0]
<1> DEFINE some == [j \in 1..Len(a) |-> IF j = i THEN a[i] ELSE 0]
<1>1. a \in Seq(Int) /\ ones \in Seq(Int) /\ some \in Seq(Int) /\ a[i] \in Nat /\ Len(a) \in Nat
  OBVIOUS
<1>2. Len(ones) = Len(a) /\ Len(some) = Len(a) /\ {i} \in SUBSET DOMAIN ones BY <1>1
<1>3. SumOf(ones) = 1
  <2>1. \A j \in 1..Len(ones) : ones[j] = IF j \in {i} THEN 1 ELSE 0 BY <1>2
  <2> HIDE DEF ones
  <2>2. SumOf(ones) = Cardinality({i}) BY <1>1, <1>2, <2>1, SumCounts
  <2> QED BY <2>2, FS_Singleton
<1>4. SumOf(some) = a[i] * SumOf(ones)
  <2>1. \A j \in 1..Len(some) : some[j] = a[i] * ones[j] BY <1>1, <1>2
  <2> HIDE DEF ones, some
  <2>2. PICK k \in Int : k = a[i] BY <1>1
  <2>3. Len(ones) = Len(some) /\ \A j \in 1..Len(some) : some[j] = k * ones[j]
    BY <1>2, <2>1, <2>2
  <2>4. SumOf(some) = k * SumOf(ones) BY <1>1, <2>3, SumTimes
  <2> QED BY <2>2, <2>4
<1>5. SumOf(some) <= SumOf(a)
  <2>1. \A j \in 1..Len(a) : some[j] <= a[j] BY <1>1
  <2> HIDE DEF some
  <2> QED BY <1>1, <1>2, <2>1, SumBounds
<1>6. SumOf(a) \in Int BY <1>1, SumIsInt
<1>7. SumOf(some) = a[i]
  <2> HIDE DEF some, ones
  <2> QED BY <1>1, <1>3, <1>4
<1> HIDE DEF some
<1> QED BY <1>1, <1>5, <1>6, <1>7
-----------------------------------------------------------------------------
(* The allocation.                                                         *)

(* Division with a remainder. *)
LEMMA DivisionIs ==
  ASSUME NEW a \in Nat, NEW b \in Nat \ {0}
  PROVE  a \div b \in Nat /\ a % b \in 0..(b - 1) /\ a = b * (a \div b) + (a % b)
OBVIOUS

(* If left times a number is what remainders below it add up to, they are  *)
(* more than left in number unless left is 0. *)
LEMMA MoreThanLeft ==
  ASSUME NEW sum \in Nat \ {0}, NEW left \in Int, NEW rest \in Nat, NEW count \in Nat,
         sum * left = rest, rest <= (sum - 1) * count
  PROVE  left \in Nat /\ (left > 0 => count > left)
<1>1. left >= 0
  <2> SUFFICES ASSUME left <= -1 PROVE FALSE OBVIOUS
  <2>1. sum * left <= sum * (-1) OBVIOUS
  <2> QED BY <2>1
<1>2. ASSUME left > 0, count <= left PROVE FALSE
  <2>1. (sum - 1) * count <= (sum - 1) * left BY <1>2
  <2>2. (sum - 1) * left = sum * left - left OBVIOUS
  <2> QED BY <1>2, <2>1, <2>2
<1> QED BY <1>1, <1>2

(* Of the numbers from 1 to the last, as many come first in an order as    *)
(* one asks for. *)
LEMMA AsManyFirst ==
  ASSUME NEW last \in Nat, NEW order, IsOrder(order, 1..last), NEW left \in 0..last
  PROVE  Cardinality({i \in 1..last : Cardinality(UpTo(1..last, order, i)) <= left}) = left
<1> DEFINE S == 1..last
<1> DEFINE place == [i \in S |-> Cardinality(UpTo(S, order, i))]
<1> DEFINE firsts == {i \in S : place[i] <= left}
<1>1. IsFiniteSet(S) /\ Cardinality(S) = last /\ IsOrder(order, S)
  BY FS_Interval
<1>2. place \in Bijection(S, 1..last)
  <2> HIDE DEF S
  <2>1. place \in Bijection(S, 1..Cardinality(S)) BY <1>1, Numbered
  <2> QED BY <1>1, <2>1
<1>3. /\ place \in [S -> 1..last]
      /\ \A i, j \in S : place[i] = place[j] => i = j
      /\ \A n \in 1..last : \E i \in S : place[i] = n
  BY <1>2 DEF Bijection, Injection, Surjection, IsInjective
<1> DEFINE number == [i \in firsts |-> place[i]]
<1>4. number \in Bijection(firsts, 1..left)
  <2> HIDE DEF place
  <2>1. \A i \in firsts : number[i] \in 1..left BY <1>3
  <2>2. \A i, j \in firsts : number[i] = number[j] => i = j BY <1>3
  <2>3. \A n \in 1..left : \E i \in firsts : number[i] = n
    <3> TAKE n \in 1..left
    <3>1. PICK i \in S : place[i] = n BY <1>3
    <3> QED BY <3>1
  <2> HIDE DEF firsts
  <2> QED BY <2>1, <2>2, <2>3 DEF Bijection, Injection, Surjection, IsInjective
<1>5. IsFiniteSet(firsts) BY <1>1, FS_Subset
<1>6. left \in Nat /\ IsFiniteSet(1..left) /\ Cardinality(1..left) = left
  BY FS_Interval
<1>7. Cardinality(firsts) = left
  <2>1. ExistsBijection(firsts, 1..left)
    <3> HIDE DEF firsts, number
    <3> QED BY <1>4 DEF ExistsBijection
  <2> HIDE DEF firsts
  <2> QED BY <1>5, <1>6, <2>1, FS_Bijection
<1>8. firsts = {i \in 1..last : Cardinality(UpTo(1..last, order, i)) <= left} OBVIOUS
<1> QED BY <1>7, <1>8

(* Everything is given away, in shares that are less than one from what    *)
(* the ratios ask for. *)
LEMMA AllocationIs ==
  ASSUME NEW ratios \in Seq(Nat \ {0}), Len(ratios) # 0, NEW total \in Nat
  PROVE  /\ Allocation(ratios, total) \in Seq(Nat)
         /\ Len(Allocation(ratios, total)) = Len(ratios)
         /\ SharesWell(ratios, Allocation(ratios, total), total)
<1> DEFINE sum      == SumOf(ratios)
           whole(i) == (total * ratios[i]) \div sum
           over(i)  == (total * ratios[i]) % sum
           left     == total - SumOf([i \in DOMAIN ratios |-> whole(i)])
           rank(i)  == Cardinality({j \in DOMAIN ratios :
                         over(j) > over(i) \/ (over(j) = over(i) /\ j < i)})
<1>1. Allocation(ratios, total) =
        [i \in DOMAIN ratios |-> whole(i) + IF rank(i) < left THEN 1 ELSE 0]
  BY DEF Allocation
<1>2. PICK N \in Nat : N = Len(ratios) /\ DOMAIN ratios = 1..N /\ N >= 1 OBVIOUS
<1>3. PICK all \in Nat \ {0} : all = sum
  <2>1. ratios \in Seq(Nat) /\ 1 \in 1..Len(ratios) /\ ratios[1] \in Nat \ {0} BY <1>2
  <2>2. SumOf(ratios) \in Nat /\ ratios[1] <= SumOf(ratios) BY <2>1, SumMember
  <2> QED BY <2>1, <2>2
<1> DEFINE asked  == [i \in DOMAIN ratios |-> total * ratios[i]]
           wholes == [i \in DOMAIN ratios |-> whole(i)]
           overs  == [i \in DOMAIN ratios |-> over(i)]
           some   == {i \in DOMAIN ratios : over(i) > 0}
           first  == {i \in DOMAIN ratios : rank(i) < left}
<1>4. ASSUME NEW i \in 1..N
      PROVE  /\ asked[i] \in Nat /\ wholes[i] \in Nat /\ overs[i] \in 0..(all - 1)
             /\ asked[i] = all * wholes[i] + overs[i]
             /\ asked[i] = total * ratios[i] /\ ratios[i] \in Nat
             /\ wholes[i] = whole(i) /\ overs[i] = over(i)
  <2>1. ratios[i] \in Nat BY <1>2
  <2>2. PICK a \in Nat : a = total * ratios[i] BY <2>1
  <2>3. a \div all \in Nat /\ a % all \in 0..(all - 1) /\ a = all * (a \div all) + (a % all)
    BY DivisionIs
  <2>4. whole(i) = a \div all /\ over(i) = a % all BY <1>3, <2>2
  <2>5. asked[i] = a /\ wholes[i] = whole(i) /\ overs[i] = over(i) BY <1>2, <2>2
  <2> HIDE DEF asked, wholes, overs, whole, over
  <2> QED BY <2>1, <2>2, <2>3, <2>4, <2>5
<1> HIDE DEF sum, whole, over
<1>5. /\ asked \in Seq(Int) /\ wholes \in Seq(Nat) /\ overs \in Seq(Nat)
      /\ Len(asked) = N /\ Len(wholes) = N /\ Len(overs) = N
  <2>1. DOMAIN asked = 1..N /\ DOMAIN wholes = 1..N /\ DOMAIN overs = 1..N BY <1>2
  <2>2. /\ asked = [i \in 1..N |-> asked[i]] /\ wholes = [i \in 1..N |-> wholes[i]]
        /\ overs = [i \in 1..N |-> overs[i]]
    BY <1>2
  <2> HIDE DEF asked, wholes, overs
  <2>3. \A i \in 1..N : asked[i] \in Int /\ wholes[i] \in Nat /\ overs[i] \in Nat BY <1>3, <1>4
  <2>4. asked \in Seq(Int) /\ Len(asked) = N BY <1>2, <2>1, <2>2, <2>3
  <2>5. wholes \in Seq(Nat) /\ Len(wholes) = N BY <1>2, <2>1, <2>2, <2>3
  <2>6. overs \in Seq(Nat) /\ Len(overs) = N BY <1>2, <2>1, <2>2, <2>3
  <2> QED BY <2>4, <2>5, <2>6
<1> HIDE DEF asked, wholes, overs
<1>6. PICK W \in Int, O \in Nat : W = SumOf(wholes) /\ O = SumOf(overs)
  <2>1. wholes \in Seq(Int) BY <1>5
  <2>2. 1 \in 1..Len(overs) BY <1>2, <1>5
  <2>3. SumOf(wholes) \in Int BY <2>1, SumIsInt
  <2>4. SumOf(overs) \in Nat BY <1>5, <2>2, SumMember
  <2> QED BY <2>3, <2>4
<1>7. total * all = all * W + O
  <2>1. SumOf(asked) = total * all
    <3>1. ratios \in Seq(Int) /\ Len(ratios) = Len(asked) BY <1>2, <1>5
    <3>2. PICK k \in Int : k = total OBVIOUS
    <3>3. \A i \in 1..Len(asked) : asked[i] = k * ratios[i] BY <1>4, <1>5, <3>2
    <3>4. SumOf(asked) = k * SumOf(ratios) BY <1>5, <3>1, <3>3, SumTimes
    <3> QED BY <1>3, <3>2, <3>4 DEF sum
  <2> DEFINE parts == [i \in 1..N |-> all * wholes[i]]
  <2>2. /\ parts \in Seq(Int) /\ Len(parts) = N
        /\ \A i \in 1..N : parts[i] = all * wholes[i]
    <3>1. \A i \in 1..N : all * wholes[i] \in Int BY <1>3, <1>4
    <3> QED BY <3>1
  <2> HIDE DEF parts
  <2>3. SumOf(parts) = all * W
    <3>1. wholes \in Seq(Int) /\ Len(wholes) = Len(parts) BY <1>5, <2>2
    <3>2. \A i \in 1..Len(parts) : parts[i] = all * wholes[i] BY <2>2
    <3>3. all \in Int BY <1>3
    <3>4. SumOf(parts) = all * SumOf(wholes) BY <2>2, <3>1, <3>2, <3>3, SumTimes
    <3> QED BY <1>6, <3>4
  <2>4. SumOf(asked) = SumOf(parts) + SumOf(overs)
    <3>1. overs \in Seq(Int) /\ Len(parts) = Len(asked) /\ Len(overs) = Len(asked) BY <1>5, <2>2
    <3>2. \A i \in 1..Len(asked) : asked[i] = parts[i] + overs[i] BY <1>4, <1>5, <2>2
    <3> QED BY <1>5, <2>2, <3>1, <3>2, SumPlus
  <2> QED BY <1>6, <2>1, <2>3, <2>4
<1>8. left = total - W BY <1>6 DEF wholes
<1>9. all * left = O
  <2>1. all * (total - W) = all * total - all * W OBVIOUS
  <2> QED BY <1>7, <1>8, <2>1, SMTT(30)
<1>10. some \in SUBSET (1..N) /\ first \in SUBSET (1..N) BY <1>2
<1>11. IsFiniteSet(1..N) /\ Cardinality(1..N) = N
  <2>1. N \in Int /\ 1 \in Int /\ ~(1 > N) /\ N - 1 + 1 = N BY <1>2
  <2> QED BY <2>1, FS_Interval
<1>12. /\ IsFiniteSet(some) /\ Cardinality(some) \in Nat /\ Cardinality(some) <= N
  <2>1. IsFiniteSet(some) /\ Cardinality(some) <= Cardinality(1..N)
    <3> HIDE DEF some
    <3> QED BY <1>10, <1>11, FS_Subset
  <2> HIDE DEF some
  <2> QED BY <1>11, <2>1, FS_CardinalityType
<1>13. O <= (all - 1) * Cardinality(some)
  <2> DEFINE ones == [i \in 1..N |-> IF i \in some THEN 1 ELSE 0]
  <2> DEFINE most == [i \in 1..N |-> (all - 1) * ones[i]]
  <2> HIDE DEF some
  <2>1. /\ ones \in Seq(Int) /\ Len(ones) = N /\ DOMAIN ones = 1..N
        /\ \A i \in 1..N : ones[i] \in Int /\ ones[i] = IF i \in some THEN 1 ELSE 0
    OBVIOUS
  <2> HIDE DEF ones
  <2>2. /\ most \in Seq(Int) /\ Len(most) = N
        /\ \A i \in 1..N : most[i] = (all - 1) * ones[i]
    <3>1. \A i \in 1..N : (all - 1) * ones[i] \in Int BY <2>1
    <3> QED BY <3>1
  <2> HIDE DEF most
  <2>3. SumOf(ones) = Cardinality(some)
    <3>1. some \in SUBSET DOMAIN ones BY <1>10, <2>1
    <3>2. \A i \in 1..Len(ones) : ones[i] = IF i \in some THEN 1 ELSE 0 BY <2>1
    <3> QED BY <2>1, <3>1, <3>2, SumCounts
  <2>4. SumOf(most) = (all - 1) * SumOf(ones)
    <3>1. PICK k \in Int : k = all - 1 OBVIOUS
    <3>2. Len(ones) = Len(most) /\ \A i \in 1..Len(most) : most[i] = k * ones[i]
      BY <2>1, <2>2, <3>1
    <3>3. SumOf(most) = k * SumOf(ones) BY <2>1, <2>2, <3>2, SumTimes
    <3> QED BY <3>1, <3>3
  <2>5. SumOf(overs) <= SumOf(most)
    <3>1. overs \in Seq(Int) /\ Len(overs) = Len(most) BY <1>5, <2>2
    <3>2. \A i \in 1..Len(most) : overs[i] <= most[i]
      <4> TAKE i \in 1..Len(most)
      <4>1. i \in 1..N /\ overs[i] \in 0..(all - 1) /\ overs[i] = over(i) BY <2>2, <1>4
      <4>2. CASE i \in some
        <5>1. most[i] = all - 1 BY <4>1, <4>2, <2>1, <2>2
        <5> QED BY <4>1, <5>1
      <4>3. CASE i \notin some
        <5>1. most[i] = 0 BY <4>1, <4>3, <2>1, <2>2
        <5>2. ~(overs[i] > 0) BY <4>1, <4>3, <1>2 DEF some
        <5> QED BY <4>1, <5>1, <5>2
      <4> QED BY <4>2, <4>3
    <3> QED BY <2>2, <3>1, <3>2, SumBounds
  <2> QED BY <1>6, <2>3, <2>4, <2>5
<1>14. left \in Nat /\ (left > 0 => Cardinality(some) > left)
  <2> HIDE DEF left, some
  <2>0. left \in Int BY <1>8
  <2>1. PICK l \in Int, c \in Nat : l = left /\ c = Cardinality(some) BY <2>0, <1>12
  <2>2. all * l = O /\ O <= (all - 1) * c BY <1>9, <1>13, <2>1
  <2>3. l \in Nat /\ (l > 0 => c > l) BY <2>2, MoreThanLeft
  <2> QED BY <2>1, <2>3
<1>15. left \in 0..N BY <1>12, <1>14
<1> DEFINE order == {pair \in (1..N) \X (1..N) :
                       \/ overs[pair[1]] > overs[pair[2]]
                       \/ overs[pair[1]] = overs[pair[2]] /\ pair[1] <= pair[2]}
<1>16. IsOrder(order, 1..N)
  <2>1. \A i \in 1..N : overs[i] \in Int BY <1>3, <1>4
  <2>2. \A i, j \in 1..N : <<i, j>> \in order <=> \/ overs[i] > overs[j]
                                                   \/ (overs[i] = overs[j] /\ i <= j)
    <3> TAKE i \in 1..N, j \in 1..N
    <3>1. PICK pair : pair = <<i, j>> OBVIOUS
    <3>2. pair \in (1..N) \X (1..N) /\ pair[1] = i /\ pair[2] = j BY <3>1
    <3>3. pair \in order <=> \/ overs[pair[1]] > overs[pair[2]]
                             \/ (overs[pair[1]] = overs[pair[2]] /\ pair[1] <= pair[2])
      BY <3>2
    <3> HIDE DEF order
    <3> QED BY <3>1, <3>2, <3>3
  <2> HIDE DEF order
  <2>3. \A i, j \in 1..N : <<i, j>> \in order \/ <<j, i>> \in order
    <3> TAKE i \in 1..N, j \in 1..N
    <3>1. overs[i] \in Int /\ overs[j] \in Int BY <2>1
    <3> QED BY <2>2, <3>1
  <2>4. \A i, j \in 1..N : <<i, j>> \in order /\ <<j, i>> \in order => i = j
    <3> TAKE i \in 1..N, j \in 1..N
    <3>1. overs[i] \in Int /\ overs[j] \in Int BY <2>1
    <3> QED BY <2>2, <3>1
  <2>5. \A i, j, k \in 1..N : <<i, j>> \in order /\ <<j, k>> \in order => <<i, k>> \in order
    <3> TAKE i \in 1..N, j \in 1..N, k \in 1..N
    <3>1. PICK x \in Int, y \in Int, z \in Int : x = overs[i] /\ y = overs[j] /\ z = overs[k]
      BY <2>1
    <3>2. i \in Int /\ j \in Int /\ k \in Int OBVIOUS
    <3>3. /\ <<i, j>> \in order <=> (x > y \/ (x = y /\ i <= j))
          /\ <<j, k>> \in order <=> (y > z \/ (y = z /\ j <= k))
          /\ <<i, k>> \in order <=> (x > z \/ (x = z /\ i <= k))
      BY <2>2, <3>1
    <3>4. (x > y \/ (x = y /\ i <= j)) /\ (y > z \/ (y = z /\ j <= k))
          => (x > z \/ (x = z /\ i <= k))
      BY <3>2
    <3> QED BY <3>3, <3>4
  <2> QED BY <2>3, <2>4, <2>5 DEF IsOrder
<1>17. ASSUME NEW i \in 1..N
       PROVE  Cardinality(UpTo(1..N, order, i)) = rank(i) + 1 /\ rank(i) \in Nat
  <2> DEFINE ahead == {j \in DOMAIN ratios : over(j) > over(i) \/ (over(j) = over(i) /\ j < i)}
  <2>1. \A j \in 1..N : overs[j] = over(j) /\ overs[j] \in Int BY <1>3, <1>4
  <2>2. UpTo(1..N, order, i) = ahead \cup {i} BY <2>1, <1>2, SMTT(30) DEF UpTo
  <2>3. i \notin ahead /\ ahead \in SUBSET (1..N) BY <2>1, <1>2
  <2> HIDE DEF ahead
  <2>4. IsFiniteSet(ahead) BY <2>3, <1>11, FS_Subset
  <2>5. Cardinality(ahead \cup {i}) = Cardinality(ahead) + 1 /\ Cardinality(ahead) \in Nat
    BY <2>3, <2>4, FS_AddElement, FS_CardinalityType
  <2>6. rank(i) = Cardinality(ahead) BY DEF ahead
  <2> HIDE DEF rank, order
  <2> QED BY <2>2, <2>5, <2>6
<1>18. Cardinality(first) = left
  <2> DEFINE firsts == {i \in 1..N : Cardinality(UpTo(1..N, order, i)) <= left}
  <2>1. Cardinality(firsts) = left
    <3>1. PICK l \in 0..N : l = left BY <1>15
    <3> HIDE DEF order
    <3>2. Cardinality({i \in 1..N : Cardinality(UpTo(1..N, order, i)) <= l}) = l
      BY <1>16, AsManyFirst
    <3> HIDE DEF left
    <3> QED BY <3>1, <3>2
  <2>2. firsts = first
    <3> HIDE DEF order, rank, left
    <3>1. \A i \in 1..N : Cardinality(UpTo(1..N, order, i)) <= left <=> rank(i) < left
      BY <1>14, <1>17
    <3> QED BY <1>2, <3>1
  <2> QED BY <2>1, <2>2
<1>19. ASSUME NEW i \in 1..N, rank(i) < left PROVE overs[i] > 0
  <2> SUFFICES ASSUME ~(overs[i] > 0) PROVE FALSE OBVIOUS
  <2> DEFINE ahead == {j \in DOMAIN ratios : over(j) > over(i) \/ (over(j) = over(i) /\ j < i)}
  <2>1. \A j \in 1..N : overs[j] = over(j) /\ overs[j] \in 0..(all - 1) BY <1>4
  <2>2. over(i) = 0 BY <2>1
  <2>3. some \subseteq ahead BY <1>2, <2>1, <2>2
  <2>4. IsFiniteSet(ahead)
    <3>1. ahead \in SUBSET (1..N) BY <1>2
    <3> HIDE DEF ahead
    <3> QED BY <3>1, <1>11, FS_Subset
  <2>5. Cardinality(some) <= Cardinality(ahead)
    <3> HIDE DEF some, ahead
    <3> QED BY <2>3, <2>4, FS_Subset
  <2>6. rank(i) = Cardinality(ahead) BY DEF ahead
  <2>7. rank(i) \in Nat BY <1>17
  <2> HIDE DEF rank, left, some, ahead
  <2> QED BY <1>12, <1>14, <1>19, <2>5, <2>6, <2>7
<1> DEFINE gift == [i \in 1..N |-> IF i \in first THEN 1 ELSE 0]
<1>20. PICK share : share = Allocation(ratios, total) OBVIOUS
<1>21. /\ share \in Seq(Nat) /\ Len(share) = N
       /\ \A i \in 1..N : share[i] = wholes[i] + gift[i]
  <2>1. share = [i \in 1..N |-> wholes[i] + gift[i]]
    <3>1. share = [i \in 1..N |-> whole(i) + IF rank(i) < left THEN 1 ELSE 0]
      BY <1>1, <1>2, <1>20
    <3>2. \A i \in 1..N : whole(i) = wholes[i] BY <1>4
    <3>3. \A i \in 1..N : (IF rank(i) < left THEN 1 ELSE 0) = gift[i] BY <1>2
    <3> HIDE DEF rank, left, gift
    <3> QED BY <3>1, <3>2, <3>3
  <2>2. \A i \in 1..N : wholes[i] + gift[i] \in Nat
    <3>1. \A i \in 1..N : gift[i] \in {0, 1}
      <4> HIDE DEF first
      <4> QED OBVIOUS
    <3> HIDE DEF gift
    <3> TAKE i \in 1..N
    <3>2. wholes[i] \in Nat /\ gift[i] \in {0, 1} BY <1>4, <3>1
    <3> QED BY <3>2
  <2> HIDE DEF gift
  <2> QED BY <2>1, <2>2
<1>22. SumOf(share) = total
  <2> HIDE DEF first
  <2>1. /\ gift \in Seq(Int) /\ Len(gift) = N /\ DOMAIN gift = 1..N
        /\ \A i \in 1..N : gift[i] = IF i \in first THEN 1 ELSE 0
    OBVIOUS
  <2> HIDE DEF gift
  <2>2. SumOf(gift) = Cardinality(first)
    <3>1. first \in SUBSET DOMAIN gift BY <1>10, <2>1
    <3>2. \A i \in 1..Len(gift) : gift[i] = IF i \in first THEN 1 ELSE 0 BY <2>1
    <3> QED BY <2>1, <3>1, <3>2, SumCounts
  <2>3. SumOf(share) = SumOf(wholes) + SumOf(gift)
    <3>1. /\ wholes \in Seq(Int) /\ share \in Seq(Int)
          /\ Len(wholes) = Len(share) /\ Len(gift) = Len(share)
      BY <1>5, <1>21, <2>1
    <3>2. \A i \in 1..Len(share) : share[i] = wholes[i] + gift[i] BY <1>21
    <3> QED BY <2>1, <3>1, <3>2, SumPlus
  <2> HIDE DEF left
  <2> QED BY <1>6, <1>8, <1>14, <1>18, <2>2, <2>3
<1>23. ASSUME NEW i \in 1..N
       PROVE  share[i] * all - total * ratios[i] \in (1 - all)..(all - 1)
  <2>1. PICK w \in Nat, o \in 0..(all - 1), a \in Nat :
          w = wholes[i] /\ o = overs[i] /\ a = total * ratios[i] /\ a = all * w + o
    BY <1>4
  <2>2. CASE rank(i) < left
    <3>1. share[i] = w + 1
      <4>1. gift[i] = 1 BY <1>2, <2>2
      <4> HIDE DEF gift
      <4> QED BY <4>1, <1>21, <2>1
    <3>2. o > 0
      <4> HIDE DEF rank, left
      <4> QED BY <1>19, <2>1, <2>2
    <3>3. (w + 1) * all = all * w + all OBVIOUS
    <3> HIDE DEF rank, left
    <3>5. share[i] * all = all * w + all BY <3>1, <3>3
    <3>6. PICK x \in Int : x = all * w OBVIOUS
    <3>7. x + all - (x + o) = all - o OBVIOUS
    <3>8. share[i] * all = x + all /\ total * ratios[i] = x + o BY <2>1, <3>5, <3>6
    <3>4. share[i] * all - total * ratios[i] = all - o BY <3>7, <3>8
    <3> QED BY <3>2, <3>4
  <2>3. CASE ~(rank(i) < left)
    <3>1. share[i] = w
      <4>1. gift[i] = 0 BY <1>2, <2>3
      <4> HIDE DEF gift
      <4>2. share[i] = w + 0 BY <4>1, <1>21, <2>1
      <4> QED BY <4>2
    <3>3. w * all = all * w OBVIOUS
    <3> HIDE DEF rank, left
    <3>5. share[i] * all = all * w BY <3>1, <3>3
    <3>6. PICK x \in Int : x = all * w OBVIOUS
    <3>7. x - (x + o) = 0 - o OBVIOUS
    <3>8. share[i] * all = x /\ total * ratios[i] = x + o BY <2>1, <3>5, <3>6
    <3>4. share[i] * all - total * ratios[i] = 0 - o BY <3>7, <3>8
    <3> QED BY <3>4
  <2> QED BY <2>2, <2>3
<1>24. SharesWell(ratios, share, total)
  <2> HIDE DEF rank, left
  <2>1. SumOf(ratios) = all BY <1>3 DEF sum
  <2> QED BY <1>2, <1>22, <1>23, <2>1 DEF SharesWell
<1> QED BY <1>2, <1>20, <1>21, <1>24

(* No share exceeds the total. *)
LEMMA ShareBounded ==
  ASSUME NEW ratios \in Seq(Nat \ {0}), NEW total \in Nat, NEW i \in DOMAIN ratios
  PROVE  Allocation(ratios, total)[i] \in Nat /\ Allocation(ratios, total)[i] <= total
<1>1. Len(ratios) # 0 /\ i \in 1..Len(ratios) OBVIOUS
<1>2. PICK share : share = Allocation(ratios, total) OBVIOUS
<1>3. share \in Seq(Nat) /\ Len(share) = Len(ratios) /\ SharesWell(ratios, share, total)
  BY <1>1, <1>2, AllocationIs
<1>4. SumOf(share) = total BY <1>3 DEF SharesWell
<1>5. share[i] \in Nat /\ share[i] <= SumOf(share) BY <1>1, <1>3, SumMember
<1> QED BY <1>2, <1>4, <1>5

-----------------------------------------------------------------------------
(* The splitter.                                                           *)

(* A set of integers with a bound has a largest, or a smallest, member.    *)
LEMMA LargestIs ==
  ASSUME NEW S \in SUBSET Int, NEW top \in Int, S # {}, \A p \in S : p <= top
  PROVE  \E p \in S : \A q \in S : q <= p
<1> DEFINE below == {n \in Nat : top - n \in S}
<1>1. below # {}
  <2>1. PICK p \in S : TRUE OBVIOUS
  <2>2. top - p \in Nat /\ top - (top - p) = p BY <2>1
  <2> QED BY <2>1, <2>2
<1>2. PICK n \in below : \A m \in below : n <= m
  <2> HIDE DEF below
  <2>1. below \in SUBSET Nat BY DEF below
  <2> QED BY <1>1, <2>1, LeastNatural
<1>3. \A q \in S : q <= top - n
  <2> TAKE q \in S
  <2>1. q \in Int /\ q <= top OBVIOUS
  <2>2. top - q \in Nat /\ top - (top - q) = q BY <2>1
  <2>3. top - q \in below BY <2>2
  <2>4. n <= top - q /\ n \in Nat BY <1>2, <2>3
  <2> QED BY <2>1, <2>4
<1> QED BY <1>2, <1>3

(* A set of naturals has a smallest member. *)
LEMMA SmallestIs ==
  ASSUME NEW S \in SUBSET Nat, S # {}
  PROVE  \E p \in S : \A q \in S : p <= q
BY LeastNatural

(* A separator that is found lies between the bounds. *)
LEMMA RFindIs ==
  ASSUME NEW text, NEW separator, Len(separator) \in Nat, NEW from \in Nat, NEW to \in Nat,
         RFind(text, separator, from, to) # -1
  PROVE  RFind(text, separator, from, to) \in from..(to - Len(separator))
<1> DEFINE places == {p \in from..(to - Len(separator)) :
                        Slice(text, p, p + Len(separator)) = separator}
<1>1. RFind(text, separator, from, to) =
        IF places = {} THEN -1 ELSE CHOOSE p \in places : \A q \in places : q <= p
  BY DEF RFind
<1>2. places # {} BY <1>1
<1>3. \E p \in places : \A q \in places : q <= p
  <2>1. places \in SUBSET Int /\ to - Len(separator) \in Int
        /\ \A p \in places : p <= to - Len(separator)
    OBVIOUS
  <2> HIDE DEF places
  <2> QED BY <1>2, <2>1, LargestIs
<1>4. RFind(text, separator, from, to) \in places
  <2> HIDE DEF places
  <2> QED BY <1>1, <1>2, <1>3
<1> QED BY <1>4

CutIs(cut) == cut.size \in Nat \ {0} /\ cut.overlap \in Nat

(* A chunk ends after it starts, within its size and the text. *)
LEMMA EndOfIs ==
  ASSUME NEW text, NEW length \in Nat, length = Len(text), NEW cut, CutIs(cut),
         NEW start \in 0..(length - 1)
  PROVE  /\ EndOf(text, start, cut) \in (start + 1)..length
         /\ EndOf(text, start, cut) <= start + cut.size
<1> DEFINE limit == Smaller(start + cut.size, Len(text))
           half  == start + Larger(1, cut.size \div 2)
           hits  == {k \in DOMAIN Separators : RFind(text, Separators[k], half, limit) # -1}
           first == CHOOSE k \in hits : \A l \in hits : k <= l
<1>1. EndOf(text, start, cut) =
        IF limit = Len(text) \/ hits = {} THEN limit
        ELSE RFind(text, Separators[first], half, limit) + Len(Separators[first])
  BY DEF EndOf
<1>2. PICK size \in Nat \ {0} : size = cut.size BY DEF CutIs
<1>3. limit \in (start + 1)..length /\ limit <= start + size /\ limit \in Nat
  BY <1>2 DEF Smaller
<1>4. half \in Nat /\ half >= start + 1
  <2>1. PICK h \in Nat : h = size \div 2
    <3>1. size \div 2 \in Nat BY QuotientIs
    <3> QED BY <3>1
  <2>2. Larger(1, h) \in Nat /\ Larger(1, h) >= 1 BY DEF Larger
  <2> QED BY <1>2, <2>1, <2>2
<1>5. CASE limit = Len(text) \/ hits = {}
  <2>1. EndOf(text, start, cut) = limit BY <1>1, <1>5
  <2> HIDE DEF limit
  <2> QED BY <1>2, <1>3, <2>1
<1>6. CASE ~(limit = Len(text) \/ hits = {})
  <2>1. Separators \in Seq(Seq(STRING) \ {<<>>}) BY DatasetAssumption
  <2>2. hits \in SUBSET Nat BY <2>1
  <2>3. first \in hits
    <3>1. \E k \in hits : \A l \in hits : k <= l
      <4> HIDE DEF hits
      <4> QED BY <1>6, <2>2, SmallestIs
    <3> HIDE DEF hits
    <3> QED BY <3>1
  <2>4. PICK k \in hits : k = first BY <2>3
  <2>5. k \in DOMAIN Separators /\ RFind(text, Separators[k], half, limit) # -1 BY <2>4
  <2>6. Separators[k] \in Seq(STRING) /\ Len(Separators[k]) \in Nat BY <2>1, <2>5
  <2>7. EndOf(text, start, cut) = RFind(text, Separators[k], half, limit) + Len(Separators[k])
    BY <1>1, <1>6, <2>4
  <2> HIDE DEF limit, half, hits, first
  <2>8. RFind(text, Separators[k], half, limit) \in half..(limit - Len(Separators[k]))
    BY <1>3, <1>4, <2>5, <2>6, RFindIs
  <2>9. PICK r \in Int, l \in Nat : r = RFind(text, Separators[k], half, limit)
                                    /\ l = Len(Separators[k])
    BY <2>6, <2>8, <1>3, <1>4
  <2>10. PICK e \in Nat, h \in Nat : e = limit /\ h = half BY <1>3, <1>4
  <2>11. r \in h..(e - l) /\ h >= start + 1 /\ e <= length /\ e <= start + size
    BY <1>3, <1>4, <2>8, <2>9, <2>10
  <2>12. r + l \in (start + 1)..length /\ r + l <= start + size BY <2>11
  <2> QED BY <1>2, <2>7, <2>9, <2>12
<1> QED BY <1>5, <1>6

(* The next chunk starts after this one starts, and not after its end. *)
LEMMA NextStartIs ==
  ASSUME NEW text, NEW length \in Nat, length = Len(text), NEW cut, CutIs(cut),
         NEW start \in 0..(length - 1)
  PROVE  NextStart(text, start, cut) \in (start + 1)..EndOf(text, start, cut)
<1>1. PICK end \in (start + 1)..length : end = EndOf(text, start, cut) BY EndOfIs
<1>2. PICK overlap \in Nat : overlap = cut.overlap BY DEF CutIs
<1>3. NextStart(text, start, cut) = Larger(start + 1, end - overlap) BY <1>1, <1>2 DEF NextStart
<1>4. Larger(start + 1, end - overlap) \in (start + 1)..end BY DEF Larger
<1> QED BY <1>1, <1>3, <1>4

(* What strip leaves starts and ends with a character that is not blank,   *)
(* and has all of these. *)
LEMMA StrippedIs ==
  ASSUME NEW text, NEW start \in Nat, NEW end \in Nat
  PROVE  \/ /\ Stripped(text, start, end) = <<>>
            /\ \A p \in start..(end - 1) : text[p + 1] = Space
         \/ \E a \in start..(end - 1), b \in (start + 1)..end :
              /\ Stripped(text, start, end) = <<[start |-> a, end |-> b]>>
              /\ a < b /\ text[a + 1] # Space
              /\ \A p \in start..(end - 1) : text[p + 1] # Space => a <= p /\ p < b
<1> DEFINE inked == {p \in start..(end - 1) : text[p + 1] # Space}
           low   == CHOOSE p \in inked : \A q \in inked : p <= q
           high  == CHOOSE p \in inked : \A q \in inked : p >= q
<1>1. Stripped(text, start, end) =
        IF inked = {} THEN <<>> ELSE <<[start |-> low, end |-> high + 1]>>
  BY DEF Stripped
<1>2. CASE inked = {}
  <2>1. \A p \in start..(end - 1) : text[p + 1] = Space BY <1>2
  <2> QED BY <1>1, <1>2, <2>1
<1>3. CASE inked # {}
  <2>1. inked \in SUBSET Nat /\ inked \in SUBSET Int /\ \A p \in inked : p <= end - 1
    <3>1. \A p \in start..(end - 1) : p \in Nat /\ p \in Int /\ p <= end - 1 OBVIOUS
    <3>2. inked \in SUBSET (start..(end - 1)) OBVIOUS
    <3> HIDE DEF inked
    <3> QED BY <3>1, <3>2
  <2>2. \A p : p \in inked <=> p \in start..(end - 1) /\ text[p + 1] # Space OBVIOUS
  <2> HIDE DEF inked
  <2>3. low \in inked /\ \A q \in inked : low <= q BY <1>3, <2>1, SmallestIs
  <2>4. high \in inked /\ \A q \in inked : high >= q
    <3>1. \E p \in inked : \A q \in inked : q <= p
      <4>1. end - 1 \in Int OBVIOUS
      <4> QED BY <1>3, <2>1, <4>1, LargestIs
    <3>2. \A p, q \in inked : q <= p <=> p >= q BY <2>1
    <3>3. \E p \in inked : \A q \in inked : p >= q BY <3>1, <3>2
    <3> QED BY <3>3
  <2> HIDE DEF low, high
  <2>5. low \in start..(end - 1) /\ text[low + 1] # Space /\ high \in start..(end - 1)
    BY <2>2, <2>3, <2>4
  <2>6. low <= high BY <2>4, <2>3
  <2>7. PICK a \in start..(end - 1), b \in (start + 1)..end : a = low /\ b = high + 1
    <3>1. high + 1 \in (start + 1)..end BY <2>5
    <3> QED BY <2>5, <3>1
  <2>8. Stripped(text, start, end) = <<[start |-> a, end |-> b]>> BY <1>1, <1>3, <2>7
  <2>9. a < b /\ text[a + 1] # Space
    <3>1. low \in Int /\ high \in Int BY <2>5
    <3> QED BY <2>5, <2>6, <2>7, <3>1
  <2>10. \A p \in start..(end - 1) : text[p + 1] # Space => a <= p /\ p < b
    <3> TAKE p \in start..(end - 1)
    <3> HAVE text[p + 1] # Space
    <3>1. p \in inked BY <2>2
    <3>2. low <= p /\ high >= p BY <3>1, <2>3, <2>4
    <3>3. low \in Int /\ high \in Int /\ p \in Int BY <2>5
    <3> QED BY <2>7, <3>2, <3>3
  <2> QED BY <2>8, <2>9, <2>10
<1> QED BY <1>2, <1>3

Pieces == [start : Nat, end : Nat]

(* The pieces from a place on. *)
SplitFrom(text, pieces, s, size) ==
  /\ pieces \in Seq(Pieces)
  /\ \A i \in 1..Len(pieces) :
       /\ s <= pieces[i].start /\ pieces[i].start < pieces[i].end
       /\ pieces[i].end <= Len(text) /\ pieces[i].end - pieces[i].start <= size
       /\ text[pieces[i].start + 1] # Space
  /\ \A p \in s..(Len(text) - 1) : text[p + 1] # Space =>
       \E i \in 1..Len(pieces) : pieces[i].start <= p /\ p < pieces[i].end
  /\ \A i, j \in 1..Len(pieces) : i < j => pieces[i].start <= pieces[j].start

(* One more chunk, before those from where the next one starts. *)
LEMMA SplitTurn ==
  ASSUME NEW text, NEW length \in Nat, length = Len(text), NEW size \in Nat,
         NEW s \in 0..(length - 1), NEW end \in (s + 1)..length, end <= s + size,
         NEW next \in (s + 1)..end, NEW rest, SplitFrom(text, rest, next, size)
  PROVE  SplitFrom(text, Stripped(text, s, end) \o rest, s, size)
<1>0. rest \in Seq(Pieces) /\ \A i \in 1..Len(rest) : rest[i] \in Pieces BY DEF SplitFrom
<1>3. s \in Nat /\ end \in Nat /\ next \in Nat /\ s < next /\ next <= end /\ end <= length
  OBVIOUS
<1>1. CASE /\ Stripped(text, s, end) = <<>>
           /\ \A p \in s..(end - 1) : text[p + 1] = Space
  <2>1. Stripped(text, s, end) \o rest = rest
    <3>1. <<>> \o rest = rest BY <1>0
    <3> QED BY <3>1, <1>1
  <2>2. SplitFrom(text, rest, s, size)
    <3>1. \A i \in 1..Len(rest) : rest[i].start \in Nat BY <1>0 DEF Pieces
    <3>2. \A i \in 1..Len(rest) : s <= rest[i].start
      <4> TAKE i \in 1..Len(rest)
      <4>1. next <= rest[i].start /\ rest[i].start \in Nat BY <3>1 DEF SplitFrom
      <4> QED BY <4>1, <1>3
    <3>3. \A p \in s..(Len(text) - 1) : text[p + 1] # Space => p \in next..(Len(text) - 1)
      <4> TAKE p \in s..(Len(text) - 1)
      <4> HAVE text[p + 1] # Space
      <4>1. ~(p \in s..(end - 1)) BY <1>1
      <4>2. p \in Int /\ s <= p BY <1>3
      <4> QED BY <4>1, <4>2, <1>3
    <3> QED BY <3>2, <3>3 DEF SplitFrom
  <2> QED BY <2>1, <2>2
<1>2. ASSUME NEW a \in s..(end - 1), NEW b \in (s + 1)..end,
             Stripped(text, s, end) = <<[start |-> a, end |-> b]>>,
             a < b, text[a + 1] # Space,
             \A p \in s..(end - 1) : text[p + 1] # Space => a <= p /\ p < b
      PROVE  SplitFrom(text, Stripped(text, s, end) \o rest, s, size)
  <2>1. PICK piece \in Pieces : piece.start = a /\ piece.end = b /\ piece = [start |-> a, end |-> b]
    <3>1. a \in Nat /\ b \in Nat BY <1>3
    <3>2. [start |-> a, end |-> b] \in Pieces BY <3>1 DEF Pieces
    <3> QED BY <3>2
  <2>2. PICK all : all = <<piece>> \o rest OBVIOUS
  <2>3. /\ all \in Seq(Pieces) /\ Len(all) = Len(rest) + 1 /\ all[1] = piece /\ Len(rest) \in Nat
        /\ \A i \in 1..Len(rest) : all[i + 1] = rest[i]
    BY <1>0, <2>1, <2>2, SMTT(30)
  <2>4. \A i \in 1..Len(all) : i = 1 \/ (i - 1 \in 1..Len(rest) /\ all[i] = rest[i - 1])
    <3> TAKE i \in 1..Len(all)
    <3>1. i # 1 => i - 1 \in 1..Len(rest) /\ i - 1 + 1 = i BY <2>3
    <3> QED BY <2>3, <3>1
  <2>5. \A i \in 1..Len(rest) :
          /\ rest[i].start \in Nat /\ rest[i].end \in Nat /\ next <= rest[i].start
          /\ rest[i].start < rest[i].end /\ rest[i].end <= length
          /\ rest[i].end - rest[i].start <= size /\ text[rest[i].start + 1] # Space
    BY <1>0 DEF SplitFrom, Pieces
  <2>6. \A i \in 1..Len(rest) : a <= rest[i].start
    <3> TAKE i \in 1..Len(rest)
    <3>1. rest[i].start \in Nat /\ next <= rest[i].start /\ text[rest[i].start + 1] # Space BY <2>5
    <3>2. CASE rest[i].start <= end - 1
      <4>1. rest[i].start \in s..(end - 1) BY <3>1, <3>2, <1>3
      <4> QED BY <4>1, <3>1, <1>2
    <3>3. CASE ~(rest[i].start <= end - 1)
      <4>1. a \in Int /\ a <= end - 1 BY <1>3
      <4> QED BY <3>1, <3>3, <4>1, <1>3
    <3> QED BY <3>2, <3>3
  <2>7. ASSUME NEW i \in 1..Len(all)
        PROVE  /\ s <= all[i].start /\ all[i].start < all[i].end
               /\ all[i].end <= Len(text) /\ all[i].end - all[i].start <= size
               /\ text[all[i].start + 1] # Space
    <3>1. CASE i = 1
      <4>1. all[i].start = a /\ all[i].end = b BY <3>1, <2>1, <2>3
      <4>2. s <= a /\ b <= length /\ b - a <= size BY <1>3
      <4> QED BY <4>1, <4>2, <1>2
    <3>2. CASE i # 1
      <4>1. PICK k \in 1..Len(rest) : all[i] = rest[k] BY <2>4, <3>2
      <4>2. /\ rest[k].start \in Nat /\ rest[k].end \in Nat /\ next <= rest[k].start
            /\ rest[k].start < rest[k].end /\ rest[k].end <= length
            /\ rest[k].end - rest[k].start <= size /\ text[rest[k].start + 1] # Space
        BY <2>5
      <4>3. s <= rest[k].start BY <4>2, <1>3
      <4> QED BY <4>1, <4>2, <4>3
    <3> QED BY <3>1, <3>2
  <2>8. ASSUME NEW p \in s..(Len(text) - 1), text[p + 1] # Space
        PROVE  \E i \in 1..Len(all) : all[i].start <= p /\ p < all[i].end
    <3>1. CASE p <= end - 1
      <4>1. p \in s..(end - 1) BY <3>1
      <4>2. a <= p /\ p < b BY <4>1, <2>8, <1>2
      <4>3. 1 \in 1..Len(all) /\ all[1].start <= p /\ p < all[1].end BY <4>2, <2>1, <2>3
      <4> QED BY <4>3
    <3>2. CASE ~(p <= end - 1)
      <4>1. p \in next..(Len(text) - 1) BY <3>2
      <4>2. PICK i \in 1..Len(rest) : rest[i].start <= p /\ p < rest[i].end
        BY <4>1, <2>8 DEF SplitFrom
      <4>3. i + 1 \in 1..Len(all) /\ all[i + 1] = rest[i] BY <2>3
      <4> QED BY <4>2, <4>3
    <3> QED BY <3>1, <3>2
  <2>9. ASSUME NEW i \in 1..Len(all), NEW j \in 1..Len(all), i < j
        PROVE  all[i].start <= all[j].start
    <3>1. j # 1 /\ j - 1 \in 1..Len(rest) /\ all[j] = rest[j - 1] BY <2>9, <2>4
    <3>2. CASE i = 1
      <4>1. all[i].start = a /\ a <= rest[j - 1].start BY <3>1, <3>2, <2>1, <2>3, <2>6
      <4> QED BY <3>1, <4>1
    <3>3. CASE i # 1
      <4>1. i - 1 \in 1..Len(rest) /\ all[i] = rest[i - 1] /\ i - 1 < j - 1 BY <2>4, <2>9, <3>3, SMTT(30)
      <4>2. rest[i - 1].start <= rest[j - 1].start BY <3>1, <4>1 DEF SplitFrom
      <4> QED BY <3>1, <4>1, <4>2
    <3> QED BY <3>2, <3>3
  <2>10. SplitFrom(text, all, s, size) BY <2>3, <2>7, <2>8, <2>9 DEF SplitFrom
  <2>11. Stripped(text, s, end) \o rest = all BY <1>2, <2>1, <2>2
  <2> QED BY <2>10, <2>11
<1>4. s \in Nat /\ end \in Nat BY <1>3
<1>5. \/ /\ Stripped(text, s, end) = <<>>
         /\ \A p \in s..(end - 1) : text[p + 1] = Space
      \/ \E a \in s..(end - 1), b \in (s + 1)..end :
           /\ Stripped(text, s, end) = <<[start |-> a, end |-> b]>>
           /\ a < b /\ text[a + 1] # Space
           /\ \A p \in s..(end - 1) : text[p + 1] # Space => a <= p /\ p < b
  BY <1>4, StrippedIs
<1> QED BY <1>1, <1>2, <1>5

(* Nothing is left from the end of the text on. *)
LEMMA SplitOver ==
  ASSUME NEW text, Len(text) \in Nat, NEW size, NEW s \in Nat,
         \A p \in s..(Len(text) - 1) : text[p + 1] = Space
  PROVE  SplitFrom(text, <<>>, s, size)
<1>1. <<>> \in Seq(Pieces) OBVIOUS
<1>2. Len(<<>>) = 0 OBVIOUS
<1>3. \A i \in 1..0 : FALSE OBVIOUS
<1> QED BY <1>1, <1>2, <1>3 DEF SplitFrom

(* The pieces of a text, as Split gives them: every character that is not  *)
(* blank is in one, they are no longer than asked for, and in order.       *)
LEMMA PiecesAre ==
  ASSUME NEW text \in Seq(STRING), NEW cut, CutIs(cut)
  PROVE  SplitFrom(text, Split(text, cut), 0, cut.size)
<1> DEFINE Later(g, start) ==
      IF start >= Len(text) THEN <<>>
      ELSE Stripped(text, start, EndOf(text, start, cut))
           \o IF EndOf(text, start, cut) >= Len(text) THEN <<>> ELSE g[NextStart(text, start, cut)]
<1> DEFINE Turns(g, k) == g = [start \in (Len(text) - k)..Len(text) |-> Later(g, start)]
<1>1. PICK length \in Nat : length = Len(text) OBVIOUS
<1>2. PICK size \in Nat \ {0} : size = cut.size BY DEF CutIs
<1>3. ASSUME NEW start \in 0..(length - 1)
      PROVE  /\ EndOf(text, start, cut) \in (start + 1)..length
             /\ EndOf(text, start, cut) <= start + size
             /\ NextStart(text, start, cut) \in (start + 1)..EndOf(text, start, cut)
  BY <1>1, <1>2, EndOfIs, NextStartIs
<1>4. \E g : Turns(g, 0)
  <2> DEFINE g == [start \in (Len(text) - 0)..Len(text) |-> <<>>]
  <2>1. \A start \in (Len(text) - 0)..Len(text) : Later(g, start) = <<>> BY <1>1
  <2>2. g = [start \in (Len(text) - 0)..Len(text) |-> Later(g, start)]
    <3> HIDE DEF Later
    <3> QED BY <2>1
  <2> QED BY <2>2
<1>5. ASSUME NEW k \in 0..(length - 1), \E g : Turns(g, k) PROVE \E g : Turns(g, k + 1)
  <2>1. PICK g : Turns(g, k) BY <1>5
  <2>2. PICK low \in 0..(length - 1) : /\ low = length - (k + 1) /\ low + 1 = length - k
                                       /\ low + 1 = Len(text) - k /\ low = Len(text) - (k + 1)
    BY <1>1
  <2> DEFINE h == [start \in low..length |-> IF start = low THEN Later(g, low) ELSE g[start]]
  <2>3. \A start \in (low + 1)..length : g[start] = Later(g, start)
    <3>1. g = [start \in (low + 1)..length |-> Later(g, start)] BY <1>1, <2>1, <2>2
    <3> HIDE DEF Later
    <3> QED BY <3>1
  <2>4. ASSUME NEW start \in low..length PROVE Later(h, start) = Later(g, start)
    <3>1. CASE start >= Len(text) BY <3>1
    <3>2. CASE start < Len(text)
      <4>1. start \in 0..(length - 1) BY <1>1, <2>2, <3>2
      <4>2. PICK next : next = NextStart(text, start, cut) OBVIOUS
      <4>3. PICK end \in (start + 1)..length : end = EndOf(text, start, cut) BY <1>3, <4>1
      <4>4. next \in (start + 1)..end BY <1>3, <4>1, <4>2, <4>3
      <4>5. next \in low..length /\ next # low BY <2>2, <4>1, <4>3, <4>4
      <4>6. h[next] = g[next] BY <4>5
      <4> HIDE DEF h
      <4> QED BY <3>2, <4>2, <4>6
    <3> QED BY <3>1, <3>2, <1>1, <2>2
  <2>5. ASSUME NEW start \in low..length PROVE h[start] = Later(h, start)
    <3>1. CASE start = low
      <4>1. h[start] = Later(g, low)
        <5> HIDE DEF Later
        <5> QED BY <3>1
      <4> HIDE DEF h, Later
      <4> QED BY <3>1, <4>1, <2>4
    <3>2. CASE start # low
      <4>1. h[start] = g[start] /\ start \in (low + 1)..length
        <5> HIDE DEF Later
        <5> QED BY <3>2, <2>2
      <4> HIDE DEF h, Later
      <4> QED BY <4>1, <2>3, <2>4
    <3> QED BY <3>1, <3>2
  <2> DEFINE f == [start \in low..length |-> Later(h, start)]
  <2>6. h = [start \in low..length |-> h[start]] /\ f = [start \in low..length |-> f[start]]
    <3> HIDE DEF Later
    <3> QED OBVIOUS
  <2>7. \A start \in low..length : f[start] = Later(h, start)
    <3> HIDE DEF h, Later
    <3> QED OBVIOUS
  <2>8. h = f
    <3> HIDE DEF h, f, Later
    <3> QED BY <2>5, <2>6, <2>7
  <2>9. Turns(h, k + 1)
    <3>1. h = [start \in (Len(text) - (k + 1))..Len(text) |-> Later(h, start)]
      <4> HIDE DEF h, Later
      <4> QED BY <1>1, <2>2, <2>8 DEF f
    <3> HIDE DEF h
    <3> QED BY <3>1
  <2> HIDE DEF h, Turns
  <2> QED BY <2>9
<1>6. \E g : Turns(g, length)
  <2> DEFINE done == {n \in Nat : \E g : Turns(g, n)}
  <2> HIDE DEF Turns
  <2>1. 0 \in done BY <1>4
  <2>2. \A n \in 0..(length - 1) : n \in done => n + 1 \in done BY <1>5, <1>1
  <2>3. 0..length \subseteq done
    <3> HIDE DEF done
    <3> QED BY <2>1, <2>2, <1>1, Counting
  <2> QED BY <2>3, <1>1
<1> DEFINE from == CHOOSE g : g = [start \in 0..Len(text) |-> Later(g, start)]
<1>7. from = [start \in 0..Len(text) |-> Later(from, start)]
  <2>1. Len(text) - length = 0 BY <1>1
  <2>2. \E g : g = [start \in 0..Len(text) |-> Later(g, start)]
    <3> HIDE DEF Later
    <3> QED BY <1>6, <2>1
  <2> HIDE DEF Later
  <2> QED BY <2>2
<1>8. Split(text, cut) = IF Blank(text) THEN <<>> ELSE from[0] BY DEF Split
<1> HIDE DEF from
<1>9. \A start \in 0..length : from[start] = Later(from, start)
  <2> HIDE DEF Later
  <2> QED BY <1>1, <1>7
<1> DEFINE Well(start) == SplitFrom(text, from[start], start, size)
<1>10. ASSUME NEW start \in 0..length,
              start < length => Well(NextStart(text, start, cut))
       PROVE  Well(start)
  <2>1. CASE start >= length
    <3>1. from[start] = <<>> BY <1>1, <1>9, <2>1
    <3>2. \A p \in start..(Len(text) - 1) : text[p + 1] = Space BY <1>1, <2>1
    <3>3. SplitFrom(text, <<>>, start, size) BY <1>1, <3>2, SplitOver
    <3> QED BY <3>1, <3>3
  <2>2. CASE start < length
    <3>1. start \in 0..(length - 1) BY <1>1, <2>2
    <3>2. PICK end \in (start + 1)..length : end = EndOf(text, start, cut) /\ end <= start + size
      BY <1>3, <3>1
    <3>3. PICK next \in (start + 1)..end : next = NextStart(text, start, cut) BY <1>3, <3>1, <3>2
    <3>4. CASE end >= length
      <4>1. from[start] = Stripped(text, start, end) \o <<>>
        <5>1. ~(start >= Len(text)) /\ EndOf(text, start, cut) >= Len(text)
          BY <1>1, <2>2, <3>2, <3>4
        <5>2. Later(from, start) = Stripped(text, start, EndOf(text, start, cut)) \o <<>> BY <5>1
        <5>3. from[start] = Later(from, start)
          <6> HIDE DEF Later
          <6> QED BY <1>9
        <5> HIDE DEF Later
        <5> QED BY <3>2, <5>2, <5>3
      <4>2. \A p \in end..(Len(text) - 1) : text[p + 1] = Space
        BY <1>1, <3>2, <3>4
      <4>3. SplitFrom(text, <<>>, end, size)
        <5>1. end \in Nat BY <3>1, <3>2
        <5> QED BY <1>1, <4>2, <5>1, SplitOver
      <4>4. end \in (start + 1)..end BY <3>2
      <4>5. SplitFrom(text, Stripped(text, start, end) \o <<>>, start, size)
        BY <1>1, <1>2, <3>1, <3>2, <4>3, <4>4, SplitTurn
      <4> QED BY <4>1, <4>5
    <3>5. CASE ~(end >= length)
      <4>1. from[start] = Stripped(text, start, end) \o from[next]
        <5>1. ~(start >= Len(text)) /\ ~(EndOf(text, start, cut) >= Len(text))
          BY <1>1, <2>2, <3>2, <3>5
        <5>2. Later(from, start) = Stripped(text, start, EndOf(text, start, cut))
                                   \o from[NextStart(text, start, cut)]
          BY <5>1
        <5>3. from[start] = Later(from, start)
          <6> HIDE DEF Later
          <6> QED BY <1>9
        <5> HIDE DEF Later
        <5> QED BY <3>2, <3>3, <5>2, <5>3
      <4>2. SplitFrom(text, from[next], next, size) BY <1>10, <2>2, <3>3
      <4>3. SplitFrom(text, Stripped(text, start, end) \o from[next], start, size)
        BY <1>1, <1>2, <3>1, <3>2, <3>3, <4>2, SplitTurn
      <4> QED BY <4>1, <4>3
    <3> QED BY <3>4, <3>5
  <2> QED BY <2>1, <2>2, <1>1
<1> HIDE DEF Well
<1>11. \A start \in 0..length : Well(start)
  <2> DEFINE bad == {m \in 0..length : ~Well(m)}
  <2> SUFFICES ASSUME bad # {} PROVE FALSE OBVIOUS
  <2>1. PICK m \in bad : \A n \in bad : n <= m
    <3>1. bad \in SUBSET Int /\ length \in Int /\ \A n \in bad : n <= length BY <1>1
    <3> HIDE DEF bad
    <3> QED BY <3>1, LargestIs
  <2>2. m \in 0..length /\ ~Well(m) BY <2>1
  <2>3. m < length /\ ~Well(NextStart(text, m, cut)) BY <1>10, <2>2
  <2>4. m \in 0..(length - 1) BY <1>1, <2>2, <2>3
  <2>5. PICK end \in (m + 1)..length : end = EndOf(text, m, cut) BY <1>3, <2>4
  <2>6. PICK next \in (m + 1)..end : next = NextStart(text, m, cut) BY <1>3, <2>4, <2>5
  <2>7. next \in bad /\ next > m BY <1>1, <2>3, <2>4, <2>5, <2>6
  <2> QED BY <2>1, <2>2, <2>7
<1>12. CASE Blank(text)
  <2>1. \A p \in 0..(Len(text) - 1) : text[p + 1] = Space
    <3> TAKE p \in 0..(Len(text) - 1)
    <3>1. p + 1 \in DOMAIN text BY <1>1
    <3> QED BY <3>1, <1>12 DEF Blank
  <2>2. SplitFrom(text, <<>>, 0, size) BY <1>1, <2>1, SplitOver
  <2> QED BY <1>2, <1>8, <1>12, <2>2
<1>13. CASE ~Blank(text)
  <2>1. SplitFrom(text, from[0], 0, size) BY <1>1, <1>11 DEF Well
  <2> QED BY <1>2, <1>8, <1>13, <2>1
<1> QED BY <1>12, <1>13

(* The splitter is right on every text. *)
LEMMA SplitCorrect ==
  ASSUME NEW text \in Seq(STRING), NEW cut, CutIs(cut)
  PROVE  SplitsWell(text, Split(text, cut), cut.size)
<1>1. PICK pieces : pieces = Split(text, cut) OBVIOUS
<1>2. PICK size \in Nat : size = cut.size BY DEF CutIs
<1>3. SplitFrom(text, pieces, 0, size) BY <1>1, <1>2, PiecesAre
<1>4. pieces \in Seq(Pieces) /\ DOMAIN pieces = 1..Len(pieces) BY <1>3 DEF SplitFrom
<1>5. \A i \in 1..Len(pieces) :
        /\ pieces[i].start \in Nat /\ pieces[i].end \in Nat
        /\ pieces[i].start < pieces[i].end /\ pieces[i].end - pieces[i].start <= size
  <2> TAKE i \in 1..Len(pieces)
  <2>1. pieces[i] \in Pieces BY <1>4
  <2>2. pieces[i].start < pieces[i].end /\ pieces[i].end - pieces[i].start <= size
    BY <1>3 DEF SplitFrom
  <2> QED BY <2>1, <2>2 DEF Pieces
<1>6. ASSUME NEW p \in 0..(Len(text) - 1), text[p + 1] # Space
      PROVE  \E i \in DOMAIN pieces : p \in pieces[i].start..(pieces[i].end - 1)
  <2>1. PICK i \in 1..Len(pieces) : pieces[i].start <= p /\ p < pieces[i].end
    BY <1>3, <1>6 DEF SplitFrom
  <2>2. p \in Int /\ pieces[i].start \in Nat /\ pieces[i].end \in Nat BY <1>5
  <2>3. p \in pieces[i].start..(pieces[i].end - 1) BY <2>1, <2>2
  <2> QED BY <1>4, <2>3
<1>7. \A i \in DOMAIN pieces : pieces[i].end - pieces[i].start \in 1..size
  <2> TAKE i \in DOMAIN pieces
  <2>1. i \in 1..Len(pieces) BY <1>4
  <2> QED BY <1>5, <2>1
<1>8. \A i, j \in DOMAIN pieces : i < j => pieces[i].start <= pieces[j].start
  BY <1>3, <1>4 DEF SplitFrom
<1>9. SplitsWell(text, pieces, size) BY <1>6, <1>7, <1>8 DEF SplitsWell
<1> QED BY <1>1, <1>2, <1>9

-----------------------------------------------------------------------------
(* Documents and chunks.                                                   *)

SourceTexts == [text : Seq(STRING), source : Nat]
ChunkRows   == [source : Nat, start : Nat, text : Seq(STRING)]

(* The contents there are: of an origin, a version it has come to.         *)
Held == {content \in Origins \X Nat \X Nat \X Nat :
           content[2] \in DOMAIN RowsOf[content[1]]}

(* What of some rows is in a file is the first of them, or all. *)
LEMMA WrittenIs ==
  ASSUME NEW T, NEW rows \in Seq(T), NEW n \in Nat
  PROVE  /\ Written(rows, n) \in Seq(T)
         /\ \A i \in DOMAIN Written(rows, n) : i \in DOMAIN rows /\ Written(rows, n)[i] = rows[i]
         /\ Written(rows, Len(rows)) = rows
<1>1. PICK m \in Nat : m = (IF n < Len(rows) THEN n ELSE Len(rows)) /\ m <= Len(rows) OBVIOUS
<1>2. PICK some \in Seq(T) : some = SubSeq(rows, 1, m)
  <2>1. 1 \in Nat /\ 1 >= 1 OBVIOUS
  <2> QED BY <1>1, <2>1, SubSeqIs
<1>3. Len(some) = m /\ \A i \in 1..Len(some) : some[i] = rows[i]
  <2>1. Len(some) = (IF 1 <= m THEN m - 1 + 1 ELSE 0) BY <1>1, <1>2, SubSeqIs
  <2>2. \A i \in 1..Len(some) : some[i] = rows[1 + i - 1] BY <1>1, <1>2, SubSeqIs
  <2> QED BY <2>1, <2>2
<1>4. \A i \in DOMAIN some : i \in DOMAIN rows /\ some[i] = rows[i] BY <1>1, <1>3
<1>5. SubSeq(rows, 1, Len(rows)) = rows BY SubSeqFull
<1> QED BY <1>1, <1>2, <1>4, <1>5 DEF Written

(* The rows of a version become texts with a source. *)
LEMMA TextsAre ==
  ASSUME NEW origin \in Origins, NEW at \in DOMAIN RowsOf[origin]
  PROVE  TextsOf(origin, at) \in Seq(SourceTexts)
<1> DEFINE rows == RowsOf[origin][at]
<1>2. rows \in Seq(Seq(STRING))
  <2>1. RowsOf[origin] \in Seq(Seq(Seq(STRING))) BY DatasetAssumption
  <2> QED BY <2>1
<1>3. KindOf[origin] \notin {"hf", "excel"} => rows # <<>>
  BY DatasetAssumption
<1>4. PICK lines \in Seq(Seq(STRING)) : lines = rows BY <1>2
<1>5. HfDocuments(lines) \in Seq(SourceTexts)
  <2>1. WithText(lines) \in SUBSET DOMAIN lines BY DEF WithText
  <2>2. PICK n \in Nat : /\ n = Cardinality(WithText(lines))
                         /\ Ascending(WithText(lines)) \in [1..n -> WithText(lines)]
    BY <2>1, PickedIs
  <2> DEFINE full == Ascending(WithText(lines))
  <2>3. HfDocuments(lines) = [j \in 1..n |-> [text |-> lines[full[j]], source |-> full[j]]]
    BY <2>2 DEF HfDocuments
  <2>4. \A j \in 1..n : [text |-> lines[full[j]], source |-> full[j]] \in SourceTexts
    <3> TAKE j \in 1..n
    <3>1. full[j] \in DOMAIN lines BY <2>1, <2>2
    <3>2. full[j] \in Nat /\ lines[full[j]] \in Seq(STRING) BY <3>1
    <3> QED BY <3>2 DEF SourceTexts
  <2> QED BY <2>2, <2>3, <2>4
<1>6. ASSUME NEW some \in Seq(Seq(STRING)) PROVE ExcelDocuments(some) \in Seq(SourceTexts)
  <2>1. WithText(some) \in SUBSET DOMAIN some BY DEF WithText
  <2>2. PICK full \in Seq(Seq(STRING)) : full = Picked(some, WithText(some)) BY <2>1, PickedIs
  <2>3. ExcelDocuments(some) = [j \in 1..Len(full) |-> [text |-> full[j], source |-> 1]]
    BY <2>2 DEF ExcelDocuments
  <2>4. \A j \in 1..Len(full) : [text |-> full[j], source |-> 1] \in SourceTexts
    <3> TAKE j \in 1..Len(full)
    <3>1. full[j] \in Seq(STRING) OBVIOUS
    <3> QED BY <3>1 DEF SourceTexts
  <2>5. Len(full) \in Nat OBVIOUS
  <2> QED BY <2>3, <2>4, <2>5
<1>7. lines # <<>> => FileDocument(lines) \in Seq(SourceTexts)
  <2> HAVE lines # <<>>
  <2>1. Len(lines) >= 1 /\ Len(lines) \in Nat OBVIOUS
  <2>2. SubSeq(lines, 1, 1) \in Seq(Seq(STRING)) BY <2>1, SubSeqIs
  <2> QED BY <1>6, <2>2 DEF FileDocument
<1>8. TextsOf(origin, at) = CASE KindOf[origin] = "hf"    -> HfDocuments(lines)
                              [] KindOf[origin] = "excel" -> ExcelDocuments(lines)
                              [] OTHER                    -> FileDocument(lines)
  BY <1>4 DEF TextsOf
<1>9. ExcelDocuments(lines) \in Seq(SourceTexts) BY <1>6
<1> HIDE DEF rows
<1> QED BY <1>3, <1>4, <1>5, <1>7, <1>8, <1>9

(* So do those that are in a file. *)
LEMMA DocumentsAre ==
  ASSUME NEW content \in Held
  PROVE  DocumentsOf(content) \in Seq(SourceTexts)
<1>1. content[1] \in Origins /\ content[2] \in DOMAIN RowsOf[content[1]] /\ content[3] \in Nat
  BY DEF Held
<1>2. PICK texts \in Seq(SourceTexts) : texts = TextsOf(content[1], content[2]) BY <1>1, TextsAre
<1> QED BY <1>1, <1>2, WrittenIs DEF DocumentsOf

Stands(chunk, doc) ==
  /\ doc.source = chunk.source
  /\ chunk.start + Len(chunk.text) <= Len(doc.text)
  /\ Slice(doc.text, chunk.start, chunk.start + Len(chunk.text)) = chunk.text

(* The chunks of a document stand in it where they say. *)
LEMMA ChunksOfAre ==
  ASSUME NEW doc \in SourceTexts, NEW cut \in Cuts
  PROVE  /\ ChunksOf(doc, cut) \in Seq(ChunkRows)
         /\ \A i \in 1..Len(ChunksOf(doc, cut)) : Stands(ChunksOf(doc, cut)[i], doc)
<1>1. PICK text \in Seq(STRING), source \in Nat : text = doc.text /\ source = doc.source
  BY DEF SourceTexts
<1>2. CutIs(cut) BY DatasetAssumption DEF CutIs
<1> DEFINE all == Split(text, cut)
<1> DEFINE long == {i \in DOMAIN all : all[i].end - all[i].start >= cut.minimum}
<1>3. SplitFrom(text, all, 0, cut.size)
  <2> HIDE DEF all
  <2> QED BY <1>2, PiecesAre DEF all
<1>4. all \in Seq(Pieces) /\ \A i \in 1..Len(all) :
        all[i].start < all[i].end /\ all[i].end <= Len(text)
  BY <1>3 DEF SplitFrom
<1>5. PICK pieces : pieces = Picked(all, long) OBVIOUS
<1>6. /\ pieces \in Seq(Pieces)
      /\ \A i \in 1..Len(pieces) : \E j \in 1..Len(all) : pieces[i] = all[j]
  <2>1. long \in SUBSET DOMAIN all OBVIOUS
  <2> HIDE DEF all, long
  <2>2. /\ Picked(all, long) \in Seq(Pieces)
        /\ Len(Picked(all, long)) = Cardinality(long)
        /\ Ascending(long) \in [1..Cardinality(long) -> long]
        /\ \A n \in 1..Cardinality(long) : Picked(all, long)[n] = all[Ascending(long)[n]]
    BY <1>4, <2>1, PickedIs, SMTT(30)
  <2>3. \A i \in 1..Len(pieces) : \E j \in 1..Len(all) : pieces[i] = all[j]
    <3> TAKE i \in 1..Len(pieces)
    <3>1. i \in 1..Cardinality(long) /\ pieces[i] = all[Ascending(long)[i]] BY <1>5, <2>2
    <3>2. Ascending(long)[i] \in DOMAIN all BY <2>1, <2>2, <3>1
    <3>3. Ascending(long)[i] \in 1..Len(all) BY <1>4, <3>2
    <3> QED BY <3>1, <3>3
  <2> QED BY <1>5, <2>2, <2>3
<1> DEFINE Row(i) == [source |-> source, start |-> pieces[i].start,
                      text |-> Slice(text, pieces[i].start, pieces[i].end)]
<1>7. ChunksOf(doc, cut) = [i \in 1..Len(pieces) |-> Row(i)]
  <2>1. DOMAIN pieces = 1..Len(pieces) BY <1>6
  <2>2. ChunksOf(doc, cut) = [i \in DOMAIN pieces |-> Row(i)]
    BY <1>1, <1>5 DEF ChunksOf, LongEnough, Chunk
  <2> HIDE DEF Row
  <2> QED BY <2>1, <2>2
<1>8. ASSUME NEW i \in 1..Len(pieces) PROVE Row(i) \in ChunkRows /\ Stands(Row(i), doc)
  <2>0. pieces[i] \in Pieces BY <1>6
  <2>1. PICK a \in Nat, b \in Nat : a = pieces[i].start /\ b = pieces[i].end BY <2>0 DEF Pieces
  <2>2. a < b /\ b <= Len(text)
    <3>1. PICK j \in 1..Len(all) : pieces[i] = all[j] BY <1>6
    <3> HIDE DEF all
    <3> QED BY <1>4, <2>1, <3>1
  <2>3. PICK part : part = Slice(text, a, b) OBVIOUS
  <2>4. part \in Seq(STRING) /\ Len(part) = b - a
    <3>1. a + 1 \in Nat /\ a + 1 >= 1 /\ a + 1 <= b /\ b - (a + 1) + 1 = b - a BY <2>2
    <3>2. SubSeq(text, a + 1, b) \in Seq(STRING) /\ Len(SubSeq(text, a + 1, b)) = b - (a + 1) + 1
      BY <2>2, <3>1, SubSeqIs
    <3> QED BY <2>3, <3>1, <3>2 DEF Slice
  <2>5. a + Len(part) = b BY <2>4
  <2>6. Row(i) = [source |-> source, start |-> a, text |-> part] BY <2>1, <2>3
  <2>7. PICK row \in ChunkRows :
          row = Row(i) /\ row.source = source /\ row.start = a /\ row.text = part
    <3>1. [source |-> source, start |-> a, text |-> part] \in ChunkRows BY <2>4 DEF ChunkRows
    <3> HIDE DEF Row
    <3> QED BY <2>6, <3>1
  <2> HIDE DEF Row
  <2>8. Stands(row, doc) BY <1>1, <2>2, <2>3, <2>5, <2>7 DEF Stands
  <2> QED BY <2>7, <2>8
<1>9. PICK chunks : chunks = ChunksOf(doc, cut) OBVIOUS
<1> HIDE DEF Row
<1>10. Len(pieces) \in Nat BY <1>6
<1>11. chunks \in Seq(ChunkRows) /\ Len(chunks) = Len(pieces) BY <1>7, <1>8, <1>9, <1>10
<1>12. \A i \in 1..Len(chunks) : Stands(chunks[i], doc)
  <2> TAKE i \in 1..Len(chunks)
  <2>1. i \in 1..Len(pieces) /\ chunks[i] = Row(i) BY <1>7, <1>9, <1>11
  <2> QED BY <1>8, <2>1
<1> QED BY <1>9, <1>11, <1>12

(* And so do those of a pool. *)
LEMMA WholePoolIs ==
  ASSUME NEW content \in Held, NEW cut \in Cuts
  PROVE  /\ WholePool(content, cut) \in Seq(ChunkRows)
         /\ StandsIn(WholePool(content, cut), DocumentsOf(content))
<1>1. PICK texts \in Seq(SourceTexts) : texts = DocumentsOf(content) BY DocumentsAre
<1> DEFINE lists == [d \in DOMAIN texts |-> ChunksOf(texts[d], cut)]
<1> DEFINE all   == FlattenSeq(lists)
<1> DEFINE new   == {i \in DOMAIN all : \A j \in 1..(i - 1) : all[j] # all[i]}
<1>2. WholePool(content, cut) = Picked(all, new) BY <1>1 DEF WholePool, Distinct, ChunksOfAll
<1>3. /\ lists \in Seq(Seq(ChunkRows)) /\ Len(lists) = Len(texts)
      /\ \A d \in 1..Len(texts) : lists[d] = ChunksOf(texts[d], cut)
  <2>1. \A d \in 1..Len(texts) : ChunksOf(texts[d], cut) \in Seq(ChunkRows) BY ChunksOfAre
  <2>2. DOMAIN texts = 1..Len(texts) /\ Len(texts) \in Nat OBVIOUS
  <2> QED BY <2>1, <2>2
<1> HIDE DEF lists
<1>4. /\ all \in Seq(ChunkRows)
      /\ \A c \in 1..Len(all) : \E i \in 1..Len(lists) : \E w \in 1..Len(lists[i]) :
           lists[i][w] = all[c]
  <2>1. PICK seqs \in Seq(Seq(ChunkRows)) : seqs = lists BY <1>3
  <2>2. PICK T : T = ChunkRows OBVIOUS
  <2>3. seqs \in Seq(Seq(T)) BY <2>1, <2>2
  <2>4. /\ FlattenSeq(seqs) \in Seq(T)
        /\ \A x : (\E c \in 1..Len(FlattenSeq(seqs)) : FlattenSeq(seqs)[c] = x)
                  <=> \E i \in 1..Len(seqs) : \E w \in 1..Len(seqs[i]) : seqs[i][w] = x
    BY <2>3, FlattenIs, ZenonT(40)
  <2>5. \A c \in 1..Len(FlattenSeq(seqs)) :
          \E i \in 1..Len(seqs) : \E w \in 1..Len(seqs[i]) : seqs[i][w] = FlattenSeq(seqs)[c]
    BY <2>4
  <2> QED BY <2>1, <2>2, <2>4, <2>5
<1> HIDE DEF all
<1>5. new \in SUBSET DOMAIN all OBVIOUS
<1> HIDE DEF new
<1>6. /\ Picked(all, new) \in Seq(ChunkRows)
      /\ Len(Picked(all, new)) = Cardinality(new)
      /\ Ascending(new) \in [1..Cardinality(new) -> new]
      /\ \A n \in 1..Cardinality(new) : Picked(all, new)[n] = all[Ascending(new)[n]]
  BY <1>4, <1>5, PickedIs
<1>7. PICK pool : pool = Picked(all, new) OBVIOUS
<1>8. ASSUME NEW i \in DOMAIN pool PROVE \E d \in DOMAIN texts : Stands(pool[i], texts[d])
  <2>1. i \in 1..Cardinality(new) /\ pool[i] = all[Ascending(new)[i]] BY <1>6, <1>7
  <2>2. Ascending(new)[i] \in DOMAIN all BY <1>5, <1>6, <2>1
  <2>3. PICK c \in 1..Len(all) : pool[i] = all[c] BY <1>4, <2>1, <2>2
  <2>4. PICK d \in 1..Len(lists) : \E w \in 1..Len(lists[d]) : lists[d][w] = all[c] BY <1>4
  <2>5. d \in 1..Len(texts) /\ d \in DOMAIN texts /\ lists[d] = ChunksOf(texts[d], cut) BY <1>3
  <2>6. PICK w \in 1..Len(ChunksOf(texts[d], cut)) : ChunksOf(texts[d], cut)[w] = pool[i]
    BY <2>3, <2>4, <2>5
  <2>7. texts[d] \in SourceTexts BY <2>5
  <2>8. Stands(ChunksOf(texts[d], cut)[w], texts[d]) BY <2>7, ChunksOfAre
  <2> QED BY <2>5, <2>6, <2>8
<1>9. StandsIn(pool, texts) BY <1>8 DEF StandsIn, Stands
<1> QED BY <1>1, <1>2, <1>6, <1>7, <1>9

(* And those of them that are in a file. *)
LEMMA PoolIs ==
  ASSUME NEW content \in Held, NEW cut \in Cuts
  PROVE  Pool(content, cut) \in Seq(ChunkRows) /\ StandsIn(Pool(content, cut), DocumentsOf(content))
<1>1. PICK whole \in Seq(ChunkRows) :
        whole = WholePool(content, cut) /\ StandsIn(whole, DocumentsOf(content))
  BY WholePoolIs
<1>2. content[4] \in Nat BY DEF Held
<1>3. PICK pool \in Seq(ChunkRows) : /\ pool = Pool(content, cut)
        /\ \A i \in DOMAIN pool : i \in DOMAIN whole /\ pool[i] = whole[i]
  BY <1>1, <1>2, WrittenIs DEF Pool
<1>4. StandsIn(pool, DocumentsOf(content)) BY <1>1, <1>3 DEF StandsIn
<1> QED BY <1>3, <1>4

-----------------------------------------------------------------------------
(* Tasks.                                                                  *)

Subsets == [name : STRING, ratio : Nat, pairs : BOOLEAN, answerable : BOOLEAN]

(* A plan a run goes by: every subset is asked for, and no two are equal.  *)
PlanWell(plan) ==
  /\ plan \in Seq(Subsets)
  /\ \A i \in DOMAIN plan : plan[i].ratio > 0
  /\ \A i, j \in DOMAIN plan : plan[i] = plan[j] => i = j

(* What is left of a plan is one to go by. *)
LEMMA ActiveIs ==
  ASSUME NEW plan \in Plans
  PROVE  PlanWell(ActiveSubsets(plan))
<1>1. plan \in Seq(Subsets) BY DatasetAssumption DEF Subsets
<1>2. \A i, j \in DOMAIN plan : plan[i].name = plan[j].name => i = j BY DatasetAssumption
<1> DEFINE some == {i \in DOMAIN plan : plan[i].ratio > 0}
<1>3. some \in SUBSET DOMAIN plan OBVIOUS
<1>4. PICK active : active = Picked(plan, some) OBVIOUS
<1>5. PICK n : n = Cardinality(some) OBVIOUS
<1>6. PICK order : order = Ascending(some) OBVIOUS
<1>7. active = ActiveSubsets(plan) BY <1>4 DEF ActiveSubsets
<1>8. \A i \in some : i \in DOMAIN plan /\ plan[i].ratio > 0 OBVIOUS
<1> HIDE DEF some
<1>9. /\ n \in Nat /\ active \in Seq(Subsets) /\ Len(active) = n
      /\ order \in [1..n -> some]
      /\ \A k \in 1..n : active[k] = plan[order[k]]
      /\ \A m, k \in 1..n : m < k => order[m] < order[k]
  BY <1>1, <1>3, <1>4, <1>5, <1>6, PickedIs
<1>10. \A k \in 1..n : order[k] \in DOMAIN plan /\ plan[order[k]].ratio > 0 BY <1>8, <1>9
<1>11. DOMAIN active = 1..n BY <1>9
<1>12. ASSUME NEW i \in 1..n, NEW j \in 1..n, active[i] = active[j] PROVE i = j
  <2>1. order[i] = order[j]
    <3>1. plan[order[i]].name = plan[order[j]].name BY <1>9, <1>12
    <3> QED BY <1>2, <1>10, <3>1
  <2>2. order[i] \in Nat /\ order[j] \in Nat BY <1>1, <1>10
  <2>3. ~(i < j) /\ ~(j < i) BY <1>9, <2>1, <2>2
  <2> QED BY <1>9, <2>3
<1>13. PlanWell(active) BY <1>9, <1>10, <1>11, <1>12 DEF PlanWell
<1> QED BY <1>7, <1>13

(* No subset of a plan is given more generations than there are. *)
LEMMA SharesAre ==
  ASSUME NEW plan, PlanWell(plan), NEW i \in DOMAIN plan
  PROVE  Shares(plan)[i] \in Nat /\ Shares(plan)[i] <= Total
<1> DEFINE ratios == [j \in DOMAIN plan |-> plan[j].ratio]
<1>1. plan \in Seq(Subsets) /\ DOMAIN plan = 1..Len(plan) /\ Len(plan) \in Nat BY DEF PlanWell
<1>2. \A j \in DOMAIN plan : plan[j].ratio \in Nat \ {0}
  <2> TAKE j \in DOMAIN plan
  <2>1. plan[j] \in Subsets /\ plan[j].ratio > 0 BY <1>1 DEF PlanWell
  <2> QED BY <2>1 DEF Subsets
<1>3. ratios \in Seq(Nat \ {0}) /\ DOMAIN ratios = DOMAIN plan BY <1>1, <1>2
<1>4. Total \in Nat BY DatasetAssumption
<1>5. Shares(plan) = Allocation(ratios, Total) BY DEF Shares
<1> HIDE DEF ratios
<1>6. i \in DOMAIN ratios BY <1>3
<1> QED BY <1>3, <1>4, <1>5, <1>6, ShareBounded

(* There are finitely many items to draw from. *)
LEMMA ItemsFinite ==
  ASSUME NEW pool \in Seq(ChunkRows), NEW subset
  PROVE  IsFiniteSet(Items(subset, pool)) /\ Cardinality(Items(subset, pool)) \in Nat
<1> DEFINE places == 1..Len(pool)
<1>1. DOMAIN pool = places /\ Len(pool) \in Nat OBVIOUS
<1>2. IsFiniteSet(places)
  <2>1. 1 \in Int /\ Len(pool) \in Int BY <1>1
  <2> QED BY <2>1, FS_Interval
<1>3. IsFiniteSet(Pairs(pool))
  <2>1. Pairs(pool) \subseteq places \X places BY <1>1 DEF Pairs
  <2>2. IsFiniteSet(places \X places)
    <3> HIDE DEF places
    <3> QED BY <1>2, FS_Product
  <2> HIDE DEF places
  <2> QED BY <2>1, <2>2, FS_Subset
<1>4. IsFiniteSet({<<i>> : i \in places})
  <2> DEFINE f == [i \in places |-> <<i>>]
             T == {<<i>> : i \in places}
  <2>1. f \in Surjection(places, T)
    <3>1. f \in [places -> T] OBVIOUS
    <3>2. \A t \in T : \E i \in places : f[i] = t OBVIOUS
    <3> HIDE DEF f, T, places
    <3> QED BY <3>1, <3>2 DEF Surjection
  <2> HIDE DEF f, T, places
  <2>2. IsFiniteSet(T) BY <1>2, <2>1, FS_Surjection
  <2> QED BY <2>2 DEF T
<1>5. Items(subset, pool) = IF subset.pairs THEN Pairs(pool) ELSE {<<i>> : i \in places}
  BY <1>1 DEF Items
<1> HIDE DEF places
<1>6. IsFiniteSet(Items(subset, pool)) BY <1>3, <1>4, <1>5
<1> QED BY <1>6, FS_CardinalityType

(* A sequence of which distinct places are related, related to another     *)
(* such sequence, makes one with it; so does a list of such sequences.     *)
Apart(s, R) == \A c, d \in 1..Len(s) : c < d => <<s[c], s[d]>> \in R

(* What is apart list by list, and between them, is apart in one list. *)
LEMMA FlattenApart ==
  ASSUME NEW T, NEW seqs \in Seq(Seq(T)), NEW R,
         \A i \in 1..Len(seqs) : Apart(seqs[i], R),
         \A i, j \in 1..Len(seqs) : i < j =>
           \A v \in 1..Len(seqs[i]), w \in 1..Len(seqs[j]) : <<seqs[i][v], seqs[j][w]>> \in R
  PROVE  Apart(FlattenSeq(seqs), R)
<1>1. CASE Len(seqs) = 0
  <2>1. seqs = <<>> BY <1>1
  <2>2. FlattenSeq(seqs) = seqs BY <2>1 DEF FlattenSeq
  <2>3. FlattenSeq(seqs) = <<>> BY <2>1, <2>2
  <2>4. Len(FlattenSeq(seqs)) = 0 BY <2>3
  <2> QED BY <2>4 DEF Apart
<1>2. CASE Len(seqs) # 0
  <2> DEFINE N == Len(seqs)
  <2>1. N \in Nat /\ N >= 1 /\ \A i \in 1..N : seqs[i] \in Seq(T) BY <1>2
  <2>2. PICK flat : /\ flat[1] = seqs[1]
                    /\ \A i \in 2..N : flat[i] = flat[i - 1] \o seqs[i]
                    /\ FlattenSeq(seqs) = flat[N]
    BY <1>2, FlattenGrows
  <2> DEFINE TakenFrom(s, n) ==
        \A c \in 1..Len(s) : \E i \in 1..n : \E w \in 1..Len(seqs[i]) : seqs[i][w] = s[c]
  <2> DEFINE Good(n) == flat[n] \in Seq(T) /\ TakenFrom(flat[n], n) /\ Apart(flat[n], R)
  <2>3. ASSUME NEW n \in 1..(N - 1), Good(n) PROVE Good(n + 1)
    <3>1. n + 1 \in 2..N /\ n \in Nat /\ n + 1 \in 1..N BY <2>1
    <3>2. PICK s, t : s = flat[n] /\ t = seqs[n + 1] OBVIOUS
    <3>3. PICK joined : joined = flat[n + 1] OBVIOUS
    <3>4. joined = s \o t /\ s \in Seq(T) /\ t \in Seq(T)
      <4>1. PICK m \in 2..N : m = n + 1 BY <3>1
      <4>2. flat[m] = flat[m - 1] \o seqs[m] BY <2>2
      <4>3. m - 1 = n BY <4>1, <3>1
      <4> HIDE DEF TakenFrom, N
      <4> QED BY <2>1, <2>3, <3>1, <3>2, <3>3, <4>1, <4>2, <4>3
    <3>5. /\ joined \in Seq(T) /\ Len(joined) = Len(s) + Len(t)
          /\ \A c \in 1..Len(s) : joined[c] = s[c]
          /\ \A c \in 1..Len(t) : joined[Len(s) + c] = t[c]
          /\ Len(s) \in Nat /\ Len(t) \in Nat
      BY <3>4
    <3>6. \A c \in 1..Len(joined) : c \in 1..Len(s) \/ \E e \in 1..Len(t) : c = Len(s) + e
      <4> TAKE c \in 1..Len(joined)
      <4>1. CASE c <= Len(s) BY <4>1, <3>5
      <4>2. CASE c > Len(s)
        <5>1. c - Len(s) \in 1..Len(t) /\ c = Len(s) + (c - Len(s)) BY <4>2, <3>5
        <5> QED BY <5>1
      <4> QED BY <4>1, <4>2, <3>5
    <3>7. \A c \in 1..Len(s) : \E i \in 1..n : \E w \in 1..Len(seqs[i]) : seqs[i][w] = s[c]
      BY <2>3, <3>2
    <3>8. TakenFrom(joined, n + 1)
      <4> TAKE c \in 1..Len(joined)
      <4>1. CASE c \in 1..Len(s)
        <5>1. PICK i \in 1..n : \E w \in 1..Len(seqs[i]) : seqs[i][w] = s[c] BY <4>1, <3>7
        <5>2. i \in 1..(n + 1) /\ joined[c] = s[c] BY <4>1, <3>1, <3>5
        <5> QED BY <5>1, <5>2
      <4>2. ASSUME NEW e \in 1..Len(t), c = Len(s) + e
            PROVE  \E i \in 1..(n + 1) : \E w \in 1..Len(seqs[i]) : seqs[i][w] = joined[c]
        <5>1. joined[Len(s) + e] = t[e] BY <3>5
        <5>2. seqs[n + 1][e] = joined[c] /\ e \in 1..Len(seqs[n + 1]) BY <4>2, <3>2, <5>1
        <5>3. n + 1 \in 1..(n + 1) BY <3>1
        <5> QED BY <5>2, <5>3
      <4> QED BY <4>1, <4>2, <3>6
    <3>9. Apart(s, R) /\ Apart(t, R) BY <2>3, <3>1, <3>2
    <3>10. \A c \in 1..Len(s), e \in 1..Len(t) : <<s[c], t[e]>> \in R
      <4> TAKE c \in 1..Len(s), e \in 1..Len(t)
      <4>1. PICK i \in 1..n : \E w \in 1..Len(seqs[i]) : seqs[i][w] = s[c] BY <3>7
      <4>2. PICK w \in 1..Len(seqs[i]) : seqs[i][w] = s[c] BY <4>1
      <4>3. i < n + 1 /\ i \in 1..N BY <3>1, <4>1, <2>1
      <4>4. <<seqs[i][w], seqs[n + 1][e]>> \in R BY <3>1, <3>2, <4>2, <4>3
      <4> QED BY <3>2, <4>2, <4>4
    <3>11. ASSUME NEW c \in 1..Len(joined), NEW d \in 1..Len(joined), c < d
           PROVE  <<joined[c], joined[d]>> \in R
      <4>1. CASE d \in 1..Len(s)
        <5>1. c \in 1..Len(s) BY <4>1, <3>11, <3>5
        <5> QED BY <4>1, <5>1, <3>5, <3>9, <3>11 DEF Apart
      <4>2. CASE d \notin 1..Len(s)
        <5>1. PICK f \in 1..Len(t) : d = Len(s) + f BY <4>2, <3>6
        <5>2. joined[d] = t[f] BY <5>1, <3>5
        <5>3. CASE c \in 1..Len(s)
          <6>1. joined[c] = s[c] BY <5>3, <3>5
          <6> QED BY <5>2, <5>3, <6>1, <3>10
        <5>4. CASE c \notin 1..Len(s)
          <6>1. PICK e \in 1..Len(t) : c = Len(s) + e BY <5>4, <3>6
          <6>2. joined[Len(s) + e] = t[e] BY <3>5
          <6>3. joined[c] = t[e] BY <6>1, <6>2
          <6>4. e < f
            <7>1. Len(s) + e < Len(s) + f BY <3>11, <5>1, <6>1
            <7> QED BY <7>1, <3>5
          <6> QED BY <5>2, <6>3, <6>4, <3>9 DEF Apart
        <5> QED BY <5>3, <5>4
      <4> QED BY <4>1, <4>2
    <3>12. Apart(joined, R) BY <3>11 DEF Apart
    <3> HIDE DEF TakenFrom
    <3> QED BY <3>3, <3>5, <3>8, <3>12
  <2>4. Good(1)
    <3>1. 1 \in 1..1 /\ 1 \in 1..N BY <2>1
    <3>2. TakenFrom(flat[1], 1) BY <3>1, <2>2
    <3>3. flat[1] \in Seq(T) /\ Apart(flat[1], R) BY <3>1, <2>1, <2>2
    <3> HIDE DEF TakenFrom
    <3> QED BY <3>2, <3>3
  <2> HIDE DEF Good
  <2> DEFINE done == {n \in Nat : Good(n + 1)}
  <2>5. 0 \in done BY <2>4
  <2>6. \A n \in 0..(N - 1 - 1) : n \in done => n + 1 \in done
    <3> TAKE n \in 0..(N - 1 - 1)
    <3> HAVE n \in done
    <3>1. n + 1 \in 1..(N - 1) /\ Good(n + 1) BY <2>1
    <3>2. Good(n + 1 + 1) BY <3>1, <2>3
    <3> QED BY <3>2
  <2>7. 0..(N - 1) \subseteq done
    <3> HIDE DEF done
    <3>1. N - 1 \in Nat BY <2>1
    <3> QED BY <3>1, <2>5, <2>6, Counting
  <2>8. Good(N)
    <3>1. N - 1 \in 0..(N - 1) /\ N - 1 + 1 = N BY <2>1
    <3>2. N - 1 \in done BY <2>7, <3>1
    <3> QED BY <3>1, <3>2
  <2> QED BY <2>2, <2>8 DEF Good
<1> QED BY <1>1, <1>2

(* What may be asked of a pool. *)
Tasks(pool) ==
  {task \in [subset : Subsets, chunks : Seq(Nat)] : task.chunks \in Items(task.subset, pool)}

(* Two tasks that are not the same question, or one there were too few     *)
(* items for.                                                              *)
Differ(pool) ==
  {pair \in Tasks(pool) \X Tasks(pool) :
     pair[1] = pair[2] => Cardinality(Items(pair[1].subset, pool)) < Total}

(* What it takes for two tasks to differ. *)
LEMMA DifferIs ==
  ASSUME NEW pool, NEW a \in Tasks(pool), NEW b \in Tasks(pool)
  PROVE  <<a, b>> \in Differ(pool)
           <=> (a = b => Cardinality(Items(a.subset, pool)) < Total)
BY DEF Differ

(* The items are places in the pool. *)
LEMMA ItemsAre ==
  ASSUME NEW pool \in Seq(ChunkRows), NEW subset
  PROVE  Items(subset, pool) \subseteq Seq(Nat)
<1>1. DOMAIN pool = 1..Len(pool) /\ Len(pool) \in Nat OBVIOUS
<1>2. Pairs(pool) \subseteq Nat \X Nat BY <1>1 DEF Pairs
<1>3. Nat \X Nat \subseteq Seq(Nat)
  <2> SUFFICES ASSUME NEW p \in Nat \X Nat PROVE p \in Seq(Nat) OBVIOUS
  <2>1. PICK a \in Nat, b \in Nat : p = <<a, b>> OBVIOUS
  <2>2. <<a, b>> \in Seq(Nat) BY <2>1
  <2> QED BY <2>1, <2>2
<1>4. {<<i>> : i \in DOMAIN pool} \subseteq Seq(Nat)
  <2>1. \A i \in DOMAIN pool : i \in Nat BY <1>1
  <2>2. \A i \in Nat : <<i>> \in Seq(Nat) OBVIOUS
  <2> QED BY <2>1, <2>2
<1> QED BY <1>2, <1>3, <1>4 DEF Items

(* The tasks that are drawn are such tasks, and all differ. *)
LEMMA TaskListsAre ==
  ASSUME NEW plan, PlanWell(plan), NEW pool \in Seq(ChunkRows), NEW tasks \in TaskLists(plan, pool)
  PROVE  tasks \in Seq(Tasks(pool)) /\ Apart(tasks, Differ(pool))
<1> DEFINE drawn(i) == Samples(Items(plan[i], pool), Shares(plan)[i])
<1>1. PICK f : /\ \A i \in DOMAIN plan : f[i] \in drawn(i)
               /\ tasks = FlattenSeq([i \in DOMAIN plan |-> [j \in DOMAIN f[i] |->
                                        [subset |-> plan[i], chunks |-> f[i][j]]]])
  <2> HIDE DEF drawn
  <2>1. TaskLists(plan, pool) =
          {FlattenSeq([i \in DOMAIN plan |->
                         [j \in DOMAIN f[i] |-> [subset |-> plan[i], chunks |-> f[i][j]]]]) :
             f \in {f \in [DOMAIN plan -> UNION {drawn(i) : i \in DOMAIN plan}] :
                      \A i \in DOMAIN plan : f[i] \in drawn(i)}}
    BY DEF TaskLists, drawn
  <2> QED BY <2>1
<1> DEFINE Task(i, j) == [subset |-> plan[i], chunks |-> f[i][j]]
<1> DEFINE lists == [i \in DOMAIN plan |-> [j \in DOMAIN f[i] |-> Task(i, j)]]
<1>2. plan \in Seq(Subsets) /\ DOMAIN plan = 1..Len(plan) /\ Len(plan) \in Nat BY DEF PlanWell
<1>3. ASSUME NEW i \in DOMAIN plan
      PROVE  \E n \in Nat :
               /\ DOMAIN f[i] = 1..n
               /\ \A j \in 1..n : f[i][j] \in Items(plan[i], pool)
               /\ \A j, k \in 1..n : f[i][j] = f[i][k] /\ j # k =>
                    Cardinality(Items(plan[i], pool)) < Total
  <2> PICK items, share, pick : /\ items = Items(plan[i], pool) /\ share = Shares(plan)[i]
                                /\ pick = f[i]
    OBVIOUS
  <2>1. pick \in Samples(items, share) BY <1>1
  <2>2. share \in Nat /\ share <= Total /\ Total \in Nat BY SharesAre, DatasetAssumption
  <2>3. Cardinality(items) \in Nat BY ItemsFinite
  <2>4. CASE items = {}
    <3>1. pick = <<>> BY <2>1, <2>4 DEF Samples
    <3>2. DOMAIN pick = 1..0 BY <3>1
    <3>3. 0 \in Nat /\ \A j \in 1..0 : FALSE OBVIOUS
    <3> QED BY <3>2, <3>3
  <2>5. CASE items # {}
    <3>1. /\ pick \in [1..share -> items]
          /\ share <= Cardinality(items) => \A j, k \in 1..share : pick[j] = pick[k] => j = k
      BY <2>1, <2>5 DEF Samples
    <3>2. \A j, k \in 1..share : pick[j] = pick[k] /\ j # k => Cardinality(items) < Total
      BY <2>2, <2>3, <3>1
    <3> QED BY <2>2, <3>1, <3>2
  <2> QED BY <2>4, <2>5
<1>4. PICK T, R : T = Tasks(pool) /\ R = Differ(pool) OBVIOUS
<1>5. ASSUME NEW i \in DOMAIN plan
      PROVE  \E n \in Nat :
               /\ DOMAIN f[i] = 1..n
               /\ \A j \in 1..n : /\ Task(i, j) \in T
                                  /\ Task(i, j).subset = plan[i] /\ Task(i, j).chunks = f[i][j]
               /\ \A j, k \in 1..n : j # k => <<Task(i, j), Task(i, k)>> \in R
  <2>1. PICK n \in Nat :
          /\ DOMAIN f[i] = 1..n
          /\ \A j \in 1..n : f[i][j] \in Items(plan[i], pool)
          /\ \A j, k \in 1..n : f[i][j] = f[i][k] /\ j # k =>
               Cardinality(Items(plan[i], pool)) < Total
    BY <1>3
  <2>2. plan[i] \in Subsets BY <1>2
  <2>3. ASSUME NEW j \in 1..n
        PROVE  /\ Task(i, j) \in T
               /\ Task(i, j).subset = plan[i] /\ Task(i, j).chunks = f[i][j]
    <3>1. f[i][j] \in Seq(Nat) /\ f[i][j] \in Items(plan[i], pool) BY <2>1, ItemsAre
    <3>2. PICK s, c : s = plan[i] /\ c = f[i][j] OBVIOUS
    <3>3. [subset |-> s, chunks |-> c] \in Tasks(pool) BY <2>2, <3>1, <3>2 DEF Tasks
    <3> QED BY <1>4, <3>2, <3>3
  <2>4. ASSUME NEW j \in 1..n, NEW k \in 1..n, j # k PROVE <<Task(i, j), Task(i, k)>> \in R
    <3>1. PICK a, b : a = Task(i, j) /\ b = Task(i, k) OBVIOUS
    <3>2. a \in Tasks(pool) /\ b \in Tasks(pool) /\ a.subset = plan[i] /\ a.chunks = f[i][j]
          /\ b.chunks = f[i][k]
      <4> HIDE DEF Task
      <4> QED BY <1>4, <2>3, <3>1
    <3>3. a = b => Cardinality(Items(a.subset, pool)) < Total BY <2>1, <2>4, <3>2
    <3> HIDE DEF Task
    <3> QED BY <1>4, <3>1, <3>2, <3>3, DifferIs
  <2> HIDE DEF Task
  <2> QED BY <2>1, <2>3, <2>4
<1>6. lists \in Seq(Seq(T)) /\ Len(lists) = Len(plan)
      /\ \A i \in 1..Len(plan) : DOMAIN lists[i] = DOMAIN f[i]
                                 /\ \A j \in DOMAIN f[i] : lists[i][j] = Task(i, j)
  <2> HIDE DEF Task
  <2>1. \A i \in 1..Len(plan) : [j \in DOMAIN f[i] |-> Task(i, j)] \in Seq(T)
    <3> TAKE i \in 1..Len(plan)
    <3>1. i \in DOMAIN plan BY <1>2
    <3>2. PICK n \in Nat : DOMAIN f[i] = 1..n /\ \A j \in 1..n : Task(i, j) \in T BY <1>5, <3>1
    <3> QED BY <3>2
  <2> QED BY <1>2, <2>1
<1>7. tasks = FlattenSeq(lists) BY <1>1
<1> HIDE DEF lists
<1>8. FlattenSeq(lists) \in Seq(T) BY <1>6, FlattenIs
<1>9. \A i \in 1..Len(lists) : Apart(lists[i], R)
  <2> TAKE i \in 1..Len(lists)
  <2>1. i \in DOMAIN plan /\ i \in 1..Len(plan) BY <1>2, <1>6
  <2>2. PICK n \in Nat :
          /\ DOMAIN f[i] = 1..n
          /\ \A j, k \in 1..n : j # k => <<Task(i, j), Task(i, k)>> \in R
    <3> HIDE DEF Task
    <3> QED BY <1>5, <2>1
  <2> HIDE DEF Task
  <2>3. DOMAIN lists[i] = 1..Len(lists[i]) BY <1>6
  <2>4. \A j \in 1..Len(lists[i]) : j \in 1..n /\ lists[i][j] = Task(i, j) BY <1>6, <2>1, <2>2, <2>3
  <2>5. \A j, k \in 1..Len(lists[i]) : j < k => j # k OBVIOUS
  <2> QED BY <2>2, <2>4, <2>5 DEF Apart
<1>10. ASSUME NEW i \in 1..Len(lists), NEW j \in 1..Len(lists), i < j,
              NEW v \in 1..Len(lists[i]), NEW w \in 1..Len(lists[j])
       PROVE  <<lists[i][v], lists[j][w]>> \in R
  <2>1. i \in DOMAIN plan /\ j \in DOMAIN plan /\ i # j BY <1>2, <1>6, <1>10
  <2>2. plan[i] # plan[j] BY <2>1 DEF PlanWell
  <2>3. v \in DOMAIN f[i] /\ w \in DOMAIN f[j] BY <1>2, <1>6, <2>1
  <2>4. PICK a, b : a = Task(i, v) /\ b = Task(j, w) OBVIOUS
  <2>5. a \in T /\ a.subset = plan[i]
    <3> HIDE DEF Task
    <3> QED BY <1>5, <2>1, <2>3, <2>4
  <2>6. b \in T /\ b.subset = plan[j]
    <3> HIDE DEF Task
    <3> QED BY <1>5, <2>1, <2>3, <2>4
  <2>7. a # b BY <2>2, <2>5, <2>6
  <2>8. <<a, b>> \in R BY <1>4, <2>5, <2>6, <2>7, DifferIs
  <2> HIDE DEF Task
  <2> QED BY <1>2, <1>6, <2>1, <2>3, <2>4, <2>8
<1>11. Apart(FlattenSeq(lists), R) BY <1>6, <1>9, <1>10, FlattenApart
<1> QED BY <1>4, <1>7, <1>8, <1>11

-----------------------------------------------------------------------------
(* The caches.                                                             *)

Contents == {Nothing, Half} \cup (Origins \X Nat \X Nat \X Nat)

Caches == [content : Contents, manifest : {Nothing, Half} \cup Origins]

Legible(content) == content \notin {Nothing, Half}

DatasetTyped ==
  /\ version \in [Origins -> Nat]
  /\ docs \in Caches /\ pools \in [Cuts -> Caches]
  /\ DOMAIN build = DOMAIN NoBuild
  /\ build.docs \in Contents /\ build.pool \in Contents
  /\ ~Stage("none") => build.origin \in Origins /\ build.cut \in Cuts

(* Of no origin is anything kept that it has not come to, and chunks are   *)
(* never of a later version than the documents kept of the same origin.    *)
NothingAheadOfOrigin ==
  /\ Legible(docs.content) => docs.content[2] <= version[docs.content[1]]
  /\ \A c \in Cuts : Legible(pools[c].content) =>
       /\ pools[c].content[2] <= version[pools[c].content[1]]
       /\ Legible(docs.content) /\ docs.content[1] = pools[c].content[1] =>
            pools[c].content[2] <= docs.content[2]

ManifestTells(cache) ==
  cache.manifest \in Origins => Legible(cache.content) /\ cache.content[1] = cache.manifest

(* A manifest names the origin of what lies beside it, but for the one the *)
(* run is about to write.                                                  *)
ManifestsTell ==
  ~torn =>
    /\ ~Stage("docs manifest") => ManifestTells(docs)
    /\ \A c \in Cuts : ~(Stage("pool manifest") /\ build.cut = c) => ManifestTells(pools[c])

HasPool == Stage("pool manifest") \/ Stage("tasks") \/ Stage("ask") \/ Stage("done")

HasDocs == Stage("docs manifest") \/ Stage("pool") \/ HasPool

(* What the run has in memory is what the files hold. *)
BuildFits ==
  /\ HasDocs =>
       /\ build.docs = docs.content
       /\ ~torn => Legible(build.docs) /\ build.docs[1] = build.origin
  /\ HasPool =>
       /\ build.pool = pools[build.cut].content
       /\ ~torn => Legible(build.pool) /\ build.pool[1] = build.origin

DatasetInv ==
  DatasetTyped /\ NothingAheadOfOrigin /\ ManifestsTell /\ BuildFits

(* What is kept, and what a run works with, is a content there is; nothing *)
(* has a manifest that is not there itself.                                *)
HeldOrNot(content) == content \in {Nothing, Half} \/ content \in Held

ContentsHeld ==
  /\ \A o \in Origins : version[o] \in DOMAIN RowsOf[o]
  /\ HeldOrNot(docs.content) /\ (docs.manifest # Nothing => docs.content # Nothing)
  /\ \A c \in Cuts : /\ HeldOrNot(pools[c].content)
                     /\ pools[c].manifest # Nothing => pools[c].content # Nothing
  /\ HasDocs => build.docs \in Held
  /\ HasPool => build.pool \in Held

(* All the texts of a version are in a file, all the rows of a pool.       *)
DocsWhole(content) == DocumentsOf(content) = TextsOf(content[1], content[2])

PoolWhole(content, cut) ==
  DocsWhole(content) /\ Pool(content, cut) = WholePool(content, cut)

(* A content that is held is legible. *)
LEMMA HeldIs ==
  ASSUME NEW content \in Held
  PROVE  /\ content \in Contents /\ Legible(content)
         /\ content[1] \in Origins /\ content[2] \in Nat /\ content[3] \in Nat
<1>1. /\ content \in Origins \X Nat \X Nat \X Nat
      /\ content[1] \in Origins /\ content[2] \in Nat /\ content[3] \in Nat
  BY DEF Held
<1>2. content # <<>> /\ content # <<"half">>
  <2>1. PICK o \in Origins, v \in Nat, t \in Nat, n \in Nat : content = <<o, v, t, n>> BY <1>1
  <2>2. Len(<<o, v, t, n>>) = 4 /\ Len(<<>>) = 0 /\ Len(<<"half">>) = 1 OBVIOUS
  <2> QED BY <2>1, <2>2
<1> QED BY <1>1, <1>2 DEF Contents, Legible, Nothing, Half

(* What a run is about to write of its documents. *)
LEMMA NewDocsAre ==
  ASSUME DatasetTyped, ContentsHeld, ~Stage("none")
  PROVE  /\ AllDocs \in Nat /\ DocsWhole(NewDocs(AllDocs))
         /\ \A n \in Nat : /\ NewDocs(n) \in Held
                           /\ NewDocs(n)[1] = build.origin
                           /\ NewDocs(n)[2] = version[build.origin]
<1>1. PICK o \in Origins, v \in Nat : o = build.origin /\ v = version[build.origin]
  BY DEF DatasetTyped
<1>2. v \in DOMAIN RowsOf[o] BY <1>1 DEF ContentsHeld
<1>3. PICK texts \in Seq(SourceTexts) : texts = TextsOf(o, v) BY <1>2, TextsAre
<1>4. AllDocs = Len(texts) /\ Len(texts) \in Nat BY <1>1, <1>3 DEF AllDocs
<1>5. \A n \in Nat : NewDocs(n) = <<o, v, n, 0>> BY <1>1 DEF NewDocs
<1>6. \A n \in Nat : <<o, v, n, 0>> \in Held BY <1>2 DEF Held
<1>7. Written(texts, Len(texts)) = texts BY WrittenIs
<1>8. DocsWhole(<<o, v, Len(texts), 0>>) BY <1>3, <1>7 DEF DocsWhole, DocumentsOf
<1> QED BY <1>1, <1>4, <1>5, <1>6, <1>8

(* What it is about to write of its pool. *)
LEMMA NewPoolIs ==
  ASSUME DatasetTyped, ContentsHeld, Stage("pool")
  PROVE  /\ AllRows \in Nat
         /\ DocsWhole(build.docs) => PoolWhole(NewPool(AllRows), build.cut)
         /\ \A n \in Nat : /\ NewPool(n) \in Held
                           /\ NewPool(n)[1] = build.docs[1] /\ NewPool(n)[2] = build.docs[2]
<1>1. PICK content \in Held, cut \in Cuts : content = build.docs /\ cut = build.cut
  BY DEF DatasetTyped, ContentsHeld, HasDocs, Stage
<1>2. PICK o, v, t : o = content[1] /\ v = content[2] /\ t = content[3] OBVIOUS
<1>3. o \in Origins /\ v \in Nat /\ t \in Nat /\ v \in DOMAIN RowsOf[o] BY <1>2 DEF Held
<1>4. PICK rows \in Seq(ChunkRows) : rows = WholePool(content, cut) BY WholePoolIs
<1>5. AllRows = Len(rows) /\ Len(rows) \in Nat BY <1>1, <1>4 DEF AllRows
<1>6. \A n \in Nat : NewPool(n) = <<o, v, t, n>> BY <1>1, <1>2 DEF NewPool
<1>7. \A n \in Nat : <<o, v, t, n>> \in Held BY <1>3 DEF Held
<1>8. PICK new : new = <<o, v, t, Len(rows)>> OBVIOUS
<1>9. DocumentsOf(new) = DocumentsOf(content) BY <1>2, <1>8 DEF DocumentsOf
<1>10. WholePool(new, cut) = rows BY <1>4, <1>9 DEF WholePool
<1>11. Pool(new, cut) = rows
  <2>1. Written(rows, Len(rows)) = rows BY WrittenIs
  <2>2. new[4] = Len(rows) BY <1>8
  <2> QED BY <1>10, <2>1, <2>2 DEF Pool
<1>12. DocsWhole(content) => PoolWhole(new, cut)
  <2>1. new[1] = content[1] /\ new[2] = content[2] BY <1>2, <1>8
  <2> QED BY <1>9, <1>10, <1>11, <2>1 DEF DocsWhole, PoolWhole
<1> QED BY <1>1, <1>2, <1>5, <1>6, <1>7, <1>8, <1>12

(* Before the first run the caches are empty. *)
LEMMA DatasetStart == DatasetInit => DatasetInv
<1> SUFFICES ASSUME DatasetInit PROVE DatasetInv
  OBVIOUS
<1>1. build.stage = "none" /\ build.docs = Nothing /\ build.pool = Nothing
      /\ DOMAIN build = DOMAIN NoBuild
  BY DEF DatasetInit, NoBuild
<1>2. DatasetTyped
  BY <1>1 DEF DatasetInit, DatasetTyped, Contents, Caches, NoCache, Stage
<1>3. /\ docs = NoCache /\ \A c \in Cuts : pools[c] = NoCache
      /\ ~Legible(NoCache.content) /\ NoCache.manifest \notin Origins
  BY DatasetAssumption DEF DatasetInit, NoCache, Legible, Nothing
<1> QED
  BY <1>1, <1>2, <1>3 DEF DatasetInit, DatasetInv, NothingAheadOfOrigin, ManifestsTell, ManifestTells,
     BuildFits, HasDocs, HasPool, Stage, NoCache

(* A content that is not missing is of an origin and a version. *)
LEMMA ContentParts ==
  ASSUME NEW c \in Contents, Legible(c)
  PROVE  c[1] \in Origins /\ c[2] \in Nat
BY DEF Contents, Legible

(* A step of the build that leaves everything else alone and does not      *)
(* start one, reach for a pool or come to its end keeps the invariant.     *)
LEMMA BuildMovesOn ==
  ASSUME DatasetInv, UNCHANGED <<version, docs, pools, torn>>,
         DOMAIN build' = DOMAIN build,
         build'.origin = build.origin, build'.cut = build.cut,
         build'.docs = build.docs, build'.pool = build.pool,
         Stage("tasks") \/ Stage("ask"), build'.stage \in {"ask", "done"}
  PROVE  DatasetInv'
<1>1. DatasetTyped'
  BY DEF DatasetInv, DatasetTyped, Stage
<1>2. NothingAheadOfOrigin'
  BY DEF DatasetInv, NothingAheadOfOrigin
<1>3. ManifestsTell'
  BY DEF DatasetInv, ManifestsTell, ManifestTells, Stage
<1>4. BuildFits'
  BY DEF DatasetInv, BuildFits, HasDocs, HasPool, Stage
<1> QED
  BY <1>1, <1>2, <1>3, <1>4 DEF DatasetInv

(* Nothing is under way: given up, or cut off. *)
LEMMA BuildStops ==
  ASSUME DatasetInv, UNCHANGED <<version, docs, pools>>, build' = NoBuild,
         ~torn' => ~torn /\ (Stage("docs manifest") => docs.manifest = Nothing)
                   /\ (Stage("pool manifest") => pools[build.cut].manifest = Nothing)
  PROVE  DatasetInv'
<1>1. build'.stage = "none" /\ build'.docs = Nothing /\ build'.pool = Nothing
  BY DEF NoBuild
<1>2. DatasetTyped'
  BY <1>1 DEF DatasetInv, DatasetTyped, Contents, Stage
<1>3. NothingAheadOfOrigin'
  BY DEF DatasetInv, NothingAheadOfOrigin
<1>4. ManifestsTell'
  BY DatasetAssumption DEF DatasetInv, ManifestsTell, ManifestTells, Nothing
<1>5. BuildFits'
  BY <1>1 DEF BuildFits, HasDocs, HasPool, Stage
<1> QED
  BY <1>2, <1>3, <1>4, <1>5 DEF DatasetInv

(* The inductive step for the caches, action by action. *)
LEMMA DatasetStep ==
  ASSUME DatasetInv, ContentsHeld, [DatasetNext]_datasetVars
  PROVE  DatasetInv'
<1> USE DEF Stage
<1>0. DatasetTyped BY DEF DatasetInv
<1>1. ASSUME NEW o \in Origins, OriginChanges(o) PROVE DatasetInv'
  <2> PICK next \in Nat : next = version[o] + 1
    BY DEF DatasetInv, DatasetTyped
  <2>1. /\ version' = [version EXCEPT ![o] = next] /\ version[o] < next
        /\ UNCHANGED <<docs, pools, build, torn>>
    BY <1>1 DEF OriginChanges, CachesStay, DatasetInv, DatasetTyped
  <2>2. DatasetTyped'
    BY <2>1 DEF DatasetInv, DatasetTyped
  <2>3. \A p \in Origins : version[p] \in Nat /\ version'[p] \in Nat /\ version[p] <= version'[p]
    BY <2>1 DEF DatasetInv, DatasetTyped
  <2>4. NothingAheadOfOrigin'
    <3>1. ASSUME Legible(docs.content) PROVE docs.content[2] <= version'[docs.content[1]]
      BY <2>3, <3>1, ContentParts DEF DatasetInv, DatasetTyped, NothingAheadOfOrigin, Caches
    <3>2. ASSUME NEW c \in Cuts, Legible(pools[c].content)
          PROVE  pools[c].content[2] <= version'[pools[c].content[1]]
      BY <2>3, <3>2, ContentParts DEF DatasetInv, DatasetTyped, NothingAheadOfOrigin, Caches
    <3> QED
      BY <2>1, <3>1, <3>2 DEF DatasetInv, NothingAheadOfOrigin
  <2>5. ManifestsTell' /\ BuildFits'
    BY <2>1 DEF DatasetInv, ManifestsTell, ManifestTells, BuildFits, HasDocs, HasPool
  <2> QED
    BY <2>2, <2>4, <2>5 DEF DatasetInv
<1>2. ASSUME NEW o \in Origins, NEW cut \in Cuts, NEW plan \in Plans, StartBuild(o, cut, plan)
      PROVE  DatasetInv'
  <2>1. /\ build'.stage = "docs" /\ build'.origin = o /\ build'.cut = cut
        /\ build'.docs = Nothing /\ build'.pool = Nothing /\ DOMAIN build' = DOMAIN NoBuild
        /\ UNCHANGED <<version, docs, pools, torn>>
    <3> PICK active : active = ActiveSubsets(plan)
      OBVIOUS
    <3>1. build' = [NoBuild EXCEPT !.stage = "docs", !.origin = o, !.cut = cut, !.plan = active]
      BY <1>2 DEF StartBuild
    <3>2. UNCHANGED <<version, docs, pools, torn>>
      BY <1>2 DEF StartBuild, CachesStay
    <3> QED
      BY <3>1, <3>2 DEF NoBuild
  <2>2. DatasetTyped'
    BY <2>1 DEF DatasetInv, DatasetTyped, Contents
  <2>3. NothingAheadOfOrigin' /\ BuildFits'
    BY <2>1 DEF DatasetInv, NothingAheadOfOrigin, BuildFits, HasDocs, HasPool
  <2>4. build.stage # "docs manifest" /\ build.stage # "pool manifest"
    BY <1>2 DEF StartBuild
  <2>5. ManifestsTell'
    BY <2>1, <2>4 DEF DatasetInv, ManifestsTell, ManifestTells
  <2> QED
    BY <2>2, <2>3, <2>5 DEF DatasetInv
<1>3. ASSUME UseDocs PROVE DatasetInv'
  <2>1. /\ build.stage = "docs" /\ build'.stage = "pool" /\ docs.manifest = build.origin
        /\ build'.origin = build.origin /\ build'.cut = build.cut
        /\ build'.docs = docs.content /\ build'.pool = build.pool /\ DOMAIN build' = DOMAIN NoBuild
        /\ UNCHANGED <<version, docs, pools, torn>>
    BY <1>3 DEF UseDocs, KnownIn, CachesStay, RestStays, DatasetInv, DatasetTyped, NoBuild
  <2>2. build.origin # Nothing /\ build.origin \in Origins /\ build.cut \in Cuts
    BY <2>1, DatasetAssumption DEF DatasetInv, DatasetTyped, Nothing
  <2>3. DatasetTyped'
    BY <2>1, <2>2 DEF DatasetInv, DatasetTyped, Caches
  <2>4. NothingAheadOfOrigin' /\ ManifestsTell'
    BY <2>1 DEF DatasetInv, NothingAheadOfOrigin, ManifestsTell, ManifestTells
  <2>5. BuildFits'
    BY <2>1, <2>2 DEF DatasetInv, ManifestsTell, ManifestTells, BuildFits, HasDocs, HasPool
  <2> QED
    BY <2>3, <2>4, <2>5 DEF DatasetInv
<1>4. ASSUME LoadDocs PROVE DatasetInv'
  <2> PICK new : new = NewDocs(AllDocs)
    OBVIOUS
  <2>1. /\ build.stage = "docs" /\ build'.stage = "docs manifest"
        /\ build'.origin = build.origin /\ build'.cut = build.cut
        /\ build'.docs = new /\ build'.pool = build.pool /\ DOMAIN build' = DOMAIN NoBuild
        /\ docs' = [docs EXCEPT !.content = new]
        /\ UNCHANGED <<version, pools, torn>>
    BY <1>4 DEF LoadDocs, DocsMissing, RestStays, DatasetInv, DatasetTyped, NoBuild
  <2>2. build.origin \in Origins /\ build.cut \in Cuts /\ version[build.origin] \in Nat
    BY <2>1 DEF DatasetInv, DatasetTyped
  <2>3. new \in Contents /\ Legible(new) /\ new[1] = build.origin /\ new[2] = version[build.origin]
    BY <1>0, <2>1, NewDocsAre, HeldIs
  <2>4. docs'.content = new /\ docs' \in Caches
    BY <2>1, <2>3 DEF DatasetInv, DatasetTyped, Caches
  <2>5. DatasetTyped'
    BY <2>1, <2>2, <2>3, <2>4 DEF DatasetInv, DatasetTyped
  <2>6. NothingAheadOfOrigin'
    <3>1. new[2] <= version[new[1]]
      BY <2>2, <2>3
    <3>2. ASSUME NEW c \in Cuts, Legible(pools[c].content)
          PROVE  /\ pools[c].content[2] <= version[pools[c].content[1]]
                 /\ new[1] = pools[c].content[1] => pools[c].content[2] <= new[2]
      BY <2>3, <3>2 DEF DatasetInv, NothingAheadOfOrigin
    <3> QED
      BY <2>1, <2>4, <3>1, <3>2 DEF NothingAheadOfOrigin
  <2>7. ManifestsTell'
    BY <2>1 DEF DatasetInv, ManifestsTell, ManifestTells
  <2>8. BuildFits'
    BY <2>1, <2>3, <2>4 DEF BuildFits, HasDocs, HasPool
  <2> QED
    BY <2>5, <2>6, <2>7, <2>8 DEF DatasetInv
<1>5. ASSUME SaveDocsManifest PROVE DatasetInv'
  <2>1. /\ build.stage = "docs manifest" /\ build'.stage = "pool"
        /\ build'.origin = build.origin /\ build'.cut = build.cut
        /\ build'.docs = build.docs /\ build'.pool = build.pool /\ DOMAIN build' = DOMAIN NoBuild
        /\ docs' = [docs EXCEPT !.manifest = build.origin]
        /\ UNCHANGED <<version, pools, torn>>
    BY <1>5 DEF SaveDocsManifest, RestStays, DatasetInv, DatasetTyped, NoBuild
  <2>2. build.origin \in Origins /\ build.cut \in Cuts
    BY <2>1 DEF DatasetInv, DatasetTyped
  <2>3. docs'.content = docs.content /\ docs'.manifest = build.origin /\ docs' \in Caches
    BY <2>1, <2>2 DEF DatasetInv, DatasetTyped, Caches
  <2>4. DatasetTyped'
    BY <2>1, <2>2, <2>3 DEF DatasetInv, DatasetTyped
  <2>5. NothingAheadOfOrigin'
    BY <2>1, <2>3 DEF DatasetInv, NothingAheadOfOrigin
  <2>6. ManifestsTell'
    BY <2>1, <2>3 DEF DatasetInv, ManifestsTell, ManifestTells, BuildFits, HasDocs
  <2>7. BuildFits'
    BY <2>1, <2>3 DEF DatasetInv, BuildFits, HasDocs, HasPool
  <2> QED
    BY <2>4, <2>5, <2>6, <2>7 DEF DatasetInv
<1>6. ASSUME UsePool PROVE DatasetInv'
  <2>1. /\ build.stage = "pool" /\ build'.stage = "tasks"
        /\ pools[build.cut].manifest = build.origin
        /\ build'.origin = build.origin /\ build'.cut = build.cut /\ build'.docs = build.docs
        /\ build'.pool = pools[build.cut].content /\ DOMAIN build' = DOMAIN NoBuild
        /\ UNCHANGED <<version, docs, pools, torn>>
    BY <1>6 DEF UsePool, AtPool, PoolKnown, KnownIn, CachesStay, RestStays, DatasetInv, DatasetTyped,
       NoBuild
  <2>2. build.origin # Nothing /\ build.origin \in Origins /\ build.cut \in Cuts
    BY <2>1, DatasetAssumption DEF DatasetInv, DatasetTyped, Nothing
  <2>3. DatasetTyped'
    BY <2>1, <2>2 DEF DatasetInv, DatasetTyped, Caches
  <2>4. NothingAheadOfOrigin' /\ ManifestsTell'
    BY <2>1 DEF DatasetInv, NothingAheadOfOrigin, ManifestsTell, ManifestTells
  <2>5. BuildFits'
    BY <2>1, <2>2 DEF DatasetInv, ManifestsTell, ManifestTells, BuildFits, HasDocs, HasPool
  <2> QED
    BY <2>3, <2>4, <2>5 DEF DatasetInv
<1>7. ASSUME BuildPool PROVE DatasetInv'
  <2> PICK new : new = NewPool(AllRows)
    OBVIOUS
  <2>1. /\ build.stage = "pool" /\ build'.stage = "pool manifest"
        /\ build'.origin = build.origin /\ build'.cut = build.cut /\ build'.docs = build.docs
        /\ build'.pool = new /\ DOMAIN build' = DOMAIN NoBuild
        /\ pools' = [pools EXCEPT ![build.cut].content = new]
        /\ UNCHANGED <<version, docs, torn>>
    BY <1>7 DEF BuildPool, AtPool, RestStays, DatasetInv, DatasetTyped, NoBuild
  <2>2. build.origin \in Origins /\ build.cut \in Cuts /\ build.docs \in Contents
    BY <2>1 DEF DatasetInv, DatasetTyped
  <2>3. /\ new \in Contents /\ Legible(new)
        /\ new[1] = build.docs[1] /\ new[2] = build.docs[2]
    BY <1>0, <2>1, NewPoolIs, HeldIs
  <2>4. /\ pools' \in [Cuts -> Caches] /\ pools'[build.cut].content = new
        /\ \A c \in Cuts : c # build.cut => pools'[c] = pools[c]
    BY <2>1, <2>2, <2>3 DEF DatasetInv, DatasetTyped, Caches
  <2>5. DatasetTyped'
    BY <2>1, <2>2, <2>3, <2>4 DEF DatasetInv, DatasetTyped
  <2>6. build.docs = docs.content /\ Legible(build.docs)
    <3>1. build.docs \in Held BY <2>1 DEF ContentsHeld, HasDocs
    <3> QED BY <2>1, <3>1, HeldIs DEF DatasetInv, BuildFits, HasDocs
  <2>7. NothingAheadOfOrigin'
    <3>1. docs.content[2] <= version[docs.content[1]] /\ docs.content[2] <= docs.content[2]
      BY <2>2, <2>6, ContentParts DEF DatasetInv, NothingAheadOfOrigin
    <3> QED
      BY <2>1, <2>3, <2>4, <2>6, <3>1 DEF DatasetInv, NothingAheadOfOrigin
  <2>8. ManifestsTell'
    BY <2>1, <2>4 DEF DatasetInv, ManifestsTell, ManifestTells
  <2>9. BuildFits'
    BY <2>1, <2>3, <2>4, <2>6 DEF DatasetInv, BuildFits, HasDocs, HasPool
  <2> QED
    BY <2>5, <2>7, <2>8, <2>9 DEF DatasetInv
<1>8. ASSUME SavePoolManifest PROVE DatasetInv'
  <2>1. /\ build.stage = "pool manifest" /\ build'.stage = "tasks"
        /\ build'.origin = build.origin /\ build'.cut = build.cut /\ build'.docs = build.docs
        /\ build'.pool = build.pool /\ DOMAIN build' = DOMAIN NoBuild
        /\ pools' = [pools EXCEPT ![build.cut].manifest = build.origin]
        /\ UNCHANGED <<version, docs, torn>>
    BY <1>8 DEF SavePoolManifest, RestStays, DatasetInv, DatasetTyped, NoBuild
  <2>2. build.origin \in Origins /\ build.cut \in Cuts
    BY <2>1 DEF DatasetInv, DatasetTyped
  <2>3. /\ pools' \in [Cuts -> Caches] /\ pools'[build.cut].manifest = build.origin
        /\ \A c \in Cuts : pools'[c].content = pools[c].content
        /\ \A c \in Cuts : c # build.cut => pools'[c] = pools[c]
    BY <2>1, <2>2 DEF DatasetInv, DatasetTyped, Caches
  <2>4. DatasetTyped'
    BY <2>1, <2>2, <2>3 DEF DatasetInv, DatasetTyped
  <2>5. NothingAheadOfOrigin'
    BY <2>1, <2>3, ZenonT(40) DEF DatasetInv, NothingAheadOfOrigin
  <2>6. ASSUME ~torn PROVE ManifestTells(pools'[build.cut])
    BY <2>1, <2>2, <2>3, <2>6 DEF DatasetInv, ManifestTells, BuildFits, HasPool
  <2>7. ManifestsTell'
    BY <2>1, <2>3, <2>6 DEF DatasetInv, ManifestsTell, ManifestTells
  <2>8. BuildFits'
    BY <2>1, <2>2, <2>3 DEF DatasetInv, BuildFits, HasDocs, HasPool
  <2> QED
    BY <2>4, <2>5, <2>7, <2>8 DEF DatasetInv
<1>9. ASSUME DrawTasks PROVE DatasetInv'
  BY <1>9, BuildMovesOn DEF DrawTasks, CachesStay, RestStays, DatasetInv, DatasetTyped, NoBuild
<1>10. ASSUME NoQuestion PROVE DatasetInv'
  BY <1>10, BuildMovesOn DEF NoQuestion, CachesStay, RestStays, DatasetInv, DatasetTyped, NoBuild
<1>11. ASSUME NEW rating \in Ratings, Question(rating) PROVE DatasetInv'
  BY <1>11, BuildMovesOn DEF Question, CachesStay, RestStays, DatasetInv, DatasetTyped, NoBuild
<1>12. ASSUME SaveDataset PROVE DatasetInv'
  BY <1>12, BuildMovesOn DEF SaveDataset, CachesStay, RestStays, DatasetInv, DatasetTyped, NoBuild
<1>13. ASSUME GivesUp PROVE DatasetInv'
  BY <1>13, BuildStops DEF GivesUp, CachesStay, RestStays
<1>14. ASSUME BuildCrashes PROVE DatasetInv'
  BY <1>14, BuildStops DEF BuildCrashes, Breaks, CachesStay
<1>16. ASSUME DocsCutOff PROVE DatasetInv'
  <2>1. PICK new \in {Half} \cup {NewDocs(n) : n \in 0..AllDocs} :
          docs' = [docs EXCEPT !.content = new]
    BY <1>16 DEF DocsCutOff
  <2>2. /\ build.stage = "docs" /\ build' = NoBuild /\ UNCHANGED <<version, pools>>
        /\ ~torn' => ~torn /\ docs.manifest = Nothing
    BY <1>16 DEF DocsCutOff, DocsMissing, Breaks
  <2>3. /\ build'.stage = "none" /\ build'.docs = Nothing /\ build'.pool = Nothing
        /\ DOMAIN build' = DOMAIN NoBuild
    BY <2>2 DEF NoBuild
  <2>4. /\ new \in Contents
        /\ Legible(new) => new[1] = build.origin /\ new[2] = version[build.origin]
    <3>1. CASE new = Half BY <3>1 DEF Contents, Legible
    <3>2. CASE new # Half
      <4>1. PICK n \in 0..AllDocs : new = NewDocs(n) BY <2>1, <3>2
      <4>2. n \in Nat OBVIOUS
      <4> QED BY <1>0, <2>2, <4>1, <4>2, NewDocsAre, HeldIs
    <3> QED BY <3>1, <3>2
  <2>5. docs'.content = new /\ docs'.manifest = docs.manifest /\ docs' \in Caches
    BY <1>0, <2>1, <2>4 DEF DatasetTyped, Caches
  <2>6. build.origin \in Origins /\ version[build.origin] \in Nat
    BY <1>0, <2>2 DEF DatasetTyped
  <2>7. DatasetTyped'
    BY <1>0, <2>2, <2>3, <2>5 DEF DatasetTyped, Contents
  <2>8. NothingAheadOfOrigin'
    <3>1. Legible(new) => new[2] <= version[new[1]]
      BY <2>4, <2>6
    <3>2. ASSUME NEW c \in Cuts, Legible(pools[c].content)
          PROVE  /\ pools[c].content[2] <= version[pools[c].content[1]]
                 /\ Legible(new) /\ new[1] = pools[c].content[1] => pools[c].content[2] <= new[2]
      BY <2>4, <3>2 DEF DatasetInv, NothingAheadOfOrigin
    <3> QED
      BY <2>2, <2>5, <3>1, <3>2 DEF NothingAheadOfOrigin
  <2>9. ManifestsTell' /\ BuildFits'
    <3>1. Nothing \notin Origins
      BY DatasetAssumption DEF Nothing
    <3> QED
      BY <2>2, <2>3, <2>5, <3>1 DEF DatasetInv, ManifestsTell, ManifestTells, BuildFits, HasDocs, HasPool
  <2> QED
    BY <2>7, <2>8, <2>9 DEF DatasetInv
<1>17. ASSUME PoolCutOff PROVE DatasetInv'
  <2>1. PICK new \in {Half} \cup {NewPool(n) : n \in 0..AllRows} :
          pools' = [pools EXCEPT ![build.cut].content = new]
    BY <1>17 DEF PoolCutOff
  <2>2. /\ build.stage = "pool" /\ build' = NoBuild /\ UNCHANGED <<version, docs>>
        /\ ~torn' => ~torn /\ pools[build.cut].manifest = Nothing
    BY <1>17 DEF PoolCutOff, AtPool, Breaks
  <2>3. /\ build'.stage = "none" /\ build'.docs = Nothing /\ build'.pool = Nothing
        /\ DOMAIN build' = DOMAIN NoBuild
    BY <2>2 DEF NoBuild
  <2>4. /\ new \in Contents
        /\ Legible(new) => new[1] = build.docs[1] /\ new[2] = build.docs[2]
    <3>1. CASE new = Half BY <3>1 DEF Contents, Legible
    <3>2. CASE new # Half
      <4>1. PICK n \in 0..AllRows : new = NewPool(n) BY <2>1, <3>2
      <4>2. n \in Nat OBVIOUS
      <4> QED BY <1>0, <2>2, <4>1, <4>2, NewPoolIs, HeldIs
    <3> QED BY <3>1, <3>2
  <2>5. build.cut \in Cuts
    BY <1>0, <2>2 DEF DatasetTyped
  <2>6. /\ pools' \in [Cuts -> Caches]
        /\ pools'[build.cut].content = new /\ pools'[build.cut].manifest = pools[build.cut].manifest
        /\ \A c \in Cuts : c # build.cut => pools'[c] = pools[c]
    BY <1>0, <2>1, <2>4, <2>5 DEF DatasetTyped, Caches
  <2>7. build.docs = docs.content /\ Legible(build.docs) /\ build.docs \in Contents
    <3>1. build.docs \in Held BY <2>2 DEF ContentsHeld, HasDocs
    <3> QED BY <2>2, <3>1, HeldIs DEF DatasetInv, BuildFits, HasDocs
  <2>8. DatasetTyped'
    BY <1>0, <2>2, <2>3, <2>6 DEF DatasetTyped, Contents
  <2>9. NothingAheadOfOrigin'
    <3>1. docs.content[2] <= version[docs.content[1]] /\ docs.content[2] <= docs.content[2]
      BY <2>7, ContentParts DEF DatasetInv, NothingAheadOfOrigin
    <3> QED
      BY <2>2, <2>4, <2>6, <2>7, <3>1 DEF DatasetInv, NothingAheadOfOrigin
  <2>10. ManifestsTell' /\ BuildFits'
    <3>1. Nothing \notin Origins
      BY DatasetAssumption DEF Nothing
    <3> QED
      BY <2>2, <2>3, <2>6, <3>1 DEF DatasetInv, ManifestsTell, ManifestTells, BuildFits, HasDocs, HasPool
  <2> QED
    BY <2>8, <2>9, <2>10 DEF DatasetInv
<1>18. ASSUME ManifestCutOff PROVE DatasetInv'
  <2>1. build' = NoBuild /\ UNCHANGED <<version, torn>>
    BY <1>18 DEF ManifestCutOff, Breaks
  <2>2. /\ build'.stage = "none" /\ build'.docs = Nothing /\ build'.pool = Nothing
        /\ DOMAIN build' = DOMAIN NoBuild
    BY <2>1 DEF NoBuild
  <2>3. Half \notin Origins
    BY DatasetAssumption DEF Half
  <2>4. CASE build.stage = "docs manifest" /\ docs' = [docs EXCEPT !.manifest = Half] /\ UNCHANGED pools
    <3>1. docs'.content = docs.content /\ docs'.manifest = Half /\ docs' \in Caches
      BY <1>0, <2>4 DEF DatasetTyped, Caches
    <3>2. DatasetTyped'
      BY <1>0, <2>1, <2>2, <2>4, <3>1 DEF DatasetTyped, Contents
    <3>3. NothingAheadOfOrigin'
      BY <2>1, <2>4, <3>1 DEF DatasetInv, NothingAheadOfOrigin
    <3>4. ManifestsTell' /\ BuildFits'
      BY <2>1, <2>2, <2>3, <2>4, <3>1
         DEF DatasetInv, ManifestsTell, ManifestTells, BuildFits, HasDocs, HasPool
    <3> QED
      BY <3>2, <3>3, <3>4 DEF DatasetInv
  <2>5. CASE /\ build.stage = "pool manifest" /\ UNCHANGED docs
             /\ pools' = [pools EXCEPT ![build.cut].manifest = Half]
    <3>1. build.cut \in Cuts
      BY <1>0, <2>5 DEF DatasetTyped
    <3>2. /\ pools' \in [Cuts -> Caches] /\ pools'[build.cut].manifest = Half
          /\ \A c \in Cuts : pools'[c].content = pools[c].content
          /\ \A c \in Cuts : c # build.cut => pools'[c] = pools[c]
      BY <1>0, <2>5, <3>1 DEF DatasetTyped, Caches
    <3>3. DatasetTyped'
      BY <1>0, <2>1, <2>2, <2>5, <3>2 DEF DatasetTyped, Contents
    <3>4. NothingAheadOfOrigin'
      BY <2>1, <2>5, <3>2, ZenonT(40) DEF DatasetInv, NothingAheadOfOrigin
    <3>5. ManifestsTell' /\ BuildFits'
      BY <2>1, <2>2, <2>3, <2>5, <3>1, <3>2
         DEF DatasetInv, ManifestsTell, ManifestTells, BuildFits, HasDocs, HasPool
    <3> QED
      BY <3>3, <3>4, <3>5 DEF DatasetInv
  <2> QED
    BY <1>18, <2>4, <2>5 DEF ManifestCutOff
<1>15. ASSUME UNCHANGED datasetVars PROVE DatasetInv'
  BY <1>15 DEF datasetVars, DatasetInv, DatasetTyped, NothingAheadOfOrigin, ManifestsTell,
     ManifestTells, BuildFits, HasDocs, HasPool
<1> QED
  BY <1>1, <1>2, <1>3, <1>4, <1>5, <1>6, <1>7, <1>8, <1>9, <1>10, <1>11, <1>12, <1>13, <1>14, <1>15,
     <1>16, <1>17, <1>18
     DEF DatasetNext

-----------------------------------------------------------------------------
(* The contents a run works with, and its questions.                       *)

(* Every origin is in its first version, and nothing is kept. *)
LEMMA ContentsStart == DatasetInit => ContentsHeld
<1> SUFFICES ASSUME DatasetInit PROVE ContentsHeld OBVIOUS
<1>1. build.stage = "none" /\ docs = NoCache /\ \A c \in Cuts : pools[c] = NoCache
  BY DEF DatasetInit, NoBuild
<1>2. \A o \in Origins : version[o] \in DOMAIN RowsOf[o]
  <2> TAKE o \in Origins
  <2>1. RowsOf[o] \in Seq(Seq(Seq(STRING))) /\ RowsOf[o] # <<>> BY DatasetAssumption
  <2>2. Len(RowsOf[o]) # 0 /\ Len(RowsOf[o]) \in Nat /\ DOMAIN RowsOf[o] = 1..Len(RowsOf[o])
    BY <2>1
  <2>3. 1 \in DOMAIN RowsOf[o] BY <2>2
  <2> QED BY <2>3 DEF DatasetInit
<1>3. NoCache.content = Nothing /\ NoCache.manifest = Nothing BY DEF NoCache
<1> QED BY <1>1, <1>2, <1>3 DEF ContentsHeld, HeldOrNot, HasDocs, HasPool, Stage

(* A run that has its contents goes on, or a run ends. *)
LEMMA ContentsMoveOn ==
  ASSUME ContentsHeld, UNCHANGED <<version, docs, pools>>,
         \/ build'.stage \in {"none", "docs"}
         \/ HasPool /\ build'.docs = build.docs /\ build'.pool = build.pool
  PROVE  ContentsHeld'
BY DEF ContentsHeld, HeldOrNot, HasDocs, HasPool, Stage

(* The inductive step for the contents, action by action. *)
LEMMA ContentsKept ==
  ASSUME DatasetInv, ContentsHeld, [DatasetNext]_datasetVars
  PROVE  ContentsHeld'
<1> USE DEF Stage
<1>0. DatasetTyped BY DEF DatasetInv
<1>1. ASSUME NEW o \in Origins, OriginChanges(o) PROVE ContentsHeld'
  <2>1. version' = [version EXCEPT ![o] = @ + 1] /\ version[o] < Len(RowsOf[o])
        /\ UNCHANGED <<docs, pools, build>>
    BY <1>1 DEF OriginChanges, CachesStay
  <2>2. RowsOf[o] \in Seq(Seq(Seq(STRING))) BY DatasetAssumption
  <2>3. version[o] + 1 \in DOMAIN RowsOf[o] BY <1>0, <2>1, <2>2 DEF DatasetTyped
  <2>4. \A p \in Origins : version'[p] \in DOMAIN RowsOf[p]
    BY <1>0, <2>1, <2>3 DEF DatasetTyped, ContentsHeld
  <2> QED BY <2>1, <2>4 DEF ContentsHeld, HeldOrNot, HasDocs, HasPool
<1>2. ASSUME NEW o \in Origins, NEW cut \in Cuts, NEW plan \in Plans, StartBuild(o, cut, plan)
      PROVE  ContentsHeld'
  <2> PICK active : active = ActiveSubsets(plan) OBVIOUS
  <2>1. build' = [NoBuild EXCEPT !.stage = "docs", !.origin = o, !.cut = cut, !.plan = active]
    BY <1>2 DEF StartBuild
  <2>2. build'.stage = "docs" /\ UNCHANGED <<version, docs, pools>>
    BY <1>2, <2>1 DEF StartBuild, CachesStay, NoBuild
  <2> QED BY <2>2, ContentsMoveOn
<1>3. ASSUME UseDocs PROVE ContentsHeld'
  <2>1. /\ build'.stage = "pool" /\ build'.docs = docs.content
        /\ docs.manifest = build.origin /\ build.origin \in Origins /\ docs.content # Half
        /\ UNCHANGED <<version, docs, pools>>
    BY <1>0, <1>3 DEF UseDocs, KnownIn, Unreadable, CachesStay, RestStays, DatasetTyped, NoBuild
  <2>2. docs.content \in Held
    BY <2>1, DatasetAssumption DEF ContentsHeld, HeldOrNot, Nothing
  <2> QED BY <2>1, <2>2 DEF ContentsHeld, HeldOrNot, HasDocs, HasPool
<1>4. ASSUME LoadDocs PROVE ContentsHeld'
  <2> PICK new : new = NewDocs(AllDocs) OBVIOUS
  <2>1. /\ build.stage = "docs" /\ build'.stage = "docs manifest" /\ build'.docs = new
        /\ docs' = [docs EXCEPT !.content = new]
        /\ UNCHANGED <<version, pools>>
    BY <1>0, <1>4 DEF LoadDocs, DocsMissing, RestStays, DatasetTyped, NoBuild
  <2>2. new \in Held BY <1>0, <2>1, NewDocsAre
  <2>3. new # Nothing BY <2>2, HeldIs DEF Legible
  <2>4. docs'.content = new BY <1>0, <2>1 DEF DatasetTyped, Caches
  <2> QED BY <2>1, <2>2, <2>3, <2>4 DEF ContentsHeld, HeldOrNot, HasDocs, HasPool
<1>5. ASSUME SaveDocsManifest PROVE ContentsHeld'
  <2>1. /\ build.stage = "docs manifest" /\ build'.stage = "pool" /\ build'.docs = build.docs
        /\ docs' = [docs EXCEPT !.manifest = build.origin]
        /\ UNCHANGED <<version, pools>>
    BY <1>0, <1>5 DEF SaveDocsManifest, RestStays, DatasetTyped, NoBuild
  <2>2. docs'.content = docs.content BY <1>0, <2>1 DEF DatasetTyped, Caches
  <2>3. build.docs \in Held /\ docs.content = build.docs
    BY <2>1 DEF ContentsHeld, HasDocs, DatasetInv, BuildFits
  <2>4. \A content \in Held : content # Nothing BY HeldIs DEF Legible
  <2> QED BY <2>1, <2>2, <2>3, <2>4 DEF ContentsHeld, HeldOrNot, HasDocs, HasPool
<1>6. ASSUME UsePool PROVE ContentsHeld'
  <2>1. /\ build.stage = "pool" /\ build'.stage = "tasks" /\ build'.docs = build.docs
        /\ build'.pool = pools[build.cut].content /\ pools[build.cut].manifest = build.origin
        /\ pools[build.cut].content # Half
        /\ UNCHANGED <<version, docs, pools>>
    BY <1>0, <1>6 DEF UsePool, AtPool, PoolKnown, KnownIn, Unreadable, CachesStay, RestStays,
       DatasetTyped, NoBuild
  <2>2. build.origin \in Origins /\ build.cut \in Cuts BY <1>0, <2>1 DEF DatasetTyped
  <2>3. pools[build.cut].content \in Held
    BY <2>1, <2>2, DatasetAssumption DEF ContentsHeld, HeldOrNot, Nothing
  <2> QED BY <2>1, <2>3 DEF ContentsHeld, HeldOrNot, HasDocs, HasPool
<1>7. ASSUME BuildPool PROVE ContentsHeld'
  <2> PICK new : new = NewPool(AllRows) OBVIOUS
  <2>1. /\ build.stage = "pool" /\ build'.stage = "pool manifest" /\ build'.docs = build.docs
        /\ build'.pool = new
        /\ pools' = [pools EXCEPT ![build.cut].content = new]
        /\ UNCHANGED <<version, docs>>
    BY <1>0, <1>7 DEF BuildPool, AtPool, RestStays, DatasetTyped, NoBuild
  <2>2. build.cut \in Cuts BY <1>0, <2>1 DEF DatasetTyped
  <2>3. /\ pools'[build.cut].content = new
        /\ \A c \in Cuts : c # build.cut => pools'[c] = pools[c]
    BY <1>0, <2>1, <2>2 DEF DatasetTyped, Caches
  <2>4. build.docs \in Held /\ new \in Held
    BY <1>0, <2>1, NewPoolIs DEF ContentsHeld, HasDocs
  <2>5. \A content \in Held : content # Nothing BY HeldIs DEF Legible
  <2> QED BY <2>1, <2>2, <2>3, <2>4, <2>5 DEF ContentsHeld, HeldOrNot, HasDocs, HasPool
<1>8. ASSUME SavePoolManifest PROVE ContentsHeld'
  <2>1. /\ build.stage = "pool manifest" /\ build'.stage = "tasks" /\ build'.docs = build.docs
        /\ build'.pool = build.pool
        /\ pools' = [pools EXCEPT ![build.cut].manifest = build.origin]
        /\ UNCHANGED <<version, docs>>
    BY <1>0, <1>8 DEF SavePoolManifest, RestStays, DatasetTyped, NoBuild
  <2>2. build.cut \in Cuts BY <1>0, <2>1 DEF DatasetTyped
  <2>3. /\ \A c \in Cuts : pools'[c].content = pools[c].content
        /\ \A c \in Cuts : c # build.cut => pools'[c] = pools[c]
    BY <1>0, <2>1, <2>2 DEF DatasetTyped, Caches
  <2>4. build.pool \in Held /\ build.docs \in Held /\ pools[build.cut].content = build.pool
    BY <2>1 DEF ContentsHeld, HasDocs, HasPool, DatasetInv, BuildFits
  <2>5. \A content \in Held : content # Nothing BY HeldIs DEF Legible
  <2> QED BY <2>1, <2>2, <2>3, <2>4, <2>5 DEF ContentsHeld, HeldOrNot, HasDocs, HasPool
<1>9. ASSUME DrawTasks PROVE ContentsHeld'
  BY <1>0, <1>9, ContentsMoveOn DEF DrawTasks, CachesStay, RestStays, DatasetTyped, NoBuild, HasPool
<1>10. ASSUME NoQuestion PROVE ContentsHeld'
  BY <1>0, <1>10, ContentsMoveOn
     DEF NoQuestion, CachesStay, RestStays, DatasetTyped, NoBuild, HasPool
<1>11. ASSUME NEW rating \in Ratings, Question(rating) PROVE ContentsHeld'
  BY <1>0, <1>11, ContentsMoveOn
     DEF Question, CachesStay, RestStays, DatasetTyped, NoBuild, HasPool
<1>12. ASSUME SaveDataset PROVE ContentsHeld'
  BY <1>0, <1>12, ContentsMoveOn
     DEF SaveDataset, CachesStay, RestStays, DatasetTyped, NoBuild, HasPool
<1>13. ASSUME GivesUp PROVE ContentsHeld'
  BY <1>13, ContentsMoveOn DEF GivesUp, CachesStay, RestStays, NoBuild
<1>14. ASSUME BuildCrashes PROVE ContentsHeld'
  BY <1>14, ContentsMoveOn DEF BuildCrashes, Breaks, CachesStay, NoBuild
<1>16. ASSUME DocsCutOff PROVE ContentsHeld'
  <2>1. PICK new \in {Half} \cup {NewDocs(n) : n \in 0..AllDocs} :
          docs' = [docs EXCEPT !.content = new]
    BY <1>16 DEF DocsCutOff
  <2>2. build.stage = "docs" /\ build'.stage = "none" /\ UNCHANGED <<version, pools>>
    BY <1>16 DEF DocsCutOff, DocsMissing, Breaks, NoBuild
  <2>3. new = Half \/ new \in Held
    <3> SUFFICES ASSUME new # Half PROVE new \in Held OBVIOUS
    <3>1. PICK n \in 0..AllDocs : new = NewDocs(n) BY <2>1
    <3>2. n \in Nat OBVIOUS
    <3> QED BY <1>0, <2>2, <3>1, <3>2, NewDocsAre
  <2>4. new # Nothing BY <2>3, HeldIs DEF Legible, Half, Nothing
  <2>5. docs'.content = new BY <1>0, <2>1 DEF DatasetTyped, Caches
  <2> QED BY <2>2, <2>3, <2>4, <2>5 DEF ContentsHeld, HeldOrNot, HasDocs, HasPool
<1>17. ASSUME PoolCutOff PROVE ContentsHeld'
  <2>1. PICK new \in {Half} \cup {NewPool(n) : n \in 0..AllRows} :
          pools' = [pools EXCEPT ![build.cut].content = new]
    BY <1>17 DEF PoolCutOff
  <2>2. build.stage = "pool" /\ build'.stage = "none" /\ UNCHANGED <<version, docs>>
    BY <1>17 DEF PoolCutOff, AtPool, Breaks, NoBuild
  <2>3. new = Half \/ new \in Held
    <3> SUFFICES ASSUME new # Half PROVE new \in Held OBVIOUS
    <3>1. PICK n \in 0..AllRows : new = NewPool(n) BY <2>1
    <3>2. n \in Nat OBVIOUS
    <3> QED BY <1>0, <2>2, <3>1, <3>2, NewPoolIs
  <2>4. new # Nothing BY <2>3, HeldIs DEF Legible, Half, Nothing
  <2>5. build.cut \in Cuts BY <1>0, <2>2 DEF DatasetTyped
  <2>6. /\ pools'[build.cut].content = new
        /\ \A c \in Cuts : c # build.cut => pools'[c] = pools[c]
    BY <1>0, <2>1, <2>5 DEF DatasetTyped, Caches
  <2> QED BY <2>2, <2>3, <2>4, <2>5, <2>6 DEF ContentsHeld, HeldOrNot, HasDocs, HasPool
<1>18. ASSUME ManifestCutOff PROVE ContentsHeld'
  <2>1. build'.stage = "none" /\ UNCHANGED version BY <1>18 DEF ManifestCutOff, Breaks, NoBuild
  <2>2. CASE build.stage = "docs manifest" /\ docs' = [docs EXCEPT !.manifest = Half] /\ UNCHANGED pools
    <3>1. docs'.content = docs.content BY <1>0, <2>2 DEF DatasetTyped, Caches
    <3>2. build.docs \in Held /\ docs.content = build.docs
      BY <2>2 DEF ContentsHeld, HasDocs, DatasetInv, BuildFits
    <3>3. docs.content # Nothing BY <3>2, HeldIs DEF Legible
    <3> QED BY <2>1, <2>2, <3>1, <3>3 DEF ContentsHeld, HeldOrNot, HasDocs, HasPool
  <2>3. CASE /\ build.stage = "pool manifest" /\ UNCHANGED docs
             /\ pools' = [pools EXCEPT ![build.cut].manifest = Half]
    <3>1. build.cut \in Cuts BY <1>0, <2>3 DEF DatasetTyped
    <3>2. /\ \A c \in Cuts : pools'[c].content = pools[c].content
          /\ \A c \in Cuts : c # build.cut => pools'[c] = pools[c]
      BY <1>0, <2>3, <3>1 DEF DatasetTyped, Caches
    <3>3. build.pool \in Held /\ pools[build.cut].content = build.pool
      BY <2>3 DEF ContentsHeld, HasPool, DatasetInv, BuildFits
    <3>4. pools[build.cut].content # Nothing BY <3>3, HeldIs DEF Legible
    <3> QED BY <2>1, <2>3, <3>1, <3>2, <3>4 DEF ContentsHeld, HeldOrNot, HasDocs, HasPool
  <2> QED BY <1>18, <2>2, <2>3 DEF ManifestCutOff
<1>15. ASSUME UNCHANGED datasetVars PROVE ContentsHeld'
  BY <1>15 DEF datasetVars, ContentsHeld, HeldOrNot, HasDocs, HasPool
<1> QED
  BY <1>1, <1>2, <1>3, <1>4, <1>5, <1>6, <1>7, <1>8, <1>9, <1>10, <1>11, <1>12, <1>13, <1>14, <1>15,
     <1>16, <1>17, <1>18
     DEF DatasetNext

(* A file is whole if its manifest was written, or is about to be. *)
AllThere ==
  ~torn =>
    /\ docs.manifest \in Origins \/ HasDocs => DocsWhole(docs.content)
    /\ \A c \in Cuts : pools[c].manifest \in Origins \/ (HasPool /\ build.cut = c) =>
         PoolWhole(pools[c].content, c)

(* Before the first run there is no file. *)
LEMMA AllThereStart == DatasetInit => AllThere
<1> SUFFICES ASSUME DatasetInit PROVE AllThere OBVIOUS
<1>1. Nothing \notin Origins BY DatasetAssumption DEF Nothing
<1>2. /\ build.stage = "none" /\ docs.manifest = Nothing
      /\ \A c \in Cuts : pools[c].manifest = Nothing
  BY DEF DatasetInit, NoBuild, NoCache
<1> QED BY <1>1, <1>2 DEF AllThere, HasDocs, HasPool, Stage

(* A step that leaves the files alone and gets no further than them. *)
LEMMA AllThereStays ==
  ASSUME AllThere, UNCHANGED <<docs, pools>>, ~torn' => ~torn,
         \/ build'.stage \in {"none", "docs"}
         \/ HasDocs /\ ~HasPool /\ build'.stage = "pool"
         \/ HasPool /\ build'.cut = build.cut
  PROVE  AllThere'
BY DEF AllThere, HasDocs, HasPool, Stage

(* The inductive step for the files, action by action. *)
LEMMA AllThereKept ==
  ASSUME DatasetInv, ContentsHeld, AllThere, [DatasetNext]_datasetVars
  PROVE  AllThere'
<1> USE DEF Stage
<1>0. DatasetTyped BY DEF DatasetInv
<1>00. Nothing \notin Origins /\ Half \notin Origins BY DatasetAssumption DEF Nothing, Half
<1>1. ASSUME NEW o \in Origins, OriginChanges(o) PROVE AllThere'
  BY <1>1 DEF OriginChanges, CachesStay, AllThere, HasDocs, HasPool
<1>2. ASSUME NEW o \in Origins, NEW cut \in Cuts, NEW plan \in Plans, StartBuild(o, cut, plan)
      PROVE  AllThere'
  <2> PICK active : active = ActiveSubsets(plan) OBVIOUS
  <2>1. build' = [NoBuild EXCEPT !.stage = "docs", !.origin = o, !.cut = cut, !.plan = active]
    BY <1>2 DEF StartBuild
  <2>2. build'.stage = "docs" /\ UNCHANGED <<docs, pools, torn>>
    BY <1>2, <2>1 DEF StartBuild, CachesStay, NoBuild
  <2> QED BY <2>2, AllThereStays
<1>3. ASSUME UseDocs PROVE AllThere'
  <2>1. /\ build'.stage = "pool" /\ docs.manifest \in Origins
        /\ UNCHANGED <<docs, pools, torn>>
    BY <1>0, <1>3 DEF UseDocs, KnownIn, CachesStay, RestStays, DatasetTyped, NoBuild
  <2> QED BY <2>1 DEF AllThere, HasDocs, HasPool
<1>4. ASSUME LoadDocs PROVE AllThere'
  <2> PICK new : new = NewDocs(AllDocs) OBVIOUS
  <2>1. /\ build.stage = "docs" /\ build'.stage = "docs manifest"
        /\ docs' = [docs EXCEPT !.content = new]
        /\ UNCHANGED <<pools, torn>>
    BY <1>0, <1>4 DEF LoadDocs, DocsMissing, RestStays, DatasetTyped, NoBuild
  <2>2. DocsWhole(new) BY <1>0, <2>1, NewDocsAre
  <2>3. docs'.content = new BY <1>0, <2>1 DEF DatasetTyped, Caches
  <2> QED BY <2>1, <2>2, <2>3 DEF AllThere, HasDocs, HasPool
<1>5. ASSUME SaveDocsManifest PROVE AllThere'
  <2>1. /\ build.stage = "docs manifest" /\ build'.stage = "pool"
        /\ docs' = [docs EXCEPT !.manifest = build.origin]
        /\ UNCHANGED <<pools, torn>>
    BY <1>0, <1>5 DEF SaveDocsManifest, RestStays, DatasetTyped, NoBuild
  <2>2. docs'.content = docs.content BY <1>0, <2>1 DEF DatasetTyped, Caches
  <2> QED BY <2>1, <2>2 DEF AllThere, HasDocs, HasPool
<1>6. ASSUME UsePool PROVE AllThere'
  <2>1. /\ build.stage = "pool" /\ build'.stage = "tasks" /\ build'.cut = build.cut
        /\ pools[build.cut].manifest \in Origins
        /\ UNCHANGED <<docs, pools, torn>>
    BY <1>0, <1>6 DEF UsePool, AtPool, PoolKnown, KnownIn, CachesStay, RestStays, DatasetTyped,
       NoBuild
  <2> QED BY <2>1 DEF AllThere, HasDocs, HasPool
<1>7. ASSUME BuildPool PROVE AllThere'
  <2> PICK new : new = NewPool(AllRows) OBVIOUS
  <2>1. /\ build.stage = "pool" /\ build'.stage = "pool manifest" /\ build'.cut = build.cut
        /\ pools' = [pools EXCEPT ![build.cut].content = new]
        /\ UNCHANGED <<docs, torn>>
    BY <1>0, <1>7 DEF BuildPool, AtPool, RestStays, DatasetTyped, NoBuild
  <2>2. build.cut \in Cuts BY <1>0, <2>1 DEF DatasetTyped
  <2>3. /\ pools'[build.cut].content = new
        /\ \A c \in Cuts : c # build.cut => pools'[c] = pools[c]
    BY <1>0, <2>1, <2>2 DEF DatasetTyped, Caches
  <2>4. docs.content = build.docs BY <2>1 DEF DatasetInv, BuildFits, HasDocs
  <2>5. ~torn => PoolWhole(new, build.cut)
    <3> HAVE ~torn
    <3>1. DocsWhole(build.docs) BY <2>1, <2>4 DEF AllThere, HasDocs
    <3> QED BY <1>0, <2>1, <3>1, NewPoolIs
  <2> QED BY <2>1, <2>3, <2>5 DEF AllThere, HasDocs, HasPool
<1>8. ASSUME SavePoolManifest PROVE AllThere'
  <2>1. /\ build.stage = "pool manifest" /\ build'.stage = "tasks" /\ build'.cut = build.cut
        /\ pools' = [pools EXCEPT ![build.cut].manifest = build.origin]
        /\ UNCHANGED <<docs, torn>>
    BY <1>0, <1>8 DEF SavePoolManifest, RestStays, DatasetTyped, NoBuild
  <2>2. build.cut \in Cuts BY <1>0, <2>1 DEF DatasetTyped
  <2>3. /\ \A c \in Cuts : pools'[c].content = pools[c].content
        /\ \A c \in Cuts : c # build.cut => pools'[c] = pools[c]
    BY <1>0, <2>1, <2>2 DEF DatasetTyped, Caches
  <2> QED BY <2>1, <2>2, <2>3 DEF AllThere, HasDocs, HasPool
<1>9. ASSUME DrawTasks PROVE AllThere'
  BY <1>0, <1>9, AllThereStays DEF DrawTasks, CachesStay, RestStays, DatasetTyped, NoBuild, HasPool
<1>10. ASSUME NoQuestion PROVE AllThere'
  BY <1>0, <1>10, AllThereStays
     DEF NoQuestion, CachesStay, RestStays, DatasetTyped, NoBuild, HasPool
<1>11. ASSUME NEW rating \in Ratings, Question(rating) PROVE AllThere'
  BY <1>0, <1>11, AllThereStays
     DEF Question, CachesStay, RestStays, DatasetTyped, NoBuild, HasPool
<1>12. ASSUME SaveDataset PROVE AllThere'
  BY <1>0, <1>12, AllThereStays
     DEF SaveDataset, CachesStay, RestStays, DatasetTyped, NoBuild, HasPool
<1>13. ASSUME GivesUp PROVE AllThere'
  BY <1>13, AllThereStays DEF GivesUp, CachesStay, RestStays, NoBuild
<1>14. ASSUME BuildCrashes PROVE AllThere'
  BY <1>14, AllThereStays DEF BuildCrashes, Breaks, CachesStay, NoBuild
<1>15. ASSUME DocsCutOff PROVE AllThere'
  <2>1. PICK new : docs' = [docs EXCEPT !.content = new]
    BY <1>15 DEF DocsCutOff
  <2>2. /\ build'.stage = "none" /\ UNCHANGED pools
        /\ ~torn' => ~torn /\ docs.manifest = Nothing
    BY <1>15 DEF DocsCutOff, Breaks, NoBuild
  <2>3. docs'.manifest = docs.manifest BY <1>0, <2>1 DEF DatasetTyped, Caches
  <2> QED BY <1>00, <2>2, <2>3 DEF AllThere, HasDocs, HasPool
<1>16. ASSUME PoolCutOff PROVE AllThere'
  <2>1. PICK new : pools' = [pools EXCEPT ![build.cut].content = new]
    BY <1>16 DEF PoolCutOff
  <2>2. /\ build.stage = "pool" /\ build'.stage = "none" /\ UNCHANGED docs
        /\ ~torn' => ~torn /\ pools[build.cut].manifest = Nothing
    BY <1>16 DEF PoolCutOff, AtPool, Breaks, NoBuild
  <2>3. build.cut \in Cuts BY <1>0, <2>2 DEF DatasetTyped
  <2>4. /\ pools'[build.cut].manifest = pools[build.cut].manifest
        /\ \A c \in Cuts : c # build.cut => pools'[c] = pools[c]
    BY <1>0, <2>1, <2>3 DEF DatasetTyped, Caches
  <2> QED BY <1>00, <2>2, <2>4 DEF AllThere, HasDocs, HasPool
<1>17. ASSUME ManifestCutOff PROVE AllThere'
  <2>1. build'.stage = "none" /\ UNCHANGED torn BY <1>17 DEF ManifestCutOff, Breaks, NoBuild
  <2>2. CASE docs' = [docs EXCEPT !.manifest = Half] /\ UNCHANGED pools
    <3>1. docs'.manifest = Half BY <1>0, <2>2 DEF DatasetTyped, Caches
    <3> QED BY <1>00, <2>1, <2>2, <3>1 DEF AllThere, HasDocs, HasPool
  <2>3. CASE /\ build.stage = "pool manifest" /\ UNCHANGED docs
             /\ pools' = [pools EXCEPT ![build.cut].manifest = Half]
    <3>1. build.cut \in Cuts BY <1>0, <2>3 DEF DatasetTyped
    <3>2. /\ pools'[build.cut].manifest = Half
          /\ \A c \in Cuts : c # build.cut => pools'[c] = pools[c]
      BY <1>0, <2>3, <3>1 DEF DatasetTyped, Caches
    <3> QED BY <1>00, <2>1, <2>3, <3>2 DEF AllThere, HasDocs, HasPool
  <2> QED BY <1>17, <2>2, <2>3 DEF ManifestCutOff
<1>18. ASSUME UNCHANGED datasetVars PROVE AllThere'
  BY <1>18 DEF datasetVars, AllThere, HasDocs, HasPool
<1> QED
  BY <1>1, <1>2, <1>3, <1>4, <1>5, <1>6, <1>7, <1>8, <1>9, <1>10, <1>11, <1>12, <1>13, <1>14, <1>15,
     <1>16, <1>17, <1>18
     DEF DatasetNext

-----------------------------------------------------------------------------
(* Of what has been asked and what is still to be asked no two are the     *)
(* same question, unless there were too few items to draw from.            *)
AskedRows(pool) == [task : Tasks(pool), rating : Ratings]

TasksApart(tasks, rows, pool) ==
  /\ tasks \in Seq(Tasks(pool)) /\ Apart(tasks, Differ(pool))
  /\ rows \in Seq(AskedRows(pool))
  /\ \A r, s \in 1..Len(rows) : r < s => <<rows[r].task, rows[s].task>> \in Differ(pool)
  /\ \A r \in 1..Len(rows), t \in 1..Len(tasks) : <<rows[r].task, tasks[t]>> \in Differ(pool)

(* Tail takes the first item away. *)
LEMMA TailIs ==
  ASSUME NEW T, NEW s \in Seq(T), s # <<>>
  PROVE  /\ Len(s) \in Nat \ {0} /\ 1 \in 1..Len(s) /\ Head(s) = s[1] /\ s[1] \in T
         /\ Tail(s) \in Seq(T) /\ Len(Tail(s)) = Len(s) - 1
         /\ \A i \in 1..Len(Tail(s)) : Tail(s)[i] = s[i + 1] /\ i + 1 \in 1..Len(s)
OBVIOUS

(* A task that is not answered is dropped. *)
LEMMA DropApart ==
  ASSUME NEW pool, NEW tasks, NEW rows, TasksApart(tasks, rows, pool), tasks # <<>>
  PROVE  TasksApart(Tail(tasks), rows, pool)
<1>1. PICK T, R : T = Tasks(pool) /\ R = Differ(pool) OBVIOUS
<1>2. /\ tasks \in Seq(T) /\ rows \in Seq(AskedRows(pool))
      /\ \A c, d \in 1..Len(tasks) : c < d => <<tasks[c], tasks[d]>> \in R
      /\ \A r, s \in 1..Len(rows) : r < s => <<rows[r].task, rows[s].task>> \in R
      /\ \A r \in 1..Len(rows), t \in 1..Len(tasks) : <<rows[r].task, tasks[t]>> \in R
  BY <1>1 DEF TasksApart, Apart
<1>3. PICK rest : rest = Tail(tasks) OBVIOUS
<1>4. /\ rest \in Seq(T) /\ Len(rest) \in Nat
      /\ \A i \in 1..Len(rest) : rest[i] = tasks[i + 1] /\ i + 1 \in 1..Len(tasks)
  <2>1. Tail(tasks) \in Seq(T) BY <1>2, TailIs
  <2>2. \A i \in 1..Len(Tail(tasks)) : Tail(tasks)[i] = tasks[i + 1] /\ i + 1 \in 1..Len(tasks)
    BY <1>2, TailIs
  <2>3. rest \in Seq(T) BY <1>3, <2>1
  <2>4. Len(rest) \in Nat BY <2>3
  <2> QED BY <1>3, <2>2, <2>3, <2>4
<1>5. ASSUME NEW c \in 1..Len(rest), NEW d \in 1..Len(rest), c < d
      PROVE  <<rest[c], rest[d]>> \in R
  <2>1. c + 1 < d + 1 BY <1>4, <1>5
  <2> QED BY <1>2, <1>4, <2>1
<1>6. \A r \in 1..Len(rows), t \in 1..Len(rest) : <<rows[r].task, rest[t]>> \in R BY <1>2, <1>4
<1>7. TasksApart(rest, rows, pool) BY <1>1, <1>2, <1>4, <1>5, <1>6 DEF TasksApart, Apart
<1> QED BY <1>3, <1>7

(* One that is answered becomes the last row. *)
LEMMA AskApart ==
  ASSUME NEW pool, NEW tasks, NEW rows, TasksApart(tasks, rows, pool), tasks # <<>>,
         NEW rating \in Ratings
  PROVE  TasksApart(Tail(tasks), Append(rows, [task |-> Head(tasks), rating |-> rating]), pool)
<1>1. PICK T, R, A : T = Tasks(pool) /\ R = Differ(pool) /\ A = AskedRows(pool) OBVIOUS
<1>2. /\ tasks \in Seq(T) /\ rows \in Seq(A)
      /\ \A c, d \in 1..Len(tasks) : c < d => <<tasks[c], tasks[d]>> \in R
      /\ \A r, s \in 1..Len(rows) : r < s => <<rows[r].task, rows[s].task>> \in R
      /\ \A r \in 1..Len(rows), t \in 1..Len(tasks) : <<rows[r].task, tasks[t]>> \in R
  BY <1>1 DEF TasksApart, Apart
<1>3. PICK rest, first : rest = Tail(tasks) /\ first = Head(tasks) OBVIOUS
<1>4. TasksApart(rest, rows, pool) BY <1>3, DropApart
<1>5. first = tasks[1] /\ first \in T /\ 1 \in 1..Len(tasks) BY <1>2, <1>3, TailIs
<1>6. \A i \in 1..Len(rest) : rest[i] = tasks[i + 1] /\ i + 1 \in 1..Len(tasks)
  BY <1>2, <1>3, TailIs
<1>7. PICK row : row = [task |-> first, rating |-> rating] OBVIOUS
<1>8. row \in A /\ row.task = first BY <1>1, <1>5, <1>7 DEF AskedRows
<1>9. PICK all : all = Append(rows, row) OBVIOUS
<1>10. /\ all \in Seq(A) /\ Len(all) = Len(rows) + 1 /\ Len(rows) \in Nat
       /\ \A i \in 1..Len(rows) : all[i] = rows[i]
       /\ all[Len(rows) + 1] = row
  BY <1>2, <1>8, <1>9
<1>11. \A r \in 1..Len(all) : r \in 1..Len(rows) \/ r = Len(rows) + 1 BY <1>10
<1>12. ASSUME NEW r \in 1..Len(all), NEW s \in 1..Len(all), r < s
       PROVE  <<all[r].task, all[s].task>> \in R
  <2>1. r \in 1..Len(rows) /\ all[r] = rows[r] BY <1>10, <1>11, <1>12
  <2>2. CASE s \in 1..Len(rows)
    <3>1. all[s] = rows[s] BY <1>10, <2>2
    <3> QED BY <1>2, <1>12, <2>1, <2>2, <3>1
  <2>3. CASE s = Len(rows) + 1
    <3>1. all[s].task = tasks[1] BY <1>5, <1>8, <1>10, <2>3
    <3> QED BY <1>2, <1>5, <2>1, <3>1
  <2> QED BY <1>11, <2>2, <2>3
<1>13. ASSUME NEW r \in 1..Len(all), NEW t \in 1..Len(rest)
       PROVE  <<all[r].task, rest[t]>> \in R
  <2>1. rest[t] = tasks[t + 1] /\ t + 1 \in 1..Len(tasks) BY <1>6
  <2>2. CASE r \in 1..Len(rows)
    <3>1. all[r] = rows[r] BY <1>10, <2>2
    <3> QED BY <1>2, <2>1, <2>2, <3>1
  <2>3. CASE r = Len(rows) + 1
    <3>1. all[r].task = tasks[1] BY <1>5, <1>8, <1>10, <2>3
    <3>2. t \in Nat /\ 1 < t + 1
      <4>1. rest \in Seq(T) BY <1>1, <1>4 DEF TasksApart
      <4> QED BY <4>1
    <3> QED BY <1>2, <1>5, <2>1, <3>1, <3>2
  <2> QED BY <1>11, <2>2, <2>3
<1>14. TasksApart(rest, all, pool)
  <2>1. rest \in Seq(T) /\ Apart(rest, R) BY <1>1, <1>4 DEF TasksApart
  <2> QED BY <1>1, <1>10, <1>12, <1>13, <2>1 DEF TasksApart
<1> QED BY <1>3, <1>7, <1>9, <1>14

(* The rows that are kept are among them. *)
LEMMA KeepApart ==
  ASSUME NEW pool, NEW rows, TasksApart(<<>>, rows, pool), NEW some \in SUBSET DOMAIN rows
  PROVE  TasksApart(<<>>, Picked(rows, some), pool)
<1>1. PICK T, R, A : T = Tasks(pool) /\ R = Differ(pool) /\ A = AskedRows(pool) OBVIOUS
<1>2. /\ rows \in Seq(A) /\ Len(<<>>) = 0 /\ <<>> \in Seq(T) /\ Apart(<<>>, R)
      /\ \A r, s \in 1..Len(rows) : r < s => <<rows[r].task, rows[s].task>> \in R
  BY <1>1 DEF TasksApart
<1>3. PICK kept, order, n : /\ kept = Picked(rows, some) /\ order = Ascending(some)
                            /\ n = Cardinality(some)
  OBVIOUS
<1>4. /\ kept \in Seq(A) /\ Len(kept) = n
      /\ order \in [1..n -> some]
      /\ \A k \in 1..n : kept[k] = rows[order[k]]
      /\ \A m, k \in 1..n : m < k => order[m] < order[k]
  BY <1>2, <1>3, PickedIs
<1>5. \A k \in 1..n : order[k] \in 1..Len(rows)
  <2>1. DOMAIN rows = 1..Len(rows) BY <1>2
  <2> QED BY <1>4, <2>1
<1>6. \A r, s \in 1..Len(kept) : r < s => <<kept[r].task, kept[s].task>> \in R
  BY <1>2, <1>4, <1>5
<1>7. TasksApart(<<>>, kept, pool) BY <1>1, <1>2, <1>4, <1>6 DEF TasksApart
<1> QED BY <1>3, <1>7

TasksFit ==
  /\ ~Stage("none") => PlanWell(build.plan)
  /\ ~Stage("ask") /\ ~Stage("done") => build.tasks = <<>> /\ build.rows = <<>>
  /\ Stage("ask") \/ Stage("done") => TasksApart(build.tasks, build.rows, Chunks)

(* No run is under way. *)
LEMMA TasksStart == DatasetInit => TasksFit
BY DEF DatasetInit, TasksFit, NoBuild, Stage

(* The documents and the pool are got ready without a thought of tasks.    *)
LEMMA TasksWait ==
  ASSUME TasksFit, ~Stage("none"), ~Stage("ask"), ~Stage("done"),
         build'.stage \notin {"none", "ask", "done"},
         build'.plan = build.plan, build'.tasks = build.tasks, build'.rows = build.rows
  PROVE  TasksFit'
BY DEF TasksFit, Stage

(* A run that draws tasks or asks them keeps its plan and its pool. *)
LEMMA TasksGoOn ==
  ASSUME TasksFit, ~Stage("none"), build'.stage \in {"ask", "done"},
         build'.plan = build.plan, build'.pool = build.pool, build'.cut = build.cut,
         TasksApart(build'.tasks, build'.rows, Chunks)
  PROVE  TasksFit'
<1>1. Chunks' = Chunks BY DEF Chunks
<1>2. PICK pool : pool = Chunks OBVIOUS
<1>3. TasksApart(build'.tasks, build'.rows, pool) BY <1>2
<1>4. Chunks' = pool BY <1>1, <1>2
<1> HIDE DEF Chunks
<1>5. TasksApart(build.tasks, build.rows, Chunks)' BY <1>3, <1>4
<1> QED BY <1>5 DEF TasksFit, Stage

(* The inductive step for the questions, action by action. *)
LEMMA TasksKept ==
  ASSUME DatasetInv, ContentsHeld, TasksFit, [DatasetNext]_datasetVars
  PROVE  TasksFit'
<1> USE DEF Stage
<1>0. DatasetTyped BY DEF DatasetInv
<1>1. ASSUME NEW o \in Origins, OriginChanges(o) PROVE TasksFit'
  <2>1. build' = build BY <1>1 DEF OriginChanges
  <2>2. Chunks' = Chunks BY <2>1 DEF Chunks
  <2> QED BY <2>1, <2>2 DEF TasksFit
<1>2. ASSUME NEW o \in Origins, NEW cut \in Cuts, NEW plan \in Plans, StartBuild(o, cut, plan)
      PROVE  TasksFit'
  <2> PICK active : active = ActiveSubsets(plan) OBVIOUS
  <2>1. build' = [NoBuild EXCEPT !.stage = "docs", !.origin = o, !.cut = cut, !.plan = active]
    BY <1>2 DEF StartBuild
  <2>2. build'.stage = "docs" /\ build'.plan = active /\ build'.tasks = <<>> /\ build'.rows = <<>>
    BY <2>1 DEF NoBuild
  <2>3. PlanWell(active) BY ActiveIs
  <2> QED BY <2>2, <2>3 DEF TasksFit
<1>3. ASSUME UseDocs PROVE TasksFit'
  BY <1>0, <1>3, TasksWait DEF UseDocs, DatasetTyped, NoBuild
<1>4. ASSUME LoadDocs PROVE TasksFit'
  BY <1>0, <1>4, TasksWait DEF LoadDocs, DocsMissing, DatasetTyped, NoBuild
<1>5. ASSUME SaveDocsManifest PROVE TasksFit'
  BY <1>0, <1>5, TasksWait DEF SaveDocsManifest, DatasetTyped, NoBuild
<1>6. ASSUME UsePool PROVE TasksFit'
  BY <1>0, <1>6, TasksWait DEF UsePool, AtPool, DatasetTyped, NoBuild
<1>7. ASSUME BuildPool PROVE TasksFit'
  BY <1>0, <1>7, TasksWait DEF BuildPool, AtPool, DatasetTyped, NoBuild
<1>8. ASSUME SavePoolManifest PROVE TasksFit'
  BY <1>0, <1>8, TasksWait DEF SavePoolManifest, DatasetTyped, NoBuild
<1>9. ASSUME DrawTasks PROVE TasksFit'
  <2>1. PICK pool : pool = Chunks OBVIOUS
  <2>2. PICK tasks \in TaskLists(build.plan, pool) :
          build' = [build EXCEPT !.stage = "ask", !.tasks = tasks]
    BY <1>9, <2>1 DEF DrawTasks
  <2>3. build.stage = "tasks" BY <1>9 DEF DrawTasks
  <2>4. build.pool \in Held /\ build.cut \in Cuts
    BY <1>0, <2>3 DEF ContentsHeld, HasPool, DatasetTyped
  <2>5. pool \in Seq(ChunkRows) BY <2>1, <2>4, PoolIs DEF Chunks
  <2>6. PlanWell(build.plan) /\ build.rows = <<>> BY <2>3 DEF TasksFit
  <2>7. tasks \in Seq(Tasks(pool)) /\ Apart(tasks, Differ(pool)) BY <2>2, <2>5, <2>6, TaskListsAre
  <2>8. TasksApart(tasks, <<>>, pool)
    <3>1. Len(<<>>) = 0 OBVIOUS
    <3>2. <<>> \in Seq(AskedRows(pool)) OBVIOUS
    <3> QED BY <2>7, <3>1, <3>2 DEF TasksApart
  <2>9. /\ build'.stage = "ask" /\ build'.tasks = tasks /\ build'.rows = build.rows
        /\ build'.plan = build.plan /\ build'.pool = build.pool /\ build'.cut = build.cut
    BY <1>0, <2>2 DEF DatasetTyped, NoBuild
  <2> QED BY <2>1, <2>3, <2>6, <2>8, <2>9, TasksGoOn
<1>10. ASSUME NoQuestion PROVE TasksFit'
  <2>1. build.stage = "ask" /\ build.tasks # <<>>
        /\ build' = [build EXCEPT !.tasks = Tail(@)]
    BY <1>10 DEF NoQuestion
  <2>2. /\ build'.stage = "ask" /\ build'.tasks = Tail(build.tasks) /\ build'.rows = build.rows
        /\ build'.plan = build.plan /\ build'.pool = build.pool /\ build'.cut = build.cut
    BY <1>0, <2>1 DEF DatasetTyped, NoBuild
  <2>3. TasksApart(build.tasks, build.rows, Chunks) BY <2>1 DEF TasksFit
  <2>4. TasksApart(build'.tasks, build'.rows, Chunks) BY <2>1, <2>2, <2>3, DropApart
  <2> QED BY <2>1, <2>2, <2>4, TasksGoOn
<1>11. ASSUME NEW rating \in Ratings, Question(rating) PROVE TasksFit'
  <2>1. PICK row : row = [task |-> Head(build.tasks), rating |-> rating] OBVIOUS
  <2>2. build.stage = "ask" /\ build.tasks # <<>>
        /\ build' = [build EXCEPT !.tasks = Tail(@), !.rows = Append(@, row)]
    BY <1>11, <2>1 DEF Question
  <2>3. /\ build'.stage = "ask" /\ build'.tasks = Tail(build.tasks)
        /\ build'.rows = Append(build.rows, row)
        /\ build'.plan = build.plan /\ build'.pool = build.pool /\ build'.cut = build.cut
    BY <1>0, <2>2 DEF DatasetTyped, NoBuild
  <2>4. TasksApart(build.tasks, build.rows, Chunks) BY <2>2 DEF TasksFit
  <2>5. TasksApart(Tail(build.tasks), Append(build.rows, row), Chunks)
    BY <2>1, <2>2, <2>4, AskApart
  <2>6. TasksApart(build'.tasks, build'.rows, Chunks) BY <2>3, <2>5
  <2> QED BY <2>2, <2>3, <2>6, TasksGoOn
<1>12. ASSUME SaveDataset PROVE TasksFit'
  <2>1. PICK rows : rows = build.rows OBVIOUS
  <2>2. PICK some : some = {r \in DOMAIN rows : Kept(rows[r])} OBVIOUS
  <2>3. PICK kept : kept = Picked(rows, some) OBVIOUS
  <2>4. build.stage = "ask" /\ build.tasks = <<>>
        /\ build' = [build EXCEPT !.stage = "done", !.rows = kept]
    BY <1>12, <2>1, <2>2, <2>3 DEF SaveDataset
  <2>5. /\ build'.stage = "done" /\ build'.tasks = <<>> /\ build'.rows = kept
        /\ build'.plan = build.plan /\ build'.pool = build.pool /\ build'.cut = build.cut
    BY <1>0, <2>4 DEF DatasetTyped, NoBuild
  <2>6. TasksApart(<<>>, rows, Chunks) BY <2>1, <2>4 DEF TasksFit
  <2>7. some \in SUBSET DOMAIN rows BY <2>2
  <2>8. TasksApart(<<>>, kept, Chunks) BY <2>3, <2>6, <2>7, KeepApart
  <2> QED BY <2>4, <2>5, <2>8, TasksGoOn
<1>13. ASSUME build' = NoBuild PROVE TasksFit'
  BY <1>13 DEF TasksFit, NoBuild
<1>14. ASSUME UNCHANGED datasetVars PROVE TasksFit'
  <2>1. build' = build BY <1>14 DEF datasetVars
  <2>2. Chunks' = Chunks BY <2>1 DEF Chunks
  <2> QED BY <2>1, <2>2 DEF TasksFit
<1>15. GivesUp => build' = NoBuild BY DEF GivesUp
<1>16. BuildCrashes \/ DocsCutOff \/ PoolCutOff \/ ManifestCutOff => build' = NoBuild
  BY DEF BuildCrashes, DocsCutOff, PoolCutOff, ManifestCutOff, Breaks
<1> QED
  BY <1>1, <1>2, <1>3, <1>4, <1>5, <1>6, <1>7, <1>8, <1>9, <1>10, <1>11, <1>12, <1>13, <1>14,
     <1>15, <1>16
     DEF DatasetNext

-----------------------------------------------------------------------------
(* The inductive invariant.  DatasetIsWhatWasAsked is not inductive: it    *)
(* says nothing of a run before it is finished.                            *)
DatasetFits == DatasetInv /\ ContentsHeld /\ AllThere /\ TasksFit

(* It holds of every state of every behaviour. *)
LEMMA DatasetAlways == DatasetSpec => []DatasetFits
<1>1. DatasetInit => DatasetFits BY DatasetStart, ContentsStart, AllThereStart, TasksStart DEF DatasetFits
<1>2. DatasetFits /\ [DatasetNext]_datasetVars => DatasetFits'
  BY DatasetStep, ContentsKept, AllThereKept, TasksKept DEF DatasetFits
<1> QED BY <1>1, <1>2, PTL DEF DatasetSpec

(* A pair are neighbours among the chunks of their source. *)
LEMMA PairsAre ==
  ASSUME NEW pool \in Seq(ChunkRows), NEW pair \in Pairs(pool)
  PROVE  Neighbours(pool[Head(pair)], pool[Last(pair)], pool)
<1> DEFINE Ahead(a, b) == /\ pool[a].source = pool[b].source
                          /\ \/ pool[a].start < pool[b].start
                             \/ pool[a].start = pool[b].start /\ a < b
<1>1. PICK a \in DOMAIN pool, b \in DOMAIN pool :
        /\ pair = <<a, b>> /\ Ahead(a, b) /\ pool[a].start # pool[b].start
        /\ ~\E c \in DOMAIN pool : Ahead(a, c) /\ Ahead(c, b)
  BY DEF Pairs
<1>2. Head(pair) = a /\ Last(pair) = b
  <2>1. Head(<<a, b>>) = a /\ Len(<<a, b>>) = 2 /\ <<a, b>>[2] = b OBVIOUS
  <2>2. Last(<<a, b>>) = b BY <2>1 DEF Last
  <2> QED BY <1>1, <2>1, <2>2
<1>3. \A i \in DOMAIN pool : pool[i].start \in Nat
  <2> TAKE i \in DOMAIN pool
  <2>1. pool[i] \in ChunkRows OBVIOUS
  <2> QED BY <2>1 DEF ChunkRows
<1>4. pool[a].source = pool[b].source /\ pool[a].start < pool[b].start BY <1>1
<1>5. ASSUME NEW i \in DOMAIN pool, pool[i].source = pool[a].source,
             pool[i].start \in (pool[a].start + 1)..(pool[b].start - 1)
      PROVE  FALSE
  <2>1. pool[a].start < pool[i].start /\ pool[i].start < pool[b].start BY <1>3, <1>5
  <2>2. Ahead(a, i) /\ Ahead(i, b) BY <1>4, <1>5, <2>1
  <2> QED BY <1>1, <2>2
<1>6. Neighbours(pool[a], pool[b], pool) BY <1>4, <1>5 DEF Neighbours
<1> QED BY <1>2, <1>6

(* Rows that are apart were asked well. *)
LEMMA RowsAskedWell ==
  ASSUME NEW pool \in Seq(ChunkRows), NEW tasks, NEW rows, TasksApart(tasks, rows, pool)
  PROVE  AskedWell(rows, pool)
<1>1. rows \in Seq(AskedRows(pool)) /\ DOMAIN rows = 1..Len(rows) /\ Len(rows) \in Nat
  BY DEF TasksApart
<1>2. \A r \in DOMAIN rows : rows[r].task \in Tasks(pool)
  <2> TAKE r \in DOMAIN rows
  <2>1. rows[r] \in AskedRows(pool) BY <1>1
  <2> QED BY <2>1 DEF AskedRows
<1>3. ASSUME NEW r \in DOMAIN rows, NEW s \in DOMAIN rows, rows[r].task = rows[s].task, r # s
      PROVE  Cardinality(Items(rows[r].task.subset, pool)) < Total
  <2>1. r < s \/ s < r BY <1>1, <1>3
  <2>2. \/ <<rows[r].task, rows[s].task>> \in Differ(pool)
        \/ <<rows[s].task, rows[r].task>> \in Differ(pool)
    BY <1>1, <2>1 DEF TasksApart
  <2> QED BY <1>2, <1>3, <2>2, DifferIs
<1>4. ASSUME NEW r \in DOMAIN rows, rows[r].task.subset.pairs
      PROVE  Neighbours(pool[Head(rows[r].task.chunks)], pool[Last(rows[r].task.chunks)], pool)
  <2>1. rows[r].task.chunks \in Items(rows[r].task.subset, pool) BY <1>2 DEF Tasks
  <2>2. rows[r].task.chunks \in Pairs(pool) BY <1>4, <2>1 DEF Items
  <2> QED BY <2>2, PairsAre
<1> QED BY <1>3, <1>4 DEF AskedWell

(* It is strong enough. *)
LEMMA DatasetFitsImplies == DatasetFits => DatasetIsWhatWasAsked
<1> SUFFICES ASSUME DatasetFits PROVE DatasetIsWhatWasAsked OBVIOUS
<1>1. DatasetInv /\ ContentsHeld /\ AllThere /\ TasksFit BY DEF DatasetFits
<1>2. ASSUME Stage("done"), ~torn
      PROVE  /\ build.docs[1] = build.origin /\ build.pool[1] = build.origin
             /\ build.pool[2] <= build.docs[2] /\ build.docs[2] <= version[build.origin]
             /\ DocumentsOf(build.docs) = TextsOf(build.origin, build.docs[2])
             /\ DocumentsOf(build.pool) = TextsOf(build.origin, build.pool[2])
             /\ Chunks = WholePool(build.pool, build.cut)
  <2>1. build.cut \in Cuts BY <1>1, <1>2 DEF DatasetInv, DatasetTyped, Stage
  <2>2. /\ build.docs = docs.content /\ Legible(build.docs) /\ build.docs[1] = build.origin
        /\ build.pool = pools[build.cut].content /\ Legible(build.pool)
        /\ build.pool[1] = build.origin
    BY <1>1, <1>2 DEF DatasetInv, BuildFits, HasDocs, HasPool
  <2>3. build.pool[2] <= build.docs[2] /\ build.docs[2] <= version[build.origin]
    BY <1>1, <2>1, <2>2 DEF DatasetInv, NothingAheadOfOrigin
  <2>4. DocsWhole(build.docs) /\ PoolWhole(build.pool, build.cut)
    BY <1>1, <1>2, <2>1, <2>2 DEF AllThere, HasDocs, HasPool
  <2> QED BY <2>2, <2>3, <2>4 DEF DocsWhole, PoolWhole, Chunks
<1>3. \A text \in SplitTexts, cut \in Cuts : SplitsWell(text, Split(text, cut), cut.size)
  <2> TAKE text \in SplitTexts, cut \in Cuts
  <2>1. text \in Seq(STRING) /\ CutIs(cut) BY DatasetAssumption DEF CutIs
  <2> QED BY <2>1, SplitCorrect
<1>4. \A ratios \in SplitRatios, total \in 1..5 :
        SharesWell(ratios, Allocation(ratios, total), total)
  <2> TAKE ratios \in SplitRatios, total \in 1..5
  <2>1. ratios \in Seq(Nat \ {0}) /\ ratios # <<>> BY DatasetAssumption
  <2>2. Len(ratios) # 0 /\ total \in Nat BY <2>1
  <2> QED BY <2>1, <2>2, AllocationIs
<1>5. ASSUME Stage("done")
      PROVE  StandsIn(Chunks, DocumentsOf(build.pool)) /\ AskedWell(build.rows, Chunks)
  <2>1. build.pool \in Held /\ build.cut \in Cuts
    BY <1>1, <1>5 DEF ContentsHeld, HasPool, DatasetInv, DatasetTyped, Stage
  <2>2. Chunks \in Seq(ChunkRows) /\ StandsIn(Chunks, DocumentsOf(build.pool))
    BY <2>1, PoolIs DEF Chunks
  <2>3. TasksApart(build.tasks, build.rows, Chunks) BY <1>1, <1>5 DEF TasksFit
  <2> QED BY <2>2, <2>3, RowsAskedWell
<1> QED BY <1>2, <1>3, <1>4, <1>5 DEF DatasetIsWhatWasAsked, ComesFromOrigin

(* A dataset that is finished was made from the origin asked for and from  *)
(* all of it (unless a run was cut off with its file beside the manifest   *)
(* of another), its chunks stand in the text where they say, a pair are    *)
(* neighbours and no question is there twice without need; the splitter    *)
(* and the allocation are right on every input: for every set of origins,  *)
(* settings and plans, every change of the origins and every number of     *)
(* runs and crashes, in the middle of a file or between two.               *)
THEOREM DatasetCorrect == DatasetSpec => []DatasetIsWhatWasAsked
BY DatasetAlways, DatasetFitsImplies, PTL
===============================================================================
