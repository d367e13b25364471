------------------------- MODULE CrossChain_proofs -------------------------
(***************************************************************************)
(* Proofs about transfers end to end, for any accounts, amounts, word size *)
(* and number of messages, whatever the order of time-outs and retries.    *)
(* RelayInv says what A and B agree on, and with it the money is conserved *)
(* by every step: the sums of Conservation are over any finite sets, so    *)
(* the first part of this module is about sums.                            *)
(***************************************************************************)
EXTENDS CrossChain, Relay_proofs, FiniteSetTheorems

(* A refund is paid in the step that calls the rollback. *)
RefundsCalled == \A i \in refunded : called[Pair][i] = <<"rollback">>

IInv == TypeOK /\ RelayInv /\ RefundsCalled /\ Conservation

-----------------------------------------------------------------------------

(* Sums over finite sets.  SumFunction of the community modules takes the  *)
(* elements in an order that is not told; these lemmas show that the order *)
(* does not matter.                                                        *)
Some(S)    == CHOOSE x \in S : TRUE
Sum(f, S)  == SumFunctionOnSet(f, S)

(* g holds the sums of f over the subsets of S. *)
Sums(g, f, S) ==
  \A s \in SUBSET S : g[s] = IF s = {} THEN 0 ELSE f[Some(s)] + g[s \ {Some(s)}]

SumsOnly(g, f, S) ==
  g = [s \in SUBSET S |-> IF s = {} THEN 0 ELSE f[Some(s)] + g[s \ {Some(s)}]]

(* Any non-empty set has the element chosen. *)
LEMMA SomeIn == ASSUME NEW S, S # {} PROVE Some(S) \in S
  BY DEF Some

(* The subsets of a finite set, and what is left without an element. *)
LEMMA Smaller ==
  ASSUME NEW S, IsFiniteSet(S), NEW s \in SUBSET S
  PROVE  /\ IsFiniteSet(s) /\ Cardinality(s) \in Nat
         /\ Cardinality(s) = 0 <=> s = {}
         /\ \A x \in s : Cardinality(s \ {x}) = Cardinality(s) - 1
  <1>1. IsFiniteSet(s)
    BY FS_Subset
  <1> QED BY <1>1, FS_CardinalityType, FS_EmptySet, FS_RemoveElement

(* The sums exist: they are built by the size of the subset. *)
LEMMA SumsExist ==
  ASSUME NEW f, NEW S, IsFiniteSet(S)
  PROVE  \E g : SumsOnly(g, f, S)
  <1> DEFINE body(g, s) == IF s = {} THEN 0 ELSE f[Some(s)] + g[s \ {Some(s)}]
             upTo(n) == \E g : \A s \in SUBSET S : Cardinality(s) <= n => g[s] = body(g, s)
             T == {n \in Nat : ~upTo(n)}
  <1>1. upTo(0)
    <2> DEFINE g == [s \in SUBSET S |-> 0]
    <2>1. ASSUME NEW s \in SUBSET S, Cardinality(s) <= 0 PROVE g[s] = body(g, s)
      <3>1. s = {}
        BY <2>1, Smaller
      <3> QED BY <3>1
    <2> QED BY <2>1
  <1>2. ASSUME NEW n \in Nat, upTo(n) PROVE upTo(n + 1)
    <2>1. PICK g : \A s \in SUBSET S : Cardinality(s) <= n => g[s] = body(g, s)
      BY <1>2
    <2> DEFINE h == [s \in SUBSET S |-> IF Cardinality(s) <= n THEN g[s] ELSE body(g, s)]
    <2>2. ASSUME NEW s \in SUBSET S, Cardinality(s) <= n + 1 PROVE h[s] = body(h, s)
      <3>1. CASE s = {}
        <4>1. Cardinality(s) <= n
          BY <3>1, Smaller
        <4> QED BY <2>1, <3>1, <4>1
      <3>2. CASE s # {}
        <4> DEFINE r == s \ {Some(s)}
        <4>1. r \in SUBSET S /\ Cardinality(r) <= n
          BY <2>2, <3>2, SomeIn, Smaller
        <4>2. h[r] = g[r]
          BY <4>1
        <4>3. h[s] = body(g, s)
          BY <2>1
        <4> QED BY <3>2, <4>2, <4>3
      <3> QED BY <3>1, <3>2
    <2> HIDE DEF h, body
    <2> QED BY <2>2
  <1>3. ASSUME NEW n \in Nat PROVE upTo(n)
    <2> SUFFICES ASSUME ~upTo(n) PROVE FALSE
      OBVIOUS
    <2> HIDE DEF upTo
    <2>1. PICK m \in T : \A k \in T : ~(k < m)
      <3>1. T \subseteq Nat /\ T # {}
        OBVIOUS
      <3> HIDE DEF T
      <3> QED BY <3>1, Least
    <2>2. m # 0
      BY <1>1
    <2>3. m - 1 \in Nat /\ m - 1 < m
      BY <2>2
    <2>4. upTo(m - 1)
      BY <2>1, <2>3
    <2> QED BY <1>2, <2>3, <2>4
  <1>4. PICK g : \A s \in SUBSET S : Cardinality(s) <= Cardinality(S) => g[s] = body(g, s)
    BY <1>3, Smaller
  <1>5. \A s \in SUBSET S : Cardinality(s) <= Cardinality(S)
    BY FS_Subset
  <1> DEFINE h == [s \in SUBSET S |-> g[s]]
  <1>6. h = [s \in SUBSET S |-> body(h, s)]
    <2>1. ASSUME NEW s \in SUBSET S PROVE g[s] = body(h, s)
      <3>1. s \ {Some(s)} \in SUBSET S
        OBVIOUS
      <3> QED BY <1>4, <1>5, <3>1
    <2> HIDE DEF body
    <2> QED BY <2>1
  <1> HIDE DEF h
  <1> QED BY <1>6 DEF SumsOnly

(* Sum is what any function that holds the sums says. *)
LEMMA SumIsSums ==
  ASSUME NEW f, NEW S, IsFiniteSet(S)
  PROVE  \E g : Sums(g, f, S) /\ g[S] = Sum(f, S)
  <1> DEFINE it == CHOOSE g : SumsOnly(g, f, S)
  <1>1. Sum(f, S) = it[S]
    BY DEF Sum, SumFunctionOnSet, FoldFunctionOnSet, MapThenFoldSet, Some, SumsOnly
  <1>2. SumsOnly(it, f, S)
    BY SumsExist
  <1> HIDE DEF it
  <1>3. Sums(it, f, S)
    BY <1>2 DEF Sums, SumsOnly
  <1> QED BY <1>1, <1>3

(* Two functions that hold the sums agree. *)
LEMMA SumsUnique ==
  ASSUME NEW f, NEW S, IsFiniteSet(S), NEW g, NEW h, Sums(g, f, S), Sums(h, f, S)
  PROVE  g[S] = h[S]
  <1> DEFINE T == {n \in Nat : \E s \in SUBSET S : Cardinality(s) = n /\ g[s] # h[s]}
  <1> SUFFICES ASSUME g[S] # h[S] PROVE FALSE
    OBVIOUS
  <1>1. T \subseteq Nat /\ Cardinality(S) \in T
    BY Smaller
  <1>2. PICK n \in T : \A m \in T : ~(m < n)
    <2> HIDE DEF T
    <2> QED BY <1>1, Least
  <1>3. PICK s \in SUBSET S : Cardinality(s) = n /\ g[s] # h[s]
    BY <1>2
  <1>4. s # {}
    BY <1>3 DEF Sums
  <1> DEFINE r == s \ {Some(s)}
  <1>5. r \in SUBSET S /\ Cardinality(r) = n - 1 /\ Cardinality(r) \in Nat
    BY <1>3, <1>4, SomeIn, Smaller
  <1>6. g[r] # h[r]
    BY <1>3, <1>4 DEF Sums
  <1>7. n - 1 \in T /\ n - 1 < n
    BY <1>5, <1>6
  <1> QED BY <1>2, <1>7

(* To find a sum it is enough to guess the sums of all subsets. *)
LEMMA SumOf ==
  ASSUME NEW f, NEW S, IsFiniteSet(S), NEW g, Sums(g, f, S) PROVE Sum(f, S) = g[S]
  BY SumIsSums, SumsUnique

(* One element at a time, in the order nobody told. *)
LEMMA SumStep ==
  ASSUME NEW f, NEW S, IsFiniteSet(S)
  PROVE  Sum(f, S) = IF S = {} THEN 0 ELSE f[Some(S)] + Sum(f, S \ {Some(S)})
  <1>1. PICK g : Sums(g, f, S) /\ g[S] = Sum(f, S)
    BY SumIsSums
  <1>2. CASE S = {}
    BY <1>1, <1>2 DEF Sums
  <1>3. CASE S # {}
    <2> DEFINE R == S \ {Some(S)}
    <2>1. IsFiniteSet(R) /\ Sums(g, f, R)
      <3>1. \A s \in SUBSET R : s \in SUBSET S
        OBVIOUS
      <3> QED BY <1>1, <3>1, Smaller DEF Sums
    <2>2. Sum(f, R) = g[R]
      BY <2>1, SumOf
    <2>3. g[S] = f[Some(S)] + g[R]
      BY <1>1, <1>3 DEF Sums
    <2> QED BY <1>1, <1>3, <2>2, <2>3
  <1> QED BY <1>2, <1>3

(* Any element can be the first, and a sum of integers is one. *)
LEMMA SumAny ==
  ASSUME NEW S, IsFiniteSet(S), NEW f, \A x \in S : f[x] \in Int
  PROVE  /\ Sum(f, S) \in Int
         /\ \A x \in S : Sum(f, S) = f[x] + Sum(f, S \ {x})
  <1> DEFINE ok(s) == /\ Sum(f, s) \in Int
                      /\ \A x \in s : Sum(f, s) = f[x] + Sum(f, s \ {x})
             T == {n \in Nat : \E s \in SUBSET S : Cardinality(s) = n /\ ~ok(s)}
  <1> SUFFICES ASSUME ~ok(S) PROVE FALSE
    OBVIOUS
  <1>1. T \subseteq Nat /\ Cardinality(S) \in T
    <2> HIDE DEF ok
    <2> QED BY Smaller
  <1>2. PICK n \in T : \A m \in T : ~(m < n)
    <2> HIDE DEF T
    <2> QED BY <1>1, Least
  <1>3. PICK s \in SUBSET S : Cardinality(s) = n /\ ~ok(s)
    <2> HIDE DEF ok
    <2> QED BY <1>2
  <1>4. ASSUME NEW r \in SUBSET S, Cardinality(r) < n PROVE ok(r)
    <2>1. Cardinality(r) \in Nat /\ Cardinality(r) \notin T
      BY <1>2, <1>4, Smaller
    <2> HIDE DEF ok
    <2> QED BY <2>1
  <1>5. IsFiniteSet(s) /\ n \in Nat
    BY <1>3, Smaller
  <1>6. s # {}
    <2>1. Sum(f, {}) = 0
      BY FS_EmptySet, SumStep
    <2> QED BY <1>3, <2>1
  <1> DEFINE c == Some(s)
  <1>7. c \in s /\ c \in S
    BY <1>6, SomeIn
  <1>8. Sum(f, s) = f[c] + Sum(f, s \ {c})
    BY <1>5, <1>6, SumStep
  <1>9. \A x \in s : ok(s \ {x})
    <2>1. \A x \in s : s \ {x} \in SUBSET S /\ Cardinality(s \ {x}) < n
      BY <1>3, <1>5, Smaller
    <2> HIDE DEF ok
    <2> QED BY <1>4, <2>1
  <1>10. Sum(f, s) \in Int
    BY <1>7, <1>8, <1>9
  <1>11. ASSUME NEW x \in s PROVE Sum(f, s) = f[x] + Sum(f, s \ {x})
    <2>1. CASE x = c
      BY <1>8, <2>1
    <2>2. CASE x # c
      <3> DEFINE r == (s \ {c}) \ {x}
      <3>1. Sum(f, s \ {c}) = f[x] + Sum(f, r)
        BY <1>7, <1>9, <2>2
      <3>2. Sum(f, s \ {x}) = f[c] + Sum(f, r)
        <4>1. (s \ {x}) \ {c} = r
          OBVIOUS
        <4>2. c \in s \ {x}
          BY <1>7, <2>2
        <4> QED BY <1>9, <4>1, <4>2
      <3>3. Sum(f, r) \in Int
        <4>1. r \in SUBSET S /\ Cardinality(r) < n
          <5>1. s \ {c} \in SUBSET S /\ x \in s \ {c}
            BY <2>2
          <5>2. Cardinality(r) = Cardinality(s \ {c}) - 1 /\ Cardinality(s \ {c}) = n - 1
            BY <1>3, <1>7, <5>1, Smaller
          <5> QED BY <1>5, <5>2
        <4> QED BY <1>4, <4>1
      <3>4. f[c] \in Int /\ f[x] \in Int
        BY <1>7
      <3> HIDE DEF r, c
      <3> QED BY <1>8, <3>1, <3>2, <3>3, <3>4
    <2> QED BY <2>1, <2>2
  <1> QED BY <1>3, <1>10, <1>11

(* A sum depends on the values it adds, and on nothing else. *)
LEMMA SumSame ==
  ASSUME NEW S, IsFiniteSet(S), NEW f, NEW g, \A x \in S : f[x] = g[x]
  PROVE  Sum(f, S) = Sum(g, S)
  <1>1. PICK h : Sums(h, f, S) /\ h[S] = Sum(f, S)
    BY SumIsSums
  <1>2. Sums(h, g, S)
    <2> SUFFICES ASSUME NEW s \in SUBSET S
                 PROVE  h[s] = IF s = {} THEN 0 ELSE g[Some(s)] + h[s \ {Some(s)}]
      BY DEF Sums
    <2>1. s # {} => f[Some(s)] = g[Some(s)]
      BY SomeIn
    <2> QED BY <1>1, <2>1 DEF Sums
  <1> QED BY <1>1, <1>2, SumOf

(* A sum of zeros. *)
LEMMA SumZero ==
  ASSUME NEW S, IsFiniteSet(S), NEW f, \A x \in S : f[x] = 0
  PROVE  Sum(f, S) = 0
  <1> DEFINE g == [s \in SUBSET S |-> 0]
  <1>1. Sums(g, f, S)
    <2> SUFFICES ASSUME NEW s \in SUBSET S
                 PROVE  g[s] = IF s = {} THEN 0 ELSE f[Some(s)] + g[s \ {Some(s)}]
      BY DEF Sums
    <2>1. s # {} => f[Some(s)] = 0 /\ s \ {Some(s)} \in SUBSET S
      BY SomeIn
    <2> QED BY <2>1
  <1> QED BY <1>1, SumOf

(* One value changes: the sum changes by as much. *)
IntOn(f, S)         == \A x \in S : f[x] \in Int
SameBut(f, g, S, a) == \A x \in S : x # a => f[x] = g[x]

(* A sum moves by as much as the one summand that changes. *)
LEMMA SumChange ==
  ASSUME NEW S, IsFiniteSet(S), NEW f, NEW g, NEW a \in S,
         IntOn(f, S), IntOn(g, S), SameBut(f, g, S, a)
  PROVE  Sum(g, S) = Sum(f, S) + g[a] - f[a]
  <1>1. \A x \in S : f[x] \in Int /\ g[x] \in Int
    BY DEF IntOn
  <1>2. Sum(f, S) = f[a] + Sum(f, S \ {a}) /\ Sum(g, S) = g[a] + Sum(g, S \ {a})
    BY <1>1, SumAny
  <1>3. IsFiniteSet(S \ {a}) /\ \A x \in S \ {a} : f[x] \in Int
    BY <1>1, Smaller
  <1>4. Sum(f, S \ {a}) = Sum(g, S \ {a}) /\ Sum(f, S \ {a}) \in Int
    BY <1>3, SumSame, SumAny DEF SameBut
  <1> QED BY <1>1, <1>2, <1>4

(* One element is added. *)
LEMMA SumGrow ==
  ASSUME NEW S, IsFiniteSet(S), NEW f, NEW a, a \notin S,
         NEW T, T = S \union {a}, IntOn(f, T)
  PROVE  Sum(f, T) = Sum(f, S) + f[a]
  <1>1. IsFiniteSet(T) /\ T \ {a} = S
    BY FS_AddElement
  <1>2. \A x \in T : f[x] \in Int
    BY DEF IntOn
  <1>3. Sum(f, T) = f[a] + Sum(f, S)
    <2>1. a \in T
      OBVIOUS
    <2> QED BY <1>1, <1>2, <2>1, SumAny
  <1>4. Sum(f, S) \in Int
    BY <1>2, SumAny
  <1> QED BY <1>2, <1>3, <1>4

-----------------------------------------------------------------------------

(* Balances are numbers modulo Word. *)
USE WordAssumption, MissingAssumption, AmountsAssumption

(* A number is its remainder and a multiple of Word. *)
LEMMA ModWord ==
  ASSUME NEW x \in Int
  PROVE  /\ x % Word \in 0 .. Word - 1
         /\ \E k \in Int : x = Word * k + (x % Word)
  <1>1. x = Word * (x \div Word) + (x % Word) /\ x \div Word \in Int
    OBVIOUS
  <1>2. x % Word \in 0 .. Word - 1
    OBVIOUS
  <1> QED BY <1>1, <1>2

(* There is one such remainder. *)
LEMMA ModUnique ==
  ASSUME NEW a \in 0 .. Word - 1, NEW b \in 0 .. Word - 1, NEW k \in Int, a = b + Word * k
  PROVE  a = b
  <1>1. k <= 0
    <2> SUFFICES ASSUME k >= 1 PROVE FALSE
      OBVIOUS
    <2>1. Word * k >= Word
      OBVIOUS
    <2> QED BY <2>1
  <1>2. k >= 0
    <2> SUFFICES ASSUME k <= -1 PROVE FALSE
      OBVIOUS
    <2>1. Word * k <= -Word
      OBVIOUS
    <2> QED BY <2>1
  <1>3. k = 0
    BY <1>1, <1>2
  <1> QED BY <1>3

Multiple(m) == \E k \in Int : m = Word * k

(* Multiples of Word may be subtracted. *)
LEMMA Multiples ==
  /\ Multiple(0) /\ \A m : Multiple(m) => m \in Int
  /\ \A m, n : Multiple(m) /\ Multiple(n) => Multiple(m - n)
  <1>1. Multiple(0)
    <2>1. 0 = Word * 0
      OBVIOUS
    <2> QED BY <2>1 DEF Multiple
  <1>2. \A m : Multiple(m) => m \in Int
    BY DEF Multiple
  <1>3. ASSUME NEW m, NEW n, Multiple(m), Multiple(n) PROVE Multiple(m - n)
    <2>1. PICK j \in Int : m = Word * j
      BY <1>3 DEF Multiple
    <2>2. PICK k \in Int : n = Word * k
      BY <1>3 DEF Multiple
    <2>3. m - n = Word * (j - k) /\ j - k \in Int
      BY <2>1, <2>2
    <2> QED BY <2>3 DEF Multiple
  <1> QED BY <1>1, <1>2, <1>3

(* A number and its remainder. *)
LEMMA ModOf ==
  ASSUME NEW x \in Int
  PROVE  x % Word \in 0 .. Word - 1 /\ Multiple((x % Word) - x)
  <1>1. PICK m \in Int : x = Word * m + (x % Word)
    BY ModWord
  <1>2. x % Word \in 0 .. Word - 1
    BY ModWord
  <1>3. (x % Word) - x = Word * (-m) /\ -m \in Int
    BY <1>1, <1>2
  <1>4. Multiple((x % Word) - x)
    BY <1>3 DEF Multiple
  <1> QED BY <1>2, <1>4

(* Two numbers that change by the same, up to a multiple of Word. *)
SameRest(x, y) == x % Word = y % Word

(* Two numbers with the same remainder keep it when the same is added. *)
LEMMA ModShift ==
  ASSUME NEW t \in Int, NEW y \in Int, SameRest(t, y), NEW s \in Int, NEW m, Multiple(m)
  PROVE  SameRest(t + s + m, y + s)
  <1>1. PICK k \in Int : m = Word * k
    BY DEF Multiple
  <1>2. PICK u, z : u = t + s + m /\ z = y + s
    OBVIOUS
  <1>3. u \in Int /\ z \in Int /\ u - t = z - y + Word * k
    BY <1>2, <1>1
  <1>4. PICK a \in Int : t = Word * a + (t % Word)
    BY ModWord
  <1>5. PICK b \in Int : u = Word * b + (u % Word)
    BY <1>3, ModWord
  <1>6. PICK c \in Int : y = Word * c + (y % Word)
    BY ModWord
  <1>7. PICK d \in Int : z = Word * d + (z % Word)
    BY <1>3, ModWord
  <1>8. t % Word \in 0 .. Word - 1 /\ u % Word \in 0 .. Word - 1 /\ z % Word \in 0 .. Word - 1
    BY <1>3, ModWord
  <1>9. u % Word = (z % Word) + (Word * a - Word * c + Word * k + Word * d - Word * b)
    <2>1. t % Word = y % Word
      BY DEF SameRest
    <2> QED BY <1>3, <1>4, <1>5, <1>6, <1>7, <1>8, <2>1
  <1>10. Word * a - Word * c + Word * k + Word * d - Word * b = Word * (a - c + k + d - b)
    OBVIOUS
  <1>11. a - c + k + d - b \in Int
    OBVIOUS
  <1>12. u % Word = z % Word
    BY <1>8, <1>9, <1>10, <1>11, ModUnique
  <1> QED BY <1>2, <1>12 DEF SameRest

(* The calls made for a message, as credits. *)
Net(a) ==
  Cardinality({k \in DOMAIN a : a[k] = "ok"}) - Cardinality({k \in DOMAIN a : a[k] = "undone"})

(* The calls of a message count as an integer, *)
LEMMA NetType ==
  ASSUME NEW S, NEW a \in Seq(S) PROVE Net(a) \in Int
  <1>1. DOMAIN a = 1 .. Len(a) /\ Len(a) \in Nat /\ IsFiniteSet(1 .. Len(a))
    BY FS_Interval
  <1>2. /\ IsFiniteSet({k \in DOMAIN a : a[k] = "ok"})
        /\ IsFiniteSet({k \in DOMAIN a : a[k] = "undone"})
    BY <1>1, FS_Subset
  <1> QED BY <1>2, FS_CardinalityType DEF Net

(* which is 1 while the credit stands and 0 otherwise. *)
LEMMA NetOf ==
  /\ Net(<<>>) = 0 /\ Net(<<"ok">>) = 1 /\ Net(<<"fail">>) = 0
  /\ \A x \in {"ok", "fail"} : /\ Net(<<x, "undone">>) = Net(<<x>>) - 1
                               /\ Net(<<x, "undofail">>) = Net(<<x>>)
  <1> DEFINE Of(a, s) == {k \in DOMAIN a : a[k] = s}
  <1>1. Cardinality({}) = 0 /\ Cardinality({1}) = 1 /\ Cardinality({2}) = 1
    BY FS_EmptySet, FS_Singleton
  <1>2. /\ Of(<<>>, "ok") = {} /\ Of(<<>>, "undone") = {}
        /\ Of(<<"ok">>, "ok") = {1} /\ Of(<<"ok">>, "undone") = {}
        /\ Of(<<"fail">>, "ok") = {} /\ Of(<<"fail">>, "undone") = {}
    OBVIOUS
  <1>3. /\ Of(<<"ok", "undone">>, "ok") = {1} /\ Of(<<"ok", "undone">>, "undone") = {2}
        /\ Of(<<"fail", "undone">>, "ok") = {} /\ Of(<<"fail", "undone">>, "undone") = {2}
    OBVIOUS
  <1>4. /\ Of(<<"ok", "undofail">>, "ok") = {1} /\ Of(<<"ok", "undofail">>, "undone") = {}
        /\ Of(<<"fail", "undofail">>, "ok") = {} /\ Of(<<"fail", "undofail">>, "undone") = {}
    OBVIOUS
  <1>5. ASSUME NEW a PROVE Net(a) = Cardinality(Of(a, "ok")) - Cardinality(Of(a, "undone"))
    BY DEF Net
  <1> HIDE DEF Of
  <1>6. Net(<<>>) = 0 - 0 /\ Net(<<"ok">>) = 1 - 0 /\ Net(<<"fail">>) = 0 - 0
    <2>1. Net(<<>>) = Cardinality(Of(<<>>, "ok")) - Cardinality(Of(<<>>, "undone"))
      BY <1>5
    <2>2. Net(<<"ok">>) = Cardinality(Of(<<"ok">>, "ok")) - Cardinality(Of(<<"ok">>, "undone"))
      BY <1>5
    <2>3. Net(<<"fail">>)
            = Cardinality(Of(<<"fail">>, "ok")) - Cardinality(Of(<<"fail">>, "undone"))
      BY <1>5
    <2> QED BY <1>1, <1>2, <2>1, <2>2, <2>3, Zenon
  <1>7. Net(<<"ok", "undone">>) = 1 - 1 /\ Net(<<"fail", "undone">>) = 0 - 1
    <2>1. Net(<<"ok", "undone">>)
            = Cardinality(Of(<<"ok", "undone">>, "ok"))
                - Cardinality(Of(<<"ok", "undone">>, "undone"))
      BY <1>5
    <2>2. Net(<<"fail", "undone">>)
            = Cardinality(Of(<<"fail", "undone">>, "ok"))
                - Cardinality(Of(<<"fail", "undone">>, "undone"))
      BY <1>5
    <2> QED BY <1>1, <1>3, <2>1, <2>2, Zenon
  <1>8. Net(<<"ok", "undofail">>) = 1 - 0 /\ Net(<<"fail", "undofail">>) = 0 - 0
    <2>1. Net(<<"ok", "undofail">>)
            = Cardinality(Of(<<"ok", "undofail">>, "ok"))
                - Cardinality(Of(<<"ok", "undofail">>, "undone"))
      BY <1>5
    <2>2. Net(<<"fail", "undofail">>)
            = Cardinality(Of(<<"fail", "undofail">>, "ok"))
                - Cardinality(Of(<<"fail", "undofail">>, "undone"))
      BY <1>5
    <2> QED BY <1>1, <1>4, <2>1, <2>2, Zenon
  <1>9. ASSUME NEW x \in {"ok", "fail"}
        PROVE  Net(<<x, "undone">>) = Net(<<x>>) - 1 /\ Net(<<x, "undofail">>) = Net(<<x>>)
    <2>1. CASE x = "ok"
      BY <1>6, <1>7, <1>8, <2>1
    <2>2. CASE x = "fail"
      BY <1>6, <1>7, <1>8, <2>2
    <2> QED BY <2>1, <2>2
  <1> QED BY <1>6, <1>9

-----------------------------------------------------------------------------

(* The sums of Conservation, as sums over sets. *)
Cells == (0 .. Word - 1) \union {Missing}

(* SumFunction sums over the domain. *)
LEMMA SumOfFunction ==
  ASSUME NEW S, IsFiniteSet(S), NEW w
  PROVE  SumFunction([i \in S |-> w[i]]) = Sum(w, S)
  <1> DEFINE f == [i \in S |-> w[i]]
  <1>1. SumFunction(f) = Sum(f, S)
    BY DEF SumFunction, Sum
  <1>2. \A i \in S : f[i] = w[i]
    OBVIOUS
  <1> HIDE DEF f
  <1>3. Sum(f, S) = Sum(w, S)
    BY <1>2, SumSame
  <1> QED BY <1>1, <1>3 DEF f

(* One account of a ledger changes. *)
LedgerOf(b, A)      == IsFiniteSet(A) /\ b \in [A -> Cells]
Updated(c, b, a, v) == c = [b EXCEPT ![a] = v]

(* A ledger's total moves by as much as the one balance that changes. *)
LEMMA TotalChange ==
  ASSUME NEW A, NEW b, LedgerOf(b, A), NEW a \in A, NEW v \in Cells, NEW c, Updated(c, b, a, v)
  PROVE  /\ Total(b) \in Int /\ LedgerOf(c, A)
         /\ Total(c) = Total(b) + Amount(v) - Amount(b[a])
  <1> DEFINE f == [x \in A |-> Amount(b[x])]
             g == [x \in A |-> Amount(c[x])]
  <1> USE DEF LedgerOf, Updated
  <1>1. c \in [A -> Cells]
    OBVIOUS
  <1>2. \A x \in Cells : Amount(x) \in Int
    BY DEF Amount, Cells
  <1>3. Total(b) = Sum(f, A) /\ Total(c) = Sum(g, A)
    <2>1. DOMAIN b = A /\ DOMAIN c = A /\ DOMAIN f = A /\ DOMAIN g = A
      OBVIOUS
    <2>2. Total(b) = SumFunction(f) /\ Total(c) = SumFunction(g)
      <3> QED BY <2>1 DEF Total
    <2> HIDE DEF f, g
    <2> QED BY <2>1, <2>2 DEF SumFunction, Sum
  <1>4. \A x \in A : f[x] \in Int /\ g[x] \in Int
    BY <1>1, <1>2
  <1>5. IntOn(f, A) /\ IntOn(g, A) /\ SameBut(f, g, A, a)
    BY <1>4 DEF IntOn, SameBut
  <1>6. f[a] = Amount(b[a]) /\ g[a] = Amount(v)
    OBVIOUS
  <1> HIDE DEF f, g
  <1>7. Sum(g, A) = Sum(f, A) + g[a] - f[a]
    BY <1>5, SumChange
  <1>8. Sum(f, A) \in Int
    <2>1. \A x \in A : f[x] \in Int
      BY <1>4
    <2> QED BY <2>1, SumAny
  <1> QED BY <1>1, <1>3, <1>6, <1>7, <1>8

(* What the type invariant says of the two ledgers. *)
LEMMA Ledgers ==
  ASSUME TypeOK
  PROVE  /\ balanceA \in [{Sender} -> Cells] /\ balanceB \in [AccountsB -> Cells]
         /\ IsFiniteSet({Sender}) /\ IsFiniteSet(AccountsB)
         /\ issued \in 0 .. Word - 1 /\ issues \in 0 .. MaxIssues
         /\ Total(balanceA) \in Int /\ Total(balanceB) \in Int
  <1>1. balanceA \in [{Sender} -> Cells] /\ balanceB \in [AccountsB -> Cells]
    BY DEF TypeOK, LedgerA!TypeOK, LedgerB!TypeOK, LedgerA!Values, LedgerB!Values, Cells,
       AccountsB
  <1>2. IsFiniteSet({Sender}) /\ IsFiniteSet(AccountsB)
    BY AccountsAssumption, FS_Singleton, FS_AddElement DEF AccountsB
  <1>3. Missing \in Cells /\ Sender \in {Sender} /\ Shop \in AccountsB
    BY DEF Cells, AccountsB
  <1>4. LedgerOf(balanceA, {Sender}) /\ LedgerOf(balanceB, AccountsB)
    BY <1>1, <1>2 DEF LedgerOf
  <1>5. Total(balanceA) \in Int /\ Total(balanceB) \in Int
    <2>1. PICK c, d : /\ Updated(c, balanceA, Sender, Missing)
                      /\ Updated(d, balanceB, Shop, Missing)
      BY DEF Updated
    <2> QED BY <1>3, <1>4, <2>1, TotalChange
  <1> QED BY <1>1, <1>2, <1>5 DEF TypeOK

(* A message's amount and receiver, and what its transfer has on the way. *)
LEMMA MessageAt ==
  ASSUME RelayInv, NEW i \in 1 .. outterMeta[Pair]
  PROVE  /\ i \in Indices
         /\ outMessages[Pair][i].amount \in 0 .. Word - 1
         /\ outMessages[Pair][i].receiver \in AccountsB
         /\ Credits(i) = Net(applied[Pair][i]) /\ Credits(i) \in Int
         /\ Refunds(i) \in Int /\ Way(i) \in Int
  <1>1. i \in Indices
    <2>1. outterMeta[Pair] \in 0 .. MaxIndex
      BY Types
    <2> QED BY <2>1, MaxIndexAssumption DEF Indices
  <1>2. outMessages[Pair][i] \in Events
    BY <1>1, Types, SrcAt
  <1>3. /\ outMessages[Pair][i].amount \in 0 .. Word - 1
        /\ outMessages[Pair][i].receiver \in AccountsB
    BY <1>2, EventsAssumption DEF AccountsB
  <1>4. Credits(i) = Net(applied[Pair][i])
    BY DEF Credits, Net
  <1>5. Credits(i) \in Int
    <2>1. applied[Pair][i] \in Seq({"ok", "fail", "undone", "undofail"})
      BY <1>1, Types
    <2> QED BY <1>4, <2>1, NetType
  <1>6. Refunds(i) \in Int
    BY DEF Refunds
  <1> QED BY <1>1, <1>3, <1>4, <1>5, <1>6 DEF Way

(* OnTheWay as a sum over the messages emitted, *)
LEMMA OnTheWayIs ==
  ASSUME RelayInv, NEW n, n = outterMeta[Pair], NEW w, \A i \in 1 .. n : w[i] = Way(i)
  PROVE  /\ OnTheWay = Sum(w, 1 .. n) /\ OnTheWay \in Int
         /\ n \in Nat /\ IsFiniteSet(1 .. n)
         /\ \A i \in 1 .. n : w[i] \in Int
  <1>1. n \in Nat
    BY Types
  <1>2. IsFiniteSet(1 .. n)
    BY <1>1, FS_Interval
  <1>3. \A i \in 1 .. n : w[i] \in Int
    BY MessageAt
  <1>4. [i \in 1 .. outterMeta[Pair] |-> Way(i)] = [i \in 1 .. n |-> w[i]]
    OBVIOUS
  <1>5. OnTheWay = Sum(w, 1 .. n)
    BY <1>2, <1>4, SumOfFunction DEF OnTheWay
  <1> QED BY <1>1, <1>2, <1>3, <1>5, SumAny

(* which is an integer. *)
LEMMA OnTheWayInt == RelayInv => OnTheWay \in Int
  <1> SUFFICES ASSUME RelayInv PROVE OnTheWay \in Int
    OBVIOUS
  <1>1. PICK w : w = [i \in 1 .. outterMeta[Pair] |-> Way(i)]
    OBVIOUS
  <1>2. \A i \in 1 .. outterMeta[Pair] : w[i] = Way(i)
    BY <1>1
  <1> QED BY <1>2, OnTheWayIs

(* Of the next state. *)
LEMMA OnTheWayNext ==
  ASSUME NEW n \in Nat, n = outterMeta'[Pair], NEW w, \A i \in 1 .. n : w[i] = Way(i)'
  PROVE  OnTheWay' = Sum(w, 1 .. n)
  <1>1. IsFiniteSet(1 .. n)
    BY FS_Interval
  <1>2. OnTheWay' = SumFunction([i \in 1 .. outterMeta'[Pair] |-> Way(i)'])
    BY DEF OnTheWay
  <1>3. [i \in 1 .. outterMeta'[Pair] |-> Way(i)'] = [i \in 1 .. n |-> w[i]]
    OBVIOUS
  <1> QED BY <1>1, <1>2, <1>3, SumOfFunction

(* How OnTheWay moves: not at all, by one transfer, or by a new one. *)
LEMMA WaySame ==
  ASSUME RelayInv, outterMeta' = outterMeta,
         \A j \in 1 .. outterMeta[Pair] : Way(j)' = Way(j)
  PROVE  OnTheWay' = OnTheWay
  <1> DEFINE n == outterMeta[Pair]
             w == [j \in 1 .. n |-> Way(j)]
  <1>1. \A j \in 1 .. n : w[j] = Way(j) /\ w[j] = Way(j)'
    OBVIOUS
  <1> HIDE DEF w
  <1>2. OnTheWay = Sum(w, 1 .. n) /\ n \in Nat
    BY <1>1, OnTheWayIs
  <1>3. OnTheWay' = Sum(w, 1 .. n)
    BY <1>1, <1>2, OnTheWayNext
  <1> QED BY <1>2, <1>3

(* One message is delivered, reversed or settled. *)
LEMMA WayOne ==
  ASSUME RelayInv, outterMeta' = outterMeta, NEW i \in 1 .. outterMeta[Pair],
         NEW d \in Int, Way(i)' = Way(i) + d,
         \A j \in 1 .. outterMeta[Pair] : j # i => Way(j)' = Way(j)
  PROVE  OnTheWay' = OnTheWay + d
  <1> DEFINE n == outterMeta[Pair]
             w == [j \in 1 .. n |-> Way(j)]
             v == [j \in 1 .. n |-> Way(j)']
  <1>1. \A j \in 1 .. n : w[j] = Way(j) /\ v[j] = Way(j)'
    OBVIOUS
  <1> HIDE DEF w, v
  <1>2. /\ OnTheWay = Sum(w, 1 .. n) /\ n \in Nat /\ IsFiniteSet(1 .. n)
        /\ \A j \in 1 .. n : w[j] \in Int
    BY <1>1, OnTheWayIs
  <1>3. OnTheWay' = Sum(v, 1 .. n)
    BY <1>1, <1>2, OnTheWayNext
  <1>4. v[i] = w[i] + d
    BY <1>1
  <1>5. \A j \in 1 .. n : j # i => w[j] = v[j]
    BY <1>1
  <1>6. v[i] \in Int /\ w[i] \in Int
    BY <1>2, <1>4
  <1>7. IntOn(w, 1 .. n) /\ IntOn(v, 1 .. n) /\ SameBut(w, v, 1 .. n, i)
    <2>1. \A j \in 1 .. n : v[j] \in Int
      BY <1>2, <1>5, <1>6
    <2> QED BY <1>2, <1>5, <2>1 DEF IntOn, SameBut
  <1>8. Sum(v, 1 .. n) = Sum(w, 1 .. n) + v[i] - w[i]
    BY <1>2, <1>7, SumChange
  <1>9. Sum(w, 1 .. n) \in Int
    BY <1>2, SumAny
  <1> QED BY <1>2, <1>3, <1>4, <1>6, <1>8, <1>9

(* One message is emitted. *)
LEMMA WayNew ==
  ASSUME RelayInv, NEW i, i = outterMeta[Pair] + 1, outterMeta'[Pair] = i,
         NEW d \in Int, Way(i)' = d,
         \A j \in 1 .. outterMeta[Pair] : Way(j)' = Way(j)
  PROVE  OnTheWay' = OnTheWay + d
  <1> DEFINE n == outterMeta[Pair]
             v == [j \in 1 .. i |-> Way(j)']
  <1>1. n \in Nat /\ i \in Nat /\ i = n + 1
    BY Types
  <1>2. (\A j \in 1 .. n : v[j] = Way(j)) /\ (\A j \in 1 .. i : v[j] = Way(j)') /\ v[i] = d
    BY <1>1
  <1> HIDE DEF v
  <1>3. /\ OnTheWay = Sum(v, 1 .. n) /\ IsFiniteSet(1 .. n)
        /\ \A j \in 1 .. n : v[j] \in Int
    BY <1>2, OnTheWayIs
  <1>4. OnTheWay' = Sum(v, 1 .. i)
    BY <1>1, <1>2, OnTheWayNext
  <1>5. \A j \in 1 .. i : v[j] \in Int
    BY <1>1, <1>2, <1>3
  <1>6. PICK S, T : S = 1 .. n /\ T = 1 .. i
    OBVIOUS
  <1>7. Sum(v, T) = Sum(v, S) + v[i]
    <2>1. IsFiniteSet(S) /\ i \notin S /\ T = S \union {i}
      BY <1>1, <1>3, <1>6
    <2>2. IntOn(v, T)
      BY <1>5, <1>6 DEF IntOn
    <2> QED BY <2>1, <2>2, SumGrow
  <1> QED BY <1>2, <1>3, <1>4, <1>6, <1>7

(* What one transfer has on its way, as its credits and its refund change. *)
LEMMA WayChange ==
  ASSUME RelayInv, NEW i \in 1 .. outterMeta[Pair], outMessages' = outMessages,
         NEW x, x = outMessages[Pair][i].amount
  PROVE  /\ Credits(i)' = Credits(i) /\ Refunds(i)' = Refunds(i) => Way(i)' = Way(i) + 0
         /\ Credits(i)' = Credits(i) + 1 /\ Refunds(i)' = Refunds(i) => Way(i)' = Way(i) + (-x)
         /\ Credits(i)' = Credits(i) - 1 /\ Refunds(i)' = Refunds(i) => Way(i)' = Way(i) + x
         /\ Credits(i)' = Credits(i) /\ Refunds(i)' = Refunds(i) + 1 => Way(i)' = Way(i) + (-x)
  <1>1. x \in Int /\ Credits(i) \in Int /\ Refunds(i) \in Int
    BY MessageAt
  <1>2. /\ Way(i) = x * (1 - Credits(i) - Refunds(i))
        /\ Way(i)' = x * (1 - Credits(i)' - Refunds(i)')
    BY DEF Way
  <1>3. \A y, c, r \in Int :
          /\ y * (1 - (c + 1) - r) = y * (1 - c - r) + (-y)
          /\ y * (1 - (c - 1) - r) = y * (1 - c - r) + y
          /\ y * (1 - c - (r + 1)) = y * (1 - c - r) + (-y)
          /\ y * (1 - c - r) = y * (1 - c - r) + 0
    OBVIOUS
  <1> QED BY <1>1, <1>2, <1>3

(* Transfers whose messages, calls and refunds a step leaves alone. *)
LEMMA WayFrame ==
  ASSUME NEW j, outMessages'[Pair][j] = outMessages[Pair][j],
         applied'[Pair][j] = applied[Pair][j], j \in refunded' <=> j \in refunded
  PROVE  Credits(j)' = Credits(j) /\ Refunds(j)' = Refunds(j) /\ Way(j)' = Way(j)
  <1>1. Credits(j)' = Credits(j)
    BY DEF Credits
  <1>2. Refunds(j)' = Refunds(j)
    BY DEF Refunds
  <1> QED BY <1>1, <1>2 DEF Way

-----------------------------------------------------------------------------

(* A step of the invariant by its parts. *)
LEMMA TypeParts ==
  ASSUME RelayInv', balanceA' \in [{Sender} -> Cells], balanceB' \in [AccountsB -> Cells],
         issues' \in 0 .. MaxIssues, issued' \in 0 .. Word - 1,
         touched' \subseteq {Sender} \union AccountsB, refunded' \subseteq Indices
  PROVE  TypeOK'
  <1>1. RelayTypeOK'
    BY DEF RelayInv
  <1>2. LedgerA!TypeOK' /\ LedgerB!TypeOK'
    BY DEF LedgerA!TypeOK, LedgerB!TypeOK, LedgerA!Values, LedgerB!Values, Cells, AccountsB
  <1> QED BY <1>1, <1>2 DEF TypeOK

(* A step that calls and refunds nothing. *)
LEMMA RefundsFrame ==
  ASSUME RefundsCalled, UNCHANGED <<called, refunded>> PROVE RefundsCalled'
  BY DEF RefundsCalled

(* The parts of the sum move by a, b and d, what was issued by s: the      *)
(* invariant needs them to agree, up to a multiple of Word.                *)
LEMMA Conserve ==
  ASSUME IInv, NEW a \in Int, NEW b \in Int, NEW d \in Int, NEW s \in Int,
         NEW m, Multiple(m),
         Total(balanceA)' = Total(balanceA) + a, Total(balanceB)' = Total(balanceB) + b,
         OnTheWay' = OnTheWay + d, issued' = issued + s, a + b + d = s + m
  PROVE  Conservation'
  <1>1. Total(balanceA) \in Int /\ Total(balanceB) \in Int /\ issued \in Int /\ Funds \in Int
    BY Ledgers, FundsAssumption DEF IInv
  <1>2. OnTheWay \in Int
    BY OnTheWayInt DEF IInv
  <1>3. m \in Int
    BY Multiples
  <1> DEFINE t == Total(balanceA) + Total(balanceB) + OnTheWay
             y == Funds + issued
  <1>4. t \in Int /\ y \in Int /\ SameRest(t, y)
    BY <1>1, <1>2 DEF IInv, Conservation, SameRest
  <1>5. /\ Total(balanceA)' + Total(balanceB)' + OnTheWay' = t + s + m
        /\ Funds + issued' = y + s
    BY <1>1, <1>2, <1>3
  <1>6. SameRest(t + s + m, y + s)
    <2> HIDE DEF t, y
    <2> QED BY <1>4, ModShift, Zenon
  <1> QED BY <1>5, <1>6 DEF SameRest, Conservation

(* A cell holds its amount, or no account. *)
LEMMA CellAmount ==
  ASSUME NEW v \in Cells
  PROVE  /\ Amount(v) \in 0 .. Word - 1
         /\ v # Missing => v \in 0 .. Word - 1 /\ Amount(v) = v
  BY DEF Amount, Cells

(* A transfer is of an amount, to an account of B. *)
LEMMA EventAt ==
  ASSUME NEW e \in Events
  PROVE  e.amount \in 0 .. Word - 1 /\ e.receiver \in AccountsB
  BY EventsAssumption DEF AccountsB

(* One account of A, or of B, changes. *)
LEMMA ChangeA ==
  ASSUME TypeOK, NEW v \in Cells, balanceA' = [balanceA EXCEPT ![Sender] = v]
  PROVE  /\ balanceA' \in [{Sender} -> Cells]
         /\ Total(balanceA)' = Total(balanceA) + Amount(v) - Amount(balanceA[Sender])
  <1>1. LedgerOf(balanceA, {Sender}) /\ Sender \in {Sender}
    BY Ledgers DEF LedgerOf
  <1>2. PICK c : c = balanceA' /\ Updated(c, balanceA, Sender, v)
    BY DEF Updated
  <1>3. LedgerOf(c, {Sender}) /\ Total(c) = Total(balanceA) + Amount(v) - Amount(balanceA[Sender])
    BY <1>1, <1>2, TotalChange
  <1>4. Total(balanceA)' = Total(balanceA')
    BY DEF Total
  <1> QED BY <1>2, <1>3, <1>4 DEF LedgerOf

(* One account of B changes. *)
LEMMA ChangeB ==
  ASSUME TypeOK, NEW a \in AccountsB, NEW v \in Cells, balanceB' = [balanceB EXCEPT ![a] = v]
  PROVE  /\ balanceB' \in [AccountsB -> Cells]
         /\ Total(balanceB)' = Total(balanceB) + Amount(v) - Amount(balanceB[a])
  <1>1. LedgerOf(balanceB, AccountsB) /\ a \in AccountsB
    BY Ledgers DEF LedgerOf
  <1>2. PICK c : c = balanceB' /\ Updated(c, balanceB, a, v)
    BY DEF Updated
  <1>3. LedgerOf(c, AccountsB) /\ Total(c) = Total(balanceB) + Amount(v) - Amount(balanceB[a])
    BY <1>1, <1>2, TotalChange
  <1>4. Total(balanceB)' = Total(balanceB')
    BY DEF Total
  <1> QED BY <1>2, <1>3, <1>4 DEF LedgerOf

(* A transfer is debited, and on its way. *)
LEMMA TransferAtoBInv ==
  ASSUME IInv, NEW e \in Events, TransferAtoB(e) PROVE IInv'
  <1> DEFINE x == e.amount
             old == balanceA[Sender]
  <1>1. /\ old # Missing /\ old >= x
        /\ balanceA' = [balanceA EXCEPT ![Sender] = old - x]
        /\ Emit(e)
        /\ UNCHANGED <<balanceB, history>>
    BY DEF TransferAtoB, LedgerA!TransferOut, LedgerA!Exists
  <1>2. x \in 0 .. Word - 1
    BY EventAt
  <1>3. /\ balanceA \in [{Sender} -> Cells] /\ balanceB \in [AccountsB -> Cells]
        /\ IsFiniteSet({Sender})
    BY Ledgers DEF IInv
  <1>4. old \in Cells /\ old \in 0 .. Word - 1 /\ old - x \in 0 .. Word - 1 /\ old - x \in Cells
    BY <1>1, <1>2, <1>3 DEF Cells
  <1>5. RelayInv'
    BY <1>1, EmitInv DEF IInv
  <1>6. PICK i : i = outterMeta[Pair] + 1
    OBVIOUS
  <1>7. /\ i \in Indices /\ ~(i <= outterMeta[Pair])
        /\ outterMeta' = [outterMeta EXCEPT ![Pair] = i]
        /\ outMessages' = [outMessages EXCEPT ![Pair][i] = e]
        /\ UNCHANGED called
    BY <1>1, <1>6, EmitEffect DEF IInv
  <1>8. UNCHANGED <<varsDst, varsHub>>
    BY <1>1 DEF Emit
  <1>9. TypeOK'
    <2>1. balanceA' \in [{Sender} -> Cells]
      BY <1>1, <1>3, <1>4
    <2> QED BY <1>1, <1>3, <1>5, <2>1, TypeParts DEF history, IInv, TypeOK
  <1>10. RefundsCalled'
    BY <1>1, <1>7, RefundsFrame DEF IInv, history
  <1>11. Conservation'
    <2>1. Total(balanceA)' = Total(balanceA) + (-x)
      <3>1. Total(balanceA)' = Total(balanceA) + Amount(old - x) - Amount(old)
        BY <1>1, <1>4, ChangeA DEF IInv
      <3>2. Amount(old - x) = old - x /\ Amount(old) = old
        BY <1>1, <1>4, CellAmount
      <3>3. Total(balanceA) \in Int /\ old \in Int /\ x \in Int
        BY <1>2, <1>4, Ledgers DEF IInv
      <3> HIDE DEF old, x
      <3> QED BY <3>1, <3>2, <3>3
    <2>2. Total(balanceB)' = Total(balanceB) + 0 /\ issued' = issued + 0
      BY <1>1, Ledgers DEF IInv, history
    <2>3. applied[Pair][i] = <<>> /\ i \notin refunded
      <3>1. ~(i <= innerMeta[Pair])
        BY <1>6, Types DEF IInv, RelayInv, HubBehind
      <3>2. applied[Pair][i] = <<>>
        BY <1>7, <3>1, DstAt DEF IInv
      <3>3. called[Pair][i] = <<>>
        BY <1>7, SrcAt DEF IInv
      <3> QED BY <3>2, <3>3 DEF IInv, RefundsCalled
    <2>4. Way(i)' = x
      <3>1. Credits(i)' = 0
        <4>1. applied'[Pair][i] = <<>>
          BY <1>8, <2>3 DEF varsDst
        <4> QED BY <4>1, NetOf DEF Credits, Net
      <3>2. Refunds(i)' = 0
        BY <1>1, <2>3 DEF Refunds, history
      <3>3. outMessages'[Pair][i] = e
        BY <1>7, Types DEF IInv
      <3>4. Way(i)' = x * (1 - 0 - 0)
        BY <3>1, <3>2, <3>3 DEF Way
      <3> QED BY <1>2, <3>4
    <2>5. ASSUME NEW j \in 1 .. outterMeta[Pair] PROVE Way(j)' = Way(j)
      <3>1. j # i
        BY <1>7
      <3>2. outMessages'[Pair][j] = outMessages[Pair][j]
        BY <1>7, <3>1, Types DEF IInv
      <3> QED BY <1>1, <1>8, <3>2, WayFrame DEF varsDst, history
    <2>6. OnTheWay' = OnTheWay + x
      <3>1. outterMeta'[Pair] = i
        BY <1>7, Types DEF IInv
      <3> QED BY <1>2, <1>6, <2>4, <2>5, <3>1, WayNew DEF IInv
    <2>7. (-x) + 0 + x = 0 + 0 /\ Multiple(0) /\ -x \in Int /\ x \in Int /\ 0 \in Int
      BY <1>2, Multiples
    <2> HIDE DEF x
    <2> QED BY <2>1, <2>2, <2>6, <2>7, Conserve, Zenon
  <1> QED BY <1>5, <1>9, <1>10, <1>11 DEF IInv

(* Two accounts of B change in turn: what a transfer on B does, to another *)
(* account or to the same one.                                             *)
LEMMA LocalChange ==
  ASSUME TypeOK, NEW s \in AccountsB, NEW r \in AccountsB, NEW x \in 0 .. Word - 1,
         LedgerB!LocalTransfer(s, r, x)
  PROVE  /\ balanceB' \in [AccountsB -> Cells]
         /\ s # r => \E m : Multiple(m) /\ Total(balanceB)' = Total(balanceB) + m
         /\ s = r => \E m : Multiple(m) /\ Total(balanceB)' = Total(balanceB) + x + m
  <1> DEFINE p == balanceB[s]
             q == balanceB[r]
  <1>1. /\ p # Missing /\ q # Missing /\ p >= x
        /\ balanceB' = [balanceB EXCEPT ![s] = p - x, ![r] = (q + x) % Word]
    BY DEF LedgerB!LocalTransfer, LedgerB!Exists
  <1>2. balanceB \in [AccountsB -> Cells] /\ LedgerOf(balanceB, AccountsB)
    BY Ledgers DEF LedgerOf
  <1>3. p \in Cells /\ q \in Cells /\ p \in 0 .. Word - 1 /\ q \in 0 .. Word - 1
    BY <1>1, <1>2 DEF Cells
  <1> DEFINE y == (q + x) % Word
  <1>4. y \in 0 .. Word - 1 /\ Multiple(y - (q + x))
    <2>1. q + x \in Int
      BY <1>3
    <2> HIDE DEF q
    <2> QED BY <2>1, ModOf
  <1>5. p - x \in Cells /\ p - x \in 0 .. Word - 1 /\ y \in Cells
    BY <1>1, <1>3, <1>4 DEF Cells
  <1>6. PICK c : Updated(c, balanceB, s, p - x)
    BY DEF Updated
  <1>7. Updated(balanceB', c, r, y)
    BY <1>1, <1>2, <1>6 DEF Updated
  <1>8. LedgerOf(c, AccountsB) /\ Total(c) = Total(balanceB) + Amount(p - x) - Amount(p)
    BY <1>2, <1>5, <1>6, TotalChange
  <1>9. LedgerOf(balanceB', AccountsB) /\ Total(balanceB') = Total(c) + Amount(y) - Amount(c[r])
    <2>1. PICK d : d = balanceB'
      OBVIOUS
    <2> QED BY <1>5, <1>7, <1>8, <2>1, TotalChange
  <1>10. /\ Amount(p - x) = p - x /\ Amount(p) = p /\ Amount(q) = q /\ Amount(y) = y
    BY <1>3, <1>4, <1>5, MissingAssumption DEF Amount
  <1>11. c[r] = IF s = r THEN p - x ELSE q
    BY <1>2, <1>6 DEF Updated
  <1>12. Total(balanceB)' = Total(balanceB') /\ Total(balanceB) \in Int
    BY Ledgers DEF Total
  <1> DEFINE m == y - (q + x)
  <1>13. s # r => Total(balanceB') = Total(balanceB) + m
    <2> SUFFICES ASSUME s # r PROVE Total(balanceB') = Total(balanceB) + m
      OBVIOUS
    <2>1. Amount(c[r]) = q
      BY <1>10, <1>11
    <2> HIDE DEF p, q, y
    <2> QED BY <1>3, <1>4, <1>8, <1>9, <1>10, <1>12, <2>1
  <1>14. s = r => Total(balanceB') = Total(balanceB) + x + m
    <2> SUFFICES ASSUME s = r PROVE Total(balanceB') = Total(balanceB) + x + m
      OBVIOUS
    <2>1. Amount(c[r]) = p - x /\ p = q
      BY <1>10, <1>11
    <2> HIDE DEF p, q, y
    <2> QED BY <1>3, <1>4, <1>8, <1>9, <1>10, <1>12, <2>1
  <1>15. balanceB' \in [AccountsB -> Cells]
    BY <1>9 DEF LedgerOf
  <1> HIDE DEF m
  <1> QED BY <1>4, <1>12, <1>13, <1>14, <1>15 DEF m

(* A step on B alone. *)
LEMMA RelayUntouched ==
  ASSUME IInv, UNCHANGED <<varsRelay, refunded>>
  PROVE  RelayInv' /\ RefundsCalled' /\ OnTheWay' = OnTheWay + 0
  <1>1. RelayInv'
    BY RelayFrame DEF IInv
  <1>2. UNCHANGED <<outterMeta, outMessages, called, applied, refunded>>
    BY DEF varsRelay, varsSrc, varsDst
  <1>3. RefundsCalled'
    BY <1>2, RefundsFrame DEF IInv
  <1>4. \A j \in 1 .. outterMeta[Pair] : Way(j)' = Way(j)
    BY <1>2, WayFrame
  <1>5. OnTheWay' = OnTheWay
    BY <1>2, <1>4, WaySame DEF IInv
  <1>6. OnTheWay \in Int
    BY OnTheWayInt DEF IInv
  <1> QED BY <1>1, <1>3, <1>5, <1>6

(* A transfer on B moves money between two of its accounts. *)
LEMMA SpendInv ==
  ASSUME IInv, NEW r \in Receivers, NEW x \in Amounts, Spend(r, x) PROVE IInv'
  <1>1. /\ LedgerB!LocalTransfer(r, Shop, x)
        /\ UNCHANGED <<varsRelay, balanceA, issues, issued, touched, refunded>>
    BY DEF Spend, history
  <1>2. r \in AccountsB /\ Shop \in AccountsB /\ r # Shop /\ x \in 0 .. Word - 1
    BY AccountsAssumption DEF AccountsB
  <1>3. /\ balanceB' \in [AccountsB -> Cells]
        /\ \E m : Multiple(m) /\ Total(balanceB)' = Total(balanceB) + m
    BY <1>1, <1>2, LocalChange DEF IInv
  <1>4. RelayInv' /\ RefundsCalled' /\ OnTheWay' = OnTheWay + 0
    BY <1>1, RelayUntouched
  <1>5. TypeOK'
    BY <1>1, <1>3, <1>4, Ledgers, TypeParts DEF IInv, TypeOK
  <1>6. Conservation'
    <2>1. PICK m : Multiple(m) /\ Total(balanceB)' = Total(balanceB) + m
      BY <1>3
    <2>2. m \in Int
      BY <2>1, Multiples
    <2>3. Total(balanceA)' = Total(balanceA) + 0 /\ issued' = issued + 0
      BY <1>1, Ledgers DEF IInv
    <2>4. 0 + m + 0 = 0 + m /\ 0 \in Int
      BY <2>2
    <2> QED BY <1>4, <2>1, <2>2, <2>3, <2>4, Conserve, Zenon
  <1> QED BY <1>4, <1>5, <1>6 DEF IInv

(* What an issue adds, modulo Word. *)
LEMMA IssueEffect ==
  ASSUME TypeOK, NEW x \in Int, Issue(x)
  PROVE  /\ issues' \in 0 .. MaxIssues /\ issued' \in 0 .. Word - 1
         /\ \E m : Multiple(m) /\ issued' = issued + (x + m)
  <1>1. issues < MaxIssues /\ issues' = issues + 1 /\ issued' = (issued + x) % Word
    BY DEF Issue
  <1>2. issues \in 0 .. MaxIssues /\ issued \in Int
    BY Ledgers
  <1>3. issues' \in 0 .. MaxIssues
    BY <1>1, <1>2, IssuesAssumption
  <1> DEFINE z == issued + x
  <1>4. z \in Int
    BY <1>2
  <1>5. z % Word \in 0 .. Word - 1 /\ Multiple((z % Word) - z)
    <2> HIDE DEF z
    <2> QED BY <1>4, ModOf
  <1>6. issued' = issued + (x + ((z % Word) - z))
    BY <1>1, <1>2, <1>4, <1>5
  <1>7. issued' \in 0 .. Word - 1
    BY <1>1, <1>5
  <1> HIDE DEF z
  <1> QED BY <1>3, <1>5, <1>6, <1>7

(* A transfer to oneself issues its amount. *)
LEMMA TransferToSelfInv ==
  ASSUME IInv, NEW r \in Receivers, NEW x \in Amounts, TransferToSelf(r, x) PROVE IInv'
  <1>1. /\ LedgerB!LocalTransfer(r, r, x) /\ Issue(x)
        /\ UNCHANGED <<varsRelay, balanceA, touched, refunded>>
    BY DEF TransferToSelf
  <1>2. r \in AccountsB /\ x \in 0 .. Word - 1
    BY DEF AccountsB
  <1>3. /\ balanceB' \in [AccountsB -> Cells]
        /\ \E m : Multiple(m) /\ Total(balanceB)' = Total(balanceB) + x + m
    BY <1>1, <1>2, LocalChange DEF IInv
  <1>4. /\ issues' \in 0 .. MaxIssues /\ issued' \in 0 .. Word - 1
        /\ \E m : Multiple(m) /\ issued' = issued + (x + m)
    BY <1>1, <1>2, IssueEffect DEF IInv
  <1>5. RelayInv' /\ RefundsCalled' /\ OnTheWay' = OnTheWay + 0
    BY <1>1, RelayUntouched
  <1>6. TypeOK'
    BY <1>1, <1>3, <1>4, <1>5, Ledgers, TypeParts DEF IInv, TypeOK
  <1>7. Conservation'
    <2>1. PICK m : Multiple(m) /\ Total(balanceB)' = Total(balanceB) + x + m
      BY <1>3
    <2>2. PICK n : Multiple(n) /\ issued' = issued + (x + n)
      BY <1>4
    <2>3. m \in Int /\ n \in Int /\ Multiple(m - n)
      BY <2>1, <2>2, Multiples
    <2>4. Total(balanceA)' = Total(balanceA) + 0 /\ Total(balanceB)' = Total(balanceB) + (x + m)
      BY <1>1, <1>2, <2>1, <2>3, Ledgers DEF IInv
    <2>5. /\ 0 + (x + m) + 0 = (x + n) + (m - n)
          /\ 0 \in Int /\ x + m \in Int /\ x + n \in Int
      BY <1>2, <2>3
    <2> QED BY <1>5, <2>2, <2>3, <2>4, <2>5, Conserve, Zenon
  <1> QED BY <1>5, <1>6, <1>7 DEF IInv

(* A balance that is set issues the difference. *)
LEMMA SetBalanceInv ==
  ASSUME IInv, NEW a \in {Sender} \union AccountsB, NEW v \in Settings, SetBalance(a, v)
  PROVE  IInv'
  <1>1. v \in Cells
    BY SettingsAssumption DEF Cells
  <1>2. touched' = touched \union {a} /\ UNCHANGED <<varsRelay, refunded>>
    BY DEF SetBalance
  <1>3. RelayInv' /\ RefundsCalled' /\ OnTheWay' = OnTheWay + 0
    BY <1>2, RelayUntouched
  <1>4. touched' \subseteq {Sender} \union AccountsB /\ refunded' \subseteq Indices
    BY <1>2 DEF IInv, TypeOK
  <1>5. ASSUME a = Sender, LedgerA!SetBalance(a, v), Issue(Amount(v) - Amount(balanceA[a])),
               UNCHANGED balanceB
        PROVE  TypeOK' /\ Conservation'
    <2> DEFINE x == Amount(v) - Amount(balanceA[Sender])
    <2>1. x \in Int
      <3>1. balanceA[Sender] \in Cells
        BY Ledgers DEF IInv
      <3> QED BY <1>1, <3>1, CellAmount
    <2>2. /\ balanceA' \in [{Sender} -> Cells]
          /\ Total(balanceA)' = Total(balanceA) + Amount(v) - Amount(balanceA[Sender])
      BY <1>1, <1>5, ChangeA DEF IInv, LedgerA!SetBalance
    <2>3. /\ issues' \in 0 .. MaxIssues /\ issued' \in 0 .. Word - 1
          /\ \E m : Multiple(m) /\ issued' = issued + (x + m)
      <3>1. Issue(x)
        BY <1>5
      <3> HIDE DEF x
      <3> QED BY <2>1, <3>1, IssueEffect DEF IInv
    <2>4. TypeOK'
      BY <1>3, <1>4, <1>5, <2>2, <2>3, Ledgers, TypeParts DEF IInv
    <2>5. PICK n : Multiple(n) /\ issued' = issued + (x + n)
      BY <2>3
    <2>6. n \in Int /\ Multiple(0 - n)
      BY <2>5, Multiples
    <2>7. Total(balanceA)' = Total(balanceA) + x /\ Total(balanceB)' = Total(balanceB) + 0
      <3>1. Amount(v) \in Int /\ Amount(balanceA[Sender]) \in Int
        <4>1. balanceA[Sender] \in Cells
          BY Ledgers DEF IInv
        <4> QED BY <1>1, <4>1, CellAmount
      <3> QED BY <1>5, <2>2, <3>1, Ledgers DEF IInv
    <2>8. x + 0 + 0 = (x + n) + (0 - n) /\ 0 \in Int /\ x + n \in Int
      BY <2>1, <2>6
    <2> HIDE DEF x
    <2>9. Conservation'
      BY <1>3, <2>1, <2>5, <2>6, <2>7, <2>8, Conserve, Zenon
    <2> QED BY <2>4, <2>9
  <1>6. ASSUME a \in AccountsB, LedgerB!SetBalance(a, v), Issue(Amount(v) - Amount(balanceB[a])),
               UNCHANGED balanceA
        PROVE  TypeOK' /\ Conservation'
    <2> DEFINE x == Amount(v) - Amount(balanceB[a])
    <2>1. Amount(v) \in Int /\ Amount(balanceB[a]) \in Int
      <3>1. balanceB[a] \in Cells
        BY <1>6, Ledgers DEF IInv
      <3> QED BY <1>1, <3>1, CellAmount
    <2>2. /\ balanceB' \in [AccountsB -> Cells]
          /\ Total(balanceB)' = Total(balanceB) + Amount(v) - Amount(balanceB[a])
      BY <1>1, <1>6, ChangeB DEF IInv, LedgerB!SetBalance
    <2>3. x \in Int
      BY <2>1
    <2>4. /\ issues' \in 0 .. MaxIssues /\ issued' \in 0 .. Word - 1
          /\ \E m : Multiple(m) /\ issued' = issued + (x + m)
      <3>1. Issue(x)
        BY <1>6
      <3> HIDE DEF x
      <3> QED BY <2>3, <3>1, IssueEffect DEF IInv
    <2>5. TypeOK'
      BY <1>3, <1>4, <1>6, <2>2, <2>4, Ledgers, TypeParts DEF IInv
    <2>6. PICK n : Multiple(n) /\ issued' = issued + (x + n)
      BY <2>4
    <2>7. n \in Int /\ Multiple(0 - n)
      BY <2>6, Multiples
    <2>8. Total(balanceA)' = Total(balanceA) + 0 /\ Total(balanceB)' = Total(balanceB) + x
      BY <1>6, <2>1, <2>2, Ledgers DEF IInv
    <2>9. 0 + x + 0 = (x + n) + (0 - n) /\ 0 \in Int /\ x + n \in Int
      BY <2>3, <2>7
    <2> HIDE DEF x
    <2>10. Conservation'
      BY <1>3, <2>3, <2>6, <2>7, <2>8, <2>9, Conserve, Zenon
    <2> QED BY <2>5, <2>10
  <1>7. TypeOK' /\ Conservation'
    BY <1>5, <1>6 DEF SetBalance
  <1> QED BY <1>3, <1>7 DEF IInv

(* A verdict: a rollback pays the refund, in the same step and only once.  *)
LEMMA SubmitReceiptInv ==
  ASSUME IInv, NEW i \in Indices, SubmitReceipt(i) PROVE IInv'
  <1> DEFINE x == outMessages[Pair][i].amount
             old == balanceA[Sender]
  <1>1. Settle(i) /\ UNCHANGED <<balanceB, issues, issued, touched>>
    BY DEF SubmitReceipt
  <1>2. UNCHANGED <<varsDst, varsHub>>
    BY <1>1 DEF Settle
  <1>3. RelayInv'
    BY <1>1, <1>2, SettleInv DEF IInv
  <1>4. /\ i <= outterMeta[Pair] /\ called[Pair][i] = <<>>
        /\ called' = [called EXCEPT ![Pair][i] =
                        IF hub[i] = Success THEN <<"callback">> ELSE <<"rollback">>]
        /\ CallsRollback(i) <=> hub[i] # Success
        /\ UNCHANGED <<outterMeta, outMessages>>
    BY <1>1, SettleEffect DEF IInv
  <1>5. i \notin refunded
    <2>1. <<>> # <<"rollback">>
      OBVIOUS
    <2> QED BY <1>4, <2>1 DEF IInv, RefundsCalled
  <1>6. /\ i \in 1 .. outterMeta[Pair] /\ x \in 0 .. Word - 1
        /\ Refunds(i) \in Int
    <2>1. i \in 1 .. outterMeta[Pair]
      BY <1>4, Types DEF IInv, Indices
    <2> QED BY <2>1, MessageAt DEF IInv
  <1>7. Total(balanceA) \in Int /\ Total(balanceB) \in Int /\ OnTheWay \in Int /\ issued \in Int
    BY Ledgers, OnTheWayInt DEF IInv
  <1>8. Total(balanceB)' = Total(balanceB) + 0 /\ issued' = issued + 0
    BY <1>1, <1>7
  <1>9. ASSUME NEW j \in 1 .. outterMeta[Pair], j \in refunded' <=> j \in refunded
        PROVE  Credits(j)' = Credits(j) /\ Refunds(j)' = Refunds(j) /\ Way(j)' = Way(j)
    BY <1>2, <1>4, <1>9, WayFrame DEF varsDst
  <1>10. CASE CallsRollback(i) /\ LedgerA!Exists(Sender)
    <2> DEFINE y == (old + x) % Word
    <2>1. /\ balanceA' = [balanceA EXCEPT ![Sender] = y]
          /\ refunded' = refunded \union {i} /\ old # Missing
      BY <1>10 DEF SubmitReceipt, LedgerA!InterchainRollback, LedgerA!Exists
    <2>2. old \in 0 .. Word - 1 /\ old \in Cells
      <3>1. old \in Cells
        BY Ledgers DEF IInv
      <3> QED BY <2>1, <3>1 DEF Cells
    <2>3. y \in 0 .. Word - 1 /\ Multiple(y - (old + x)) /\ y \in Cells
      <3>1. old + x \in Int
        BY <1>6, <2>2
      <3> HIDE DEF old, x
      <3> QED BY <3>1, ModOf DEF Cells
    <2>4. /\ balanceA' \in [{Sender} -> Cells]
          /\ Total(balanceA)' = Total(balanceA) + Amount(y) - Amount(old)
      BY <2>1, <2>3, ChangeA DEF IInv
    <2>5. TypeOK'
      BY <1>1, <1>3, <2>1, <2>4, Ledgers, TypeParts DEF IInv, TypeOK
    <2>6. RefundsCalled'
      <3> SUFFICES ASSUME NEW j \in refunded' PROVE called'[Pair][j] = <<"rollback">>
        BY DEF RefundsCalled
      <3>1. CASE j = i
        BY <1>4, <1>10, <3>1, Types DEF IInv
      <3>2. CASE j # i
        <4>1. called[Pair][j] = <<"rollback">>
          BY <2>1, <3>2 DEF IInv, RefundsCalled
        <4>2. called'[Pair][j] = called[Pair][j]
          BY <1>4, <3>2, Types DEF IInv
        <4> QED BY <4>1, <4>2
      <3> QED BY <3>1, <3>2
    <2>7. Conservation'
      <3> DEFINE m == y - (old + x)
      <3>1. Way(i)' = Way(i) + (-x)
        <4>1. Credits(i)' = Credits(i)
          BY <1>2 DEF Credits, varsDst
        <4>2. Refunds(i)' = Refunds(i) + 1
          BY <1>5, <2>1 DEF Refunds
        <4> QED BY <1>4, <1>6, <4>1, <4>2, WayChange DEF IInv
      <3>2. \A j \in 1 .. outterMeta[Pair] : j # i => Way(j)' = Way(j)
        BY <1>9, <2>1
      <3>3. OnTheWay' = OnTheWay + (-x)
        <4>1. -x \in Int
          BY <1>6
        <4> HIDE DEF x
        <4> QED BY <1>4, <1>6, <3>1, <3>2, <4>1, WayOne DEF IInv
      <3>4. Total(balanceA)' = Total(balanceA) + (x + m) /\ m \in Int
        <4>1. Amount(y) = y /\ Amount(old) = old
          BY <2>2, <2>3, MissingAssumption DEF Amount
        <4> HIDE DEF old, x, y
        <4> QED BY <1>6, <1>7, <2>2, <2>3, <2>4, <4>1
      <3>5. Multiple(m)
        BY <2>3
      <3> HIDE DEF m
      <3>6. (x + m) + 0 + (-x) = 0 + m /\ x + m \in Int /\ 0 \in Int /\ -x \in Int
        BY <1>6, <3>4
      <3> HIDE DEF x
      <3> QED BY <1>8, <3>3, <3>4, <3>5, <3>6, Conserve, Zenon
    <2> QED BY <1>3, <2>5, <2>6, <2>7 DEF IInv
  <1>11. CASE ~(CallsRollback(i) /\ LedgerA!Exists(Sender))
    <2>1. UNCHANGED <<balanceA, refunded>>
      BY <1>11 DEF SubmitReceipt
    <2>2. TypeOK'
      BY <1>1, <1>3, <2>1, Ledgers, TypeParts DEF IInv, TypeOK
    <2>3. RefundsCalled'
      <3> SUFFICES ASSUME NEW j \in refunded PROVE called'[Pair][j] = <<"rollback">>
        BY <2>1 DEF RefundsCalled
      <3>1. j # i /\ called[Pair][j] = <<"rollback">>
        BY <1>5 DEF IInv, RefundsCalled
      <3>2. called'[Pair][j] = called[Pair][j]
        BY <1>4, <3>1, Types DEF IInv
      <3> QED BY <3>1, <3>2
    <2>4. Conservation'
      <3>1. OnTheWay' = OnTheWay + 0
        <4>1. \A j \in 1 .. outterMeta[Pair] : Way(j)' = Way(j)
          BY <1>9, <2>1
        <4> QED BY <1>4, <1>7, <4>1, WaySame DEF IInv
      <3>2. Total(balanceA)' = Total(balanceA) + 0
        BY <1>7, <2>1
      <3>3. 0 + 0 + 0 = 0 + 0 /\ 0 \in Int /\ Multiple(0)
        BY Multiples
      <3> QED BY <1>8, <3>1, <3>2, <3>3, Conserve, Zenon
    <2> QED BY <1>3, <2>2, <2>3, <2>4 DEF IInv
  <1> QED BY <1>10, <1>11

(* What a submission does to B's ledger and to the credits of a transfer,  *)
(* if the receiver can be charged: a credit, or its reversal.              *)
LEMMA ChargeEffect ==
  ASSUME TypeOK, NEW r \in AccountsB, NEW x \in 0 .. Word - 1, NEW back \in BOOLEAN,
         LedgerB!InterchainCharge(r, x, back)
  PROVE  /\ balanceB' \in [AccountsB -> Cells]
         /\ ~back => \E m : Multiple(m) /\ Total(balanceB)' = Total(balanceB) + (x + m)
         /\ back => \E m : Multiple(m) /\ Total(balanceB)' = Total(balanceB) + (-x + m)
  <1> DEFINE old == balanceB[r]
             z == IF back THEN old - x ELSE old + x
             y == z % Word
  <1>1. old # Missing /\ balanceB' = [balanceB EXCEPT ![r] = y]
    BY DEF LedgerB!InterchainCharge, LedgerB!Exists
  <1>2. old \in 0 .. Word - 1 /\ old \in Cells
    <2>1. old \in Cells
      BY Ledgers
    <2> QED BY <1>1, <2>1 DEF Cells
  <1>3. z \in Int
    BY <1>2
  <1>4. y \in 0 .. Word - 1 /\ Multiple(y - z) /\ y \in Cells
    <2> HIDE DEF z
    <2> QED BY <1>3, ModOf DEF Cells
  <1>5. /\ balanceB' \in [AccountsB -> Cells]
        /\ Total(balanceB)' = Total(balanceB) + Amount(y) - Amount(old)
    <2> HIDE DEF y
    <2> QED BY <1>1, <1>4, ChangeB
  <1>6. Amount(y) = y /\ Amount(old) = old
    <2> HIDE DEF old, y
    <2> QED BY <1>2, <1>4, MissingAssumption DEF Amount
  <1>7. Total(balanceB) \in Int
    BY Ledgers
  <1> DEFINE m == y - z
  <1>8. ~back => Total(balanceB)' = Total(balanceB) + (x + m)
    <2>1. ~back => z = old + x
      OBVIOUS
    <2> HIDE DEF old, y, z
    <2> QED BY <1>2, <1>3, <1>4, <1>5, <1>6, <1>7, <2>1
  <1>9. back => Total(balanceB)' = Total(balanceB) + (-x + m)
    <2>1. back => z = old - x
      OBVIOUS
    <2> HIDE DEF old, y, z
    <2> QED BY <1>2, <1>3, <1>4, <1>5, <1>6, <1>7, <2>1
  <1>10. Multiple(m)
    BY <1>4
  <1> HIDE DEF m
  <1> QED BY <1>5, <1>8, <1>9, <1>10

(* The three things a submission can do, and what each does to the money.  *)
LEMMA SubmitIBTPInv ==
  ASSUME IInv, NEW i \in Indices, NEW st \in Opened, SubmitIBTP(i, st) PROVE IInv'
  <1> DEFINE x == outMessages[Pair][i].amount
             r == outMessages[Pair][i].receiver
             ok == LedgerB!Exists(r)
  <1>1. /\ Deliver(i, st, ok, NoPayload)
        /\ IF Dst!CallMade(Pair, i, st) /\ ok
           THEN LedgerB!InterchainCharge(r, x, st # Begin)
           ELSE UNCHANGED balanceB
        /\ UNCHANGED <<balanceA, issues, issued, touched, refunded>>
    BY DEF SubmitIBTP, history
  <1>2. ok \in BOOLEAN
    BY DEF LedgerB!Exists
  <1>3. /\ <<i, st>> \in ibtps
        /\ \/ st = Begin /\ Executes(i, ok, NoPayload)
           \/ st # Begin /\ Reverses(i, ok, NoPayload)
           \/ st # Begin /\ Cancels(i)
        /\ UNCHANGED <<varsSrc, varsHub>>
    <2> HIDE DEF ok
    <2> QED BY <1>1, <1>2, DeliverEffect DEF IInv
  <1>4. RelayInv'
    <2> HIDE DEF ok
    <2> QED BY <1>1, <1>2, DeliverInv DEF IInv
  <1>5. i \in 1 .. outterMeta[Pair]
    <2>1. hub[i] # None
      <3>1. None \notin {BeginFailure, BeginRollback, Failure, Rollback}
        BY DEF None, BeginFailure, BeginRollback, Failure, Rollback
      <3> QED BY <1>3, <3>1, FetchedAt DEF IInv, Opened
    <2>2. i <= outterMeta[Pair]
      BY <2>1 DEF IInv, RelayInv, HubBehind
    <2> QED BY <2>2, Types DEF IInv, Indices
  <1>6. x \in 0 .. Word - 1 /\ r \in AccountsB /\ Credits(i) = Net(applied[Pair][i])
    BY <1>5, MessageAt DEF IInv
  <1>7. UNCHANGED <<outterMeta, outMessages, called, refunded>>
    BY <1>1, <1>3 DEF varsSrc
  <1>8. RefundsCalled'
    BY <1>7, RefundsFrame DEF IInv
  <1>9. Total(balanceA) \in Int /\ Total(balanceB) \in Int /\ OnTheWay \in Int /\ issued \in Int
    BY Ledgers, OnTheWayInt DEF IInv
  <1>10. Total(balanceA)' = Total(balanceA) + 0 /\ issued' = issued + 0
    BY <1>1, <1>9
  <1>11. \A j \in 1 .. outterMeta[Pair] : j # i => Way(j)' = Way(j)
    <2> SUFFICES ASSUME NEW j \in 1 .. outterMeta[Pair], j # i PROVE Way(j)' = Way(j)
      OBVIOUS
    <2>1. applied'[Pair][j] = applied[Pair][j]
      <3>1. PICK v : applied' = [applied EXCEPT ![Pair][i] = v] \/ applied' = applied
        <4> HIDE DEF ok
        <4> QED BY <1>3 DEF Executes, Reverses, Cancels
      <3>2. applied \in [{Pair} -> [Indices -> Seq({"ok", "fail", "undone", "undofail"})]]
        BY Types DEF IInv
      <3>3. j \in Indices
        BY MessageAt DEF IInv
      <3> QED BY <3>1, <3>2, <3>3
    <2> QED BY <1>7, <2>1, WayFrame
  <1>12. Refunds(i)' = Refunds(i)
    BY <1>7 DEF Refunds
  <1>13. Credits(i)' = Net(applied'[Pair][i])
    BY DEF Credits, Net
  <1>14. ASSUME balanceB' = balanceB, Credits(i)' = Credits(i) PROVE IInv'
    <2>1. Way(i)' = Way(i) + 0
      BY <1>5, <1>7, <1>12, <1>14, WayChange DEF IInv
    <2>2. OnTheWay' = OnTheWay + 0
      BY <1>5, <1>7, <1>11, <2>1, WayOne DEF IInv
    <2>3. Total(balanceB)' = Total(balanceB) + 0
      BY <1>9, <1>14
    <2>4. 0 + 0 + 0 = 0 + 0 /\ 0 \in Int /\ Multiple(0)
      BY Multiples
    <2>5. Conservation'
      BY <1>10, <2>2, <2>3, <2>4, Conserve, Zenon
    <2>6. TypeOK'
      BY <1>1, <1>4, <1>14, Ledgers, TypeParts DEF IInv, TypeOK
    <2> QED BY <1>4, <1>8, <2>5, <2>6 DEF IInv
  <1>15. CASE st = Begin /\ Executes(i, ok, NoPayload)
    <2>1. Dst!CallMade(Pair, i, st) /\ applied[Pair][i] = <<>>
      BY <1>15 DEF Dst!CallMade, Begin, Executes
    <2>2. applied'[Pair][i] = IF ok THEN <<"ok">> ELSE <<"fail">>
      <3> HIDE DEF ok
      <3> QED BY <1>15, Types DEF IInv, Executes
    <2>3. CASE ok
      <3>1. /\ balanceB' \in [AccountsB -> Cells]
            /\ \E m : Multiple(m) /\ Total(balanceB)' = Total(balanceB) + (x + m)
        <4>1. LedgerB!InterchainCharge(r, x, FALSE)
          BY <1>1, <1>15, <2>1, <2>3
        <4> HIDE DEF x, r
        <4> QED BY <1>6, <4>1, ChargeEffect DEF IInv
      <3>2. Credits(i)' = Credits(i) + 1
        BY <1>6, <1>13, <2>1, <2>2, <2>3, NetOf
      <3>3. Way(i)' = Way(i) + (-x) /\ -x \in Int
        BY <1>5, <1>6, <1>7, <1>12, <3>2, WayChange DEF IInv
      <3>4. OnTheWay' = OnTheWay + (-x)
        <4> HIDE DEF x
        <4> QED BY <1>5, <1>7, <1>11, <3>3, WayOne DEF IInv
      <3>5. PICK m : Multiple(m) /\ Total(balanceB)' = Total(balanceB) + (x + m)
        BY <3>1
      <3>6. 0 + (x + m) + (-x) = 0 + m /\ 0 \in Int /\ x + m \in Int
        BY <1>6, <3>5, Multiples
      <3>7. Conservation'
        <4> HIDE DEF x
        <4> QED BY <1>10, <3>3, <3>4, <3>5, <3>6, Conserve, Zenon
      <3>8. TypeOK'
        BY <1>1, <1>4, <3>1, Ledgers, TypeParts DEF IInv, TypeOK
      <3> QED BY <1>4, <1>8, <3>7, <3>8 DEF IInv
    <2>4. CASE ~ok
      <3>1. Credits(i)' = Credits(i)
        BY <1>6, <1>13, <2>1, <2>2, <2>4, NetOf
      <3> QED BY <1>1, <1>14, <2>4, <3>1
    <2> QED BY <2>3, <2>4
  <1>16. CASE st # Begin /\ Reverses(i, ok, NoPayload)
    <2>1. Dst!CallMade(Pair, i, st)
      BY <1>16, Types DEF IInv, Dst!CallMade, Reverses, Indices
    <2>2. PICK a \in {"ok", "fail"} : applied[Pair][i] = <<a>>
      BY <1>16 DEF Reverses
    <2>3. applied'[Pair][i] = <<a, IF ok THEN "undone" ELSE "undofail">>
      <3> HIDE DEF ok
      <3> QED BY <1>16, <2>2, Types DEF IInv, Reverses
    <2>4. CASE ok
      <3>1. /\ balanceB' \in [AccountsB -> Cells]
            /\ \E m : Multiple(m) /\ Total(balanceB)' = Total(balanceB) + (-x + m)
        <4>1. LedgerB!InterchainCharge(r, x, TRUE)
          BY <1>1, <1>16, <2>1, <2>4
        <4> HIDE DEF x, r
        <4> QED BY <1>6, <4>1, ChargeEffect DEF IInv
      <3>2. Credits(i)' = Credits(i) - 1
        <4>1. applied'[Pair][i] = <<a, "undone">>
          BY <2>3, <2>4
        <4> QED BY <1>6, <1>13, <2>2, <4>1, NetOf
      <3>3. Way(i)' = Way(i) + x /\ x \in Int
        BY <1>5, <1>6, <1>7, <1>12, <3>2, WayChange DEF IInv
      <3>4. OnTheWay' = OnTheWay + x
        <4> HIDE DEF x
        <4> QED BY <1>5, <1>7, <1>11, <3>3, WayOne DEF IInv
      <3>5. PICK m : Multiple(m) /\ Total(balanceB)' = Total(balanceB) + (-x + m)
        BY <3>1
      <3>6. 0 + (-x + m) + x = 0 + m /\ 0 \in Int /\ -x + m \in Int
        BY <1>6, <3>5, Multiples
      <3>7. Conservation'
        <4> HIDE DEF x
        <4> QED BY <1>10, <3>3, <3>4, <3>5, <3>6, Conserve, Zenon
      <3>8. TypeOK'
        BY <1>1, <1>4, <3>1, Ledgers, TypeParts DEF IInv, TypeOK
      <3> QED BY <1>4, <1>8, <3>7, <3>8 DEF IInv
    <2>5. CASE ~ok
      <3>1. Credits(i)' = Credits(i)
        <4>1. applied'[Pair][i] = <<a, "undofail">>
          BY <2>3, <2>5
        <4> QED BY <1>6, <1>13, <2>2, <4>1, NetOf
      <3> QED BY <1>1, <1>14, <2>5, <3>1
    <2> QED BY <2>4, <2>5
  <1>17. CASE st # Begin /\ Cancels(i)
    <2>1. ~Dst!CallMade(Pair, i, st)
      <3>1. ~(innerMeta[Pair] >= i)
        BY <1>17, Types DEF IInv, Cancels, Indices
      <3> QED BY <1>17, <3>1 DEF Dst!CallMade, Begin
    <2>2. Credits(i)' = Credits(i)
      BY <1>17 DEF Cancels, Credits
    <2> QED BY <1>1, <1>14, <2>1, <2>2
  <1> QED BY <1>3, <1>15, <1>16, <1>17

(* A step that moves no money. *)
LEMMA QuietStep ==
  ASSUME IInv, RelayInv', UNCHANGED <<outterMeta, outMessages, called, applied, refunded>>,
         UNCHANGED <<balanceA, balanceB, issues, issued, touched>>
  PROVE  IInv'
  <1>1. RefundsCalled'
    BY RefundsFrame DEF IInv
  <1>2. TypeOK'
    BY Ledgers, TypeParts DEF IInv, TypeOK
  <1>3. OnTheWay' = OnTheWay
    <2>1. \A j \in 1 .. outterMeta[Pair] : Way(j)' = Way(j)
      BY WayFrame
    <2> QED BY <2>1, WaySame DEF IInv
  <1>4. Conservation'
    BY <1>3 DEF IInv, Conservation, Total
  <1> QED BY <1>1, <1>2, <1>4 DEF IInv

(* A step of the hub or of a pier moves no money. *)
LEMMA TransportStep ==
  ASSUME IInv, Transport, UNCHANGED <<ledgers, history>> PROVE IInv'
  <1>1. RelayInv'
    BY TransportInv DEF IInv
  <1>2. UNCHANGED <<varsSrc, varsDst>>
    BY DEF Transport, HubAccept, HubTimeout, Fetch, PollReceipt, HubReceipt
  <1>3. /\ UNCHANGED <<outterMeta, outMessages, called, applied, refunded>>
        /\ UNCHANGED <<balanceA, balanceB, issues, issued, touched>>
    BY <1>2 DEF varsSrc, varsDst, ledgers, history
  <1> QED BY <1>1, <1>3, QuietStep

(* The start: what Sender owns, and nothing else. *)
LEMMA InitInv == Init => IInv
  <1> SUFFICES ASSUME Init PROVE IInv
    OBVIOUS
  <1>1. RelayInv
    BY RelayInitInv DEF Init
  <1>2. /\ balanceA = [a \in {Sender} |-> Funds]
        /\ balanceB = [a \in AccountsB |-> IF a \in Absentees THEN Missing ELSE 0]
        /\ issues = 0 /\ issued = 0 /\ touched = {} /\ refunded = {}
    BY DEF Init
  <1>3. /\ balanceA \in [{Sender} -> Cells] /\ balanceB \in [AccountsB -> Cells]
        /\ Funds \in Int /\ Amount(Funds) = Funds
    BY <1>2, FundsAssumption DEF Cells, Amount
  <1>4. TypeOK
    <2>1. LedgerA!TypeOK /\ LedgerB!TypeOK
      BY <1>3 DEF LedgerA!TypeOK, LedgerB!TypeOK, LedgerA!Values, LedgerB!Values, Cells,
         AccountsB
    <2>2. issues \in 0 .. MaxIssues /\ issued \in 0 .. Word - 1
      BY <1>2, IssuesAssumption
    <2> QED BY <1>1, <1>2, <2>1, <2>2 DEF TypeOK, RelayInv
  <1>5. RefundsCalled
    BY <1>2 DEF RefundsCalled
  <1>6. Total(balanceA) = Funds
    <2> DEFINE f == [a \in {Sender} |-> Amount(balanceA[a])]
    <2>1. Total(balanceA) = Sum(f, {Sender})
      <3>1. DOMAIN balanceA = {Sender} /\ DOMAIN f = {Sender}
        BY <1>3
      <3>2. Total(balanceA) = SumFunction(f)
        BY <3>1 DEF Total
      <3> HIDE DEF f
      <3> QED BY <3>1, <3>2 DEF SumFunction, Sum
    <2>2. f[Sender] = Funds /\ \A a \in {Sender} : f[a] \in Int
      BY <1>2, <1>3
    <2> HIDE DEF f
    <2>3. Sum(f, {Sender}) = f[Sender] + Sum(f, {Sender} \ {Sender})
      BY <2>2, FS_Singleton, SumAny
    <2>4. Sum(f, {Sender} \ {Sender}) = 0
      <3>1. {Sender} \ {Sender} = {}
        OBVIOUS
      <3>2. Sum(f, {}) = 0
        BY FS_EmptySet, SumStep
      <3> QED BY <3>1, <3>2
    <2> QED BY <1>3, <2>1, <2>2, <2>3, <2>4
  <1>7. Total(balanceB) = 0
    <2> DEFINE f == [a \in AccountsB |-> Amount(balanceB[a])]
    <2>1. Total(balanceB) = Sum(f, AccountsB)
      <3>1. DOMAIN balanceB = AccountsB /\ DOMAIN f = AccountsB
        BY <1>3
      <3>2. Total(balanceB) = SumFunction(f)
        BY <3>1 DEF Total
      <3> HIDE DEF f
      <3> QED BY <3>1, <3>2 DEF SumFunction, Sum
    <2>2. \A a \in AccountsB : f[a] = 0
      BY <1>2 DEF Amount
    <2>3. IsFiniteSet(AccountsB)
      BY <1>4, Ledgers
    <2> HIDE DEF f
    <2> QED BY <2>1, <2>2, <2>3, SumZero
  <1>8. OnTheWay = 0
    <2>1. outterMeta[Pair] = 0
      BY DEF Init, RelayInit, Src!Init, Src!Zeros
    <2>2. PICK w : w = [i \in {} |-> 0]
      OBVIOUS
    <2>3. OnTheWay = Sum(w, 1 .. 0)
      BY <1>1, <2>1, OnTheWayIs
    <2>4. 1 .. 0 = {}
      OBVIOUS
    <2>5. Sum(w, {}) = 0
      BY FS_EmptySet, SumStep
    <2> QED BY <2>3, <2>4, <2>5
  <1>9. Conservation
    BY <1>2, <1>3, <1>6, <1>7, <1>8 DEF Conservation
  <1> QED BY <1>1, <1>4, <1>5, <1>9 DEF IInv

-----------------------------------------------------------------------------

(* Every step keeps the invariant. *)
LEMMA NextInv == IInv /\ [Next]_vars => IInv'
  <1> SUFFICES ASSUME IInv, [Next]_vars PROVE IInv'
    OBVIOUS
  <1>1. CASE \E e \in Events : TransferAtoB(e)
    BY <1>1, TransferAtoBInv
  <1>2. CASE \E i \in Indices, st \in Opened : SubmitIBTP(i, st)
    BY <1>2, SubmitIBTPInv
  <1>3. CASE \E i \in Indices : SubmitReceipt(i)
    BY <1>3, SubmitReceiptInv
  <1>4. CASE \E r \in Receivers, x \in Amounts : Spend(r, x) \/ TransferToSelf(r, x)
    BY <1>4, SpendInv, TransferToSelfInv
  <1>5. CASE \E a \in {Sender} \union AccountsB, v \in Settings : SetBalance(a, v)
    BY <1>5, SetBalanceInv
  <1>6. CASE Transport /\ UNCHANGED <<ledgers, history>>
    BY <1>6, TransportStep
  <1>7. CASE UNCHANGED vars
    <2>1. UNCHANGED varsRelay
      BY <1>7 DEF vars
    <2>2. RelayInv'
      BY <2>1, RelayFrame DEF IInv
    <2>3. /\ UNCHANGED <<outterMeta, outMessages, called, applied, refunded>>
          /\ UNCHANGED <<balanceA, balanceB, issues, issued, touched>>
      BY <1>7, <2>1 DEF vars, varsRelay, varsSrc, varsDst, ledgers, history
    <2> QED BY <2>2, <2>3, QuietStep
  <1> QED BY <1>1, <1>2, <1>3, <1>4, <1>5, <1>6, <1>7 DEF Next

(* The invariant of transfers end to end. *)
THEOREM Invariance == Spec => []IInv
  BY InitInv, NextInv, PTL DEF Spec

(* The state of both chains, of the hub and of the ledgers keeps its type. *)
THEOREM TypeCorrect == Spec => []TypeOK
  <1>1. IInv => TypeOK
    BY DEF IInv
  <1> QED BY <1>1, Invariance, PTL

(* A transfer A was told succeeded is credited on B, for good: whatever    *)
(* times out, is retried or arrives late.                                  *)
THEOREM CommitMeansCreditedAlways == Spec => []CommitMeansCredited
  <1>1. IInv => CommitMeansCredited
    BY SuccessApplied DEF IInv, RelayInv, VerdictsKept, SuccessMeansApplied,
       CommitMeansCredited
  <1> QED BY <1>1, Invariance, PTL

(* Money is only made or destroyed by setBalance and by transfers to       *)
(* oneself: whatever the number and the amounts of transfers, the accounts *)
(* and the word size, a verdict pays at most one refund and a submission   *)
(* credits as much as it takes off the way.                                *)
THEOREM ConservationAlways == Spec => []Conservation
  <1>1. IInv => Conservation
    BY DEF IInv
  <1> QED BY <1>1, Invariance, PTL

-----------------------------------------------------------------------------

(* What becomes of a transfer that A rolled back.  Its credit and its      *)
(* refund find their accounts, unless somebody set them.                   *)
OpenA    == balanceA[Sender] # Missing \/ Sender \in touched
OpenB(a) == balanceB[a] # Missing \/ a \in touched

CallsMade == {<<>>, <<"ok">>, <<"fail">>, <<"ok", "undone">>, <<"ok", "undofail">>,
              <<"fail", "undone">>, <<"fail", "undofail">>}

CreditsFound ==
  \A i \in Indices :
    /\ applied[Pair][i] \in CallsMade
    /\ applied[Pair][i] = <<"ok">> => OpenB(outMessages[Pair][i].receiver)
    /\ applied[Pair][i] = <<"ok", "undofail">> => outMessages[Pair][i].receiver \in touched

RefundsPaid ==
  /\ OpenA
  /\ \A i \in Indices :
       called[Pair][i] = <<"rollback">> => i \in refunded \/ Sender \in touched

OrderedInv == IInv /\ OrderInv /\ CreditsFound /\ RefundsPaid

(* A balance that is written stays readable. *)
LEMMA StaysOpen ==
  ASSUME NEW A, NEW b, b \in [A -> Cells], NEW a \in A, NEW y \in 0 .. Word - 1,
         NEW c, c = [b EXCEPT ![a] = y]
  PROVE  \A x \in A : b[x] # Missing => c[x] # Missing
  BY MissingAssumption

(* No step but setBalance makes an account unreadable. *)
LEMMA OpenKept ==
  ASSUME IInv, Next
  PROVE  /\ touched \subseteq touched'
         /\ OpenA => OpenA'
         /\ \A a \in AccountsB : (OpenB(a) => OpenB(a)')
  <1>1. balanceA \in [{Sender} -> Cells] /\ balanceB \in [AccountsB -> Cells]
    BY Ledgers DEF IInv
  <1> DEFINE kept ==
               /\ touched \subseteq touched'
               /\ balanceA[Sender] # Missing => balanceA'[Sender] # Missing \/ Sender \in touched'
               /\ \A a \in AccountsB : balanceB[a] # Missing =>
                                         balanceB'[a] # Missing \/ a \in touched'
  <1>2. SUFFICES kept
    BY DEF OpenA, OpenB
  <1>3. ASSUME NEW e \in Events, TransferAtoB(e) PROVE kept
    <2> DEFINE y == balanceA[Sender] - e.amount
    <2>1. /\ balanceA[Sender] # Missing /\ balanceA[Sender] >= e.amount
          /\ balanceA' = [balanceA EXCEPT ![Sender] = y]
          /\ UNCHANGED <<balanceB, touched>>
      BY <1>3 DEF TransferAtoB, LedgerA!TransferOut, LedgerA!Exists, history
    <2>2. balanceA[Sender] \in 0 .. Word - 1 /\ e.amount \in 0 .. Word - 1
      BY <1>1, <2>1, EventAt DEF Cells
    <2>3. y \in 0 .. Word - 1
      BY <2>1, <2>2
    <2>4. Sender \in {Sender}
      OBVIOUS
    <2> HIDE DEF y
    <2>5. \A x \in {Sender} : balanceA[x] # Missing => balanceA'[x] # Missing
      BY <1>1, <2>1, <2>3, <2>4, StaysOpen
    <2> QED BY <2>1, <2>5
  <1>4. ASSUME NEW i \in Indices, NEW st \in Opened, SubmitIBTP(i, st) PROVE kept
    <2>1. UNCHANGED <<balanceA, touched>>
      BY <1>4 DEF SubmitIBTP, history
    <2>2. CASE UNCHANGED balanceB
      BY <2>1, <2>2
    <2>3. CASE LedgerB!InterchainCharge(outMessages[Pair][i].receiver,
                                        outMessages[Pair][i].amount, st # Begin)
      <3> DEFINE r == outMessages[Pair][i].receiver
                 x == outMessages[Pair][i].amount
                 z == IF st # Begin THEN balanceB[r] - x ELSE balanceB[r] + x
                 y == z % Word
      <3>1. i \in 1 .. outterMeta[Pair]
        <4>1. <<i, st>> \in ibtps
          BY <1>4 DEF SubmitIBTP, Deliver
        <4>2. hub[i] # None
          <5>1. None \notin {BeginFailure, BeginRollback, Failure, Rollback}
            BY DEF None, BeginFailure, BeginRollback, Failure, Rollback
          <5> QED BY <4>1, <5>1, FetchedAt DEF IInv, Opened
        <4> QED BY <4>2, Types DEF IInv, RelayInv, HubBehind, Indices
      <3>2. r \in AccountsB /\ x \in 0 .. Word - 1
        BY <3>1, MessageAt DEF IInv
      <3>3. balanceB[r] # Missing /\ balanceB' = [balanceB EXCEPT ![r] = y]
        BY <2>3 DEF LedgerB!InterchainCharge, LedgerB!Exists
      <3>4. y \in 0 .. Word - 1
        <4>1. z \in Int
          BY <1>1, <3>2, <3>3 DEF Cells
        <4> HIDE DEF z
        <4> QED BY <4>1, ModOf
      <3> HIDE DEF r, y
      <3>5. \A a \in AccountsB : balanceB[a] # Missing => balanceB'[a] # Missing
        BY <1>1, <3>2, <3>3, <3>4, StaysOpen
      <3> QED BY <2>1, <3>5
    <2> QED BY <1>4, <2>2, <2>3 DEF SubmitIBTP
  <1>5. ASSUME NEW i \in Indices, SubmitReceipt(i) PROVE kept
    <2>1. UNCHANGED <<balanceB, touched>>
      BY <1>5 DEF SubmitReceipt
    <2>2. CASE UNCHANGED balanceA
      BY <2>1, <2>2
    <2>3. CASE CallsRollback(i) /\ LedgerA!Exists(Sender)
      <3> DEFINE x == outMessages[Pair][i].amount
                 z == balanceA[Sender] + x
                 y == z % Word
      <3>1. balanceA[Sender] # Missing /\ balanceA' = [balanceA EXCEPT ![Sender] = y]
        BY <1>5, <2>3 DEF SubmitReceipt, LedgerA!InterchainRollback, LedgerA!Exists
      <3>2. x \in 0 .. Word - 1
        <4>1. i \in 1 .. outterMeta[Pair]
          BY <1>5, SettleEffect, Types DEF SubmitReceipt, IInv, Indices
        <4> QED BY <4>1, MessageAt DEF IInv
      <3>3. y \in 0 .. Word - 1
        <4>1. z \in Int
          BY <1>1, <3>1, <3>2 DEF Cells
        <4> HIDE DEF z
        <4> QED BY <4>1, ModOf
      <3>4. Sender \in {Sender}
        OBVIOUS
      <3> HIDE DEF y
      <3>5. \A a \in {Sender} : balanceA[a] # Missing => balanceA'[a] # Missing
        BY <1>1, <3>1, <3>3, <3>4, StaysOpen
      <3> QED BY <2>1, <3>5
    <2> QED BY <1>5, <2>2, <2>3 DEF SubmitReceipt
  <1>6. ASSUME NEW s \in AccountsB, NEW r \in AccountsB, NEW x \in Amounts,
               LedgerB!LocalTransfer(s, r, x), UNCHANGED <<balanceA, touched>>
        PROVE  kept
    <2> DEFINE p == balanceB[s] - x
               z == balanceB[r] + x
               q == z % Word
    <2>1. /\ balanceB[s] # Missing /\ balanceB[r] # Missing /\ balanceB[s] >= x
          /\ balanceB' = [balanceB EXCEPT ![s] = p, ![r] = q]
      BY <1>6 DEF LedgerB!LocalTransfer, LedgerB!Exists
    <2>2. x \in 0 .. Word - 1 /\ balanceB[s] \in 0 .. Word - 1 /\ balanceB[r] \in 0 .. Word - 1
      BY <1>1, <2>1, AmountsAssumption DEF Cells
    <2>3. p \in 0 .. Word - 1
      BY <2>1, <2>2
    <2>4. q \in 0 .. Word - 1
      <3>1. z \in Int
        BY <2>2
      <3> HIDE DEF z
      <3> QED BY <3>1, ModOf
    <2> HIDE DEF p, q
    <2>5. \A a \in AccountsB : balanceB[a] # Missing => balanceB'[a] # Missing
      BY <1>1, <2>1, <2>3, <2>4, MissingAssumption
    <2> QED BY <1>6, <2>5
  <1>7. ASSUME NEW r \in Receivers, NEW x \in Amounts, Spend(r, x) \/ TransferToSelf(r, x)
        PROVE  kept
    <2>1. r \in AccountsB /\ Shop \in AccountsB
      BY DEF AccountsB
    <2>2. \E s \in AccountsB : LedgerB!LocalTransfer(r, s, x)
      BY <1>7, <2>1 DEF Spend, TransferToSelf
    <2>3. UNCHANGED <<balanceA, touched>>
      BY <1>7 DEF Spend, TransferToSelf, history
    <2> QED BY <1>6, <2>1, <2>2, <2>3
  <1>8. ASSUME NEW a \in {Sender} \union AccountsB, NEW v \in Settings, SetBalance(a, v)
        PROVE  kept
    <2>1. touched' = touched \union {a}
      BY <1>8 DEF SetBalance
    <2>2. /\ \A x \in {Sender} : x # a => balanceA'[x] = balanceA[x]
          /\ \A x \in AccountsB : x # a => balanceB'[x] = balanceB[x]
      BY <1>1, <1>8 DEF SetBalance, LedgerA!SetBalance, LedgerB!SetBalance
    <2> QED BY <2>1, <2>2
  <1>9. ASSUME Transport, UNCHANGED <<ledgers, history>> PROVE kept
    BY <1>9 DEF ledgers, history
  <1> QED BY <1>3, <1>4, <1>5, <1>7, <1>8, <1>9 DEF Next

(* Two calls differ from one. *)
LEMMA ShapesDiffer ==
  /\ <<"ok">> # <<"ok", "undofail">> /\ <<"fail">> # <<"ok", "undofail">>
  /\ \A x \in {"ok", "fail"}, y \in {"undone", "undofail"} :
       <<x, y>> = <<"ok", "undofail">> => x = "ok" /\ y = "undofail"
  <1>1. ASSUME NEW x \in {"ok", "fail"}, NEW y \in {"undone", "undofail"},
               <<x, y>> = <<"ok", "undofail">>
        PROVE  x = "ok" /\ y = "undofail"
    BY <1>1
  <1>2. <<"ok">> # <<"ok", "undofail">> /\ <<"fail">> # <<"ok", "undofail">>
    OBVIOUS
  <1> QED BY <1>1, <1>2

(* The transfers whose calls a step leaves alone. *)
LEMMA FoundFrame ==
  ASSUME IInv, Next, NEW i \in Indices, UNCHANGED outMessages[Pair][i],
         UNCHANGED applied[Pair][i], CreditsFound
  PROVE  /\ applied'[Pair][i] \in CallsMade
         /\ applied'[Pair][i] = <<"ok">> => OpenB(outMessages[Pair][i].receiver)'
         /\ applied'[Pair][i] = <<"ok", "undofail">> =>
              outMessages'[Pair][i].receiver \in touched'
  <1>1. CASE applied[Pair][i] = <<>>
    <2>1. applied'[Pair][i] # <<"ok">> /\ applied'[Pair][i] # <<"ok", "undofail">>
      BY <1>1, Calls
    <2> QED BY <1>1, <2>1 DEF CallsMade
  <1>2. CASE applied[Pair][i] # <<>>
    <2>1. i \in 1 .. outterMeta[Pair]
      <3>1. i <= innerMeta[Pair]
        BY <1>2, DstAt DEF IInv
      <3> QED BY <3>1, Types DEF IInv, RelayInv, HubBehind, Indices
    <2>2. PICK r \in AccountsB : r = outMessages[Pair][i].receiver
      BY <2>1, MessageAt DEF IInv
    <2>3. /\ OpenB(r) => OpenB(r)'
          /\ touched \subseteq touched'
      BY OpenKept
    <2>4. OpenB(outMessages[Pair][i].receiver)' <=> OpenB(r)'
      BY <2>2 DEF OpenB
    <2>5. /\ applied[Pair][i] \in CallsMade
          /\ applied[Pair][i] = <<"ok">> => OpenB(r)
          /\ applied[Pair][i] = <<"ok", "undofail">> => r \in touched
      BY <2>2 DEF CreditsFound
    <2> QED BY <2>2, <2>3, <2>4, <2>5
  <1> QED BY <1>1, <1>2

(* Each part of the invariant after a step that makes no call on B, *)
LEMMA FoundQuiet ==
  ASSUME IInv, Next, CreditsFound, UNCHANGED applied,
         \A i \in Indices : i <= outterMeta[Pair] => UNCHANGED outMessages[Pair][i]
  PROVE  CreditsFound'
  <1> SUFFICES ASSUME NEW i \in Indices
               PROVE  /\ applied'[Pair][i] \in CallsMade
                      /\ applied'[Pair][i] = <<"ok">> => OpenB(outMessages[Pair][i].receiver)'
                      /\ applied'[Pair][i] = <<"ok", "undofail">> =>
                           outMessages'[Pair][i].receiver \in touched'
    BY DEF CreditsFound
  <1>1. CASE i <= outterMeta[Pair]
    BY <1>1, FoundFrame
  <1>2. CASE ~(i <= outterMeta[Pair])
    <2>1. applied[Pair][i] = <<>>
      <3>1. ~(i <= innerMeta[Pair])
        BY <1>2, Types DEF IInv, RelayInv, HubBehind, Indices
      <3> QED BY <3>1, DstAt DEF IInv
    <2>2. applied'[Pair][i] # <<"ok">> /\ applied'[Pair][i] # <<"ok", "undofail">>
      BY <2>1, Calls
    <2> QED BY <2>1, <2>2 DEF CallsMade
  <1> QED BY <1>1, <1>2

(* and after one that settles nothing on A. *)
LEMMA RefundsQuiet ==
  ASSUME IInv, Next, RefundsPaid, UNCHANGED called, refunded \subseteq refunded'
  PROVE  RefundsPaid'
  BY OpenKept DEF RefundsPaid

(* A submission finds the receiver's account, or it was set. *)
LEMMA SubmitIBTPFound ==
  ASSUME IInv, OrderInv, CreditsFound, RefundsPaid,
         NEW i \in Indices, NEW st \in Opened, SubmitIBTP(i, st), Next
  PROVE  OrderInv' /\ CreditsFound' /\ RefundsPaid'
  <1> DEFINE r == outMessages[Pair][i].receiver
             ok == LedgerB!Exists(r)
  <1>1. /\ Deliver(i, st, ok, NoPayload) /\ UNCHANGED <<balanceA, history>>
        /\ ok \in BOOLEAN /\ (ok <=> balanceB[r] # Missing)
    BY DEF SubmitIBTP, LedgerB!Exists
  <1>2. UNCHANGED <<varsSrc, varsHub>>
    BY <1>1 DEF Deliver
  <1> HIDE DEF ok
  <1>3. OrderInv'
    BY <1>1, DeliverOrder DEF IInv
  <1>4. RefundsPaid'
    BY <1>1, <1>2, RefundsQuiet DEF varsSrc, history
  <1>5. /\ \A j \in Indices : j # i =>
             /\ applied'[Pair][j] = applied[Pair][j]
             /\ receiptMessages'[Pair][j] = receiptMessages[Pair][j]
        /\ st = Begin =>
             /\ applied[Pair][i] = <<>>
             /\ applied'[Pair][i] = IF ok THEN <<"ok">> ELSE <<"fail">>
        /\ st # Begin =>
             \/ applied[Pair][i] = <<>> /\ applied'[Pair][i] = <<>>
             \/ \E x \in {"ok", "fail"} :
                  /\ applied[Pair][i] = <<x>>
                  /\ applied'[Pair][i] = <<x, IF ok THEN "undone" ELSE "undofail">>
    BY <1>1, CallsEffect DEF IInv
  <1>6. i \in 1 .. outterMeta[Pair]
    <2>1. <<i, st>> \in ibtps
      BY <1>1 DEF Deliver
    <2>2. hub[i] # None
      <3>1. None \notin {BeginFailure, BeginRollback, Failure, Rollback}
        BY DEF None, BeginFailure, BeginRollback, Failure, Rollback
      <3> QED BY <2>1, <3>1, FetchedAt DEF IInv, Opened
    <2> QED BY <2>2, Types DEF IInv, RelayInv, HubBehind, Indices
  <1>7. r \in AccountsB /\ UNCHANGED <<outMessages, touched>>
    BY <1>1, <1>2, <1>6, MessageAt DEF IInv, varsSrc, history
  <1>8. CreditsFound'
    <2> SUFFICES ASSUME NEW j \in Indices
                 PROVE  /\ applied'[Pair][j] \in CallsMade
                        /\ applied'[Pair][j] = <<"ok">> => OpenB(outMessages[Pair][j].receiver)'
                        /\ applied'[Pair][j] = <<"ok", "undofail">> =>
                             outMessages'[Pair][j].receiver \in touched'
      BY DEF CreditsFound
    <2>1. CASE j # i
      BY <1>5, <1>7, <2>1, FoundFrame
    <2>2. CASE j = i
      <3>1. (OpenB(r) => OpenB(r)') /\ (ok => OpenB(r))
        BY <1>1, <1>7, OpenKept DEF OpenB
      <3>2. OpenB(outMessages[Pair][i].receiver)' <=> OpenB(r)'
        BY <1>7 DEF OpenB
      <3>3. CASE st = Begin
        <4>1. applied'[Pair][i] = IF ok THEN <<"ok">> ELSE <<"fail">>
          BY <1>5, <3>3
        <4>2. applied'[Pair][i] # <<"ok", "undofail">>
          BY <4>1, ShapesDiffer
        <4>3. applied'[Pair][i] = <<"ok">> => ok
          BY <4>1, Calls
        <4> QED BY <2>2, <3>1, <3>2, <4>1, <4>2, <4>3 DEF CallsMade
      <3>4. CASE st # Begin /\ applied'[Pair][i] = <<>>
        BY <2>2, <3>4, Calls DEF CallsMade
      <3>5. CASE st # Begin /\ applied'[Pair][i] # <<>>
        <4>1. PICK x \in {"ok", "fail"} :
                /\ applied[Pair][i] = <<x>>
                /\ applied'[Pair][i] = <<x, IF ok THEN "undone" ELSE "undofail">>
          BY <1>5, <3>5
        <4>2. applied'[Pair][i] \in CallsMade /\ applied'[Pair][i] # <<"ok">>
          BY <4>1, Calls DEF CallsMade
        <4>3. ASSUME applied'[Pair][i] = <<"ok", "undofail">> PROVE r \in touched
          <5>1. x = "ok" /\ ~ok
            BY <4>1, <4>3, ShapesDiffer
          <5>2. OpenB(r)
            BY <4>1, <5>1 DEF CreditsFound
          <5> QED BY <1>1, <5>1, <5>2 DEF OpenB
        <4> QED BY <1>7, <2>2, <4>2, <4>3
      <3> QED BY <3>3, <3>4, <3>5
    <2> QED BY <2>1, <2>2
  <1> QED BY <1>3, <1>4, <1>8

(* A verdict pays the refund, or the sender's account was set. *)
LEMMA SubmitReceiptFound ==
  ASSUME IInv, OrderInv, CreditsFound, RefundsPaid, NEW i \in Indices, SubmitReceipt(i), Next
  PROVE  OrderInv' /\ CreditsFound' /\ RefundsPaid'
  <1>1. Settle(i) /\ UNCHANGED touched
    BY DEF SubmitReceipt
  <1>2. UNCHANGED <<varsDst, varsHub>>
    BY <1>1 DEF Settle
  <1>3. /\ called' = [called EXCEPT ![Pair][i] =
                        IF hub[i] = Success THEN <<"callback">> ELSE <<"rollback">>]
        /\ CallsRollback(i) <=> hub[i] # Success
        /\ UNCHANGED outMessages
    BY <1>1, SettleEffect DEF IInv
  <1>4. OrderInv'
    BY <1>2, OrderFrame DEF varsDst, varsHub
  <1>5. CreditsFound'
    BY <1>2, <1>3, FoundQuiet DEF varsDst
  <1>6. RefundsPaid'
    <2>1. OpenA'
      BY OpenKept DEF RefundsPaid
    <2>2. refunded \subseteq refunded'
      BY DEF SubmitReceipt
    <2>3. ASSUME NEW j \in Indices, called'[Pair][j] = <<"rollback">>
          PROVE  j \in refunded' \/ Sender \in touched'
      <3>1. CASE j # i
        <4>1. called[Pair][j] = <<"rollback">>
          BY <1>3, <2>3, <3>1, Types DEF IInv
        <4> QED BY <1>1, <2>2, <4>1 DEF RefundsPaid
      <3>2. CASE j = i
        <4>1. called'[Pair][i] = IF hub[i] = Success THEN <<"callback">> ELSE <<"rollback">>
          BY <1>3, Types DEF IInv
        <4>2. <<"callback">> # <<"rollback">>
          <5>1. <<"callback">>[1] # <<"rollback">>[1]
            OBVIOUS
          <5> QED BY <5>1
        <4>3. CallsRollback(i)
          BY <1>3, <2>3, <3>2, <4>1, <4>2
        <4>4. CASE LedgerA!Exists(Sender)
          BY <3>2, <4>3, <4>4 DEF SubmitReceipt
        <4>5. CASE ~LedgerA!Exists(Sender)
          <5>1. balanceA[Sender] = Missing
            BY <4>5 DEF LedgerA!Exists
          <5> QED BY <1>1, <5>1 DEF RefundsPaid, OpenA
        <4> QED BY <4>4, <4>5
      <3> QED BY <3>1, <3>2
    <2> QED BY <2>1, <2>3 DEF RefundsPaid
  <1> QED BY <1>4, <1>5, <1>6

(* The other steps make no call and settle nothing. *)
LEMMA OrderedQuiet ==
  ASSUME IInv, OrderInv, CreditsFound, RefundsPaid, Next,
         UNCHANGED <<varsRelay, refunded>>
  PROVE  OrderInv' /\ CreditsFound' /\ RefundsPaid'
  <1>1. OrderInv'
    BY OrderFrame DEF varsRelay, varsDst, varsHub
  <1>2. UNCHANGED <<applied, outMessages, called>>
    BY DEF varsRelay, varsSrc, varsDst
  <1>3. CreditsFound' /\ RefundsPaid'
    BY <1>2, FoundQuiet, RefundsQuiet
  <1> QED BY <1>1, <1>3

(* No call was made yet. *)
LEMMA OrderedInit == Init => OrderedInv
  <1> SUFFICES ASSUME Init PROVE OrderedInv
    OBVIOUS
  <1>1. IInv /\ OrderInv
    BY InitInv, OrderInitInv DEF Init
  <1>2. \A i \in Indices : applied[Pair][i] = <<>> /\ called[Pair][i] = <<>>
    BY DEF Init, RelayInit, Src!Init, Src!NoHistory, Src!Indices, Dst!Init, Dst!NoHistory,
       Dst!Indices, Indices
  <1>3. CreditsFound
    BY <1>2, Calls DEF CreditsFound, CallsMade
  <1>4. RefundsPaid
    <2>1. OpenA
      BY FundsAssumption, MissingAssumption DEF Init, OpenA
    <2>2. <<>> # <<"rollback">>
      OBVIOUS
    <2> QED BY <1>2, <2>1, <2>2 DEF RefundsPaid
  <1> QED BY <1>1, <1>3, <1>4 DEF OrderedInv

(* Every step keeps the order, the credits found and the refunds paid. *)
LEMMA OrderedNext ==
  ASSUME FailuresInOrder PROVE OrderedInv /\ [Next]_vars => OrderedInv'
  <1> SUFFICES ASSUME OrderedInv, [Next]_vars PROVE OrderInv' /\ CreditsFound' /\ RefundsPaid'
    BY NextInv DEF OrderedInv
  <1> USE DEF OrderedInv
  <1>1. CASE Next /\ \E e \in Events : TransferAtoB(e)
    <2>1. PICK e \in Events : TransferAtoB(e)
      BY <1>1
    <2>2. Emit(e) /\ UNCHANGED history
      BY <2>1 DEF TransferAtoB
    <2>3. UNCHANGED <<varsDst, varsHub>>
      BY <2>2 DEF Emit
    <2>4. OrderInv'
      BY <2>3, OrderFrame DEF varsDst, varsHub
    <2>5. PICK n : n = outterMeta[Pair] + 1
      OBVIOUS
    <2>6. /\ n \in Indices /\ ~(n <= outterMeta[Pair]) /\ UNCHANGED called
          /\ outMessages' = [outMessages EXCEPT ![Pair][n] = e]
      BY <2>2, <2>5, EmitEffect DEF IInv
    <2>7. \A i \in Indices : i <= outterMeta[Pair] => UNCHANGED outMessages[Pair][i]
      BY <2>6, Types DEF IInv
    <2>8. CreditsFound'
      BY <1>1, <2>3, <2>7, FoundQuiet DEF varsDst
    <2>9. RefundsPaid'
      BY <1>1, <2>2, <2>6, RefundsQuiet DEF history
    <2> QED BY <2>4, <2>8, <2>9
  <1>2. CASE Next /\ \E i \in Indices, st \in Opened : SubmitIBTP(i, st)
    BY <1>2, SubmitIBTPFound
  <1>3. CASE Next /\ \E i \in Indices : SubmitReceipt(i)
    BY <1>3, SubmitReceiptFound
  <1>4. CASE Next /\ \E r \in Receivers, x \in Amounts : Spend(r, x) \/ TransferToSelf(r, x)
    <2>1. UNCHANGED <<varsRelay, refunded>>
      BY <1>4 DEF Spend, TransferToSelf, history
    <2> QED BY <1>4, <2>1, OrderedQuiet
  <1>5. CASE Next /\ \E a \in {Sender} \union AccountsB, v \in Settings : SetBalance(a, v)
    <2>1. UNCHANGED <<varsRelay, refunded>>
      BY <1>5 DEF SetBalance
    <2> QED BY <1>5, <2>1, OrderedQuiet
  <1>6. CASE Next /\ Transport /\ UNCHANGED <<ledgers, history>>
    <2>1. OrderInv'
      BY <1>6, TransportOrder DEF IInv
    <2>2. UNCHANGED <<varsSrc, varsDst>>
      BY <1>6 DEF Transport, HubAccept, HubTimeout, Fetch, PollReceipt, HubReceipt
    <2>3. CreditsFound' /\ RefundsPaid'
      BY <1>6, <2>2, FoundQuiet, RefundsQuiet DEF varsSrc, varsDst, history
    <2> QED BY <2>1, <2>3
  <1>7. CASE UNCHANGED vars
    <2>1. /\ UNCHANGED <<innerMeta, dstRollbackMeta, receiptMessages, applied, hub, ibtps, receipts>>
          /\ UNCHANGED <<outMessages, called, balanceA, balanceB, touched, refunded>>
      BY <1>7 DEF vars, varsRelay, varsSrc, varsDst, varsHub, ledgers, history
    <2>2. OrderInv'
      BY <2>1, OrderFrame
    <2>3. CreditsFound' /\ RefundsPaid'
      BY <2>1 DEF CreditsFound, CallsMade, OpenB, RefundsPaid, OpenA
    <2> QED BY <2>2, <2>3
  <1> QED BY <1>1, <1>2, <1>3, <1>4, <1>5, <1>6, <1>7 DEF Next

(* When the hub gives a pair's messages up in order, a transfer that A     *)
(* rolled back is refunded, and B shows no credit for it or will accept    *)
(* the reversal: for any number of transfers, unless an account was set.   *)
THEOREM RefundReversibleAlways ==
  ASSUME FailuresInOrder PROVE Spec => []RefundReversible
  <1>1. OrderedInv => RefundReversible
    <2> SUFFICES ASSUME OrderedInv, NEW i \in Indices, called[Pair][i] = <<"rollback">>
                 PROVE  /\ i \in refunded \/ Sender \in touched
                        /\ Credits(i) = 1 =>
                             \/ hub[i] = BeginRollback /\ i > dstRollbackMeta[Pair]
                             \/ /\ applied[Pair][i] = <<"ok", "undofail">>
                                /\ outMessages[Pair][i].receiver \in touched
      BY DEF RefundReversible
    <2>1. i \in refunded \/ Sender \in touched
      BY DEF OrderedInv, RefundsPaid
    <2>2. \/ hub[i] = BeginRollback /\ ~(i <= dstRollbackMeta[Pair])
          \/ applied[Pair][i] # <<"ok">>
      BY RollbackReaches DEF OrderedInv, IInv
    <2>3. ~(i <= dstRollbackMeta[Pair]) => i > dstRollbackMeta[Pair]
      BY Types DEF OrderedInv, IInv, Indices
    <2>4. Credits(i) = 1 => applied[Pair][i] \in {<<"ok">>, <<"ok", "undofail">>}
      <3>1. Credits(i) = Net(applied[Pair][i])
        BY DEF Credits, Net
      <3>2. PICK s \in CallsMade : s = applied[Pair][i]
        BY DEF OrderedInv, CreditsFound
      <3>3. /\ Net(<<>>) # 1
            /\ Net(<<"fail">>) # 1
            /\ Net(<<"ok", "undone">>) # 1
            /\ Net(<<"fail", "undone">>) # 1
            /\ Net(<<"fail", "undofail">>) # 1
        BY NetOf
      <3>4. (Net(s) = 1) => s \in {<<"ok">>, <<"ok", "undofail">>}
        <4>1. \/ s \in {<<"ok">>, <<"ok", "undofail">>}
              \/ s = <<>>
              \/ s = <<"fail">>
              \/ s = <<"ok", "undone">>
              \/ s = <<"fail", "undone">>
              \/ s = <<"fail", "undofail">>
          BY Zenon DEF CallsMade
        <4> QED BY <4>1, <3>3, Zenon
      <3> QED BY <3>1, <3>2, <3>4
    <2>5. applied[Pair][i] = <<"ok", "undofail">> => outMessages[Pair][i].receiver \in touched
      BY DEF OrderedInv, CreditsFound
    <2> QED BY <2>1, <2>2, <2>3, <2>4, <2>5
  <1>2. OrderedInv /\ [Next]_vars => OrderedInv'
    BY OrderedNext
  <1> QED BY <1>1, <1>2, OrderedInit, PTL DEF Spec

-----------------------------------------------------------------------------

(* What B takes back without having given it.  An account that does not    *)
(* exist stays so, unless somebody sets it.                                *)
ShutB(a) == balanceB[a] = Missing \/ a \in touched

DebitAt(i) ==
  /\ applied[Pair][i] \in CallsMade
  /\ applied[Pair][i] = <<"fail">> => ShutB(outMessages[Pair][i].receiver)
  /\ applied[Pair][i] = <<"fail", "undone">> => outMessages[Pair][i].receiver \in touched

DebitInv == IInv /\ \A i \in Indices : DebitAt(i)

(* No step but setBalance brings an account into being. *)
LEMMA ShutKept ==
  ASSUME IInv, Next
  PROVE  \A a \in AccountsB : ShutB(a) => ShutB(a)'
  <1> DEFINE kept ==
               \A a \in AccountsB : balanceB[a] = Missing =>
                                      balanceB'[a] = Missing \/ a \in touched'
  <1>1. SUFFICES kept
    BY OpenKept DEF ShutB
  <1>2. balanceB \in [AccountsB -> Cells]
    BY Ledgers DEF IInv
  <1>3. CASE \E e \in Events : TransferAtoB(e)
    BY <1>3 DEF TransferAtoB
  <1>4. ASSUME NEW i \in Indices, NEW st \in Opened, SubmitIBTP(i, st) PROVE kept
    <2>1. CASE UNCHANGED balanceB
      BY <2>1
    <2>2. CASE LedgerB!InterchainCharge(outMessages[Pair][i].receiver,
                                        outMessages[Pair][i].amount, st # Begin)
      <3>1. PICK r, y : balanceB[r] # Missing /\ balanceB' = [balanceB EXCEPT ![r] = y]
        BY <2>2 DEF LedgerB!InterchainCharge, LedgerB!Exists
      <3> QED BY <1>2, <3>1
    <2> QED BY <1>4, <2>1, <2>2 DEF SubmitIBTP
  <1>5. CASE \E i \in Indices : SubmitReceipt(i)
    BY <1>5 DEF SubmitReceipt
  <1>6. ASSUME NEW r \in Receivers, NEW x \in Amounts, Spend(r, x) \/ TransferToSelf(r, x)
        PROVE  kept
    <2>1. PICK s : LedgerB!LocalTransfer(r, s, x)
      BY <1>6 DEF Spend, TransferToSelf
    <2>2. PICK y, z : /\ balanceB[r] # Missing /\ balanceB[s] # Missing
                      /\ balanceB' = [balanceB EXCEPT ![r] = y, ![s] = z]
      BY <2>1 DEF LedgerB!LocalTransfer, LedgerB!Exists
    <2> QED BY <1>2, <2>2
  <1>7. ASSUME NEW a \in {Sender} \union AccountsB, NEW v \in Settings, SetBalance(a, v)
        PROVE  kept
    <2>1. touched' = touched \union {a}
      BY <1>7 DEF SetBalance
    <2>2. \A x \in AccountsB : x # a => balanceB'[x] = balanceB[x]
      BY <1>2, <1>7 DEF SetBalance, LedgerB!SetBalance
    <2> QED BY <2>1, <2>2
  <1>8. CASE Transport /\ UNCHANGED <<ledgers, history>>
    BY <1>8 DEF ledgers
  <1> QED BY <1>3, <1>4, <1>5, <1>6, <1>7, <1>8 DEF Next

(* A failed call that was reversed is told from the others. *)
LEMMA FailShapes ==
  /\ <<>> # <<"fail">> /\ <<>> # <<"fail", "undone">>
  /\ <<"ok">> # <<"fail">> /\ <<"ok">> # <<"fail", "undone">>
  /\ <<"fail">> # <<"fail", "undone">>
  /\ \A x \in {"ok", "fail"}, y \in {"undone", "undofail"} :
       /\ <<x, y>> # <<"fail">>
       /\ <<x, y>> = <<"fail", "undone">> => x = "fail" /\ y = "undone"
  <1>1. ASSUME NEW x \in {"ok", "fail"}, NEW y \in {"undone", "undofail"},
               <<x, y>> = <<"fail", "undone">>
        PROVE  x = "fail" /\ y = "undone"
    BY <1>1
  <1>2. ASSUME NEW x \in {"ok", "fail"}, NEW y \in {"undone", "undofail"}
        PROVE  <<x, y>> # <<"fail">>
    <2>1. Len(<<x, y>>) = 2 /\ Len(<<"fail">>) = 1
      OBVIOUS
    <2> QED BY <2>1
  <1>3. /\ Len(<<>>) = 0 /\ Len(<<"fail">>) = 1 /\ Len(<<"ok">>) = 1
        /\ Len(<<"fail", "undone">>) = 2
    OBVIOUS
  <1>4. <<"ok">>[1] = "ok" /\ <<"fail">>[1] = "fail"
    OBVIOUS
  <1> QED BY <1>1, <1>2, <1>3, <1>4

(* A message whose calls a step leaves alone. *)
LEMMA DebitFrame ==
  ASSUME IInv, Next, NEW i \in Indices, UNCHANGED applied[Pair][i], DebitAt(i),
         i <= outterMeta[Pair] => UNCHANGED outMessages[Pair][i]
  PROVE  DebitAt(i)'
  <1>1. CASE applied[Pair][i] = <<>>
    BY <1>1, FailShapes DEF DebitAt, CallsMade
  <1>2. CASE applied[Pair][i] # <<>>
    <2>1. i \in 1 .. outterMeta[Pair]
      <3>1. i <= innerMeta[Pair]
        BY <1>2, DstAt DEF IInv
      <3> QED BY <3>1, Types DEF IInv, RelayInv, HubBehind, Indices
    <2>2. PICK r \in AccountsB : r = outMessages[Pair][i].receiver
      BY <2>1, MessageAt DEF IInv
    <2>3. outMessages'[Pair][i].receiver = r
      BY <2>1, <2>2
    <2>4. (ShutB(r) => ShutB(r)') /\ touched \subseteq touched'
      BY ShutKept, OpenKept
    <2>5. ShutB(outMessages[Pair][i].receiver)' <=> ShutB(r)'
      BY <2>3 DEF ShutB
    <2>6. /\ applied[Pair][i] \in CallsMade
          /\ applied[Pair][i] = <<"fail">> => ShutB(r)
          /\ applied[Pair][i] = <<"fail", "undone">> => r \in touched
      BY <2>2 DEF DebitAt
    <2>7. CallsMade' = CallsMade
      BY DEF CallsMade
    <2> QED BY <2>3, <2>4, <2>5, <2>6, <2>7 DEF DebitAt
  <1> QED BY <1>1, <1>2

(* A submission: a charge fails only for want of an account, and its       *)
(* reversal succeeds only with one.                                        *)
LEMMA SubmitIBTPDebit ==
  ASSUME IInv, \A j \in Indices : DebitAt(j),
         NEW i \in Indices, NEW st \in Opened, SubmitIBTP(i, st), Next
  PROVE  \A j \in Indices : DebitAt(j)'
  <1> DEFINE r == outMessages[Pair][i].receiver
             ok == LedgerB!Exists(r)
  <1>1. /\ Deliver(i, st, ok, NoPayload) /\ UNCHANGED history
        /\ ok \in BOOLEAN /\ (ok <=> balanceB[r] # Missing)
    BY DEF SubmitIBTP, LedgerB!Exists
  <1> HIDE DEF ok
  <1>2. /\ \A j \in Indices : j # i => applied'[Pair][j] = applied[Pair][j]
        /\ st = Begin => applied'[Pair][i] = IF ok THEN <<"ok">> ELSE <<"fail">>
        /\ st # Begin =>
             \/ applied'[Pair][i] = <<>>
             \/ \E x \in {"ok", "fail"} :
                  /\ applied[Pair][i] = <<x>>
                  /\ applied'[Pair][i] = <<x, IF ok THEN "undone" ELSE "undofail">>
    BY <1>1, CallsEffect DEF IInv
  <1>3. i \in 1 .. outterMeta[Pair]
    <2>1. <<i, st>> \in ibtps
      BY <1>1 DEF Deliver
    <2>2. hub[i] # None
      <3>1. None \notin {BeginFailure, BeginRollback, Failure, Rollback}
        BY DEF None, BeginFailure, BeginRollback, Failure, Rollback
      <3> QED BY <2>1, <3>1, FetchedAt DEF IInv, Opened
    <2> QED BY <2>2, Types DEF IInv, RelayInv, HubBehind, Indices
  <1>4. r \in AccountsB /\ UNCHANGED <<outMessages, touched>>
    BY <1>1, <1>3, MessageAt DEF IInv, Deliver, varsSrc, history
  <1>5. ASSUME NEW j \in Indices, j # i PROVE DebitAt(j)'
    BY <1>2, <1>4, <1>5, DebitFrame
  <1>6. (ShutB(r) => ShutB(r)') /\ (ShutB(outMessages[Pair][i].receiver)' <=> ShutB(r)')
    BY <1>4, ShutKept DEF ShutB
  <1>7. DebitAt(i)'
    <2>1. CASE st = Begin
      <3>1. applied'[Pair][i] = IF ok THEN <<"ok">> ELSE <<"fail">>
        BY <1>2, <2>1
      <3>2. applied'[Pair][i] = <<"fail">> => ShutB(r)
        BY <1>1, <3>1, FailShapes DEF ShutB
      <3>3. applied'[Pair][i] # <<"fail", "undone">>
        BY <3>1, FailShapes
      <3> QED BY <1>6, <3>1, <3>2, <3>3 DEF DebitAt, CallsMade
    <2>2. CASE applied'[Pair][i] = <<>>
      BY <2>2, FailShapes DEF DebitAt, CallsMade
    <2>3. CASE st # Begin /\ applied'[Pair][i] # <<>>
      <3>1. PICK x \in {"ok", "fail"} :
              /\ applied[Pair][i] = <<x>>
              /\ applied'[Pair][i] = <<x, IF ok THEN "undone" ELSE "undofail">>
        BY <1>2, <2>3
      <3>2. applied'[Pair][i] \in CallsMade /\ applied'[Pair][i] # <<"fail">>
        BY <3>1, FailShapes DEF CallsMade
      <3>3. ASSUME applied'[Pair][i] = <<"fail", "undone">> PROVE r \in touched
        <4>1. x = "fail" /\ ok
          BY <3>1, <3>3, FailShapes
        <4>2. ShutB(r)
          BY <3>1, <4>1 DEF DebitAt
        <4> QED BY <1>1, <4>1, <4>2 DEF ShutB
      <3>4. CallsMade' = CallsMade
        BY DEF CallsMade
      <3> QED BY <1>4, <3>2, <3>3, <3>4 DEF DebitAt
    <2> QED BY <2>1, <2>2, <2>3
  <1> QED BY <1>5, <1>7

(* Every other step leaves the calls and the messages emitted alone. *)
LEMMA DebitNext == DebitInv /\ [Next]_vars => DebitInv'
  <1> SUFFICES ASSUME DebitInv, [Next]_vars PROVE \A i \in Indices : DebitAt(i)'
    BY NextInv DEF DebitInv
  <1> USE DEF DebitInv
  <1>1. ASSUME Next, UNCHANGED applied,
               \A i \in Indices : i <= outterMeta[Pair] => UNCHANGED outMessages[Pair][i]
        PROVE  \A i \in Indices : DebitAt(i)'
    BY <1>1, DebitFrame
  <1>2. CASE Next /\ \E e \in Events : TransferAtoB(e)
    <2>1. PICK e \in Events : Emit(e)
      BY <1>2 DEF TransferAtoB
    <2>2. UNCHANGED applied
      BY <2>1 DEF Emit, varsDst
    <2>3. PICK n : n = outterMeta[Pair] + 1
      OBVIOUS
    <2>4. /\ n \in Indices /\ ~(n <= outterMeta[Pair])
          /\ outMessages' = [outMessages EXCEPT ![Pair][n] = e]
      BY <2>1, <2>3, EmitEffect DEF IInv
    <2>5. \A i \in Indices : i <= outterMeta[Pair] => UNCHANGED outMessages[Pair][i]
      BY <2>4, Types DEF IInv
    <2> QED BY <1>1, <1>2, <2>2, <2>5
  <1>3. CASE Next /\ \E i \in Indices, st \in Opened : SubmitIBTP(i, st)
    BY <1>3, SubmitIBTPDebit
  <1>4. CASE Next /\ \E i \in Indices : SubmitReceipt(i)
    <2>1. PICK i \in Indices : Settle(i)
      BY <1>4 DEF SubmitReceipt
    <2>2. UNCHANGED <<applied, outMessages>>
      BY <2>1, SettleEffect DEF Settle, varsDst, IInv
    <2> QED BY <1>1, <1>4, <2>2
  <1>5. CASE Next /\ UNCHANGED varsRelay
    <2>1. UNCHANGED <<applied, outMessages>>
      BY <1>5 DEF varsRelay, varsSrc, varsDst
    <2> QED BY <1>1, <1>5, <2>1
  <1>6. CASE Next /\ Transport
    <2>1. UNCHANGED <<applied, outMessages>>
      BY <1>6 DEF Transport, HubAccept, HubTimeout, Fetch, PollReceipt, HubReceipt,
         varsSrc, varsDst
    <2> QED BY <1>1, <1>6, <2>1
  <1>7. CASE UNCHANGED vars
    BY <1>7 DEF vars, varsRelay, varsSrc, varsDst, ledgers, history, DebitAt, CallsMade, ShutB
  <1>8. ASSUME \/ \E r \in Receivers, x \in Amounts : Spend(r, x) \/ TransferToSelf(r, x)
               \/ \E a \in {Sender} \union AccountsB, v \in Settings : SetBalance(a, v)
        PROVE  UNCHANGED varsRelay
    BY <1>8 DEF Spend, TransferToSelf, SetBalance
  <1> QED BY <1>2, <1>3, <1>4, <1>5, <1>6, <1>7, <1>8 DEF Next

(* B takes back what it never gave only from an account that somebody set, *)
(* for any number of transfers and whatever the order of time-outs.        *)
THEOREM DebitsExcused == Spec => []DebitExcused
  <1>1. Init => DebitInv
    <2> SUFFICES ASSUME Init PROVE DebitInv
      OBVIOUS
    <2>1. IInv
      BY InitInv
    <2>2. \A i \in Indices : applied[Pair][i] = <<>>
      BY DEF Init, RelayInit, Dst!Init, Dst!NoHistory, Dst!Indices, Indices
    <2> QED BY <2>1, <2>2, FailShapes DEF DebitInv, DebitAt, CallsMade
  <1>2. DebitInv => DebitExcused
    <2> SUFFICES ASSUME DebitInv, NEW i \in Indices, Credits(i) = -1
                 PROVE  outMessages[Pair][i].receiver \in touched
      BY DEF DebitExcused
    <2>1. Net(applied[Pair][i]) = -1
      BY DEF Credits, Net
    <2>2. PICK s \in CallsMade : s = applied[Pair][i]
      BY DEF DebitInv, DebitAt
    <2>3. /\ Net(<<>>) = 0 /\ Net(<<"ok">>) = 1 /\ Net(<<"fail">>) = 0
          /\ Net(<<"ok", "undone">>) = 0 /\ Net(<<"ok", "undofail">>) = 1
          /\ Net(<<"fail", "undofail">>) = 0
      BY NetOf
    <2>4. Net(s) = -1 /\ 0 # -1 /\ 1 # -1
      BY <2>1, <2>2
    <2>5. \/ s = <<>> \/ s = <<"ok">> \/ s = <<"fail">>
          \/ s = <<"ok", "undone">> \/ s = <<"ok", "undofail">>
          \/ s = <<"fail", "undofail">> \/ s = <<"fail", "undone">>
      BY Zenon DEF CallsMade
    <2>6. s = <<"fail", "undone">>
      BY <2>3, <2>4, <2>5, Zenon
    <2> QED BY <2>2, <2>6 DEF DebitInv, DebitAt
  <1> QED BY <1>1, <1>2, DebitNext, PTL DEF Spec
=============================================================================
