---------------------------- MODULE DbProxyProofs ----------------------------
(***************************************************************************)
(* Proofs about DbProxy and ConfigFile, for any keys, values, lists of     *)
(* instances and number of calls: CStrExplode splits right, what was saved *)
(* reads back, no wild pointer is used, and a server that comes up serves  *)
(* what was set.                                                           *)
(*                                                                         *)
(* First what the loops compute, by induction: LinesTo (_WriteFIle) and    *)
(* Scanned (CStrExplode).  Induction is stated for a set of numbers, which *)
(* needs no operator as a parameter.  Then the inductive invariant,        *)
(* ConfigInv and ProcInv, and the theorems that follow from it.            *)
(***************************************************************************)
EXTENDS DbProxy, FiniteSetTheorems, SequenceTheorems, WellFoundedInduction, TLAPS

(* Induction, for a set of numbers: from the least number outside it.      *)
LEMMA NatSetInduction ==
    ASSUME NEW T \in SUBSET Nat, 0 \in T, \A n \in T : n + 1 \in T
    PROVE  T = Nat
  <1> SUFFICES ASSUME Nat \ T # {} PROVE FALSE
    OBVIOUS
  <1> DEFINE R == OpToRel(<, Nat)
  <1>1. PICK x \in Nat \ T : \A y \in Nat \ T : ~(<<y, x>> \in R)
    <2>1. IsWellFoundedOn(R, Nat)
      BY NatLessThanWellFounded
    <2> HIDE DEF R
    <2> QED
      BY <2>1, WFMin
  <1>2. x # 0 /\ x - 1 \in Nat
    OBVIOUS
  <1>3. <<x - 1, x>> \in R
    BY <1>2, SMT DEF OpToRel
  <1>4. x - 1 \in T
    BY <1>1, <1>2, <1>3
  <1> QED
    BY <1>2, <1>4

(* The same up to a bound.                                                 *)
LEMMA UpToInduction ==
    ASSUME NEW N \in Nat, NEW T, 0 \in T,
           \A n \in 1..N : n - 1 \in T => n \in T
    PROVE  0..N \subseteq T
  <1> DEFINE U == {n \in Nat : n <= N => n \in T}
  <1>1. U \in SUBSET Nat /\ 0 \in U
    OBVIOUS
  <1>2. ASSUME NEW n \in U PROVE n + 1 \in U
    <2>1. CASE n + 1 <= N
      <3>1. n + 1 \in 1..N /\ n \in T /\ (n + 1) - 1 = n
        BY <2>1
      <3> QED
        BY <3>1
    <2> QED
      BY <2>1
  <1>3. U = Nat
    <2> HIDE DEF U
    <2> QED
      BY <1>1, <1>2, NatSetInduction
  <1> QED
    BY <1>3

(* LinesTo is the function its recursive definition says.  There is one,   *)
(* since there is one up to every number.                                  *)
LEMMA LinesToUnfolds ==
    ASSUME NEW m
    PROVE  LinesTo(m) = [n \in 0..Len(KeyOrder) |->
               IF n = 0 THEN <<>>
               ELSE IF KeyOrder[n] \in DOMAIN m
               THEN LinesTo(m)[n - 1] \o Entry(KeyOrder[n], m[KeyOrder[n]])
               ELSE LinesTo(m)[n - 1]]
  <1> DEFINE Next1(x, n) == IF KeyOrder[n] \in DOMAIN m
                           THEN x \o Entry(KeyOrder[n], m[KeyOrder[n]]) ELSE x
             IsTo(g, N) == g = [n \in 0..N |-> IF n = 0 THEN <<>> ELSE Next1(g[n - 1], n)]
             T == {N \in Nat : \E g : IsTo(g, N)}
  <1>0. Len(KeyOrder) \in Nat
    BY ConfigAssumption
  <1> HIDE DEF Next1
  <1>1. 0 \in T
    <2>1. IsTo([n \in 0..0 |-> <<>>], 0)
      OBVIOUS
    <2> QED BY <2>1
  <1>2. ASSUME NEW N \in T PROVE N + 1 \in T
    <2>1. PICK g : IsTo(g, N)
      OBVIOUS
    <2> DEFINE h == [n \in 0..(N + 1) |-> IF n = N + 1 THEN Next1(g[N], N + 1) ELSE g[n]]
    <2>2. IsTo(h, N + 1)
      <3> SUFFICES ASSUME NEW n \in 0..(N + 1)
                   PROVE  h[n] = IF n = 0 THEN <<>> ELSE Next1(h[n - 1], n)
        OBVIOUS
      <3>1. CASE n = N + 1
        <4>1. h[n] = Next1(g[N], n) /\ h[n - 1] = g[N] /\ n # 0
          BY <3>1
        <4> QED BY <4>1
      <3>2. CASE n # N + 1
        <4>1. n \in 0..N
          BY <3>2
        <4>2. h[n] = g[n]
          BY <3>2
        <4>3. g[n] = IF n = 0 THEN <<>> ELSE Next1(g[n - 1], n)
          BY <2>1, <4>1
        <4>4. n # 0 => h[n - 1] = g[n - 1]
          BY <4>1
        <4> QED BY <4>2, <4>3, <4>4
      <3> QED BY <3>1, <3>2
    <2>3. N + 1 \in Nat /\ \E x : IsTo(x, N + 1)
      <3> HIDE DEF IsTo, h
      <3> QED BY <2>2
    <2> QED BY <2>3
  <1>3. T = Nat
    <2>1. T \in SUBSET Nat
      OBVIOUS
    <2> HIDE DEF T
    <2> QED
      BY <2>1, <1>1, <1>2, NatSetInduction
  <1>4. \E g : IsTo(g, Len(KeyOrder))
    BY <1>0, <1>3
  <1>5. LinesTo(m) = CHOOSE g : IsTo(g, Len(KeyOrder))
    BY DEF LinesTo, Next1
  <1>6. IsTo(LinesTo(m), Len(KeyOrder))
    <2> HIDE DEF IsTo
    <2> QED
      BY <1>4, <1>5
  <1> QED
    BY <1>6 DEF Next1

-----------------------------------------------------------------------------
(* The lines of a map's file: those of its values, and those that a value  *)
(* with a newline makes.                                                   *)
Own(m) == {Line(k, m[k]) : k \in {x \in Keys \cap DOMAIN m : m[x] # "newline"}}

LinesOf(m) ==
    Own(m) \cup {l \in {Line(k, "part") : k \in Keys} \cup {Line(Injected, "v2")} :
                    \E k \in DOMAIN m : m[k] = "newline" /\ l.key \in {k, Injected}}

(* Only keys that the program sets have values with a newline.             *)
NewlinesSet(m) == \A k \in DOMAIN m : m[k] = "newline" => k \in Settable

ListKeys == {"CacheInstances", "DBInstances"}

(* In front of a list there are only lines of keys before it.              *)
ListsFirst(f) ==
    \A i, j \in 1..Len(f) : i < j /\ f[j].key \in ListKeys => Before(f[i].key, f[j].key)

(* The order of the keys is strict.                                        *)
LEMMA BeforeIsOrder ==
    ASSUME NEW j, NEW k, Before(j, k)
    PROVE  j # k /\ ~Before(k, j)
  BY ConfigAssumption DEF Before, IsInjective

(* The lists are not set, and are in front of what is.                     *)
LEMMA ListsNotSet ==
    /\ \A k \in Settable, l \in ListKeys : k # l /\ Before(l, k)
    /\ Injected \notin ListKeys
  <1>1. ASSUME NEW k \in Settable, NEW l \in ListKeys PROVE Before(l, k)
    <2>1. CASE l = "DBInstances"
      BY <2>1, ListsAssumption
    <2>2. CASE l = "CacheInstances"
      <3>1. Before(l, "DBInstances") /\ Before("DBInstances", k)
        BY <2>2, ListsAssumption
      <3>2. PICK p \in DOMAIN KeyOrder, q \in DOMAIN KeyOrder :
               p < q /\ KeyOrder[p] = l /\ KeyOrder[q] = "DBInstances"
        BY <3>1 DEF Before
      <3>3. PICK r \in DOMAIN KeyOrder, t \in DOMAIN KeyOrder :
               r < t /\ KeyOrder[r] = "DBInstances" /\ KeyOrder[t] = k
        BY <3>1 DEF Before
      <3>4. q = r
        BY <3>2, <3>3, ConfigAssumption DEF IsInjective
      <3>5. DOMAIN KeyOrder \subseteq Nat
        BY ConfigAssumption
      <3>6. p < t
        BY <3>2, <3>3, <3>4, <3>5
      <3> QED
        BY <3>2, <3>3, <3>6 DEF Before
    <2> QED
      BY <2>1, <2>2 DEF ListKeys
  <1> QED
    BY <1>1, ListsAssumption, BeforeIsOrder DEF ListKeys

(* _WriteFIle, for one key: its line, and perhaps one of Injected.         *)
LEMMA EntryShape ==
    ASSUME NEW m, NEW k \in Keys \cap DOMAIN m
    PROVE  LET e == Entry(k, m[k])
           IN  /\ e \in Seq(LinesOf(m)) /\ Len(e) \in 1..2
               /\ e[1].key = k
               /\ m[k] # "newline" => e = <<Line(k, m[k])>>
               /\ Len(e) = 2 => m[k] = "newline" /\ e[2].key = Injected
  <1>1. CASE m[k] = "newline"
    <2>1. Entry(k, m[k]) = <<Line(k, "part"), Line(Injected, "v2")>>
      BY <1>1 DEF Entry
    <2>2. Line(k, "part") \in LinesOf(m) /\ Line(Injected, "v2") \in LinesOf(m)
      BY <1>1 DEF LinesOf, Line
    <2>3. Line(k, "part").key = k /\ Line(Injected, "v2").key = Injected
      BY DEF Line
    <2> DEFINE a == Line(k, "part")
               b == Line(Injected, "v2")
    <2> HIDE DEF a, b
    <2>4. /\ <<a, b>> \in Seq({a, b}) /\ Len(<<a, b>>) = 2
          /\ <<a, b>>[1] = a /\ <<a, b>>[2] = b
      OBVIOUS
    <2>5. {a, b} \subseteq LinesOf(m)
      BY <2>2 DEF a, b
    <2>6. Seq({a, b}) \subseteq Seq(LinesOf(m))
      BY <2>5
    <2>7. Entry(k, m[k]) = <<a, b>> /\ a.key = k /\ b.key = Injected
      BY <2>1, <2>3 DEF a, b
    <2>8. Len(<<a, b>>) \in 1..2
      BY <2>4
    <2> HIDE DEF Entry
    <2> QED
      BY <1>1, <2>4, <2>6, <2>7, <2>8
  <1>2. CASE m[k] # "newline"
    <2>1. Entry(k, m[k]) = <<Line(k, m[k])>>
      BY <1>2 DEF Entry
    <2>2. Line(k, m[k]) \in LinesOf(m)
      BY <1>2 DEF LinesOf, Own
    <2>3. Line(k, m[k]).key = k
      BY DEF Line
    <2> QED
      BY <1>2, <2>1, <2>2, <2>3
  <1> QED
    BY <1>1, <1>2

(* One or two lines more.                                                  *)
LEMMA TwoMore ==
    ASSUME NEW a \in Nat, NEW b \in 1..2, NEW n \in Nat, a <= 2 * (n - 1)
    PROVE  /\ a + b <= 2 * n
           /\ \A i \in 1..(a + b) : i \in 1..a \/ i = a + 1 \/ (i = a + 2 /\ b = 2)
  OBVIOUS

(* _WriteFIle: a line for each key of the map, in order, and no others but *)
(* those that values with a newline make.                                  *)
LEMMA LinesShape ==
    ASSUME NEW m
    PROVE  /\ Lines(m) \in Seq(LinesOf(m))
           /\ Len(Lines(m)) <= 2 * Len(KeyOrder)
           /\ NewlinesSet(m) => ListsFirst(Lines(m))
           /\ \A k \in Keys \cap DOMAIN m : \E i \in 1..Len(Lines(m)) : Lines(m)[i].key = k
  <1> DEFINE L == Len(KeyOrder)
             f == LinesTo(m)
             \* The line of a key up to the n-th, or one of Injected behind such a line.
             From(k, n) == \E p \in 1..n : \/ k = KeyOrder[p]
                                          \/ /\ k = Injected
                                             /\ KeyOrder[p] \in DOMAIN m
                                             /\ m[KeyOrder[p]] = "newline"
             P(n) == /\ f[n] \in Seq(LinesOf(m))
                     /\ Len(f[n]) <= 2 * n
                     /\ \A i \in 1..Len(f[n]) : From(f[n][i].key, n)
                     /\ NewlinesSet(m) => ListsFirst(f[n])
                     /\ \A p \in 1..n : KeyOrder[p] \in DOMAIN m =>
                            \E i \in 1..Len(f[n]) : f[n][i].key = KeyOrder[p]
             T == {n \in 0..L : P(n)}
             Turn(n) == IF KeyOrder[n] \in DOMAIN m
                        THEN f[n - 1] \o Entry(KeyOrder[n], m[KeyOrder[n]]) ELSE f[n - 1]
  <1>9. f = [n \in 0..L |-> IF n = 0 THEN <<>> ELSE Turn(n)]
    BY LinesToUnfolds
  <1>0. L \in Nat /\ KeyOrder \in Seq(STRING) /\ DOMAIN KeyOrder = 1..L
    BY ConfigAssumption
  <1>1. P(0)
    <2>1. f[0] = <<>>
      <3> HIDE DEF f, Turn
      <3> QED
        BY <1>0, <1>9
    <2> HIDE DEF f
    <2>2. Len(f[0]) = 0 /\ f[0] \in Seq(LinesOf(m))
      BY <2>1
    <2> QED
      BY <2>2 DEF ListsFirst
  <1>2. ASSUME NEW n \in 1..L, P(n - 1) PROVE P(n)
    <2> DEFINE k == KeyOrder[n]
               g == f[n - 1]
    <2>0. n - 1 \in Nat /\ n \in 0..L /\ k \in Keys
      BY <1>0 DEF Keys, Range
    <2>8. f[n] = Turn(n)
      <3> HIDE DEF f, Turn
      <3> QED
        BY <2>0, <1>9
    <2>9. \A x : From(x, n - 1) => From(x, n)
      <3>1. 1..(n - 1) \subseteq 1..n
        OBVIOUS
      <3> QED
        BY <3>1
    <2>1. CASE k \notin DOMAIN m
      <3>1. f[n] = g
        BY <2>1, <2>8
      <3> HIDE DEF f
      <3>2. \A i \in 1..Len(g) : From(g[i].key, n)
        <4> HIDE DEF From
        <4> QED
          BY <1>2, <2>9
      <3>3. ASSUME NEW p \in 1..n, KeyOrder[p] \in DOMAIN m
            PROVE  \E i \in 1..Len(g) : g[i].key = KeyOrder[p]
        <4>1. p \in 1..(n - 1)
          BY <2>1, <3>3
        <4> QED
          BY <1>2, <3>3, <4>1
      <3>4. g \in Seq(LinesOf(m)) /\ Len(g) <= 2 * n /\ (NewlinesSet(m) => ListsFirst(g))
        BY <1>2
      <3> HIDE DEF g, From
      <3> QED
        BY <3>1, <3>2, <3>3, <3>4
    <2>2. CASE k \in DOMAIN m
      <3> DEFINE e == Entry(k, m[k])
      <3>1. f[n] = g \o e
        BY <2>2, <2>8
      <3> HIDE DEF f
      <3>2. /\ e \in Seq(LinesOf(m)) /\ Len(e) \in 1..2 /\ e[1].key = k
            /\ Len(e) = 2 => m[k] = "newline" /\ e[2].key = Injected
        BY <2>0, <2>2, EntryShape
      <3>8. g \in Seq(LinesOf(m)) /\ Len(g) \in Nat /\ Len(g) <= 2 * (n - 1)
        BY <1>2
      <3> HIDE DEF e, g
      <3>10. Len(e) = 1 \/ Len(e) = 2
        BY <3>2
      <3>3. /\ f[n] \in Seq(LinesOf(m)) /\ Len(f[n]) = Len(g) + Len(e)
            /\ \A i \in 1..Len(g) : f[n][i] = g[i]
            /\ \A i \in 1..Len(e) : f[n][Len(g) + i] = e[i]
        BY <3>1, <3>2, <3>8
      <3>11. Len(f[n]) = Len(g) + Len(e) /\ Len(g) \in Nat /\ Len(g) <= 2 * (n - 1) /\ n \in Nat
        BY <1>0, <3>3, <3>8
      <3>12. /\ Len(f[n]) <= 2 * n
             /\ \A i \in 1..Len(f[n]) :
                   i \in 1..Len(g) \/ i = Len(g) + 1 \/ (i = Len(g) + 2 /\ Len(e) = 2)
        <4> DEFINE a == Len(g)
                   b == Len(e)
        <4>1. a \in Nat /\ b \in 1..2 /\ n \in Nat /\ a <= 2 * (n - 1)
          BY <3>2, <3>11
        <4>2. Len(f[n]) = a + b
          BY <3>11
        <4> HIDE DEF a, b
        <4>3. /\ a + b <= 2 * n
              /\ \A i \in 1..(a + b) : i \in 1..a \/ i = a + 1 \/ (i = a + 2 /\ b = 2)
          BY <4>1, TwoMore
        <4>4. /\ Len(f[n]) <= 2 * n
              /\ \A i \in 1..Len(f[n]) : i \in 1..a \/ i = a + 1 \/ (i = a + 2 /\ b = 2)
          BY <4>2, <4>3, Zenon
        <4> QED
          BY <4>4 DEF a, b
      <3>4. /\ f[n][Len(g) + 1].key = k
            /\ Len(e) = 2 => f[n][Len(g) + 2].key = Injected
        <4>1. 1 \in 1..Len(e) /\ (Len(e) = 2 => 2 \in 1..Len(e))
          BY <3>10
        <4> QED
          BY <3>2, <3>3, <4>1
      <3>5. ASSUME NEW i \in 1..Len(f[n]) PROVE From(f[n][i].key, n)
        <4>1. CASE i = Len(g) + 1
          BY <4>1, <3>4
        <4>2. CASE i \in 1..Len(g)
          <5> HIDE DEF From
          <5>1. From(g[i].key, n - 1)
            BY <1>2, <4>2 DEF g
          <5> QED
            BY <4>2, <5>1, <2>9, <3>3
        <4>3. CASE i = Len(g) + 2 /\ Len(e) = 2
          <5>1. Len(e) = 2
            BY <4>3
          <5>2. f[n][i].key = Injected /\ m[k] = "newline" /\ n \in 1..n
            BY <4>3, <5>1, <3>2, <3>4
          <5> QED
            BY <5>2, <2>2
        <4>4. i \in 1..Len(g) \/ i = Len(g) + 1 \/ (i = Len(g) + 2 /\ Len(e) = 2)
          BY <3>12
        <4> QED
          BY <4>1, <4>2, <4>3, <4>4
      <3>6. ASSUME NewlinesSet(m) PROVE ListsFirst(f[n])
        <4> SUFFICES ASSUME NEW i \in 1..Len(f[n]), NEW j \in 1..Len(f[n]), i < j,
                            f[n][j].key \in ListKeys
                     PROVE  Before(f[n][i].key, f[n][j].key)
          BY DEF ListsFirst
        <4>1. CASE j \in 1..Len(g)
          <5>1. i \in 1..Len(g) /\ f[n][i] = g[i] /\ f[n][j] = g[j]
            BY <4>1, <3>3, <3>8
          <5>2. ListsFirst(g)
            BY <1>2, <3>6 DEF g
          <5> QED
            BY <4>1, <5>1, <5>2 DEF ListsFirst
        <4>2. CASE j = Len(g) + 1
          <5>1. f[n][j].key = k /\ k \in ListKeys /\ i \in 1..Len(g) /\ f[n][i] = g[i]
            BY <4>2, <3>3, <3>4, <3>8
          <5>2. From(g[i].key, n - 1)
            BY <1>2, <5>1 DEF g
          <5>3. PICK p \in 1..(n - 1) :
                   \/ g[i].key = KeyOrder[p]
                   \/ KeyOrder[p] \in DOMAIN m /\ m[KeyOrder[p]] = "newline"
            BY <5>2
          <5>4. p \in DOMAIN KeyOrder /\ n \in DOMAIN KeyOrder /\ p < n
            BY <1>0
          <5>5. Before(KeyOrder[p], k)
            BY <5>4 DEF Before
          <5>6. ~(KeyOrder[p] \in DOMAIN m /\ m[KeyOrder[p]] = "newline")
            <6> SUFFICES ASSUME KeyOrder[p] \in DOMAIN m, m[KeyOrder[p]] = "newline" PROVE FALSE
              OBVIOUS
            <6>1. KeyOrder[p] \in Settable
              BY <3>6 DEF NewlinesSet
            <6>2. Before(k, KeyOrder[p])
              BY <5>1, <6>1, ListsNotSet
            <6> HIDE DEF k
            <6> QED
              BY <5>5, <6>2, BeforeIsOrder
          <5> QED
            BY <5>1, <5>3, <5>5, <5>6
        <4>3. CASE j = Len(g) + 2 /\ Len(e) = 2
          <5>1. Len(e) = 2
            BY <4>3
          <5> QED
            BY <4>3, <5>1, <3>4, ListsNotSet
        <4>4. j \in 1..Len(g) \/ j = Len(g) + 1 \/ (j = Len(g) + 2 /\ Len(e) = 2)
          BY <3>12
        <4> QED
          BY <4>1, <4>2, <4>3, <4>4
      <3>7. ASSUME NEW p \in 1..n, KeyOrder[p] \in DOMAIN m
            PROVE  \E i \in 1..Len(f[n]) : f[n][i].key = KeyOrder[p]
        <4>1. CASE p = n
          <5>1. Len(g) + 1 \in 1..Len(f[n])
            BY <3>2, <3>3, <3>8
          <5> QED
            BY <4>1, <5>1, <3>4
        <4>2. CASE p \in 1..(n - 1)
          <5>1. PICK i \in 1..Len(g) : g[i].key = KeyOrder[p]
            BY <1>2, <3>7, <4>2 DEF g
          <5>2. i \in 1..Len(f[n]) /\ f[n][i] = g[i]
            BY <3>2, <3>3, <3>8
          <5> QED
            BY <5>1, <5>2
        <4> QED
          BY <4>1, <4>2
      <3>9. Len(f[n]) <= 2 * n
        BY <3>12
      <3> HIDE DEF From
      <3> QED
        BY <3>3, <3>5, <3>6, <3>7, <3>9
    <2> QED
      BY <2>1, <2>2
  <1>3. P(L)
    <2> HIDE DEF P
    <2>1. 0 \in T
      BY <1>0, <1>1
    <2>2. \A n \in 1..L : n - 1 \in T => n \in T
      BY <1>0, <1>2
    <2>3. 0..L \subseteq T
      <3> HIDE DEF T
      <3> QED
        BY <2>1, <2>2, <1>0, UpToInduction
    <2> QED
      BY <2>3, <1>0
  <1>4. ASSUME NEW k \in Keys \cap DOMAIN m PROVE \E i \in 1..Len(f[L]) : f[L][i].key = k
    <2>1. PICK p \in 1..L : KeyOrder[p] = k
      BY <1>0 DEF Keys, Range
    <2> QED
      BY <1>3, <2>1
  <1> QED
    BY <1>3, <1>4 DEF Lines

(* What may be on the disk of a map: a part of its lines, of which the     *)
(* last one may be cut.                                                    *)
PartOf(f, m) ==
    /\ Len(f) \in Nat /\ DOMAIN f = 1..Len(f)
    /\ ListsFirst(f)
    /\ \A i \in 1..Len(f) : /\ f[i].key \in Keys
                            /\ f[i] \in LinesOf(m) \/ (i = Len(f) /\ f[i].val = "cut")

(* The keys of the lines.                                                  *)
LEMMA LineKeys ==
    ASSUME NEW m, NEW l \in LinesOf(m)
    PROVE  l.key \in Keys /\ l = [key |-> l.key, val |-> l.val]
  BY ConfigAssumption DEF LinesOf, Own, Line

(* The whole file is one of them.                                          *)
LEMMA LinesPartOf == \A m : NewlinesSet(m) => PartOf(Lines(m), m)
  <1> SUFFICES ASSUME NEW m, NewlinesSet(m) PROVE PartOf(Lines(m), m)
    OBVIOUS
  <1>1. Lines(m) \in Seq(LinesOf(m)) /\ ListsFirst(Lines(m))
    BY LinesShape
  <1>2. \A i \in 1..Len(Lines(m)) : Lines(m)[i] \in LinesOf(m)
    BY <1>1
  <1>3. \A i \in 1..Len(Lines(m)) : Lines(m)[i].key \in Keys
    BY <1>2, LineKeys
  <1> QED
    BY <1>1, <1>2, <1>3 DEF PartOf

(* fclose on a full disk, fwrite that fails, and a crash.                  *)
LEMMA TruncatedPartOf ==
    ASSUME NEW m, NewlinesSet(m), NEW w \in 0..Len(Lines(m)),
           NEW f \in Truncated(SubSeq(Lines(m), 1, w))
    PROVE  PartOf(f, m)
  <1> DEFINE ls == Lines(m)
             s == SubSeq(ls, 1, w)
  <1>1. /\ Len(ls) \in Nat /\ DOMAIN ls = 1..Len(ls) /\ ls \in Seq(LinesOf(m))
        /\ ListsFirst(ls)
        /\ \A i \in 1..Len(ls) : ls[i].key \in Keys
    BY LinesPartOf, LinesShape DEF PartOf
  <1>2. \A i \in 1..Len(ls) : ls[i] \in LinesOf(m) /\ ls[i] = [key |-> ls[i].key, val |-> ls[i].val]
    <2> HIDE DEF ls
    <2>1. \A i \in 1..Len(ls) : ls[i] \in LinesOf(m)
      BY <1>1
    <2> QED
      BY <2>1, LineKeys
  <1>0. w \in 0..Len(ls)
    OBVIOUS
  <1> HIDE DEF ls
  <1>3. s \in Seq(LinesOf(m)) /\ Len(s) = w /\ \A i \in 1..w : s[i] = ls[i]
    BY <1>0, <1>1
  <1>4. ASSUME NEW n \in 0..w
        PROVE  /\ SubSeq(s, 1, n) \in Seq(LinesOf(m)) /\ Len(SubSeq(s, 1, n)) = n
               /\ \A i \in 1..n : SubSeq(s, 1, n)[i] = ls[i]
    <2> HIDE DEF s
    <2> QED
      BY <1>3
  <1> HIDE DEF s
  <1>5. ASSUME NEW n \in 0..w, f = SubSeq(s, 1, n) PROVE PartOf(f, m)
    <2>1. Len(ls) \in Nat /\ 1..n \subseteq 1..Len(ls)
      BY <1>0, <1>1
    <2>2. f \in Seq(LinesOf(m)) /\ Len(f) = n /\ \A i \in 1..n : f[i] = ls[i]
      BY <1>4, <1>5
    <2>3. Len(f) = n /\ DOMAIN f = 1..n /\ \A i \in 1..n : f[i] = ls[i] /\ i \in 1..Len(ls)
      BY <2>1, <2>2
    <2> QED
      BY <1>1, <1>2, <2>3 DEF PartOf, ListsFirst
  <1>6. ASSUME NEW n \in 1..w, f = [SubSeq(s, 1, n) EXCEPT ![n].val = "cut"]
        PROVE  PartOf(f, m)
    <2> DEFINE t == SubSeq(s, 1, n)
    <2>1. n \in 0..w /\ Len(ls) \in Nat /\ 1..n \subseteq 1..Len(ls)
      BY <1>0, <1>1
    <2>2. t \in Seq(LinesOf(m)) /\ Len(t) = n /\ \A i \in 1..n : t[i] = ls[i]
      BY <1>4, <2>1
    <2> HIDE DEF t
    <2>3. t \in Seq(LinesOf(m)) /\ Len(t) = n /\ DOMAIN t = 1..n
             /\ \A i \in 1..n : t[i] = ls[i] /\ i \in 1..Len(ls)
      BY <2>1, <2>2
    <2>4. f = [t EXCEPT ![n] = [t[n] EXCEPT !.val = "cut"]]
      BY <1>6 DEF t
    <2>5. DOMAIN f = 1..n /\ Len(f) = n
      BY <2>3, <2>4
    <2>6. \A i \in 1..n : i # n => f[i] = ls[i]
      BY <2>3, <2>4
    <2>7. f[n].key = ls[n].key /\ f[n].val = "cut"
      BY <2>3, <2>4, <1>2
    <2>8. \A i \in 1..n : f[i].key = ls[i].key
      BY <2>6, <2>7
    <2> QED
      <3>1. ListsFirst(f)
        BY <1>1, <2>3, <2>5, <2>8 DEF ListsFirst
      <3>2. \A i \in 1..n : f[i].key \in Keys
        BY <1>1, <2>3, <2>8
      <3>3. \A i \in 1..n : f[i] \in LinesOf(m) \/ (i = n /\ f[i].val = "cut")
        BY <1>2, <2>3, <2>6, <2>7
      <3> QED
        BY <2>1, <2>5, <3>1, <3>2, <3>3 DEF PartOf
  <1>7. DOMAIN s = 1..w /\ Len(s) = w
    BY <1>3
  <1> QED
    BY <1>5, <1>6, <1>7 DEF Truncated, s, ls

-----------------------------------------------------------------------------
(* A set of numbers has a least one.                                       *)
LEMMA LeastExists ==
    ASSUME NEW S \in SUBSET Nat, S # {}
    PROVE  \E x \in S : \A y \in S : x <= y
  <1> DEFINE R == OpToRel(<, Nat)
  <1>1. PICK x \in S : \A y \in S : ~(<<y, x>> \in R)
    <2>1. IsWellFoundedOn(R, Nat)
      BY NatLessThanWellFounded
    <2> HIDE DEF R
    <2> QED
      BY <2>1, WFMin
  <1>2. ASSUME NEW y \in S, ~(<<y, x>> \in R) PROVE x <= y
    BY <1>2, SMT DEF OpToRel
  <1> QED
    BY <1>1, <1>2

(* _LoadFile: the value of a key is that of its first line, as it reads    *)
(* back.                                                                   *)
LEMMA LoadedValue ==
    ASSUME NEW f, Len(f) \in Nat, DOMAIN f = 1..Len(f), NEW k \in DOMAIN Loaded(f)
    PROVE  \E i \in Parsed(f) : /\ f[i].key = k
                                /\ \A j \in Parsed(f) : f[j].key = k => i <= j
                                /\ Loaded(f)[k] = ReadBack(f[i].val)
  <1> DEFINE S == {i \in Parsed(f) : f[i].key = k}
             First(i) == i \in Parsed(f) /\ f[i].key = k
                            /\ \A j \in Parsed(f) : f[j].key = k => i <= j
  <1>0. k \in {f[i].key : i \in Parsed(f)}
    BY DEF Loaded
  <1>1. S # {} /\ S \subseteq Nat
    BY <1>0 DEF Parsed
  <1>2. \E i : First(i)
    <2>1. PICK i \in S : \A j \in S : i <= j
      <3> HIDE DEF S
      <3> QED
        BY <1>1, LeastExists
    <2> QED
      BY <2>1
  <1>3. Loaded(f)[k] = ReadBack(f[CHOOSE i \in Parsed(f) :
                                      /\ f[i].key = k
                                      /\ \A j \in Parsed(f) : f[j].key = k => i <= j].val)
    BY <1>0 DEF Loaded
  <1>4. PICK i : First(i) /\ i = CHOOSE x \in Parsed(f) :
                                      /\ f[x].key = k
                                      /\ \A j \in Parsed(f) : f[j].key = k => x <= j
    BY <1>2
  <1> QED
    BY <1>3, <1>4

(* _LoadFile: the keys are those of the lines it takes.                    *)
LEMMA LoadedDomain == \A f : DOMAIN Loaded(f) = {f[i].key : i \in Parsed(f)}
  BY DEF Loaded

(* SetConfigValue and the next reader: a map of values that read back as   *)
(* they are is what a reader makes of its file.                            *)
LEMMA PlainReadsBack ==
    ASSUME NEW m, m = [k \in DOMAIN m |-> m[k]], DOMAIN m \subseteq Keys,
           \A k \in DOMAIN m : m[k] \in Plain \cup {"cut", "part"}
    PROVE  Loaded(Lines(m)) = m
  <1> DEFINE f == Lines(m)
  <1>1. f \in Seq(LinesOf(m)) /\ \A k \in DOMAIN m : \E i \in 1..Len(f) : f[i].key = k
    BY LinesShape
  <1> HIDE DEF f
  <1>0. \A k \in DOMAIN m : m[k] \notin Odd
    BY ConfigAssumption DEF Odd
  <1>2. \A i \in 1..Len(f) : f[i].key \in DOMAIN m /\ f[i].val = m[f[i].key]
    <2> TAKE i \in 1..Len(f)
    <2>1. f[i] \in LinesOf(m)
      BY <1>1
    <2>2. f[i] \in Own(m)
      BY <2>1, <1>0 DEF LinesOf, Odd
    <2> QED
      BY <2>2 DEF Own, Line
  <1>3. Len(f) \in Nat /\ DOMAIN f = 1..Len(f)
    BY <1>1
  <1>4. Parsed(f) = 1..Len(f)
    <2>1. \A i \in 1..Len(f) : f[i].val \notin {"long", "empty"}
      BY <1>0, <1>2 DEF Odd
    <2>2. \A i \in 1..Len(f) : i > 1 => i - 1 \in 1..Len(f)
      BY <1>3
    <2> QED
      BY <1>3, <2>1, <2>2 DEF Parsed
  <1>5. DOMAIN Loaded(f) = DOMAIN m
    <2>1. DOMAIN Loaded(f) = {f[i].key : i \in 1..Len(f)}
      BY <1>4, LoadedDomain
    <2>2. {f[i].key : i \in 1..Len(f)} = DOMAIN m
      BY <1>1, <1>2, Zenon
    <2> QED
      BY <2>1, <2>2
  <1>6. ASSUME NEW k \in DOMAIN m PROVE Loaded(f)[k] = m[k]
    <2>1. ReadBack(m[k]) = m[k]
      BY <1>0 DEF Odd, ReadBack
    <2>2. PICK i \in Parsed(f) : f[i].key = k /\ Loaded(f)[k] = ReadBack(f[i].val)
      BY <1>3, <1>5, LoadedValue
    <2> QED
      BY <1>2, <1>4, <2>1, <2>2
  <1>7. Loaded(f) = [k \in DOMAIN Loaded(f) |-> Loaded(f)[k]]
    BY DEF Loaded
  <1> QED
    BY <1>5, <1>6, <1>7 DEF f

-----------------------------------------------------------------------------
(* The inductive invariant.                                                *)
IsMap(m) == m = [k \in DOMAIN m |-> m[k]] /\ DOMAIN m \subseteq Keys

ListsWhole(m) == \A k \in ListKeys \cap DOMAIN m : m[k] \notin Odd \cup {"cut", "part"}

(* What a reader finds, c: the values wanted, for the keys that are not    *)
(* spoiled; and a list that is cut is the last that it finds.              *)
ReadsRight(c, want, sp) ==
    /\ DOMAIN c \subseteq Keys
    /\ \A k \in DOMAIN c : c[k] # "newline" /\ (k \in sp \/ c[k] \in want[k])
    /\ \A k \in ListKeys \cap DOMAIN c :
          /\ c[k] \notin Odd \cup {"part"}
          /\ c[k] = "cut" => \A j \in DOMAIN c : j = k \/ Before(j, k)

KeysKnown(f) == f = Missing \/ \A i \in DOMAIN f : f[i].key \in Keys

(* ConfigInv: what a reader finds on the disk, and what is in memory; the  *)
(* lists of instances are never cut in memory.                             *)
ConfigInv ==
    /\ IsMap(map) /\ ListsWhole(map) /\ NewlinesSet(map)
    /\ intended = [k \in Keys |-> intended[k]] /\ spoiled \subseteq Keys
    /\ \A k \in DOMAIN map : k \in spoiled \/ map[k] \in intended[k]
    /\ KeysKnown(file)
    /\ ReadsRight(Config, intended, spoiled)
    /\ confPc \in {"none", "idle", "writing"} /\ ret \in {"none", "saved", "failed"}
    /\ loadOk \in BOOLEAN /\ diskFull \in BOOLEAN /\ written \in 0..(2 * Len(KeyOrder))
    /\ confPc = "none" => ret = "none"
    /\ confPc = "writing" => Spoils(map) \subseteq spoiled /\ written \in 0..Len(Lines(map))
    /\ confPc = "idle" /\ ret = "saved" /\ ~diskFull => file = Lines(map)

(* ProcInv: how far main has come says what the file it reads is like: it  *)
(* gets to the cache pools only with a whole list of databases, and to     *)
(* serving only with both lists whole.                                     *)
ProcInv ==
    /\ dbText \in DbTexts /\ cacheText \in CacheTexts
    /\ proc \in {"off", "db", "cache", "main", "serving", "exited", "undefined"}
    /\ DOMAIN conf \subseteq Keys
    /\ proc # "serving" => confPc = "none"
    /\ proc = "db" => pools = {}
    /\ proc = "cache" => pools = Range(Pieces(dbText))
    /\ proc = "main" => pools = Range(Pieces(dbText)) \cup Range(Pieces(cacheText))
    /\ proc \in {"cache", "main"} =>
          "DBInstances" \in DOMAIN Config /\ \A item \in pools : Configured(item)
    /\ proc = "main" => "CacheInstances" \in DOMAIN Config
    /\ proc \in {"cache", "main"} \/ (proc = "serving" /\ confPc = "none") => ListsWhole(Config)
    /\ NoEmptyPiece(dbText) /\ NoEmptyPiece(cacheText) => proc # "undefined"

(* A reader of what is left of a file finds the values of the map that was *)
(* written, for the keys that are not spoiled.                             *)
LEMMA PartReads ==
    ASSUME NEW f, NEW m, PartOf(f, m), ListsWhole(m), NewlinesSet(m),
           NEW want, NEW sp, Spoils(m) \subseteq sp,
           \A i \in 1..Len(f) : f[i] \in LinesOf(m) \/ f[i].key \in sp,
           \A k \in DOMAIN m : k \in sp \/ m[k] \in want[k]
    PROVE  ReadsRight(Loaded(f), want, sp)
  <1>0. Len(f) \in Nat /\ DOMAIN f = 1..Len(f)
    BY DEF PartOf
  <1>1. ASSUME NEW k \in DOMAIN Loaded(f)
        PROVE  \E i \in 1..Len(f) : i \in Parsed(f) /\ f[i].key = k /\ Loaded(f)[k] = ReadBack(f[i].val)
    <2>1. Parsed(f) \subseteq 1..Len(f)
      BY <1>0 DEF Parsed
    <2> QED
      BY <1>0, <2>1, LoadedValue
  <1>2. ASSUME NEW l \in LinesOf(m), NEW x, x = ReadBack(l.val)
        PROVE  /\ x # "newline"
               /\ l.key \in sp \/ x \in want[l.key]
               /\ l.key \in ListKeys => x \notin Odd \cup {"cut", "part"}
    <2>1. CASE l \in Own(m)
      <3>1. PICK k \in Keys \cap DOMAIN m : m[k] # "newline" /\ l.key = k /\ l.val = m[k]
        BY <2>1 DEF Own, Line
      <3>2. x # "newline"
        BY <1>2, <3>1 DEF ReadBack
      <3>3. k \in sp \/ x \in want[k]
        <4>1. CASE m[k] \in Odd
          BY <4>1 DEF Spoils
        <4>2. CASE m[k] \notin Odd
          BY <1>2, <3>1, <4>2 DEF ReadBack, Odd
        <4> QED
          BY <4>1, <4>2
      <3>4. k \in ListKeys => x \notin Odd \cup {"cut", "part"}
        BY <1>2, <3>1 DEF ReadBack, ListsWhole, Odd
      <3> QED
        BY <3>1, <3>2, <3>3, <3>4
    <2>2. CASE l \notin Own(m)
      <3>1. /\ l \in {Line(k, "part") : k \in Keys} \cup {Line(Injected, "v2")}
            /\ \E k \in DOMAIN m : m[k] = "newline" /\ l.key \in {k, Injected}
        BY <2>2 DEF LinesOf
      <3>2. PICK k \in DOMAIN m : m[k] = "newline" /\ l.key \in {k, Injected}
        BY <3>1
      <3>3. l.key \in sp
        BY <3>2 DEF Spoils, Odd
      <3>4. l.key \notin ListKeys
        BY <3>2, ListsNotSet DEF NewlinesSet
      <3>5. l.val \in {"part", "v2"}
        BY <3>1 DEF Line
      <3>6. x # "newline"
        BY <1>2, <3>5 DEF ReadBack
      <3> QED
        BY <3>3, <3>4, <3>6
    <2> QED
      BY <2>1, <2>2
  <1>3. DOMAIN Loaded(f) \subseteq Keys
    BY <1>1 DEF PartOf
  <1>4. ASSUME NEW k \in DOMAIN Loaded(f)
        PROVE  Loaded(f)[k] # "newline" /\ (k \in sp \/ Loaded(f)[k] \in want[k])
    <2>1. PICK i \in 1..Len(f) : f[i].key = k /\ Loaded(f)[k] = ReadBack(f[i].val)
      BY <1>1
    <2>2. CASE f[i] \in LinesOf(m)
      BY <1>2, <2>1, <2>2
    <2>3. CASE f[i] \notin LinesOf(m)
      <3>1. k \in sp /\ f[i].val = "cut"
        BY <2>1, <2>3 DEF PartOf
      <3> QED
        BY <2>1, <3>1 DEF ReadBack
    <2> QED
      BY <2>2, <2>3
  <1>5. ASSUME NEW k \in ListKeys \cap DOMAIN Loaded(f)
        PROVE  /\ Loaded(f)[k] \notin Odd \cup {"part"}
               /\ Loaded(f)[k] = "cut" => \A j \in DOMAIN Loaded(f) : j = k \/ Before(j, k)
    <2>1. PICK i \in 1..Len(f) : f[i].key = k /\ Loaded(f)[k] = ReadBack(f[i].val)
      BY <1>1
    <2>2. CASE f[i] \in LinesOf(m)
      BY <1>2, <2>1, <2>2
    <2>3. CASE f[i] \notin LinesOf(m)
      <3>1. f[i].val = "cut" /\ i = Len(f)
        BY <2>1, <2>3 DEF PartOf
      <3>2. Loaded(f)[k] \notin Odd \cup {"part"}
        BY <2>1, <3>1 DEF ReadBack, Odd
      <3>3. ASSUME NEW j \in DOMAIN Loaded(f) PROVE j = k \/ Before(j, k)
        <4>1. PICK p \in 1..Len(f) : f[p].key = j
          BY <1>1
        <4>2. p = i \/ p < i
          <5>1. i = Len(f)
            BY <3>1
          <5>2. \A N \in Nat : \A x \in 1..N : x = N \/ x < N
            OBVIOUS
          <5>3. p = Len(f) \/ p < Len(f)
            BY <1>0, <5>2
          <5> QED
            BY <5>1, <5>3
        <4>3. p < i => Before(f[p].key, f[i].key)
          BY <2>1 DEF PartOf, ListsFirst
        <4> QED
          BY <2>1, <4>1, <4>2, <4>3
      <3> QED
        BY <3>2, <3>3
    <2> QED
      BY <2>2, <2>3
  <1> QED
    BY <1>3, <1>4, <1>5 DEF ReadsRight

(* The same for what a crash or a full disk leaves, when the keys that are *)
(* cut count as spoiled.                                                   *)
LEMMA TruncatedReads ==
    ASSUME NEW m, ListsWhole(m), NewlinesSet(m), NEW w \in 0..Len(Lines(m)),
           NEW f \in Truncated(SubSeq(Lines(m), 1, w)),
           NEW want, NEW sp, sp \subseteq Keys, Spoils(m) \subseteq sp,
           \A k \in DOMAIN m : k \in sp \/ m[k] \in want[k]
    PROVE  /\ ReadsRight(Loaded(f), want, sp \cup CutIn(f))
           /\ KeysKnown(f) /\ sp \cup CutIn(f) \subseteq Keys
  <1>1. PartOf(f, m)
    BY TruncatedPartOf
  <1>2. \A i \in 1..Len(f) : f[i] \in LinesOf(m) \/ f[i].key \in sp \cup CutIn(f)
    BY <1>1 DEF PartOf, CutIn
  <1>3. Spoils(m) \subseteq sp \cup CutIn(f)
    OBVIOUS
  <1>4. \A k \in DOMAIN m : k \in sp \cup CutIn(f) \/ m[k] \in want[k]
    OBVIOUS
  <1>5. ReadsRight(Loaded(f), want, sp \cup CutIn(f))
    BY <1>1, <1>2, <1>3, <1>4, PartReads
  <1>6. KeysKnown(f) /\ CutIn(f) \subseteq Keys
    BY <1>1 DEF PartOf, KeysKnown, CutIn
  <1> QED
    BY <1>5, <1>6

(* Of two lines for a key the first counts.                                *)
LEMMA GivenTwiceReads ==
    ASSUME NEW m, DOMAIN m \subseteq Keys, \A k \in DOMAIN m : m[k] = "v1",
           NEW d \in DOMAIN m
    PROVE  LET f == Append(Lines(m), Line(d, "v2"))
           IN  /\ DOMAIN Loaded(f) \subseteq DOMAIN m
               /\ \A k \in DOMAIN Loaded(f) : Loaded(f)[k] = "v1"
               /\ KeysKnown(f)
  <1> DEFINE ls == Lines(m)
             f == Append(Lines(m), Line(d, "v2"))
  <1>2. /\ ls \in Seq(LinesOf(m))
        /\ \A x \in DOMAIN m : \E i \in 1..Len(ls) : ls[i].key = x
    BY LinesShape
  <1>3. ASSUME NEW i \in 1..Len(ls) PROVE ls[i].key \in DOMAIN m /\ ls[i].val = "v1"
    <2>1. ls[i] \in LinesOf(m)
      BY <1>2
    <2>2. ls[i] \in Own(m)
      BY <2>1 DEF LinesOf
    <2> QED
      BY <2>2 DEF Own, Line
  <1> HIDE DEF ls
  <1>4. /\ Len(ls) \in Nat /\ Len(f) = Len(ls) + 1 /\ DOMAIN f = 1..Len(f)
        /\ \A i \in 1..Len(ls) : f[i] = ls[i]
        /\ f[Len(f)] = Line(d, "v2")
    <2>1. \E S : ls \in Seq(S) /\ Line(d, "v2") \in S
      <3> WITNESS LinesOf(m) \cup {Line(d, "v2")}
      <3> QED
        BY <1>2
    <2>2. f = Append(ls, Line(d, "v2"))
      BY DEF ls
    <2> QED
      BY <2>1, <2>2
  <1> HIDE DEF f
  <1>9. ASSUME NEW k \in DOMAIN Loaded(f) PROVE k \in DOMAIN m /\ Loaded(f)[k] = "v1"
    <2>5. PICK i \in Parsed(f) : /\ f[i].key = k
                                 /\ \A j \in Parsed(f) : f[j].key = k => i <= j
                                 /\ Loaded(f)[k] = ReadBack(f[i].val)
      <3>1. Len(f) \in Nat /\ DOMAIN f = 1..Len(f)
        BY <1>4
      <3> QED
        BY <3>1, LoadedValue
    <2>6. i \in 1..Len(f)
      BY <1>4, <2>5 DEF Parsed
    <2>7. CASE i \in 1..Len(ls)
      <3>1. k \in DOMAIN m /\ f[i].val = "v1"
        BY <1>3, <1>4, <2>5, <2>7
      <3> QED
        BY <2>5, <3>1 DEF ReadBack
    <2>8. CASE i = Len(f)
      <3>1. k = d
        BY <1>4, <2>5, <2>8 DEF Line
      <3>2. PICK j \in 1..Len(ls) : ls[j].key = k
        BY <1>2, <3>1
      <3>3. j \in Parsed(f)
        <4>1. j \in DOMAIN f /\ f[j].val = "v1" /\ (j > 1 => f[j - 1].val = "v1")
          BY <1>3, <1>4, <3>2
        <4> QED
          BY <4>1 DEF Parsed
      <3>4. i <= j
        BY <1>4, <2>5, <3>2, <3>3
      <3> QED
        BY <1>4, <2>8, <3>2, <3>4
    <2> QED
      BY <1>4, <2>6, <2>7, <2>8
  <1>10. KeysKnown(f)
    <2>1. \A i \in 1..Len(f) : i \in 1..Len(ls) \/ i = Len(f)
      BY <1>4
    <2>2. Line(d, "v2").key = d
      BY DEF Line
    <2> QED
      BY <1>3, <1>4, <2>1, <2>2 DEF KeysKnown
  <1> QED
    BY <1>9, <1>10 DEF f

(* Before the file is read, and when it has just been emptied.             *)
LEMMA NothingRead ==
    /\ IsMap(<<>>) /\ ListsWhole(<<>>) /\ NewlinesSet(<<>>)
    /\ DOMAIN <<>> = {} /\ DOMAIN Loaded(<<>>) = {}
    /\ \A c, want, sp : DOMAIN c = {} => ReadsRight(c, want, sp)
  <1>1. <<>> = [k \in DOMAIN <<>> |-> <<>>[k]] /\ DOMAIN <<>> = {}
    OBVIOUS
  <1>2. Parsed(<<>>) = {}
    BY <1>1 DEF Parsed
  <1>3. DOMAIN Loaded(<<>>) = {}
    BY <1>2, LoadedDomain
  <1> QED
    BY <1>1, <1>3 DEF IsMap, ListsWhole, NewlinesSet, ReadsRight

(* A file as a user gives it.                                              *)
LEMMA ConfigInvInit == Init => ConfigInv
  <1> SUFFICES ASSUME Init PROVE ConfigInv
    OBVIOUS
  <1>1. PICK D \in SUBSET Settable :
          /\ intended = [k \in Keys |-> IF k \in D THEN {} ELSE {"v1"}]
          /\ \/ file = Lines([k \in Keys \ D |-> "v1"])
             \/ \E k \in Keys \ D : file = Append(Lines([x \in Keys \ D |-> "v1"]), Line(k, "v2"))
             \/ file = Missing
    BY DEF Init, ConfigInit
  <1> DEFINE m == [k \in Keys \ D |-> "v1"]
  <1>2. DOMAIN m \subseteq Keys /\ \A k \in DOMAIN m : m[k] = "v1" /\ m[k] \in intended[k]
    BY <1>1
  <1> HIDE DEF m
  <1>3. KeysKnown(file) /\ ReadsRight(Config, intended, {})
    <2>1. CASE file = Missing
      <3>1. Config = <<>>
        BY <2>1 DEF Config
      <3> QED
        BY <2>1, <3>1, NothingRead DEF KeysKnown
    <2>2. CASE file # Missing /\ file = Lines(m)
      <3>1. Spoils(m) \subseteq {} /\ ListsWhole(m) /\ NewlinesSet(m)
        BY <1>2 DEF Spoils, Odd, ListsWhole, NewlinesSet
      <3>2. PartOf(file, m) /\ \A i \in 1..Len(file) : file[i] \in LinesOf(m)
        BY <2>2, <3>1, LinesPartOf, LinesShape
      <3>3. ReadsRight(Loaded(file), intended, {})
        BY <1>2, <3>1, <3>2, PartReads
      <3> QED
        BY <2>2, <3>2, <3>3 DEF Config, KeysKnown, PartOf
    <2>3. CASE file # Missing /\ \E k \in DOMAIN m : file = Append(Lines(m), Line(k, "v2"))
      <3>1. /\ DOMAIN Loaded(file) \subseteq DOMAIN m
            /\ \A k \in DOMAIN Loaded(file) : Loaded(file)[k] = "v1"
            /\ KeysKnown(file)
        BY <1>2, <2>3, GivenTwiceReads
      <3>2. ReadsRight(Loaded(file), intended, {})
        BY <1>2, <3>1 DEF ReadsRight, Odd
      <3> QED
        BY <2>3, <3>1, <3>2 DEF Config
    <2>4. DOMAIN m = Keys \ D
      BY DEF m
    <2> QED
      BY <1>1, <2>1, <2>2, <2>3, <2>4 DEF m
  <1>4. Len(KeyOrder) \in Nat
    BY ConfigAssumption
  <1>5. intended = [k \in Keys |-> intended[k]]
    BY <1>1
  <1>6. /\ spoiled = {} /\ diskFull = FALSE /\ map = <<>> /\ loadOk = FALSE
        /\ confPc = "none" /\ written = 0 /\ ret = "none"
    BY DEF Init, ConfigInit
  <1> QED
    <2>1. IsMap(map) /\ ListsWhole(map) /\ NewlinesSet(map) /\ DOMAIN map = {}
      BY <1>6, NothingRead
    <2>2. written \in 0..(2 * Len(KeyOrder)) /\ spoiled \subseteq Keys
      BY <1>4, <1>6
    <2>3. ReadsRight(Config, intended, spoiled)
      BY <1>3, <1>6
    <2> QED
      BY <1>3, <1>5, <1>6, <2>1, <2>2, <2>3 DEF ConfigInv

(* The steps of CConfigFileReader keep ConfigInv.  The constructor must    *)
(* not find a list that is cut.                                            *)
LEMMA ConstructKeeps == ASSUME ConfigInv, Construct, ListsWhole(Config) PROVE ConfigInv'
  <1>0. /\ confPc' = "idle" /\ ret' = "none" /\ loadOk' \in BOOLEAN
        /\ UNCHANGED <<file, diskFull, written, intended, spoiled>>
    BY DEF Construct, ConfigInv, history
  <1>1. map' = Config /\ Config = [k \in DOMAIN Config |-> Config[k]]
    <2>1. CASE file = Missing
      <3>1. map' = <<>> /\ Config = <<>>
        BY <2>1 DEF Construct, Config
      <3> QED
        BY <3>1
    <2>2. CASE file # Missing
      BY <2>2 DEF Construct, Config, Loaded
    <2> QED
      BY <2>1, <2>2
  <1>2. IsMap(map') /\ ListsWhole(map') /\ NewlinesSet(map')
    BY <1>1 DEF ConfigInv, ReadsRight, IsMap, NewlinesSet
  <1>3. \A k \in DOMAIN map' : k \in spoiled \/ map'[k] \in intended[k]
    BY <1>1 DEF ConfigInv, ReadsRight
  <1>4. Config' = Config
    BY <1>0 DEF Config
  <1> QED
    BY <1>0, <1>2, <1>3, <1>4 DEF ConfigInv

(* SetConfigValue, whether fopen fails or empties the file.                *)
LEMMA SetConfigValueKeeps ==
    ASSUME ConfigInv, NEW k \in Settable, NEW v \in Plain \cup Odd, SetConfigValue(k, v)
    PROVE  ConfigInv'
  <1>0. map' = [x \in DOMAIN map \cup {k} |-> IF x = k THEN v ELSE map[x]] /\ loadOk' = loadOk
    BY DEF SetConfigValue
  <1>9. k \in Keys /\ k \notin ListKeys
    BY ConfigAssumption, ListsNotSet
  <1>8. /\ DOMAIN map' = DOMAIN map \cup {k} /\ map'[k] = v
        /\ \A x \in DOMAIN map : x # k => map'[x] = map[x]
    BY <1>0
  <1>1. IsMap(map') /\ ListsWhole(map') /\ NewlinesSet(map')
    <2>1. IsMap(map')
      BY <1>0, <1>8, <1>9 DEF ConfigInv, IsMap
    <2>2. ListsWhole(map')
      BY <1>8, <1>9 DEF ConfigInv, ListsWhole
    <2>3. NewlinesSet(map')
      BY <1>8 DEF ConfigInv, NewlinesSet
    <2> QED
      BY <2>1, <2>2, <2>3
  <1>3. CASE /\ ret' = "failed" /\ intended' = [intended EXCEPT ![k] = @ \cup {v}]
             /\ UNCHANGED <<file, diskFull, confPc, written, spoiled>>
    <2>1. confPc' = "idle" /\ Config' = Config
      BY <1>3 DEF SetConfigValue, Config
    <2>2. /\ intended' = [x \in Keys |-> intended'[x]]
          /\ v \in intended'[k] /\ \A x \in Keys : intended[x] \subseteq intended'[x]
      BY <1>3, <1>9 DEF ConfigInv
    <2>3. \A x \in DOMAIN map' : x \in spoiled' \/ map'[x] \in intended'[x]
      <3>1. DOMAIN map \subseteq Keys
        BY DEF ConfigInv, IsMap
      <3> QED
        BY <1>3, <1>8, <2>2, <3>1 DEF ConfigInv
    <2>4. ReadsRight(Config', intended', spoiled')
      BY <1>3, <2>1, <2>2 DEF ConfigInv, ReadsRight
    <2> QED
      BY <1>0, <1>1, <1>3, <2>1, <2>2, <2>3, <2>4 DEF ConfigInv
  <1>4. CASE /\ file' = <<>> /\ diskFull' = FALSE /\ intended' = [intended EXCEPT ![k] = {v}]
             /\ spoiled' = (spoiled \ {k}) \cup Spoils(map')
             /\ confPc' = "writing" /\ written' = 0 /\ UNCHANGED ret
    <2>1. /\ intended' = [x \in Keys |-> intended'[x]]
          /\ intended'[k] = {v} /\ \A x \in Keys : x # k => intended'[x] = intended[x]
      BY <1>4, <1>9 DEF ConfigInv
    <2>2. \A x \in DOMAIN map' : x \in spoiled' \/ map'[x] \in intended'[x]
      <3>1. DOMAIN map \subseteq Keys
        BY DEF ConfigInv, IsMap
      <3>2. \A x \in spoiled : x # k => x \in spoiled'
        BY <1>4
      <3> QED
        BY <1>8, <2>1, <3>1, <3>2 DEF ConfigInv
    <2>3. spoiled' \subseteq Keys
      <3>1. Spoils(map') \subseteq Keys
        BY <1>1, ConfigAssumption DEF Spoils, IsMap
      <3> QED
        BY <1>4, <3>1 DEF ConfigInv
    <2>4. written' \in 0..(2 * Len(KeyOrder)) /\ written' \in 0..Len(Lines(map'))
      BY <1>4, ConfigAssumption, LinesShape
    <2>5. KeysKnown(file') /\ DOMAIN Config' = {}
      BY <1>4, NothingRead DEF KeysKnown, Config
    <2>6. ReadsRight(Config', intended', spoiled')
      BY <2>5, NothingRead
    <2>7. Spoils(map') \subseteq spoiled' /\ ret' \in {"none", "saved", "failed"}
      BY <1>4 DEF ConfigInv
    <2> QED
      BY <1>0, <1>1, <1>4, <2>1, <2>2, <2>3, <2>4, <2>5, <2>6, <2>7 DEF ConfigInv
  <1> QED
    BY <1>3, <1>4 DEF SetConfigValue

(* What reaches the disk of a file that is being written.                  *)
LEMMA PartLeftReads ==
    ASSUME ConfigInv, confPc = "writing", NEW w \in 0..Len(Lines(map)),
           PartLeft(SubSeq(Lines(map), 1, w)), intended' = intended
    PROVE  /\ KeysKnown(file') /\ spoiled' \subseteq Keys /\ spoiled \subseteq spoiled'
           /\ ReadsRight(Config', intended', spoiled')
  <1>1. /\ ReadsRight(Loaded(file'), intended, spoiled \cup CutIn(file'))
        /\ KeysKnown(file') /\ spoiled \cup CutIn(file') \subseteq Keys
    <2>1. /\ ListsWhole(map) /\ NewlinesSet(map) /\ spoiled \subseteq Keys
          /\ Spoils(map) \subseteq spoiled
          /\ \A k \in DOMAIN map : k \in spoiled \/ map[k] \in intended[k]
      BY DEF ConfigInv
    <2>2. file' \in Truncated(SubSeq(Lines(map), 1, w))
      BY DEF PartLeft
    <2> QED
      BY <2>1, <2>2, TruncatedReads
  <1>2. spoiled' = spoiled \cup CutIn(file')
    BY DEF PartLeft
  <1>3. ReadsRight(Config', intended', spoiled')
    <2>1. CASE file' = Missing
      BY <2>1, NothingRead DEF Config
    <2>2. CASE file' # Missing
      BY <1>1, <1>2, <2>2 DEF Config
    <2> QED
      BY <2>1, <2>2
  <1> QED
    BY <1>1, <1>2, <1>3

(* _WriteFIle: each fwrite, one that fails, and fclose.                    *)
LEMMA WriteKeeps ==
    ASSUME ConfigInv, WriteEntry \/ WriteFails \/ CloseFile
    PROVE  ConfigInv'
  <1> DEFINE ls == Lines(map)
  <1>0. Len(ls) \in Nat /\ Len(ls) <= 2 * Len(KeyOrder) /\ Len(KeyOrder) \in Nat
    BY LinesShape, ConfigAssumption
  <1>1. written \in 0..Len(ls) /\ confPc = "writing"
    BY DEF ConfigInv, WriteEntry, WriteFails, CloseFile
  <1>2. CASE WriteEntry
    <2>1. written' \in 0..Len(ls) /\ written' \in 0..(2 * Len(KeyOrder))
      <3> HIDE DEF ls
      <3>1. written < Len(ls) /\ written' = written + 1
        BY <1>2 DEF WriteEntry, ls
      <3> QED
        BY <1>0, <1>1, <3>1
    <2>2. UNCHANGED <<file, diskFull, map, loadOk, confPc, ret, intended, spoiled>>
      BY <1>2 DEF WriteEntry, history
    <2>3. Config' = Config
      BY <2>2 DEF Config
    <2> QED
      BY <1>1, <2>1, <2>2, <2>3 DEF ConfigInv
  <1>3. CASE WriteFails
    <2>1. /\ diskFull' = TRUE /\ confPc' = "idle" /\ ret' = "failed"
          /\ UNCHANGED <<map, loadOk, written, intended>>
          /\ PartLeft(SubSeq(Lines(map), 1, written))
      BY <1>3 DEF WriteFails
    <2>2. /\ KeysKnown(file') /\ spoiled' \subseteq Keys /\ spoiled \subseteq spoiled'
          /\ ReadsRight(Config', intended', spoiled')
      BY <1>1, <2>1, PartLeftReads
    <2> QED
      BY <2>1, <2>2 DEF ConfigInv
  <1>4. CASE CloseFile
    <2>1. SubSeq(ls, 1, Len(ls)) = ls
      BY LinesShape
    <2>2. Len(ls) \in 0..Len(ls)
      BY <1>0
    <2>3. /\ confPc' = "idle" /\ ret' = "saved" /\ UNCHANGED <<map, loadOk, written, intended>>
          /\ \/ file' = ls /\ UNCHANGED <<diskFull, spoiled>>
             \/ PartLeft(ls) /\ diskFull' = TRUE
      BY <1>4 DEF CloseFile
    <2>4. CASE file' = ls /\ UNCHANGED <<diskFull, spoiled>>
      <3>1. PartOf(ls, map) /\ \A i \in 1..Len(ls) : ls[i] \in LinesOf(map)
        BY LinesPartOf, LinesShape DEF ConfigInv
      <3>2. ReadsRight(Loaded(ls), intended, spoiled)
        BY <1>1, <3>1, PartReads DEF ConfigInv
      <3>3. ReadsRight(Config', intended', spoiled')
        <4>1. CASE file' = Missing
          BY <4>1, NothingRead DEF Config
        <4>2. CASE file' # Missing
          BY <2>3, <2>4, <3>2, <4>2 DEF Config
        <4> QED
          BY <4>1, <4>2
      <3>4. KeysKnown(file')
        BY <2>4, <3>1 DEF KeysKnown, PartOf
      <3> QED
        BY <2>3, <2>4, <3>3, <3>4 DEF ConfigInv
    <2>5. CASE PartLeft(ls) /\ diskFull' = TRUE
      <3>1. PartLeft(SubSeq(Lines(map), 1, Len(ls)))
        BY <2>1, <2>5
      <3>2. /\ KeysKnown(file') /\ spoiled' \subseteq Keys /\ spoiled \subseteq spoiled'
            /\ ReadsRight(Config', intended', spoiled')
        BY <1>1, <2>2, <2>3, <3>1, PartLeftReads
      <3> QED
        BY <2>3, <2>5, <3>2 DEF ConfigInv
    <2> QED
      BY <2>3, <2>4, <2>5
  <1> QED
    BY <1>2, <1>3, <1>4

(* The process ends, perhaps while the file is written.                    *)
LEMMA ConfigLostKeeps == ASSUME ConfigInv, ConfigLost PROVE ConfigInv'
  <1>1. /\ confPc' = "none" /\ map' = <<>> /\ loadOk' = FALSE /\ written' = 0
        /\ ret' = "none" /\ UNCHANGED <<diskFull, intended>>
    BY DEF ConfigLost
  <1>2. KeysKnown(file') /\ spoiled' \subseteq Keys /\ ReadsRight(Config', intended', spoiled')
    <2>1. CASE confPc = "writing"
      <3>1. PartLeft(SubSeq(Lines(map), 1, written)) /\ written \in 0..Len(Lines(map))
        BY <2>1 DEF ConfigInv, ConfigLost
      <3> QED
        BY <1>1, <2>1, <3>1, PartLeftReads
    <2>2. CASE confPc # "writing"
      <3>1. UNCHANGED <<file, spoiled>>
        BY <2>2 DEF ConfigLost
      <3>2. Config' = Config
        BY <3>1 DEF Config
      <3> QED
        BY <1>1, <3>1, <3>2 DEF ConfigInv
    <2> QED
      BY <2>1, <2>2
  <1>3. written' \in 0..(2 * Len(KeyOrder))
    BY <1>1, ConfigAssumption
  <1> QED
    BY <1>1, <1>2, <1>3, NothingRead DEF ConfigInv

-----------------------------------------------------------------------------
(* CStrExplode.  Its loop, as LinesToUnfolds.                              *)
LEMMA ScannedUnfolds ==
    ASSUME NEW str, Len(str) \in Nat
    PROVE  Scanned(str) = [pos \in 0..Len(str) |->
               IF pos = 0 THEN [start |-> 1, items |-> <<>>]
               ELSE Scan(str, Scanned(str)[pos - 1], pos)]
  <1> DEFINE a0 == [start |-> 1, items |-> <<>>]
             IsAt(g, N) == g = [n \in 0..N |-> IF n = 0 THEN a0 ELSE Scan(str, g[n - 1], n)]
             T == {N \in Nat : \E g : IsAt(g, N)}
  <1> HIDE DEF a0
  <1>1. 0 \in T
    <2>1. IsAt([n \in 0..0 |-> a0], 0)
      OBVIOUS
    <2> QED BY <2>1
  <1>2. ASSUME NEW N \in T PROVE N + 1 \in T
    <2>1. PICK g : IsAt(g, N)
      OBVIOUS
    <2> DEFINE h == [n \in 0..(N + 1) |-> IF n = N + 1 THEN Scan(str, g[N], N + 1) ELSE g[n]]
    <2>2. IsAt(h, N + 1)
      <3> SUFFICES ASSUME NEW n \in 0..(N + 1)
                   PROVE  h[n] = IF n = 0 THEN a0 ELSE Scan(str, h[n - 1], n)
        OBVIOUS
      <3>1. CASE n = N + 1
        <4>1. h[n] = Scan(str, g[N], n) /\ h[n - 1] = g[N] /\ n # 0
          BY <3>1
        <4> QED BY <4>1
      <3>2. CASE n # N + 1
        <4>1. n \in 0..N
          BY <3>2
        <4>2. h[n] = g[n]
          BY <3>2
        <4>3. g[n] = IF n = 0 THEN a0 ELSE Scan(str, g[n - 1], n)
          BY <2>1, <4>1
        <4>4. n # 0 => h[n - 1] = g[n - 1]
          BY <4>1
        <4> QED BY <4>2, <4>3, <4>4
      <3> QED BY <3>1, <3>2
    <2>3. N + 1 \in Nat /\ \E x : IsAt(x, N + 1)
      <3> HIDE DEF IsAt, h
      <3> QED BY <2>2
    <2> QED BY <2>3
  <1>3. T = Nat
    <2>1. T \in SUBSET Nat
      OBVIOUS
    <2> HIDE DEF T
    <2> QED
      BY <2>1, <1>1, <1>2, NatSetInduction
  <1>4. \E g : IsAt(g, Len(str))
    BY <1>3
  <1>5. Scanned(str) = CHOOSE g : IsAt(g, Len(str))
    BY DEF Scanned, a0
  <1>6. IsAt(Scanned(str), Len(str))
    <2> HIDE DEF IsAt
    <2> QED
      BY <1>4, <1>5
  <1> QED
    BY <1>6 DEF a0

Commas(str, n) == {i \in 1..n : str[i] = Comma}

(* The separators up to a position, counted one position at a time.        *)
LEMMA CommasCounted ==
    ASSUME NEW str, NEW n \in Nat
    PROVE  /\ IsFiniteSet(Commas(str, n)) /\ Cardinality(Commas(str, n)) \in Nat
           /\ n = 0 => Cardinality(Commas(str, n)) = 0
           /\ n > 0 => Cardinality(Commas(str, n)) =
                  Cardinality(Commas(str, n - 1)) + IF str[n] = Comma THEN 1 ELSE 0
  <1>1. \A k \in Nat : IsFiniteSet(Commas(str, k)) /\ Cardinality(Commas(str, k)) \in Nat
    <2> TAKE k \in Nat
    <2>1. IsFiniteSet(1..k)
      BY FS_Interval
    <2>2. Commas(str, k) \subseteq 1..k
      BY DEF Commas
    <2>3. IsFiniteSet(Commas(str, k))
      BY <2>1, <2>2, FS_Subset
    <2> QED
      BY <2>3, FS_CardinalityType
  <1>2. ASSUME n = 0 PROVE Cardinality(Commas(str, n)) = 0
    <2>1. Commas(str, n) = {}
      BY <1>2 DEF Commas
    <2> QED
      BY <2>1, FS_EmptySet
  <1>3. ASSUME n > 0 PROVE Cardinality(Commas(str, n)) =
                  Cardinality(Commas(str, n - 1)) + IF str[n] = Comma THEN 1 ELSE 0
    <2>0. n - 1 \in Nat
      BY <1>3
    <2>1. CASE str[n] = Comma
      <3>1. Commas(str, n) = Commas(str, n - 1) \cup {n} /\ n \notin Commas(str, n - 1)
        BY <1>3, <2>1 DEF Commas
      <3> QED
        BY <1>1, <2>0, <2>1, <3>1, FS_AddElement
    <2>2. CASE str[n] # Comma
      <3>1. Commas(str, n) = Commas(str, n - 1)
        BY <1>3, <2>2 DEF Commas
      <3> QED
        BY <1>1, <2>0, <2>2, <3>1
    <2> QED
      BY <2>1, <2>2
  <1> QED
    BY <1>1, <1>2, <1>3

(* One turn of the loop: at a separator that does not begin a piece, the   *)
(* piece is an item.                                                       *)
LEMMA ScanTurn ==
    ASSUME NEW str, Len(str) \in Nat
    PROVE  /\ Scanned(str)[0].start = 1 /\ Scanned(str)[0].items = <<>>
           /\ \A n \in 1..Len(str) :
                LET a == Scanned(str)[n - 1]
                    b == Scanned(str)[n]
                IN  IF n # a.start /\ str[n] = Comma
                    THEN b.start = n + 1 /\ b.items = Append(a.items, SubSeq(str, a.start, n - 1))
                    ELSE b.start = a.start /\ b.items = a.items
  <1>1. Scanned(str)[0] = [start |-> 1, items |-> <<>>]
    BY ScannedUnfolds
  <1>2. ASSUME NEW n \in 1..Len(str)
        PROVE  Scanned(str)[n] = Scan(str, Scanned(str)[n - 1], n)
    <2>1. n \in 0..Len(str) /\ n # 0
      OBVIOUS
    <2> QED
      BY <2>1, ScannedUnfolds
  <1>3. ASSUME NEW n \in 1..Len(str)
        PROVE  LET a == Scanned(str)[n - 1]
                   b == Scanned(str)[n]
               IN  IF n # a.start /\ str[n] = Comma
                   THEN b.start = n + 1 /\ b.items = Append(a.items, SubSeq(str, a.start, n - 1))
                   ELSE b.start = a.start /\ b.items = a.items
    <2> DEFINE a == Scanned(str)[n - 1]
               b == Scanned(str)[n]
    <2>1. b = Scan(str, a, n)
      BY <1>2
    <2> HIDE DEF a, b
    <2>2. IF n # a.start /\ str[n] = Comma
          THEN b.start = n + 1 /\ b.items = Append(a.items, SubSeq(str, a.start, n - 1))
          ELSE b.start = a.start /\ b.items = a.items
      BY <2>1 DEF Scan
    <2> QED
      BY <2>2 DEF a, b
  <1> QED
    BY <1>1, <1>3

(* Where there is no empty piece between a border before n and one at or   *)
(* before n.                                                               *)
EmptyBefore(str, n) ==
    \E i \in 0..(n - 1) : (i = 0 \/ str[i] = Comma) /\ str[i + 1] = Comma

(* The loop: there are never more items than separators, fewer when a      *)
(* piece was empty, and the first begins with the first character.         *)
LEMMA ScanCounts ==
    ASSUME NEW str \in Seq(STRING), NEW n \in 0..Len(str)
    PROVE  LET a == Scanned(str)[n]
               c == Cardinality(Commas(str, n))
           IN  /\ a.start \in 1..(n + 1) /\ a.items \in Seq(Seq(STRING)) /\ Len(a.items) <= c
               /\ EmptyBefore(str, n) => Len(a.items) < c
               /\ n = 0 \/ str[n] = Comma => a.start = n + 1 \/ Len(a.items) < c
               /\ IF a.start = 1 THEN a.items = <<>>
                  ELSE Len(a.items) > 0 /\ Len(a.items[1]) > 0 /\ a.items[1][1] = str[1]
  <1> DEFINE L == Len(str)
             st(k) == Scanned(str)[k].start
             it(k) == Scanned(str)[k].items
             c(k) == Cardinality(Commas(str, k))
             P(k) == /\ st(k) \in 1..(k + 1) /\ it(k) \in Seq(Seq(STRING)) /\ Len(it(k)) <= c(k)
                     /\ EmptyBefore(str, k) => Len(it(k)) < c(k)
                     /\ k = 0 \/ str[k] = Comma => st(k) = k + 1 \/ Len(it(k)) < c(k)
                     /\ IF st(k) = 1 THEN it(k) = <<>>
                        ELSE Len(it(k)) > 0 /\ Len(it(k)[1]) > 0 /\ it(k)[1][1] = str[1]
             T == {k \in 0..L : P(k)}
  <1>0. L \in Nat
    OBVIOUS
  <1>1. P(0)
    <2>1. st(0) = 1 /\ it(0) = <<>>
      BY ScanTurn
    <2>2. c(0) = 0
      BY CommasCounted
    <2>3. ~EmptyBefore(str, 0)
      BY DEF EmptyBefore
    <2> HIDE DEF st, it, c
    <2>4. it(0) \in Seq(Seq(STRING)) /\ Len(it(0)) = 0
      BY <2>1, EmptySeq
    <2>5. st(0) \in 1..(0 + 1)
      BY <2>1
    <2> QED
      BY <2>1, <2>2, <2>3, <2>4, <2>5
  <1>2. ASSUME NEW k \in 1..L, P(k - 1) PROVE P(k)
    <2>1. IF k # st(k - 1) /\ str[k] = Comma
          THEN st(k) = k + 1 /\ it(k) = Append(it(k - 1), SubSeq(str, st(k - 1), k - 1))
          ELSE st(k) = st(k - 1) /\ it(k) = it(k - 1)
      BY <1>0, ScanTurn
    <2>2. /\ c(k - 1) \in Nat /\ c(k) \in Nat
          /\ c(k) = c(k - 1) + IF str[k] = Comma THEN 1 ELSE 0
      <3>1. k \in Nat /\ k - 1 \in Nat /\ k > 0
        OBVIOUS
      <3> QED
        BY <3>1, CommasCounted
    <2>3. EmptyBefore(str, k) => EmptyBefore(str, k - 1)
                                 \/ ((k - 1 = 0 \/ str[k - 1] = Comma) /\ str[k] = Comma)
      <3> SUFFICES ASSUME NEW i \in 0..(k - 1), (i = 0 \/ str[i] = Comma) /\ str[i + 1] = Comma
                   PROVE  EmptyBefore(str, k - 1)
                             \/ ((k - 1 = 0 \/ str[k - 1] = Comma) /\ str[k] = Comma)
        BY DEF EmptyBefore
      <3>1. CASE i = k - 1
        BY <3>1
      <3>2. CASE i \in 0..((k - 1) - 1)
        BY <3>2 DEF EmptyBefore
      <3> QED
        BY <3>1, <3>2
    <2> HIDE DEF st, it, c
    <2>4. st(k - 1) \in 1..k /\ it(k - 1) \in Seq(Seq(STRING)) /\ Len(it(k - 1)) \in Nat
      BY <1>2
    <2>5. CASE k # st(k - 1) /\ str[k] = Comma
      <3> DEFINE s == SubSeq(str, st(k - 1), k - 1)
      <3>1. s \in Seq(STRING) /\ Len(s) = k - st(k - 1) /\ s[1] = str[st(k - 1)]
        BY <2>4, <2>5
      <3> HIDE DEF s
      <3>2. /\ it(k) \in Seq(Seq(STRING)) /\ Len(it(k)) = Len(it(k - 1)) + 1
            /\ \A i \in 1..Len(it(k - 1)) : it(k)[i] = it(k - 1)[i]
            /\ it(k)[Len(it(k - 1)) + 1] = s
        <4>1. it(k) = Append(it(k - 1), s)
          BY <2>1, <2>5 DEF s
        <4> QED
          BY <2>4, <3>1, <4>1, AppendProperties
      <3>3. st(k) = k + 1 /\ st(k) # 1 /\ Len(it(k)) <= c(k)
        <4>1. st(k) = k + 1 /\ st(k) # 1
          BY <2>1, <2>5
        <4>2. Len(it(k - 1)) <= c(k - 1) /\ c(k) = c(k - 1) + 1 /\ c(k - 1) \in Nat
          BY <1>2, <2>2, <2>5
        <4>3. Len(it(k)) = Len(it(k - 1)) + 1 /\ Len(it(k - 1)) \in Nat
          BY <2>4, <3>2
        <4> QED
          BY <4>1, <4>2, <4>3
      <3>4. ASSUME EmptyBefore(str, k) PROVE Len(it(k)) < c(k)
        BY <1>2, <2>2, <2>3, <2>4, <2>5, <3>2, <3>4
      <3>5. Len(it(k)[1]) > 0 /\ it(k)[1][1] = str[1]
        <4>1. CASE st(k - 1) = 1
          <5>1. it(k - 1) = <<>> /\ Len(it(k - 1)) = 0
            BY <1>2, <4>1
          <5>2. it(k)[1] = s
            BY <3>2, <5>1
          <5> QED
            BY <2>4, <2>5, <3>1, <4>1, <5>2
        <4>2. CASE st(k - 1) # 1
          <5>1. /\ Len(it(k - 1)) > 0 /\ Len(it(k - 1)[1]) > 0
                /\ it(k - 1)[1][1] = str[1]
            BY <1>2, <4>2
          <5>2. it(k)[1] = it(k - 1)[1]
            BY <2>4, <3>2, <5>1
          <5> QED
            BY <5>1, <5>2
        <4> QED
          BY <4>1, <4>2
      <3> QED
        BY <2>4, <3>2, <3>3, <3>4, <3>5
    <2>6. CASE ~(k # st(k - 1) /\ str[k] = Comma)
      <3>1. st(k) = st(k - 1) /\ it(k) = it(k - 1)
        BY <2>1, <2>6
      <3>2. CASE str[k] = Comma
        <4>1. Len(it(k)) < c(k)
          BY <1>2, <2>2, <2>4, <3>1, <3>2
        <4> QED
          BY <1>2, <2>2, <2>4, <3>1, <4>1
      <3>3. CASE str[k] # Comma
        BY <1>2, <2>2, <2>3, <2>4, <3>1, <3>3
      <3> QED
        BY <3>2, <3>3
    <2> QED
      BY <2>5, <2>6
  <1>3. P(n)
    <2> HIDE DEF P
    <2>1. 0 \in T
      BY <1>0, <1>1
    <2>2. \A k \in 1..L : k - 1 \in T => k \in T
      BY <1>0, <1>2
    <2>3. 0..L \subseteq T
      <3> HIDE DEF T
      <3> QED
        BY <2>1, <2>2, <1>0, UpToInduction
    <2> QED
      BY <2>3, <1>0
  <1> QED
    BY <1>3

(* After the loop: what is left of the text, if anything is, is an item.   *)
LEMMA ItemListEnd ==
    ASSUME NEW str \in Seq(STRING)
    PROVE  LET a == Scanned(str)[Len(str)]
           IN  /\ ItemList(str) \in Seq(Seq(STRING))
               /\ IF a.start <= Len(str)
                  THEN /\ ItemList(str) = Append(a.items, SubSeq(str, a.start, Len(str)))
                       /\ Len(ItemList(str)) = Len(a.items) + 1
                       /\ \A i \in 1..Len(a.items) : ItemList(str)[i] = a.items[i]
                       /\ ItemList(str)[Len(a.items) + 1] = SubSeq(str, a.start, Len(str))
                  ELSE ItemList(str) = a.items
  <1> DEFINE a == Scanned(str)[Len(str)]
  <1>0. Len(str) \in Nat /\ Len(str) \in 0..Len(str)
    OBVIOUS
  <1>1. Len(str) \in Nat /\ a.start \in 1..(Len(str) + 1) /\ a.items \in Seq(Seq(STRING))
    BY <1>0, ScanCounts
  <1>2. ItemList(str) = IF a.start <= Len(str)
                        THEN Append(a.items, SubSeq(str, a.start, Len(str))) ELSE a.items
    BY DEF ItemList
  <1> HIDE DEF a
  <1>3. CASE a.start <= Len(str)
    <2> DEFINE s == SubSeq(str, a.start, Len(str))
    <2>1. s \in Seq(STRING)
      BY <1>1, <1>3
    <2>2. ItemList(str) = Append(a.items, s)
      BY <1>2, <1>3
    <2> HIDE DEF s
    <2>3. /\ ItemList(str) \in Seq(Seq(STRING))
          /\ Len(ItemList(str)) = Len(a.items) + 1
          /\ \A i \in 1..Len(a.items) : ItemList(str)[i] = a.items[i]
          /\ ItemList(str)[Len(a.items) + 1] = s
      BY <1>1, <2>1, <2>2, AppendProperties
    <2> QED
      BY <1>3, <2>2, <2>3 DEF a, s
  <1>4. CASE ~(a.start <= Len(str))
    <2>1. ItemList(str) = a.items
      BY <1>2, <1>4
    <2> QED
      BY <1>1, <1>4, <2>1 DEF a
  <1> QED
    BY <1>3, <1>4

(* m_item_cnt.                                                             *)
LEMMA ItemCntCommas ==
    ASSUME NEW str \in Seq(STRING)
    PROVE  ItemCnt(str) = 1 + Cardinality(Commas(str, Len(str)))
  <1>1. DOMAIN str = 1..Len(str)
    OBVIOUS
  <1> QED
    BY <1>1 DEF ItemCnt, Commas

(* CStrExplode: an empty piece leaves an item unset.                       *)
LEMMA EmptyPieceCounts ==
    ASSUME NEW str \in Seq(STRING), ~NoEmptyPiece(str)
    PROVE  Len(ItemList(str)) < ItemCnt(str)
  <1> DEFINE L == Len(str)
             a == Scanned(str)[L]
             c == Cardinality(Commas(str, L))
  <1>0. L \in Nat /\ L \in 0..L /\ c \in Nat /\ DOMAIN str = 1..L
    BY CommasCounted
  <1>1. /\ a.start \in 1..(L + 1) /\ a.items \in Seq(Seq(STRING)) /\ Len(a.items) <= c
        /\ EmptyBefore(str, L) => Len(a.items) < c
        /\ L = 0 \/ str[L] = Comma => a.start = L + 1 \/ Len(a.items) < c
    BY <1>0, ScanCounts
  <1>2. Len(a.items) \in Nat
    BY <1>1
  <1>3. Len(a.items) < c \/ a.start = L + 1
    <2>1. PICK e \in Borders(str) : e + 1 \in Borders(str)
      BY DEF NoEmptyPiece
    <2>2. e \in 0..L /\ (e = 0 \/ str[e] = Comma)
      BY <1>0, <2>1 DEF Borders
    <2>3. CASE e = L
      BY <1>1, <2>2, <2>3
    <2>4. CASE e # L
      <3>1. e \in 0..(L - 1) /\ str[e + 1] = Comma
        BY <1>0, <2>1, <2>2, <2>4 DEF Borders
      <3>2. EmptyBefore(str, L)
        BY <2>2, <3>1 DEF EmptyBefore
      <3> QED
        BY <1>1, <3>2
    <2> QED
      BY <2>3, <2>4
  <1>4. ItemCnt(str) = 1 + c
    BY ItemCntCommas
  <1>5. IF a.start <= L THEN Len(ItemList(str)) = Len(a.items) + 1
                        ELSE ItemList(str) = a.items
    BY ItemListEnd
  <1> HIDE DEF a, c, L
  <1> QED
    BY <1>0, <1>1, <1>2, <1>3, <1>4, <1>5

(* CStrExplode: there is an item, which begins as the text does.           *)
LEMMA FirstItem ==
    ASSUME NEW str \in Seq(STRING), str # <<>>
    PROVE  /\ ItemList(str) \in Seq(Seq(STRING)) /\ Len(ItemList(str)) > 0
           /\ ItemList(str)[1][1] = str[1]
  <1> DEFINE L == Len(str)
             a == Scanned(str)[L]
  <1>0. L \in Nat /\ L \in 0..L /\ L > 0
    OBVIOUS
  <1>1. /\ a.start \in 1..(L + 1) /\ a.items \in Seq(Seq(STRING))
        /\ IF a.start = 1 THEN a.items = <<>>
           ELSE Len(a.items) > 0 /\ Len(a.items[1]) > 0 /\ a.items[1][1] = str[1]
    BY <1>0, ScanCounts
  <1>2. /\ ItemList(str) \in Seq(Seq(STRING))
        /\ IF a.start <= L
           THEN /\ Len(ItemList(str)) = Len(a.items) + 1
                /\ \A i \in 1..Len(a.items) : ItemList(str)[i] = a.items[i]
                /\ ItemList(str)[Len(a.items) + 1] = SubSeq(str, a.start, L)
           ELSE ItemList(str) = a.items
    BY ItemListEnd
  <1>3. Len(a.items) \in Nat
    BY <1>1
  <1> HIDE DEF a
  <1>4. CASE a.start = 1
    <2>1. Len(a.items) = 0
      BY <1>1, <1>4
    <2>2. ItemList(str)[1] = SubSeq(str, 1, L)
      BY <1>0, <1>2, <1>4, <2>1
    <2>3. SubSeq(str, 1, L)[1] = str[1]
      BY <1>0
    <2> QED
      BY <1>0, <1>2, <1>4, <2>1, <2>2, <2>3
  <1>5. CASE a.start # 1
    <2>1. Len(a.items) > 0 /\ a.items[1][1] = str[1] /\ 1 \in 1..Len(a.items)
      BY <1>1, <1>3, <1>5
    <2>2. ItemList(str)[1] = a.items[1] /\ Len(ItemList(str)) > 0
      BY <1>2, <1>3, <2>1
    <2> QED
      BY <1>2, <2>1, <2>2
  <1> QED
    BY <1>4, <1>5

-----------------------------------------------------------------------------
(* The borders of pieces are counted from the left.                        *)
Rank(str, e) == Cardinality({d \in Borders(str) : d < e})

(* The borders are the separators and the two ends of the text.            *)
LEMMA BordersInRange ==
    ASSUME NEW str \in Seq(STRING)
    PROVE  /\ Borders(str) \subseteq 0..(Len(str) + 1)
           /\ \A e \in 1..Len(str) : e \in Borders(str) <=> str[e] = Comma
           /\ 0 \in Borders(str) /\ Len(str) + 1 \in Borders(str)
  <1>1. DOMAIN str = 1..Len(str) /\ Len(str) \in Nat
    OBVIOUS
  <1> QED
    BY <1>1 DEF Borders

(* A border further right has more before it, and the next has one more.   *)
LEMMA RankOrder ==
    ASSUME NEW str \in Seq(STRING), NEW d \in Borders(str), NEW e \in Borders(str), d < e
    PROVE  /\ Rank(str, d) \in Nat /\ Rank(str, e) \in Nat /\ Rank(str, d) < Rank(str, e)
           /\ (\A x \in Borders(str) : ~(d < x /\ x < e)) => Rank(str, e) = Rank(str, d) + 1
  <1> DEFINE B(y) == {x \in Borders(str) : x < y}
  <1>0. Borders(str) \subseteq 0..(Len(str) + 1) /\ Len(str) \in Nat
    BY BordersInRange
  <1>1. ASSUME NEW y PROVE IsFiniteSet(B(y)) /\ Cardinality(B(y)) \in Nat
    <2>1. IsFiniteSet(0..(Len(str) + 1))
      BY <1>0, FS_Interval
    <2>2. B(y) \subseteq 0..(Len(str) + 1)
      BY <1>0
    <2> HIDE DEF B
    <2>3. IsFiniteSet(B(y))
      BY <2>1, <2>2, FS_Subset
    <2> QED
      BY <2>3, FS_CardinalityType
  <1>2. d \notin B(d) /\ B(d) \cup {d} \subseteq B(e)
    BY <1>0
  <1>3. ASSUME \A x \in Borders(str) : ~(d < x /\ x < e) PROVE B(e) = B(d) \cup {d}
    BY <1>0, <1>3
  <1>4. Rank(str, d) = Cardinality(B(d)) /\ Rank(str, e) = Cardinality(B(e))
    BY DEF Rank
  <1> HIDE DEF B
  <1>5. Cardinality(B(d) \cup {d}) = Cardinality(B(d)) + 1
    BY <1>1, <1>2, FS_AddElement
  <1>6. Cardinality(B(d) \cup {d}) <= Cardinality(B(e))
    BY <1>1, <1>2, FS_Subset
  <1>7. Cardinality(B(d)) \in Nat /\ Cardinality(B(e)) \in Nat
    BY <1>1
  <1>8. ASSUME \A x \in Borders(str) : ~(d < x /\ x < e)
        PROVE  Rank(str, e) = Rank(str, d) + 1
    BY <1>3, <1>4, <1>5, <1>8
  <1>9. Cardinality(B(d)) < Cardinality(B(e))
    BY <1>5, <1>6, <1>7
  <1> QED
    BY <1>4, <1>7, <1>8, <1>9

(* So that the n-th border is the only one with n others before it.        *)
LEMMA BorderAtRank ==
    ASSUME NEW str \in Seq(STRING), NEW e \in Borders(str)
    PROVE  BorderAt(str, Rank(str, e)) = e
  <1>0. Borders(str) \subseteq 0..(Len(str) + 1) /\ Len(str) \in Nat
    BY BordersInRange
  <1>1. ASSUME NEW d \in Borders(str), Rank(str, d) = Rank(str, e) PROVE d = e
    <2>1. ~(d < e)
      BY <1>1, RankOrder
    <2>2. ~(e < d)
      BY <1>1, RankOrder
    <2> QED
      BY <1>0, <2>1, <2>2
  <1>2. BorderAt(str, Rank(str, e)) = CHOOSE d \in Borders(str) : Rank(str, d) = Rank(str, e)
    BY DEF BorderAt, Rank
  <1> QED
    BY <1>1, <1>2

(* The items so far are the pieces so far, and the next one starts behind  *)
(* the last border.                                                        *)
LEMMA ScanPieces ==
    ASSUME NEW str \in Seq(STRING), NoEmptyPiece(str), NEW n \in 0..Len(str)
    PROVE  LET a == Scanned(str)[n]
           IN  /\ a.start \in 1..(n + 1) /\ a.start - 1 \in Borders(str)
               /\ \A x \in a.start..n : x \notin Borders(str)
               /\ Len(a.items) = Cardinality(Commas(str, n))
               /\ Rank(str, a.start - 1) = Len(a.items)
               /\ \A i \in 1..Len(a.items) : \E d, e \in Borders(str) :
                     /\ Rank(str, d) = i - 1 /\ Rank(str, e) = i
                     /\ a.items[i] = SubSeq(str, d + 1, e - 1)
  <1> DEFINE L == Len(str)
             st(k) == Scanned(str)[k].start
             it(k) == Scanned(str)[k].items
             c(k) == Cardinality(Commas(str, k))
             Is(s, i) == \E d, e \in Borders(str) : /\ Rank(str, d) = i - 1 /\ Rank(str, e) = i
                                                    /\ s = SubSeq(str, d + 1, e - 1)
             P(k) == /\ st(k) \in 1..(k + 1) /\ st(k) - 1 \in Borders(str)
                     /\ \A x \in st(k)..k : x \notin Borders(str)
                     /\ Len(it(k)) = c(k)
                     /\ Rank(str, st(k) - 1) = Len(it(k))
                     /\ \A i \in 1..Len(it(k)) : Is(it(k)[i], i)
             T == {k \in 0..L : P(k)}
  <1>0. L \in Nat
    OBVIOUS
  <1>1. P(0)
    <2>1. st(0) = 1 /\ it(0) = <<>> /\ Len(it(0)) = 0
      BY ScanTurn
    <2>2. c(0) = 0
      BY CommasCounted
    <2>3. Rank(str, 0) = 0
      <3>1. {d \in Borders(str) : d < 0} = {}
        BY BordersInRange
      <3> QED
        BY <3>1, FS_EmptySet DEF Rank
    <2>4. 0 \in Borders(str)
      BY BordersInRange
    <2> HIDE DEF st, it, c, Is
    <2>5. st(0) - 1 = 0 /\ st(0) \in 1..(0 + 1) /\ st(0)..0 = {}
      BY <2>1
    <2> QED
      BY <2>1, <2>2, <2>3, <2>4, <2>5
  <1>2. ASSUME NEW k \in 1..L, P(k - 1) PROVE P(k)
    <2>1. IF k # st(k - 1) /\ str[k] = Comma
          THEN st(k) = k + 1 /\ it(k) = Append(it(k - 1), SubSeq(str, st(k - 1), k - 1))
          ELSE st(k) = st(k - 1) /\ it(k) = it(k - 1)
      BY <1>0, ScanTurn
    <2>2. c(k - 1) \in Nat /\ c(k) = c(k - 1) + IF str[k] = Comma THEN 1 ELSE 0
      <3>1. k \in Nat /\ k - 1 \in Nat /\ k > 0
        OBVIOUS
      <3> QED
        BY <3>1, CommasCounted
    <2>3. k \in Borders(str) <=> str[k] = Comma
      BY BordersInRange
    <2>4. it(k - 1) \in Seq(Seq(STRING))
      <3>1. k - 1 \in 0..L
        OBVIOUS
      <3> QED
        BY <3>1, ScanCounts
    <2> HIDE DEF st, it, c, Is
    <2>5. st(k - 1) \in 1..k /\ Len(it(k - 1)) \in Nat
      BY <1>2, <2>4
    <2>6. CASE str[k] = Comma
      <3> DEFINE s == SubSeq(str, st(k - 1), k - 1)
      <3>1. k # st(k - 1)
        <4>1. (st(k - 1) - 1) + 1 \notin Borders(str)
          BY <1>2 DEF NoEmptyPiece
        <4> QED
          BY <2>3, <2>5, <2>6, <4>1
      <3>2. st(k) = k + 1 /\ it(k) = Append(it(k - 1), s)
        BY <2>1, <2>6, <3>1
      <3>3. s \in Seq(STRING)
        BY <2>5
      <3>4. Rank(str, k) = Len(it(k - 1)) + 1
        <4>1. \A x \in Borders(str) : ~(st(k - 1) - 1 < x /\ x < k)
          BY <1>2, <2>5, BordersInRange
        <4>2. st(k - 1) - 1 < k /\ st(k - 1) - 1 \in Borders(str) /\ k \in Borders(str)
          BY <1>2, <2>3, <2>5, <2>6
        <4> QED
          BY <1>2, <4>1, <4>2, RankOrder
      <3>5. Is(s, Len(it(k - 1)) + 1)
        <4>1. st(k - 1) - 1 \in Borders(str) /\ k \in Borders(str)
          BY <1>2, <2>3, <2>6
        <4>2. s = SubSeq(str, (st(k - 1) - 1) + 1, k - 1)
          <5>1. (st(k - 1) - 1) + 1 = st(k - 1)
            BY <2>5
          <5> QED
            BY <5>1
        <4>3. Rank(str, st(k - 1) - 1) = (Len(it(k - 1)) + 1) - 1
          BY <1>2, <2>5
        <4> HIDE DEF s
        <4> QED
          BY <3>4, <4>1, <4>2, <4>3 DEF Is
      <3> HIDE DEF s
      <3>6. /\ Len(it(k)) = Len(it(k - 1)) + 1
            /\ \A i \in 1..Len(it(k - 1)) : it(k)[i] = it(k - 1)[i]
            /\ it(k)[Len(it(k - 1)) + 1] = s
        BY <2>4, <3>2, <3>3, AppendProperties
      <3>7. ASSUME NEW i \in 1..Len(it(k)) PROVE Is(it(k)[i], i)
        <4>1. CASE i = Len(it(k - 1)) + 1
          BY <3>5, <3>6, <4>1
        <4>2. CASE i \in 1..Len(it(k - 1))
          BY <1>2, <3>6, <4>2
        <4> QED
          BY <2>5, <3>6, <4>1, <4>2
      <3>8. Len(it(k)) = c(k)
        BY <1>2, <2>2, <2>6, <3>6
      <3>9. st(k) \in 1..(k + 1) /\ st(k) - 1 = k /\ st(k)..k = {}
        BY <3>2
      <3> QED
        BY <2>3, <2>6, <3>4, <3>6, <3>7, <3>8, <3>9
    <2>7. CASE str[k] # Comma
      <3>1. st(k) = st(k - 1) /\ it(k) = it(k - 1)
        BY <2>1, <2>7
      <3>2. \A x \in st(k)..k : x \notin Borders(str)
        BY <1>2, <2>3, <2>5, <2>7, <3>1
      <3>3. Len(it(k)) = c(k) /\ st(k) \in 1..(k + 1)
        BY <1>2, <2>2, <2>5, <2>7, <3>1
      <3> QED
        BY <1>2, <3>1, <3>2, <3>3
    <2> QED
      BY <2>6, <2>7
  <1>3. P(n)
    <2> HIDE DEF P
    <2>1. 0 \in T
      BY <1>0, <1>1
    <2>2. \A k \in 1..L : k - 1 \in T => k \in T
      BY <1>0, <1>2
    <2>3. 0..L \subseteq T
      <3> HIDE DEF T
      <3> QED
        BY <2>1, <2>2, <1>0, UpToInduction
    <2> QED
      BY <2>3, <1>0
  <1> QED
    BY <1>3

(* CStrExplode: without an empty piece, the items are the pieces.          *)
LEMMA ItemsArePieces ==
    ASSUME NEW str \in Seq(STRING), NoEmptyPiece(str)
    PROVE  ItemList(str) = Pieces(str) /\ ItemCnt(str) = Len(Pieces(str))
  <1> DEFINE L == Len(str)
             a == Scanned(str)[L]
             c == Cardinality(Commas(str, L))
             Is(s, i) == \E d, e \in Borders(str) : /\ Rank(str, d) = i - 1 /\ Rank(str, e) = i
                                                    /\ s = SubSeq(str, d + 1, e - 1)
  <1>0. L \in Nat /\ L \in 0..L /\ c \in Nat /\ ItemCnt(str) = 1 + c
    BY CommasCounted, ItemCntCommas
  <1>1. /\ a.start \in 1..(L + 1) /\ a.start - 1 \in Borders(str)
        /\ \A x \in a.start..L : x \notin Borders(str)
        /\ Len(a.items) = c
        /\ Rank(str, a.start - 1) = Len(a.items)
        /\ \A i \in 1..Len(a.items) : Is(a.items[i], i)
    BY <1>0, ScanPieces
  <1>2. L + 1 \in Borders(str) /\ Borders(str) \subseteq 0..(L + 1)
    BY BordersInRange
  <1>3. /\ ItemList(str) \in Seq(Seq(STRING))
        /\ IF a.start <= L
           THEN /\ Len(ItemList(str)) = Len(a.items) + 1
                /\ \A i \in 1..Len(a.items) : ItemList(str)[i] = a.items[i]
                /\ ItemList(str)[Len(a.items) + 1] = SubSeq(str, a.start, L)
           ELSE ItemList(str) = a.items
    BY ItemListEnd
  <1> HIDE DEF a, c, L, Is
  <1>4. a.start <= L
    <2>1. (a.start - 1) + 1 \notin Borders(str)
      BY <1>1 DEF NoEmptyPiece
    <2> QED
      BY <1>0, <1>1, <1>2, <2>1
  <1>5. Len(ItemList(str)) = c + 1
    BY <1>1, <1>3, <1>4
  <1>6. Rank(str, L + 1) = c + 1
    <2>1. a.start - 1 < L + 1 /\ \A x \in Borders(str) : ~(a.start - 1 < x /\ x < L + 1)
      BY <1>0, <1>1, <1>2
    <2>2. Rank(str, L + 1) = Rank(str, a.start - 1) + 1
      BY <1>1, <1>2, <2>1, RankOrder
    <2> QED
      BY <1>1, <2>2
  <1>7. Is(SubSeq(str, a.start, L), c + 1)
    <2>1. (a.start - 1) + 1 = a.start /\ (L + 1) - 1 = L /\ (c + 1) - 1 = c
      BY <1>0, <1>1
    <2>2. SubSeq(str, a.start, L) = SubSeq(str, (a.start - 1) + 1, (L + 1) - 1)
      BY <2>1
    <2>3. Rank(str, a.start - 1) = (c + 1) - 1
      BY <1>1, <2>1
    <2> QED
      BY <1>1, <1>2, <1>6, <2>2, <2>3 DEF Is
  <1>8. ASSUME NEW i \in 1..(c + 1) PROVE Is(ItemList(str)[i], i)
    <2>1. CASE i = c + 1
      BY <1>1, <1>3, <1>4, <1>7, <2>1
    <2>2. CASE i \in 1..c
      BY <1>1, <1>3, <1>4, <2>2
    <2> QED
      BY <1>0, <2>1, <2>2
  <1>9. ASSUME NEW i \in 1..(c + 1) PROVE ItemList(str)[i] = Pieces(str)[i]
    <2>1. PICK d \in Borders(str), e \in Borders(str) :
                  /\ Rank(str, d) = i - 1 /\ Rank(str, e) = i
                  /\ ItemList(str)[i] = SubSeq(str, d + 1, e - 1)
      BY <1>8 DEF Is
    <2>2. BorderAt(str, i - 1) = d /\ BorderAt(str, i) = e
      BY <2>1, BorderAtRank
    <2>3. i \in 1..ItemCnt(str)
      BY <1>0
    <2> QED
      BY <2>1, <2>2, <2>3 DEF Pieces
  <1>10. DOMAIN Pieces(str) = 1..(c + 1) /\ Len(Pieces(str)) = c + 1
         /\ Pieces(str) = [i \in 1..(c + 1) |-> Pieces(str)[i]]
    <2>1. ItemCnt(str) = c + 1
      BY <1>0
    <2>2. Pieces(str) = [i \in 1..(c + 1) |->
                           SubSeq(str, BorderAt(str, i - 1) + 1, BorderAt(str, i) - 1)]
      BY <2>1 DEF Pieces
    <2>3. DOMAIN Pieces(str) = 1..(c + 1) /\ Pieces(str) = [i \in 1..(c + 1) |-> Pieces(str)[i]]
      BY <2>2
    <2>4. Len(Pieces(str)) = c + 1
      BY <1>0, <2>3
    <2> QED
      BY <2>3, <2>4
  <1>11. ItemList(str) = [i \in 1..(c + 1) |-> ItemList(str)[i]]
    BY <1>3, <1>5
  <1> QED
    BY <1>0, <1>9, <1>10, <1>11

(* CStrExplode, for every list: the split is right where there is no empty *)
(* piece, and an item stays unset where there is one.                      *)
LEMMA ExplodeRight ==
    ASSUME NEW str \in Seq(STRING)
    PROVE  IF NoEmptyPiece(str)
           THEN ItemList(str) = Pieces(str) /\ ItemCnt(str) = Len(Pieces(str))
           ELSE Len(ItemList(str)) < ItemCnt(str)
  BY ItemsArePieces, EmptyPieceCounts

-----------------------------------------------------------------------------
(* A value that is cut begins as the whole one.                            *)
LEMMA PartOfText ==
    ASSUME NEW key, NEW text \in Seq(STRING), text # <<>>, NEW str \in TextOf(key, text)
    PROVE  /\ str \in Seq(STRING) /\ str # <<>> /\ str[1] = text[1]
           /\ Config[key] # "cut" => str = text
  <1>1. CASE Config[key] = "cut"
    <2>1. PICK n \in 1..Len(text) : str = SubSeq(text, 1, n)
      BY <1>1 DEF TextOf
    <2>2. str \in Seq(STRING) /\ Len(str) = n /\ str[1] = text[1]
      BY <2>1
    <2>3. str # <<>>
      BY <2>1, <2>2
    <2> QED
      BY <1>1, <2>2, <2>3
  <1>2. CASE Config[key] # "cut"
    BY <1>2 DEF TextOf
  <1> QED
    BY <1>1, <1>2

(* When the list of databases is there, that of the caches is not cut.     *)
LEMMA CacheListWhole ==
    ASSUME ConfigInv, "DBInstances" \in DOMAIN Config, "CacheInstances" \in DOMAIN Config
    PROVE  Config["CacheInstances"] # "cut"
  <1> SUFFICES ASSUME Config["CacheInstances"] = "cut" PROVE FALSE
    OBVIOUS
  <1>1. Before("DBInstances", "CacheInstances")
    <2>1. \A j \in DOMAIN Config : j = "CacheInstances" \/ Before(j, "CacheInstances")
      BY DEF ConfigInv, ReadsRight, ListKeys
    <2> QED
      BY <2>1
  <1> QED
    BY <1>1, ListsAssumption, BeforeIsOrder

(* CDBManager::Init gets through only with the whole list: the instances   *)
(* of one that is cut are behind it, in the part of the file that is lost. *)
LEMMA DbListWhole ==
    ASSUME ConfigInv, dbText \in DbTexts, "DBInstances" \in DOMAIN Config,
           NEW str \in TextOf("DBInstances", dbText),
           \A i \in DOMAIN ItemList(str) : Configured(ItemList(str)[i])
    PROVE  str = dbText /\ ListsWhole(Config)
  <1>1. dbText \in Seq(STRING) /\ dbText # <<>>
    BY ListsAssumption
  <1>2. str \in Seq(STRING) /\ str # <<>> /\ str[1] = dbText[1]
    BY <1>1, PartOfText
  <1>3. Config["DBInstances"] # "cut"
    <2> SUFFICES ASSUME Config["DBInstances"] = "cut" PROVE FALSE
      OBVIOUS
    <2>1. 1 \in DOMAIN ItemList(str) /\ ItemList(str)[1][1] = str[1]
      BY <1>2, FirstItem
    <2>2. PICK k \in DOMAIN Config : ItemList(str)[1] = <<k>>
      BY <2>1 DEF Configured
    <2>3. k = dbText[1] /\ k \in Keys
      BY <1>2, <2>1, <2>2 DEF ConfigInv, ReadsRight
    <2>4. 1 \in DOMAIN dbText
      BY <1>1
    <2>5. Before("DBInstances", k)
      BY <2>3, <2>4, ListsAssumption
    <2>6. k = "DBInstances" \/ Before(k, "DBInstances")
      BY DEF ConfigInv, ReadsRight, ListKeys
    <2> QED
      BY <2>5, <2>6, BeforeIsOrder
  <1>4. str = dbText
    BY <1>1, <1>3, PartOfText
  <1>5. ListsWhole(Config)
    <2> SUFFICES ASSUME NEW k \in ListKeys \cap DOMAIN Config
                 PROVE  Config[k] \notin Odd \cup {"cut", "part"}
      BY DEF ListsWhole
    <2>1. Config[k] # "cut"
      BY <1>3, CacheListWhole DEF ListKeys
    <2>2. Config[k] \notin Odd \cup {"part"}
      BY DEF ConfigInv, ReadsRight
    <2> QED
      BY <2>1, <2>2
  <1> QED
    BY <1>4, <1>5

(* Before main starts.                                                     *)
LEMMA ProcInvInit == Init => ProcInv
  <1> SUFFICES ASSUME Init PROVE ProcInv
    OBVIOUS
  <1>1. DOMAIN conf = {}
    BY DEF Init
  <1> QED
    BY <1>1 DEF Init, ConfigInit, ProcInv

(* CDBManager::getInstance.                                                *)
LEMMA DbManagerKeeps ==
    ASSUME ConfigInv, ProcInv, ManagerInit("db", "DBInstances", dbText, "cache")
    PROVE  ProcInv'
  <1>0. /\ proc = "db" /\ "DBInstances" \in DOMAIN Config /\ pools = {} /\ confPc' = "none"
        /\ UNCHANGED <<file, conf>>
    BY DEF ManagerInit, ProcInv, confVars
  <1>1. dbText \in DbTexts /\ cacheText \in CacheTexts /\ dbText \in Seq(STRING)
    BY ListsAssumption DEF ProcInv
  <1>2. PICK str \in TextOf("DBInstances", dbText) :
           \/ ProcAt("exited")
           \/ /\ \A i \in DOMAIN ItemList(str) : Configured(ItemList(str)[i])
              /\ ProcAt(IF Len(ItemList(str)) < ItemCnt(str) THEN "undefined" ELSE "cache")
              /\ pools' = pools \cup Range(ItemList(str))
    BY DEF ManagerInit
  <1>3. CASE ProcAt("exited")
    BY <1>0, <1>3 DEF ProcAt, ProcInv
  <1>4. CASE /\ \A i \in DOMAIN ItemList(str) : Configured(ItemList(str)[i])
             /\ ProcAt(IF Len(ItemList(str)) < ItemCnt(str) THEN "undefined" ELSE "cache")
             /\ pools' = pools \cup Range(ItemList(str))
    <2>1. str = dbText /\ ListsWhole(Config)
      BY <1>0, <1>1, <1>4, DbListWhole
    <2>2. Config' = Config /\ \A item : Configured(item)' <=> Configured(item)
      BY <1>0 DEF Config, Configured
    <2>3. \A item \in pools' : Configured(item)
      BY <1>0, <1>4 DEF Range
    <2>4. CASE Len(ItemList(str)) < ItemCnt(str)
      <3>1. ~NoEmptyPiece(dbText)
        <4> SUFFICES ASSUME NoEmptyPiece(dbText) PROVE FALSE
          OBVIOUS
        <4>1. ItemList(dbText) = Pieces(dbText) /\ ItemCnt(dbText) = Len(Pieces(dbText))
          BY <1>1, ExplodeRight
        <4>2. ItemList(dbText) \in Seq(Seq(STRING))
          BY <1>1, ItemListEnd
        <4>3. Len(ItemList(dbText)) \in Nat
          BY <4>2
        <4> QED
          BY <2>1, <2>4, <4>1, <4>3
      <3>2. proc' = "undefined" /\ UNCHANGED <<dbText, cacheText>>
        BY <1>4, <2>4 DEF ProcAt
      <3> QED
        BY <1>0, <1>1, <3>1, <3>2 DEF ProcInv
    <2>5. CASE ~(Len(ItemList(str)) < ItemCnt(str))
      <3>1. proc' = "cache" /\ UNCHANGED <<dbText, cacheText>>
        BY <1>4, <2>5 DEF ProcAt
      <3>2. pools' = Range(Pieces(dbText))
        BY <1>0, <1>1, <1>4, <2>1, <2>5, ExplodeRight
      <3> QED
        BY <1>0, <1>1, <2>1, <2>2, <2>3, <3>1, <3>2 DEF ProcInv
    <2> QED
      BY <2>4, <2>5
  <1> QED
    BY <1>2, <1>3, <1>4

(* CacheManager::getInstance.                                              *)
LEMMA CacheManagerKeeps ==
    ASSUME ConfigInv, ProcInv, ManagerInit("cache", "CacheInstances", cacheText, "main")
    PROVE  ProcInv'
  <1>0. /\ proc = "cache" /\ "CacheInstances" \in DOMAIN Config /\ confPc' = "none"
        /\ pools = Range(Pieces(dbText)) /\ "DBInstances" \in DOMAIN Config /\ ListsWhole(Config)
        /\ UNCHANGED <<file, conf>>
    BY DEF ManagerInit, ProcInv, confVars
  <1>1. dbText \in DbTexts /\ cacheText \in CacheTexts
        /\ cacheText \in Seq(STRING) /\ cacheText # <<>>
    BY ListsAssumption DEF ProcInv
  <1>2. PICK str \in TextOf("CacheInstances", cacheText) :
           \/ ProcAt(IF Len(ItemList(str)) < ItemCnt(str) THEN "undefined" ELSE "exited")
           \/ /\ \A i \in DOMAIN ItemList(str) : Configured(ItemList(str)[i])
              /\ ProcAt(IF Len(ItemList(str)) < ItemCnt(str) THEN "undefined" ELSE "main")
              /\ pools' = pools \cup Range(ItemList(str))
    BY DEF ManagerInit
  <1>3. str = cacheText
    BY <1>0, <1>1, CacheListWhole, PartOfText
  <1>4. UNCHANGED <<dbText, cacheText>>
    BY <1>2 DEF ProcAt
  <1>5. CASE Len(ItemList(str)) < ItemCnt(str)
    <2>1. ~NoEmptyPiece(cacheText)
      <3> SUFFICES ASSUME NoEmptyPiece(cacheText) PROVE FALSE
        OBVIOUS
      <3>1. ItemList(cacheText) = Pieces(cacheText) /\ ItemCnt(cacheText) = Len(Pieces(cacheText))
        BY <1>1, ExplodeRight
      <3>2. ItemList(cacheText) \in Seq(Seq(STRING))
        BY <1>1, ItemListEnd
      <3>3. Len(ItemList(cacheText)) \in Nat
        BY <3>2
      <3> QED
        BY <1>3, <1>5, <3>1, <3>3
    <2>2. proc' = "undefined"
      BY <1>2, <1>5 DEF ProcAt
    <2> QED
      BY <1>0, <1>1, <1>4, <2>1, <2>2 DEF ProcInv
  <1>6. CASE ~(Len(ItemList(str)) < ItemCnt(str)) /\ proc' = "exited"
    BY <1>0, <1>1, <1>4, <1>6 DEF ProcInv
  <1>7. CASE /\ ~(Len(ItemList(str)) < ItemCnt(str)) /\ proc' = "main"
             /\ \A i \in DOMAIN ItemList(str) : Configured(ItemList(str)[i])
             /\ pools' = pools \cup Range(ItemList(str))
    <2>1. Config' = Config /\ \A item : Configured(item)' <=> Configured(item)
      BY <1>0 DEF Config, Configured
    <2>2. pools' = Range(Pieces(dbText)) \cup Range(Pieces(cacheText))
      BY <1>0, <1>1, <1>3, <1>7, ExplodeRight
    <2>3. \A item \in pools' : Configured(item)
      <3>1. \A item \in pools : Configured(item)
        BY <1>0 DEF ProcInv
      <3> QED
        BY <1>7, <3>1 DEF Range
    <2> QED
      BY <1>0, <1>1, <1>4, <1>7, <2>1, <2>2, <2>3 DEF ProcInv
  <1> QED
    BY <1>2, <1>5, <1>6, <1>7 DEF ProcAt

(* main reads its own keys.                                                *)
LEMMA MainReadsKeeps == ASSUME ConfigInv, ProcInv, MainReads PROVE ProcInv'
  <1>1. /\ proc = "main" /\ proc' \in {"serving", "exited"} /\ conf' = Config
        /\ UNCHANGED <<dbText, cacheText, pools, file, confPc>>
    BY DEF MainReads, ProcAt, confVars
  <1>2. ListsWhole(Config) /\ Config' = Config
    BY <1>1 DEF ProcInv, Config
  <1>3. DOMAIN conf' \subseteq Keys
    BY <1>1 DEF ConfigInv, ReadsRight
  <1> QED
    BY <1>1, <1>2, <1>3 DEF ProcInv

(* A config object exists only while the server runs, and the file goes    *)
(* only where there is none.                                               *)
LEMMA ConfiguresKeeps ==
    ASSUME ConfigInv, ProcInv, Configures
    PROVE  ConfigInv' /\ ProcInv'
  <1>1. proc = "serving" /\ UNCHANGED <<dbText, cacheText, proc, pools, conf>>
    BY DEF Configures, procVars
  <1>2. ASSUME confPc' # "none" PROVE ProcInv'
    BY <1>1, <1>2 DEF ProcInv
  <1>3. CASE FileRemoved
    <2>1. /\ file' = Missing
          /\ UNCHANGED <<diskFull, map, loadOk, confPc, written, ret, intended, spoiled>>
      BY <1>3 DEF FileRemoved, history
    <2>2. confPc = "none"
      BY <1>3 DEF FileRemoved
    <2>3. ListsWhole(Config') /\ ReadsRight(Config', intended', spoiled') /\ KeysKnown(file')
      <3>1. Config' = <<>>
        BY <2>1 DEF Config
      <3> QED
        BY <2>1, <3>1, NothingRead DEF KeysKnown
    <2>4. ConfigInv'
      BY <2>1, <2>2, <2>3 DEF ConfigInv
    <2> QED
      BY <1>1, <2>1, <2>3, <2>4 DEF ProcInv
  <1>4. CASE Construct
    <2>1. ListsWhole(Config) /\ confPc' # "none"
      BY <1>1, <1>4 DEF ProcInv, Construct
    <2> QED
      BY <1>2, <1>4, <2>1, ConstructKeeps
  <1>5. CASE SetRefused
    <2>1. /\ confPc = "idle" /\ ret' = "failed"
          /\ UNCHANGED <<file, diskFull, map, loadOk, confPc, written, intended, spoiled>>
      BY <1>5 DEF SetRefused, history
    <2>2. Config' = Config
      BY <2>1 DEF Config
    <2> QED
      BY <1>2, <2>1, <2>2 DEF ConfigInv
  <1>6. ASSUME NEW k \in Settable, NEW v \in Plain \cup Odd, SetConfigValue(k, v)
        PROVE  ConfigInv' /\ ProcInv'
    <2>1. confPc' # "none"
      BY <1>6 DEF SetConfigValue
    <2> QED
      BY <1>2, <1>6, <2>1, SetConfigValueKeeps
  <1>7. CASE WriteEntry \/ WriteFails \/ CloseFile
    <2>1. confPc' # "none"
      BY <1>7 DEF WriteEntry, WriteFails, CloseFile
    <2> QED
      BY <1>2, <1>7, <2>1, WriteKeeps
  <1> QED
    BY <1>3, <1>4, <1>5, <1>6, <1>7 DEF Configures, ConfigNext

(* Every step keeps the invariant.                                         *)
LEMMA DbProxyStep == ConfigInv /\ ProcInv /\ [Next]_vars => ConfigInv' /\ ProcInv'
  <1> SUFFICES ASSUME ConfigInv, ProcInv, [Next]_vars PROVE ConfigInv' /\ ProcInv'
    OBVIOUS
  <1>1. ASSUME UNCHANGED confVars PROVE ConfigInv' /\ Config' = Config
    BY <1>1 DEF confVars, history, ConfigInv, Config
  <1>2. CASE MainStarts
    <2>1. /\ proc' = "db" /\ pools' = {} /\ conf' = <<>> /\ confPc' = "none"
          /\ UNCHANGED <<dbText, cacheText, confVars>>
      BY <1>2 DEF MainStarts, ProcAt, confVars
    <2>2. DOMAIN conf' \subseteq Keys
      BY <2>1
    <2> QED
      BY <1>1, <2>1, <2>2 DEF ProcInv
  <1>3. ASSUME NEW here, NEW key, ManagerFails(here, key), here # "serving"
        PROVE  ConfigInv' /\ ProcInv'
    <2>1. /\ proc = here /\ proc' = "exited"
          /\ UNCHANGED <<dbText, cacheText, pools, conf, confVars>>
      BY <1>3 DEF ManagerFails, ProcAt
    <2>2. confPc' = "none"
      BY <1>3, <2>1 DEF ProcInv, confVars
    <2> QED
      BY <1>1, <2>1, <2>2 DEF ProcInv
  <1>4. CASE ManagerInit("db", "DBInstances", dbText, "cache")
    BY <1>1, <1>4, DbManagerKeeps DEF ManagerInit
  <1>5. CASE ManagerInit("cache", "CacheInstances", cacheText, "main")
    BY <1>1, <1>5, CacheManagerKeeps DEF ManagerInit
  <1>6. CASE MainReads
    BY <1>1, <1>6, MainReadsKeeps DEF MainReads
  <1>7. CASE Configures
    BY <1>7, ConfiguresKeeps
  <1>8. CASE Ends
    <2>1. ConfigLost /\ proc' = "off" /\ UNCHANGED <<dbText, cacheText, pools, conf>>
      BY <1>8 DEF Ends, ProcAt
    <2>2. confPc' = "none"
      BY <2>1 DEF ConfigLost
    <2>3. ConfigInv'
      BY <2>1, ConfigLostKeeps
    <2> QED
      BY <2>1, <2>2, <2>3 DEF ProcInv
  <1>9. CASE UNCHANGED vars
    <2>1. /\ UNCHANGED confVars /\ UNCHANGED <<dbText, cacheText, proc, pools, conf>>
          /\ confPc' = confPc
      BY <1>9 DEF vars, procVars, confVars
    <2>2. ConfigInv' /\ Config' = Config /\ \A item : Configured(item)' <=> Configured(item)
      BY <1>1, <2>1 DEF Configured
    <2> QED
      BY <2>1, <2>2 DEF ProcInv
  <1> QED
    BY <1>2, <1>3, <1>4, <1>5, <1>6, <1>7, <1>8, <1>9 DEF Next, Undefined

(* The invariant holds.                                                    *)
LEMMA DbProxyInv == Spec => [](ConfigInv /\ ProcInv)
  <1>1. Init => ConfigInv /\ ProcInv
    BY ConfigInvInit, ProcInvInit
  <1> QED
    BY <1>1, DbProxyStep, PTL DEF Spec

-----------------------------------------------------------------------------
(* CStrExplode, for every list of instances: the pieces between the        *)
(* separators, if none is empty; fewer items than GetItemCnt says, and     *)
(* never more, if one is.                                                  *)
THEOREM ExplodesRight == Spec => []ExplodeSplits
  <1>1. ProcInv => ExplodeSplits
    <2> SUFFICES ASSUME ProcInv, NEW str \in {dbText, cacheText}
                 PROVE  IF NoEmptyPiece(str)
                        THEN ItemList(str) = Pieces(str) /\ ItemCnt(str) = Len(Pieces(str))
                        ELSE Len(ItemList(str)) < ItemCnt(str)
      BY DEF ExplodeSplits
    <2>1. str \in Seq(STRING)
      BY ListsAssumption DEF ProcInv
    <2> QED
      BY <2>1, ExplodeRight
  <1> QED
    BY <1>1, DbProxyInv, PTL

(* SetConfigValue and the next reader: what was saved reads back, for any  *)
(* keys and values and any number of calls, crashes and full disks before. *)
THEOREM SavedAlwaysReadsBack == Spec => []SavedReadsBack
  <1>1. ConfigInv => SavedReadsBack
    BY PlainReadsBack DEF ConfigInv, IsMap, SavedReadsBack
  <1> QED
    BY <1>1, DbProxyInv, PTL

(* CDBManager::Init and CacheManager::Init: for any lists without an empty *)
(* piece, no wild pointer is used, wherever a crash has cut the file; and  *)
(* the members have their types.                                           *)
THEOREM NoWildItem == Spec => []NeverUndefined
  <1>1. ConfigInv /\ ProcInv => NeverUndefined
    <2> SUFFICES ASSUME ConfigInv, ProcInv PROVE NeverUndefined
      OBVIOUS
    <2>1. DOMAIN intended = Keys
      BY DEF ConfigInv
    <2> QED
      BY <2>1 DEF ConfigInv, ProcInv, IsMap, KeysKnown, NeverUndefined, TypeOK
  <1> QED
    BY <1>1, DbProxyInv, PTL

(* main, the managers and SetConfigValue: whatever was set, cut or lost    *)
(* before, a server that comes up has the pools its config names, and has  *)
(* read the very values that were set last, but for the keys a crash, a    *)
(* full disk or an odd value has spoiled.                                  *)
THEOREM ServesIntended == Spec => ServesWhatWasSet
  <1> DEFINE Serves ==
          proc' = "serving" /\ proc # "serving" =>
              /\ pools = Range(Pieces(dbText)) \cup Range(Pieces(cacheText))
              /\ \A k \in {"DBInstances", "CacheInstances"} \cup MainKeys
                             \cup {item[1] : item \in pools} :
                    k \in DOMAIN Config /\ (k \in spoiled \/ Config[k] \in intended[k])
  <1>1. ASSUME ConfigInv, ProcInv, [Next]_vars PROVE Serves
    <2> SUFFICES ASSUME proc' = "serving", proc # "serving"
                 PROVE  /\ pools = Range(Pieces(dbText)) \cup Range(Pieces(cacheText))
                        /\ \A k \in {"DBInstances", "CacheInstances"} \cup MainKeys
                                       \cup {item[1] : item \in pools} :
                              k \in DOMAIN Config /\ (k \in spoiled \/ Config[k] \in intended[k])
      OBVIOUS
    <2>1. MainReads
      BY <1>1 DEF Next, MainStarts, Configures, Ends, Undefined, ManagerFails, ManagerInit,
                  ProcAt, vars, procVars
    <2>2. /\ proc = "main" /\ MainKeys \subseteq DOMAIN Config
          /\ pools = Range(Pieces(dbText)) \cup Range(Pieces(cacheText))
          /\ "DBInstances" \in DOMAIN Config /\ "CacheInstances" \in DOMAIN Config
          /\ \A item \in pools : Configured(item)
      BY <1>1, <2>1 DEF MainReads, ProcAt, ProcInv
    <2>3. \A item \in pools : item[1] \in DOMAIN Config
      BY <2>2 DEF Configured
    <2>4. ASSUME NEW k \in DOMAIN Config
          PROVE  k \in spoiled \/ Config[k] \in intended[k]
      BY <1>1 DEF ConfigInv, ReadsRight
    <2> QED
      BY <2>2, <2>3, <2>4
  <1>2. ConfigInv /\ ProcInv /\ [Next]_vars => [Serves]_vars
    BY <1>1
  <1> QED
    BY <1>2, DbProxyInv, PTL DEF Spec, ServesWhatWasSet
=============================================================================
