------------------------------ MODULE OptProofs ------------------------------
(***************************************************************************)
(* Theorems about the option parser (Opt), for tables and command lines of *)
(* every length.                                                           *)
(***************************************************************************)
EXTENDS Opt, FiniteSetTheorems, WellFoundedInduction, TLAPS

----------------------------------------------------------------------------
(* Sums over finite sets. *)

\* Induction, for a property that is given as the set of what has it.
LEMMA AllNumbers ==
  ASSUME NEW S, 0 \in S, \A n \in Nat : n \in S => n + 1 \in S
  PROVE  \A n \in Nat : n \in S
<1> SUFFICES ASSUME Nat \ S # {} PROVE FALSE
  OBVIOUS
<1>1. IsWellFoundedOn({p \in Nat \X Nat : p[1] < p[2]}, Nat)
  BY NatLessThanWellFounded DEF OpToRel
<1>2. PICK x \in Nat \ S :
        \A y \in Nat \ S : ~(<<y, x>> \in {p \in Nat \X Nat : p[1] < p[2]})
  BY <1>1, WFMin
<1>3. x # 0 /\ x - 1 \in Nat /\ (x - 1) + 1 = x
  BY <1>2
<1>4. x - 1 \notin S
  BY <1>3
<1>5. <<x - 1, x>> \in {p \in Nat \X Nat : p[1] < p[2]}
  BY <1>3
<1> QED
  BY <1>2, <1>3, <1>4, <1>5

\* The function by which MapThenSumSet sums: of a set it takes the elements
\* out one by one, in whatever order CHOOSE finds them.
First(s) == CHOOSE x \in s : TRUE
Summed(F, g, s) == IF s = {} THEN 0 ELSE F[First(s)] + g[s \ {First(s)}]
Summing(w, F, g) == g = [s \in SUBSET w |-> Summed(F, g, s)]

\* What holds of the empty set, and of a set if it does of the smaller ones,
\* holds of all subsets of a finite set.
LEMMA AllSubsets ==
  ASSUME NEW w, IsFiniteSet(w), NEW Q,
         \A s \in SUBSET w :
           (\A r \in SUBSET w : Cardinality(r) < Cardinality(s) => r \in Q) => s \in Q
  PROVE  \A s \in SUBSET w : s \in Q
<1> DEFINE S == {n \in Nat : \A s \in SUBSET w : Cardinality(s) < n => s \in Q}
<1>1. \A s \in SUBSET w : IsFiniteSet(s) /\ Cardinality(s) \in Nat
  BY FS_Subset, FS_CardinalityType
<1>2. 0 \in S
  BY <1>1
<1>3. ASSUME NEW n \in Nat, n \in S PROVE n + 1 \in S
  <2> SUFFICES ASSUME NEW s \in SUBSET w, Cardinality(s) < n + 1 PROVE s \in Q
    BY <1>3
  <2>1. \A r \in SUBSET w : Cardinality(r) < Cardinality(s) => Cardinality(r) < n
    BY <1>1
  <2>2. \A r \in SUBSET w : Cardinality(r) < Cardinality(s) => r \in Q
    BY <1>3, <2>1
  <2> QED
    BY <2>2
<1>4. \A n \in Nat : n \in S
  <2> HIDE DEF S
  <2> QED
    BY <1>2, <1>3, AllNumbers
<1> SUFFICES ASSUME NEW s \in SUBSET w PROVE s \in Q
  OBVIOUS
<1>5. Cardinality(s) + 1 \in S /\ Cardinality(s) < Cardinality(s) + 1
  BY <1>1, <1>4
<1> QED
  BY <1>5

LEMMA FirstOut ==
  ASSUME NEW w, IsFiniteSet(w), NEW s \in SUBSET w, NEW x \in s
  PROVE  /\ s \ {x} \in SUBSET w /\ Cardinality(s \ {x}) < Cardinality(s)
         /\ First(s) \in s
<1>1. IsFiniteSet(s)
  BY FS_Subset
<1>2. Cardinality(s) \in Nat /\ Cardinality(s \ {x}) = Cardinality(s) - 1
  BY <1>1, FS_CardinalityType, FS_RemoveElement
<1> QED
  BY <1>2 DEF First

LEMMA SumExists ==
  ASSUME NEW w, IsFiniteSet(w), NEW F
  PROVE  \E g : Summing(w, F, g)
<1> DEFINE Upto(n, g) == /\ g = [s \in SUBSET w |-> g[s]]
                         /\ \A s \in SUBSET w : Cardinality(s) <= n => g[s] = Summed(F, g, s)
           S == {n \in Nat : \E g : Upto(n, g)}
<1>1. \A s \in SUBSET w : IsFiniteSet(s) /\ Cardinality(s) \in Nat
  BY FS_Subset, FS_CardinalityType
<1>2. 0 \in S
  <2> DEFINE g == [s \in SUBSET w |-> 0]
  <2>1. \A s \in SUBSET w : Cardinality(s) <= 0 => s = {}
    BY <1>1, FS_EmptySet
  <2>2. Upto(0, g)
    BY <2>1 DEF Summed
  <2> QED
    BY <2>2
<1>3. ASSUME NEW n \in Nat, n \in S PROVE n + 1 \in S
  <2>1. PICK g : Upto(n, g)
    BY <1>3
  <2> DEFINE h == [s \in SUBSET w |-> Summed(F, g, s)]
  <2>2. ASSUME NEW s \in SUBSET w, Cardinality(s) <= n + 1 PROVE h[s] = Summed(F, h, s)
    <3>1. CASE s = {}
      BY <3>1 DEF Summed
    <3>2. CASE s # {}
      <4> DEFINE r == s \ {First(s)}
      <4>1. First(s) \in s /\ r \in SUBSET w /\ Cardinality(r) < Cardinality(s)
        BY <3>2, FirstOut DEF First
      <4>2. Cardinality(r) <= n
        BY <1>1, <2>2, <4>1
      <4>3. g[r] = h[r]
        BY <2>1, <4>1, <4>2
      <4> QED
        BY <3>2, <4>3 DEF Summed
    <3> QED
      BY <3>1, <3>2
  <2>3. Upto(n + 1, h)
    <3>1. h = [s \in SUBSET w |-> h[s]]
      OBVIOUS
    <3> HIDE DEF h
    <3> QED
      BY <2>2, <3>1
  <2>4. \E k : Upto(n + 1, k)
    <3> HIDE DEF h, Upto
    <3> QED
      BY <2>3
  <2>5. n + 1 \in Nat
    OBVIOUS
  <2> HIDE DEF Upto
  <2> QED
    BY <2>4, <2>5, Zenon
<1>4. Cardinality(w) \in S
  <2> HIDE DEF S
  <2> QED
    BY <1>1, <1>2, <1>3, AllNumbers
<1>5. PICK g : Upto(Cardinality(w), g)
  BY <1>4
<1>6. \A s \in SUBSET w : Cardinality(s) <= Cardinality(w)
  BY FS_Subset
<1> QED
  BY <1>5, <1>6 DEF Summing

\* It does not matter in which order the elements are taken out.
LEMMA SumOrder ==
  ASSUME NEW w, IsFiniteSet(w), NEW F \in [w -> Int], NEW g, Summing(w, F, g)
  PROVE  \A s \in SUBSET w : /\ g[s] \in Int
                             /\ \A x \in s : g[s] = F[x] + g[s \ {x}]
<1> DEFINE Q == {s \in SUBSET w : /\ g[s] \in Int
                                  /\ \A x \in s : g[s] = F[x] + g[s \ {x}]}
<1>1. \A s \in SUBSET w : g[s] = Summed(F, g, s)
  BY DEF Summing
<1>2. ASSUME NEW s \in SUBSET w,
             \A r \in SUBSET w : Cardinality(r) < Cardinality(s) => r \in Q
      PROVE  s \in Q
  <2>1. CASE s = {}
    <3>1. g[s] = 0
      BY <1>1, <2>1 DEF Summed
    <3> QED
      BY <2>1, <3>1
  <2>2. CASE s # {}
    <3> DEFINE c == First(s)
    <3>1. c \in s /\ s \ {c} \in SUBSET w /\ Cardinality(s \ {c}) < Cardinality(s)
      BY <2>2, FirstOut DEF First
    <3>2. g[s] = F[c] + g[s \ {c}]
      BY <1>1, <2>2 DEF Summed
    <3>3. s \ {c} \in Q
      BY <1>2, <3>1
    <3>4. F[c] \in Int /\ g[s \ {c}] \in Int
      BY <3>1, <3>3
    <3> HIDE DEF c
    <3>5. ASSUME NEW x \in s PROVE g[s] = F[x] + g[s \ {x}]
      <4>1. CASE x = c
        BY <3>2, <4>1
      <4>2. CASE x # c
        <5>1. s \ {x} \in SUBSET w /\ Cardinality(s \ {x}) < Cardinality(s)
          BY FirstOut
        <5>2. s \ {x} \in Q
          BY <1>2, <5>1
        <5>3. x \in s \ {c} /\ c \in s \ {x} /\ (s \ {c}) \ {x} = (s \ {x}) \ {c}
          BY <3>1, <4>2
        <5>4. g[s \ {c}] = F[x] + g[(s \ {c}) \ {x}]
          BY <3>3, <5>3
        <5>5. g[s \ {x}] = F[c] + g[(s \ {c}) \ {x}]
          BY <5>2, <5>3
        <5>6. F[x] \in Int /\ g[(s \ {c}) \ {x}] \in Int
          <6>1. (s \ {c}) \ {x} \in SUBSET w
                /\ Cardinality((s \ {c}) \ {x}) < Cardinality(s \ {c})
            BY <3>1, <5>3, FirstOut
          <6>2. Cardinality((s \ {c}) \ {x}) < Cardinality(s)
            <7>1. /\ Cardinality((s \ {c}) \ {x}) \in Nat
                  /\ Cardinality(s \ {c}) \in Nat /\ Cardinality(s) \in Nat
              BY <3>1, <6>1, FS_Subset, FS_CardinalityType
            <7> QED
              BY <3>1, <6>1, <7>1
          <6> QED
            BY <1>2, <6>1, <6>2
        <5> QED
          BY <3>2, <3>4, <5>4, <5>5, <5>6
      <4> QED
        BY <4>1, <4>2
    <3>6. g[s] \in Int
      BY <3>2, <3>4
    <3>7. \A x \in s : g[s] = F[x] + g[s \ {x}]
      BY <3>5
    <3> QED
      BY <3>6, <3>7, Zenon
  <2> QED
    BY <2>1, <2>2
<1>3. \A s \in SUBSET w : s \in Q
  <2> HIDE DEF Q
  <2> QED
    BY <1>2, AllSubsets
<1> QED
  BY <1>3

\* Two such functions agree where both sum the same.
LEMMA SumAgrees ==
  ASSUME NEW w, IsFiniteSet(w), NEW u, w \subseteq u, NEW F, NEW G,
         \A x \in w : F[x] = G[x],
         NEW g, Summing(w, F, g), NEW h, Summing(u, G, h)
  PROVE  \A s \in SUBSET w : g[s] = h[s]
<1> DEFINE Q == {s \in SUBSET w : g[s] = h[s]}
<1>1. \A s \in SUBSET w : g[s] = Summed(F, g, s) /\ h[s] = Summed(G, h, s)
  BY DEF Summing
<1>2. ASSUME NEW s \in SUBSET w,
             \A r \in SUBSET w : Cardinality(r) < Cardinality(s) => r \in Q
      PROVE  s \in Q
  <2>1. CASE s = {}
    <3>1. Summed(F, g, s) = 0 /\ Summed(G, h, s) = 0
      BY <2>1 DEF Summed
    <3>2. s \in SUBSET u
      OBVIOUS
    <3> QED
      BY <1>1, <3>1
  <2>2. CASE s # {}
    <3>1. First(s) \in s /\ s \ {First(s)} \in Q
      BY <1>2, <2>2, FirstOut DEF First
    <3> QED
      BY <1>1, <2>2, <3>1 DEF Summed
  <2> QED
    BY <2>1, <2>2
<1>3. \A s \in SUBSET w : s \in Q
  <2> HIDE DEF Q
  <2> QED
    BY <1>2, AllSubsets
<1> QED
  BY <1>3

\* What MapThenSumSet computes of the empty set, and with one element more.
SumsAdds(w, g) == Summing(w, [i \in w |-> Adds(i)], g)

LEMMA SumIsSummed ==
  ASSUME NEW w, IsFiniteSet(w), NEW g, SumsAdds(w, g)
  PROVE  MapThenSumSet(Adds, w) = g[w]
<1> DEFINE F       == [i \in w |-> Adds(i)]
           Chosen(h) == h = [s \in SUBSET w |->
                             IF s = {} THEN 0
                             ELSE LET x == CHOOSE x \in s : TRUE IN Adds(x) + h[s \ {x}]]
           h       == CHOOSE h : Chosen(h)
<1>1. MapThenSumSet(Adds, w) = h[w]
  BY DEF MapThenSumSet, MapThenFoldSet
<1>2. ASSUME NEW f PROVE Chosen(f) <=> Summing(w, F, f)
  <2>1. ASSUME NEW s \in SUBSET w
        PROVE  (IF s = {} THEN 0
                ELSE LET x == CHOOSE x \in s : TRUE IN Adds(x) + f[s \ {x}])
               = Summed(F, f, s)
    BY DEF Summed, First
  <2> QED
    BY <2>1 DEF Summing
<1>3. Chosen(g)
  BY <1>2 DEF SumsAdds
<1>4. Chosen(h)
  <2> HIDE DEF Chosen
  <2> QED
    BY <1>3
<1>5. Summing(w, F, h)
  BY <1>2, <1>4
<1>6. \A s \in SUBSET w : g[s] = h[s]
  <2>1. Summing(w, F, g) /\ w \subseteq w
    BY DEF SumsAdds
  <2> HIDE DEF F, h
  <2> QED
    BY <1>5, <2>1, SumAgrees
<1> QED
  BY <1>1, <1>6

LEMMA SumOfNone == MapThenSumSet(Adds, {}) = 0
<1> DEFINE F == [i \in {} |-> Adds(i)]
<1>1. IsFiniteSet({})
  BY FS_EmptySet
<1>2. PICK g : SumsAdds({}, g)
  <2> HIDE DEF F
  <2>1. \E g : Summing({}, F, g)
    BY <1>1, SumExists
  <2> QED
    BY <2>1 DEF SumsAdds, F
<1>3. g[{}] = Summed(F, g, {})
  BY <1>2 DEF SumsAdds, Summing
<1> QED
  BY <1>1, <1>2, <1>3, SumIsSummed DEF Summed

LEMMA SumTakesOut ==
  ASSUME NEW w, IsFiniteSet(w), NEW F \in [w -> Int], NEW g, Summing(w, F, g),
         NEW s \in SUBSET w, NEW x \in s
  PROVE  g[s] = F[x] + g[s \ {x}]
BY SumOrder

LEMMA SumOfOneMore ==
  ASSUME NEW w, IsFiniteSet(w), NEW i, i \notin w, \A k \in w \cup {i} : Adds(k) \in Int
  PROVE  MapThenSumSet(Adds, w \cup {i}) = MapThenSumSet(Adds, w) + Adds(i)
<1>0. PICK u : u = w \cup {i}
  OBVIOUS
<1> DEFINE F == [k \in w |-> Adds(k)]
           G == [k \in u |-> Adds(k)]
<1>1. IsFiniteSet(u)
  BY <1>0, FS_AddElement
<1>2. PICK g : Summing(w, F, g)
  <2> HIDE DEF F
  <2> QED
    BY SumExists
<1>3. PICK h : Summing(u, G, h)
  <2> HIDE DEF G
  <2> QED
    BY <1>1, SumExists
<1>4. MapThenSumSet(Adds, w) = g[w] /\ MapThenSumSet(Adds, u) = h[u]
  BY <1>1, <1>2, <1>3, SumIsSummed DEF SumsAdds
<1>5. F \in [w -> Int] /\ G \in [u -> Int]
  BY <1>0
<1>6. g[w] \in Int
  <2> HIDE DEF F
  <2> QED
    BY <1>2, <1>5, SumOrder
<1>7. h[u] = G[i] + h[u \ {i}]
  <2>1. i \in u /\ u \in SUBSET u
    BY <1>0
  <2>2. G \in [u -> Int]
    BY <1>5
  <2> HIDE DEF F, G
  <2> QED
    BY <1>1, <1>3, <2>1, <2>2, SumTakesOut
<1>8. u \ {i} = w /\ G[i] = Adds(i) /\ \A k \in w : F[k] = G[k]
  BY <1>0
<1>9. h[w] = g[w]
  <2>1. w \subseteq u
    BY <1>0
  <2> HIDE DEF F, G
  <2> QED
    BY <1>2, <1>3, <1>8, <2>1, SumAgrees
<1>10. Adds(i) \in Int
  OBVIOUS
<1> HIDE DEF F, G
<1>11. h[u] = G[i] + g[w]
  BY <1>7, <1>8, <1>9, Zenon
<1>12. h[u] = g[w] + Adds(i)
  BY <1>6, <1>8, <1>10, <1>11
<1> QED
  BY <1>0, <1>4, <1>12

----------------------------------------------------------------------------
(* The types that the walk keeps. *)

ParserTypes ==
  /\ table \in Tables /\ start \in Nat /\ optind \in Nat /\ cur \in Nat
  /\ argv \in Seq(Entries \cup {[kind |-> "word", value |-> Program]})
  /\ Len(argv) >= 1
  /\ pc \in {"caller", "next", "match", "exited", "crashed"}

LEMMA TypesInit == Init => ParserTypes
<1> SUFFICES ASSUME Init PROVE ParserTypes
  OBVIOUS
<1> DEFINE W == {[kind |-> "word", value |-> Program]}
<1>1. PICK l \in CommandLines : argv = <<[kind |-> "word", value |-> Program]>> \o l
  BY DEF Init
<1>2. <<[kind |-> "word", value |-> Program]>> \in Seq(Entries \cup W)
      /\ l \in Seq(Entries \cup W)
  <2>1. l \in Seq(Entries)
    BY OptAssumption
  <2> QED
    BY <2>1
<1>3. argv \in Seq(Entries \cup W) /\ Len(argv) = 1 + Len(l) /\ Len(l) \in Nat
  BY <1>1, <1>2
<1>4. table \in Tables /\ start \in Nat /\ optind \in Nat /\ cur \in Nat /\ pc = "caller"
  BY OptAssumption DEF Init
<1> QED
  BY <1>3, <1>4 DEF ParserTypes

LEMMA TypesStep == ParserTypes /\ [Next]_vars => ParserTypes'
<1> SUFFICES ASSUME ParserTypes, [Next]_vars PROVE ParserTypes'
  OBVIOUS
<1>1. UNCHANGED fixed
  BY DEF vars, Next, Step, Call, EndOfArguments, EndMarker, StopAtWord, TakeArgument,
         ProcessOption, Unknown, Known
<1>2. optind' = optind \/ optind' = optind + 1
  BY DEF vars, Next, Step, Call, EndOfArguments, EndMarker, StopAtWord, TakeArgument,
         ProcessOption, Consumes, Unknown, Known
<1>3. cur' = cur \/ cur' = optind
  BY DEF vars, Next, Step, Call, EndOfArguments, EndMarker, StopAtWord, TakeArgument,
         ProcessOption, Unknown, Known
<1>4. pc' \in {pc, "caller", "next", "match", "exited", "crashed"}
  BY DEF vars, Next, Step, Call, EndOfArguments, EndMarker, StopAtWord, TakeArgument,
         ProcessOption, Unknown, Known, Returns
<1> QED
  BY <1>1, <1>2, <1>3, <1>4 DEF ParserTypes, fixed

----------------------------------------------------------------------------
(* The help text. *)

LEMMA MaxIs ==
  ASSUME NEW S \in SUBSET Int, NEW x \in S, \A y \in S : y <= x
  PROVE  Max(S) = x
<1> DEFINE Greatest(m) == m \in S /\ \A y \in S : m >= y
<1>1. Greatest(x)
  OBVIOUS
<1>2. Greatest(Max(S))
  BY <1>1 DEF Max
<1>3. Max(S) >= x /\ x >= Max(S) /\ Max(S) \in Int /\ x \in Int
  <2> HIDE DEF Max
  <2> QED
    BY <1>2
<1> QED
  BY <1>3

LEMMA MinIs ==
  ASSUME NEW S \in SUBSET Int, NEW x \in S, \A y \in S : x <= y
  PROVE  Min(S) = x
<1> DEFINE Least(m) == m \in S /\ \A y \in S : m <= y
<1>1. Least(x)
  OBVIOUS
<1>2. Least(Min(S))
  BY <1>1 DEF Min
<1>3. Min(S) >= x /\ x >= Min(S) /\ Min(S) \in Int /\ x \in Int
  <2> HIDE DEF Min
  <2> QED
    BY <1>2
<1> QED
  BY <1>3

\* Of the numbers that a function gives to a table there is a greatest.
LEMMA GreatestWidth ==
  ASSUME NEW n \in Nat, NEW R \in SUBSET (1..n), NEW f, \A k \in R : f[k] \in Nat
  PROVE  \E x \in {0} \cup {f[k] : k \in R} : \A y \in {0} \cup {f[k] : k \in R} : y <= x
<1> DEFINE Of(m) == {0} \cup {f[k] : k \in R \cap 1..m}
           S     == {m \in Nat : \E x \in Of(m) : \A y \in Of(m) : y <= x}
<1>1. 0 \in S
  <2>1. Of(0) = {0}
    OBVIOUS
  <2> QED
    BY <2>1
<1>2. ASSUME NEW m \in Nat, m \in S PROVE m + 1 \in S
  <2>1. PICK x \in Of(m) : \A y \in Of(m) : y <= x
    BY <1>2
  <2>2. x \in Nat
    BY <2>1
  <2>3. CASE m + 1 \notin R
    <3>1. R \cap 1..(m + 1) = R \cap 1..m
      BY <2>3
    <3>2. Of(m + 1) = Of(m)
      BY <3>1
    <3> QED
      BY <2>1, <3>2
  <2>4. CASE m + 1 \in R
    <3>1. Of(m + 1) = Of(m) \cup {f[m + 1]} /\ f[m + 1] \in Nat
      <4>1. R \cap 1..(m + 1) = (R \cap 1..m) \cup {m + 1}
        BY <2>4
      <4> QED
        BY <2>4, <4>1
    <3>2. PICK z \in {x, f[m + 1]} : x <= z /\ f[m + 1] <= z
      BY <2>2, <3>1
    <3>3. \A y \in Of(m) : y \in Nat
      OBVIOUS
    <3>4. z \in Of(m + 1) /\ \A y \in Of(m + 1) : y <= z
      <4> HIDE DEF Of
      <4> QED
        BY <2>1, <2>2, <3>1, <3>2, <3>3
    <3> QED
      BY <3>4
  <2> QED
    BY <2>3, <2>4
<1>3. n \in S
  <2> HIDE DEF S
  <2> QED
    BY <1>1, <1>2, AllNumbers
<1>4. R \cap 1..n = R
  OBVIOUS
<1> QED
  BY <1>3, <1>4

\* The longest of a group is at least what is counted of each of its rows.
LEMMA LongestIsGreatest ==
  ASSUME ParserTypes, NEW g
  PROVE  /\ Longest(g) \in Nat
         /\ \A r \in Rows : GroupOf(r) = g => CountedWidth(table[r]) <= Longest(g)
<1>1. /\ Len(table) \in Nat /\ DOMAIN table = 1..Len(table)
      /\ \A k \in DOMAIN table : table[k].name.len \in Nat /\ table[k].helpParam \in Nat
  BY OptAssumption DEF ParserTypes
<1> DEFINE R == {r \in Rows : GroupOf(r) = g}
           f == [k \in R |-> CountedWidth(table[k])]
           W == {0} \cup {f[k] : k \in R}
<1>2. R \subseteq 1..Len(table)
  BY <1>1 DEF Rows
<1>3. \A k \in R : f[k] = CountedWidth(table[k]) /\ f[k] \in Nat
  BY <1>1, <1>2 DEF CountedWidth, Field1Width, ParamWidth
<1>4. PICK x \in W : \A y \in W : y <= x
  <2> HIDE DEF R, f
  <2> QED
    BY <1>1, <1>2, <1>3, GreatestWidth
<1>5. W \subseteq Int /\ x \in Nat
  BY <1>3, <1>4
<1>6. Max(W) = x
  <2> HIDE DEF W
  <2> QED
    BY <1>4, <1>5, MaxIs
<1>7. W = {0} \cup {CountedWidth(table[k]) : k \in {r \in Rows : GroupOf(r) = g}}
  BY <1>3
<1>8. Longest(g) = x
  BY <1>6, <1>7 DEF Longest
<1> QED
  BY <1>3, <1>4, <1>5, <1>8

Columns == [k \in Rows |-> Max({Longest(GroupOf(k)), PrintedWidth(table[k])})]
HelpInv == printed = <<>> \/ printed = Columns

LEMMA HelpStep == HelpInv /\ [Next]_vars => HelpInv'
<1> SUFFICES ASSUME HelpInv, [Next]_vars PROVE HelpInv'
  OBVIOUS
<1>1. table' = table /\ (printed' = printed \/ HelpPrint)
  BY DEF vars, fixed, Next, Step, Call, EndOfArguments, EndMarker, StopAtWord,
         TakeArgument, ProcessOption, Unknown, Known
<1>2. Columns' = Columns
  BY <1>1 DEF Columns, Rows, Groups, GroupOf, Longest, CountedWidth, PrintedWidth,
              Field1Width, ParamWidth, Number
<1> QED
  BY <1>1, <1>2 DEF HelpInv, HelpPrint, Columns

\* In the help of every table the dashes of a group are below each other, but
\* for options whose parameter is printed and not counted.
THEOREM HelpIsAligned == Spec => []HelpColumns
<1>1. Init => ParserTypes /\ HelpInv
  BY TypesInit DEF Init, HelpInv
<1>2. ParserTypes /\ HelpInv => HelpColumns
  <2> SUFFICES ASSUME ParserTypes, HelpInv, NEW k \in DOMAIN printed,
                      NEW l \in DOMAIN printed, GroupOf(k) = GroupOf(l),
                      \A r \in {k, l} : table[r].param = "NONE"
                                        \/ table[r].type \notin {"DOUBLE", "COUNTER"}
               PROVE  printed[k] = printed[l]
    BY DEF HelpColumns
  <2>1. printed # <<>> /\ DOMAIN printed = Rows
    BY DEF HelpInv, Columns
  <2>2. ASSUME NEW r \in {k, l} PROVE printed[r] = Longest(GroupOf(r))
    <3> DEFINE L == Longest(GroupOf(r))
               w == PrintedWidth(table[r])
    <3>1. r \in Rows /\ printed[r] = Max({L, w})
      BY <2>1 DEF HelpInv, Columns
    <3>2. /\ table[r].name.len \in Nat /\ table[r].helpParam \in Nat
      BY <3>1, OptAssumption DEF Rows, ParserTypes
    <3>3. w = CountedWidth(table[r]) /\ w \in Nat
      BY <3>2 DEF PrintedWidth, CountedWidth, Field1Width, ParamWidth, Number
    <3>4. L \in Nat /\ w <= L
      BY <3>1, <3>3, LongestIsGreatest
    <3> HIDE DEF L, w
    <3>5. {L, w} \in SUBSET Int /\ \A y \in {L, w} : y <= L
      BY <3>3, <3>4
    <3>6. Max({L, w}) = L
      BY <3>5, MaxIs
    <3> QED
      BY <3>1, <3>6 DEF L
  <2> QED
    BY <2>2
<1> QED
  BY <1>1, <1>2, TypesStep, HelpStep, PTL DEF Spec

----------------------------------------------------------------------------
(* What the entries of a command line mean for a variable. *)

\* The row of the table that an option names.
LEMMA OptionRow ==
  ASSUME Plain, NEW i, IsOption(i)
  PROVE  \E k \in DOMAIN table \ Groups : /\ Named(At(i).name) = {k}
                                          /\ OptionAt(i) = table[k]
<1>1. PICK k : k \in Named(At(i).name)
  BY DEF IsOption
<1>2. k \in DOMAIN table \ Groups /\ table[k].name = At(i).name
  BY <1>1 DEF Named
<1>3. Named(At(i).name) = {k}
  BY <1>2 DEF Plain
<1>4. OptionAt(i) = table[k]
  BY <1>3 DEF OptionAt
<1> QED
  BY <1>2, <1>3, <1>4

\* All writers of a variable have its type.
LEMMA SameType ==
  ASSUME Plain, NEW v \in OutVar, NEW s, NEW i \in WritersIn(v, s),
         NEW k \in DOMAIN table, table[k].out = v
  PROVE  table[k].type = OptionAt(i).type
<1>1. PICK l \in DOMAIN table : OptionAt(i) = table[l]
  BY OptionRow DEF WritersIn
<1>2. table[l].out = v /\ v # None
  BY <1>1 DEF WritersIn, OutVar
<1> QED
  BY <1>1, <1>2 DEF Plain

\* The greatest of some entries.
LEMMA LastOf ==
  ASSUME NEW n \in Nat, NEW w \in SUBSET (1..n), w # {}
  PROVE  Max(w) \in w
<1> DEFINE f == [k \in w |-> k]
<1>1. {f[k] : k \in w} = w /\ \A k \in w : f[k] \in Nat
  <2>1. \A k \in w : f[k] = k /\ k \in Nat
    OBVIOUS
  <2> HIDE DEF f
  <2> QED
    BY <2>1
<1>2. PICK x \in {0} \cup w : \A y \in {0} \cup w : y <= x
  <2>1. \E x \in {0} \cup {f[k] : k \in w} : \A y \in {0} \cup {f[k] : k \in w} : y <= x
    <3> HIDE DEF f
    <3> QED
      BY <1>1, GreatestWidth
  <2> QED
    BY <1>1, <2>1
<1>3. x \in w
  <2>1. PICK y \in w : TRUE
    OBVIOUS
  <2>2. y <= x /\ y >= 1 /\ y \in Nat
    BY <1>2, <2>1
  <2> QED
    BY <1>2, <2>2
<1>4. Max(w) = x
  BY <1>2, <1>3, MaxIs
<1> QED
  BY <1>3, <1>4

Reads(w) == {i \in w : ParamAt(i) \in Numbers \cup {None}}

\* MeantBy, type by type.
LEMMA MeantOf ==
  ASSUME NEW v, NEW w, w # {}, NEW T, OptionAt(Max(w)).type = T
  PROVE  /\ T = "FLAG" => MeantBy(v, w) = TRUE
         /\ T = "BIT" => MeantBy(v, w) = UNION {OptionAt(i).in : i \in w}
         /\ T = "STRING" => MeantBy(v, w) = ParamAt(Max(w))
         /\ T = "COUNTER" => MeantBy(v, w) = MapThenSumSet(Adds, w)
         /\ T \in Number => MeantBy(v, w) =
              IF Reads(w) = {} THEN 0
              ELSE NumberRead(OptionAt(Max(Reads(w))), ParamAt(Max(Reads(w))))
<1> DEFINE last == Max(w)
<1>1. MeantBy(v, w) =
        CASE OptionAt(last).type = "FLAG" -> TRUE
          [] OptionAt(last).type = "BIT" -> UNION {OptionAt(i).in : i \in w}
          [] OptionAt(last).type = "STRING" -> ParamAt(last)
          [] OptionAt(last).type = "COUNTER" -> MapThenSumSet(Adds, w)
          [] OTHER -> IF Reads(w) = {} THEN 0
                      ELSE NumberRead(OptionAt(Max(Reads(w))), ParamAt(Max(Reads(w))))
  BY DEF MeantBy, Reads
<1> DEFINE bits   == UNION {OptionAt(i).in : i \in w}
           sum    == MapThenSumSet(Adds, w)
           number == IF Reads(w) = {} THEN 0
                     ELSE NumberRead(OptionAt(Max(Reads(w))), ParamAt(Max(Reads(w))))
<1>2. MeantBy(v, w) = CASE T = "FLAG" -> TRUE
                        [] T = "BIT" -> bits
                        [] T = "STRING" -> ParamAt(last)
                        [] T = "COUNTER" -> sum
                        [] OTHER -> number
  BY <1>1, Zenon
<1> HIDE DEF bits, sum, number, last
<1>3. /\ T = "FLAG" => MeantBy(v, w) = TRUE
      /\ T = "BIT" => MeantBy(v, w) = bits
      /\ T = "STRING" => MeantBy(v, w) = ParamAt(last)
      /\ T = "COUNTER" => MeantBy(v, w) = sum
      /\ T \in Number => MeantBy(v, w) = number
  BY <1>2 DEF Number
<1> QED
  BY <1>3 DEF bits, sum, number, last

LEMMA InitialOf ==
  ASSUME NEW v \in OutVar, NEW T,
         \A k \in DOMAIN table : table[k].out = v => table[k].type = T
  PROVE  /\ MeantBy(v, {}) = InitialValue(table, v)
         /\ T = "BIT" => InitialValue(table, v) = {}
         /\ T \in Number \cup {"COUNTER"} => InitialValue(table, v) = 0
<1> DEFINE o == CHOOSE k \in DOMAIN table : table[k].out = v
<1>1. o \in DOMAIN table /\ table[o].out = v
  BY DEF OutVar
<1>2. table[o].type = T
  BY <1>1
<1>3. InitialValue(table, v) = CASE table[o].type = "FLAG" -> FALSE
                                 [] table[o].type = "BIT" -> {}
                                 [] table[o].type = "STRING" -> None
                                 [] OTHER -> 0
  BY DEF InitialValue
<1> HIDE DEF o
<1>4. /\ T = "BIT" => InitialValue(table, v) = {}
      /\ T \in Number \cup {"COUNTER"} => InitialValue(table, v) = 0
  BY <1>2, <1>3 DEF Number
<1>5. MeantBy(v, {}) = InitialValue(table, v)
  BY DEF MeantBy
<1> QED
  BY <1>4, <1>5

\* An option that writes a variable makes of its value what the line means up
\* to that option.
LEMMA OneMoreWriter ==
  ASSUME Plain, ParserTypes, NEW v \in OutVar, NEW i \in 1..(argc - 1), IsOption(i),
         OptionAt(i).out = v, Stores(OptionAt(i)),
         outs[v] = MeantBy(v, WritersIn(v, 1..(i - 1)))
  PROVE  NewValue(OptionAt(i), ParamAt(i)) = MeantBy(v, WritersIn(v, 1..i))
<1>0. PICK o, p, w, u, T :
        /\ o = OptionAt(i) /\ p = ParamAt(i) /\ T = o.type
        /\ w = WritersIn(v, 1..(i - 1)) /\ u = WritersIn(v, 1..i)
  OBVIOUS
<1>1. i \in Nat /\ i >= 1 /\ argc \in Nat
  BY DEF ParserTypes, argc
<1>2. /\ u = w \cup {i} /\ i \notin w /\ w \subseteq 1..(i - 1) /\ u \subseteq 1..i
      /\ i \in u /\ u # {}
  <2>1. 1..i = 1..(i - 1) \cup {i} /\ i \notin 1..(i - 1)
    BY <1>1
  <2> QED
    BY <1>0, <2>1 DEF WritersIn
<1>3. Max(u) = i
  <2>1. u \in SUBSET Int /\ i \in u /\ \A y \in u : y <= i
    BY <1>1, <1>2
  <2> QED
    BY <2>1, MaxIs
<1>4. \A k \in DOMAIN table : table[k].out = v => table[k].type = T
  BY <1>0, <1>2, SameType
<1>5. w # {} => OptionAt(Max(w)).type = T
  <2> SUFFICES ASSUME w # {} PROVE OptionAt(Max(w)).type = T
    OBVIOUS
  <2>1. Max(w) \in w
    <3>1. w \in SUBSET (1..i)
      BY <1>1, <1>2
    <3> QED
      BY <1>1, <3>1, LastOf
  <2>2. PICK k \in DOMAIN table : OptionAt(Max(w)) = table[k]
    BY <1>0, <2>1, OptionRow DEF WritersIn
  <2>3. OptionAt(Max(w)).out = v
    BY <1>0, <2>1 DEF WritersIn
  <2> QED
    BY <1>4, <2>2, <2>3
<1>6. /\ MeantBy(v, {}) = InitialValue(table, v)
      /\ T = "BIT" => InitialValue(table, v) = {}
      /\ T \in Number \cup {"COUNTER"} => InitialValue(table, v) = 0
  BY <1>4, InitialOf
<1>7. /\ T = "FLAG" => MeantBy(v, u) = TRUE
      /\ T = "BIT" => MeantBy(v, u) = UNION {OptionAt(k).in : k \in u}
      /\ T = "STRING" => MeantBy(v, u) = p
      /\ T = "COUNTER" => MeantBy(v, u) = MapThenSumSet(Adds, u)
      /\ T \in Number => MeantBy(v, u) =
           IF Reads(u) = {} THEN 0
           ELSE NumberRead(OptionAt(Max(Reads(u))), ParamAt(Max(Reads(u))))
  <2>1. OptionAt(Max(u)).type = T
    BY <1>0, <1>3
  <2>2. /\ T = "FLAG" => MeantBy(v, u) = TRUE
        /\ T = "BIT" => MeantBy(v, u) = UNION {OptionAt(k).in : k \in u}
        /\ T = "STRING" => MeantBy(v, u) = ParamAt(Max(u))
        /\ T = "COUNTER" => MeantBy(v, u) = MapThenSumSet(Adds, u)
        /\ T \in Number => MeantBy(v, u) =
             IF Reads(u) = {} THEN 0
             ELSE NumberRead(OptionAt(Max(Reads(u))), ParamAt(Max(Reads(u))))
    BY <1>2, <2>1, MeantOf, Zenon
  <2>3. ParamAt(Max(u)) = p
    BY <1>0, <1>3
  <2> QED
    BY <2>2, <2>3, Zenon
<1>8. w # {} =>
      /\ T = "BIT" => outs[v] = UNION {OptionAt(k).in : k \in w}
      /\ T = "COUNTER" => outs[v] = MapThenSumSet(Adds, w)
      /\ T \in Number => outs[v] =
           IF Reads(w) = {} THEN 0
           ELSE NumberRead(OptionAt(Max(Reads(w))), ParamAt(Max(Reads(w))))
  <2>1. outs[v] = MeantBy(v, w)
    BY <1>0
  <2> QED
    BY <1>5, <2>1, MeantOf
<1>9. w = {} => outs[v] = InitialValue(table, v)
  BY <1>0, <1>6
<1>10. o.out = v /\ o.type = T
  BY <1>0
<1> SUFFICES NewValue(o, p) = MeantBy(v, u)
  BY <1>0
<1>11. CASE T = "FLAG"
  <2>1. NewValue(o, p) = TRUE
    BY <1>10, <1>11, Zenon DEF NewValue, Number
  <2>2. MeantBy(v, u) = TRUE
    BY <1>7, <1>11, Zenon
  <2> QED
    BY <2>1, <2>2, Zenon
<1>12. CASE T = "BIT"
  <2>1. NewValue(o, p) = outs[v] \cup o.in
    BY <1>10, <1>12 DEF NewValue, Number
  <2>2. outs[v] = UNION {OptionAt(k).in : k \in w}
    BY <1>6, <1>8, <1>9, <1>12
  <2>3. UNION {OptionAt(k).in : k \in u} = (UNION {OptionAt(k).in : k \in w}) \cup o.in
    BY <1>0, <1>2
  <2> QED
    BY <1>7, <1>12, <2>1, <2>2, <2>3
<1>13. CASE T = "STRING"
  BY <1>7, <1>10, <1>13 DEF NewValue, Number
<1>14. CASE T = "COUNTER"
  <2>1. NewValue(o, p) = outs[v] + Adds(i)
    BY <1>0, <1>10, <1>14 DEF NewValue, Adds, Number
  <2>2. outs[v] = MapThenSumSet(Adds, w)
    BY <1>6, <1>8, <1>9, <1>14, SumOfNone
  <2>3. MapThenSumSet(Adds, u) = MapThenSumSet(Adds, w) + Adds(i)
    <3>1. IsFiniteSet(w)
      <4>1. IsFiniteSet(1..(i - 1))
        BY <1>1, FS_Interval
      <4> QED
        BY <1>2, <4>1, FS_Subset
    <3>2. \A k \in w \cup {i} : Adds(k) \in Int
      <4> SUFFICES ASSUME NEW k PROVE Adds(k) \in Int
        OBVIOUS
      <4>1. ParamAt(k) \in Numbers => ParamAt(k) \in Int
        BY OptAssumption
      <4> QED
        BY <4>1 DEF Adds
    <3> QED
      BY <1>2, <3>1, <3>2, SumOfOneMore
  <2> QED
    BY <1>7, <1>14, <2>1, <2>2, <2>3
<1>15. CASE T \in Number
  <2>1. NewValue(o, p) = IF p \in Numbers \cup {None} THEN NumberRead(o, p) ELSE outs[v]
    BY <1>10, <1>15 DEF NewValue, Number
  <2>2. CASE p \in Numbers \cup {None}
    <3>1. i \in Reads(u) /\ Reads(u) \subseteq u
      BY <1>0, <1>2, <2>2 DEF Reads
    <3>2. Max(Reads(u)) = i
      <4>1. \A y \in u : y \in Int /\ y <= i
        BY <1>1, <1>2
      <4>2. Reads(u) \in SUBSET Int /\ \A y \in Reads(u) : y <= i
        BY <3>1, <4>1
      <4> QED
        BY <3>1, <4>2, MaxIs
    <3> QED
      BY <1>0, <1>7, <1>15, <2>1, <2>2, <3>1, <3>2
  <2>3. CASE p \notin Numbers \cup {None}
    <3>1. Reads(u) = Reads(w)
      BY <1>0, <1>2, <2>3 DEF Reads
    <3>2. CASE w = {}
      <4>1. Reads(w) = {}
        BY <3>2 DEF Reads
      <4> QED
        BY <1>6, <1>7, <1>9, <1>15, <2>1, <2>3, <3>1, <3>2, <4>1
    <3>3. CASE w # {}
      BY <1>7, <1>8, <1>15, <2>1, <2>3, <3>1, <3>3
    <3> QED
      BY <3>2, <3>3
  <2> QED
    BY <2>2, <2>3
<1>16. T \in Number \cup {"FLAG", "BIT", "STRING", "COUNTER"}
  BY <1>0 DEF Stores
<1> QED
  BY <1>11, <1>12, <1>13, <1>14, <1>15, <1>16

----------------------------------------------------------------------------
(* The walk. *)

\* The entries in front of the n-th let the parser go on, and the variables
\* have the values these entries give them.
Walked(n) ==
  /\ n \in 1..argc /\ \A i \in 1..(n - 1) : ~Halts(i)
  /\ \A v \in OutVar : outs[v] = MeantBy(v, WritersIn(v, 1..(n - 1)))

\* Between two options: the next entry is not the parameter of the last one.
Between(n) == Walked(n) /\ (n < argc => ~IsParam(n))

\* The entry that is next, or the end of the line.
Here == IF optind < argc THEN optind ELSE argc

\* The walk is over at the n-th entry, or at the end.
StoppedAt(n) ==
  /\ n \in 1..argc /\ \A i \in 1..(n - 1) : ~Halts(i)
  /\ n < argc => Halts(n)
  /\ \A v \in OutVar : outs[v] = MeantBy(v, WritersIn(v, 1..n \cap 1..(argc - 1)))
  /\ pc = "exited" <=> n < argc /\ IsOption(n) /\ ~Refused(n)
  /\ pc = "caller" =>
       /\ result = "error" <=> n < argc /\ Refused(n)
       /\ n < argc /\ At(n).kind = "end" => optind = n + 1
       /\ n < argc /\ At(n).kind = "word" => optind = n
       /\ n = argc => optind >= argc

\* An option is looked for in the table, or has been found and processed.
Matching ==
  IF matched THEN Matches = {} /\ Between(Here)
  ELSE /\ j = 0 /\ cur < argc /\ At(cur).kind = "option"
       /\ optind = cur + 1 /\ Between(cur)

WalkInv ==
  /\ DOMAIN outs = OutVar /\ outs = [v \in OutVar |-> outs[v]]
  /\ calls \in Nat /\ (calls = 0 => pc = "caller")
  /\ Plain => /\ calls = 0 => optind = 1 /\ Walked(1)
              /\ calls = 1 => /\ pc = "next" => Between(Here)
                              /\ pc = "match" => Matching
                              /\ pc \in {"caller", "exited"} => \E n \in 1..argc : StoppedAt(n)
                              /\ pc # "crashed"

\* What a command line means is a matter of the table and the line alone.
LEMMA FixedMeaning ==
  ASSUME UNCHANGED fixed
  PROVE  /\ argc' = argc /\ OutVar' = OutVar /\ (Plain' <=> Plain)
         /\ \A i : At(i)' = At(i)
         /\ \A i : /\ IsOption(i)' <=> IsOption(i)
                   /\ IsParam(i)' <=> IsParam(i)
                   /\ Refused(i)' <=> Refused(i)
                   /\ Halts(i)' <=> Halts(i)
         /\ \A v, s : WritersIn(v, s)' = WritersIn(v, s)
         /\ \A v, w : MeantBy(v, w)' = MeantBy(v, w)
<1>1. table' = table /\ lenient' = lenient /\ argv' = argv /\ start' = start
  BY DEF fixed
<1>2. argc' = argc /\ OutVar' = OutVar /\ \A i : At(i)' = At(i)
  BY <1>1 DEF argc, OutVar, At
<1>3. \A n : Named(n)' = Named(n)
  BY <1>1 DEF Named, Groups
<1>4. \A i : (IsOption(i)' <=> IsOption(i)) /\ OptionAt(i)' = OptionAt(i)
  BY <1>1 DEF IsOption, OptionAt, Named, Groups, At
<1>5. \A i : (FollowedByWord(i)' <=> FollowedByWord(i)) /\ ParamAt(i)' = ParamAt(i)
  <2>1. \A i : FollowedByWord(i)' <=> FollowedByWord(i)
    BY <1>2 DEF FollowedByWord
  <2> QED
    BY <1>2, <1>4, <2>1 DEF ParamAt
<1>6. \A i : Lacks(i)' <=> Lacks(i)
  BY <1>4, <1>5 DEF Lacks
<1>7. \A i : IsParam(i)' <=> IsParam(i)
  BY <1>1, <1>2, <1>4 DEF IsParam
<1>8. \A i : Refused(i)' <=> Refused(i)
  BY <1>1, <1>2, <1>4, <1>5, <1>6
     DEF Refused, Accepts, Stores, InRange, NumberRead, Default, Number
<1>9. \A i : Halts(i)' <=> Halts(i)
  BY <1>2, <1>4, <1>7, <1>8 DEF Halts
<1>10. \A i : Deviates(i)' <=> Deviates(i)
  BY <1>2, <1>4, <1>5, <1>6 DEF Deviates, Crashes, Number
<1>11. Plain' <=> Plain
  <2>1. (\A i \in 1..(argc - 1) : (\A k \in 1..(i - 1) : ~Halts(k)) => ~Deviates(i))'
        <=> \A i \in 1..(argc - 1) : (\A k \in 1..(i - 1) : ~Halts(k)) => ~Deviates(i)
    BY <1>2, <1>9, <1>10
  <2>2. (DOMAIN table # Groups)' <=> DOMAIN table # Groups
    BY <1>1 DEF Groups
  <2>3. (\A k \in DOMAIN table \ Groups : Named(table[k].name) = {k})'
        <=> \A k \in DOMAIN table \ Groups : Named(table[k].name) = {k}
    BY <1>1 DEF Groups, Named
  <2> QED
    BY <1>1, <2>1, <2>2, <2>3 DEF Plain
<1>12. \A v, s : WritersIn(v, s)' = WritersIn(v, s)
  BY <1>4 DEF WritersIn, Stores, Number
<1>13. \A v, w : MeantBy(v, w)' = MeantBy(v, w)
  BY <1>1 DEF MeantBy, InitialValue, OptionAt, Named, Groups, At, ParamAt, argc, NumberRead,
              Default, Adds, MapThenSumSet, MapThenFoldSet, FollowedByWord
<1> QED
  BY <1>2, <1>4, <1>7, <1>8, <1>9, <1>12, <1>13, <1>11

\* What the entries up to the n-th give to a variable is fixed.
LEMMA MeansTheSame ==
  ASSUME UNCHANGED fixed, NEW v, NEW n
  PROVE  MeantBy(v, WritersIn(v, 1..n \cap 1..(argc - 1)))'
           = MeantBy(v, WritersIn(v, 1..n \cap 1..(argc - 1)))
<1> DEFINE s == 1..n \cap 1..(argc - 1)
<1>1. s' = s
  BY FixedMeaning
<1> HIDE DEF s
<1>2. MeantBy(v, WritersIn(v, s))' = MeantBy(v, WritersIn(v, s))
  BY <1>1, UNCHANGED fixed
     DEF MeantBy, WritersIn, Stores, Number, InitialValue, IsOption, OptionAt, Named, Groups,
         At, ParamAt, argc, NumberRead, Default, Adds, MapThenSumSet, MapThenFoldSet, fixed,
         FollowedByWord
<1> QED
  BY <1>2 DEF s

LEMMA WalkedKept ==
  ASSUME UNCHANGED <<fixed, outs>>, NEW n
  PROVE  (Walked(n) => Walked(n)') /\ (Between(n) => Between(n)')
BY FixedMeaning DEF Walked, Between

\* An entry that lets the parser go on.
LEMMA WalkedOn ==
  ASSUME ParserTypes, UNCHANGED fixed, NEW n \in 1..(argc - 1),
         \A i \in 1..n : ~Halts(i),
         \A v \in OutVar : outs'[v] = MeantBy(v, WritersIn(v, 1..n))
  PROVE  Walked(n + 1)'
<1>1. argc \in Nat /\ n \in Nat
  BY DEF ParserTypes, argc
<1>2. (n + 1) - 1 = n /\ n + 1 \in 1..argc
  BY <1>1
<1> QED
  BY <1>2, FixedMeaning DEF Walked

\* An entry that writes no variable.
LEMMA NoWriter ==
  ASSUME ParserTypes, NEW v, NEW n \in 1..argc,
         n < argc /\ IsOption(n) /\ OptionAt(n).out = v => ~Stores(OptionAt(n))
  PROVE  WritersIn(v, 1..n \cap 1..(argc - 1)) = WritersIn(v, 1..(n - 1))
<1>1. argc \in Nat /\ n \in Nat
  BY DEF ParserTypes, argc
<1>2. CASE n = argc
  <2>1. 1..n \cap 1..(argc - 1) = 1..(n - 1)
    BY <1>1, <1>2
  <2> QED
    BY <2>1, Zenon
<1>3. CASE n < argc
  <2>1. 1..n \cap 1..(argc - 1) = 1..(n - 1) \cup {n}
    BY <1>1, <1>3
  <2> QED
    BY <1>3, <2>1 DEF WritersIn
<1> QED
  BY <1>1, <1>2, <1>3

\* At the end of the line, or at an entry that is no option, the walk stops
\* with what it has.
LEMMA StopsThere ==
  ASSUME ParserTypes, UNCHANGED <<fixed, outs>>, NEW n, Walked(n),
         n < argc => Halts(n) /\ ~IsOption(n),
         pc' = "caller",
         result' = "error" <=> n < argc /\ Refused(n),
         n < argc /\ At(n).kind = "end" => optind' = n + 1,
         n < argc /\ At(n).kind = "word" => optind' = n,
         n = argc => optind' >= argc
  PROVE  StoppedAt(n)'
<1>1. n \in 1..argc /\ \A i \in 1..(n - 1) : ~Halts(i)
  BY DEF Walked
<1>2. \A v \in OutVar : outs[v] = MeantBy(v, WritersIn(v, 1..n \cap 1..(argc - 1)))
  BY <1>1, NoWriter DEF Walked
<1>3. \A v \in OutVar' : outs'[v] = MeantBy(v, WritersIn(v, 1..n \cap 1..(argc - 1)))'
  <2>1. OutVar' = OutVar /\ outs' = outs
    BY FixedMeaning
  <2> QED
    BY <1>2, <2>1, MeansTheSame
<1> QED
  BY <1>1, <1>3, FixedMeaning DEF StoppedAt

LEMMA EntryKinds ==
  ASSUME ParserTypes, NEW n \in 0..(argc - 1)
  PROVE  At(n).kind \in {"option", "word", "end"} /\ (At(n).kind = "word" => At(n).value # None)
<1> DEFINE first == [kind |-> "word", value |-> Program]
<1>1. At(n) \in Entries \cup {first}
  <2>1. n + 1 \in 1..Len(argv)
    BY DEF ParserTypes, argc
  <2> QED
    BY <2>1 DEF ParserTypes, At
<1>2. CASE At(n) = first
  <2>1. first.kind = "word" /\ first.value = Program
    OBVIOUS
  <2>2. Program # None
    BY OptAssumption
  <2> HIDE DEF first
  <2> QED
    BY <1>2, <2>1, <2>2
<1>3. CASE At(n) \in Entries
  BY <1>3, OptAssumption
<1> QED
  BY <1>1, <1>2, <1>3

\* What the code looks up as the parameter makes no other difference than the
\* parameter of the line, at an entry where the code does not deviate.
LEMMA SameParam ==
  ASSUME ParserTypes, NEW n \in 1..(argc - 1), IsOption(n), ~Deviates(n),
         cur = n, optind = n + 1, NEW o, o = OptionAt(n)
  PROVE  /\ o.param # "NONE" => Param = ParamAt(n)
         /\ Stores(o) => NewValue(o, Param) = NewValue(o, ParamAt(n))
         /\ Accepts(o, Param) <=> Accepts(o, ParamAt(n))
<1>1. CASE o.param # "NONE"
  <2>1. Param = ParamAt(n)
    BY <1>1 DEF Param, NextWord, ParamAt, FollowedByWord
  <2> QED
    BY <2>1
<1>2. CASE o.param = "NONE"
  <2>1. ParamAt(n) = None /\ At(n).eq = None
    BY <1>2 DEF ParamAt, Deviates
  <2>2. Param = None \/ o.type \notin Number \cup {"STRING", "COUNTER"}
    BY <1>2, <2>1 DEF Param, NextWord, Deviates, FollowedByWord
  <2>3. CASE Param = None
    BY <1>2, <2>1, <2>3
  <2>4. CASE o.type \notin Number \cup {"STRING", "COUNTER"}
    <3>1. Stores(o) => NewValue(o, Param) = NewValue(o, ParamAt(n))
      BY <2>4 DEF Stores, NewValue, Number
    <3>2. Accepts(o, Param) <=> Accepts(o, ParamAt(n))
      BY <2>4 DEF Accepts
    <3> QED
      BY <1>2, <3>1, <3>2
  <2> QED
    BY <2>2, <2>3, <2>4
<1> QED
  BY <1>1, <1>2

\* The walk goes on or stops at an option that has been found.
LEMMA ProcessFacts ==
  ASSUME ParserTypes, Plain, Matching, ~matched, ProcessOption
  PROVE  /\ cur \in 1..(argc - 1) /\ IsOption(cur) /\ ~Deviates(cur)
         /\ matched' = TRUE /\ Matches' = {}
         /\ IF OptionAt(cur).param # "NONE" /\ ParamAt(cur) # None
            THEN optind' = optind + 1 ELSE optind' = optind
         /\ outs' = IF Stores(OptionAt(cur)) /\ OptionAt(cur).out # None
                    THEN [outs EXCEPT ![OptionAt(cur).out] = NewValue(OptionAt(cur), ParamAt(cur))]
                    ELSE outs
         /\ IF OptionAt(cur).type \in {"HELP", "VERSION"}
            THEN pc' = "exited" /\ UNCHANGED result
            ELSE IF Accepts(OptionAt(cur), ParamAt(cur)) THEN UNCHANGED <<pc, result>>
                                                         ELSE Returns("error")
<1>1. /\ j = 0 /\ cur < argc /\ At(cur).kind = "option" /\ optind = cur + 1
      /\ cur \in 1..argc /\ \A i \in 1..(cur - 1) : ~Halts(i)
  BY DEF Matching, Between, Walked
<1>2. cur \in 1..(argc - 1)
  BY <1>1 DEF ParserTypes, argc
<1>3. \A k \in DOMAIN table : k \in Nat /\ k > 0
  <2>1. DOMAIN table = 1..Len(table) /\ Len(table) \in Nat
    BY OptAssumption DEF ParserTypes
  <2> QED
    BY <2>1
<1>4. Matches = Named(At(cur).name)
  BY <1>1, <1>3 DEF Matches, Named
<1>5. IsOption(cur)
  BY <1>1, <1>4 DEF IsOption, ProcessOption
<1>6. PICK k \in DOMAIN table \ Groups : /\ Named(At(cur).name) = {k}
                                         /\ OptionAt(cur) = table[k]
  BY <1>5, OptionRow
<1>7. Min(Matches) = k
  <2>1. Min({k}) = k
    <3>1. k <= k
      BY <1>3, <1>6
    <3> QED
      BY <3>1 DEF Min
  <2> QED
    BY <1>4, <1>6, <2>1
<1>8. ~Deviates(cur)
  BY <1>1, <1>2 DEF Plain
<1>9. Matches' = {}
  <2>1. j' = k /\ cur' = cur /\ table' = table /\ argv' = argv
    BY <1>7 DEF ProcessOption, fixed
  <2>2. ASSUME NEW l \in DOMAIN table \ Groups, table[l].name = At(cur).name PROVE ~(l > k)
    <3>1. l \in Named(At(cur).name)
      BY <2>2 DEF Named
    <3> QED
      BY <1>3, <1>6, <3>1
  <2> QED
    BY <1>1, <2>1, <2>2 DEF Matches, Groups, At
<1>10. PICK o : o = table[k] /\ o = OptionAt(cur)
  BY <1>6
<1>11. /\ matched' = TRUE /\ Consumes(o)
       /\ outs' = IF Stores(o) /\ o.out # None
                  THEN [outs EXCEPT ![o.out] = NewValue(o, Param)] ELSE outs
       /\ CASE o.type \in {"HELP", "VERSION"} -> pc' = "exited" /\ UNCHANGED result
            [] Crashes(o) -> pc' = "crashed" /\ UNCHANGED result
            [] OTHER -> IF Accepts(o, Param) THEN UNCHANGED <<pc, result>>
                                             ELSE Returns("error")
  BY <1>7, <1>10 DEF ProcessOption
<1>12. /\ o.param # "NONE" => Param = ParamAt(cur)
       /\ Stores(o) => NewValue(o, Param) = NewValue(o, ParamAt(cur))
       /\ Accepts(o, Param) <=> Accepts(o, ParamAt(cur))
  BY <1>1, <1>2, <1>5, <1>8, <1>10, SameParam
<1>13. ~Crashes(o)
  BY <1>5, <1>8, <1>10 DEF Deviates
<1>14. IF o.param # "NONE" /\ ParamAt(cur) # None THEN optind' = optind + 1
                                                  ELSE optind' = optind
  BY <1>11, <1>12 DEF Consumes
<1>15. outs' = IF Stores(o) /\ o.out # None
               THEN [outs EXCEPT ![o.out] = NewValue(o, ParamAt(cur))] ELSE outs
  BY <1>11, <1>12, Zenon
<1>16. IF o.type \in {"HELP", "VERSION"} THEN pc' = "exited" /\ UNCHANGED result
       ELSE IF Accepts(o, ParamAt(cur)) THEN UNCHANGED <<pc, result>> ELSE Returns("error")
  BY <1>11, <1>12, <1>13
<1> QED
  BY <1>2, <1>5, <1>8, <1>9, <1>10, <1>11, <1>14, <1>15, <1>16, Zenon

\* What it stores is what the line means.
LEMMA ProcessStores ==
  ASSUME ParserTypes, Plain, Matching, ~matched, ProcessOption, WalkInv
  PROVE  \A v \in OutVar : outs'[v] = MeantBy(v, WritersIn(v, 1..cur))
<1> DEFINE o == OptionAt(cur)
           x == NewValue(o, ParamAt(cur))
<1>1. /\ cur \in 1..(argc - 1) /\ cur \in 1..argc /\ IsOption(cur)
      /\ outs' = IF Stores(o) /\ o.out # None THEN [outs EXCEPT ![o.out] = x] ELSE outs
  <2>1. cur \in 1..argc
    BY DEF Matching, Between, Walked
  <2> QED
    BY <2>1, ProcessFacts
<1>2. /\ DOMAIN outs = OutVar /\ outs = [v \in OutVar |-> outs[v]]
      /\ \A v \in OutVar : outs[v] = MeantBy(v, WritersIn(v, 1..(cur - 1)))
  BY DEF WalkInv, Matching, Between, Walked
<1>4. cur \in Nat /\ argc \in Nat /\ 1..cur \cap 1..(argc - 1) = 1..cur
  BY <1>1 DEF ParserTypes, argc
<1>5. ASSUME NEW v \in OutVar PROVE outs'[v] = MeantBy(v, WritersIn(v, 1..cur))
  <2>1. v # None
    BY DEF OutVar
  <2>2. CASE Stores(o) /\ o.out = v
    <3>1. x = MeantBy(v, WritersIn(v, 1..cur))
      BY <1>1, <1>2, <2>2, OneMoreWriter
    <3> HIDE DEF x, o
    <3>2. outs'[v] = x
      BY <1>1, <1>2, <2>1, <2>2
    <3> QED
      BY <3>1, <3>2
  <2>3. CASE ~(Stores(o) /\ o.out = v)
    <3>1. WritersIn(v, 1..cur) = WritersIn(v, 1..(cur - 1))
      <4>1. WritersIn(v, 1..cur \cap 1..(argc - 1)) = WritersIn(v, 1..(cur - 1))
        BY <1>1, <2>3, NoWriter
      <4> QED
        BY <1>4, <4>1
    <3> HIDE DEF x, o
    <3>2. outs'[v] = outs[v]
      BY <1>1, <1>2, <2>3
    <3> QED
      BY <1>2, <3>1, <3>2
  <2> QED
    BY <2>2, <2>3
<1> QED
  BY <1>5

\* An action that writes no variable keeps what the invariant says of outs.
LEMMA OutsKept ==
  ASSUME WalkInv, UNCHANGED <<fixed, outs>>
  PROVE  DOMAIN outs' = OutVar' /\ outs' = [v \in OutVar' |-> outs'[v]]
<1>1. OutVar' = OutVar /\ outs' = outs
  BY FixedMeaning
<1> QED
  BY <1>1 DEF WalkInv

\* Between two options, with the entry that is next after the step.
LEMMA BetweenOf ==
  ASSUME NEW n, Here' = n, Between(n)'
  PROVE  Between(Here)'
BY DEF Between, Walked, IsParam, IsOption, OptionAt, At, argc

LEMMA WalkCall == ASSUME ParserTypes, WalkInv, Call PROVE WalkInv'
<1>1. /\ UNCHANGED <<fixed, optind, outs>> /\ calls' = calls + 1 /\ calls \in Nat
      /\ IF optind > argc THEN Returns("error") ELSE pc' = "next" /\ result' = "none"
  BY DEF Call, WalkInv
<1>2. DOMAIN outs' = OutVar' /\ outs' = [v \in OutVar' |-> outs'[v]]
  BY <1>1, OutsKept
<1>3. ASSUME Plain, calls' = 1 PROVE pc' = "next" /\ Between(Here)'
  <2>1. optind = 1 /\ Walked(1)
    BY <1>1, <1>3 DEF WalkInv
  <2>2. pc' = "next"
    BY <1>1, <2>1 DEF ParserTypes, argc
  <2>3. Between(1)
    BY <1>3, <2>1 DEF Between, IsParam, Plain
  <2>4. Between(1)'
    BY <1>1, <2>3, WalkedKept
  <2>5. Here' = 1
    <3>1. argc' = argc /\ argc \in Nat /\ argc >= 1 /\ optind' = 1
      BY <1>1, <2>1, FixedMeaning DEF ParserTypes, argc
    <3> QED
      BY <3>1 DEF Here
  <2> QED
    BY <2>2, <2>4, <2>5, BetweenOf
<1>4. Plain' <=> Plain
  BY <1>1, FixedMeaning
<1> QED
  BY <1>1, <1>2, <1>3, <1>4 DEF WalkInv

\* A step that leaves the variables alone keeps the invariant, if it keeps
\* what the invariant says of the first call.
LEMMA WalkStep ==
  ASSUME ParserTypes, WalkInv, UNCHANGED <<fixed, calls>>, calls # 0,
         DOMAIN outs' = OutVar /\ outs' = [v \in OutVar |-> outs'[v]],
         Plain /\ calls = 1 =>
           /\ pc' = "next" => Between(Here)'
           /\ pc' = "match" => Matching'
           /\ pc' \in {"caller", "exited"} => (\E n \in 1..argc : StoppedAt(n))'
           /\ pc' # "crashed"
  PROVE  WalkInv'
<1>1. (Plain' <=> Plain) /\ OutVar' = OutVar
  BY FixedMeaning
<1> QED
  BY <1>1 DEF WalkInv

LEMMA WalkStops ==
  ASSUME ParserTypes, UNCHANGED fixed, NEW n \in 1..argc, StoppedAt(n)'
  PROVE  (\E i \in 1..argc : StoppedAt(i))'
<1>1. argc' = argc
  BY FixedMeaning
<1> QED
  BY <1>1

LEMMA WalkEnds ==
  ASSUME ParserTypes, WalkInv, EndOfArguments \/ EndMarker \/ StopAtWord PROVE WalkInv'
<1>1. /\ UNCHANGED <<fixed, outs, calls>> /\ pc = "next" /\ pc' = "caller" /\ result' = "ok"
      /\ calls # 0
  BY DEF EndOfArguments, EndMarker, StopAtWord, Returns, WalkInv
<1>2. DOMAIN outs' = OutVar /\ outs' = [v \in OutVar |-> outs'[v]]
  BY <1>1 DEF WalkInv
<1>3. ASSUME Plain, calls = 1 PROVE (\E n \in 1..argc : StoppedAt(n))'
  <2>1. PICK n : n = Here
    OBVIOUS
  <2>2. /\ Walked(n) /\ n \in 1..argc /\ argc \in Nat /\ (n < argc => ~IsParam(n))
        /\ optind \in Nat
    BY <1>1, <1>3, <2>1 DEF WalkInv, Between, Walked, ParserTypes, argc
  <2>3. CASE EndOfArguments
    <3>1. n = argc /\ optind' >= argc
      BY <2>1, <2>2, <2>3 DEF EndOfArguments, Here
    <3>2. StoppedAt(n)'
      BY <1>1, <2>2, <3>1, StopsThere
    <3> QED
      BY <1>1, <2>2, <3>2, WalkStops
  <2>4. CASE EndMarker
    <3>1. n < argc /\ At(n).kind = "end" /\ optind' = n + 1
      BY <2>1, <2>4 DEF EndMarker, Here
    <3>2. Halts(n) /\ ~IsOption(n) /\ ~Refused(n)
      BY <3>1 DEF Halts, IsOption, Refused
    <3>3. StoppedAt(n)'
      BY <1>1, <2>2, <3>1, <3>2, StopsThere
    <3> QED
      BY <1>1, <2>2, <3>3, WalkStops
  <2>5. CASE StopAtWord
    <3>1. n < argc /\ At(n).kind = "word" /\ optind' = n
      BY <2>1, <2>5 DEF StopAtWord, Here
    <3>2. Halts(n) /\ ~IsOption(n) /\ ~Refused(n)
      BY <2>2, <3>1 DEF Halts, IsOption, Refused
    <3>3. StoppedAt(n)'
      BY <1>1, <2>2, <3>1, <3>2, StopsThere
    <3> QED
      BY <1>1, <2>2, <3>3, WalkStops
  <2> QED
    BY <2>3, <2>4, <2>5
<1> QED
  BY <1>1, <1>2, <1>3, WalkStep

LEMMA WalkTakes == ASSUME ParserTypes, WalkInv, TakeArgument PROVE WalkInv'
<1>1. /\ UNCHANGED <<fixed, outs, calls>> /\ pc = "next" /\ pc' = "match" /\ calls # 0
      /\ cur' = optind /\ optind' = optind + 1 /\ j' = 0 /\ matched' = FALSE
      /\ optind < argc
      /\ DOMAIN table = Groups \/ At(optind).kind = "option"
  BY DEF TakeArgument, WalkInv
<1>2. DOMAIN outs' = OutVar /\ outs' = [v \in OutVar |-> outs'[v]]
  BY <1>1 DEF WalkInv
<1>3. ASSUME Plain, calls = 1 PROVE Matching'
  <2>1. PICK n : n = optind
    OBVIOUS
  <2>2. Between(n) /\ At(n).kind = "option"
    <3>1. Between(Here) /\ Here = n
      BY <1>1, <1>3, <2>1 DEF WalkInv, Here
    <3> QED
      BY <1>1, <1>3, <2>1, <3>1 DEF Plain
  <2>3. Between(n)' /\ argc' = argc /\ At(n)' = At(n)
    BY <1>1, <2>2, WalkedKept, FixedMeaning
  <2>4. cur' = n /\ optind' = n + 1 /\ n < argc
    BY <1>1, <2>1
  <2>5. Between(cur)'
    BY <2>3, <2>4 DEF Between, Walked, IsParam, IsOption, OptionAt, At, argc
  <2>6. At(cur)'.kind = "option"
    BY <2>2, <2>3, <2>4 DEF At
  <2> QED
    BY <1>1, <2>3, <2>4, <2>5, <2>6 DEF Matching
<1> QED
  BY <1>1, <1>2, <1>3, WalkStep

LEMMA WalkUnknown == ASSUME ParserTypes, WalkInv, Unknown PROVE WalkInv'
<1>1. /\ UNCHANGED <<fixed, optind, outs, calls>> /\ pc = "match" /\ calls # 0
      /\ Matches = {} /\ ~matched
      /\ IF lenient THEN pc' = "next" /\ UNCHANGED result ELSE Returns("error")
  BY DEF Unknown, WalkInv
<1>2. DOMAIN outs' = OutVar /\ outs' = [v \in OutVar |-> outs'[v]]
  BY <1>1 DEF WalkInv
<1> SUFFICES ASSUME Plain, calls = 1
             PROVE  /\ pc' = "next" => Between(Here)'
                    /\ pc' = "caller" => (\E n \in 1..argc : StoppedAt(n))'
  BY <1>1, <1>2, WalkStep DEF Returns
<1>3. PICK n : n = cur
  OBVIOUS
<1>4. /\ n < argc /\ At(n).kind = "option" /\ optind = n + 1 /\ Walked(n) /\ j = 0
      /\ n \in 1..argc /\ argc \in Nat
  BY <1>1, <1>3 DEF WalkInv, Matching, Between, Walked, ParserTypes, argc
<1>5. ~IsOption(n)
  <2>1. \A k \in DOMAIN table : k > j
    <3>1. DOMAIN table = 1..Len(table) /\ Len(table) \in Nat
      BY OptAssumption DEF ParserTypes
    <3> QED
      BY <1>4, <3>1
  <2> QED
    BY <1>1, <1>3, <1>4, <2>1 DEF Matches, IsOption, Named
<1>6. CASE lenient
  <2>1. ~Halts(n)
    BY <1>4, <1>5, <1>6 DEF Halts, Refused
  <2>2. \A v \in OutVar : outs'[v] = MeantBy(v, WritersIn(v, 1..n))
    <3>1. 1..n \cap 1..(argc - 1) = 1..n
      BY <1>4
    <3>2. \A v \in OutVar : WritersIn(v, 1..n) = WritersIn(v, 1..(n - 1))
      BY <1>4, <1>5, <3>1, NoWriter
    <3> QED
      BY <1>1, <1>4, <3>2 DEF Walked
  <2>3. n \in 1..(argc - 1) /\ \A i \in 1..n : ~Halts(i)
    BY <1>4, <2>1 DEF Walked
  <2>4. Walked(n + 1)'
    BY <1>1, <2>2, <2>3, WalkedOn
  <2>5. ~IsParam(n + 1)
    <3>1. (n + 1) - 1 = n
      BY <1>4
    <3> QED
      BY <1>5, <3>1 DEF IsParam
  <2>6. Between(n + 1)'
    BY <1>1, <2>4, <2>5, FixedMeaning DEF Between
  <2>7. Between(Here)'
    <3>1. Here' = n + 1
      <4>1. argc' = argc /\ optind' = n + 1 /\ n + 1 <= argc
        BY <1>1, <1>4, FixedMeaning
      <4> QED
        BY <1>4, <4>1 DEF Here
    <3> QED
      BY <2>6, <3>1, BetweenOf
  <2> QED
    BY <1>1, <1>6, <2>7
<1>7. CASE ~lenient
  <2>1. pc' = "caller" /\ result' = "error"
    BY <1>1, <1>7 DEF Returns
  <2>2. Refused(n) /\ Halts(n)
    BY <1>4, <1>5, <1>7 DEF Refused, Halts
  <2>3. StoppedAt(n)'
    BY <1>1, <1>4, <1>5, <2>1, <2>2, StopsThere
  <2>4. (\E i \in 1..argc : StoppedAt(i))'
    BY <1>1, <1>4, <2>3, WalkStops
  <2> QED
    BY <2>1, <2>4
<1> QED
  BY <1>6, <1>7

LEMMA WalkKnown == ASSUME ParserTypes, WalkInv, Known PROVE WalkInv'
<1>1. /\ UNCHANGED <<fixed, optind, outs, calls>> /\ pc = "match" /\ pc' = "next"
      /\ matched /\ calls # 0
  BY DEF Known, WalkInv
<1>2. DOMAIN outs' = OutVar /\ outs' = [v \in OutVar |-> outs'[v]]
  BY <1>1 DEF WalkInv
<1>3. ASSUME Plain, calls = 1 PROVE Between(Here)'
  <2>1. PICK n : n = Here
    OBVIOUS
  <2>2. Between(n)
    BY <1>1, <1>3, <2>1 DEF WalkInv, Matching
  <2>3. Between(n)'
    BY <1>1, <2>2, WalkedKept
  <2>4. Here' = n
    BY <1>1, <2>1, FixedMeaning DEF Here
  <2> QED
    BY <2>3, <2>4, BetweenOf
<1> QED
  BY <1>1, <1>2, <1>3, WalkStep

\* The walk stops at an option that exits or is refused.
LEMMA StopsAtOption ==
  ASSUME ParserTypes, UNCHANGED fixed, NEW n \in 1..(argc - 1), Walked(n),
         IsOption(n), Halts(n),
         \A v \in OutVar : outs'[v] = MeantBy(v, WritersIn(v, 1..n)),
         pc' = "exited" <=> ~Refused(n),
         pc' = "caller" => Refused(n) /\ result' = "error"
  PROVE  StoppedAt(n)'
<1>1. n \in 1..argc /\ n < argc /\ argc \in Nat /\ \A i \in 1..(n - 1) : ~Halts(i)
  BY DEF Walked, ParserTypes, argc
<1>2. At(n).kind = "option"
  BY DEF IsOption
<1>3. \A v \in OutVar' : outs'[v] = MeantBy(v, WritersIn(v, 1..n \cap 1..(argc - 1)))'
  <2>1. OutVar' = OutVar /\ 1..n \cap 1..(argc - 1) = 1..n
    BY <1>1, FixedMeaning
  <2>2. \A v \in OutVar : outs'[v] = MeantBy(v, WritersIn(v, 1..n \cap 1..(argc - 1)))
    BY <2>1
  <2> QED
    BY <2>1, <2>2, MeansTheSame
<1> QED
  BY <1>1, <1>2, <1>3, FixedMeaning DEF StoppedAt

\* An option that is accepted, with its parameter if that is the next entry.
LEMMA GoesOn ==
  ASSUME ParserTypes, Plain, WalkInv, Matching, ~matched, ProcessOption,
         OptionAt(cur).type \notin {"HELP", "VERSION"},
         Accepts(OptionAt(cur), ParamAt(cur))
  PROVE  Between(Here)'
<1>1. PICK n : n = cur
  OBVIOUS
<1>2. PICK o : o = OptionAt(n)
  OBVIOUS
<1>3. /\ optind = n + 1 /\ At(n).kind = "option" /\ Walked(n)
      /\ n \in 1..(argc - 1) /\ IsOption(n) /\ n \in Nat /\ argc \in Nat
      /\ UNCHANGED fixed /\ ~Deviates(n) /\ argc' = argc
  BY <1>1, ProcessFacts, FixedMeaning DEF Matching, Between, ProcessOption, ParserTypes, argc
<1>4. \A v \in OutVar : outs'[v] = MeantBy(v, WritersIn(v, 1..n))
  BY <1>1, ProcessStores
<1>5. \A i \in 1..n : ~Halts(i)
  <2>1. ~Halts(n)
    BY <1>1, <1>3 DEF Halts, Refused, Deviates
  <2> QED
    BY <1>3, <2>1 DEF Walked
<1>6. Walked(n + 1)'
  BY <1>3, <1>4, <1>5, WalkedOn
<1>7. IF o.param # "NONE" /\ ParamAt(n) # None THEN optind' = optind + 1 ELSE optind' = optind
  BY <1>1, <1>2, ProcessFacts
<1>8. n + 1 < argc => ~IsParam(n + 1) \/ (o.param # "NONE" /\ ParamAt(n) # None)
  <2> SUFFICES ASSUME n + 1 < argc, IsParam(n + 1) PROVE o.param # "NONE" /\ ParamAt(n) # None
    OBVIOUS
  <2>1. (n + 1) - 1 = n /\ n + 1 \in 0..(argc - 1)
    BY <1>3
  <2>2. At(n + 1).kind = "word" /\ o.param # "NONE" /\ At(n).eq = None
    BY <1>2, <2>1 DEF IsParam
  <2>3. At(n + 1).value # None
    BY <2>1, <2>2, EntryKinds
  <2> QED
    BY <1>2, <2>2, <2>3 DEF ParamAt, FollowedByWord
<1>9. CASE At(n).eq # None
  <2>1. ~(n + 1 < argc)
    BY <1>3, <1>9 DEF Deviates
  <2>2. n + 1 = argc
    BY <1>3, <2>1
  <2>3. Between(n + 1)'
    BY <1>3, <1>6, <2>2 DEF Between
  <2>4. Here' = n + 1
    <3>1. optind' >= argc
      BY <1>3, <1>7, <2>2
    <3> QED
      BY <1>3, <1>7, <2>2, <3>1 DEF Here
  <2> QED
    BY <2>3, <2>4, BetweenOf
<1>10. CASE At(n).eq = None /\ o.param # "NONE" /\ ParamAt(n) # None
  <2>2. n + 1 < argc /\ At(n + 1).kind = "word"
    BY <1>2, <1>10 DEF ParamAt, FollowedByWord
  <2>3. IsParam(n + 1)
    <3>1. (n + 1) - 1 = n /\ n >= start
      BY <1>3 DEF Plain
    <3> QED
      BY <1>2, <1>3, <1>10, <2>2, <3>1 DEF IsParam
  <2>4. ~IsOption(n + 1) /\ ~Halts(n + 1)
    BY <2>2, <2>3 DEF IsOption, Refused, Halts
  <2>5. \A v \in OutVar : outs'[v] = MeantBy(v, WritersIn(v, 1..(n + 1)))
    <3>1. 1..(n + 1) \cap 1..(argc - 1) = 1..(n + 1) /\ (n + 1) - 1 = n /\ n + 1 \in 1..argc
      BY <1>3, <2>2
    <3>2. \A v : WritersIn(v, 1..(n + 1) \cap 1..(argc - 1)) = WritersIn(v, 1..((n + 1) - 1))
      BY <2>4, <3>1, NoWriter
    <3>3. \A v : WritersIn(v, 1..(n + 1)) = WritersIn(v, 1..n)
      BY <3>1, <3>2
    <3> QED
      BY <1>4, <3>3
  <2>6. n + 1 \in 1..(argc - 1) /\ \A i \in 1..(n + 1) : ~Halts(i)
    <3>1. \A i \in 1..(n + 1) : i \in 1..n \/ i = n + 1
      BY <1>3
    <3> QED
      BY <1>3, <1>5, <2>2, <2>4, <3>1
  <2>7. Walked((n + 1) + 1)'
    BY <1>3, <2>5, <2>6, WalkedOn
  <2>8. ~IsParam((n + 1) + 1)
    <3>1. ((n + 1) + 1) - 1 = n + 1
      BY <1>3
    <3> QED
      BY <2>4, <3>1 DEF IsParam
  <2>9. Between((n + 1) + 1)'
    BY <1>3, <2>7, <2>8, FixedMeaning DEF Between
  <2>10. Here' = (n + 1) + 1
    <3>1. optind' = (n + 1) + 1 /\ (n + 1) + 1 <= argc
      BY <1>3, <1>7, <1>10, <2>2
    <3> QED
      BY <1>3, <3>1 DEF Here
  <2> QED
    BY <2>9, <2>10, BetweenOf
<1>11. CASE ~(o.param # "NONE" /\ ParamAt(n) # None)
  <2>1. Between(n + 1)'
    BY <1>3, <1>6, <1>11, <1>8, FixedMeaning DEF Between
  <2>2. Here' = n + 1
    <3>1. optind' = n + 1 /\ n + 1 <= argc
      BY <1>3, <1>7, <1>11
    <3> QED
      BY <1>3, <3>1 DEF Here
  <2> QED
    BY <2>1, <2>2, BetweenOf
<1> QED
  BY <1>10, <1>11, <1>9

LEMMA WalkProcesses == ASSUME ParserTypes, WalkInv, ProcessOption PROVE WalkInv'
<1>1. /\ UNCHANGED <<fixed, calls>> /\ pc = "match" /\ Matches # {} /\ calls # 0
  BY DEF ProcessOption, WalkInv
<1>2. DOMAIN outs' = OutVar /\ outs' = [v \in OutVar |-> outs'[v]]
  <2>1. PICK v, x : outs' = outs \/ outs' = [outs EXCEPT ![v] = x]
    BY DEF ProcessOption
  <2>2. DOMAIN outs = OutVar /\ outs = [w \in OutVar |-> outs[w]]
    BY DEF WalkInv
  <2> QED
    BY <2>1, <2>2
<1> SUFFICES ASSUME Plain, calls = 1
             PROVE  /\ pc' = "next" => Between(Here)'
                    /\ pc' = "match" => Matching'
                    /\ pc' \in {"caller", "exited"} => (\E n \in 1..argc : StoppedAt(n))'
                    /\ pc' # "crashed"
  BY <1>1, <1>2, WalkStep
<1>3. Matching /\ ~matched
  BY <1>1 DEF WalkInv, Matching
<1>4. PICK n, o, p : n = cur /\ o = OptionAt(n) /\ p = ParamAt(n)
  OBVIOUS
<1>5. /\ n \in 1..(argc - 1) /\ n \in 1..argc /\ IsOption(n) /\ Walked(n)
      /\ matched' = TRUE /\ Matches' = {} /\ ~Deviates(n)
      /\ IF o.type \in {"HELP", "VERSION"} THEN pc' = "exited" /\ UNCHANGED result
         ELSE IF Accepts(o, p) THEN UNCHANGED <<pc, result>> ELSE Returns("error")
  BY <1>3, <1>4, ProcessFacts DEF Matching, Between, Walked
<1>6. \A v \in OutVar : outs'[v] = MeantBy(v, WritersIn(v, 1..n))
  BY <1>3, <1>4, ProcessStores
<1>7. CASE o.type \in {"HELP", "VERSION"}
  <2>1. Halts(n) /\ ~Refused(n)
    BY <1>4, <1>5, <1>7 DEF Halts, Refused, IsOption
  <2>2. StoppedAt(n)'
    BY <1>1, <1>5, <1>6, <1>7, <2>1, StopsAtOption
  <2>3. (\E i \in 1..argc : StoppedAt(i))'
    BY <1>1, <1>5, <2>2, WalkStops
  <2> QED
    BY <1>5, <1>7, <2>3
<1>8. CASE o.type \notin {"HELP", "VERSION"} /\ ~Accepts(o, p)
  <2>1. Refused(n) /\ Halts(n)
    BY <1>4, <1>5, <1>8 DEF Halts, Refused
  <2>2. pc' = "caller" /\ result' = "error"
    BY <1>5, <1>8 DEF Returns
  <2>3. StoppedAt(n)'
    BY <1>1, <1>5, <1>6, <2>1, <2>2, StopsAtOption
  <2>4. (\E i \in 1..argc : StoppedAt(i))'
    BY <1>1, <1>5, <2>3, WalkStops
  <2> QED
    BY <2>2, <2>4
<1>9. CASE o.type \notin {"HELP", "VERSION"} /\ Accepts(o, p)
  <2>1. pc' = "match"
    BY <1>1, <1>5, <1>9
  <2>2. Between(Here)'
    BY <1>3, <1>4, <1>9, GoesOn
  <2> QED
    BY <1>5, <2>1, <2>2 DEF Matching
<1> QED
  BY <1>7, <1>8, <1>9

LEMMA WalkInit == Init => WalkInv
<1> SUFFICES ASSUME Init PROVE WalkInv
  OBVIOUS
<1>1. ParserTypes
  BY TypesInit
<1>2. DOMAIN outs = OutVar /\ outs = [v \in OutVar |-> InitialValue(table, v)]
  BY DEF Init
<1>3. ASSUME Plain PROVE optind = 1 /\ Walked(1)
  <2>1. optind = 1 /\ 1 \in 1..argc
    BY <1>1, <1>3 DEF Init, Plain, ParserTypes, argc
  <2>2. ASSUME NEW v \in OutVar PROVE outs[v] = MeantBy(v, WritersIn(v, 1..0))
    <3>1. WritersIn(v, 1..0) = {}
      BY DEF WritersIn
    <3> QED
      BY <1>2, <3>1 DEF MeantBy
  <2> QED
    BY <2>1, <2>2 DEF Walked
<1> QED
  BY <1>2, <1>3 DEF WalkInv, Init

LEMMA WalkInvStep == ParserTypes /\ WalkInv /\ [Next]_vars => WalkInv'
<1> SUFFICES ASSUME ParserTypes, WalkInv, [Next]_vars PROVE WalkInv'
  OBVIOUS
<1>1. CASE UNCHANGED vars
  <2>1. /\ UNCHANGED <<fixed, outs>> /\ optind' = optind /\ cur' = cur /\ j' = j
        /\ matched' = matched /\ pc' = pc /\ result' = result /\ calls' = calls
        /\ table' = table /\ lenient' = lenient /\ argv' = argv /\ start' = start
    BY <1>1 DEF vars, fixed
  <2>2. DOMAIN outs' = OutVar' /\ outs' = [v \in OutVar' |-> outs'[v]] /\ (Plain' <=> Plain)
    BY <2>1, OutsKept, FixedMeaning
  <2>3. ASSUME Plain, calls = 0 PROVE optind' = 1 /\ Walked(1)'
    BY <2>1, <2>3, WalkedKept DEF WalkInv
  <2>4. ASSUME NEW n, n = Here, Between(n) PROVE Between(Here)'
    <3>1. Here' = n
      BY <2>1, <2>4, FixedMeaning DEF Here
    <3> QED
      BY <2>1, <2>4, <3>1, WalkedKept, BetweenOf
  <2>5. ASSUME Matching PROVE Matching'
    <3>1. CASE matched
      <4>1. Matches' = {}
        BY <2>1, <2>5, <3>1 DEF Matching, Matches, Groups, At
      <4> QED
        BY <2>1, <2>4, <2>5, <3>1, <4>1 DEF Matching
    <3>2. CASE ~matched
      <4>1. PICK n : n = cur
        OBVIOUS
      <4>2. Between(n)'
        BY <2>1, <2>5, <3>2, <4>1, WalkedKept DEF Matching
      <4>3. Between(cur)'
        BY <2>1, <4>1, <4>2 DEF Between, Walked, IsParam, IsOption, OptionAt, At, argc
      <4> QED
        BY <2>1, <2>5, <3>2, <4>3 DEF Matching, At, argc
    <3> QED
      BY <3>1, <3>2
  <2>6. ASSUME NEW n \in 1..argc, StoppedAt(n) PROVE (\E i \in 1..argc : StoppedAt(i))'
    <3>1. StoppedAt(n)'
      <4>1. \A v \in OutVar' :
              outs'[v] = MeantBy(v, WritersIn(v, 1..n \cap 1..(argc - 1)))'
        BY <2>1, <2>6, FixedMeaning, MeansTheSame DEF StoppedAt
      <4> QED
        BY <2>1, <2>6, <4>1, FixedMeaning DEF StoppedAt
    <3> QED
      BY <2>1, <3>1, WalkStops
  <2> QED
    BY <2>1, <2>2, <2>3, <2>4, <2>5, <2>6 DEF WalkInv
<1> QED
  BY <1>1, WalkCall, WalkEnds, WalkTakes, WalkProcesses, WalkUnknown, WalkKnown
     DEF Next, Step

\* The walk is over where the line says that it must be.
LEMMA StopsAtIs ==
  ASSUME ParserTypes, Plain, NEW n \in 1..argc, StoppedAt(n)
  PROVE  StopsAt = n
<1>1. start = 1 /\ argc \in Nat /\ n \in Nat
  BY DEF Plain, ParserTypes, argc
<1> DEFINE S == {argc} \cup {i \in start..(argc - 1) : Halts(i)}
<1>2. n \in S
  BY <1>1 DEF StoppedAt
<1>3. \A i \in S : i \in Nat /\ n <= i
  BY <1>1 DEF StoppedAt
<1> HIDE DEF S
<1>4. Min(S) = n
  BY <1>2, <1>3, MinIs
<1> QED
  BY <1>4 DEF StopsAt, S

\* When the first call is over, the variables, the result and optind are what
\* the command line says when it is read without walking: which words are
\* parameters and which entry ends the options is decided by the neighbours
\* of an entry and not by the way the parser came there (ae_opt_process).
THEOREM LineIsParsedAsMeant == Spec => []ParsesAsMeant
<1>1. Init => ParserTypes /\ WalkInv
  BY TypesInit, WalkInit
<1>2. ParserTypes /\ WalkInv /\ [Next]_vars => (ParserTypes /\ WalkInv)'
  BY TypesStep, WalkInvStep
<1>3. ParserTypes /\ WalkInv => ParsesAsMeant
  <2> SUFFICES ASSUME ParserTypes, WalkInv, Plain, calls = 1,
                      pc \in {"caller", "exited", "crashed"}
               PROVE  /\ \A v \in OutVar : outs[v] = Meant(v)
                      /\ pc = "exited" <=> /\ StopsAt < argc /\ IsOption(StopsAt)
                                           /\ ~Refused(StopsAt)
                      /\ pc = "caller" =>
                           /\ result = "error" <=> StopsAt < argc /\ Refused(StopsAt)
                           /\ StopsAt < argc /\ At(StopsAt).kind = "end" => optind = StopsAt + 1
                           /\ StopsAt < argc /\ At(StopsAt).kind = "word" => optind = StopsAt
                           /\ StopsAt = argc => optind >= argc
                      /\ pc # "crashed"
    BY DEF ParsesAsMeant
  <2>1. pc # "crashed"
    BY DEF WalkInv
  <2>2. PICK n \in 1..argc : StoppedAt(n)
    BY <2>1 DEF WalkInv
  <2>3. StopsAt = n /\ start = 1
    BY <2>2, StopsAtIs DEF Plain
  <2>4. \A v \in OutVar : outs[v] = Meant(v)
    BY <2>2, <2>3 DEF StoppedAt, Meant
  <2> QED
    BY <2>1, <2>2, <2>3, <2>4 DEF StoppedAt
<1> QED
  BY <1>1, <1>2, <1>3, PTL DEF Spec

----------------------------------------------------------------------------
(* The bounds of the walk, and why it ends. *)

\* Each option of the table moves optind once for the entry that is being
\* processed.
BoundsInv ==
  /\ ParserTypes
  /\ cur \in 0..(argc - 1) /\ j \in 0..Len(table) /\ matched \in BOOLEAN
  /\ result \in {"none", "ok", "error"} /\ calls \in 0..MaxCalls
  /\ used \subseteq 0..(argc - 1)
  /\ optind <= start \/ optind <= argc + Len(table)
  /\ pc = "match" => optind <= argc + j

LEMMA LeastOf ==
  ASSUME NEW S \in SUBSET Nat, S # {}
  PROVE  Min(S) \in S
<1>1. IsWellFoundedOn({p \in Nat \X Nat : p[1] < p[2]}, Nat)
  BY NatLessThanWellFounded DEF OpToRel
<1>2. PICK x \in S : \A y \in S : ~(<<y, x>> \in {p \in Nat \X Nat : p[1] < p[2]})
  BY <1>1, WFMin
<1>3. ASSUME NEW y \in S, y < x PROVE FALSE
  <2>1. <<y, x>> \in {p \in Nat \X Nat : p[1] < p[2]}
    BY <1>3
  <2> QED
    BY <1>2, <2>1
<1>5. \A y \in S : x <= y
  BY <1>3
<1>4. Min(S) = x
  BY <1>5, MinIs
<1> QED
  BY <1>4

\* The numbers of a state that fits its types.
LEMMA Numbered ==
  ASSUME ParserTypes
  PROVE  /\ argc \in Nat /\ argc >= 1 /\ Len(table) \in Nat /\ DOMAIN table = 1..Len(table)
         /\ start \in Nat /\ optind \in Nat /\ cur \in Nat
BY OptAssumption DEF ParserTypes, argc

\* A match is later in the table than the one before it.
LEMMA MatchIsLater ==
  ASSUME ParserTypes, j \in 0..Len(table), ProcessOption
  PROVE  j' \in (j + 1)..Len(table) /\ optind' \in {optind, optind + 1}
<1>1. DOMAIN table = 1..Len(table) /\ Len(table) \in Nat
  BY Numbered
<1>2. Matches # {} /\ \A k \in Matches : k \in 1..Len(table) /\ k > j
  BY <1>1 DEF ProcessOption, Matches
<1>3. Min(Matches) \in Matches
  <2>1. Matches \in SUBSET Nat
    BY <1>1, <1>2
  <2> QED
    BY <1>2, <2>1, LeastOf
<1>4. PICK k : k = Min(Matches)
  OBVIOUS
<1>5. k \in 1..Len(table) /\ k > j
  BY <1>2, <1>3, <1>4
<1>6. j' = k /\ optind' \in {optind, optind + 1}
  BY <1>4 DEF ProcessOption, Consumes
<1>7. PICK l : l = Len(table)
  OBVIOUS
<1>8. k \in (j + 1)..l
  BY <1>1, <1>5, <1>7
<1> QED
  BY <1>6, <1>7, <1>8

LEMMA BoundsInit == Init => BoundsInv
<1> SUFFICES ASSUME Init PROVE BoundsInv
  OBVIOUS
<1>1. ParserTypes
  BY TypesInit
<1>2. /\ argc \in Nat /\ argc >= 1 /\ Len(table) \in Nat /\ optind = start /\ cur = 0 /\ j = 0
      /\ matched = FALSE /\ result = "none" /\ calls = 0 /\ used = {} /\ pc = "caller"
      /\ MaxCalls \in Nat /\ start \in Nat
  BY <1>1, Numbered, OptAssumption DEF Init
<1>3. cur \in 0..(argc - 1) /\ j \in 0..Len(table) /\ calls \in 0..MaxCalls
  BY <1>2
<1>4. matched \in BOOLEAN /\ result \in {"none", "ok", "error"} /\ pc # "match"
  BY <1>2
<1>5. used \subseteq 0..(argc - 1) /\ optind <= start
  BY <1>2
<1> QED
  BY <1>1, <1>3, <1>4, <1>5 DEF BoundsInv

LEMMA BoundsStep == BoundsInv /\ [Next]_vars => BoundsInv'
<1> SUFFICES ASSUME BoundsInv, [Next]_vars PROVE BoundsInv'
  OBVIOUS
<1>0. PICK a, l : a = argc /\ l = Len(table)
  OBVIOUS
<1>1. /\ a \in Nat /\ a >= 1 /\ l \in Nat /\ start \in Nat /\ optind \in Nat
      /\ cur \in 0..(a - 1) /\ j \in 0..l /\ matched \in BOOLEAN
      /\ result \in {"none", "ok", "error"} /\ calls \in 0..MaxCalls /\ MaxCalls \in Nat
      /\ used \subseteq 0..(a - 1)
      /\ optind <= start \/ optind <= a + l
      /\ pc = "match" => optind <= a + j
  BY <1>0, Numbered, OptAssumption DEF BoundsInv
<1>2. ParserTypes'
  BY TypesStep DEF BoundsInv
<1>3. argc' = a /\ Len(table)' = l /\ start' = start
  BY <1>0 DEF vars, fixed, argc, Next, Step, Call, EndOfArguments, EndMarker, StopAtWord,
              TakeArgument, ProcessOption, Unknown, Known
<1> SUFFICES /\ cur' \in 0..(a - 1) /\ j' \in 0..l /\ matched' \in BOOLEAN
             /\ result' \in {"none", "ok", "error"} /\ calls' \in 0..MaxCalls
             /\ used' \subseteq 0..(a - 1)
             /\ optind' <= start \/ optind' <= a + l
             /\ pc' = "match" => optind' <= a + j'
  BY <1>2, <1>3 DEF BoundsInv
<1>4. CASE UNCHANGED vars
  BY <1>1, <1>4 DEF vars
<1>5. CASE Call
  <2>1. UNCHANGED <<optind, cur, j, matched, used>> /\ calls' = calls + 1 /\ calls < MaxCalls
        /\ result' \in {"error", "none"} /\ pc' # "match"
    BY <1>5 DEF Call, Returns
  <2> QED
    BY <1>1, <2>1
<1>6. CASE EndOfArguments \/ StopAtWord \/ Unknown \/ Known
  <2>1. UNCHANGED <<optind, cur, j, matched, used, calls>> /\ pc' # "match"
        /\ result' \in {result, "ok", "error"}
    BY <1>6 DEF EndOfArguments, StopAtWord, Unknown, Known, Returns
  <2> QED
    BY <1>1, <2>1
<1>7. CASE EndMarker \/ TakeArgument
  <2>1. /\ calls' = calls /\ optind' = optind + 1 /\ used' = used \cup {optind} /\ optind < a
        /\ cur' \in {cur, optind} /\ j' \in {j, 0} /\ matched' \in {matched, FALSE}
        /\ result' \in {result, "ok"} /\ (pc' = "match" => j' = 0)
    BY <1>0, <1>7 DEF EndMarker, TakeArgument, Returns
  <2>2. optind \in 0..(a - 1) /\ optind' <= a
    BY <1>1, <2>1
  <2>3. cur' \in 0..(a - 1) /\ used' \subseteq 0..(a - 1) /\ j' \in 0..l
    BY <1>1, <2>1, <2>2
  <2>4. matched' \in BOOLEAN /\ result' \in {"none", "ok", "error"}
    BY <1>1, <2>1
  <2>5. (optind' <= a + l) /\ (pc' = "match" => optind' <= a + j')
    <3>1. PICK i \in Nat : i = optind'
      BY <1>1, <2>1
    <3>2. a \in Nat /\ l \in Nat /\ i <= a
      BY <1>1, <2>2, <3>1
    <3>3. i <= a + l /\ i <= a + 0
      BY <3>2
    <3>4. pc' = "match" => j' = 0
      BY <2>1
    <3> QED
      BY <3>1, <3>3, <3>4
  <2> QED
    BY <1>1, <2>1, <2>3, <2>4, <2>5
<1>8. CASE ProcessOption
  <2>1. j' \in (j + 1)..l /\ optind' \in {optind, optind + 1} /\ pc = "match"
    BY <1>0, <1>8, MatchIsLater DEF BoundsInv, ProcessOption
  <2>2. UNCHANGED <<cur, calls>> /\ matched' = TRUE /\ result' \in {result, "error"}
    BY <1>8 DEF ProcessOption, Returns
  <2>3. used' \subseteq 0..(a - 1)
    <3>1. used' = used \/ (used' = used \cup {optind} /\ Param # None /\ At(cur).eq = None)
      <4>1. PICK o : Consumes(o)
        BY <1>8 DEF ProcessOption
      <4> QED
        BY <4>1 DEF Consumes
    <3>2. Param # None /\ At(cur).eq = None => optind < a
      BY <1>0 DEF Param, NextWord
    <3>3. optind < a => optind \in 0..(a - 1)
      BY <1>1
    <3>4. used \subseteq 0..(a - 1)
      BY <1>1
    <3> QED
      BY <3>1, <3>2, <3>3, <3>4
  <2>4. j' \in 0..l /\ optind' <= a + j' /\ optind' <= a + l
    <3>1. PICK k, i : k = j' /\ i = optind'
      OBVIOUS
    <3>2. k \in (j + 1)..l /\ (i = optind \/ i = optind + 1) /\ optind <= a + j
      BY <1>1, <2>1, <3>1
    <3>3. a \in Nat /\ l \in Nat /\ j \in Nat /\ optind \in Nat
      BY <1>1
    <3>4. k \in 0..l /\ i <= a + k /\ i <= a + l
      BY <3>2, <3>3
    <3> QED
      BY <3>1, <3>4
  <2> QED
    BY <1>1, <2>1, <2>2, <2>3, <2>4
<1> QED
  BY <1>4, <1>5, <1>6, <1>7, <1>8 DEF Next, Step

\* The types of the parser: optind passes the end of the command line by at
\* most one entry for every option of the table, unless the caller left more
\* in it (ae_opt_option_process moves it without a look at argc).
THEOREM ParserTypeCorrect == Spec => []TypeOK
<1>1. BoundsInv => TypeOK
  <2> SUFFICES ASSUME BoundsInv PROVE TypeOK
    OBVIOUS
  <2>1. /\ argc \in Nat /\ Len(table) \in Nat /\ start \in Nat /\ optind \in Nat
        /\ DOMAIN table = 1..Len(table)
    BY Numbered DEF BoundsInv
  <2>2. Cardinality(DOMAIN table) = Len(table)
    <3>1. PICK l \in Nat : l = Len(table)
      BY <2>1
    <3>2. Cardinality(1..l) = l
      BY FS_Interval
    <3> QED
      BY <2>1, <3>1, <3>2
  <2>3. optind \in 0..Max({start, argc + Len(table)})
    <3> DEFINE m == IF start <= argc + Len(table) THEN argc + Len(table) ELSE start
    <3>1. m \in {start, argc + Len(table)} /\ \A y \in {start, argc + Len(table)} : y <= m
      BY <2>1
    <3>2. m \in Nat /\ optind <= m
      BY <2>1 DEF BoundsInv
    <3> HIDE DEF m
    <3>3. Max({start, argc + Len(table)}) = m
      BY <2>1, <3>1, MaxIs
    <3> QED
      BY <2>1, <3>2, <3>3
  <2> QED
    BY <2>2, <2>3 DEF BoundsInv, ParserTypes, TypeOK
<1> QED
  BY <1>1, BoundsInit, BoundsStep, PTL DEF Spec

\* What is left to do: entries to take, and table entries to try on this one.
EntriesLeft == IF optind < argc THEN argc - optind ELSE 0
TableLeft   == IF pc = "match" THEN (Len(table) - j) + 2 ELSE IF pc = "next" THEN 1 ELSE 0

NearerTheEnd ==
  /\ EntriesLeft \in Nat /\ TableLeft \in Nat
  /\ \/ EntriesLeft' < EntriesLeft
     \/ EntriesLeft' = EntriesLeft /\ TableLeft' < TableLeft

\* Every step of ae_opt_process leaves less to do, for every table and line,
\* whatever the callbacks answer: the walk cannot go round in circles.
THEOREM WalkComesNearer == Spec => [][Step => NearerTheEnd]_vars
<1>1. BoundsInv /\ Step => NearerTheEnd
  <2> SUFFICES ASSUME BoundsInv, Step PROVE NearerTheEnd
    OBVIOUS
  <2>1. /\ argc \in Nat /\ Len(table) \in Nat /\ optind \in Nat /\ j \in 0..Len(table)
        /\ argc' = argc /\ table' = table
    <3>1. UNCHANGED fixed
      BY DEF Step, EndOfArguments, EndMarker, StopAtWord, TakeArgument, ProcessOption,
             Unknown, Known
    <3> QED
      BY <3>1, Numbered DEF BoundsInv, fixed, argc
  <2>2. EntriesLeft \in Nat /\ TableLeft \in Nat
    BY <2>1 DEF EntriesLeft, TableLeft
  <2>3. CASE EndOfArguments \/ StopAtWord
    <3>1. pc = "next" /\ pc' = "caller" /\ optind' = optind
      BY <2>3 DEF EndOfArguments, StopAtWord, Returns
    <3> QED
      BY <2>1, <2>2, <3>1 DEF NearerTheEnd, EntriesLeft, TableLeft
  <2>4. CASE EndMarker \/ TakeArgument
    <3>1. optind < argc /\ optind' = optind + 1
      BY <2>4 DEF EndMarker, TakeArgument
    <3> QED
      BY <2>1, <2>2, <3>1 DEF NearerTheEnd, EntriesLeft
  <2>5. CASE ProcessOption
    <3>1. j' \in (j + 1)..Len(table) /\ optind' \in {optind, optind + 1} /\ pc = "match"
      BY <2>1, <2>5, MatchIsLater DEF BoundsInv, ProcessOption
    <3>2. EntriesLeft' <= EntriesLeft /\ EntriesLeft' \in Nat
      <4>1. PICK a \in Nat : a = argc
        BY <2>1
      <4>2. EntriesLeft' = (IF optind' < a THEN a - optind' ELSE 0)
            /\ EntriesLeft = (IF optind < a THEN a - optind ELSE 0)
        BY <2>1, <4>1 DEF EntriesLeft
      <4>3. PICK i : i = optind'
        OBVIOUS
      <4>4. (i = optind \/ i = optind + 1) /\ optind \in Nat
        BY <2>1, <3>1, <4>3
      <4>5. (IF i < a THEN a - i ELSE 0) <= (IF optind < a THEN a - optind ELSE 0)
            /\ (IF i < a THEN a - i ELSE 0) \in Nat
        BY <4>1, <4>4
      <4> QED
        BY <4>2, <4>3, <4>5
    <3>3. TableLeft' < TableLeft
      BY <2>1, <3>1 DEF TableLeft
    <3> QED
      BY <2>2, <3>2, <3>3 DEF NearerTheEnd
  <2>6. CASE Unknown \/ Known
    <3>1. pc = "match" /\ pc' # "match" /\ optind' = optind
      BY <2>6 DEF Unknown, Known, Returns
    <3> QED
      BY <2>1, <2>2, <3>1 DEF NearerTheEnd, EntriesLeft, TableLeft
  <2> QED
    BY <2>3, <2>4, <2>5, <2>6 DEF Step
<1> QED
  BY <1>1, BoundsInit, BoundsStep, PTL DEF Spec

----------------------------------------------------------------------------
(* No entry is lost. *)

\* The rows tried so far that take the parameter of the option in hand.
Tried(m) == {k \in Takers(At(cur).name) : k <= m}

\* The entry in hand was used, and nothing behind it if its parameter is
\* after "=": for that the rows tried have moved optind, each by one at most.
CurrentInv ==
  pc = "match" =>
    /\ cur \in used /\ cur < optind
    /\ At(cur).kind = "option" /\ At(cur).eq # None =>
         /\ (cur + 1)..(optind - 1) \cap used = {}
         /\ optind <= (cur + 1) + Cardinality(Tried(j))

UsedInv == \A u \in used : u < optind

AccountedInv == BoundsInv /\ CurrentInv /\ UsedInv /\ EntriesAccounted

\* Entries stay accounted for when the next one is used, or skipped.
LEMMA OneMoreAccounted ==
  ASSUME BoundsInv, EntriesAccounted, UNCHANGED fixed,
         optind' = optind \/ optind' = optind + 1,
         used' = used \/ used' = used \cup {optind},
         optind' = optind + 1 =>
           optind \in used' \/ (used' = used /\ \E k \in used : SkippedBehind(k, optind))
  PROVE  EntriesAccounted'
<1>1. argv' = argv /\ start' = start /\ table' = table /\ start \in Nat /\ optind \in Nat
  BY DEF fixed, BoundsInv, ParserTypes
<1>2. argc' = argc /\ \A i : At(i)' = At(i)
  BY <1>1 DEF argc, At
<1>3. \A n : Takers(n)' = Takers(n)
  BY <1>1 DEF Takers, Named, Groups
<1>4. ASSUME NEW k \in used, NEW i \in Nat, SkippedBehind(k, i), i < optind \/ used' = used
      PROVE  SkippedBehind(k, i)'
  <2>1. (k + 1)..i \cap used' = {}
    <3>1. (k + 1)..i \cap used = {}
      BY <1>4 DEF SkippedBehind
    <3>2. k \in Nat
      BY <1>4 DEF BoundsInv
    <3>3. i < optind => optind \notin (k + 1)..i
      BY <1>1, <3>2
    <3> QED
      BY <1>4, <3>1, <3>3
  <2> QED
    BY <1>2, <1>3, <1>4, <2>1 DEF SkippedBehind
<1> SUFFICES ASSUME NEW i \in start..(optind' - 1) \cap 0..(argc - 1)
             PROVE  i \in used' \/ \E k \in used' : SkippedBehind(k, i)'
  BY <1>1, <1>2 DEF EntriesAccounted
<1>5. i \in Nat /\ used \subseteq used'
  BY <1>1
<1>6. CASE i \in start..(optind - 1)
  <2>1. i < optind
    BY <1>1, <1>6
  <2>2. i \in used \/ \E k \in used : SkippedBehind(k, i)
    BY <1>6 DEF EntriesAccounted
  <2> QED
    BY <1>4, <1>5, <2>1, <2>2
<1>7. CASE i = optind /\ optind' = optind + 1
  BY <1>4, <1>5, <1>7
<1> QED
  BY <1>1, <1>6, <1>7

\* A row that takes the parameter is one more of those tried, and all of them
\* are among the rows of that name.
LEMMA OneMoreTried ==
  ASSUME BoundsInv, NEW k \in Takers(At(cur).name), k > j
  PROVE  /\ Cardinality(Tried(j)) \in Nat /\ Cardinality(Tried(k)) \in Nat
         /\ Cardinality(Tried(j)) + 1 <= Cardinality(Tried(k))
         /\ Cardinality(Takers(At(cur).name)) \in Nat
         /\ Cardinality(Tried(k)) <= Cardinality(Takers(At(cur).name))
<1>1. DOMAIN table = 1..Len(table) /\ Len(table) \in Nat /\ j \in Nat
  BY Numbered DEF BoundsInv
<1>2. Takers(At(cur).name) \subseteq 1..Len(table) /\ k \in Nat
  BY <1>1 DEF Takers, Named
<1>3. IsFiniteSet(Takers(At(cur).name))
  <2>1. IsFiniteSet(1..Len(table))
    BY <1>1, FS_Interval
  <2> QED
    BY <1>2, <2>1, FS_Subset
<1>4. Tried(j) \cup {k} \subseteq Tried(k) /\ k \notin Tried(j)
  <2>1. \A r \in Tried(j) : r \in Nat /\ r <= j
    BY <1>2 DEF Tried
  <2> QED
    BY <1>1, <1>2, <2>1 DEF Tried
<1>5. Tried(k) \subseteq Takers(At(cur).name) /\ Tried(j) \subseteq Takers(At(cur).name)
  BY DEF Tried
<1>6. IsFiniteSet(Tried(j)) /\ IsFiniteSet(Tried(k))
  BY <1>3, <1>5, FS_Subset
<1>7. Cardinality(Tried(j) \cup {k}) = Cardinality(Tried(j)) + 1
  BY <1>4, <1>6, FS_AddElement
<1>8. Cardinality(Tried(j) \cup {k}) <= Cardinality(Tried(k))
  BY <1>4, <1>6, FS_Subset
<1> QED
  BY <1>3, <1>5, <1>6, <1>7, <1>8, FS_Subset, FS_CardinalityType

\* More rows tried are no fewer.
LEMMA TriedGrows ==
  ASSUME BoundsInv, NEW k \in DOMAIN table, k > j
  PROVE  /\ Cardinality(Tried(j)) \in Nat /\ Cardinality(Tried(k)) \in Nat
         /\ Cardinality(Tried(j)) <= Cardinality(Tried(k))
<1>1. DOMAIN table = 1..Len(table) /\ Len(table) \in Nat /\ j \in Nat
  BY Numbered DEF BoundsInv
<1>2. Takers(At(cur).name) \subseteq 1..Len(table) /\ k \in Nat
  BY <1>1 DEF Takers, Named
<1>3. IsFiniteSet(Takers(At(cur).name))
  <2>1. IsFiniteSet(1..Len(table))
    BY <1>1, FS_Interval
  <2> QED
    BY <1>2, <2>1, FS_Subset
<1>4. Tried(j) \subseteq Tried(k) /\ Tried(k) \subseteq Takers(At(cur).name)
  <2>1. \A r \in Takers(At(cur).name) : r \in Nat
    BY <1>2
  <2> QED
    BY <1>1, <1>2, <2>1 DEF Tried
<1>5. IsFiniteSet(Tried(k)) /\ IsFiniteSet(Tried(j))
  BY <1>3, <1>4, FS_Subset
<1> QED
  BY <1>4, <1>5, FS_Subset, FS_CardinalityType

LEMMA AccountedStep == AccountedInv /\ [Next]_vars => AccountedInv'
<1> SUFFICES ASSUME AccountedInv, [Next]_vars PROVE AccountedInv'
  OBVIOUS
<1>1. /\ BoundsInv /\ CurrentInv /\ UsedInv /\ EntriesAccounted
      /\ optind \in Nat /\ cur \in Nat /\ used \subseteq Nat /\ j \in Nat /\ argc \in Nat
  BY Numbered DEF AccountedInv, BoundsInv
<1>2. BoundsInv'
  BY <1>1, BoundsStep
<1>3. ASSUME UNCHANGED <<fixed, optind, used>>,
             pc' = "match" => pc = "match" /\ cur' = cur /\ j' = j
      PROVE  AccountedInv'
  <2>1. CurrentInv'
    <3> SUFFICES ASSUME pc' = "match"
                 PROVE  /\ cur' \in used' /\ cur' < optind'
                        /\ At(cur)'.kind = "option" /\ At(cur)'.eq # None =>
                             /\ (cur' + 1)..(optind' - 1) \cap used' = {}
                             /\ optind' <= (cur' + 1) + Cardinality(Tried(j))'
      BY DEF CurrentInv
    <3>1. At(cur)' = At(cur) /\ Tried(j)' = Tried(j) /\ cur' = cur /\ pc = "match"
      BY <1>3 DEF Tried, Takers, Named, Groups, At, fixed
    <3>2. Cardinality(Tried(j))' = Cardinality(Tried(j))
      BY <3>1
    <3> QED
      BY <1>1, <1>3, <3>1, <3>2 DEF CurrentInv
  <2>2. EntriesAccounted'
    BY <1>1, <1>3, OneMoreAccounted
  <2>3. UsedInv'
    BY <1>1, <1>3 DEF UsedInv
  <2> QED
    BY <1>2, <2>1, <2>2, <2>3 DEF AccountedInv
<1>4. CASE UNCHANGED vars
  BY <1>3, <1>4 DEF vars, fixed
<1>5. CASE Call \/ EndOfArguments \/ StopAtWord \/ Unknown \/ Known
  <2>1. UNCHANGED <<fixed, optind, used>> /\ cur' = cur /\ j' = j
    BY <1>5 DEF Call, EndOfArguments, StopAtWord, Unknown, Known
  <2>2. pc' = "match" => pc = "match"
    BY <1>5 DEF Call, EndOfArguments, StopAtWord, Unknown, Known, Returns
  <2> QED
    BY <1>3, <2>1, <2>2
<1>6. CASE EndMarker \/ TakeArgument
  <2>1. /\ UNCHANGED fixed /\ optind' = optind + 1 /\ used' = used \cup {optind}
        /\ pc' = "match" => cur' = optind
    BY <1>6 DEF EndMarker, TakeArgument, Returns
  <2>2. UsedInv'
    BY <1>1, <2>1 DEF UsedInv
  <2>3. CurrentInv'
    <3> SUFFICES ASSUME pc' = "match"
                 PROVE  /\ cur' \in used' /\ cur' < optind'
                        /\ (cur' + 1)..(optind' - 1) \cap used' = {}
                        /\ optind' <= (cur' + 1) + Cardinality(Tried(j))'
      BY DEF CurrentInv
    <3>1. cur' \in used' /\ cur' < optind' /\ (cur' + 1)..(optind' - 1) = {}
          /\ optind' = cur' + 1 /\ cur' \in Nat
      BY <1>1, <2>1
    <3>2. Cardinality(Tried(j)') \in Nat
      <4>1. DOMAIN table = 1..Len(table) /\ Len(table) \in Nat /\ table' = table
        BY <1>1, <2>1, Numbered DEF fixed, BoundsInv
      <4>2. Tried(j)' \subseteq 1..Len(table)
        BY <4>1 DEF Tried, Takers, Named
      <4>3. IsFiniteSet(1..Len(table))
        BY <4>1, FS_Interval
      <4>4. IsFiniteSet(Tried(j)')
        BY <4>2, <4>3, FS_Subset
      <4> QED
        BY <4>4, FS_CardinalityType
    <3>3. Cardinality(Tried(j))' = Cardinality(Tried(j)')
      OBVIOUS
    <3>4. PICK c \in Nat : c = Cardinality(Tried(j))'
      BY <3>2, <3>3
    <3>5. PICK x \in Nat : x = cur' /\ optind' = x + 1
      BY <3>1
    <3>6. x + 1 <= (x + 1) + c
      BY <3>4
    <3>7. optind' <= (cur' + 1) + Cardinality(Tried(j))'
      BY <3>4, <3>5, <3>6
    <3> QED
      BY <3>1, <3>7
  <2>4. EntriesAccounted'
    BY <1>1, <2>1, OneMoreAccounted
  <2> QED
    BY <1>2, <2>2, <2>3, <2>4 DEF AccountedInv
<1>7. CASE ProcessOption
  <2>1. PICK k : k = j' /\ Consumes(table[k]) /\ k = Min(Matches)
    BY <1>7 DEF ProcessOption
  <2>2. /\ UNCHANGED fixed /\ cur' = cur /\ cur \in used /\ cur < optind
        /\ At(cur).kind = "option" /\ pc = "match"
    BY <1>1, <1>7 DEF ProcessOption, CurrentInv, Matches
  <2>3. k \in Matches /\ k \in DOMAIN table /\ k > j /\ k \in Named(At(cur).name) /\ k \in Nat
    <3>1. DOMAIN table = 1..Len(table) /\ Len(table) \in Nat
      BY <1>1, Numbered DEF BoundsInv
    <3>2. Matches \in SUBSET Nat /\ Matches # {}
      BY <1>7, <3>1 DEF Matches, ProcessOption
    <3>3. k \in Matches
      BY <2>1, <3>2, LeastOf
    <3> QED
      BY <2>2, <3>2, <3>3 DEF Matches, Named
  <2>4. At(cur)' = At(cur) /\ Tried(j)' = Tried(k)
    BY <2>1, <2>2 DEF At, fixed, Tried, Takers, Named, Groups
  <2>5. Cardinality(Tried(j))' = Cardinality(Tried(k))
    BY <2>4
  <2>6. CASE At(cur).eq = None
    <3>1. UNCHANGED <<optind, used>> \/ (optind' = optind + 1 /\ used' = used \cup {optind})
      BY <2>1, <2>6 DEF Consumes
    <3>2. UsedInv'
      <4>1. \A u \in used' : u \in used \/ (u = optind /\ optind' = optind + 1)
        BY <3>1
      <4>2. \A u \in used : u \in Nat /\ u < optind
        BY <1>1 DEF UsedInv
      <4>3. PICK y \in Nat : y = optind' /\ y \in {optind, optind + 1}
        BY <1>1, <3>1
      <4>4. \A u \in used' : u < y
        <5>1. ASSUME NEW u \in used PROVE u < y
          BY <1>1, <4>2, <4>3
        <5>2. optind' = optind + 1 => optind < y
          BY <1>1, <4>3
        <5>3. ASSUME NEW u \in used' PROVE u < y
          BY <4>1, <5>1, <5>2, <5>3
        <5> QED
          BY <5>3
      <4> QED
        BY <4>3, <4>4 DEF UsedInv
    <3>3. CurrentInv'
      BY <1>1, <2>2, <2>4, <2>6, <3>1 DEF CurrentInv
    <3>4. EntriesAccounted'
      BY <1>1, <2>2, <3>1, OneMoreAccounted
    <3> QED
      BY <1>2, <3>2, <3>3, <3>4 DEF AccountedInv
  <2>7. CASE At(cur).eq # None /\ table[k].param = "NONE"
    <3>1. UNCHANGED <<optind, used>>
      BY <2>1, <2>7 DEF Consumes
    <3>2. UsedInv'
      BY <1>1, <3>1 DEF UsedInv
    <3>3. CurrentInv'
      <4>1. (cur + 1)..(optind - 1) \cap used = {}
            /\ optind <= (cur + 1) + Cardinality(Tried(j))
        BY <1>1, <2>2, <2>7 DEF CurrentInv
      <4>2. optind <= (cur + 1) + Cardinality(Tried(k))
        BY <1>1, <2>3, <4>1, TriedGrows
      <4> QED
        BY <2>2, <2>5, <3>1, <4>1, <4>2 DEF CurrentInv
    <3>4. EntriesAccounted'
      BY <1>1, <2>2, <3>1, OneMoreAccounted
    <3> QED
      BY <1>2, <3>2, <3>3, <3>4 DEF AccountedInv
  <2>8. CASE At(cur).eq # None /\ table[k].param # "NONE"
    <3>1. optind' = optind + 1 /\ used' = used
      BY <2>1, <2>8 DEF Consumes, Param
    <3>2. UsedInv'
      BY <1>1, <3>1 DEF UsedInv
    <3>3. (cur + 1)..(optind - 1) \cap used = {}
          /\ optind <= (cur + 1) + Cardinality(Tried(j))
      BY <1>1, <2>2, <2>8 DEF CurrentInv
    <3>4. k \in Takers(At(cur).name)
      BY <2>3, <2>8 DEF Takers
    <3>5. /\ Cardinality(Tried(j)) \in Nat /\ Cardinality(Tried(k)) \in Nat
          /\ Cardinality(Tried(j)) + 1 <= Cardinality(Tried(k))
          /\ Cardinality(Takers(At(cur).name)) \in Nat
          /\ Cardinality(Tried(k)) <= Cardinality(Takers(At(cur).name))
      BY <1>1, <2>3, <3>4, OneMoreTried
    <3>6. optind + 1 <= (cur + 1) + Cardinality(Tried(k))
          /\ optind <= cur + Cardinality(Takers(At(cur).name))
      BY <1>1, <3>3, <3>5
    <3>7. (cur + 1)..optind \cap used = {} /\ (optind + 1) - 1 = optind
      <4>1. optind \notin used
        BY <1>1 DEF UsedInv
      <4>2. \A i \in (cur + 1)..optind : i \in (cur + 1)..(optind - 1) \/ i = optind
        BY <1>1
      <4> QED
        BY <1>1, <3>3, <4>1, <4>2
    <3>8. CurrentInv'
      <4>1. cur' < optind'
        BY <1>1, <2>2, <3>1
      <4> QED
        BY <2>2, <2>5, <3>1, <3>6, <3>7, <4>1 DEF CurrentInv
    <3>9. SkippedBehind(cur, optind)
      BY <2>2, <2>8, <3>6, <3>7 DEF SkippedBehind
    <3>10. EntriesAccounted'
      BY <1>1, <2>2, <3>1, <3>9, OneMoreAccounted
    <3> QED
      BY <1>2, <3>2, <3>8, <3>10 DEF AccountedInv
  <2> QED
    BY <2>6, <2>7, <2>8
<1> QED
  BY <1>4, <1>5, <1>6, <1>7 DEF Next, Step

\* Whatever the table, the command line and the first optind are, an entry
\* that optind has passed was used, or was skipped directly behind an option
\* whose parameter is after "=", one for each row that matches this option.
THEOREM NoEntryIsLost == Spec => []EntriesAccounted
<1>1. Init => AccountedInv
  <2> SUFFICES ASSUME Init PROVE AccountedInv
    OBVIOUS
  <2>1. BoundsInv /\ start = optind /\ pc = "caller" /\ used = {} /\ start \in Nat
    BY BoundsInit, OptAssumption DEF Init
  <2>2. start..(optind - 1) = {}
    BY <2>1
  <2> QED
    BY <2>1, <2>2 DEF AccountedInv, CurrentInv, UsedInv, EntriesAccounted
<1>2. AccountedInv => EntriesAccounted
  BY DEF AccountedInv
<1> QED
  BY <1>1, <1>2, AccountedStep, PTL DEF Spec

=============================================================================
