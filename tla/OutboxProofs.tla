---------------------------- MODULE OutboxProofs ----------------------------
(***************************************************************************)
(* What the outbox marks was delivered, what was delivered twice was in    *)
(* trouble, and a summary that was sent is read whole, for any number of   *)
(* runs, bridges and notices and any finite set of reports.                *)
(*                                                                         *)
(* The first three sections are about the data: what a set of lines takes, *)
(* how a report is divided, and what a reader sees of it.  The library's   *)
(* induction theorems cannot be instantiated here, so each of their lemmas *)
(* looks at the least counterexample (LeastNatural).                       *)
(***************************************************************************)
EXTENDS Outbox, FiniteSetTheorems, SequenceTheorems, WellFoundedInduction, TLAPS

-----------------------------------------------------------------------------
(* A set of naturals has a least element. *)
LEMMA LeastNatural ==
  ASSUME NEW S \in SUBSET Nat, S # {}
  PROVE  \E n \in S : \A m \in S : n <= m
<1>. DEFINE Less == {pair \in Nat \X Nat : pair[1] < pair[2]}
<1>1. IsWellFoundedOn(Less, Nat)
  BY NatLessThanWellFounded, Zenon DEF OpToRel
<1>2. PICK n \in S : \A m \in S : <<m, n>> \notin Less
  <2>. HIDE DEF Less
  <2>. QED  BY <1>1, WFMin
<1>3. \A m \in S : ~(m < n)
  BY <1>2
<1>. QED  BY <1>3

-----------------------------------------------------------------------------
(* How much room lines take *)

Picked(lines) == CHOOSE i \in lines : TRUE

(* The sums of the sets of lines in S, up to a number of lines. *)
Sums(report, S, g) ==
  g = [s \in SUBSET S |->
         IF s = {} THEN 0
         ELSE Kept(report, Picked(s)) + g[s \ {Picked(s)}]]
Summed(report, S, g, n) ==
  \A s \in SUBSET S : Cardinality(s) <= n =>
    g[s] = IF s = {} THEN 0
           ELSE Kept(report, Picked(s)) + g[s \ {Picked(s)}]

(* A set of lines without one of them is smaller. *)
LEMMA OneLess ==
  ASSUME NEW S, IsFiniteSet(S), NEW x \in S
  PROVE  /\ IsFiniteSet(S \ {x}) /\ Cardinality(S) \in Nat
         /\ Cardinality(S \ {x}) \in Nat
         /\ Cardinality(S) = Cardinality(S \ {x}) + 1
BY FS_RemoveElement, FS_CardinalityType

LEMMA PickedIsIn ==
  ASSUME NEW S, S # {}
  PROVE  Picked(S) \in S
BY DEF Picked

(* The room of the lines of every set can be counted. *)
LEMMA SumsExist ==
  ASSUME NEW report, NEW S, IsFiniteSet(S),
         \A i \in S : Kept(report, i) \in Nat
  PROVE  \E g \in [SUBSET S -> Nat] : Sums(report, S, g)
<1>. DEFINE Count(n) == \E g \in [SUBSET S -> Nat] : Summed(report, S, g, n)
            Missing == {n \in Nat : ~Count(n)}
<1>1. \A s \in SUBSET S : IsFiniteSet(s) /\ Cardinality(s) \in Nat
  BY FS_Subset, FS_CardinalityType
<1>2. Count(0)
  <2>. DEFINE g == [s \in SUBSET S |-> 0]
  <2>1. g \in [SUBSET S -> Nat]
    OBVIOUS
  <2>2. \A s \in SUBSET S : Cardinality(s) <= 0 => s = {}
    BY <1>1, FS_EmptySet
  <2>3. Summed(report, S, g, 0)
    BY <2>2 DEF Summed
  <2>. QED  BY <2>1, <2>3
<1>3. ASSUME NEW n \in Nat, Count(n) PROVE Count(n + 1)
  <2>1. PICK g \in [SUBSET S -> Nat] : Summed(report, S, g, n)
    BY <1>3
  <2>. DEFINE Value(s) ==
                IF s = {} THEN 0
                ELSE Kept(report, Picked(s)) + g[s \ {Picked(s)}]
              h == [s \in SUBSET S |->
                       IF Cardinality(s) <= n THEN g[s] ELSE Value(s)]
  <2>2. \A s \in SUBSET S : Value(s) \in Nat
    <3>1. \A s \in SUBSET S :
             s # {} => Picked(s) \in S /\ s \ {Picked(s)} \in SUBSET S
      BY PickedIsIn
    <3>. QED  BY <3>1
  <2>3. h \in [SUBSET S -> Nat]
    BY <2>2
  <2>4. \A s \in SUBSET S : s # {} /\ Cardinality(s) <= n + 1 =>
          Cardinality(s \ {Picked(s)}) <= n
    BY <1>1, OneLess, PickedIsIn
  <2>5. ASSUME NEW s \in SUBSET S, Cardinality(s) <= n + 1
        PROVE  h[s] = IF s = {} THEN 0
                      ELSE Kept(report, Picked(s)) + h[s \ {Picked(s)}]
    <3>1. h[s] = Value(s)
      BY <2>1 DEF Summed
    <3>2. s # {} => h[s \ {Picked(s)}] = g[s \ {Picked(s)}]
      BY <2>4, <2>5
    <3>. HIDE DEF h
    <3>. QED  BY <3>1, <3>2
  <2>6. Summed(report, S, h, n + 1)
    <3>. HIDE DEF h
    <3>. QED  BY <2>5 DEF Summed
  <2>. QED  BY <2>3, <2>6
<1>. HIDE DEF Count
<1>4. Missing = {}
  <2>. SUFFICES ASSUME Missing # {} PROVE FALSE
    OBVIOUS
  <2>1. PICK n \in Missing : \A m \in Missing : n <= m
    BY LeastNatural
  <2>2. n # 0 /\ n \in Nat /\ ~Count(n)
    BY <1>2
  <2>3. n - 1 \in Nat /\ Count(n - 1)
    BY <2>1, <2>2
  <2>4. Count((n - 1) + 1)
    BY <1>3, <2>3
  <2>. QED  BY <2>2, <2>4
<1>5. Cardinality(S) \in Nat
  BY FS_CardinalityType
<1>6. PICK g \in [SUBSET S -> Nat] : Summed(report, S, g, Cardinality(S))
  BY <1>4, <1>5 DEF Count
<1>7. \A s \in SUBSET S : Cardinality(s) <= Cardinality(S)
  BY FS_Subset
<1>8. Sums(report, S, g)
  BY <1>6, <1>7 DEF Sums, Summed
<1>. QED  BY <1>8

(* Two counts agree on the sets that both of them count. *)
LEMMA SumsAgree ==
  ASSUME NEW report, NEW S, NEW T, IsFiniteSet(S), T \subseteq S,
         NEW f, Sums(report, S, f), NEW g, Sums(report, T, g)
  PROVE  \A s \in SUBSET T : f[s] = g[s]
<1>. DEFINE Differ == {n \in Nat : \E s \in SUBSET T :
                         Cardinality(s) = n /\ f[s] # g[s]}
<1>1. \A s \in SUBSET T : IsFiniteSet(s) /\ Cardinality(s) \in Nat
  BY FS_Subset, FS_CardinalityType
<1>2. Differ = {}
  <2>. SUFFICES ASSUME Differ # {} PROVE FALSE
    OBVIOUS
  <2>1. PICK n \in Differ : \A m \in Differ : n <= m
    BY LeastNatural
  <2>2. PICK s \in SUBSET T : Cardinality(s) = n /\ f[s] # g[s]
    BY <2>1
  <2>3. /\ f[s] = IF s = {} THEN 0
                  ELSE Kept(report, Picked(s)) + f[s \ {Picked(s)}]
        /\ g[s] = IF s = {} THEN 0
                  ELSE Kept(report, Picked(s)) + g[s \ {Picked(s)}]
    BY DEF Sums
  <2>4. s # {}
    BY <2>2, <2>3
  <2>5. /\ s \ {Picked(s)} \in SUBSET T
        /\ Cardinality(s \ {Picked(s)}) \in Nat
        /\ n = Cardinality(s \ {Picked(s)}) + 1
    BY <1>1, <2>2, <2>4, OneLess, PickedIsIn
  <2>6. f[s \ {Picked(s)}] = g[s \ {Picked(s)}]
    <3>. SUFFICES ASSUME f[s \ {Picked(s)}] # g[s \ {Picked(s)}] PROVE FALSE
      OBVIOUS
    <3>1. Cardinality(s \ {Picked(s)}) \in Differ
      BY <2>5
    <3>2. n \in Nat
      BY <2>1
    <3>. HIDE DEF Differ
    <3>3. n <= Cardinality(s \ {Picked(s)})
      BY <2>1, <3>1
    <3>. QED  BY <2>5, <3>2, <3>3
  <2>. QED  BY <2>2, <2>3, <2>6
<1>. QED  BY <1>1, <1>2

(* The room that a set of lines takes is counted by one of these sums. *)
LEMMA SizeIsSum ==
  ASSUME NEW report, NEW S, IsFiniteSet(S),
         \A i \in S : Kept(report, i) \in Nat
  PROVE  \E g \in [SUBSET S -> Nat] :
           Sums(report, S, g) /\ Size(report, S) = g[S]
<1>1. PICK g \in [SUBSET S -> Nat] : Sums(report, S, g)
  BY SumsExist
<1>2. \E f : Sums(report, S, f) /\ Size(report, S) = f[S]
  BY <1>1 DEF Size, MapThenSumSet, MapThenFoldSet, Sums, Picked
<1>3. Size(report, S) = g[S]
  BY <1>1, <1>2, SumsAgree
<1>. QED  BY <1>1, <1>3

LEMMA SizeOfNothing ==
  ASSUME NEW report
  PROVE  Size(report, {}) = 0
<1>1. PICK g \in [SUBSET {} -> Nat] :
        Sums(report, {}, g) /\ Size(report, {}) = g[{}]
  BY SizeIsSum, FS_EmptySet
<1>. QED  BY <1>1 DEF Sums

LEMMA SizePicks ==
  ASSUME NEW report, NEW S, IsFiniteSet(S), S # {},
         \A i \in S : Kept(report, i) \in Nat
  PROVE  Size(report, S) =
           Kept(report, Picked(S)) + Size(report, S \ {Picked(S)})
<1>. DEFINE T == S \ {Picked(S)}
<1>1. PICK f \in [SUBSET S -> Nat] :
        Sums(report, S, f) /\ Size(report, S) = f[S]
  BY SizeIsSum
<1>2. IsFiniteSet(T) /\ T \subseteq S
  BY OneLess, PickedIsIn
<1>3. PICK g \in [SUBSET T -> Nat] :
        Sums(report, T, g) /\ Size(report, T) = g[T]
  BY <1>2, SizeIsSum
<1>4. f[T] = g[T]
  BY <1>1, <1>2, <1>3, SumsAgree
<1>5. S \in SUBSET S /\ f[S] = Kept(report, Picked(S)) + f[T]
  BY <1>1 DEF Sums
<1>. QED  BY <1>1, <1>3, <1>4, <1>5

LEMMA SizeIsNatural ==
  ASSUME NEW report, NEW S, IsFiniteSet(S),
         \A i \in S : Kept(report, i) \in Nat
  PROVE  Size(report, S) \in Nat
<1>1. PICK g \in [SUBSET S -> Nat] : Size(report, S) = g[S]
  BY SizeIsSum
<1>2. S \in SUBSET S
  OBVIOUS
<1>. QED  BY <1>1, <1>2

(* Any line can be counted last. *)
LEMMA SizeWithout ==
  ASSUME NEW report, NEW S, IsFiniteSet(S), NEW x \in S,
         \A i \in S : Kept(report, i) \in Nat
  PROVE  Size(report, S) = Kept(report, x) + Size(report, S \ {x})
<1>. DEFINE Bad(s, y) ==
              Size(report, s) # Kept(report, y) + Size(report, s \ {y})
            Wrong == {n \in Nat : \E s \in SUBSET S : \E y \in s :
                        Cardinality(s) = n /\ Bad(s, y)}
<1>1. \A s \in SUBSET S : IsFiniteSet(s) /\ Cardinality(s) \in Nat
  BY FS_Subset, FS_CardinalityType
<1>2. Wrong = {}
  <2>. SUFFICES ASSUME Wrong # {} PROVE FALSE
    OBVIOUS
  <2>1. PICK n \in Wrong : \A m \in Wrong : n <= m
    BY LeastNatural
  <2>2. PICK s \in SUBSET S : \E y \in s : Cardinality(s) = n /\ Bad(s, y)
    BY <2>1
  <2>3. PICK y \in s : Cardinality(s) = n /\ Bad(s, y)
    BY <2>2
  <2>. DEFINE z == Picked(s)
              rest == (s \ {y}) \ {z}
  <2>4. IsFiniteSet(s) /\ \A i \in s : Kept(report, i) \in Nat
    BY <1>1
  <2>5. z \in s /\ Size(report, s) = Kept(report, z) + Size(report, s \ {z})
    BY <2>4, PickedIsIn, SizePicks
  <2>6. y # z
    BY <2>3, <2>5
  <2>7. ASSUME NEW r \in SUBSET S, NEW i \in r, Cardinality(r) < n
        PROVE  Size(report, r) = Kept(report, i) + Size(report, r \ {i})
    <3>1. Cardinality(r) \in Nat /\ n \in Nat
      BY <1>1, <2>1
    <3>2. Cardinality(r) \notin Wrong
      <4>. HIDE DEF Wrong
      <4>. QED  BY <2>1, <2>7, <3>1
    <3>. QED  BY <3>1, <3>2
  <2>8. Cardinality(s \ {y}) < n /\ Cardinality(s \ {z}) < n
    <3>. HIDE DEF z
    <3>1. /\ Cardinality(s \ {y}) \in Nat /\ Cardinality(s) = Cardinality(s \ {y}) + 1
          /\ Cardinality(s \ {z}) \in Nat /\ Cardinality(s) = Cardinality(s \ {z}) + 1
      BY <2>4, <2>5, OneLess
    <3>. QED  BY <2>3, <3>1
  <2>9. rest = (s \ {z}) \ {y} /\ rest \in SUBSET S
    OBVIOUS
  <2>10. /\ Size(report, s \ {y}) = Kept(report, z) + Size(report, rest)
         /\ Size(report, s \ {z}) = Kept(report, y) + Size(report, rest)
    <3>1. s \ {y} \in SUBSET S /\ s \ {z} \in SUBSET S
      OBVIOUS
    <3>2. z \in s \ {y} /\ y \in s \ {z}
      BY <2>5, <2>6
    <3>. QED  BY <2>7, <2>8, <2>9, <3>1, <3>2
  <2>11. Size(report, rest) \in Nat
    BY <1>1, <2>9, SizeIsNatural
  <2>12. Kept(report, y) \in Nat /\ Kept(report, z) \in Nat
    BY <2>4, <2>5
  <2>. HIDE DEF z, rest
  <2>. QED  BY <2>3, <2>5, <2>10, <2>11, <2>12
<1>. HIDE DEF Bad
<1>3. ~Bad(S, x)
  BY <1>1, <1>2
<1>. QED  BY <1>3 DEF Bad

LEMMA SizeOfOne ==
  ASSUME NEW report, NEW i, Kept(report, i) \in Nat
  PROVE  Size(report, {i}) = Kept(report, i)
<1>1. IsFiniteSet({i}) /\ {i} \ {i} = {}
  BY FS_Singleton
<1>2. Size(report, {i}) = Kept(report, i) + Size(report, {i} \ {i})
  BY <1>1, SizeWithout
<1>. QED  BY <1>1, <1>2, SizeOfNothing

(* More lines take no less room. *)
LEMMA SizeGrows ==
  ASSUME NEW report, NEW S, IsFiniteSet(S), NEW T \in SUBSET S,
         \A i \in S : Kept(report, i) \in Nat
  PROVE  Size(report, T) <= Size(report, S)
<1>. DEFINE Wrong == {n \in Nat : \E s \in SUBSET S :
                        /\ T \subseteq s /\ Cardinality(s) = n
                        /\ ~(Size(report, T) <= Size(report, s))}
<1>1. \A s \in SUBSET S : IsFiniteSet(s) /\ Cardinality(s) \in Nat
  BY FS_Subset, FS_CardinalityType
<1>2. \A s \in SUBSET S : Size(report, s) \in Nat
  BY <1>1, SizeIsNatural
<1>3. Wrong = {}
  <2>. SUFFICES ASSUME Wrong # {} PROVE FALSE
    OBVIOUS
  <2>1. PICK n \in Wrong : \A m \in Wrong : n <= m
    BY LeastNatural
  <2>2. PICK s \in SUBSET S : /\ T \subseteq s /\ Cardinality(s) = n
                              /\ ~(Size(report, T) <= Size(report, s))
    BY <2>1
  <2>3. PICK x \in s : x \notin T
    BY <1>2, <2>2
  <2>4. Size(report, s) = Kept(report, x) + Size(report, s \ {x})
    BY <1>1, SizeWithout
  <2>5. /\ T \subseteq s \ {x} /\ s \ {x} \in SUBSET S
        /\ Cardinality(s \ {x}) \in Nat /\ Cardinality(s \ {x}) < n
    BY <1>1, <2>2, <2>3, OneLess
  <2>6. Size(report, T) <= Size(report, s \ {x})
    BY <2>1, <2>5
  <2>. QED  BY <1>2, <2>2, <2>4, <2>5, <2>6
<1>. QED  BY <1>1, <1>3

-----------------------------------------------------------------------------
(* How a report is divided *)

(* A set of lines has a last one. *)
LEMMA GreatestExists ==
  ASSUME NEW S \in SUBSET Nat, IsFiniteSet(S), S # {}
  PROVE  \E x \in S : \A y \in S : y <= x
<1>. DEFINE Topped(s) == \E x \in s : \A y \in s : y <= x
            Wrong == {n \in Nat : \E s \in SUBSET S :
                        s # {} /\ Cardinality(s) = n /\ ~Topped(s)}
<1>1. \A s \in SUBSET S : IsFiniteSet(s) /\ Cardinality(s) \in Nat
  BY FS_Subset, FS_CardinalityType
<1>2. Wrong = {}
  <2>. SUFFICES ASSUME Wrong # {} PROVE FALSE
    OBVIOUS
  <2>1. PICK n \in Wrong : \A m \in Wrong : n <= m
    BY LeastNatural
  <2>2. PICK s \in SUBSET S : s # {} /\ Cardinality(s) = n /\ ~Topped(s)
    BY <2>1
  <2>3. PICK x \in s : TRUE
    BY <2>2
  <2>4. /\ s \ {x} \in SUBSET S /\ Cardinality(s \ {x}) \in Nat
        /\ n = Cardinality(s \ {x}) + 1
    BY <1>1, <2>2, OneLess
  <2>5. s \ {x} = {} \/ Topped(s \ {x})
    <3>1. Cardinality(s \ {x}) \notin Wrong
      <4>1. n \in Nat
        BY <2>1
      <4>. HIDE DEF Wrong
      <4>2. Cardinality(s \ {x}) \in Wrong => n <= Cardinality(s \ {x})
        BY <2>1
      <4>. QED  BY <2>4, <4>1, <4>2
    <3>. HIDE DEF Topped
    <3>. QED  BY <2>4, <3>1
  <2>6. CASE s \ {x} = {}
    BY <2>2, <2>6
  <2>7. CASE Topped(s \ {x})
    <3>1. PICK y \in s \ {x} : \A z \in s \ {x} : z <= y
      BY <2>7
    <3>2. x \in Nat /\ y \in Nat /\ s \subseteq Nat
      OBVIOUS
    <3>3. CASE x <= y
      <4>1. y \in s /\ \A z \in s : z <= y
        BY <3>1, <3>3
      <4>. QED  BY <2>2, <4>1
    <3>4. CASE ~(x <= y)
      <4>1. x \in s /\ \A z \in s : z <= x
        BY <3>1, <3>2, <3>4
      <4>. QED  BY <2>2, <4>1
    <3>. QED  BY <3>3, <3>4
  <2>. QED  BY <2>5, <2>6, <2>7
<1>. HIDE DEF Topped
<1>3. Topped(S)
  BY <1>1, <1>2
<1>. QED  BY <1>3 DEF Topped

LEMMA MaxIsGreatest ==
  ASSUME NEW S \in SUBSET Nat, IsFiniteSet(S), S # {}
  PROVE  Max(S) \in S /\ \A y \in S : y <= Max(S)
<1>1. \E x \in S : \A y \in S : x >= y
  BY GreatestExists
<1>. QED  BY <1>1 DEF Max

LEMMA KeptFits ==
  ASSUME NEW report \in Seq(Nat), NEW i \in 1..Len(report)
  PROVE  /\ Kept(report, i) \in Nat /\ Kept(report, i) <= BodyLimit
         /\ Newline(report, i) \in {0, 1}
         /\ Fits(report, i) => Newline(report, i) <= Kept(report, i)
         /\ ~Fits(report, i) => 1 <= Kept(report, i)
<1>1. report[i] \in Nat
  BY ElementOfSeq
<1>. QED  BY <1>1 DEF Kept, Fits, Newline, BodyLimit, ChunkLimit

LEMMA LinesAreFinite ==
  ASSUME NEW report \in Seq(Nat), NEW i \in 0..Len(report),
         NEW S \in SUBSET (1..i)
  PROVE  /\ IsFiniteSet(S) /\ S \in SUBSET Nat
         /\ \A j \in S : j \in 1..Len(report) /\ Kept(report, j) \in Nat
<1>1. Len(report) \in Nat /\ i \in Int /\ 1 \in Int
  BY LenProperties
<1>2. IsFiniteSet(1..i)
  BY <1>1, FS_Interval
<1>3. IsFiniteSet(S)
  BY <1>2, FS_Subset
<1>4. \A j \in S : j \in 1..Len(report)
  BY <1>1
<1>. QED  BY <1>1, <1>3, <1>4, KeptFits

(* The chunks after each of the first lines. *)
Dividing(report, n, f) ==
  f = [i \in 0..n |->
         IF i = 0 THEN <<{}>> ELSE Placed(report, f[i - 1], i)]

LEMMA DivisionsExist ==
  ASSUME NEW report, NEW n \in Nat
  PROVE  \E f : Dividing(report, n, f)
<1>. DEFINE Missing == {k \in Nat : ~\E f : Dividing(report, k, f)}
<1>1. \E f : Dividing(report, 0, f)
  <2>. DEFINE g == [i \in 0..0 |-> <<{}>>]
  <2>1. Dividing(report, 0, g)
    BY DEF Dividing
  <2>. QED  BY <2>1
<1>2. ASSUME NEW k \in Nat, NEW f, Dividing(report, k, f)
      PROVE  \E g : Dividing(report, k + 1, g)
  <2>. DEFINE g == [i \in 0..k + 1 |->
                      IF i = k + 1 THEN Placed(report, f[k], k + 1) ELSE f[i]]
  <2>1. \A i \in 0..k + 1 :
          g[i] = IF i = 0 THEN <<{}>> ELSE Placed(report, g[i - 1], i)
    <3>. TAKE i \in 0..k + 1
    <3>1. CASE i = k + 1
      <4>1. g[k] = f[k] /\ i - 1 = k /\ i # 0
        BY <3>1
      <4>. QED  BY <3>1, <4>1
    <3>2. CASE i # k + 1
      <4>1. i \in 0..k
        BY <3>2
      <4>2. g[i] = f[i] /\ (i # 0 => g[i - 1] = f[i - 1])
        BY <3>2, <4>1
      <4>3. f[i] = IF i = 0 THEN <<{}>> ELSE Placed(report, f[i - 1], i)
        BY <1>2, <4>1 DEF Dividing
      <4>. HIDE DEF g
      <4>. QED  BY <4>2, <4>3
    <3>. QED  BY <3>1, <3>2
  <2>2. g = [i \in 0..k + 1 |-> g[i]]
    OBVIOUS
  <2>. HIDE DEF g
  <2>3. Dividing(report, k + 1, g)
    BY <2>1, <2>2 DEF Dividing
  <2>. QED  BY <2>3
<1>3. Missing = {}
  <2>. SUFFICES ASSUME Missing # {} PROVE FALSE
    OBVIOUS
  <2>1. PICK k \in Missing : \A m \in Missing : k <= m
    BY LeastNatural
  <2>2. k \in Nat /\ k # 0 /\ ~\E f : Dividing(report, k, f)
    BY <1>1
  <2>3. k - 1 \in Nat /\ (k - 1) + 1 = k
    BY <2>2
  <2>4. \E f : Dividing(report, k - 1, f)
    BY <2>1, <2>3
  <2>. QED  BY <1>2, <2>2, <2>3, <2>4
<1>. QED  BY <1>3

LEMMA SplitIsDivision ==
  ASSUME NEW report \in Seq(Nat)
  PROVE  \E f : /\ Dividing(report, Len(report), f)
                /\ Split(report) = f[Len(report)]
<1>1. Len(report) \in Nat
  BY LenProperties
<1>2. PICK g : Dividing(report, Len(report), g)
  BY <1>1, DivisionsExist
<1>. QED  BY <1>2 DEF Split, Dividing

(* The first i lines are divided into chunks that leave room for a header. *)
Divided(report, i, chunks) ==
  /\ chunks \in Seq(SUBSET (1..i)) /\ chunks # <<>>
  /\ i = 0 => Len(chunks) = 1
  /\ \A m \in 1..Len(chunks) :
       /\ Size(report, chunks[m]) <= BodyLimit
       /\ i > 0 => chunks[m] # {}
  /\ \A j \in 1..i : \E m \in 1..Len(chunks) : j \in chunks[m]

LEMMA PlacedIsDivided ==
  ASSUME NEW report \in Seq(Nat), NEW i \in 1..Len(report), NEW chunks,
         Divided(report, i - 1, chunks)
  PROVE  Divided(report, i, Placed(report, chunks, i))
<1>. DEFINE n == Len(chunks)
            last == chunks[n]
            new == Placed(report, chunks, i)
<1>1. /\ Len(report) \in Nat /\ i \in Nat /\ i > 0
  BY LenProperties
<1>2. /\ chunks \in Seq(SUBSET (1..i)) /\ n \in Nat /\ n >= 1
      /\ \A m \in 1..n : chunks[m] \in SUBSET (1..(i - 1))
  <2>1. SUBSET (1..(i - 1)) \subseteq SUBSET (1..i)
    BY <1>1
  <2>2. chunks \in Seq(SUBSET (1..(i - 1))) /\ chunks # <<>>
    BY DEF Divided
  <2>3. chunks \in Seq(SUBSET (1..i))
    BY <2>1, <2>2, SeqMonotonic
  <2>4. n \in Nat \ {0}
    BY <2>2, EmptySeq
  <2>. QED  BY <2>2, <2>3, <2>4, ElementOfSeq
<1>3. Size(report, {i}) <= BodyLimit
  BY KeptFits, SizeOfOne
<1>4. /\ \A m \in 1..n : Size(report, chunks[m]) <= BodyLimit
      /\ \A m \in 1..n : i > 1 => chunks[m] # {}
      /\ i = 1 => n = 1
      /\ \A j \in 1..(i - 1) : \E m \in 1..n : j \in chunks[m]
  <2>1. i - 1 = 0 <=> i = 1
    BY <1>1
  <2>2. i - 1 > 0 <=> i > 1
    BY <1>1
  <2>. DEFINE k == i - 1
  <2>3. Divided(report, k, chunks) /\ (k = 0 <=> i = 1) /\ (k > 0 <=> i > 1)
    BY <2>1, <2>2
  <2>. HIDE DEF k
  <2>4. /\ \A m \in 1..n : Size(report, chunks[m]) <= BodyLimit
        /\ \A m \in 1..n : k > 0 => chunks[m] # {}
        /\ k = 0 => n = 1
        /\ \A j \in 1..k : \E m \in 1..n : j \in chunks[m]
    BY <2>3, Zenon DEF Divided
  <2>. QED  BY <2>3, <2>4 DEF k
<1>5. CASE last # {} /\ Size(report, last \cup {i}) > BodyLimit
  <2>1. new = Append(chunks, {i})
    BY <1>5 DEF Placed
  <2>2. /\ new \in Seq(SUBSET (1..i)) /\ Len(new) = n + 1 /\ new # <<>>
        /\ \A m \in 1..n : new[m] = chunks[m]
        /\ new[n + 1] = {i}
    <3>1. {i} \in SUBSET (1..i)
      BY <1>1
    <3>. QED  BY <1>2, <2>1, <3>1, AppendProperties
  <2>3. i > 1
    <3>1. last \in SUBSET (1..(i - 1))
      BY <1>2
    <3>. QED  BY <1>1, <1>5, <3>1
  <2>. HIDE DEF new, n, last
  <2>4. \A m \in 1..Len(new) : Size(report, new[m]) <= BodyLimit /\ new[m] # {}
    <3>. TAKE m \in 1..Len(new)
    <3>1. m \in 1..n \/ m = n + 1
      BY <1>2, <2>2
    <3>. QED  BY <1>3, <1>4, <2>2, <2>3, <3>1
  <2>5. \A j \in 1..i : \E m \in 1..Len(new) : j \in new[m]
    <3>. TAKE j \in 1..i
    <3>1. CASE j = i
      <4>1. n + 1 \in 1..Len(new)
        BY <1>2, <2>2
      <4>. QED  BY <2>2, <3>1, <4>1
    <3>2. CASE j # i
      <4>1. PICK m \in 1..n : j \in chunks[m]
        BY <1>1, <1>4, <3>2
      <4>2. m \in 1..Len(new)
        BY <1>2, <2>2
      <4>. QED  BY <2>2, <4>1, <4>2
    <3>. QED  BY <3>1, <3>2
  <2>. QED  BY <1>1, <2>2, <2>4, <2>5 DEF Divided, new
<1>6. CASE ~(last # {} /\ Size(report, last \cup {i}) > BodyLimit)
  <2>1. new = [chunks EXCEPT ![n] = last \cup {i}]
    BY <1>6 DEF Placed
  <2>2. last \cup {i} \in SUBSET (1..i) /\ n \in 1..Len(chunks)
    BY <1>1, <1>2
  <2>3. /\ new \in Seq(SUBSET (1..i)) /\ Len(new) = n
        /\ \A m \in 1..n :
             new[m] = IF m = n THEN last \cup {i} ELSE chunks[m]
    BY <1>2, <2>1, <2>2, ExceptSeq
  <2>4. Size(report, last \cup {i}) <= BodyLimit
    <3>1. IsFiniteSet(last \cup {i}) /\ \A j \in last \cup {i} : Kept(report, j) \in Nat
      <4>. DEFINE S == last \cup {i}
      <4>1. S \in SUBSET (1..i) /\ i \in 0..Len(report)
        BY <1>1, <2>2
      <4>. HIDE DEF S
      <4>2. IsFiniteSet(S) /\ \A j \in S : Kept(report, j) \in Nat
        BY <4>1, LinesAreFinite
      <4>. QED  BY <4>2 DEF S
    <3>2. Size(report, last \cup {i}) \in Nat
      BY <3>1, SizeIsNatural
    <3>3. BodyLimit \in Nat
      BY DEF BodyLimit, ChunkLimit
    <3>. HIDE DEF last
    <3>4. CASE last = {}
      <4>1. last \cup {i} = {i}
        BY <3>4
      <4>. QED  BY <1>3, <4>1, Zenon
    <3>5. CASE ~(Size(report, last \cup {i}) > BodyLimit)
      BY <3>2, <3>3, <3>5
    <3>. QED  BY <1>6, <3>4, <3>5
  <2>. HIDE DEF new, n
  <2>5. \A m \in 1..n : Size(report, new[m]) <= BodyLimit /\ new[m] # {}
    <3>. TAKE m \in 1..n
    <3>1. CASE m = n
      BY <2>3, <2>4, <3>1
    <3>2. CASE m # n
      <4>1. i > 1
        BY <1>1, <1>2, <1>4, <3>2
      <4>. QED  BY <1>4, <2>3, <3>2, <4>1
    <3>. QED  BY <3>1, <3>2
  <2>6. \A j \in 1..i : \E m \in 1..n : j \in new[m]
    <3>. TAKE j \in 1..i
    <3>1. CASE j = i
      <4>1. n \in 1..n
        BY <1>2
      <4>. QED  BY <2>3, <3>1, <4>1
    <3>2. CASE j # i
      <4>1. PICK m \in 1..n : j \in chunks[m]
        BY <1>1, <1>4, <3>2
      <4>. QED  BY <2>3, <4>1
    <3>. QED  BY <3>1, <3>2
  <2>7. new # <<>>
    <3>1. Len(<<>>) = 0
      OBVIOUS
    <3>. QED  BY <1>2, <2>3, <3>1
  <2>. QED  BY <1>1, <2>3, <2>5, <2>6, <2>7 DEF Divided, new
<1>. QED  BY <1>5, <1>6

LEMMA SplitIsDivided ==
  ASSUME NEW report \in Seq(Nat)
  PROVE  Divided(report, Len(report), Split(report))
<1>1. Len(report) \in Nat
  BY LenProperties
<1>2. PICK f : /\ Dividing(report, Len(report), f)
               /\ Split(report) = f[Len(report)]
  BY SplitIsDivision
<1>. DEFINE Wrong == {i \in 0..Len(report) : ~Divided(report, i, f[i])}
<1>3. Wrong = {}
  <2>. SUFFICES ASSUME Wrong # {} PROVE FALSE
    OBVIOUS
  <2>1. PICK i \in Wrong : \A m \in Wrong : i <= m
    <3>1. Wrong \in SUBSET Nat
      BY <1>1
    <3>. HIDE DEF Wrong
    <3>. QED  BY <3>1, LeastNatural
  <2>2. i \in 0..Len(report) /\ ~Divided(report, i, f[i])
    BY <2>1
  <2>3. f[i] = IF i = 0 THEN <<{}>> ELSE Placed(report, f[i - 1], i)
    BY <1>2, <2>2 DEF Dividing
  <2>4. CASE i = 0
    <3>. DEFINE c == <<{}>>
    <3>1. c \in Seq(SUBSET (1..0)) /\ Len(c) = 1 /\ c # <<>> /\ c[1] = {}
      OBVIOUS
    <3>2. Size(report, {}) <= BodyLimit
      BY SizeOfNothing DEF BodyLimit, ChunkLimit
    <3>3. \A m \in 1..Len(c) : c[m] = {}
      BY <3>1
    <3>. HIDE DEF c
    <3>4. \A m \in 1..Len(c) : Size(report, c[m]) <= BodyLimit
      BY <3>2, <3>3, Zenon
    <3>5. \A j \in 1..0 : FALSE
      OBVIOUS
    <3>6. Divided(report, 0, c)
      BY <3>1, <3>4, <3>5 DEF Divided
    <3>. QED  BY <2>2, <2>3, <2>4, <3>6 DEF c
  <2>5. CASE i # 0
    <3>1. i - 1 \in 0..Len(report) /\ i \in 1..Len(report) /\ i - 1 < i
      BY <1>1, <2>2, <2>5
    <3>2. Divided(report, i - 1, f[i - 1])
      <4>. SUFFICES ASSUME ~Divided(report, i - 1, f[i - 1]) PROVE FALSE
        OBVIOUS
      <4>1. i - 1 \in Wrong
        BY <3>1
      <4>2. i <= i - 1
        <5>. HIDE DEF Wrong
        <5>. QED  BY <2>1, <4>1
      <4>. QED  BY <3>1, <4>2
    <3>. QED  BY <2>2, <2>3, <2>5, <3>1, <3>2, PlacedIsDivided
  <2>. QED  BY <2>4, <2>5
<1>. QED  BY <1>1, <1>2, <1>3

-----------------------------------------------------------------------------
(* What a reader sees *)

(* The headers of fewer than a hundred parts fit into the room left for    *)
(* them, so every line that fits is read whole in the message of its chunk. *)
LEMMA LinesAreShown ==
  ASSUME NEW report \in Seq(Nat), Len(Split(report)) < 100,
         NEW i \in 1..Len(report), Fits(report, i)
  PROVE  ShownBy(report, i) # {}
<1>. DEFINE chunks == Split(report)
            n == Len(chunks)
<1>1. /\ chunks \in Seq(SUBSET (1..Len(report))) /\ n \in Nat
      /\ DOMAIN chunks = 1..n
  BY SplitIsDivided, LenProperties DEF Divided
<1>2. PICK m \in 1..n : i \in chunks[m]
  BY SplitIsDivided DEF Divided
<1>3. Size(report, chunks[m]) <= BodyLimit
  BY SplitIsDivided DEF Divided
<1>. DEFINE lines == chunks[m]
            last == Max(lines)
            upTo(j) == {k \in lines : k <= j}
            cut(j) == IF Fits(report, j) THEN Newline(report, j) ELSE 1
            h == Header(m, n)
<1>4. lines \in SUBSET (1..Len(report)) /\ Len(report) \in 0..Len(report)
  BY <1>1, ElementOfSeq, LenProperties
<1>5. /\ IsFiniteSet(lines) /\ lines \in SUBSET Nat
      /\ \A j \in lines : j \in 1..Len(report) /\ Kept(report, j) \in Nat
  <2>. HIDE DEF lines, chunks
  <2>. QED  BY <1>4, LinesAreFinite
<1>6. last \in lines /\ \A j \in lines : j <= last
  <2>. HIDE DEF chunks
  <2>. QED  BY <1>2, <1>5, MaxIsGreatest
<1>7. h \in 6..8 /\ n < 100 /\ n \in Nat
  BY <1>1, <1>2 DEF Header, Digits
<1>8. /\ EndOf(report, m, i) = h + Size(report, upTo(i)) - cut(i)
      /\ EndOf(report, m, last) = h + Size(report, upTo(last)) - cut(last)
  BY DEF EndOf
<1>9. upTo(last) = lines
  BY <1>6
<1>10. /\ i \in lines /\ i \in Nat /\ last \in Nat /\ i <= last
       /\ upTo(i) \in SUBSET lines /\ IsFiniteSet(upTo(i))
  <2>1. i \in lines /\ i \in Nat /\ last \in Nat /\ i <= last
    BY <1>2, <1>5, <1>6
  <2>. HIDE DEF lines, last
  <2>. QED  BY <1>5, <2>1, FS_Subset
<1>. HIDE DEF h, upTo, last, lines, chunks, n
<1>11. /\ Size(report, upTo(i)) \in Nat /\ Size(report, lines) \in Nat
       /\ Size(report, upTo(i)) <= Size(report, lines)
  BY <1>5, <1>10, SizeIsNatural, SizeGrows
<1>12. i = last \/ Size(report, upTo(i)) + Kept(report, last)
            <= Size(report, lines)
  <2>. SUFFICES ASSUME i # last
                PROVE  Size(report, upTo(i)) + Kept(report, last)
                          <= Size(report, lines)
    OBVIOUS
  <2>. DEFINE rest == lines \ {last}
  <2>1. /\ rest \in SUBSET lines /\ upTo(i) \in SUBSET rest
        /\ \A j \in rest : Kept(report, j) \in Nat
    BY <1>5, <1>10 DEF upTo
  <2>2. IsFiniteSet(rest)
    BY <1>5, <2>1, FS_Subset
  <2>3. Size(report, lines) = Kept(report, last) + Size(report, rest)
    <3>1. \A j \in lines : Kept(report, j) \in Nat
      BY <1>5
    <3>2. IsFiniteSet(lines) /\ last \in lines
      BY <1>5, <1>6
    <3>. QED  BY <3>1, <3>2, SizeWithout
  <2>. HIDE DEF rest
  <2>4. Size(report, upTo(i)) <= Size(report, rest) /\ Size(report, rest) \in Nat
    BY <2>1, <2>2, SizeGrows, SizeIsNatural
  <2>5. Kept(report, last) \in Nat
    BY <1>5, <1>6
  <2>. QED  BY <1>11, <2>3, <2>4, <2>5
<1>13. cut(i) \in {0, 1} /\ cut(last) \in {0, 1} /\ cut(last) <= Kept(report, last)
  BY <1>5, <1>6, <1>10, KeptFits
<1>14. Kept(report, last) \in Nat
  BY <1>5, <1>6
<1>. DEFINE end == EndOf(report, m, i)
            text == EndOf(report, m, last) + (IF m = n THEN Closing ELSE 0)
<1>15. Size(report, lines) <= 3476
  BY <1>3 DEF lines, BodyLimit, ChunkLimit
<1>16. end <= text /\ end <= 3484 /\ end \in Int /\ text \in Int
  <2>. DEFINE a == Size(report, upTo(i))
              b == Size(report, lines)
              k == Kept(report, last)
              c == cut(i)
              d == cut(last)
  <2>1. end = h + a - c /\ text = h + b - d + (IF m = n THEN 48 ELSE 0)
    BY <1>8, <1>9 DEF Closing
  <2>2. /\ a \in Nat /\ b \in Nat /\ k \in Nat /\ h \in 6..8
        /\ c \in {0, 1} /\ d \in {0, 1} /\ d <= k /\ a <= b /\ b <= 3476
        /\ i = last => a = b /\ c = d
        /\ i # last => a + k <= b
    BY <1>7, <1>9, <1>11, <1>12, <1>13, <1>14, <1>15
  <2>. HIDE DEF a, b, k, c, d, end, text
  <2>. QED  BY <2>1, <2>2
<1>17. Sent(report, m) = IF text <= ChunkLimit THEN text ELSE ChunkLimit - 16
  BY DEF Sent, chunks, lines, last, n
<1>18. end <= Sent(report, m)
  <2>. HIDE DEF end, text
  <2>. QED  BY <1>16, <1>17 DEF ChunkLimit
<1>19. m \in ShownBy(report, i)
  <2>1. i \in Shown(report, m)
    BY <1>10, <1>18 DEF Shown, lines, chunks
  <2>. QED  BY <1>1, <2>1 DEF ShownBy, chunks
<1>. QED  BY <1>19

LEMMA PartsOfReport ==
  ASSUME NEW report \in Reports
  PROVE  report \in Seq(Nat) /\ Len(Split(report)) \in Nat
<1>1. report \in Seq(Nat)
  BY OutboxConstantsAssumption
<1>2. Split(report) \in Seq(SUBSET (1..Len(report)))
  BY <1>1, SplitIsDivided DEF Divided
<1>. QED  BY <1>1, <1>2, LenProperties

LEMMA PartsAreCounted ==
  /\ Parts \subseteq Nat /\ MaxMessages \in Nat
  /\ \A n \in Parts \cup {0} : n + 1 <= MaxMessages
<1>1. Parts \subseteq Nat
  BY PartsOfReport DEF Parts
<1>2. IsFiniteSet(Parts)
  <2>. DEFINE f == [report \in Reports |-> Len(Split(report))]
  <2>1. f \in Surjection(Reports, Parts)
    BY DEF Surjection, Parts
  <2>. HIDE DEF f
  <2>. QED  BY <2>1, FS_Surjection, OutboxConstantsAssumption
<1>. DEFINE S == Parts \cup {0}
<1>3. IsFiniteSet(S)
  BY <1>2, FS_AddElement
<1>4. S \in SUBSET Nat /\ S # {} /\ IsFiniteSet(S)
  BY <1>1, <1>3
<1>. HIDE DEF S
<1>5. Max(S) \in S /\ \A y \in S : y <= Max(S)
  BY <1>4, MaxIsGreatest
<1>6. Max(S) \in Nat /\ \A y \in S : y \in Nat
  BY <1>4, <1>5
<1>7. MaxMessages = Max(S) + 1
  BY DEF MaxMessages, S
<1>8. MaxMessages \in Nat /\ \A n \in S : n + 1 <= MaxMessages
  BY <1>5, <1>6, <1>7
<1>. QED  BY <1>1, <1>8 DEF S

(* What the outbox has to know of a report. *)
LEMMA LinesHaveMessages ==
  ASSUME \A report \in Reports : Len(Split(report)) < 100,
         NEW n \in Parts, NEW messages \in Showing[n]
  PROVE  messages # {} /\ messages \subseteq 1..n
<1>. DEFINE Lines(report) == {i \in DOMAIN report : Fits(report, i)}
            Shows(k) ==
              UNION {{ShownBy(report, i) : i \in Lines(report)} :
                       report \in {q \in Reports : Len(Split(q)) = k}}
<1>1. Showing[n] = Shows(n)
  BY DEF Showing
<1>2. PICK report \in Reports :
        /\ Len(Split(report)) = n
        /\ \E i \in Lines(report) : messages = ShownBy(report, i)
  BY <1>1
<1>3. PICK i \in 1..Len(report) :
        /\ report \in Seq(Nat) /\ Fits(report, i)
        /\ messages = ShownBy(report, i)
  <2>1. PICK i \in Lines(report) : messages = ShownBy(report, i)
    BY <1>2
  <2>2. report \in Seq(Nat)
    BY PartsOfReport
  <2>3. i \in 1..Len(report) /\ Fits(report, i)
    BY <2>1, <2>2, LenProperties
  <2>. QED  BY <2>1, <2>2, <2>3
<1>4. messages # {}
  BY <1>2, <1>3, LinesAreShown
<1>5. DOMAIN Split(report) = 1..n
  <2>1. Split(report) \in Seq(SUBSET (1..Len(report)))
    BY <1>3, SplitIsDivided DEF Divided
  <2>. QED  BY <1>2, <2>1, LenProperties
<1>. QED  BY <1>3, <1>4, <1>5 DEF ShownBy

-----------------------------------------------------------------------------
(* The invariant *)

LEMMA OutboxBounds ==
  /\ MaxRun \in Nat \ {0} /\ Refused \subseteq Runs
  /\ MaxNotices \in Nat /\ MaxTrouble \in Nat
  /\ "none" \notin Bridges
BY OutboxConstantsAssumption

USE OutboxBounds

BridgeRecords ==
  [pc : {"off", "list", "send", "mark"}, listed : [Runs -> Notices]]

(* A notice is the last one of its run, and done when all of it is sent.   *)
NoticeInv(r) ==
  /\ outbox[r].id = notices[r]
  /\ outbox[r].id = 0 => outbox[r] = NoNotice
  /\ outbox[r].sent <= Messages(outbox[r])
  /\ outbox[r].id > 0 /\ outbox[r].done =>
       outbox[r].sent = Messages(outbox[r])
  /\ controller[r] \in Kinds => notices[r] < MaxNotices

(* What a bridge listed is what the outbox still has, or was replaced.     *)
ListedInv(b) ==
  /\ bridge[b].pc \in {"off", "list"} =>
       bridge[b] = [Off EXCEPT !.pc = bridge[b].pc]
  /\ \A r \in Runs :
       ~bridge[b].listed[r].done =>
         /\ bridge[b].listed[r].id \in 1..notices[r]
         /\ bridge[b].listed[r].sent <= Messages(bridge[b].listed[r])
         /\ bridge[b].listed[r].id = outbox[r].id =>
              bridge[b].listed[r] = outbox[r]
  /\ bridge[b].pc = "mark" =>
       /\ Pending(b) # {}
       /\ Payload(b).sent < Messages(Payload(b))

ListingInv ==
  /\ TypeOK
  /\ \A r \in Runs : NoticeInv(r)
  /\ \A b \in Bridges : ListedInv(b)

(* The message that a bridge is about to record. *)
Marking(b, r, m) ==
  /\ At(b, "mark") /\ Current(b) = r
  /\ m = bridge[b].listed[r].sent + 1

(* What is recorded, or about to be, was delivered. *)
ArrivedInv ==
  /\ \A r \in Runs, m \in 1..MaxMessages :
       m <= outbox[r].sent => Received(r, outbox[r].id, m)
  /\ \A b \in Bridges :
       At(b, "mark") =>
         Received(Current(b), Payload(b).id, Payload(b).sent + 1)

(* A message that is still to be sent, and is not the one that a bridge is *)
(* about to record, was delivered only in trouble.                         *)
CountedInv ==
  /\ DuplicatesAreExplained
  /\ \A r \in Runs, i \in Ids, m \in 1..MaxMessages :
       i > notices[r] => delivered[r][i][m] = 0
  /\ \A r \in Runs, m \in 1..MaxMessages :
       outbox[r].id > 0 /\ m > outbox[r].sent =>
         \/ delivered[r][outbox[r].id][m] <= trouble
         \/ \E b \in Bridges :
              Marking(b, r, m) /\ bridge[b].listed[r].id = outbox[r].id
  /\ \A b \in Bridges, r \in Runs, m \in 1..MaxMessages :
       ~bridge[b].listed[r].done /\ m > bridge[b].listed[r].sent =>
         \/ delivered[r][bridge[b].listed[r].id][m] <= trouble
         \/ Marking(b, r, m)

(* An approval has the parts of a summary. *)
SummaryInv ==
  \A r \in Runs : outbox[r].kind = "approved" => outbox[r].parts \in Parts

IInv == ListingInv /\ ArrivedInv /\ CountedInv /\ SummaryInv

-----------------------------------------------------------------------------
(* Notices and bridges *)

LEMMA MessagesAreCounted ==
  ASSUME NEW notice \in Notices
  PROVE  Messages(notice) \in 1..MaxMessages
<1>1. notice.parts \in Parts \cup {0}
  BY DEF Notices
<1>2. \A n \in Parts \cup {0} :
        n \in Nat /\ MaxMessages \in Nat /\ n + 1 <= MaxMessages
  BY PartsAreCounted
<1>3. 0 \in Parts \cup {0}
  OBVIOUS
<1>4. /\ notice.parts \in Nat /\ notice.parts + 1 <= MaxMessages
      /\ 0 + 1 <= MaxMessages /\ MaxMessages \in Nat
  BY <1>1, <1>2, <1>3, Zenon
<1>. QED  BY <1>4 DEF Messages

LEMMA NoNoticeIsNotice ==
  /\ NoNotice \in Notices
  /\ NoNotice.id = 0 /\ NoNotice.sent = 0 /\ NoNotice.done /\ NoNotice.parts = 0
  /\ NoNotice.kind = "failure" /\ Messages(NoNotice) = 1
BY PartsAreCounted DEF NoNotice, Notices, Kinds, Messages

LEMMA OffIsBridge ==
  ASSUME NEW label \in {"off", "list", "send", "mark"}
  PROVE  /\ [Off EXCEPT !.pc = label] \in BridgeRecords
         /\ [Off EXCEPT !.pc = label].pc = label
         /\ \A r \in Runs : [Off EXCEPT !.pc = label].listed[r] = NoNotice
BY NoNoticeIsNotice DEF Off, BridgeRecords

LEMMA CurrentIsPending ==
  ASSUME NEW b \in Bridges, Pending(b) # {}
  PROVE  /\ Current(b) \in Pending(b) /\ Current(b) \in Runs
         /\ ~Payload(b).done /\ Payload(b) = bridge[b].listed[Current(b)]
<1>1. Pending(b) \subseteq Runs /\ Runs \subseteq Nat
  BY DEF Pending, Runs
<1>2. \E r \in Pending(b) : \A q \in Pending(b) : r <= q
  BY <1>1, LeastNatural
<1>3. Current(b) \in Pending(b)
  BY <1>2 DEF Current
<1>. QED  BY <1>1, <1>3 DEF Pending, Payload

(* Only the bridge that holds the lock of the bot is working.              *)
LEMMA OthersAreOff ==
  ASSUME ListingInv, NEW b \in Bridges, ~At(b, "off") \/ BotFree
  PROVE  \A c \in Bridges : c # b => At(c, "off") /\ bridge[c] = Off
<1>. SUFFICES ASSUME NEW c \in Bridges, c # b
              PROVE  At(c, "off") /\ bridge[c] = Off
  OBVIOUS
<1>1. At(c, "off")
  BY DEF ListingInv, TypeOK, BotFree
<1>. QED  BY <1>1 DEF ListingInv, ListedInv, At, Off

(* How a bridge changes. *)
LEMMA BridgeBecomes ==
  ASSUME ListingInv, NEW b \in Bridges, NEW new \in BridgeRecords,
         bridge' = [bridge EXCEPT ![b] = new]
  PROVE  /\ bridge' \in [Bridges -> BridgeRecords] /\ bridge'[b] = new
         /\ \A c \in Bridges : c # b => bridge'[c] = bridge[c]
BY DEF ListingInv, TypeOK, BridgeRecords

LEMMA BridgeSets ==
  ASSUME ListingInv, NEW b \in Bridges,
         NEW label \in {"off", "list", "send", "mark"},
         bridge' = [bridge EXCEPT ![b].pc = label]
  PROVE  /\ bridge' \in [Bridges -> BridgeRecords]
         /\ bridge'[b].pc = label /\ bridge'[b].listed = bridge[b].listed
         /\ \A c \in Bridges : c # b => bridge'[c] = bridge[c]
<1>1. bridge \in [Bridges -> BridgeRecords]
  BY DEF ListingInv, TypeOK, BridgeRecords
<1>. QED  BY <1>1 DEF BridgeRecords

LEMMA GoesOn ==
  ASSUME ListingInv, NEW b \in Bridges, Pending(b) # {}, NextRun(b)
  PROVE  /\ bridge' \in [Bridges -> BridgeRecords] /\ bridge'[b].pc = "send"
         /\ bridge'[b].listed[Current(b)] = NoNotice
         /\ \A r \in Runs : r # Current(b) =>
              bridge'[b].listed[r] = bridge[b].listed[r]
         /\ \A c \in Bridges : c # b => bridge'[c] = bridge[c]
<1>1. Current(b) \in Runs /\ bridge[b] \in BridgeRecords
  BY CurrentIsPending DEF ListingInv, TypeOK, BridgeRecords
<1>2. /\ Rest(b, Current(b)) \in BridgeRecords
      /\ Rest(b, Current(b)).pc = "send"
      /\ Rest(b, Current(b)).listed =
           [bridge[b].listed EXCEPT ![Current(b)] = NoNotice]
  BY <1>1, NoNoticeIsNotice DEF Rest, BridgeRecords
<1>3. \A r \in Runs : Rest(b, Current(b)).listed[r] =
        IF r = Current(b) THEN NoNotice ELSE bridge[b].listed[r]
  BY <1>1, <1>2 DEF BridgeRecords
<1>. QED  BY <1>1, <1>2, <1>3, BridgeBecomes DEF NextRun

LEMMA WhatIsListed ==
  ASSUME ListingInv, NEW b \in Bridges, NEW r \in Runs,
         ~bridge[b].listed[r].done
  PROVE  /\ bridge[b].listed[r].id \in 1..notices[r]
         /\ bridge[b].listed[r].sent <= Messages(bridge[b].listed[r])
         /\ bridge[b].listed[r].id = outbox[r].id =>
              bridge[b].listed[r] = outbox[r]
<1>1. ListedInv(b)
  BY DEF ListingInv
<1>. QED  BY <1>1, Zenon DEF ListedInv

(* What a bridge works on only depends on what it listed. *)
LEMMA SameList ==
  ASSUME NEW b \in Bridges, bridge'[b].listed = bridge[b].listed
  PROVE  /\ Pending(b)' = Pending(b) /\ Current(b)' = Current(b)
         /\ Payload(b)' = Payload(b)
<1>1. Pending(b)' = Pending(b)
  BY DEF Pending
<1>2. Current(b)' = Current(b)
  BY <1>1, Zenon DEF Current
<1>. QED  BY <1>1, <1>2 DEF Payload

(* The message that is sent next. *)
LEMMA NextMessage ==
  ASSUME ListingInv, NEW b \in Bridges, Pending(b) # {}
  PROVE  /\ Current(b) \in Runs /\ Payload(b) \in Notices
         /\ Payload(b) = bridge[b].listed[Current(b)] /\ ~Payload(b).done
         /\ Payload(b).id \in Ids /\ Payload(b).id <= notices[Current(b)]
         /\ Payload(b).sent \in 0..MaxMessages
         /\ Payload(b).sent < Messages(Payload(b)) =>
              Payload(b).sent + 1 \in 1..MaxMessages
<1>1. /\ Current(b) \in Runs /\ ~Payload(b).done
      /\ Payload(b) = bridge[b].listed[Current(b)]
  BY CurrentIsPending
<1>2. Payload(b) \in Notices /\ notices[Current(b)] \in 0..MaxNotices
  BY <1>1 DEF ListingInv, TypeOK
<1>3. Payload(b).id \in 1..notices[Current(b)]
  BY <1>1 DEF ListingInv, ListedInv
<1>4. Payload(b).sent \in 0..MaxMessages
  BY <1>2 DEF Notices
<1>5. Messages(Payload(b)) \in 1..MaxMessages
  BY <1>2, MessagesAreCounted
<1>. QED  BY <1>1, <1>2, <1>3, <1>4, <1>5, PartsAreCounted DEF Ids

LEMMA CountsOne ==
  ASSUME NEW R, NEW I, NEW M, NEW f \in [R -> [I -> [M -> Nat]]],
         NEW q \in R, NEW j \in I, NEW k \in M, NEW g,
         g = [f EXCEPT ![q][j][k] = f[q][j][k] + 1]
  PROVE  /\ g \in [R -> [I -> [M -> Nat]]]
         /\ \A r \in R, i \in I, m \in M :
              g[r][i][m] =
                IF r = q /\ i = j /\ m = k
                THEN f[r][i][m] + 1 ELSE f[r][i][m]
OBVIOUS

LEMMA Delivers ==
  ASSUME ListingInv, NEW b \in Bridges, Unsent(b), Deliver(b)
  PROVE  /\ delivered' \in [Runs -> [Ids -> [1..MaxMessages -> Nat]]]
         /\ \A r \in Runs, i \in Ids, m \in 1..MaxMessages :
              delivered'[r][i][m] =
                IF /\ r = Current(b) /\ i = Payload(b).id
                   /\ m = Payload(b).sent + 1
                THEN delivered[r][i][m] + 1 ELSE delivered[r][i][m]
<1>1. /\ Current(b) \in Runs /\ Payload(b).id \in Ids
      /\ Payload(b).sent + 1 \in 1..MaxMessages
  BY NextMessage DEF Unsent
<1>2. delivered \in [Runs -> [Ids -> [1..MaxMessages -> Nat]]]
  BY DEF ListingInv, TypeOK
<1>. DEFINE q == Current(b)
            j == Payload(b).id
            k == Payload(b).sent + 1
<1>3. delivered' = [delivered EXCEPT ![q][j][k] = delivered[q][j][k] + 1]
  BY DEF Deliver
<1>4. q \in Runs /\ j \in Ids /\ k \in 1..MaxMessages
  BY <1>1
<1>. HIDE DEF q, j, k
<1>. DEFINE M == 1..MaxMessages
<1>5. delivered \in [Runs -> [Ids -> [M -> Nat]]] /\ k \in M
  BY <1>2, <1>4
<1>. HIDE DEF M
<1>6. /\ delivered' \in [Runs -> [Ids -> [M -> Nat]]]
      /\ \A r \in Runs, i \in Ids, m \in M :
           delivered'[r][i][m] =
             IF r = q /\ i = j /\ m = k
             THEN delivered[r][i][m] + 1 ELSE delivered[r][i][m]
  BY <1>3, <1>4, <1>5, CountsOne
<1>. QED  BY <1>6 DEF q, j, k, M

LEMMA ListingKept ==
  ASSUME ListingInv, NEW b \in Bridges, UNCHANGED <<runs, outbox>>,
         bridge' \in [Bridges -> BridgeRecords],
         \A c \in Bridges : c # b => bridge'[c] = bridge[c],
         ListedInv(b)',
         \A c \in Bridges : botLock' = c <=> bridge'[c].pc # "off",
         delivered' \in [Runs -> [Ids -> [1..MaxMessages -> Nat]]],
         trouble' \in 0..MaxTrouble
  PROVE  ListingInv'
<1>. USE DEF runs
<1>1. TypeOK'
  BY DEF ListingInv, TypeOK, BridgeRecords, At
<1>2. \A r \in Runs : NoticeInv(r)'
  BY DEF ListingInv, NoticeInv
<1>3. ASSUME NEW c \in Bridges, c # b PROVE ListedInv(c)'
  <2>1. ListedInv(c) /\ bridge'[c] = bridge[c]
    BY <1>3 DEF ListingInv
  <2>2. Pending(c)' = Pending(c) /\ Payload(c)' = Payload(c)
    BY <2>1, SameList
  <2>. QED  BY <2>1, <2>2 DEF ListedInv
<1>. QED  BY <1>1, <1>2, <1>3 DEF ListingInv

(* A bridge that works keeps the lock. *)
LEMMA LockKept ==
  ASSUME ListingInv, NEW b \in Bridges, ~At(b, "off"), UNCHANGED botLock,
         \A c \in Bridges : c # b => bridge'[c] = bridge[c],
         bridge'[b].pc # "off"
  PROVE  \A c \in Bridges : botLock' = c <=> bridge'[c].pc # "off"
BY DEF ListingInv, TypeOK, At

LEMMA GoesOnListed ==
  ASSUME ListingInv, NEW b \in Bridges, Pending(b) # {}, NextRun(b),
         UNCHANGED <<runs, outbox>>
  PROVE  ListedInv(b)'
<1>. USE DEF runs
<1>1. ListedInv(b)
  BY DEF ListingInv
<1>. QED  BY <1>1, GoesOn, NoNoticeIsNotice DEF ListedInv

LEMMA ControllerKeepsListing ==
  ASSUME ListingInv, NEW r \in Runs, Controller(r)
  PROVE  ListingInv'
<1>1. CASE Block(r) \/ Approve(r) \/ Die(r) \/ Resume(r)
  <2>1. UNCHANGED <<notices, outbox, bridge, botLock, delivered, trouble>>
    BY <1>1 DEF Block, Approve, Conclude, Die, Resume
  <2>2. TypeOK'
    <3>1. /\ status' \in [Runs -> {"running", "BLOCKED", "APPROVED"}]
          /\ controller' \in [Runs -> {"working", "gone"} \cup Kinds]
      <4>1. /\ status \in [Runs -> {"running", "BLOCKED", "APPROVED"}]
            /\ controller \in [Runs -> {"working", "gone"} \cup Kinds]
        BY DEF ListingInv, TypeOK
      <4>2. /\ \/ UNCHANGED status
               \/ \E new \in {"running", "BLOCKED", "APPROVED"} :
                    status' = [status EXCEPT ![r] = new]
            /\ \E new \in {"working", "gone"} \cup Kinds :
                 controller' = [controller EXCEPT ![r] = new]
        BY <1>1 DEF Block, Approve, Conclude, Die, Resume, Kinds
      <4>. QED  BY <4>1, <4>2
    <3>. QED  BY <2>1, <3>1 DEF ListingInv, TypeOK, At
  <2>3. \A q \in Runs : controller'[q] \in Kinds => notices[q] < MaxNotices
    BY <1>1 DEF Block, Approve, Conclude, Die, Resume, ListingInv, TypeOK,
       NoticeInv, Kinds
  <2>4. \A q \in Runs : NoticeInv(q)'
    BY <2>1, <2>3 DEF ListingInv, NoticeInv
  <2>5. \A b \in Bridges : ListedInv(b)'
    BY <2>1, SameList DEF ListingInv, ListedInv
  <2>. QED  BY <2>2, <2>4, <2>5 DEF ListingInv
<1>2. CASE Enqueue(r)
  <2>1. PICK n \in Parts \cup {0} :
          outbox' = [outbox EXCEPT
            ![r] = [id |-> notices[r] + 1, kind |-> controller[r],
                    parts |-> n, sent |-> 0, done |-> FALSE]]
    BY <1>2 DEF Enqueue
  <2>. DEFINE new == [id |-> notices[r] + 1, kind |-> controller[r],
                      parts |-> n, sent |-> 0, done |-> FALSE]
  <2>2. /\ notices \in [Runs -> 0..MaxNotices]
        /\ notices[r] < MaxNotices /\ controller[r] \in Kinds
    BY <1>2 DEF Enqueue, ListingInv, TypeOK, NoticeInv
  <2>3. new \in Notices
    BY <2>1, <2>2, PartsAreCounted DEF Notices
  <2>4. /\ notices' = [notices EXCEPT ![r] = notices[r] + 1]
        /\ controller' = [controller EXCEPT ![r] = "gone"]
        /\ UNCHANGED <<status, bridge, botLock, delivered, trouble>>
    BY <1>2 DEF Enqueue
  <2>5. TypeOK'
    BY <2>1, <2>2, <2>3, <2>4 DEF ListingInv, TypeOK, At
  <2>6. ASSUME NEW q \in Runs PROVE NoticeInv(q)'
    <3>1. CASE q = r
      <4>1. /\ outbox'[r] = new /\ notices'[r] = notices[r] + 1
            /\ controller'[r] = "gone" /\ notices[r] \in Nat
        BY <2>1, <2>2, <2>4 DEF ListingInv, TypeOK
      <4>2. Messages(new) \in 1..MaxMessages
        BY <2>3, MessagesAreCounted
      <4>3. 0 <= Messages(new)
        BY <4>2, PartsAreCounted
      <4>. HIDE DEF new
      <4>4. new.id = notices[r] + 1 /\ new.sent = 0 /\ ~new.done
        BY DEF new
      <4>. QED  BY <3>1, <4>1, <4>3, <4>4 DEF NoticeInv, Kinds, Messages
    <3>2. CASE q # r
      BY <2>1, <2>4, <3>2 DEF ListingInv, TypeOK, NoticeInv
    <3>. QED  BY <3>1, <3>2
  <2>7. ASSUME NEW b \in Bridges PROVE ListedInv(b)'
    <3>1. ListedInv(b)
      BY DEF ListingInv
    <3>2. \A q \in Runs :
            ~bridge[b].listed[q].done =>
              /\ bridge[b].listed[q].id \in 1..notices'[q]
              /\ bridge[b].listed[q].id = outbox'[q].id =>
                   bridge[b].listed[q] = outbox'[q]
      BY <2>1, <2>2, <2>4, <3>1 DEF ListedInv, ListingInv, TypeOK
    <3>. QED
      BY <2>4, <3>1, <3>2, SameList DEF ListedInv
  <2>. QED  BY <2>5, <2>6, <2>7 DEF ListingInv
<1>. QED  BY <1>1, <1>2 DEF Controller

LEMMA SendingKeepsListing ==
  ASSUME ListingInv, NEW b \in Bridges,
         SendAnswered(b) \/ SendUnanswered(b) \/ SendRefused(b)
  PROVE  ListingInv'
<1>1. /\ Unsent(b) /\ Pending(b) # {} /\ ~At(b, "off")
      /\ UNCHANGED <<runs, outbox, botLock>>
  BY DEF SendAnswered, SendUnanswered, SendRefused, Unsent, At
<1>2. /\ delivered' \in [Runs -> [Ids -> [1..MaxMessages -> Nat]]]
      /\ trouble' \in 0..MaxTrouble
  BY <1>1, Delivers
     DEF SendAnswered, SendUnanswered, SendRefused, ListingInv, TypeOK
<1>3. CASE SendAnswered(b)
  <2>1. bridge' = [bridge EXCEPT ![b].pc = "mark"]
    BY <1>3 DEF SendAnswered
  <2>2. /\ bridge' \in [Bridges -> BridgeRecords]
        /\ bridge'[b].pc = "mark" /\ bridge'[b].listed = bridge[b].listed
        /\ \A c \in Bridges : c # b => bridge'[c] = bridge[c]
    BY <2>1, BridgeSets
  <2>3. Pending(b)' = Pending(b) /\ Payload(b)' = Payload(b)
    BY <2>2, SameList
  <2>4. Messages(Payload(b))' = Messages(Payload(b))
    BY <2>3 DEF Messages
  <2>5. ListedInv(b)'
    BY <1>1, <2>2, <2>3, <2>4 DEF ListingInv, ListedInv, Unsent, runs
  <2>. QED  BY <1>1, <1>2, <2>2, <2>5, ListingKept, LockKept
<1>4. CASE NextRun(b)
  BY <1>1, <1>2, <1>4, GoesOn, GoesOnListed, ListingKept, LockKept
<1>. QED
  BY <1>3, <1>4 DEF SendAnswered, SendUnanswered, SendRefused

LEMMA ResettingKeepsListing ==
  ASSUME ListingInv, NEW b \in Bridges,
         Start(b) \/ EndCycle(b) \/ Crash(b)
  PROVE  ListingInv'
<1>1. /\ UNCHANGED <<runs, outbox, delivered>>
      /\ delivered' \in [Runs -> [Ids -> [1..MaxMessages -> Nat]]]
      /\ trouble' \in 0..MaxTrouble
  BY DEF Start, EndCycle, Crash, ListingInv, TypeOK
<1>2. PICK label \in {"off", "list"} :
        /\ bridge' = [bridge EXCEPT ![b] = [Off EXCEPT !.pc = label]]
        /\ label = "off" <=> Crash(b)
  <2>1. CASE Start(b)
    <3>1. bridge[b] = Off
      BY <2>1 DEF Start, ListingInv, ListedInv, At, Off
    <3>2. bridge' = [bridge EXCEPT ![b] = [Off EXCEPT !.pc = "list"]]
      BY <2>1, <3>1 DEF Start, ListingInv, TypeOK
    <3>. QED  BY <2>1, <3>2 DEF Start, Crash, At
  <2>2. CASE EndCycle(b) /\ ~Crash(b)
    BY <2>2 DEF EndCycle
  <2>3. CASE Crash(b)
    <3>1. Off = [Off EXCEPT !.pc = "off"]
      BY DEF Off
    <3>. QED  BY <2>3, <3>1 DEF Crash
  <2>. QED  BY <2>1, <2>2, <2>3
<1>. DEFINE new == [Off EXCEPT !.pc = label]
<1>3. /\ new \in BridgeRecords /\ new.pc = label
      /\ \A r \in Runs : new.listed[r] = NoNotice
  BY OffIsBridge
<1>4. /\ bridge' \in [Bridges -> BridgeRecords] /\ bridge'[b] = new
      /\ \A c \in Bridges : c # b => bridge'[c] = bridge[c]
  BY <1>2, <1>3, BridgeBecomes
<1>5. ListedInv(b)'
  BY <1>3, <1>4, NoNoticeIsNotice DEF ListedInv
<1>6. \A c \in Bridges : botLock' = c <=> bridge'[c].pc # "off"
  <2>1. \A c \in Bridges : c # b => bridge[c].pc = "off"
    BY OthersAreOff DEF Start, EndCycle, Crash, At
  <2>2. botLock' = IF label = "off" THEN "none" ELSE b
    BY <1>2 DEF Start, EndCycle, Crash, At, ListingInv, TypeOK
  <2>. QED  BY <1>3, <1>4, <2>1, <2>2
<1>. QED  BY <1>1, <1>4, <1>5, <1>6, ListingKept

LEMMA ListKeepsListing ==
  ASSUME ListingInv, NEW b \in Bridges, List(b)
  PROVE  ListingInv'
<1>1. /\ ~At(b, "off") /\ UNCHANGED <<runs, outbox, botLock, delivered, trouble>>
      /\ bridge' = [bridge EXCEPT ![b] = [pc |-> "send", listed |-> outbox]]
  BY DEF List, At
<1>2. /\ [pc |-> "send", listed |-> outbox] \in BridgeRecords
      /\ delivered \in [Runs -> [Ids -> [1..MaxMessages -> Nat]]]
      /\ trouble \in 0..MaxTrouble
      /\ notices \in [Runs -> 0..MaxNotices]
  BY DEF ListingInv, TypeOK, BridgeRecords
<1>3. /\ bridge' \in [Bridges -> BridgeRecords]
      /\ bridge'[b].pc = "send" /\ bridge'[b].listed = outbox
      /\ \A c \in Bridges : c # b => bridge'[c] = bridge[c]
  BY <1>1, <1>2, BridgeBecomes
<1>4. \A r \in Runs :
        ~outbox[r].done =>
          outbox[r].id \in 1..notices[r]
            /\ outbox[r].sent <= Messages(outbox[r])
  BY <1>2, NoNoticeIsNotice DEF ListingInv, NoticeInv
<1>5. ListedInv(b)'
  BY <1>1, <1>3, <1>4 DEF ListedInv, runs
<1>. QED  BY <1>1, <1>2, <1>3, <1>5, LockKept, ListingKept

(* The notice being sent is still the one in the outbox, or was replaced.  *)
LEMMA SameIsSame ==
  ASSUME ListingInv, NEW b \in Bridges, Pending(b) # {},
         SameNotice(Current(b), Payload(b))
  PROVE  outbox[Current(b)] = Payload(b) /\ ~outbox[Current(b)].done
<1>1. /\ Current(b) \in Runs /\ ~Payload(b).done
      /\ Payload(b) = bridge[b].listed[Current(b)]
  BY CurrentIsPending
<1>2. Payload(b).id = outbox[Current(b)].id => Payload(b) = outbox[Current(b)]
  BY <1>1, WhatIsListed
<1>. QED  BY <1>1, <1>2 DEF SameNotice

(* What a bridge changes in the outbox, others have not listed.            *)
LEMMA OthersListed ==
  ASSUME ListingInv, NEW b \in Bridges, ~At(b, "off"), UNCHANGED runs,
         bridge' \in [Bridges -> BridgeRecords],
         \A c \in Bridges : c # b => bridge'[c] = bridge[c]
  PROVE  \A c \in Bridges : c # b => ListedInv(c)'
<1>. SUFFICES ASSUME NEW c \in Bridges, c # b PROVE ListedInv(c)'
  OBVIOUS
<1>1. bridge'[c] = Off
  BY OthersAreOff
<1>2. Off.pc = "off" /\ [Off EXCEPT !.pc = "off"] = Off
  BY DEF Off
<1>3. \A r \in Runs : Off.listed[r].done
  BY NoNoticeIsNotice DEF Off
<1>. QED  BY <1>1, <1>2, <1>3 DEF ListedInv

(* A chunk that was answered is recorded in the outbox and in the list.    *)
LEMMA MarksMessage ==
  ASSUME ListingInv, NEW b \in Bridges, MarkMessage(b),
         SameNotice(Current(b), Payload(b))
  PROVE  LET r == Current(b)
             new == Advanced(Payload(b)) IN
         /\ outbox[r] = Payload(b) /\ new \in Notices /\ ~new.done
         /\ new.id = Payload(b).id /\ new.sent = Payload(b).sent + 1
         /\ Messages(new) = Messages(Payload(b)) /\ new.sent <= Messages(new)
         /\ bridge' \in [Bridges -> BridgeRecords]
         /\ bridge'[b].pc = "send"
         /\ \A c \in Bridges : c # b => bridge'[c] = bridge[c]
         /\ outbox' = [outbox EXCEPT ![r] = new]
         /\ \A q \in Runs :
              /\ bridge'[b].listed[q] =
                   IF q = r THEN new ELSE bridge[b].listed[q]
              /\ outbox'[q] = IF q = r THEN new ELSE outbox[q]
<1>. DEFINE r == Current(b)
            new == Advanced(Payload(b))
<1>1. /\ Pending(b) # {} /\ Payload(b).sent < Messages(Payload(b))
  BY DEF MarkMessage, At, ListingInv, ListedInv
<1>2. outbox \in [Runs -> Notices] /\ bridge[b] \in BridgeRecords
  BY DEF ListingInv, TypeOK, BridgeRecords
<1>3. /\ r \in Runs /\ Payload(b) \in Notices
      /\ Payload(b) = bridge[b].listed[r] /\ ~Payload(b).done
      /\ Payload(b).sent + 1 \in 1..MaxMessages
      /\ Messages(Payload(b)) \in 1..MaxMessages
      /\ Payload(b).sent \in Nat
  BY <1>1, NextMessage, MessagesAreCounted DEF Notices
<1>4. outbox[r] = Payload(b) /\ ~outbox[r].done
  BY <1>1, SameIsSame
<1>5. /\ new \in Notices /\ new.sent = Payload(b).sent + 1 /\ ~new.done
      /\ new.id = Payload(b).id /\ Messages(new) = Messages(Payload(b))
      /\ new.sent <= Messages(new)
  BY <1>1, <1>3 DEF Advanced, Notices, Messages
<1>6. /\ outbox' = [outbox EXCEPT ![r] = new]
      /\ bridge' = [bridge EXCEPT ![b].pc = "send", ![b].listed[r] = new]
  BY <1>3, <1>4 DEF MarkMessage, PersistedChunk, Payload
<1>. HIDE DEF r, new
<1>7. /\ bridge' \in [Bridges -> BridgeRecords]
      /\ bridge'[b].pc = "send"
      /\ bridge'[b].listed = [bridge[b].listed EXCEPT ![r] = new]
      /\ \A c \in Bridges : c # b => bridge'[c] = bridge[c]
  BY <1>2, <1>3, <1>5, <1>6 DEF ListingInv, TypeOK, BridgeRecords
<1>8. \A q \in Runs :
        /\ bridge'[b].listed[q] =
             IF q = r THEN new ELSE bridge[b].listed[q]
        /\ outbox'[q] = IF q = r THEN new ELSE outbox[q]
  BY <1>2, <1>3, <1>6, <1>7 DEF BridgeRecords
<1>. QED  BY <1>4, <1>5, <1>6, <1>7, <1>8 DEF r, new

LEMMA MarkMessageKeepsListing ==
  ASSUME ListingInv, NEW b \in Bridges, MarkMessage(b)
  PROVE  ListingInv'
<1>. DEFINE r == Current(b)
            new == Advanced(Payload(b))
<1>1. /\ At(b, "mark") /\ ~At(b, "off") /\ Pending(b) # {}
      /\ UNCHANGED <<runs, botLock, delivered, trouble>>
  BY DEF MarkMessage, At, ListingInv, ListedInv
<1>2. /\ delivered \in [Runs -> [Ids -> [1..MaxMessages -> Nat]]]
      /\ trouble \in 0..MaxTrouble /\ outbox \in [Runs -> Notices]
  BY DEF ListingInv, TypeOK
<1>3. /\ r \in Runs /\ Payload(b) = bridge[b].listed[r] /\ ~Payload(b).done
      /\ Payload(b).id \in Ids
  BY <1>1, NextMessage
<1>4. CASE NextRun(b) /\ UNCHANGED outbox
  BY <1>1, <1>2, <1>4, GoesOn, GoesOnListed, ListingKept, LockKept
<1>5. CASE SameNotice(r, Payload(b))
  <2>1. /\ outbox[r] = Payload(b) /\ new \in Notices /\ ~new.done
        /\ new.id = Payload(b).id
        /\ Messages(new) = Messages(Payload(b)) /\ new.sent <= Messages(new)
        /\ bridge' \in [Bridges -> BridgeRecords]
        /\ bridge'[b].pc = "send"
        /\ \A c \in Bridges : c # b => bridge'[c] = bridge[c]
        /\ outbox' = [outbox EXCEPT ![r] = new]
        /\ \A q \in Runs :
             /\ bridge'[b].listed[q] =
                  IF q = r THEN new ELSE bridge[b].listed[q]
             /\ outbox'[q] = IF q = r THEN new ELSE outbox[q]
    BY <1>5, MarksMessage
  <2>. HIDE DEF r, new
  <2>2. TypeOK'
    <3>1. outbox' \in [Runs -> Notices]
      BY <1>2, <2>1
    <3>2. \A c \in Bridges : botLock' = c <=> bridge'[c].pc # "off"
      BY <1>1, <2>1, LockKept
    <3>. QED
      BY <1>1, <2>1, <3>1, <3>2
         DEF ListingInv, TypeOK, BridgeRecords, At, runs
  <2>3. ASSUME NEW q \in Runs PROVE NoticeInv(q)'
    <3>1. NoticeInv(q) /\ (q = r => new.id = outbox[q].id /\ new.id # 0)
      BY <1>3, <2>1 DEF ListingInv, Ids
    <3>2. notices'[q] = notices[q] /\ controller'[q] = controller[q]
      BY <1>1 DEF runs
    <3>3. Messages(outbox'[q]) = Messages(outbox[q])
      BY <2>1
    <3>4. Messages(outbox[q])' = Messages(outbox[q])
      BY <3>3 DEF Messages
    <3>. QED  BY <2>1, <3>1, <3>2, <3>4 DEF NoticeInv
  <2>4. ListedInv(b)'
    <3>1. ASSUME NEW q \in Runs, ~bridge'[b].listed[q].done
          PROVE  /\ bridge'[b].listed[q].id \in 1..notices'[q]
                 /\ bridge'[b].listed[q].sent <= Messages(bridge'[b].listed[q])
                 /\ bridge'[b].listed[q].id = outbox'[q].id =>
                      bridge'[b].listed[q] = outbox'[q]
      <4>1. CASE q = r
        <5>1. new.id \in 1..notices[q]
          BY <1>3, <2>1, <4>1, WhatIsListed
        <5>. QED  BY <1>1, <2>1, <4>1, <5>1 DEF runs
      <4>2. CASE q # r
        BY <1>1, <2>1, <3>1, <4>2, WhatIsListed DEF runs
      <4>. QED  BY <4>1, <4>2
    <3>. QED  BY <2>1, <3>1 DEF ListedInv, Messages
  <2>. QED
    BY <1>1, <2>1, <2>2, <2>3, <2>4, OthersListed DEF ListingInv
<1>. QED  BY <1>4, <1>5 DEF MarkMessage

LEMMA MarkNoticeKeepsListing ==
  ASSUME ListingInv, NEW b \in Bridges, MarkNotice(b)
  PROVE  ListingInv'
<1>. DEFINE r == Current(b)
<1>1. /\ ~At(b, "off") /\ Pending(b) # {} /\ NextRun(b)
      /\ ~(Payload(b).sent < Messages(Payload(b)))
      /\ UNCHANGED <<runs, botLock, delivered, trouble>>
      /\ outbox' = IF SameNotice(r, Payload(b))
                   THEN [outbox EXCEPT ![r].done = TRUE] ELSE outbox
  BY DEF MarkNotice, At, Unsent
<1>2. /\ delivered \in [Runs -> [Ids -> [1..MaxMessages -> Nat]]]
      /\ trouble \in 0..MaxTrouble /\ outbox \in [Runs -> Notices]
  BY DEF ListingInv, TypeOK
<1>3. /\ r \in Runs /\ Payload(b) \in Notices
      /\ Payload(b) = bridge[b].listed[r] /\ ~Payload(b).done
      /\ Messages(Payload(b)) \in 1..MaxMessages
      /\ Payload(b).sent \in Nat
      /\ Payload(b).sent <= Messages(Payload(b))
  <2>1. /\ r \in Runs /\ Payload(b) \in Notices
        /\ Payload(b) = bridge[b].listed[r] /\ ~Payload(b).done
    BY <1>1, NextMessage
  <2>. QED  BY <2>1, MessagesAreCounted, WhatIsListed DEF Notices
<1>4. CASE UNCHANGED outbox
  BY <1>1, <1>2, <1>4, GoesOn, GoesOnListed, ListingKept, LockKept
<1>5. CASE SameNotice(r, Payload(b))
  <2>. DEFINE new == [outbox[r] EXCEPT !.done = TRUE]
  <2>1. outbox[r] = Payload(b)
    BY <1>1, <1>5, SameIsSame
  <2>2. /\ new \in Notices /\ new.sent = Payload(b).sent /\ new.done
        /\ new.id = Payload(b).id /\ Messages(new) = Messages(Payload(b))
        /\ new.sent = Messages(new)
    <3>1. Messages(Payload(b)) \in Nat
      BY <1>3, PartsAreCounted
    <3>2. Payload(b).sent = Messages(Payload(b))
      BY <1>1, <1>3, <3>1
    <3>3. /\ new \in Notices /\ new.sent = Payload(b).sent /\ new.done
          /\ new.id = Payload(b).id /\ new.kind = Payload(b).kind
          /\ new.parts = Payload(b).parts
      BY <1>3, <2>1 DEF Notices
    <3>4. Messages(new) = Messages(Payload(b))
      BY <3>3 DEF Messages
    <3>. QED  BY <3>2, <3>3, <3>4
  <2>3. outbox' = [outbox EXCEPT ![r] = new]
    BY <1>1, <1>5
  <2>4. /\ bridge' \in [Bridges -> BridgeRecords] /\ bridge'[b].pc = "send"
        /\ bridge'[b].listed[r] = NoNotice
        /\ \A q \in Runs : q # r => bridge'[b].listed[q] = bridge[b].listed[q]
        /\ \A c \in Bridges : c # b => bridge'[c] = bridge[c]
    BY <1>1, GoesOn
  <2>. HIDE DEF r, new
  <2>5. \A q \in Runs : outbox'[q] = IF q = r THEN new ELSE outbox[q]
    BY <1>2, <1>3, <2>3
  <2>6. TypeOK'
    <3>1. outbox' \in [Runs -> Notices]
      BY <1>2, <2>2, <2>3
    <3>2. \A c \in Bridges : botLock' = c <=> bridge'[c].pc # "off"
      BY <1>1, <2>4, LockKept
    <3>. QED
      BY <1>1, <2>4, <3>1, <3>2
         DEF ListingInv, TypeOK, BridgeRecords, At, runs
  <2>7. ASSUME NEW q \in Runs PROVE NoticeInv(q)'
    <3>1. NoticeInv(q) /\ (q = r => new.id = outbox[q].id /\ new.id # 0)
      BY <1>1, <1>3, <2>1, <2>2, NextMessage DEF ListingInv, r, Ids
    <3>2. notices'[q] = notices[q] /\ controller'[q] = controller[q]
      BY <1>1 DEF runs
    <3>3. Messages(outbox'[q]) = Messages(outbox[q])
      BY <2>1, <2>2, <2>5
    <3>4. Messages(outbox[q])' = Messages(outbox[q])
      BY <3>3 DEF Messages
    <3>. QED  BY <2>1, <2>2, <2>5, <3>1, <3>2, <3>4 DEF NoticeInv
  <2>8. ListedInv(b)'
    <3>1. ASSUME NEW q \in Runs, ~bridge'[b].listed[q].done
          PROVE  /\ q # r
                 /\ bridge'[b].listed[q].id \in 1..notices'[q]
                 /\ bridge'[b].listed[q].sent <= Messages(bridge'[b].listed[q])
                 /\ bridge'[b].listed[q].id = outbox'[q].id =>
                      bridge'[b].listed[q] = outbox'[q]
      <4>1. q # r
        BY <2>4, <3>1, NoNoticeIsNotice
      <4>. QED  BY <1>1, <2>4, <2>5, <3>1, <4>1, WhatIsListed DEF runs
    <3>. QED  BY <2>4, <3>1 DEF ListedInv, Messages
  <2>. QED
    BY <1>1, <2>4, <2>6, <2>7, <2>8, OthersListed DEF ListingInv
<1>. QED  BY <1>1, <1>4, <1>5

LEMMA ListingStep == ListingInv /\ [Next]_vars => ListingInv'
<1>. SUFFICES ASSUME ListingInv, [Next]_vars PROVE ListingInv'
  OBVIOUS
<1>1. CASE UNCHANGED vars
  <2>1. UNCHANGED <<runs, outbox, bridge, botLock, delivered, trouble>>
    BY <1>1 DEF vars
  <2>2. \A b \in Bridges : ListedInv(b)'
    BY <2>1, SameList DEF ListingInv, ListedInv, runs
  <2>. QED  BY <2>1, <2>2 DEF ListingInv, TypeOK, NoticeInv, At, runs
<1>. QED
  BY <1>1, ControllerKeepsListing, SendingKeepsListing,
     ResettingKeepsListing, ListKeepsListing, MarkMessageKeepsListing,
     MarkNoticeKeepsListing DEF Next, Working

-----------------------------------------------------------------------------
(* What was delivered *)

(* No bridge but the working one is about to record anything.              *)
LEMMA NobodyElseMarks ==
  ASSUME ListingInv, NEW b \in Bridges, ~At(b, "off") \/ BotFree,
         \A c \in Bridges : c # b => bridge'[c] = bridge[c]
  PROVE  \A c \in Bridges : c # b =>
           /\ bridge'[c] = bridge[c] /\ ~At(c, "mark") /\ ~At(c, "mark")'
           /\ \A r \in Runs : bridge'[c].listed[r].done
BY OthersAreOff, NoNoticeIsNotice DEF At, Off

LEMMA DeliveredTyped ==
  ASSUME ListingInv
  PROVE  /\ trouble \in Nat
         /\ \A r \in Runs, i \in Ids, m \in 1..MaxMessages :
              delivered[r][i][m] \in Nat
<1>. DEFINE M == 1..MaxMessages
<1>1. /\ trouble \in 0..MaxTrouble
      /\ delivered \in [Runs -> [Ids -> [M -> Nat]]]
  BY DEF ListingInv, TypeOK
<1>. HIDE DEF M
<1>2. \A r \in Runs, i \in Ids, m \in M : delivered[r][i][m] \in Nat
  BY <1>1
<1>. QED  BY <1>1, <1>2 DEF M

(* A notice that is in the outbox or in a list has an id to be counted by. *)
LEMMA IdsAreIds ==
  ASSUME ListingInv, NEW r \in Runs
  PROVE  /\ notices[r] \in 0..MaxNotices /\ outbox[r].id = notices[r]
         /\ outbox[r].id > 0 => outbox[r].id \in Ids
         /\ outbox[r].sent \in 0..MaxMessages
         /\ \A b \in Bridges :
              ~bridge[b].listed[r].done => bridge[b].listed[r].id \in Ids
<1>1. notices[r] \in 0..MaxNotices /\ outbox[r].id = notices[r]
  BY DEF ListingInv, TypeOK, NoticeInv
<1>2. outbox[r].sent \in 0..MaxMessages
  BY DEF ListingInv, TypeOK, Notices
<1>3. \A b \in Bridges :
        ~bridge[b].listed[r].done => bridge[b].listed[r].id \in 1..notices[r]
  BY WhatIsListed
<1>. QED  BY <1>1, <1>2, <1>3 DEF Ids

(* Every other step of a bridge leaves it with nothing to record, and with *)
(* notices that it had listed, or that it lists now.                       *)
LEMMA MovesOn ==
  ASSUME ListingInv, NEW b \in Bridges,
         Working(b) \/ SendUnanswered(b) \/ Crash(b),
         ~SendAnswered(b),
         ~(MarkMessage(b) /\ SameNotice(Current(b), Payload(b)))
  PROVE  /\ \A c \in Bridges : ~At(c, "mark")'
         /\ \A c \in Bridges : c # b => ~At(c, "mark")
         /\ UNCHANGED runs
         /\ \A r \in Runs :
              outbox'[r].id = outbox[r].id /\ outbox'[r].sent = outbox[r].sent
         /\ \A c \in Bridges, r \in Runs :
              ~bridge'[c].listed[r].done =>
                /\ c = b
                /\ At(b, "mark") => r # Current(b)
                /\ \/ bridge'[b].listed[r] = bridge[b].listed[r]
                   \/ ~At(b, "mark") /\ bridge'[b].listed[r] = outbox[r]
<1>1. CASE \/ Pending(b) # {} /\ NextRun(b) /\ ~At(b, "off")
           \/ Start(b) \/ List(b) \/ EndCycle(b) \/ Crash(b)
  <2>1. /\ ~At(b, "off") \/ BotFree
        /\ \A c \in Bridges : c # b => bridge'[c] = bridge[c]
    <3>1. Pending(b) # {} /\ NextRun(b) =>
            \A c \in Bridges : c # b => bridge'[c] = bridge[c]
      BY GoesOn
    <3>. QED
      BY <1>1, <3>1
         DEF Start, List, EndCycle, Crash, At, ListingInv, TypeOK
  <2>2. /\ bridge'[b].pc # "mark"
        /\ \A r \in Runs :
             ~bridge'[b].listed[r].done =>
               /\ At(b, "mark") => r # Current(b)
               /\ \/ bridge'[b].listed[r] = bridge[b].listed[r]
                  \/ ~At(b, "mark") /\ bridge'[b].listed[r] = outbox[r]
    <3>1. CASE Pending(b) # {} /\ NextRun(b)
      BY <3>1, GoesOn, NoNoticeIsNotice
    <3>2. CASE Start(b)
      <4>1. bridge'[b].pc = "list" /\ bridge'[b].listed = bridge[b].listed
        BY <3>2, BridgeSets DEF Start
      <4>. QED  BY <3>2, <4>1 DEF Start, At
    <3>3. CASE List(b)
      BY <3>3 DEF List, At, ListingInv, TypeOK
    <3>4. CASE EndCycle(b) \/ Crash(b)
      <4>1. \A label \in {"off", "list"} :
              /\ [Off EXCEPT !.pc = label].pc # "mark"
              /\ \A r \in Runs : [Off EXCEPT !.pc = label].listed[r].done
        BY OffIsBridge, NoNoticeIsNotice
      <4>2. Off = [Off EXCEPT !.pc = "off"]
        BY DEF Off
      <4>3. \E label \in {"off", "list"} :
              bridge'[b] = [Off EXCEPT !.pc = label]
        BY <3>4, <4>2 DEF EndCycle, Crash, ListingInv, TypeOK
      <4>. QED  BY <4>1, <4>3
    <3>. QED  BY <1>1, <3>1, <3>2, <3>3, <3>4
  <2>3. \A c \in Bridges : c # b =>
          /\ ~At(c, "mark") /\ ~At(c, "mark")'
          /\ \A r \in Runs : bridge'[c].listed[r].done
    BY <2>1, NobodyElseMarks
  <2>4. UNCHANGED runs
    BY DEF Working, Start, List, SendRefused, MarkMessage, MarkNotice,
       EndCycle, SendUnanswered, Crash, SendAnswered
  <2>5. \A r \in Runs :
          outbox'[r].id = outbox[r].id /\ outbox'[r].sent = outbox[r].sent
    <3>1. UNCHANGED outbox \/ MarkNotice(b)
      BY DEF Working, Start, List, SendRefused, MarkMessage, EndCycle,
         SendUnanswered, Crash, SendAnswered
    <3>2. CASE MarkNotice(b)
      <4>1. /\ outbox \in [Runs -> Notices]
            /\ \/ UNCHANGED outbox
               \/ outbox' = [outbox EXCEPT ![Current(b)].done = TRUE]
        BY <3>2 DEF MarkNotice, ListingInv, TypeOK
      <4>. QED  BY <4>1 DEF Notices
    <3>. QED  BY <3>1, <3>2
  <2>. QED  BY <2>2, <2>3, <2>4, <2>5 DEF At
<1>2. CASE MarkMessage(b)
  <2>1. /\ ~At(b, "off") /\ Pending(b) # {} /\ NextRun(b)
    BY <1>2 DEF MarkMessage, At, ListingInv, ListedInv
  <2>. QED  BY <1>1, <2>1
<1>. QED
  BY <1>1, <1>2
     DEF Working, SendRefused, SendUnanswered, MarkNotice, Unsent, At

LEMMA SentHaveIds ==
  ASSUME ListingInv, NEW r \in Runs, NEW m \in 1..MaxMessages,
         m <= outbox[r].sent
  PROVE  outbox[r].id \in Ids
<1>1. outbox[r].id = 0 => outbox[r].sent = 0
  BY NoNoticeIsNotice DEF ListingInv, NoticeInv
<1>. QED  BY <1>1, IdsAreIds, PartsAreCounted

LEMMA ArrivedController ==
  ASSUME ListingInv, ArrivedInv, NEW r \in Runs, Controller(r)
  PROVE  ArrivedInv'
<1>1. UNCHANGED <<bridge, delivered>>
  BY DEF Controller, Block, Approve, Conclude, Enqueue, Die, Resume
<1>2. \A q \in Runs : outbox'[q] = outbox[q] \/ outbox'[q].sent = 0
  BY DEF Controller, Block, Approve, Conclude, Enqueue, Die, Resume,
     ListingInv, TypeOK
<1>3. \A q \in Runs, m \in 1..MaxMessages :
        m <= outbox'[q].sent => delivered'[q][outbox'[q].id][m] > 0
  BY <1>1, <1>2, PartsAreCounted DEF ArrivedInv, Received
<1>4. ASSUME NEW b \in Bridges, At(b, "mark")'
      PROVE  Received(Current(b), Payload(b).id, Payload(b).sent + 1)'
  <2>1. Current(b)' = Current(b) /\ Payload(b)' = Payload(b) /\ At(b, "mark")
    BY <1>1, <1>4, SameList DEF At
  <2>. QED  BY <1>1, <2>1 DEF ArrivedInv, Received
<1>. QED  BY <1>3, <1>4 DEF ArrivedInv, Received

LEMMA ArrivedBridge ==
  ASSUME ListingInv, ArrivedInv, NEW b \in Bridges,
         Working(b) \/ SendUnanswered(b) \/ Crash(b)
  PROVE  ArrivedInv'
<1>1. CASE MarkMessage(b) /\ SameNotice(Current(b), Payload(b))
  <2>. DEFINE r == Current(b)
              new == Advanced(Payload(b))
  <2>1. /\ outbox[r] = Payload(b) /\ new.id = Payload(b).id
        /\ new.sent = Payload(b).sent + 1
        /\ bridge'[b].pc = "send"
        /\ \A c \in Bridges : c # b => bridge'[c] = bridge[c]
        /\ \A q \in Runs : outbox'[q] = IF q = r THEN new ELSE outbox[q]
    BY <1>1, MarksMessage
  <2>2. /\ UNCHANGED delivered /\ At(b, "mark") /\ ~At(b, "off")
        /\ Pending(b) # {}
    BY <1>1 DEF MarkMessage, At, ListingInv, ListedInv
  <2>3. r \in Runs /\ Payload(b).sent \in Nat
    BY <2>2, NextMessage, PartsAreCounted
  <2>4. Received(r, Payload(b).id, Payload(b).sent + 1)
    BY <2>2 DEF ArrivedInv
  <2>. HIDE DEF r, new
  <2>5. ASSUME NEW q \in Runs, NEW m \in 1..MaxMessages,
               m <= outbox'[q].sent
        PROVE  delivered'[q][outbox'[q].id][m] > 0
    <3>1. CASE q = r /\ m = Payload(b).sent + 1
      BY <2>1, <2>2, <2>4, <3>1 DEF Received
    <3>2. CASE ~(q = r /\ m = Payload(b).sent + 1)
      <4>1. m <= outbox[q].sent /\ outbox'[q].id = outbox[q].id
        BY <2>1, <2>3, <2>5, <3>2, PartsAreCounted
      <4>. QED  BY <2>2, <4>1 DEF ArrivedInv, Received
    <3>. QED  BY <3>1, <3>2
  <2>6. \A c \in Bridges : ~At(c, "mark")'
    BY <2>1, <2>2, NobodyElseMarks DEF At
  <2>. QED  BY <2>5, <2>6 DEF ArrivedInv, Received
<1>2. CASE SendAnswered(b)
  <2>1. /\ Unsent(b) /\ Deliver(b) /\ UNCHANGED outbox
        /\ bridge' = [bridge EXCEPT ![b].pc = "mark"]
        /\ ~At(b, "off") /\ Pending(b) # {}
    BY <1>2 DEF SendAnswered, Unsent, At
  <2>2. /\ bridge'[b].listed = bridge[b].listed
        /\ \A c \in Bridges : c # b => bridge'[c] = bridge[c]
    BY <2>1, BridgeSets
  <2>3. Current(b)' = Current(b) /\ Payload(b)' = Payload(b)
    BY <2>2, SameList
  <2>4. \A r \in Runs, i \in Ids, m \in 1..MaxMessages :
          delivered'[r][i][m] =
            IF r = Current(b) /\ i = Payload(b).id /\ m = Payload(b).sent + 1
            THEN delivered[r][i][m] + 1 ELSE delivered[r][i][m]
    BY <2>1, Delivers
  <2>5. /\ Current(b) \in Runs /\ Payload(b).id \in Ids
        /\ Payload(b).sent + 1 \in 1..MaxMessages
    BY <2>1, NextMessage DEF Unsent
  <2>6. \A r \in Runs, i \in Ids, m \in 1..MaxMessages :
          delivered[r][i][m] > 0 => delivered'[r][i][m] > 0
    BY <2>4, DeliveredTyped
  <2>7. Received(Current(b), Payload(b).id, Payload(b).sent + 1)'
    BY <2>3, <2>4, <2>5, DeliveredTyped DEF Received
  <2>8. \A r \in Runs, m \in 1..MaxMessages :
          m <= outbox'[r].sent => delivered'[r][outbox'[r].id][m] > 0
    BY <2>1, <2>6, SentHaveIds DEF ArrivedInv, Received
  <2>9. \A c \in Bridges : c # b => ~At(c, "mark")'
    BY <2>1, <2>2, NobodyElseMarks
  <2>. QED  BY <2>7, <2>8, <2>9 DEF ArrivedInv, Received
<1>3. ASSUME ~SendAnswered(b),
             ~(MarkMessage(b) /\ SameNotice(Current(b), Payload(b)))
      PROVE  ArrivedInv'
  <2>1. /\ \A c \in Bridges : ~At(c, "mark")'
        /\ \A r \in Runs :
             outbox'[r].id = outbox[r].id /\ outbox'[r].sent = outbox[r].sent
    BY <1>3, MovesOn
  <2>2. \A r \in Runs, i \in Ids, m \in 1..MaxMessages :
          delivered[r][i][m] > 0 => delivered'[r][i][m] > 0
    <3>1. CASE UNCHANGED delivered
      BY <3>1
    <3>2. CASE SendUnanswered(b)
      <4>1. \A r \in Runs, i \in Ids, m \in 1..MaxMessages :
              delivered'[r][i][m] \in {delivered[r][i][m],
                                      delivered[r][i][m] + 1}
        BY <3>2, Delivers DEF SendUnanswered
      <4>. QED  BY <4>1, DeliveredTyped
    <3>. QED
      BY <1>3, <3>1, <3>2 DEF Working, Start, List, SendRefused, MarkMessage,
         MarkNotice, EndCycle, Crash
  <2>3. \A r \in Runs, m \in 1..MaxMessages :
          m <= outbox[r].sent => delivered'[r][outbox[r].id][m] > 0
    BY <2>2, SentHaveIds DEF ArrivedInv, Received
  <2>. QED  BY <2>1, <2>3 DEF ArrivedInv, Received
<1>. QED  BY <1>1, <1>2, <1>3

LEMMA DeliveredNext ==
  ASSUME ListingInv'
  PROVE  \A r \in Runs, i \in Ids, m \in 1..MaxMessages :
           delivered'[r][i][m] \in Nat
<1>. DEFINE M == 1..MaxMessages
<1>1. delivered' \in [Runs -> [Ids -> [M -> Nat]]]
  BY DEF ListingInv, TypeOK
<1>. HIDE DEF M
<1>2. \A r \in Runs, i \in Ids, m \in M : delivered'[r][i][m] \in Nat
  BY <1>1
<1>. QED  BY <1>2 DEF M

(* When a step got into trouble, every count is explained by it.           *)
LEMMA TroubleExplains ==
  ASSUME ListingInv, ListingInv', CountedInv, NEW b \in Bridges,
         SendUnanswered(b) \/ Crash(b)
  PROVE  CountedInv'
<1>1. trouble' = trouble + 1 /\ trouble \in Nat /\ UNCHANGED runs
  BY DeliveredTyped DEF SendUnanswered, Crash
<1>2. \A r \in Runs, i \in Ids, m \in 1..MaxMessages :
        delivered'[r][i][m] <= trouble + 1
  <2>1. CASE Crash(b)
    BY <2>1, DeliveredTyped DEF Crash, CountedInv, DuplicatesAreExplained
  <2>2. CASE SendUnanswered(b)
    <3>1. /\ Unsent(b) /\ Deliver(b) /\ Pending(b) # {} /\ ~At(b, "mark")
      BY <2>2 DEF SendUnanswered, Unsent, At
    <3>2. \A r \in Runs, i \in Ids, m \in 1..MaxMessages :
            delivered'[r][i][m] =
              IF r = Current(b) /\ i = Payload(b).id /\ m = Payload(b).sent + 1
              THEN delivered[r][i][m] + 1 ELSE delivered[r][i][m]
      BY <3>1, Delivers
    <3>3. /\ Current(b) \in Runs /\ Payload(b).id \in Ids
          /\ Payload(b).sent + 1 \in 1..MaxMessages
          /\ Payload(b) = bridge[b].listed[Current(b)] /\ ~Payload(b).done
          /\ Payload(b).sent \in Nat
      BY <3>1, NextMessage, PartsAreCounted DEF Unsent
    <3>4. delivered[Current(b)][Payload(b).id][Payload(b).sent + 1] <= trouble
      BY <3>1, <3>3 DEF CountedInv, Marking
    <3>. QED
      BY <1>1, <3>2, <3>4, DeliveredTyped
         DEF CountedInv, DuplicatesAreExplained
  <2>. QED  BY <2>1, <2>2
<1>3. \A r \in Runs, i \in Ids, m \in 1..MaxMessages :
        i > notices[r] => delivered'[r][i][m] = 0
  <2>1. CASE Crash(b)
    BY <2>1 DEF Crash, CountedInv
  <2>2. CASE SendUnanswered(b)
    <3>1. Unsent(b) /\ Deliver(b) /\ Pending(b) # {}
      BY <2>2 DEF SendUnanswered, Unsent
    <3>2. /\ Payload(b).id <= notices[Current(b)] /\ Payload(b).id \in Nat
          /\ Current(b) \in Runs
      BY <3>1, NextMessage DEF Ids
    <3>3. \A r \in Runs : notices[r] \in Nat
      BY IdsAreIds
    <3>4. \A r \in Runs, i \in Ids, m \in 1..MaxMessages :
            i > notices[r] => delivered'[r][i][m] = delivered[r][i][m]
      BY <3>1, <3>2, <3>3, Delivers DEF Ids
    <3>. QED  BY <3>4 DEF CountedInv
  <2>. QED  BY <2>1, <2>2
<1>4. \A r \in Runs :
        /\ outbox'[r].id > 0 => outbox'[r].id \in Ids
        /\ \A c \in Bridges :
             ~bridge'[c].listed[r].done => bridge'[c].listed[r].id \in Ids
  <2>. SUFFICES ASSUME NEW r \in Runs
                PROVE  /\ outbox'[r].id > 0 => outbox'[r].id \in Ids
                       /\ \A c \in Bridges :
                            ~bridge'[c].listed[r].done =>
                              bridge'[c].listed[r].id \in Ids
    OBVIOUS
  <2>1. outbox'[r].id = notices'[r] /\ notices'[r] \in 0..MaxNotices
    BY DEF ListingInv, TypeOK, NoticeInv
  <2>2. ASSUME NEW c \in Bridges, ~bridge'[c].listed[r].done
        PROVE  bridge'[c].listed[r].id \in 1..notices'[r]
    BY <2>2 DEF ListingInv, ListedInv
  <2>. QED  BY <2>1, <2>2 DEF Ids
<1>5. \A r \in Runs, i \in Ids, m \in 1..MaxMessages :
        delivered'[r][i][m] <= trouble' /\ delivered'[r][i][m] \in Nat
  BY <1>1, <1>2, DeliveredNext
<1>6. DuplicatesAreExplained'
  BY <1>1, <1>5 DEF DuplicatesAreExplained
<1>7. \A r \in Runs, i \in Ids, m \in 1..MaxMessages :
        i > notices'[r] => delivered'[r][i][m] = 0
  BY <1>1, <1>3 DEF runs
<1>8. \A r \in Runs, m \in 1..MaxMessages :
        outbox'[r].id > 0 => delivered'[r][outbox'[r].id][m] <= trouble'
  BY <1>4, <1>5
<1>9. \A c \in Bridges, r \in Runs, m \in 1..MaxMessages :
        ~bridge'[c].listed[r].done =>
          delivered'[r][bridge'[c].listed[r].id][m] <= trouble'
  BY <1>4, <1>5
<1>. QED  BY <1>6, <1>7, <1>8, <1>9 DEF CountedInv

LEMMA CountedController ==
  ASSUME ListingInv, CountedInv, NEW r \in Runs, Controller(r)
  PROVE  CountedInv'
<1>1. UNCHANGED <<bridge, delivered, trouble>>
  BY DEF Controller, Block, Approve, Conclude, Enqueue, Die, Resume
<1>2. \A q \in Runs :
        /\ notices[q] \in Nat
        /\ \/ outbox'[q] = outbox[q] /\ notices'[q] = notices[q]
           \/ /\ notices'[q] = notices[q] + 1 /\ outbox'[q].id = notices'[q]
              /\ notices'[q] \in Ids
  <2>1. CASE UNCHANGED <<outbox, notices>>
    BY <2>1, IdsAreIds
  <2>2. CASE Enqueue(r)
    <3>1. /\ outbox \in [Runs -> Notices]
          /\ notices \in [Runs -> 0..MaxNotices]
          /\ notices[r] < MaxNotices
      BY <2>2 DEF Enqueue, ListingInv, TypeOK, NoticeInv
    <3>2. PICK n \in Parts \cup {0} :
            outbox' = [outbox EXCEPT
              ![r] = [id |-> notices[r] + 1, kind |-> controller[r],
                      parts |-> n, sent |-> 0, done |-> FALSE]]
      BY <2>2 DEF Enqueue
    <3>3. notices' = [notices EXCEPT ![r] = notices[r] + 1]
      BY <2>2 DEF Enqueue
    <3>4. \A q \in Runs :
            IF q = r
            THEN notices'[q] = notices[q] + 1 /\ outbox'[q].id = notices[q] + 1
            ELSE notices'[q] = notices[q] /\ outbox'[q] = outbox[q]
      BY <3>1, <3>2, <3>3
    <3>. QED  BY <3>1, <3>4 DEF Ids
  <2>. QED
    BY <2>1, <2>2 DEF Controller, Block, Approve, Conclude, Die, Resume
<1>3. DuplicatesAreExplained'
  BY <1>1 DEF CountedInv, DuplicatesAreExplained
<1>4. \A b \in Bridges, q \in Runs, m \in 1..MaxMessages :
        Marking(b, q, m)' <=> Marking(b, q, m)
  <2>. SUFFICES ASSUME NEW b \in Bridges
                PROVE  \A q \in Runs, m \in 1..MaxMessages :
                         Marking(b, q, m)' <=> Marking(b, q, m)
    OBVIOUS
  <2>1. Current(b)' = Current(b)
    BY <1>1, SameList
  <2>. QED  BY <1>1, <2>1 DEF Marking, At
<1>5. ASSUME NEW q \in Runs, NEW i \in Ids, NEW m \in 1..MaxMessages,
             i > notices'[q]
      PROVE  delivered'[q][i][m] = 0
  BY <1>1, <1>2, <1>5 DEF CountedInv, Ids
<1>6. ASSUME NEW q \in Runs, NEW m \in 1..MaxMessages,
             outbox'[q].id > 0, m > outbox'[q].sent
      PROVE  \/ delivered'[q][outbox'[q].id][m] <= trouble'
             \/ \E b \in Bridges :
                  /\ Marking(b, q, m)'
                  /\ bridge'[b].listed[q].id = outbox'[q].id
  <2>1. CASE outbox'[q] = outbox[q]
    BY <1>1, <1>4, <1>6, <2>1 DEF CountedInv
  <2>2. CASE /\ notices'[q] = notices[q] + 1 /\ outbox'[q].id = notices'[q]
             /\ notices'[q] \in Ids
    <3>1. delivered[q][notices'[q]][m] = 0
      BY <1>2, <2>2 DEF CountedInv
    <3>. QED  BY <1>1, <2>2, <3>1, DeliveredTyped
  <2>. QED  BY <1>2, <2>1, <2>2
<1>7. ASSUME NEW b \in Bridges, NEW q \in Runs, NEW m \in 1..MaxMessages,
             ~bridge'[b].listed[q].done, m > bridge'[b].listed[q].sent
      PROVE  \/ delivered'[q][bridge'[b].listed[q].id][m] <= trouble'
             \/ Marking(b, q, m)'
  BY <1>1, <1>4, <1>7 DEF CountedInv
<1>. QED  BY <1>3, <1>5, <1>6, <1>7 DEF CountedInv

(* A message that was answered is about to be recorded. *)
LEMMA CountedAnswered ==
  ASSUME ListingInv, CountedInv, NEW b \in Bridges, SendAnswered(b)
  PROVE  CountedInv'
<1>. DEFINE q == Current(b)
            id == Payload(b).id
            next == Payload(b).sent + 1
<1>1. /\ Unsent(b) /\ Deliver(b) /\ UNCHANGED <<runs, outbox, trouble>>
      /\ bridge' = [bridge EXCEPT ![b].pc = "mark"]
      /\ ~At(b, "off") /\ ~At(b, "mark") /\ Pending(b) # {}
  BY DEF SendAnswered, Unsent, At
<1>2. /\ bridge'[b].listed = bridge[b].listed /\ bridge'[b].pc = "mark"
      /\ \A c \in Bridges : c # b => bridge'[c] = bridge[c]
  BY <1>1, BridgeSets
<1>3. Current(b)' = q /\ Payload(b)' = Payload(b)
  BY <1>2, SameList
<1>4. \A r \in Runs, i \in Ids, m \in 1..MaxMessages :
        delivered'[r][i][m] =
          IF r = q /\ i = id /\ m = next
          THEN delivered[r][i][m] + 1 ELSE delivered[r][i][m]
  BY <1>1, Delivers
<1>5. /\ q \in Runs /\ id \in Ids /\ next \in 1..MaxMessages
      /\ Payload(b) = bridge[b].listed[q] /\ ~Payload(b).done
      /\ Payload(b).sent \in Nat /\ id <= notices[q] /\ id \in Nat
  BY <1>1, NextMessage, PartsAreCounted DEF Unsent, Ids
<1>6. \A c \in Bridges : ~At(c, "mark")
  BY <1>1, <1>2, NobodyElseMarks
<1>7. /\ \A r \in Runs, m \in 1..MaxMessages :
           r = q /\ m = next => Marking(b, r, m)'
      /\ bridge'[b].listed[q].id = id
      /\ \A c \in Bridges : c # b =>
           \A r \in Runs : bridge'[c].listed[r].done
  BY <1>1, <1>2, <1>3, <1>5, NobodyElseMarks DEF Marking, At
<1>8. delivered[q][id][next] <= trouble
  BY <1>5, <1>6 DEF CountedInv, Marking
<1>. HIDE DEF q, id, next
<1>9. ASSUME NEW r \in Runs, NEW i \in Ids, NEW m \in 1..MaxMessages
      PROVE  /\ delivered'[r][i][m] <= 1 + trouble'
             /\ i > notices'[r] => delivered'[r][i][m] = 0
  <2>1. CASE r = q /\ i = id /\ m = next
    BY <1>1, <1>4, <1>5, <1>8, <2>1, DeliveredTyped, IdsAreIds DEF runs
  <2>2. CASE ~(r = q /\ i = id /\ m = next)
    BY <1>1, <1>4, <2>2 DEF CountedInv, DuplicatesAreExplained, runs
  <2>. QED  BY <2>1, <2>2
<1>10. ASSUME NEW r \in Runs, NEW m \in 1..MaxMessages,
              outbox'[r].id > 0, m > outbox'[r].sent
       PROVE  \/ delivered'[r][outbox'[r].id][m] <= trouble'
              \/ \E c \in Bridges :
                   /\ Marking(c, r, m)'
                   /\ bridge'[c].listed[r].id = outbox'[r].id
  <2>1. outbox[r].id \in Ids
    BY <1>1, <1>10, IdsAreIds
  <2>2. CASE r = q /\ outbox[r].id = id /\ m = next
    BY <1>1, <1>7, <2>2
  <2>3. CASE ~(r = q /\ outbox[r].id = id /\ m = next)
    <3>1. delivered[r][outbox[r].id][m] <= trouble
      BY <1>1, <1>6, <1>10 DEF CountedInv, Marking
    <3>. QED  BY <1>1, <1>4, <2>1, <2>3, <3>1
  <2>. QED  BY <2>2, <2>3
<1>11. ASSUME NEW c \in Bridges, NEW r \in Runs, NEW m \in 1..MaxMessages,
              ~bridge'[c].listed[r].done, m > bridge'[c].listed[r].sent
       PROVE  \/ delivered'[r][bridge'[c].listed[r].id][m] <= trouble'
              \/ Marking(c, r, m)'
  <2>1. c = b
    BY <1>7, <1>11
  <2>2. bridge[b].listed[r].id \in Ids
    BY <1>2, <1>11, <2>1, IdsAreIds
  <2>3. CASE r = q /\ bridge[b].listed[r].id = id /\ m = next
    BY <1>7, <2>1, <2>3
  <2>4. CASE ~(r = q /\ bridge[b].listed[r].id = id /\ m = next)
    <3>1. delivered[r][bridge[b].listed[r].id][m] <= trouble
      BY <1>2, <1>6, <1>11, <2>1 DEF CountedInv, Marking
    <3>. QED  BY <1>1, <1>2, <1>4, <2>1, <2>2, <2>4, <3>1
  <2>. QED  BY <2>3, <2>4
<1>. QED  BY <1>9, <1>10, <1>11 DEF CountedInv, DuplicatesAreExplained

(* What is recorded is no longer to be sent. *)
LEMMA CountedRecorded ==
  ASSUME ListingInv, CountedInv, NEW b \in Bridges, MarkMessage(b),
         SameNotice(Current(b), Payload(b))
  PROVE  CountedInv'
<1>. DEFINE q == Current(b)
            new == Advanced(Payload(b))
<1>1. /\ UNCHANGED <<runs, delivered, trouble>>
      /\ At(b, "mark") /\ ~At(b, "off") /\ Pending(b) # {}
  BY DEF MarkMessage, At, ListingInv, ListedInv
<1>2. /\ outbox[q] = Payload(b) /\ new.id = Payload(b).id
      /\ new.sent = Payload(b).sent + 1
      /\ bridge'[b].pc = "send"
      /\ \A c \in Bridges : c # b => bridge'[c] = bridge[c]
      /\ \A r \in Runs :
           /\ bridge'[b].listed[r] =
                IF r = q THEN new ELSE bridge[b].listed[r]
           /\ outbox'[r] = IF r = q THEN new ELSE outbox[r]
  BY MarksMessage
<1>3. /\ q \in Runs /\ Payload(b) = bridge[b].listed[q]
      /\ ~Payload(b).done /\ Payload(b).sent \in Nat /\ Payload(b).id > 0
  BY <1>1, NextMessage, PartsAreCounted DEF Ids
<1>4. \A c \in Bridges : c # b =>
        ~At(c, "mark") /\ \A r \in Runs : bridge'[c].listed[r].done
  BY <1>1, <1>2, NobodyElseMarks
<1>5. \A c \in Bridges, r \in Runs, m \in 1..MaxMessages :
        Marking(c, r, m) => c = b /\ r = q /\ m = new.sent
  BY <1>2, <1>3, <1>4 DEF Marking
<1>. HIDE DEF q, new
<1>6. DuplicatesAreExplained'
  BY <1>1 DEF CountedInv, DuplicatesAreExplained
<1>7. \A r \in Runs, i \in Ids, m \in 1..MaxMessages :
        i > notices'[r] => delivered'[r][i][m] = 0
  BY <1>1 DEF CountedInv, runs
<1>8. ASSUME NEW r \in Runs, NEW m \in 1..MaxMessages,
             outbox'[r].id > 0, m > outbox'[r].sent
      PROVE  delivered'[r][outbox'[r].id][m] <= trouble'
  <2>1. /\ outbox'[r].id = outbox[r].id /\ m > outbox[r].sent
        /\ ~(r = q /\ m = new.sent)
    BY <1>2, <1>3, <1>8
  <2>2. \A c \in Bridges : ~Marking(c, r, m)
    BY <1>5, <2>1
  <2>. QED  BY <1>1, <1>8, <2>1, <2>2 DEF CountedInv
<1>9. ASSUME NEW c \in Bridges, NEW r \in Runs, NEW m \in 1..MaxMessages,
             ~bridge'[c].listed[r].done, m > bridge'[c].listed[r].sent
      PROVE  delivered'[r][bridge'[c].listed[r].id][m] <= trouble'
  <2>1. c = b
    BY <1>4, <1>9
  <2>2. CASE r = q
    BY <1>2, <1>3, <1>8, <1>9, <2>1, <2>2
  <2>3. CASE r # q
    BY <1>1, <1>2, <1>5, <1>9, <2>1, <2>3 DEF CountedInv
  <2>. QED  BY <2>2, <2>3
<1>. QED  BY <1>6, <1>7, <1>8, <1>9 DEF CountedInv

LEMMA CountedBridge ==
  ASSUME ListingInv, ListingInv', CountedInv, NEW b \in Bridges,
         Working(b) \/ SendUnanswered(b) \/ Crash(b)
  PROVE  CountedInv'
<1>1. CASE SendUnanswered(b) \/ Crash(b)
  BY <1>1, TroubleExplains
<1>2. CASE SendAnswered(b)
  BY <1>2, CountedAnswered
<1>3. CASE MarkMessage(b) /\ SameNotice(Current(b), Payload(b))
  BY <1>3, CountedRecorded
<1>4. ASSUME Working(b), ~SendAnswered(b),
             ~(MarkMessage(b) /\ SameNotice(Current(b), Payload(b)))
      PROVE  CountedInv'
  <2>1. UNCHANGED <<delivered, trouble>>
    BY <1>4 DEF Working, Start, List, SendRefused, MarkMessage, MarkNotice,
       EndCycle
  <2>2. /\ \A c \in Bridges : c # b => ~At(c, "mark")
        /\ UNCHANGED runs
        /\ \A r \in Runs :
             outbox'[r].id = outbox[r].id /\ outbox'[r].sent = outbox[r].sent
        /\ \A c \in Bridges, r \in Runs :
             ~bridge'[c].listed[r].done =>
               /\ c = b
               /\ At(b, "mark") => r # Current(b)
               /\ \/ bridge'[b].listed[r] = bridge[b].listed[r]
                  \/ ~At(b, "mark") /\ bridge'[b].listed[r] = outbox[r]
    BY <1>4, MovesOn
  <2>3. At(b, "mark") => ~SameNotice(Current(b), Payload(b))
    BY <1>4 DEF Working, Start, List, SendRefused, MarkNotice, EndCycle,
       Unsent, At
  <2>4. \A c \in Bridges, r \in Runs, m \in 1..MaxMessages :
          Marking(c, r, m) => /\ c = b /\ At(b, "mark") /\ r = Current(b)
                              /\ bridge[b].listed[r].id # outbox[r].id
    BY <2>2, <2>3 DEF Marking, SameNotice, Payload
  <2>5. DuplicatesAreExplained'
    BY <2>1 DEF CountedInv, DuplicatesAreExplained
  <2>6. \A r \in Runs, i \in Ids, m \in 1..MaxMessages :
          i > notices'[r] => delivered'[r][i][m] = 0
    BY <2>1, <2>2 DEF CountedInv, runs
  <2>7. \A r \in Runs, m \in 1..MaxMessages :
          outbox[r].id > 0 /\ m > outbox[r].sent =>
            delivered[r][outbox[r].id][m] <= trouble
    BY <2>4 DEF CountedInv
  <2>8. ASSUME NEW c \in Bridges, NEW r \in Runs, NEW m \in 1..MaxMessages,
               ~bridge'[c].listed[r].done, m > bridge'[c].listed[r].sent
        PROVE  delivered[r][bridge'[c].listed[r].id][m] <= trouble
    <3>1. /\ c = b /\ At(b, "mark") => r # Current(b)
          /\ \/ bridge'[b].listed[r] = bridge[b].listed[r]
             \/ bridge'[b].listed[r] = outbox[r]
      BY <2>2, <2>8
    <3>2. c = b
      BY <2>2, <2>8
    <3>3. CASE bridge'[b].listed[r] = bridge[b].listed[r]
      <4>1. ~Marking(b, r, m)
        BY <2>2, <2>4, <2>8, <3>2
      <4>. QED  BY <2>8, <3>2, <3>3, <4>1 DEF CountedInv
    <3>4. CASE bridge'[b].listed[r] = outbox[r]
      <4>1. ~outbox[r].done
        BY <2>8, <3>2, <3>4
      <4>2. outbox[r].id > 0
        <5>1. outbox[r].id # 0
          BY <4>1, NoNoticeIsNotice DEF ListingInv, NoticeInv
        <5>. QED  BY <5>1, IdsAreIds
      <4>. QED  BY <2>7, <2>8, <3>2, <3>4, <4>2
    <3>. QED  BY <3>1, <3>3, <3>4
  <2>. QED  BY <2>1, <2>2, <2>5, <2>6, <2>7, <2>8 DEF CountedInv
<1>. QED  BY <1>1, <1>2, <1>3, <1>4

LEMMA SummaryStep ==
  ASSUME ListingInv, SummaryInv, [Next]_vars
  PROVE  SummaryInv'
<1>1. outbox \in [Runs -> Notices]
  BY DEF ListingInv, TypeOK
<1>2. CASE UNCHANGED outbox
  BY <1>2 DEF SummaryInv
<1>3. ASSUME NEW r \in Runs, Enqueue(r) PROVE SummaryInv'
  <2>1. PICK n \in IF controller[r] = "approved" THEN Parts ELSE {0} :
          outbox' = [outbox EXCEPT
            ![r] = [id |-> notices[r] + 1, kind |-> controller[r],
                    parts |-> n, sent |-> 0, done |-> FALSE]]
    BY <1>3 DEF Enqueue
  <2>. QED  BY <1>1, <2>1 DEF SummaryInv
<1>4. ASSUME NEW b \in Bridges, MarkMessage(b) \/ MarkNotice(b)
      PROVE  SummaryInv'
  <2>1. \/ UNCHANGED outbox
        \/ outbox' = [outbox EXCEPT
             ![Current(b)] = Advanced(outbox[Current(b)])]
        \/ outbox' = [outbox EXCEPT ![Current(b)].done = TRUE]
    BY <1>4 DEF MarkMessage, MarkNotice, PersistedChunk
  <2>2. \A r \in Runs :
          outbox'[r].kind = outbox[r].kind /\ outbox'[r].parts = outbox[r].parts
    BY <1>1, <2>1 DEF Advanced, Notices
  <2>. QED  BY <2>2 DEF SummaryInv
<1>5. \/ UNCHANGED outbox
      \/ \E r \in Runs : Enqueue(r)
      \/ \E b \in Bridges : MarkMessage(b) \/ MarkNotice(b)
  BY DEF Next, Controller, Block, Approve, Conclude, Die, Resume, Working,
     Start, List, SendAnswered, SendUnanswered, SendRefused, EndCycle, Crash,
     vars
<1>. QED  BY <1>2, <1>3, <1>4, <1>5

-----------------------------------------------------------------------------
(* Theorems *)

LEMMA InitHolds == Init => IInv
<1>. SUFFICES ASSUME Init PROVE IInv
  OBVIOUS
<1>. DEFINE M == 1..MaxMessages
<1>1. /\ \A r \in Runs : /\ status[r] = "running" /\ controller[r] = "working"
                         /\ outbox[r] = NoNotice /\ notices[r] = 0
      /\ \A b \in Bridges : bridge[b] = Off /\ Off \in BridgeRecords
      /\ Off = [Off EXCEPT !.pc = "off"] /\ Off.pc = "off"
      /\ \A r \in Runs : Off.listed[r] = NoNotice
  BY NoNoticeIsNotice DEF Init, Off, BridgeRecords
<1>2. /\ delivered \in [Runs -> [Ids -> [M -> Nat]]]
      /\ \A r \in Runs, i \in Ids, m \in M : delivered[r][i][m] = 0
  <2>1. delivered = [r \in Runs |-> [i \in Ids |-> [m \in M |-> 0]]]
    BY DEF Init
  <2>. HIDE DEF M
  <2>. QED  BY <2>1
<1>3. TypeOK
  BY <1>1, <1>2, NoNoticeIsNotice DEF Init, TypeOK, BridgeRecords, At, Kinds
<1>4. \A r \in Runs : NoticeInv(r)
  BY <1>1, NoNoticeIsNotice DEF NoticeInv, Kinds
<1>5. \A b \in Bridges : ListedInv(b)
  BY <1>1, NoNoticeIsNotice DEF ListedInv
<1>6. ArrivedInv
  BY <1>1, NoNoticeIsNotice DEF ArrivedInv, At
<1>7. CountedInv
  <2>1. DuplicatesAreExplained
    BY <1>2 DEF DuplicatesAreExplained, Init
  <2>2. \A b \in Bridges, r \in Runs : bridge[b].listed[r].done
    BY <1>1, NoNoticeIsNotice
  <2>3. \A r \in Runs : ~(outbox[r].id > 0)
    BY <1>1, NoNoticeIsNotice
  <2>. QED  BY <1>2, <2>1, <2>2, <2>3 DEF CountedInv
<1>8. SummaryInv
  BY <1>1, NoNoticeIsNotice DEF SummaryInv
<1>. QED  BY <1>3, <1>4, <1>5, <1>6, <1>7, <1>8 DEF IInv, ListingInv

LEMMA StepKeeps == IInv /\ [Next]_vars => IInv'
<1>. SUFFICES ASSUME IInv, [Next]_vars PROVE IInv'
  OBVIOUS
<1>1. ListingInv /\ ListingInv'
  BY ListingStep DEF IInv
<1>2. SummaryInv'
  BY SummaryStep DEF IInv
<1>3. ASSUME NEW r \in Runs, Controller(r) PROVE ArrivedInv' /\ CountedInv'
  BY <1>3, ArrivedController, CountedController DEF IInv
<1>4. ASSUME NEW b \in Bridges, Working(b) \/ SendUnanswered(b) \/ Crash(b)
      PROVE  ArrivedInv' /\ CountedInv'
  BY <1>1, <1>4, ArrivedBridge, CountedBridge DEF IInv
<1>5. CASE UNCHANGED vars
  <2>1. UNCHANGED <<status, controller, notices, outbox, bridge, delivered, trouble>>
    BY <1>5 DEF vars, runs
  <2>2. \A b \in Bridges : /\ Current(b)' = Current(b)
                           /\ Payload(b)' = Payload(b)
    BY <2>1, SameList
  <2>3. ArrivedInv'
    BY <2>1, <2>2 DEF IInv, ArrivedInv, Received, At
  <2>4. \A b \in Bridges, r \in Runs, m \in 1..MaxMessages :
          Marking(b, r, m)' <=> Marking(b, r, m)
    BY <2>1, <2>2 DEF Marking, At
  <2>5. CountedInv'
    BY <2>1, <2>4 DEF IInv, CountedInv, DuplicatesAreExplained
  <2>. QED  BY <1>1, <1>2, <2>3, <2>5 DEF IInv
<1>. QED  BY <1>1, <1>2, <1>3, <1>4, <1>5 DEF IInv, Next

(* Every state of the outbox satisfies the invariant, for every set of     *)
(* reports, number of runs and bridges, and amount of trouble.             *)
THEOREM Invariance == Spec => []IInv
BY InitHolds, StepKeeps, PTL DEF Spec

(* Every variable keeps its type, and the bot has one working bridge.      *)
THEOREM TypeCorrect == Spec => []TypeOK
<1>1. IInv => TypeOK
  BY DEF IInv, ListingInv
<1>. QED  BY <1>1, Invariance, PTL

(* What telegram_notify.json records as sent reached the chat, also when   *)
(* the controller replaced the notice while the bridge was sending it.     *)
THEOREM MarkedIsDelivered == Spec => []MarkedWasDelivered
<1>1. IInv => MarkedWasDelivered
  <2>. SUFFICES ASSUME IInv, NEW r \in Runs, NEW m \in 1..MaxMessages,
                       \/ m <= outbox[r].sent
                       \/ /\ outbox[r].done /\ outbox[r].id > 0
                          /\ m <= Messages(outbox[r])
                PROVE  Received(r, outbox[r].id, m)
    BY DEF MarkedWasDelivered
  <2>1. m <= outbox[r].sent
    BY DEF IInv, ListingInv, NoticeInv
  <2>. QED  BY <2>1 DEF IInv, ArrivedInv
<1>. QED  BY <1>1, Invariance, PTL

(* A message is repeated only after a crash of a bridge or a lost answer:  *)
(* one more delivery for each of them.                                     *)
THEOREM DuplicatesExplained == Spec => []DuplicatesAreExplained
<1>1. IInv => DuplicatesAreExplained
  BY DEF IInv, CountedInv
<1>. QED  BY <1>1, Invariance, PTL

(* Every line that fits is read whole in a message that arrived, for every *)
(* set of summaries of fewer than a hundred parts, the number from which   *)
(* the headers outgrow the room that split_telegram_message leaves them.   *)
THEOREM SummariesArrive ==
  ASSUME \A report \in Reports : Len(Split(report)) < 100
  PROVE  Spec => []SummaryArrives
<1>1. IInv => SummaryArrives
  <2>. SUFFICES ASSUME IInv, NEW r \in Runs,
                       outbox[r].done, outbox[r].kind = "approved",
                       NEW messages \in Showing[outbox[r].parts]
                PROVE  \E m \in messages : Received(r, outbox[r].id, m)
    BY DEF SummaryArrives
  <2>1. outbox[r].parts \in Parts /\ ListingInv
    BY DEF IInv, SummaryInv
  <2>2. messages # {} /\ messages \subseteq 1..outbox[r].parts
    BY <2>1, LinesHaveMessages
  <2>3. PICK m \in messages : m \in 1..outbox[r].parts
    BY <2>2
  <2>4. outbox[r].sent = outbox[r].parts + 1
    <3>1. outbox[r].id # 0
      BY <2>1, NoNoticeIsNotice DEF ListingInv, NoticeInv
    <3>2. outbox[r].id > 0
      BY <2>1, <3>1, IdsAreIds
    <3>3. outbox[r].sent = Messages(outbox[r])
      BY <2>1, <3>2 DEF ListingInv, NoticeInv
    <3>. QED  BY <3>3 DEF Messages
  <2>5. m \in 1..MaxMessages /\ m <= outbox[r].sent
    <3>1. /\ outbox[r].parts \in Nat /\ MaxMessages \in Nat
          /\ outbox[r].parts + 1 <= MaxMessages
      BY <2>1, PartsAreCounted
    <3>. QED  BY <2>3, <2>4, <3>1
  <2>6. Received(r, outbox[r].id, m)
    BY <2>5 DEF IInv, ArrivedInv
  <2>. QED  BY <2>6
<1>. QED  BY <1>1, Invariance, PTL
=============================================================================
