------------------------ MODULE ResourceLookupProofs ------------------------
(***************************************************************************)
(* The lookup of resources for names, topics and tables of any length: the *)
(* character scan agrees with the definition by levels, and the union of   *)
(* both lookups is the set of the matching resources, each of them once.   *)
(***************************************************************************)
EXTENDS ResourceLookup, WellFoundedInduction, SequenceTheorems, TLAPS

-----------------------------------------------------------------------------
(* Induction over positions *)

(* Of a set of numbers that is not empty, Min is the least one. *)
LEMMA MinIsLeast ==
    ASSUME NEW S \in SUBSET Nat, S # {}
    PROVE  Min(S) \in S /\ \A y \in S : Min(S) <= y
<1> DEFINE R == {d \in Nat \X Nat : d[1] < d[2]}
<1>1. IsWellFoundedOn(R, Nat)
  BY NatLessThanWellFounded DEF OpToRel
<1> HIDE DEF R
<1>2. PICK x \in S : \A y \in S : ~ (<<y, x>> \in R)
  BY <1>1, WFMin
<1>3. \A y \in S : ~ (y < x)
  BY <1>2 DEF R
<1>4. \A y \in S : x <= y
  BY <1>3
<1>5. \E z \in S : \A y \in S : z <= y
  BY <1>4
<1> QED
  BY <1>5 DEF Min

(* Induction, for sets of numbers. *)
LEMMA ByInduction ==
    ASSUME NEW S, 0 \in S, \A n \in Nat : n \in S => n + 1 \in S
    PROVE  Nat \subseteq S
<1> SUFFICES ASSUME Nat \ S # {} PROVE FALSE
  OBVIOUS
<1> DEFINE x == Min(Nat \ S)
<1>1. x \in Nat \ S /\ \A y \in Nat \ S : x <= y
  BY MinIsLeast
<1> HIDE DEF x
<1>2. x - 1 \in Nat /\ x - 1 \notin S
  BY <1>1
<1> QED
  BY <1>1, <1>2

-----------------------------------------------------------------------------
(* The loop over the nodes *)

(* The result of the loop after each of the first n nodes. *)
Loop(s, S, n, g) ==
    g = [k \in 0 .. n |-> IF k = 0 THEN << >>
                          ELSE IF s[k] \in S THEN Append(g[k - 1], s[k]) ELSE g[k - 1]]

LEMMA LoopExists ==
    ASSUME NEW s, NEW S
    PROVE  \A n \in Nat : \E g : Loop(s, S, n, g)
<1> DEFINE step(k, x) == IF k = 0 THEN << >> ELSE IF s[k] \in S THEN Append(x, s[k]) ELSE x
           N == {n \in Nat : \E g : Loop(s, S, n, g)}
<1>1. 0 \in N
  <2> DEFINE g == [k \in 0 .. 0 |-> << >>]
  <2>1. g = [k \in 0 .. 0 |-> step(k, g[k - 1])]
    OBVIOUS
  <2> QED
    BY <2>1 DEF Loop
<1>2. ASSUME NEW n \in Nat, n \in N PROVE n + 1 \in N
  <2>1. PICK g : g = [k \in 0 .. n |-> step(k, g[k - 1])]
    BY <1>2 DEF Loop
  <2> DEFINE h == [k \in 0 .. n + 1 |-> IF k = n + 1 THEN step(k, g[n]) ELSE g[k]]
  <2> HIDE DEF step
  <2>2. ASSUME NEW k \in 0 .. n + 1 PROVE h[k] = step(k, h[k - 1])
    <3>1. CASE k = n + 1
      BY <3>1
    <3>2. CASE k # n + 1
      <4>1. k \in 0 .. n /\ (k # 0 => k - 1 \in 0 .. n)
        BY <3>2
      <4>2. h[k] = g[k] /\ (k # 0 => h[k - 1] = g[k - 1])
        BY <3>2, <4>1
      <4> HIDE DEF h
      <4>3. g[k] = step(k, g[k - 1])
        BY <2>1, <4>1, Zenon
      <4>4. k = 0 => \A x, y : step(k, x) = step(k, y)
        BY DEF step
      <4> QED
        BY <4>2, <4>3, <4>4
    <3> QED
      BY <3>1, <3>2
  <2>3. h = [k \in 0 .. n + 1 |-> h[k]]
    OBVIOUS
  <2> HIDE DEF h
  <2>4. h = [k \in 0 .. n + 1 |-> step(k, h[k - 1])]
    BY <2>2, <2>3, Zenon
  <2>5. Loop(s, S, n + 1, h)
    BY <2>4 DEF Loop, step
  <2> QED
    BY <2>5
<1> HIDE DEF N
<1>3. Nat \subseteq N
  BY <1>1, <1>2, ByInduction
<1> QED
  BY <1>3 DEF N

(* Select keeps the members of S, in order and as often as they were. *)
LEMMA Selects ==
    ASSUME NEW T, NEW s \in Seq(T), NEW S
    PROVE  /\ Select(s, S) \in Seq(T)
           /\ Range(Select(s, S)) = Range(s) \cap S
           /\ (\A i, j \in 1 .. Len(s) : s[i] = s[j] => i = j) =>
                 \A i, j \in 1 .. Len(Select(s, S)) :
                    Select(s, S)[i] = Select(s, S)[j] => i = j
<1> DEFINE f == CHOOSE g : Loop(s, S, Len(s), g)
           once == \A i, j \in 1 .. Len(s) : s[i] = s[j] => i = j
           Good(n) == /\ f[n] \in Seq(T)
                      /\ Range(f[n]) = {x \in S : \E i \in 1 .. n : s[i] = x}
                      /\ once => \A i, j \in 1 .. Len(f[n]) : f[n][i] = f[n][j] => i = j
           N == {n \in Nat : n <= Len(s) => Good(n)}
<1>1. Len(s) \in Nat
  OBVIOUS
<1>2. Select(s, S) = f[Len(s)]
  BY DEF Select, Loop
<1>3. Loop(s, S, Len(s), f)
  BY <1>1, LoopExists
<1> HIDE DEF f
<1>4. \A k \in 0 .. Len(s) :
         f[k] = IF k = 0 THEN << >>
                ELSE IF s[k] \in S THEN Append(f[k - 1], s[k]) ELSE f[k - 1]
  BY <1>3, Zenon DEF Loop
<1>5. 0 \in N
  <2>1. f[0] = << >>
    BY <1>1, <1>4
  <2>2. << >> \in Seq(T) /\ Len(<< >>) = 0 /\ Range(<< >>) = {}
    BY DEF Range
  <2>3. Good(0)
    BY <2>1, <2>2
  <2> QED
    BY <2>3
<1>6. ASSUME NEW n \in Nat, n \in N PROVE n + 1 \in N
  <2> SUFFICES ASSUME n + 1 <= Len(s) PROVE Good(n + 1)
    OBVIOUS
  <2>1. n + 1 \in 0 .. Len(s) /\ n + 1 # 0 /\ n + 1 - 1 = n /\ n <= Len(s)
    BY <1>1
  <2>2. Good(n) /\ s[n + 1] \in T
    BY <1>6, <2>1
  <2>3. f[n + 1] = IF s[n + 1] \in S THEN Append(f[n], s[n + 1]) ELSE f[n]
    BY <1>4, <2>1
  <2>4. \A i : i \in 1 .. n + 1 <=> i \in 1 .. n \/ i = n + 1
    OBVIOUS
  <2>5. CASE s[n + 1] \notin S
    BY <2>2, <2>3, <2>4, <2>5
  <2>6. CASE s[n + 1] \in S
    <3> DEFINE a == f[n] b == f[n + 1] m == Len(f[n])
    <3>1. /\ a \in Seq(T) /\ m \in Nat /\ b \in Seq(T) /\ Len(b) = m + 1 /\ b[m + 1] = s[n + 1]
          /\ \A i \in 1 .. m : b[i] = a[i]
      BY <2>2, <2>3, <2>6
    <3>2. \A i : i \in 1 .. m + 1 <=> i \in 1 .. m \/ i = m + 1
      BY <3>1
    <3>3. Range(a) = {x \in S : \E i \in 1 .. n : s[i] = x}
      BY <2>2
    <3>4. DOMAIN a = 1 .. m /\ DOMAIN b = 1 .. m + 1
      BY <3>1
    <3> HIDE DEF a, b, m
    <3>5. Range(b) = Range(a) \cup {s[n + 1]}
      BY <3>1, <3>2, <3>4 DEF Range
    <3>6. Range(b) = {x \in S : \E i \in 1 .. n + 1 : s[i] = x}
      BY <2>4, <2>6, <3>3, <3>5
    <3>7. ASSUME once PROVE \A i, j \in 1 .. Len(b) : b[i] = b[j] => i = j
      <4>1. \A i \in 1 .. n : s[i] # s[n + 1]
        <5>1. n + 1 \in 1 .. Len(s) /\ \A i \in 1 .. n : i \in 1 .. Len(s) /\ i # n + 1
          BY <1>1, <2>1
        <5> QED
          BY <3>7, <5>1
      <4>2. s[n + 1] \notin Range(a)
        BY <3>3, <4>1
      <4>3. \A i \in 1 .. m : b[i] # b[m + 1]
        BY <3>1, <3>4, <4>2 DEF Range
      <4>4. \A i, j \in 1 .. m : a[i] = a[j] => i = j
        BY <2>2, <3>7 DEF a, m
      <4> QED
        BY <3>1, <3>2, <4>3, <4>4
    <3> QED
      BY <3>1, <3>6, <3>7 DEF b
  <2> QED
    BY <2>5, <2>6
<1> HIDE DEF N
<1>7. Nat \subseteq N
  BY <1>5, <1>6, ByInduction
<1> HIDE DEF Good
<1>8. Good(Len(s))
  BY <1>1, <1>7 DEF N
<1> USE DEF Good
<1>9. {x \in S : \E i \in 1 .. Len(s) : s[i] = x} = Range(s) \cap S
  BY DEF Range
<1>10. /\ Select(s, S) \in Seq(T)
       /\ Range(Select(s, S)) = Range(s) \cap S
  BY <1>2, <1>8, <1>9
<1>11. once => \A i, j \in 1 .. Len(Select(s, S)) :
                 Select(s, S)[i] = Select(s, S)[j] => i = j
  BY <1>2, <1>8
<1> QED
  BY <1>10, <1>11

-----------------------------------------------------------------------------
(* Levels *)

(* Where a level ends: at the next '/', or at the end. *)
LEMMA LevelEnds ==
    ASSUME NEW T, NEW s \in Seq(T), NEW j \in 1 .. Len(s) + 1
    PROVE  /\ LevelEnd(s, j) \in j .. Len(s) + 1
           /\ LevelEnd(s, j) <= Len(s) => s[LevelEnd(s, j)] = "/"
           /\ \A k \in j .. LevelEnd(s, j) - 1 : s[k] # "/"
<1> DEFINE E == {k \in j .. Len(s) : s[k] = "/"} \cup {Len(s) + 1}
<1>1. Len(s) \in Nat /\ j \in Nat
  OBVIOUS
<1>2. E \in SUBSET Nat /\ E # {}
  BY <1>1
<1>3. Min(E) \in E /\ \A y \in E : Min(E) <= y
  BY <1>2, MinIsLeast
<1>4. LevelEnd(s, j) = Min(E)
  BY DEF LevelEnd
<1> HIDE DEF LevelEnd
<1> DEFINE e == Min(E)
<1>5. e \in E /\ \A y \in E : e <= y
  BY <1>3
<1> HIDE DEF e
<1>6. e \in j .. Len(s) + 1 /\ (e <= Len(s) => s[e] = "/")
  BY <1>1, <1>5
<1>7. ASSUME NEW k \in j .. e - 1 PROVE s[k] # "/"
  BY <1>1, <1>5, <1>6
<1> QED
  BY <1>4, <1>6, <1>7 DEF e

LEMMA LevelEndIs ==
    ASSUME NEW T, NEW s \in Seq(T), NEW j \in 1 .. Len(s) + 1,
           NEW e \in j .. Len(s) + 1, e <= Len(s) => s[e] = "/",
           \A k \in j .. e - 1 : s[k] # "/"
    PROVE  LevelEnd(s, j) = e
<1> DEFINE d == LevelEnd(s, j)
<1>1. d \in j .. Len(s) + 1 /\ (d <= Len(s) => s[d] = "/") /\ \A k \in j .. d - 1 : s[k] # "/"
  BY LevelEnds
<1> HIDE DEF d
<1>2. ~ (d < e)
  BY <1>1
<1>3. ~ (e < d)
  BY <1>1
<1> QED
  BY <1>1, <1>2, <1>3 DEF d

(* The level that begins at j, followed by the levels more. *)
LevelsStep(s, j, more) ==
    IF LevelEnd(s, j) > Len(s) THEN <<SubSeq(s, j, Len(s))>>
    ELSE <<SubSeq(s, j, LevelEnd(s, j) - 1)>> \o more

(* The recursion of LevelsFrom, as far back as index c. *)
LevelsBack(s, c, g) ==
    g = [j \in c .. Len(s) + 1 |-> LevelsStep(s, j, g[LevelEnd(s, j) + 1])]

LEMMA LevelsExist ==
    ASSUME NEW T, NEW s \in Seq(T)
    PROVE  \E g : LevelsBack(s, 1, g)
<1> DEFINE N == {n \in Nat : n <= Len(s) => \E g : LevelsBack(s, Len(s) + 1 - n, g)}
<1>1. Len(s) \in Nat
  OBVIOUS
<1>2. 0 \in N
  <2> DEFINE c == Len(s) + 1
             g == [j \in c .. c |-> LevelsStep(s, c, << >>)]
  <2>1. LevelEnd(s, c) = c
    BY <1>1, LevelEnds
  <2>2. \A x, y : LevelsStep(s, c, x) = LevelsStep(s, c, y)
    BY <1>1, <2>1 DEF LevelsStep
  <2>3. \A j \in c .. c : j = c
    BY <1>1
  <2>4. g = [j \in c .. c |-> LevelsStep(s, j, g[LevelEnd(s, j) + 1])]
    BY <2>2, <2>3
  <2>5. LevelsBack(s, c, g)
    BY <2>4 DEF LevelsBack
  <2>6. Len(s) + 1 - 0 = c
    BY <1>1
  <2> QED
    BY <2>5, <2>6
<1>3. ASSUME NEW n \in Nat, n \in N PROVE n + 1 \in N
  <2> SUFFICES ASSUME n + 1 <= Len(s)
               PROVE  \E g : LevelsBack(s, Len(s) + 1 - (n + 1), g)
    OBVIOUS
  <2> DEFINE c == Len(s) - n
             last == Len(s) + 1
  <2>1. /\ c \in Nat /\ c >= 1 /\ last \in Nat /\ c < last
        /\ Len(s) + 1 - (n + 1) = c /\ Len(s) + 1 - n = c + 1
    BY <1>1
  <2>2. PICK g : g = [j \in c + 1 .. last |-> LevelsStep(s, j, g[LevelEnd(s, j) + 1])]
    BY <1>3, <2>1 DEF LevelsBack
  <2> HIDE DEF c, last
  <2> DEFINE h == [j \in c .. last |->
                     IF j = c THEN LevelsStep(s, c, g[LevelEnd(s, c) + 1]) ELSE g[j]]
  <2>3. ASSUME NEW j \in c .. last PROVE h[j] = LevelsStep(s, j, h[LevelEnd(s, j) + 1])
    <3>1. LevelEnd(s, j) \in j .. last /\ last = Len(s) + 1
      BY <2>1, LevelEnds DEF last
    <3>2. LevelEnd(s, j) <= Len(s) =>
             /\ LevelEnd(s, j) + 1 \in c .. last
             /\ LevelEnd(s, j) + 1 # c
      BY <2>1, <3>1, <1>1
    <3>3. LevelEnd(s, j) <= Len(s) => h[LevelEnd(s, j) + 1] = g[LevelEnd(s, j) + 1]
      BY <3>2
    <3>4. h[j] = IF j = c THEN LevelsStep(s, c, g[LevelEnd(s, c) + 1]) ELSE g[j]
      OBVIOUS
    <3> HIDE DEF h
    <3>5. j # c => j \in c + 1 .. last
      BY <2>1
    <3>6. h[j] = LevelsStep(s, j, g[LevelEnd(s, j) + 1])
      <4>1. CASE j = c
        BY <3>4, <4>1
      <4>2. CASE j # c
        <5>1. g[j] = LevelsStep(s, j, g[LevelEnd(s, j) + 1])
          BY <2>2, <3>5, <4>2, Zenon
        <5> QED
          BY <3>4, <4>2, <5>1
      <4> QED
        BY <4>1, <4>2
    <3>7. CASE LevelEnd(s, j) <= Len(s)
      BY <3>3, <3>6, <3>7
    <3>8. CASE LevelEnd(s, j) > Len(s)
      BY <3>6, <3>8 DEF LevelsStep
    <3> QED
      BY <1>1, <3>1, <3>7, <3>8
  <2>4. h = [j \in c .. last |-> h[j]]
    OBVIOUS
  <2> HIDE DEF h
  <2>5. h = [j \in c .. last |-> LevelsStep(s, j, h[LevelEnd(s, j) + 1])]
    BY <2>3, <2>4, Zenon
  <2>6. LevelsBack(s, c, h)
    BY <2>5 DEF LevelsBack, last
  <2> QED
    BY <2>1, <2>6
<1> HIDE DEF N
<1>4. Nat \subseteq N
  BY <1>2, <1>3, ByInduction
<1>5. Len(s) + 1 - Len(s) = 1 /\ Len(s) <= Len(s)
  BY <1>1
<1>6. Len(s) \in N
  BY <1>1, <1>4
<1>7. \E g : LevelsBack(s, Len(s) + 1 - Len(s), g)
  BY <1>5, <1>6 DEF N
<1> QED
  BY <1>5, <1>7

LEMMA LevelsUnfold ==
    ASSUME NEW T, NEW s \in Seq(T), NEW j \in 1 .. Len(s) + 1
    PROVE  LevelsFrom(s)[j] = LevelsStep(s, j, LevelsFrom(s)[LevelEnd(s, j) + 1])
<1> DEFINE f == CHOOSE g : LevelsBack(s, 1, g)
<1>1. LevelsFrom(s) = f
  BY DEF LevelsFrom, LevelsBack, LevelsStep
<1>2. LevelsBack(s, 1, f)
  BY LevelsExist
<1> HIDE DEF f
<1>3. f[j] = LevelsStep(s, j, f[LevelEnd(s, j) + 1])
  BY <1>2, Zenon DEF LevelsBack
<1> QED
  BY <1>1, <1>3

(* The level that begins at j. *)
LevelAt(s, j) == SubSeq(s, j, LevelEnd(s, j) - 1)

LEMMA LevelType ==
    ASSUME NEW T, NEW s \in Seq(T), NEW j \in 1 .. Len(s) + 1
    PROVE  /\ LevelAt(s, j) \in Seq(T)
           /\ Len(LevelAt(s, j)) = LevelEnd(s, j) - j
           /\ \A k \in 1 .. LevelEnd(s, j) - j : LevelAt(s, j)[k] = s[j + k - 1]
<1> DEFINE e == LevelEnd(s, j)
<1>1. e \in j .. Len(s) + 1 /\ Len(s) \in Nat
  BY LevelEnds
<1> HIDE DEF e
<1>2. \A k \in j .. e - 1 : s[k] \in T
  BY <1>1
<1>3. LevelAt(s, j) = SubSeq(s, j, e - 1)
  BY DEF LevelAt, e
<1>4. /\ SubSeq(s, j, e - 1) \in Seq(T)
      /\ Len(SubSeq(s, j, e - 1)) = e - j
      /\ \A k \in 1 .. e - j : SubSeq(s, j, e - 1)[k] = s[j + k - 1]
  BY <1>1, <1>2
<1> QED
  BY <1>3, <1>4 DEF e

(* There is a first level, and the others are those after its end. *)
LEMMA LevelsType ==
    ASSUME NEW T, NEW s \in Seq(T)
    PROVE  \A j \in 1 .. Len(s) + 1 :
              LevelsFrom(s)[j] \in Seq(Seq(T)) /\ Len(LevelsFrom(s)[j]) >= 1
<1> DEFINE L == LevelsFrom(s)
           Good(j) == L[j] \in Seq(Seq(T)) /\ Len(L[j]) >= 1
           N == {n \in Nat : \A j \in 1 .. Len(s) + 1 : Len(s) + 1 - j <= n => Good(j)}
<1>1. Len(s) \in Nat
  OBVIOUS
<1>2. ASSUME NEW j \in 1 .. Len(s) + 1,
             LevelEnd(s, j) <= Len(s) => Good(LevelEnd(s, j) + 1)
      PROVE  Good(j)
  <2>1. L[j] = LevelsStep(s, j, L[LevelEnd(s, j) + 1])
    BY LevelsUnfold
  <2>2. LevelEnd(s, j) \in j .. Len(s) + 1
    BY LevelEnds
  <2>3. LevelAt(s, j) \in Seq(T)
    BY LevelType
  <2> DEFINE a == LevelAt(s, j)
             more == L[LevelEnd(s, j) + 1]
  <2> HIDE DEF L
  <2>4. CASE LevelEnd(s, j) > Len(s)
    <3>1. LevelEnd(s, j) - 1 = Len(s)
      BY <1>1, <2>2, <2>4
    <3>2. L[j] = <<a>>
      BY <2>1, <2>4, <3>1 DEF LevelsStep, LevelAt
    <3> HIDE DEF a
    <3> QED
      BY <2>3, <3>2 DEF a
  <2>5. CASE LevelEnd(s, j) <= Len(s)
    <3>1. L[j] = <<a>> \o more
      BY <1>1, <2>1, <2>2, <2>5 DEF LevelsStep, LevelAt
    <3>2. more \in Seq(Seq(T)) /\ a \in Seq(T)
      BY <1>2, <2>3, <2>5
    <3> HIDE DEF a, more
    <3> QED
      BY <3>1, <3>2
  <2> QED
    BY <1>1, <2>2, <2>4, <2>5
<1> HIDE DEF Good, L
<1>3. 0 \in N
  <2>1. ASSUME NEW j \in 1 .. Len(s) + 1, Len(s) + 1 - j <= 0 PROVE Good(j)
    <3>1. LevelEnd(s, j) \in j .. Len(s) + 1
      BY LevelEnds
    <3>2. ~ (LevelEnd(s, j) <= Len(s))
      BY <1>1, <2>1, <3>1
    <3> QED
      BY <1>2, <3>2
  <2> QED
    BY <2>1
<1>4. ASSUME NEW n \in Nat, n \in N PROVE n + 1 \in N
  <2>1. ASSUME NEW j \in 1 .. Len(s) + 1, Len(s) + 1 - j <= n + 1 PROVE Good(j)
    <3>1. LevelEnd(s, j) \in j .. Len(s) + 1
      BY LevelEnds
    <3>2. LevelEnd(s, j) <= Len(s) =>
             /\ LevelEnd(s, j) + 1 \in 1 .. Len(s) + 1
             /\ Len(s) + 1 - (LevelEnd(s, j) + 1) <= n
      BY <1>1, <2>1, <3>1
    <3> QED
      BY <1>2, <1>4, <3>2
  <2> QED
    BY <2>1
<1>5. Nat \subseteq N
  <2> HIDE DEF N
  <2> QED
    BY <1>3, <1>4, ByInduction
<1>6. ASSUME NEW j \in 1 .. Len(s) + 1 PROVE Good(j)
  <2>1. Len(s) + 1 - j \in Nat /\ Len(s) + 1 - j <= Len(s) + 1 - j
    BY <1>1
  <2> QED
    BY <1>5, <2>1
<1> QED
  BY <1>6 DEF Good, L

LEMMA LevelsCons ==
    ASSUME NEW T, NEW s \in Seq(T), NEW j \in 1 .. Len(s) + 1
    PROVE  LET L == LevelsFrom(s)[j]
               e == LevelEnd(s, j)
               more == LevelsFrom(s)[e + 1]
           IN  /\ L[1] = LevelAt(s, j)
               /\ e > Len(s) => Len(L) = 1
               /\ e <= Len(s) => /\ Len(L) = Len(more) + 1
                                 /\ \A k \in 1 .. Len(more) : L[k + 1] = more[k]
<1> DEFINE L == LevelsFrom(s)[j]
           e == LevelEnd(s, j)
           more == LevelsFrom(s)[e + 1]
           a == LevelAt(s, j)
<1>1. Len(s) \in Nat /\ e \in j .. Len(s) + 1
  BY LevelEnds
<1>2. L = LevelsStep(s, j, more)
  BY LevelsUnfold
<1>3. e <= Len(s) => e + 1 \in 1 .. Len(s) + 1
  BY <1>1
<1>4. e <= Len(s) => more \in Seq(Seq(T))
  BY <1>3, LevelsType
<1>5. a \in Seq(T)
  BY LevelType
<1>6. e > Len(s) => e - 1 = Len(s)
  BY <1>1
<1>7. /\ e > Len(s) => L = <<a>>
      /\ e <= Len(s) => L = <<a>> \o more
  BY <1>1, <1>2, <1>6 DEF LevelsStep, LevelAt
<1> HIDE DEF L, e, more, a
<1>8. CASE e > Len(s)
  <2>1. L[1] = a /\ Len(L) = 1
    BY <1>7, <1>8
  <2> QED
    BY <1>1, <1>8, <2>1 DEF L, e, more, a
<1>9. CASE e <= Len(s)
  <2>1. /\ L[1] = a /\ Len(L) = Len(more) + 1
        /\ \A k \in 1 .. Len(more) : L[k + 1] = more[k]
    BY <1>4, <1>5, <1>7, <1>9
  <2> QED
    BY <1>1, <1>9, <2>1 DEF L, e, more, a
<1> QED
  BY <1>1, <1>8, <1>9

-----------------------------------------------------------------------------
(* The scan *)

(* One round of the scan loop with the first pointer at i; next is where   *)
(* the loop ends from i + 1.                                               *)
Round(p, q, i, next) ==
    [j \in 1 .. Len(q) + 1 |->
        IF i > Len(p) \/ j > Len(q) THEN <<i, j>>
        ELSE IF p[i] = "#" THEN <<i, j>>
        ELSE IF p[i] = "+"
             THEN IF q[j] = "/" THEN <<i, j>> ELSE next[LevelEnd(q, j)]
        ELSE IF p[i] # q[j] THEN <<i, j>> ELSE next[j + 1]]

(* The recursion of scan_from, as far back as index c. *)
ScanBack(p, q, c, g) == g = [i \in c .. Len(p) + 1 |-> Round(p, q, i, g[i + 1])]

LEMMA ScanExists ==
    ASSUME NEW T, NEW p \in Seq(T), NEW q
    PROVE  \E g : ScanBack(p, q, 1, g)
<1> DEFINE N == {n \in Nat : n <= Len(p) => \E g : ScanBack(p, q, Len(p) + 1 - n, g)}
<1>1. Len(p) \in Nat
  OBVIOUS
<1>2. \A x, y : Round(p, q, Len(p) + 1, x) = Round(p, q, Len(p) + 1, y)
  BY <1>1 DEF Round
<1>3. 0 \in N
  <2> DEFINE c == Len(p) + 1
             g == [i \in c .. c |-> Round(p, q, c, << >>)]
  <2>1. \A i \in c .. c : i = c
    BY <1>1
  <2>2. g = [i \in c .. c |-> Round(p, q, i, g[i + 1])]
    BY <1>2, <2>1
  <2>3. ScanBack(p, q, c, g)
    BY <2>2 DEF ScanBack
  <2>4. Len(p) + 1 - 0 = c
    BY <1>1
  <2> QED
    BY <2>3, <2>4
<1>4. ASSUME NEW n \in Nat, n \in N PROVE n + 1 \in N
  <2> SUFFICES ASSUME n + 1 <= Len(p)
               PROVE  \E g : ScanBack(p, q, Len(p) + 1 - (n + 1), g)
    OBVIOUS
  <2> DEFINE c == Len(p) - n
             last == Len(p) + 1
  <2>1. /\ c \in Nat /\ c >= 1 /\ last \in Nat /\ c < last
        /\ Len(p) + 1 - (n + 1) = c /\ Len(p) + 1 - n = c + 1
    BY <1>1
  <2>2. PICK g : g = [i \in c + 1 .. last |-> Round(p, q, i, g[i + 1])]
    BY <1>4, <2>1 DEF ScanBack
  <2>3. \A x, y : Round(p, q, last, x) = Round(p, q, last, y)
    BY <1>2
  <2>4. last = Len(p) + 1
    OBVIOUS
  <2> HIDE DEF c, last
  <2> DEFINE h == [i \in c .. last |-> IF i = c THEN Round(p, q, c, g[c + 1]) ELSE g[i]]
  <2>5. ASSUME NEW i \in c .. last PROVE h[i] = Round(p, q, i, h[i + 1])
    <3>1. i # last => i + 1 \in c .. last /\ i + 1 # c
      BY <2>1
    <3>2. i # last => h[i + 1] = g[i + 1]
      BY <3>1
    <3>3. h[i] = IF i = c THEN Round(p, q, c, g[c + 1]) ELSE g[i]
      OBVIOUS
    <3> HIDE DEF h
    <3>4. h[i] = Round(p, q, i, g[i + 1])
      <4>1. CASE i = c
        BY <3>3, <4>1
      <4>2. CASE i # c
        <5>1. i \in c + 1 .. last
          BY <2>1, <4>2
        <5>2. g[i] = Round(p, q, i, g[i + 1])
          BY <2>2, <5>1, Zenon
        <5> QED
          BY <3>3, <4>2, <5>2
      <4> QED
        BY <4>1, <4>2
    <3>5. CASE i # last
      BY <3>2, <3>4, <3>5
    <3>6. CASE i = last
      BY <2>3, <3>4, <3>6
    <3> QED
      BY <3>5, <3>6
  <2>6. h = [i \in c .. last |-> h[i]]
    OBVIOUS
  <2> HIDE DEF h
  <2>7. h = [i \in c .. last |-> Round(p, q, i, h[i + 1])]
    BY <2>5, <2>6, Zenon
  <2>8. ScanBack(p, q, c, h)
    BY <2>4, <2>7 DEF ScanBack
  <2> QED
    BY <2>1, <2>8
<1> HIDE DEF N
<1>5. Nat \subseteq N
  BY <1>3, <1>4, ByInduction
<1>6. Len(p) + 1 - Len(p) = 1 /\ Len(p) <= Len(p) /\ Len(p) \in N
  BY <1>1, <1>5
<1>7. \E g : ScanBack(p, q, Len(p) + 1 - Len(p), g)
  BY <1>6 DEF N
<1> QED
  BY <1>6, <1>7

LEMMA ScanUnfold ==
    ASSUME NEW T, NEW p \in Seq(T), NEW q, NEW i \in 1 .. Len(p) + 1
    PROVE  scan_from(p, q)[i] = Round(p, q, i, scan_from(p, q)[i + 1])
<1> DEFINE f == CHOOSE g : ScanBack(p, q, 1, g)
<1>1. scan_from(p, q) = f
  BY DEF scan_from, ScanBack, Round
<1>2. ScanBack(p, q, 1, f)
  BY ScanExists
<1> HIDE DEF f
<1>3. f[i] = Round(p, q, i, f[i + 1])
  BY <1>2, Zenon DEF ScanBack
<1> QED
  BY <1>1, <1>3

(* The test after the loop, for a loop that begins at i and j. *)
Accepts(p, q, i, j) ==
    LET end == scan_from(p, q)[i][j]
    IN  \/ end[1] <= Len(p) /\ p[end[1]] = "#" /\ end[2] <= Len(q)
        \/ end[1] > Len(p) /\ end[2] > Len(q)

(* What it comes to, by the characters at i and j. *)
LEMMA AcceptsStep ==
    ASSUME NEW T, NEW p \in Seq(T), NEW q \in Seq(T),
           NEW i \in 1 .. Len(p) + 1, NEW j \in 1 .. Len(q) + 1
    PROVE  /\ i > Len(p) => (Accepts(p, q, i, j) <=> j > Len(q))
           /\ i <= Len(p) /\ j > Len(q) => ~ Accepts(p, q, i, j)
           /\ i <= Len(p) /\ j <= Len(q) =>
                 /\ p[i] = "#" => Accepts(p, q, i, j)
                 /\ p[i] = "+" => (Accepts(p, q, i, j) <=>
                                     q[j] # "/" /\ Accepts(p, q, i + 1, LevelEnd(q, j)))
                 /\ p[i] \notin {"#", "+"} =>
                      (Accepts(p, q, i, j) <=> p[i] = q[j] /\ Accepts(p, q, i + 1, j + 1))
<1> DEFINE f == scan_from(p, q)
           pos == <<i, j>>
<1>1. Len(p) \in Nat /\ Len(q) \in Nat /\ i \in Nat /\ j \in Nat
  OBVIOUS
<1>2. f[i] = Round(p, q, i, f[i + 1])
  BY ScanUnfold
<1> HIDE DEF f
<1>3. f[i][j] = IF i > Len(p) \/ j > Len(q) THEN pos
                ELSE IF p[i] = "#" THEN pos
                ELSE IF p[i] = "+"
                     THEN IF q[j] = "/" THEN pos ELSE f[i + 1][LevelEnd(q, j)]
                ELSE IF p[i] # q[j] THEN pos ELSE f[i + 1][j + 1]
  BY <1>2 DEF Round
<1> DEFINE ok(e) == \/ e[1] <= Len(p) /\ p[e[1]] = "#" /\ e[2] <= Len(q)
                    \/ e[1] > Len(p) /\ e[2] > Len(q)
<1>4. \A k, l : Accepts(p, q, k, l) <=> ok(f[k][l])
  BY DEF Accepts, f
<1>5. ok(pos) <=> \/ i <= Len(p) /\ p[i] = "#" /\ j <= Len(q)
                  \/ i > Len(p) /\ j > Len(q)
  <2>1. pos[1] = i /\ pos[2] = j
    OBVIOUS
  <2> HIDE DEF pos
  <2> QED
    BY <2>1
<1> HIDE DEF ok, pos
<1>6. CASE i > Len(p) \/ j > Len(q)
  <2>1. f[i][j] = pos
    BY <1>3, <1>6
  <2> QED
    BY <1>1, <1>4, <1>5, <1>6, <2>1
<1>7. CASE i <= Len(p) /\ j <= Len(q) /\ p[i] = "#"
  <2>1. f[i][j] = pos
    BY <1>1, <1>3, <1>7
  <2> QED
    BY <1>1, <1>4, <1>5, <1>7, <2>1
<1>8. CASE i <= Len(p) /\ j <= Len(q) /\ p[i] = "+"
  <2>1. f[i][j] = IF q[j] = "/" THEN pos ELSE f[i + 1][LevelEnd(q, j)]
    BY <1>1, <1>3, <1>8
  <2> QED
    BY <1>1, <1>4, <1>5, <1>8, <2>1
<1>9. CASE i <= Len(p) /\ j <= Len(q) /\ p[i] \notin {"#", "+"}
  <2>1. f[i][j] = IF p[i] # q[j] THEN pos ELSE f[i + 1][j + 1]
    BY <1>1, <1>3, <1>9
  <2> QED
    BY <1>1, <1>4, <1>5, <1>9, <2>1
<1> QED
  BY <1>1, <1>6, <1>7, <1>8, <1>9

(* Characters without wildcards are compared one by one. *)
LEMMA PlainRun ==
    ASSUME NEW T, NEW p \in Seq(T), NEW q \in Seq(T),
           NEW i \in 1 .. Len(p) + 1, NEW j \in 1 .. Len(q) + 1, NEW n \in Nat,
           i + n <= Len(p) + 1, \A k \in i .. i + n - 1 : p[k] \notin {"#", "+"}
    PROVE  Accepts(p, q, i, j) <=>
              /\ j + n <= Len(q) + 1
              /\ \A k \in 0 .. n - 1 : p[i + k] = q[j + k]
              /\ Accepts(p, q, i + n, j + n)
<1> DEFINE Same(m) == \A k \in 0 .. m - 1 : p[i + k] = q[j + k]
           Runs(m) == Accepts(p, q, i, j) <=>
                         j + m <= Len(q) + 1 /\ Same(m) /\ Accepts(p, q, i + m, j + m)
           N == {m \in Nat : m <= n => Runs(m)}
<1>1. Len(p) \in Nat /\ Len(q) \in Nat /\ i \in Nat /\ j \in Nat
  OBVIOUS
<1>2. 0 \in N
  <2>1. i + 0 = i /\ j + 0 = j /\ j + 0 <= Len(q) + 1 /\ \A k \in 0 .. 0 - 1 : FALSE
    BY <1>1
  <2>2. Runs(0)
    BY <2>1
  <2> QED
    BY <2>2
<1>3. ASSUME NEW m \in Nat, m \in N PROVE m + 1 \in N
  <2> SUFFICES ASSUME m + 1 <= n PROVE Runs(m + 1)
    OBVIOUS
  <2>1. /\ i + m \in 1 .. Len(p) + 1 /\ i + m <= Len(p) /\ i + m \in i .. i + n - 1
        /\ i + (m + 1) = i + m + 1 /\ j + (m + 1) = j + m + 1 /\ m <= n
    BY <1>1
  <2>2. Runs(m)
    BY <1>3, <2>1
  <2>3. p[i + m] \notin {"#", "+"}
    BY <2>1
  <2>4. 0 .. m + 1 - 1 = (0 .. m - 1) \cup {m}
    OBVIOUS
  <2>5. CASE j + m > Len(q)
    <3>1. ~ (j + (m + 1) <= Len(q) + 1)
      BY <1>1, <2>5
    <3>2. j + m <= Len(q) + 1 => j + m \in 1 .. Len(q) + 1
      BY <1>1
    <3>3. j + m <= Len(q) + 1 => ~ Accepts(p, q, i + m, j + m)
      BY <2>1, <2>5, <3>2, AcceptsStep
    <3> QED
      BY <2>2, <3>1, <3>3
  <2>6. CASE j + m <= Len(q)
    <3>1. /\ j + m \in 1 .. Len(q) + 1 /\ j + (m + 1) <= Len(q) + 1 /\ j + m <= Len(q) + 1
      BY <1>1, <2>6
    <3>2. Accepts(p, q, i + m, j + m) <=>
             p[i + m] = q[j + m] /\ Accepts(p, q, i + m + 1, j + m + 1)
      BY <2>1, <2>3, <2>6, <3>1, AcceptsStep
    <3>3. Same(m + 1) <=> Same(m) /\ p[i + m] = q[j + m]
      <4> DEFINE I == 0 .. m - 1  J == 0 .. m + 1 - 1
      <4>1. J = I \cup {m}
        BY <2>4
      <4>2. Same(m) <=> \A k \in I : p[i + k] = q[j + k]
        OBVIOUS
      <4>3. Same(m + 1) <=> \A k \in J : p[i + k] = q[j + k]
        OBVIOUS
      <4> HIDE DEF I, J, Same
      <4> QED
        BY <4>1, <4>2, <4>3
    <3> HIDE DEF Same
    <3>4. Accepts(p, q, i + (m + 1), j + (m + 1)) <=> Accepts(p, q, i + m + 1, j + m + 1)
      BY <2>1, Zenon
    <3>5. Accepts(p, q, i, j) <=> Same(m) /\ Accepts(p, q, i + m, j + m)
      BY <2>2, <3>1
    <3> QED
      BY <3>1, <3>2, <3>3, <3>4, <3>5
  <2> QED
    BY <1>1, <2>5, <2>6
<1> HIDE DEF N
<1>4. Nat \subseteq N
  BY <1>2, <1>3, ByInduction
<1> HIDE DEF Runs
<1>5. Runs(n)
  BY <1>4 DEF N
<1> QED
  BY <1>5 DEF Runs

(* Both levels end, or both go on and the rest is accepted. *)
GoesOn(p, q, e, f) ==
    /\ e > Len(p) <=> f > Len(q)
    /\ e <= Len(p) /\ f <= Len(q) => Accepts(p, q, e + 1, f + 1)

(* A scan that has reached the end of a level in the name. *)
LEMMA AtLevelEnd ==
    ASSUME NEW T, NEW p \in Seq(T), NEW q \in Seq(T),
           NEW i \in 1 .. Len(p) + 1, NEW e, e = LevelEnd(p, i), NEW f \in 1 .. Len(q) + 1
    PROVE  /\ e > Len(p) => (Accepts(p, q, e, f) <=> f > Len(q))
           /\ e <= Len(p) => (Accepts(p, q, e, f) <=>
                                f <= Len(q) /\ q[f] = "/" /\ Accepts(p, q, e + 1, f + 1))
<1>1. /\ Len(p) \in Nat /\ Len(q) \in Nat
      /\ e \in 1 .. Len(p) + 1 /\ (e <= Len(p) => p[e] = "/")
  BY LevelEnds
<1>2. e <= Len(p) => p[e] \notin {"#", "+"}
  BY <1>1
<1>3. f <= Len(q) \/ f > Len(q)
  BY <1>1
<1> QED
  BY <1>1, <1>2, <1>3, AcceptsStep

LEMMA AtBothEnds ==
    ASSUME NEW T, NEW p \in Seq(T), NEW q \in Seq(T),
           NEW i \in 1 .. Len(p) + 1, NEW e, e = LevelEnd(p, i),
           NEW j \in 1 .. Len(q) + 1, NEW f, f = LevelEnd(q, j)
    PROVE  Accepts(p, q, e, f) <=> GoesOn(p, q, e, f)
<1>1. /\ Len(p) \in Nat /\ Len(q) \in Nat /\ e \in 1 .. Len(p) + 1
      /\ f \in 1 .. Len(q) + 1 /\ (f <= Len(q) => q[f] = "/")
  BY LevelEnds
<1>2. /\ e <= Len(p) <=> ~ (e > Len(p))
      /\ f <= Len(q) <=> ~ (f > Len(q))
  BY <1>1
<1>3. CASE e > Len(p)
  <2>1. Accepts(p, q, e, f) <=> f > Len(q)
    BY <1>1, <1>3, AtLevelEnd
  <2> QED
    BY <1>2, <1>3, <2>1 DEF GoesOn
<1>4. CASE e <= Len(p)
  <2>1. Accepts(p, q, e, f) <=> f <= Len(q) /\ q[f] = "/" /\ Accepts(p, q, e + 1, f + 1)
    BY <1>1, <1>4, AtLevelEnd
  <2> QED
    BY <1>1, <1>2, <1>4, <2>1 DEF GoesOn
<1> QED
  BY <1>2, <1>3, <1>4

(* The levels at i and j have the same text. *)
LEMMA SameLevel ==
    ASSUME NEW T, NEW p \in Seq(T), NEW q \in Seq(T),
           NEW i \in 1 .. Len(p) + 1, NEW e, e = LevelEnd(p, i),
           NEW j \in 1 .. Len(q) + 1, NEW f, f = LevelEnd(q, j)
    PROVE  LevelAt(p, i) = LevelAt(q, j) <=>
              f = j + (e - i) /\ \A k \in 0 .. e - i - 1 : p[i + k] = q[j + k]
<1> DEFINE a == LevelAt(p, i)
           b == LevelAt(q, j)
<1>1. /\ Len(p) \in Nat /\ Len(q) \in Nat /\ i \in Nat /\ j \in Nat
      /\ e \in i .. Len(p) + 1 /\ f \in j .. Len(q) + 1
  BY LevelEnds
<1>2. a \in Seq(T) /\ Len(a) = e - i /\ \A k \in 1 .. e - i : a[k] = p[i + k - 1]
  BY LevelType
<1>3. b \in Seq(T) /\ Len(b) = f - j /\ \A k \in 1 .. f - j : b[k] = q[j + k - 1]
  BY LevelType
<1> HIDE DEF a, b
<1>4. ASSUME a = b
      PROVE  f = j + (e - i) /\ \A k \in 0 .. e - i - 1 : p[i + k] = q[j + k]
  <2>1. f - j = e - i
    BY <1>2, <1>3, <1>4
  <2>2. f = j + (e - i)
    BY <1>1, <2>1
  <2>3. ASSUME NEW k \in 0 .. e - i - 1 PROVE p[i + k] = q[j + k]
    <3>1. k + 1 \in 1 .. e - i /\ k + 1 \in 1 .. f - j /\ i + (k + 1) - 1 = i + k
          /\ j + (k + 1) - 1 = j + k
      BY <1>1, <2>1
    <3>2. a[k + 1] = p[i + k] /\ b[k + 1] = q[j + k]
      BY <1>2, <1>3, <3>1
    <3> QED
      BY <1>4, <3>2
  <2> QED
    BY <2>2, <2>3
<1>5. ASSUME f = j + (e - i), \A k \in 0 .. e - i - 1 : p[i + k] = q[j + k]
      PROVE  a = b
  <2>1. Len(a) = Len(b)
    BY <1>1, <1>2, <1>3, <1>5
  <2>2. ASSUME NEW k \in 1 .. Len(a) PROVE a[k] = b[k]
    <3>1. k - 1 \in 0 .. e - i - 1 /\ k \in 1 .. e - i /\ k \in 1 .. f - j
          /\ i + (k - 1) = i + k - 1 /\ j + (k - 1) = j + k - 1
      BY <1>1, <1>2, <1>5
    <3> QED
      BY <1>2, <1>3, <1>5, <3>1
  <2> QED
    BY <1>2, <1>3, <2>1, <2>2, SeqEqual
<1> QED
  BY <1>4, <1>5 DEF a, b

(* A level without wildcards has to be the same, *)
LEMMA PlainLevel ==
    ASSUME NEW T, NEW p \in Seq(T), NEW q \in Seq(T),
           NEW i \in 1 .. Len(p) + 1, NEW e, e = LevelEnd(p, i),
           NEW j \in 1 .. Len(q) + 1, NEW f, f = LevelEnd(q, j),
           \A k \in i .. e - 1 : p[k] \notin {"#", "+"}
    PROVE  Accepts(p, q, i, j) <=> LevelAt(p, i) = LevelAt(q, j) /\ GoesOn(p, q, e, f)
<1> DEFINE n == e - i
           Same == \A k \in 0 .. n - 1 : p[i + k] = q[j + k]
<1>1. /\ Len(p) \in Nat /\ Len(q) \in Nat /\ i \in Nat /\ j \in Nat
      /\ e \in i .. Len(p) + 1 /\ \A k \in i .. e - 1 : p[k] # "/"
  BY LevelEnds
<1>2. n \in Nat /\ i + n <= Len(p) + 1 /\ i + n = e
  BY <1>1
<1>3. \A k \in i .. i + n - 1 : p[k] \notin {"#", "+"}
  BY <1>2
<1>4. Accepts(p, q, i, j) <=> j + n <= Len(q) + 1 /\ Same /\ Accepts(p, q, e, j + n)
  <2> HIDE DEF n
  <2>1. Accepts(p, q, i, j) <=>
           /\ j + n <= Len(q) + 1
           /\ \A k \in 0 .. n - 1 : p[i + k] = q[j + k]
           /\ Accepts(p, q, i + n, j + n)
    BY <1>2, <1>3, PlainRun
  <2> HIDE DEF Same
  <2> QED
    BY <1>2, <2>1 DEF Same
<1>5. LevelAt(p, i) = LevelAt(q, j) <=> f = j + n /\ Same
  BY SameLevel
<1> HIDE DEF n
<1>6. ASSUME Accepts(p, q, i, j) PROVE f = j + n
  <2>1. PICK d : d = j + n
    OBVIOUS
  <2>2. d \in 1 .. Len(q) + 1 /\ d \in j .. Len(q) + 1 /\ Accepts(p, q, e, d)
    BY <1>1, <1>2, <1>4, <1>6, <2>1
  <2>3. \A k \in j .. d - 1 : q[k] # "/"
    <3>1. \A k \in j .. d - 1 : /\ k - j \in 0 .. n - 1 /\ j + (k - j) = k
                                /\ i + (k - j) \in i .. e - 1
      BY <1>1, <1>2, <2>1
    <3> QED
      BY <1>1, <1>4, <1>6, <3>1
  <2>4. d <= Len(q) => q[d] = "/"
    <3>1. CASE e > Len(p)
      <4>1. d > Len(q)
        BY <2>2, <3>1, AtLevelEnd
      <4> QED
        BY <1>1, <2>2, <4>1
    <3>2. CASE e <= Len(p)
      BY <2>2, <3>2, AtLevelEnd
    <3> QED
      BY <1>1, <3>1, <3>2
  <2>5. LevelEnd(q, j) = d
    BY <2>2, <2>3, <2>4, LevelEndIs
  <2> QED
    BY <2>1, <2>5
<1>7. Accepts(p, q, e, f) <=> GoesOn(p, q, e, f)
  BY AtBothEnds
<1>8. f \in j .. Len(q) + 1
  BY LevelEnds
<1>9. f = j + n => j + n <= Len(q) + 1
  BY <1>1, <1>8
<1> HIDE DEF Same
<1> QED
  BY <1>4, <1>5, <1>6, <1>7, <1>9

(* a '+' takes a level with at least one character, *)
LEMMA PlusLevel ==
    ASSUME NEW T, NEW p \in Seq(T), NEW q \in Seq(T),
           NEW i \in 1 .. Len(p) + 1, NEW e, e = LevelEnd(p, i),
           NEW j \in 1 .. Len(q) + 1, NEW f, f = LevelEnd(q, j),
           LevelAt(p, i) = <<"+">>
    PROVE  Accepts(p, q, i, j) <=> LevelAt(q, j) # << >> /\ GoesOn(p, q, e, f)
<1>1. /\ Len(p) \in Nat /\ Len(q) \in Nat /\ i \in Nat /\ j \in Nat
      /\ e \in i .. Len(p) + 1 /\ f \in j .. Len(q) + 1
      /\ (f <= Len(q) => q[f] = "/") /\ \A k \in j .. f - 1 : q[k] # "/"
  BY LevelEnds
<1>2. Len(LevelAt(p, i)) = e - i /\ \A k \in 1 .. e - i : LevelAt(p, i)[k] = p[i + k - 1]
  BY LevelType
<1>3. e = i + 1 /\ i <= Len(p)
  BY <1>1, <1>2
<1>4. p[i] = "+"
  <2>1. 1 \in 1 .. e - i /\ i + 1 - 1 = i
    BY <1>1, <1>3
  <2>2. LevelAt(p, i)[1] = p[i]
    BY <1>2, <2>1
  <2> QED
    BY <2>2
<1>5. LevelAt(q, j) # << >> <=> f # j
  <2>1. LevelAt(q, j) \in Seq(T) /\ Len(LevelAt(q, j)) = f - j
    BY LevelType
  <2>2. LevelAt(q, j) = << >> <=> Len(LevelAt(q, j)) = 0
    BY <2>1, EmptySeq
  <2> QED
    BY <1>1, <2>1, <2>2
<1>6. f # j <=> j <= Len(q) /\ q[j] # "/"
  BY <1>1
<1>7. j <= Len(q) => (Accepts(p, q, i, j) <=> q[j] # "/" /\ Accepts(p, q, e, f))
  BY <1>3, <1>4, AcceptsStep
<1>8. j > Len(q) => ~ Accepts(p, q, i, j)
  BY <1>3, AcceptsStep
<1>9. Accepts(p, q, e, f) <=> GoesOn(p, q, e, f)
  BY AtBothEnds
<1>10. j <= Len(q) \/ j > Len(q)
  BY <1>1
<1>11. CASE j > Len(q)
  <2>1. ~ (j <= Len(q))
    BY <1>1, <1>11
  <2> QED
    BY <1>5, <1>6, <1>8, <1>11, <2>1
<1>12. CASE j <= Len(q)
  BY <1>5, <1>6, <1>7, <1>9, <1>12
<1> QED
  BY <1>10, <1>11, <1>12

(* and a '#' all that is left, if there is anything. *)
LEMMA HashLevel ==
    ASSUME NEW T, NEW p \in Seq(T), NEW q \in Seq(T),
           NEW i \in 1 .. Len(p) + 1, NEW j \in 1 .. Len(q) + 1,
           LevelAt(p, i) = <<"#">>
    PROVE  Accepts(p, q, i, j) <=> LevelAt(q, j) # << >> \/ LevelEnd(q, j) <= Len(q)
<1> DEFINE e == LevelEnd(p, i)
           f == LevelEnd(q, j)
<1>1. /\ Len(p) \in Nat /\ Len(q) \in Nat /\ i \in Nat /\ j \in Nat
      /\ e \in i .. Len(p) + 1 /\ f \in j .. Len(q) + 1
  BY LevelEnds
<1>2. Len(LevelAt(p, i)) = e - i /\ \A k \in 1 .. e - i : LevelAt(p, i)[k] = p[i + k - 1]
  BY LevelType
<1> HIDE DEF e
<1>3. e = i + 1 /\ i <= Len(p)
  BY <1>1, <1>2
<1>4. p[i] = "#"
  <2>1. 1 \in 1 .. e - i /\ i + 1 - 1 = i
    BY <1>1, <1>3
  <2>2. LevelAt(p, i)[1] = p[i]
    BY <1>2, <2>1
  <2> QED
    BY <2>2
<1>5. Accepts(p, q, i, j) <=> j <= Len(q)
  <2>1. j <= Len(q) => Accepts(p, q, i, j)
    BY <1>3, <1>4, AcceptsStep
  <2>2. j > Len(q) => ~ Accepts(p, q, i, j)
    BY <1>3, AcceptsStep
  <2>3. j <= Len(q) \/ j > Len(q)
    BY <1>1
  <2> QED
    BY <2>1, <2>2, <2>3
<1>6. LevelAt(q, j) # << >> <=> f # j
  <2>1. LevelAt(q, j) \in Seq(T) /\ Len(LevelAt(q, j)) = f - j
    BY LevelType
  <2>2. LevelAt(q, j) = << >> <=> Len(LevelAt(q, j)) = 0
    BY <2>1, EmptySeq
  <2> HIDE DEF f
  <2> QED
    BY <1>1, <2>1, <2>2
<1> HIDE DEF f
<1>7. j <= Len(q) <=> f # j \/ f <= Len(q)
  BY <1>1
<1> QED
  BY <1>5, <1>6, <1>7 DEF f

-----------------------------------------------------------------------------
(* Scan and levels *)

(* ByLevel, for sequences of levels. *)
LevelsMatch(P, Q) ==
    IF P[Len(P)] = <<"#">>
    THEN /\ Len(Q) >= Len(P)
         /\ \A k \in 1 .. Len(P) - 1 : LevelMatches(P[k], Q[k])
         /\ Len(Q) > Len(P) \/ Q[Len(P)] # << >>
    ELSE /\ Len(Q) = Len(P)
         /\ \A k \in DOMAIN P : LevelMatches(P[k], Q[k])

(* The wildcards of P are levels of their own, and '#' the last one. *)
Sound(P) ==
    \A k \in DOMAIN P :
        /\ "+" \in Range(P[k]) => P[k] = <<"+">>
        /\ "#" \in Range(P[k]) => P[k] = <<"#">> /\ k = Len(P)

(* A first level more on both sides. *)
LEMMA FirstLevels ==
    ASSUME NEW S, NEW P \in Seq(S), NEW Q \in Seq(S), NEW P1 \in Seq(S), NEW Q1 \in Seq(S),
           Len(P1) >= 1, Len(Q1) >= 1,
           Len(P) = Len(P1) + 1, \A k \in 1 .. Len(P1) : P[k + 1] = P1[k],
           Len(Q) = Len(Q1) + 1, \A k \in 1 .. Len(Q1) : Q[k + 1] = Q1[k]
    PROVE  LevelsMatch(P, Q) <=> LevelMatches(P[1], Q[1]) /\ LevelsMatch(P1, Q1)
<1> DEFINE m == Len(P1)
           All(n) == \A k \in 1 .. n : LevelMatches(P[k], Q[k])
           All1(n) == \A k \in 1 .. n : LevelMatches(P1[k], Q1[k])
<1>1. m \in Nat /\ m >= 1 /\ Len(P) = m + 1 /\ Len(Q1) \in Nat /\ Len(Q) = Len(Q1) + 1
  OBVIOUS
<1>2. DOMAIN P = 1 .. m + 1 /\ DOMAIN P1 = 1 .. m
  BY <1>1
<1>3. P[m + 1] = P1[m]
  BY <1>1
<1>4. ASSUME NEW n \in 0 .. m, n <= Len(Q1)
      PROVE  All(n + 1) <=> LevelMatches(P[1], Q[1]) /\ All1(n)
  <2>1. \A k \in 1 .. n : P[k + 1] = P1[k] /\ Q[k + 1] = Q1[k] /\ k + 1 \in 1 .. n + 1
    BY <1>1, <1>4
  <2>2. \A k \in 1 .. n + 1 : k = 1 \/ (k - 1 \in 1 .. n /\ k - 1 + 1 = k)
    BY <1>4
  <2>3. 1 \in 1 .. n + 1
    BY <1>4
  <2>4. ASSUME All(n + 1) PROVE LevelMatches(P[1], Q[1]) /\ All1(n)
    <3>1. \A k \in 1 .. n : LevelMatches(P[k + 1], Q[k + 1])
      BY <2>1, <2>4
    <3> QED
      BY <2>1, <2>3, <2>4, <3>1
  <2>5. ASSUME LevelMatches(P[1], Q[1]), All1(n) PROVE All(n + 1)
    <3>1. \A k \in 1 .. n : LevelMatches(P[k + 1], Q[k + 1])
      BY <2>1, <2>5
    <3>2. ASSUME NEW k \in 1 .. n + 1 PROVE LevelMatches(P[k], Q[k])
      <4>1. CASE k = 1
        BY <2>5, <4>1
      <4>2. CASE k - 1 \in 1 .. n /\ k - 1 + 1 = k
        <5>1. LevelMatches(P[k - 1 + 1], Q[k - 1 + 1])
          BY <3>1, <4>2
        <5> QED
          BY <4>2, <5>1
      <4> QED
        BY <2>2, <4>1, <4>2
    <3> QED
      BY <3>2
  <2> QED
    BY <2>4, <2>5
<1> HIDE DEF m
<1>5. CASE P1[m] = <<"#">>
  <2>1. LevelsMatch(P, Q) <=> /\ Len(Q) >= m + 1 /\ All(m)
                              /\ Len(Q) > m + 1 \/ Q[m + 1] # << >>
    <3>1. m + 1 - 1 = m
      BY <1>1
    <3> QED
      BY <1>1, <1>3, <1>5, <3>1 DEF LevelsMatch
  <2>2. LevelsMatch(P1, Q1) <=> /\ Len(Q1) >= m /\ All1(m - 1)
                                /\ Len(Q1) > m \/ Q1[m] # << >>
    BY <1>5 DEF LevelsMatch, m
  <2> HIDE DEF All, All1
  <2>3. CASE Len(Q1) >= m
    <3>1. m - 1 \in 0 .. m /\ m - 1 <= Len(Q1) /\ m - 1 + 1 = m /\ m \in 1 .. Len(Q1)
      BY <1>1, <2>3
    <3>2. All(m) <=> LevelMatches(P[1], Q[1]) /\ All1(m - 1)
      <4>1. All(m - 1 + 1) <=> LevelMatches(P[1], Q[1]) /\ All1(m - 1)
        BY <1>4, <3>1
      <4> QED
        BY <3>1, <4>1
    <3>3. Q[m + 1] = Q1[m]
      BY <3>1
    <3>4. /\ Len(Q) >= m + 1 <=> Len(Q1) >= m
          /\ Len(Q) > m + 1 <=> Len(Q1) > m
      BY <1>1
    <3> QED
      BY <2>1, <2>2, <3>2, <3>3, <3>4
  <2>4. CASE ~ (Len(Q1) >= m)
    <3>1. ~ (Len(Q) >= m + 1)
      BY <1>1, <2>4
    <3> QED
      BY <2>1, <2>2, <2>4, <3>1
  <2> QED
    BY <2>3, <2>4
<1>6. CASE P1[m] # <<"#">>
  <2>1. LevelsMatch(P, Q) <=> Len(Q) = m + 1 /\ All(m + 1)
    BY <1>1, <1>2, <1>3, <1>6 DEF LevelsMatch
  <2>2. LevelsMatch(P1, Q1) <=> Len(Q1) = m /\ All1(m)
    BY <1>2, <1>6 DEF LevelsMatch, m
  <2> HIDE DEF All, All1
  <2>3. Len(Q) = m + 1 <=> Len(Q1) = m
    BY <1>1
  <2>4. Len(Q1) = m => (All(m + 1) <=> LevelMatches(P[1], Q[1]) /\ All1(m))
    <3>1. Len(Q1) = m => m \in 0 .. m /\ m <= Len(Q1)
      BY <1>1
    <3> QED
      BY <1>4, <3>1
  <2> QED
    BY <2>1, <2>2, <2>3, <2>4
<1> QED
  BY <1>5, <1>6

(* What Sound says of a first level, *)
LEMMA SoundFirst ==
    ASSUME NEW T, NEW p \in Seq(T), NEW i \in 1 .. Len(p) + 1, Sound(LevelsFrom(p)[i])
    PROVE  /\ \/ LevelAt(p, i) = <<"#">> /\ LevelEnd(p, i) > Len(p)
              \/ LevelAt(p, i) = <<"+">>
              \/ \A k \in i .. LevelEnd(p, i) - 1 : p[k] \notin {"#", "+"}
<1> DEFINE P == LevelsFrom(p)[i]
           a == LevelAt(p, i)
           e == LevelEnd(p, i)
           P1 == LevelsFrom(p)[e + 1]
<1>1. Len(p) \in Nat /\ i \in Nat /\ e \in i .. Len(p) + 1
  BY LevelEnds
<1>2. P \in Seq(Seq(T)) /\ Len(P) >= 1
  BY LevelsType
<1>3. P[1] = a /\ (e <= Len(p) => Len(P) = Len(P1) + 1)
  BY LevelsCons
<1>4. e <= Len(p) => P1 \in Seq(Seq(T)) /\ Len(P1) >= 1
  <2>1. e <= Len(p) => e + 1 \in 1 .. Len(p) + 1
    BY <1>1
  <2> QED
    BY <2>1, LevelsType
<1>5. a \in Seq(T) /\ Len(a) = e - i /\ \A k \in 1 .. e - i : a[k] = p[i + k - 1]
  BY LevelType
<1>6. 1 \in DOMAIN P
  <2> HIDE DEF P
  <2> QED
    BY <1>2
<1>7. /\ "+" \in Range(a) => a = <<"+">>
      /\ "#" \in Range(a) => a = <<"#">> /\ 1 = Len(P)
  BY <1>3, <1>6, Zenon DEF Sound
<1> HIDE DEF P, a, e, P1
<1>8. ASSUME NEW k \in i .. e - 1 PROVE p[k] \in Range(a)
  <2>1. PICK m : m = k - i + 1
    OBVIOUS
  <2>2. m \in 1 .. e - i /\ i + m - 1 = k /\ DOMAIN a = 1 .. e - i
    BY <1>1, <1>5, <2>1
  <2>3. a[m] = p[k]
    BY <1>5, <2>2
  <2> QED
    BY <2>2, <2>3 DEF Range
<1>9. CASE "#" \in Range(a)
  <2>1. ~ (e <= Len(p))
    <3>1. e <= Len(p) => Len(P1) \in Nat /\ Len(P1) >= 1
      BY <1>4
    <3>2. 1 = Len(P)
      BY <1>7, <1>9
    <3> QED
      BY <1>3, <3>1, <3>2
  <2>2. e > Len(p)
    BY <1>1, <2>1
  <2> QED
    BY <1>7, <1>9, <2>2 DEF a, e
<1>10. CASE "+" \in Range(a)
  BY <1>7, <1>10 DEF a
<1>11. CASE "#" \notin Range(a) /\ "+" \notin Range(a)
  <2>1. \A k \in i .. e - 1 : p[k] \notin {"#", "+"}
    BY <1>8, <1>11
  <2> QED
    BY <2>1 DEF e
<1> QED
  BY <1>9, <1>10, <1>11

(* and of the levels after it. *)
LEMMA SoundRest ==
    ASSUME NEW T, NEW p \in Seq(T), NEW i \in 1 .. Len(p) + 1, Sound(LevelsFrom(p)[i]),
           LevelEnd(p, i) <= Len(p)
    PROVE  Sound(LevelsFrom(p)[LevelEnd(p, i) + 1])
<1> DEFINE P == LevelsFrom(p)[i]
           e == LevelEnd(p, i)
           P1 == LevelsFrom(p)[e + 1]
<1>1. Len(p) \in Nat /\ e \in i .. Len(p) + 1
  BY LevelEnds
<1>2. P \in Seq(Seq(T)) /\ Len(P) >= 1
  BY LevelsType
<1>3. Len(P) = Len(P1) + 1 /\ \A k \in 1 .. Len(P1) : P[k + 1] = P1[k]
  BY LevelsCons
<1>4. P1 \in Seq(Seq(T)) /\ Len(P1) >= 1
  <2>1. e + 1 \in 1 .. Len(p) + 1
    BY <1>1
  <2> QED
    BY <2>1, LevelsType
<1>5. Sound(P)
  OBVIOUS
<1> HIDE DEF P, P1
<1>6. ASSUME NEW k \in DOMAIN P1
      PROVE  /\ "+" \in Range(P1[k]) => P1[k] = <<"+">>
             /\ "#" \in Range(P1[k]) => P1[k] = <<"#">> /\ k = Len(P1)
  <2>1. k \in 1 .. Len(P1) /\ k + 1 \in DOMAIN P
    BY <1>2, <1>3, <1>4
  <2>2. P[k + 1] = P1[k]
    BY <1>3, <2>1
  <2>3. /\ "+" \in Range(P1[k]) => P1[k] = <<"+">>
        /\ "#" \in Range(P1[k]) => P1[k] = <<"#">> /\ k + 1 = Len(P)
    BY <1>5, <2>1, <2>2, Zenon DEF Sound
  <2>4. k + 1 = Len(P) => k = Len(P1)
    BY <1>3, <1>4, <2>1
  <2> QED
    BY <2>3, <2>4
<1>7. Sound(P1)
  BY <1>6, Zenon DEF Sound
<1> QED
  BY <1>7 DEF P1

(* A first level that is no '#' matches, and the scan goes on after it. *)
LEMMA FirstLevel ==
    ASSUME NEW T, NEW p \in Seq(T), NEW q \in Seq(T),
           NEW i \in 1 .. Len(p) + 1, NEW e, e = LevelEnd(p, i),
           NEW j \in 1 .. Len(q) + 1, NEW f, f = LevelEnd(q, j),
           Sound(LevelsFrom(p)[i]), LevelAt(p, i) # <<"#">>
    PROVE  Accepts(p, q, i, j) <=>
              LevelMatches(LevelAt(p, i), LevelAt(q, j)) /\ GoesOn(p, q, e, f)
<1>1. CASE LevelAt(p, i) = <<"+">>
  <2>1. Accepts(p, q, i, j) <=> LevelAt(q, j) # << >> /\ GoesOn(p, q, e, f)
    BY <1>1, PlusLevel
  <2>2. <<"+">> # << >>
    OBVIOUS
  <2>3. LevelMatches(LevelAt(p, i), LevelAt(q, j)) <=> LevelAt(q, j) # << >>
    BY <1>1, <2>2 DEF LevelMatches
  <2> QED
    BY <2>1, <2>3
<1>2. CASE LevelAt(p, i) # <<"+">>
  <2>1. \A k \in i .. e - 1 : p[k] \notin {"#", "+"}
    BY <1>2, SoundFirst
  <2>2. Accepts(p, q, i, j) <=> LevelAt(p, i) = LevelAt(q, j) /\ GoesOn(p, q, e, f)
    BY <2>1, PlainLevel
  <2> QED
    BY <1>2, <2>2 DEF LevelMatches
<1> QED
  BY <1>1, <1>2

(* A scan that agrees with the levels after the first agrees with them all. *)
LEMMA LevelByLevel ==
    ASSUME NEW T, NEW p \in Seq(T), NEW q \in Seq(T),
           NEW i \in 1 .. Len(p) + 1, NEW e, e = LevelEnd(p, i),
           NEW j \in 1 .. Len(q) + 1, NEW f, f = LevelEnd(q, j),
           Sound(LevelsFrom(p)[i]),
           e <= Len(p) /\ f <= Len(q) =>
              (Accepts(p, q, e + 1, f + 1) <=>
                 LevelsMatch(LevelsFrom(p)[e + 1], LevelsFrom(q)[f + 1]))
    PROVE  Accepts(p, q, i, j) <=> LevelsMatch(LevelsFrom(p)[i], LevelsFrom(q)[j])
<1> DEFINE P == LevelsFrom(p)[i]
           Q == LevelsFrom(q)[j]
           P1 == LevelsFrom(p)[e + 1]
           Q1 == LevelsFrom(q)[f + 1]
           a == LevelAt(p, i)
           b == LevelAt(q, j)
<1>1. /\ Len(p) \in Nat /\ Len(q) \in Nat
      /\ e \in 1 .. Len(p) + 1 /\ f \in 1 .. Len(q) + 1
  BY LevelEnds
<1>2. /\ P \in Seq(Seq(T)) /\ Len(P) >= 1
      /\ Q \in Seq(Seq(T)) /\ Len(Q) >= 1
  BY LevelsType
<1>3. /\ e <= Len(p) => P1 \in Seq(Seq(T)) /\ Len(P1) >= 1
      /\ f <= Len(q) => Q1 \in Seq(Seq(T)) /\ Len(Q1) >= 1
  <2>1. /\ e <= Len(p) => e + 1 \in 1 .. Len(p) + 1
        /\ f <= Len(q) => f + 1 \in 1 .. Len(q) + 1
    BY <1>1
  <2> QED
    BY <2>1, LevelsType
<1>4. /\ P[1] = a
      /\ e > Len(p) => Len(P) = 1
      /\ e <= Len(p) => Len(P) = Len(P1) + 1 /\ \A k \in 1 .. Len(P1) : P[k + 1] = P1[k]
  BY LevelsCons
<1>5. /\ Q[1] = b
      /\ f > Len(q) => Len(Q) = 1
      /\ f <= Len(q) => Len(Q) = Len(Q1) + 1 /\ \A k \in 1 .. Len(Q1) : Q[k + 1] = Q1[k]
  BY LevelsCons
<1>6. a = <<"#">> => e > Len(p)
  <2>1. ASSUME a = <<"#">>, ~ (e > Len(p)) PROVE FALSE
    <3>1. \A k \in i .. e - 1 : p[k] \notin {"#", "+"}
      BY <2>1, SoundFirst
    <3>2. Len(a) = e - i /\ \A k \in 1 .. e - i : a[k] = p[i + k - 1]
      BY LevelType
    <3>3. Len(a) = 1 /\ a[1] = "#"
      BY <2>1
    <3> HIDE DEF a
    <3>4. i \in i .. e - 1 /\ 1 \in 1 .. e - i /\ i + 1 - 1 = i
      <4>1. i \in Nat /\ e \in Nat
        BY <1>1
      <4>2. e - i = 1
        BY <3>2, <3>3
      <4> QED
        BY <4>1, <4>2
    <3>5. p[i] = "#"
      BY <3>2, <3>3, <3>4
    <3> QED
      BY <3>1, <3>4, <3>5
  <2> QED
    BY <2>1
<1>7. a = <<"#">> => (Accepts(p, q, i, j) <=> b # << >> \/ f <= Len(q))
  BY HashLevel
<1>8. a # <<"#">> => (Accepts(p, q, i, j) <=> LevelMatches(a, b) /\ GoesOn(p, q, e, f))
  BY FirstLevel
<1>9. e <= Len(p) /\ f <= Len(q) => (Accepts(p, q, e + 1, f + 1) <=> LevelsMatch(P1, Q1))
  OBVIOUS
<1> HIDE DEF P, Q, P1, Q1, a, b
<1>10. /\ e <= Len(p) <=> ~ (e > Len(p))
       /\ f <= Len(q) <=> ~ (f > Len(q))
  BY <1>1
<1>11. f > Len(q) <=> Len(Q) = 1
  <2>1. f <= Len(q) => Len(Q1) \in Nat /\ Len(Q1) >= 1
    BY <1>3
  <2>2. /\ f > Len(q) => Len(Q) = 1
        /\ f <= Len(q) => Len(Q) = Len(Q1) + 1
    BY <1>5
  <2>3. f <= Len(q) => Len(Q) # 1
    BY <2>1, <2>2
  <2> QED
    BY <1>10, <2>2, <2>3, Zenon
<1>12. CASE a = <<"#">>
  <2>1. Len(P) = 1 /\ P[Len(P)] = <<"#">>
    BY <1>4, <1>6, <1>12
  <2>2. \A k \in 1 .. Len(P) - 1 : FALSE
    BY <2>1
  <2>3. LevelsMatch(P, Q) <=> Len(Q) >= 1 /\ (Len(Q) > 1 \/ Q[1] # << >>)
    BY <2>1, <2>2 DEF LevelsMatch
  <2>4. Len(Q) > 1 <=> f <= Len(q)
    <3>1. Len(Q) > 1 <=> Len(Q) # 1
      <4>1. PICK n : n = Len(Q)
        OBVIOUS
      <4>2. n \in Nat /\ n >= 1
        BY <1>2, <4>1
      <4>3. n > 1 <=> n # 1
        BY <4>2
      <4> QED
        BY <4>1, <4>3
    <3> QED
      BY <1>10, <1>11, <3>1, Zenon
  <2>5. LevelsMatch(P, Q) <=> b # << >> \/ f <= Len(q)
    BY <1>2, <1>5, <2>3, <2>4
  <2> QED
    BY <1>7, <1>12, <2>5 DEF P, Q
<1>13. CASE a # <<"#">> /\ e > Len(p)
  <2>1. Len(P) = 1 /\ P[Len(P)] # <<"#">> /\ DOMAIN P = {1}
    <3>1. Len(P) = 1 /\ DOMAIN P = 1 .. 1 /\ P[1] = a
      BY <1>2, <1>4, <1>13
    <3>2. 1 .. 1 = {1}
      OBVIOUS
    <3> QED
      BY <1>13, <3>1, <3>2
  <2>2. LevelsMatch(P, Q) <=> Len(Q) = 1 /\ LevelMatches(a, b)
    BY <1>4, <1>5, <2>1 DEF LevelsMatch
  <2>3. GoesOn(p, q, e, f) <=> f > Len(q)
    BY <1>10, <1>13 DEF GoesOn
  <2> QED
    BY <1>8, <1>11, <1>13, <2>2, <2>3 DEF P, Q
<1>14. CASE e <= Len(p) /\ f > Len(q)
  <2>1. ~ GoesOn(p, q, e, f)
    BY <1>10, <1>14 DEF GoesOn
  <2>2. Len(Q) = 1 /\ Len(P1) >= 1 /\ Len(P) = Len(P1) + 1 /\ P1 \in Seq(Seq(T))
    BY <1>3, <1>4, <1>5, <1>14
  <2>3. ~ LevelsMatch(P, Q)
    <3>0. Len(P1) \in Nat
      BY <2>2
    <3>1. ~ (Len(Q) >= Len(P)) /\ Len(Q) # Len(P)
      BY <2>2, <3>0
    <3> QED
      BY <3>1 DEF LevelsMatch
  <2> QED
    BY <1>6, <1>8, <1>10, <1>14, <2>1, <2>3 DEF P, Q
<1>15. CASE e <= Len(p) /\ f <= Len(q)
  <2>1. LevelsMatch(P, Q) <=> LevelMatches(P[1], Q[1]) /\ LevelsMatch(P1, Q1)
    BY <1>2, <1>3, <1>4, <1>5, <1>15, FirstLevels
  <2>2. GoesOn(p, q, e, f) <=> LevelsMatch(P1, Q1)
    BY <1>9, <1>10, <1>15 DEF GoesOn
  <2> QED
    BY <1>4, <1>5, <1>6, <1>8, <1>10, <1>15, <2>1, <2>2 DEF P, Q
<1> QED
  BY <1>10, <1>12, <1>13, <1>14, <1>15

(* The scan agrees with the levels from any two positions on. *)
LEMMA ScanByLevels ==
    ASSUME NEW T, NEW p \in Seq(T), NEW q \in Seq(T)
    PROVE  \A i \in 1 .. Len(p) + 1 : Sound(LevelsFrom(p)[i]) =>
              \A j \in 1 .. Len(q) + 1 :
                 Accepts(p, q, i, j) <=> LevelsMatch(LevelsFrom(p)[i], LevelsFrom(q)[j])
<1> DEFINE Agree(i) ==
              Sound(LevelsFrom(p)[i]) =>
                 \A j \in 1 .. Len(q) + 1 :
                    Accepts(p, q, i, j) <=> LevelsMatch(LevelsFrom(p)[i], LevelsFrom(q)[j])
           N == {n \in Nat : \A i \in 1 .. Len(p) + 1 : Len(p) + 1 - i <= n => Agree(i)}
<1>1. Len(p) \in Nat /\ Len(q) \in Nat
  OBVIOUS
<1>2. ASSUME NEW i \in 1 .. Len(p) + 1,
             LevelEnd(p, i) <= Len(p) => Agree(LevelEnd(p, i) + 1)
      PROVE  Agree(i)
  <2> SUFFICES ASSUME Sound(LevelsFrom(p)[i]), NEW j \in 1 .. Len(q) + 1
               PROVE  Accepts(p, q, i, j) <=> LevelsMatch(LevelsFrom(p)[i], LevelsFrom(q)[j])
    OBVIOUS
  <2>1. PICK e, f : e = LevelEnd(p, i) /\ f = LevelEnd(q, j)
    OBVIOUS
  <2>2. f <= Len(q) => f + 1 \in 1 .. Len(q) + 1
    BY <1>1, <2>1, LevelEnds
  <2>3. e <= Len(p) => Sound(LevelsFrom(p)[e + 1])
    BY <2>1, SoundRest
  <2>4. e <= Len(p) /\ f <= Len(q) =>
           (Accepts(p, q, e + 1, f + 1) <=>
              LevelsMatch(LevelsFrom(p)[e + 1], LevelsFrom(q)[f + 1]))
    BY <1>2, <2>1, <2>2, <2>3
  <2> QED
    BY <2>1, <2>4, LevelByLevel
<1> HIDE DEF Agree
<1>3. 0 \in N
  <2>1. ASSUME NEW i \in 1 .. Len(p) + 1, Len(p) + 1 - i <= 0 PROVE Agree(i)
    <3>1. LevelEnd(p, i) \in i .. Len(p) + 1
      BY LevelEnds
    <3>2. ~ (LevelEnd(p, i) <= Len(p))
      BY <1>1, <2>1, <3>1
    <3> QED
      BY <1>2, <3>2
  <2> QED
    BY <2>1
<1>4. ASSUME NEW n \in Nat, n \in N PROVE n + 1 \in N
  <2>1. ASSUME NEW i \in 1 .. Len(p) + 1, Len(p) + 1 - i <= n + 1 PROVE Agree(i)
    <3>1. LevelEnd(p, i) \in i .. Len(p) + 1
      BY LevelEnds
    <3>2. LevelEnd(p, i) <= Len(p) =>
             /\ LevelEnd(p, i) + 1 \in 1 .. Len(p) + 1
             /\ Len(p) + 1 - (LevelEnd(p, i) + 1) <= n
      BY <1>1, <2>1, <3>1
    <3> QED
      BY <1>2, <1>4, <3>2
  <2> QED
    BY <2>1
<1>5. Nat \subseteq N
  <2> HIDE DEF N
  <2> QED
    BY <1>3, <1>4, ByInduction
<1>6. ASSUME NEW i \in 1 .. Len(p) + 1 PROVE Agree(i)
  <2>1. Len(p) + 1 - i \in Nat /\ Len(p) + 1 - i <= Len(p) + 1 - i
    BY <1>1
  <2> QED
    BY <1>5, <2>1
<1> QED
  BY <1>6 DEF Agree

-----------------------------------------------------------------------------
(* The topic and its query string *)

LEMMA MaxIsGreatest ==
    ASSUME NEW n \in Nat, NEW S \in SUBSET (0 .. n), S # {}
    PROVE  Max(S) \in S /\ \A y \in S : Max(S) >= y
<1> DEFINE R == {m \in Nat : m <= n /\ n - m \in S}
<1>1. R \in SUBSET Nat
  OBVIOUS
<1>2. R # {}
  <2>1. PICK y \in S : TRUE
    OBVIOUS
  <2>2. y \in 0 .. n
    OBVIOUS
  <2>3. n - y \in Nat /\ n - y <= n /\ n - (n - y) = y
    BY <2>2
  <2>4. n - y \in R
    BY <2>3
  <2> QED
    BY <2>4
<1>3. PICK m \in R : \A k \in R : m <= k
  BY <1>1, <1>2, MinIsLeast
<1>4. \A y \in S : n - y \in R /\ y \in 0 .. n
  <2> SUFFICES ASSUME NEW y \in S PROVE n - y \in R /\ y \in 0 .. n
    OBVIOUS
  <2>1. y \in 0 .. n
    OBVIOUS
  <2>2. n - y \in Nat /\ n - y <= n /\ n - (n - y) = y
    BY <2>1
  <2> QED
    BY <2>1, <2>2
<1>5. n - m \in S /\ m \in Nat
  OBVIOUS
<1>6. \A y \in S : n - m >= y
  <2> HIDE DEF R
  <2> QED
    BY <1>3, <1>4, <1>5
<1>7. \E x \in S : \A y \in S : x >= y
  BY <1>5, <1>6
<1> QED
  BY <1>7 DEF Max

(* What is left of a topic is a beginning of it. *)
LEMMA TruncateType ==
    ASSUME NEW T, NEW t \in Seq(T)
    PROVE  truncate(t) \in Seq(T) /\ Range(truncate(t)) \subseteq Range(t)
<1> DEFINE marks == {i \in DOMAIN t : t[i] = "?"}
<1>1. Len(t) \in Nat /\ DOMAIN t = 1 .. Len(t)
  OBVIOUS
<1>2. CASE marks = {}
  BY <1>2 DEF truncate
<1>3. CASE marks # {}
  <2>1. marks \in SUBSET (0 .. Len(t))
    BY <1>1
  <2>2. Max(marks) \in marks
    BY <1>1, <1>3, <2>1, MaxIsGreatest
  <2>3. truncate(t) = SubSeq(t, 1, Max(marks) - 1)
    BY <1>3 DEF truncate
  <2>4. PICK m : m = Max(marks) - 1
    OBVIOUS
  <2>5. m \in 0 .. Len(t)
    <3>1. Max(marks) \in 1 .. Len(t)
      BY <1>1, <2>2
    <3> HIDE DEF marks
    <3> QED
      BY <1>1, <2>4, <3>1
  <2> DEFINE r == SubSeq(t, 1, m)
  <2>6. truncate(t) = r
    BY <2>3, <2>4
  <2>7. \A k \in 1 .. m : t[k] \in T /\ k \in 1 .. Len(t)
    BY <1>1, <2>5
  <2>8. r \in Seq(T) /\ Len(r) = m /\ \A k \in 1 .. m : r[k] = t[k]
    BY <1>1, <2>5, <2>7
  <2> HIDE DEF r, marks
  <2>9. Range(r) \subseteq Range(t)
    <3>1. DOMAIN r = 1 .. m
      BY <2>8
    <3> QED
      BY <1>1, <2>7, <2>8, <3>1 DEF Range
  <2> QED
    BY <2>6, <2>8, <2>9
<1> QED
  BY <1>2, <1>3

(* Of a topic with at most one '?', it is the path. *)
LEMMA TruncateIsPath ==
    ASSUME NEW T, NEW t \in Seq(T), Concrete(t)
    PROVE  truncate(t) = Path(t)
<1> DEFINE marks == {i \in DOMAIN t : t[i] = "?"}
           last == Len(t) + 1
           E == marks \cup {last}
<1>1. Len(t) \in Nat /\ DOMAIN t = 1 .. Len(t) /\ last \in Nat
  OBVIOUS
<1>2. marks \in SUBSET (0 .. Len(t))
  BY <1>1
<1>3. Path(t) = SubSeq(t, 1, Min(E) - 1)
  BY DEF Path
<1>4. Min(E) \in E /\ \A y \in E : Min(E) <= y
  <2>1. E \in SUBSET Nat /\ E # {}
    BY <1>1, <1>2
  <2> HIDE DEF E
  <2> QED
    BY <2>1, MinIsLeast
<1>5. CASE marks = {}
  <2>1. Min(E) = last
    BY <1>4, <1>5
  <2>2. last - 1 = Len(t)
    BY <1>1
  <2>3. Path(t) = SubSeq(t, 1, Len(t))
    BY <1>3, <2>1, <2>2
  <2>4. SubSeq(t, 1, Len(t)) = t
    BY <1>1
  <2> QED
    BY <1>5, <2>3, <2>4 DEF truncate
<1>6. CASE marks # {}
  <2>1. Max(marks) \in marks
    BY <1>1, <1>2, <1>6, MaxIsGreatest
  <2>2. \A x, y \in marks : x = y
    BY DEF Concrete
  <2>3. \A y \in marks : y < last
    BY <1>1, <1>2
  <2>4. Min(E) \in marks
    <3>1. Max(marks) \in E /\ Max(marks) < last /\ Max(marks) \in Nat
      BY <1>2, <2>1, <2>3
    <3>2. Min(E) <= Max(marks)
      BY <1>4, <3>1
    <3>3. Min(E) # last
      <4> HIDE DEF last, E, marks
      <4> QED
        BY <1>1, <3>1, <3>2
    <3> QED
      BY <1>4, <3>3
  <2>5. Min(E) = Max(marks)
    BY <2>1, <2>2, <2>4
  <2>6. truncate(t) = SubSeq(t, 1, Max(marks) - 1)
    BY <1>6 DEF truncate
  <2> HIDE DEF marks, E
  <2> QED
    BY <1>3, <2>5, <2>6
<1> QED
  BY <1>5, <1>6

-----------------------------------------------------------------------------
(* The lookup *)

(* The test of the scan is the match by levels, for every name that is     *)
(* well formed and every concrete topic.                                   *)
LEMMA ScanIsByLevel ==
    ASSUME NEW T, NEW p \in Seq(T), NEW t \in Seq(T), WellFormed(p), Concrete(t)
    PROVE  wildcard_matches(p, t) <=> ByLevel(p, t)
<1> DEFINE q == truncate(t)
<1>1. q \in Seq(T) /\ q = Path(t)
  BY TruncateType, TruncateIsPath
<1>2. wildcard_matches(p, t) <=> Accepts(p, q, 1, 1)
  BY DEF wildcard_matches, scan, Accepts
<1>3. Sound(LevelsFrom(p)[1])
  BY DEF WellFormed, Levels, Sound
<1>4. ByLevel(p, t) <=> LevelsMatch(LevelsFrom(p)[1], LevelsFrom(Path(t))[1])
  BY DEF ByLevel, Levels, LevelsMatch
<1> HIDE DEF q
<1>5. 1 \in 1 .. Len(p) + 1 /\ 1 \in 1 .. Len(q) + 1
  <2>1. Len(p) \in Nat /\ Len(q) \in Nat
    BY <1>1
  <2> QED
    BY <2>1
<1>6. Accepts(p, q, 1, 1) <=> LevelsMatch(LevelsFrom(p)[1], LevelsFrom(q)[1])
  BY <1>1, <1>3, <1>5, ScanByLevels
<1> QED
  BY <1>1, <1>2, <1>4, <1>6

(* The scan finds a concrete name itself: the exact lookup adds nothing    *)
(* for a topic without wildcards.                                          *)
LEMMA ScanFindsItself ==
    ASSUME NEW T, NEW t \in Seq(T), Concrete(t)
    PROVE  wildcard_matches(truncate(t), t)
<1> DEFINE q == truncate(t)
<1>1. q \in Seq(T) /\ Range(q) \subseteq Range(t)
  BY TruncateType
<1>2. wildcard_matches(q, t) <=> Accepts(q, q, 1, 1)
  BY DEF wildcard_matches, scan, Accepts
<1> HIDE DEF q
<1>3. PICK n : n = Len(q)
  OBVIOUS
<1>4. n \in Nat /\ DOMAIN q = 1 .. n
  BY <1>1, <1>3
<1>5. \A k \in 1 .. n : q[k] \notin {"#", "+"}
  BY <1>1, <1>4 DEF Concrete, Range
<1>6. 1 \in 1 .. n + 1 /\ n + 1 \in 1 .. n + 1 /\ 1 + n = n + 1 /\ n + 1 - 1 = n
      /\ n + 1 > n /\ 1 + n <= n + 1
  BY <1>4
<1>7. Accepts(q, q, n + 1, n + 1)
  BY <1>1, <1>3, <1>6, AcceptsStep
<1>8. \A k \in 1 .. 1 + n - 1 : q[k] \notin {"#", "+"}
  <2>1. 1 + n - 1 = n
    BY <1>4
  <2> QED
    BY <1>5, <2>1, Zenon
<1>9. Accepts(q, q, 1, 1) <=>
         /\ 1 + n <= Len(q) + 1
         /\ \A k \in 0 .. n - 1 : q[1 + k] = q[1 + k]
         /\ Accepts(q, q, 1 + n, 1 + n)
  <2>1. 1 \in 1 .. Len(q) + 1 /\ 1 + n <= Len(q) + 1
    BY <1>3, <1>6
  <2> QED
    BY <1>1, <1>4, <1>8, <2>1, PlainRun, Zenon
<1>10. Accepts(q, q, 1, 1)
  BY <1>3, <1>6, <1>7, <1>9
<1> QED
  BY <1>2, <1>10 DEF q

(* No node twice in s. *)
Once(s) == \A i, j \in 1 .. Len(s) : s[i] = s[j] => i = j

(* The registered resources that a topic is about. *)
Found(t) == {p \in Range(table) : wildcard_matches(p, t) \/ p = truncate(t)}

LEMMA SelectOnce ==
    ASSUME NEW T, NEW s \in Seq(T), NEW S, Once(s)
    PROVE  /\ Select(s, S) \in Seq(T) /\ Once(Select(s, S))
           /\ Range(Select(s, S)) = Range(s) \cap S
<1>1. /\ Select(s, S) \in Seq(T)
      /\ Range(Select(s, S)) = Range(s) \cap S
  BY Selects, Zenon
<1>2. Once(Select(s, S))
  BY Selects, Zenon DEF Once
<1> QED
  BY <1>1, <1>2

LEMMA AppendOnce ==
    ASSUME NEW T, NEW s \in Seq(T), Once(s), NEW x \in T, x \notin Range(s)
    PROVE  Append(s, x) \in Seq(T) /\ Once(Append(s, x))
<1> DEFINE r == Append(s, x)
           m == Len(s)
<1>1. /\ m \in Nat /\ DOMAIN s = 1 .. m
      /\ r \in Seq(T) /\ Len(r) = m + 1 /\ r[m + 1] = x /\ \A i \in 1 .. m : r[i] = s[i]
  OBVIOUS
<1> HIDE DEF r
<1>2. \A i \in 1 .. m : s[i] # x
  BY <1>1 DEF Range
<1>3. \A i, j \in 1 .. m : s[i] = s[j] => i = j
  BY DEF Once
<1> HIDE DEF m
<1>4. \A i \in 1 .. m + 1 : i \in 1 .. m \/ i = m + 1
  BY <1>1
<1>5. ASSUME NEW i \in 1 .. m + 1, NEW j \in 1 .. m + 1, r[i] = r[j] PROVE i = j
  BY <1>1, <1>2, <1>3, <1>4, <1>5
<1> QED
  BY <1>1, <1>5 DEF Once, r

LEMMA ConcatOnce ==
    ASSUME NEW T, NEW a \in Seq(T), NEW b \in Seq(T), Once(a), Once(b),
           Range(a) \cap Range(b) = {}
    PROVE  /\ a \o b \in Seq(T) /\ Once(a \o b)
           /\ Range(a \o b) = Range(a) \cup Range(b)
<1> DEFINE r == a \o b
           m == Len(a)
           n == Len(b)
<1>1. /\ m \in Nat /\ n \in Nat /\ DOMAIN a = 1 .. m /\ DOMAIN b = 1 .. n
      /\ r \in Seq(T) /\ Len(r) = m + n /\ DOMAIN r = 1 .. m + n
  OBVIOUS
<1>2. /\ \A i \in 1 .. m : r[i] = a[i]
      /\ \A i \in 1 .. m + n : i \notin 1 .. m => r[i] = b[i - m]
  OBVIOUS
<1>3. /\ \A i, j \in 1 .. m : a[i] = a[j] => i = j
      /\ \A i, j \in 1 .. n : b[i] = b[j] => i = j
  BY DEF Once
<1> HIDE DEF r, m, n
<1>4. \A i \in 1 .. m, j \in 1 .. n : a[i] # b[j]
  BY <1>1 DEF Range
<1>5. /\ \A i \in 1 .. m + n : i \in 1 .. m \/ i - m \in 1 .. n
      /\ \A i \in 1 .. m : i \in 1 .. m + n
      /\ \A i \in 1 .. n : i + m \in 1 .. m + n /\ i + m \notin 1 .. m /\ i + m - m = i
  BY <1>1
<1>6. ASSUME NEW i \in 1 .. m + n, NEW j \in 1 .. m + n, r[i] = r[j] PROVE i = j
  <2>1. CASE i \in 1 .. m /\ j \in 1 .. m
    BY <1>2, <1>3, <1>6, <2>1
  <2>2. CASE i \in 1 .. m /\ j \notin 1 .. m
    <3>1. r[i] = a[i] /\ r[j] = b[j - m] /\ j - m \in 1 .. n
      BY <1>2, <1>5, <2>2
    <3> QED
      BY <1>4, <1>6, <2>2, <3>1
  <2>3. CASE i \notin 1 .. m /\ j \in 1 .. m
    <3>1. r[j] = a[j] /\ r[i] = b[i - m] /\ i - m \in 1 .. n
      BY <1>2, <1>5, <2>3
    <3> QED
      BY <1>4, <1>6, <2>3, <3>1
  <2>4. CASE i \notin 1 .. m /\ j \notin 1 .. m
    <3>1. /\ r[i] = b[i - m] /\ i - m \in 1 .. n
          /\ r[j] = b[j - m] /\ j - m \in 1 .. n
      BY <1>2, <1>5, <2>4
    <3>2. i - m = j - m
      BY <1>3, <1>6, <3>1
    <3> QED
      BY <1>1, <3>2
  <2> QED
    BY <2>1, <2>2, <2>3, <2>4
<1>7. Range(r) = Range(a) \cup Range(b)
  <2>1. ASSUME NEW x \in Range(r) PROVE x \in Range(a) \cup Range(b)
    <3>1. PICK i \in 1 .. m + n : x = r[i]
      BY <1>1, <2>1 DEF Range
    <3>2. CASE i \in 1 .. m
      BY <1>1, <1>2, <3>1, <3>2 DEF Range
    <3>3. CASE i \notin 1 .. m
      <4>1. PICK k : k = i - m
        OBVIOUS
      <4>2. k \in 1 .. n /\ r[i] = b[k]
        BY <1>2, <1>5, <3>3, <4>1
      <4> QED
        BY <1>1, <3>1, <4>2 DEF Range
    <3> QED
      BY <3>2, <3>3
  <2>2. ASSUME NEW x \in Range(a) PROVE x \in Range(r)
    BY <1>1, <1>2, <1>5, <2>2 DEF Range
  <2>3. ASSUME NEW x \in Range(b) PROVE x \in Range(r)
    <3>1. PICK i \in 1 .. n : x = b[i]
      BY <1>1, <2>3 DEF Range
    <3>2. PICK k : k = i + m
      OBVIOUS
    <3>3. k \in 1 .. m + n /\ k \notin 1 .. m /\ k - m = i
      BY <1>1, <3>2
    <3>4. r[k] = x
      BY <1>2, <3>1, <3>3
    <3> QED
      BY <1>1, <3>3, <3>4 DEF Range
  <2> QED
    BY <2>1, <2>2, <2>3
<1> QED
  BY <1>1, <1>6, <1>7 DEF Once, r

(* sanji_match_resource_list returns the resources found, each once. *)
LEMMA MatchListIs ==
    ASSUME NEW T, table \in Seq(T), Once(table), NEW t
    PROVE  /\ sanji_match_resource_list(t) \in Seq(T)
           /\ Once(sanji_match_resource_list(t))
           /\ Range(sanji_match_resource_list(t)) = Found(t)
<1> DEFINE W == {p \in Range(table) : wildcard_matches(p, t)}
           q == truncate(t)
           wild == Select(table, W)
           exact == Select(table, {q})
           new == Select(exact, {q} \ Range(wild))
<1>1. sanji_match_resource_list(t) = wild \o new
  BY DEF sanji_match_resource_list, resource_lookup_wildcard_nodes_by_name,
         sanji_match_resource
<1> HIDE DEF q, W
<1>2. wild \in Seq(T) /\ Range(wild) = Range(table) \cap W /\ Once(wild)
  BY SelectOnce
<1>3. exact \in Seq(T) /\ Range(exact) = Range(table) \cap {q} /\ Once(exact)
  BY SelectOnce
<1> HIDE DEF wild, exact
<1>4. new \in Seq(T) /\ Range(new) = Range(exact) \cap ({q} \ Range(wild)) /\ Once(new)
  BY <1>3, SelectOnce
<1> HIDE DEF new
<1>5. Range(wild) \cap Range(new) = {}
  BY <1>4
<1>6. /\ wild \o new \in Seq(T) /\ Once(wild \o new)
      /\ Range(wild \o new) = Range(wild) \cup Range(new)
  BY <1>2, <1>4, <1>5, ConcatOnce
<1>7. Range(wild) \cup Range(new) = Found(t)
  <2>1. Found(t) = {p \in Range(table) : p \in W \/ p = q}
    BY DEF Found, W, q
  <2> QED
    BY <1>2, <1>3, <1>4, <2>1
<1> QED
  BY <1>1, <1>6, <1>7

(* The inductive invariant: a table without duplicates, and the list of    *)
(* the handler that runs is what its topic finds in it.                    *)
LookupInv ==
    /\ table \in Seq(Patterns) /\ Once(table)
    /\ topic \in Requested \cup {<< >>}
    /\ list \in Seq(Patterns) /\ Once(list)
    /\ topic # << >> => Range(list) = Found(topic)

LEMMA LookupInit == Init => LookupInv
<1>1. << >> \in Seq(Patterns) /\ Len(<< >>) = 0
  OBVIOUS
<1>2. Once(<< >>)
  BY <1>1 DEF Once
<1> QED
  BY <1>1, <1>2 DEF Init, LookupInv

LEMMA LookupStep == LookupInv /\ [Next]_vars => LookupInv'
<1> SUFFICES ASSUME LookupInv, [Next]_vars PROVE LookupInv'
  OBVIOUS
<1> USE DEF LookupInv
<1>1. ASSUME NEW p \in Patterns, resource_append(p) PROVE LookupInv'
  <2>1. table' \in Seq(Patterns) /\ Once(table')
    <3>1. p \notin Range(table) => Append(table, p) \in Seq(Patterns) /\ Once(Append(table, p))
      BY AppendOnce
    <3> QED
      BY <1>1, <3>1 DEF resource_append
  <2> QED
    BY <1>1, <2>1 DEF resource_append
<1>2. ASSUME NEW p \in Patterns, resource_remove(p) PROVE LookupInv'
  <2>1. table' \in Seq(Patterns) /\ Once(table')
    BY <1>2, SelectOnce DEF resource_remove
  <2> QED
    BY <1>2, <2>1 DEF resource_remove
<1>3. ASSUME NEW t \in Requested, lookup(t) PROVE LookupInv'
  <2>1. /\ sanji_match_resource_list(t) \in Seq(Patterns)
        /\ Once(sanji_match_resource_list(t))
        /\ Range(sanji_match_resource_list(t)) = Found(t)
    BY MatchListIs
  <2>2. Found(t)' = Found(t)
    BY <1>3 DEF lookup, Found
  <2> QED
    BY <1>3, <2>1, <2>2 DEF lookup, Found
<1>4. CASE handler_returns
  <2>1. << >> \in Seq(Patterns) /\ Len(<< >>) = 0
    OBVIOUS
  <2>2. Once(<< >>)
    BY <2>1 DEF Once
  <2> QED
    BY <1>4, <2>1, <2>2 DEF handler_returns
<1>5. CASE UNCHANGED vars
  BY <1>5 DEF vars, Found
<1> QED
  BY <1>1, <1>2, <1>3, <1>4, <1>5 DEF Next

(* It holds throughout: both tables and lists are free of duplicates while *)
(* resources come and go and handlers run.                                 *)
THEOREM LookupInvariant == Spec => []LookupInv
BY LookupInit, LookupStep, PTL DEF Spec

(* Whatever is registered and requested, the list of a handler holds the   *)
(* resources that the scan of resource_lookup_wildcard_nodes_by_name or    *)
(* the comparison of sanji_match_resource accepts, and no others: the set  *)
(* that Controller takes it for.                                           *)
THEOREM ListIsFound == Spec => [](topic # << >> => Range(list) = Found(topic))
<1>1. LookupInv => (topic # << >> => Range(list) = Found(topic))
  BY DEF LookupInv
<1> QED
  BY <1>1, LookupInvariant, PTL

(* No resource is in that list twice (FoundOnce). *)
THEOREM NeverListedTwice == Spec => []FoundOnce
<1>1. LookupInv => FoundOnce
  <2> SUFFICES ASSUME LookupInv PROVE FoundOnce
    OBVIOUS
  <2>1. DOMAIN list = 1 .. Len(list)
    BY DEF LookupInv
  <2> QED
    BY <2>1 DEF LookupInv, Once, FoundOnce
<1> QED
  BY <1>1, LookupInvariant, PTL

(* For names and topics of any length, it holds exactly the registered     *)
(* resources whose levels match those of the topic's path (FoundByLevel).  *)
THEOREM ListedByLevel == Spec => []FoundByLevel
<1>1. LookupInv => FoundByLevel
  <2> SUFFICES ASSUME LookupInv, NEW p \in Range(table), WellFormed(p),
                      topic # << >>, Concrete(topic)
               PROVE  p \in Range(list) <=> ByLevel(p, topic)
    BY DEF FoundByLevel
  <2>1. p \in Seq(STRING) /\ topic \in Seq(STRING)
    <3>1. p \in Patterns
      BY DEF LookupInv, Range
    <3>2. topic \in Requested
      BY DEF LookupInv
    <3> QED
      BY <3>1, <3>2, LookupAssumption
  <2>2. wildcard_matches(p, topic) <=> ByLevel(p, topic)
    BY <2>1, ScanIsByLevel
  <2>3. p = truncate(topic) => wildcard_matches(p, topic)
    BY <2>1, ScanFindsItself
  <2>4. p \in Range(list) <=> wildcard_matches(p, topic) \/ p = truncate(topic)
    BY DEF LookupInv, Found
  <2> QED
    BY <2>2, <2>3, <2>4
<1> QED
  BY <1>1, LookupInvariant, PTL
=============================================================================
