--------------------------- MODULE DataMergeProofs ---------------------------
(***************************************************************************)
(* What the merging loops of session_step and session_step_stop compute,   *)
(* for every number of results, and from it where the data come from that  *)
(* are sent to the next step and to the client.                            *)
(***************************************************************************)
EXTENDS DataMerge, WellFoundedInduction, SequenceTheorems, TLAPS

(* The data objects. *)
Datum == {NoData} \cup UNION {[K -> Nat] : K \in SUBSET Keys}

(* An object that has key k. *)
Holds(x, k) == x # NoData /\ k \in DOMAIN x

(* An object is a function from some of the keys. *)
LEMMA Objects ==
    /\ \A x \in Datum : x # NoData =>
          /\ DOMAIN x \subseteq Keys
          /\ x = [k \in DOMAIN x |-> x[k]]
          /\ \A k \in DOMAIN x : x[k] \in Nat
    /\ \A K \in SUBSET Keys : \A f \in [K -> Nat] : f \in Datum /\ f # NoData
BY DataMergeAssumption DEF Datum

-----------------------------------------------------------------------------
(* Induction over the rounds of a loop *)

(* A set of numbers that is not empty has a least element. *)
LEMMA SmallestNumber ==
    ASSUME NEW S \in SUBSET Nat, S # {}
    PROVE  \E x \in S : \A y \in S : x <= y
<1> DEFINE R == {p \in Nat \X Nat : p[1] < p[2]}
<1>1. IsWellFoundedOn(R, Nat)
  BY NatLessThanWellFounded DEF OpToRel
<1> HIDE DEF R
<1>2. PICK x \in S : \A y \in S : ~ (<<y, x>> \in R)
  BY <1>1, WFMin
<1>3. \A y \in S : ~ (y < x)
  BY <1>2 DEF R
<1> QED
  BY <1>3

(* What holds before the first round and after each round if it held       *)
(* before holds after every round.                                         *)
LEMMA RoundsByInduction ==
    ASSUME NEW S, NEW n \in Nat, 0 \in S, \A i \in 0 .. n - 1 : i \in S => i + 1 \in S
    PROVE  0 .. n \subseteq S
<1> DEFINE T == {i \in 0 .. n : i \notin S}
<1> SUFFICES ASSUME T # {} PROVE FALSE
  OBVIOUS
<1>1. T \in SUBSET Nat
  OBVIOUS
<1> HIDE DEF T
<1>2. PICK x \in T : \A y \in T : x <= y
  BY <1>1, SmallestNumber
<1>3. x \in 0 .. n /\ x \notin S /\ x # 0
  BY <1>2 DEF T
<1>4. x - 1 \in 0 .. n - 1 /\ x - 1 \notin T
  BY <1>2, <1>3
<1>5. x - 1 \in S /\ (x - 1) + 1 = x
  BY <1>3, <1>4 DEF T
<1> QED
  BY <1>3, <1>4, <1>5

-----------------------------------------------------------------------------
(* The loops *)

(* What round i takes: the i-th element of s, or the data themselves. *)
Other(g, s, self, i) == IF i = self THEN g[i - 1] ELSE s[i]

(* g holds the data after each of n rounds that start from base and take   *)
(* the elements of s; round self merges the data into themselves.          *)
Rounds(g, base, s, self, n) ==
    g = [i \in 0 .. n |->
           IF i = 0 THEN base
           ELSE json_object_update(g[i - 1], Other(g, s, self, i))]

(* There is such a g: the recursive definitions of the loops define        *)
(* something.                                                              *)
LEMMA RoundsExist ==
    ASSUME NEW base, NEW s, NEW self, NEW n \in Nat
    PROVE  \E g : Rounds(g, base, s, self, n)
<1> DEFINE S == {m \in Nat : \E g : Rounds(g, base, s, self, m)}
<1>1. 0 \in S
  <2> DEFINE g == [i \in 0 .. 0 |-> base]
  <2>1. g = [i \in 0 .. 0 |->
               IF i = 0 THEN base
               ELSE json_object_update(g[i - 1], IF i = self THEN g[i - 1] ELSE s[i])]
    OBVIOUS
  <2> QED
    BY <2>1 DEF Rounds, Other
<1>2. ASSUME NEW m \in Nat, m \in S PROVE m + 1 \in S
  <2> DEFINE Round(f, i) ==
                IF i = 0 THEN base
                ELSE json_object_update(f[i - 1], IF i = self THEN f[i - 1] ELSE s[i])
  <2>1. PICK g : g = [i \in 0 .. m |-> Round(g, i)]
    BY <1>2 DEF Rounds, Other
  <2> DEFINE h == [i \in 0 .. m + 1 |->
                     IF i = m + 1
                     THEN json_object_update(g[m], IF i = self THEN g[m] ELSE s[i])
                     ELSE g[i]]
  <2>2. ASSUME NEW i \in 0 .. m + 1 PROVE h[i] = Round(h, i)
    <3>1. CASE i = m + 1
      <4>1. h[m] = g[m] /\ i # 0 /\ i - 1 = m
        BY <3>1
      <4>2. h[i] = json_object_update(g[m], IF i = self THEN g[m] ELSE s[i])
        BY <3>1
      <4> HIDE DEF h
      <4> QED
        BY <4>1, <4>2
    <3>2. CASE i # m + 1
      <4>1. i \in 0 .. m /\ (i # 0 => i - 1 \in 0 .. m)
        BY <3>2
      <4>2. h[i] = g[i] /\ (i # 0 => h[i - 1] = g[i - 1])
        BY <3>2, <4>1
      <4> HIDE DEF h
      <4>3. g[i] = Round(g, i)
        BY <2>1, <4>1, Zenon
      <4> QED
        BY <4>2, <4>3
    <3> QED
      BY <3>1, <3>2
  <2>3. h = [i \in 0 .. m + 1 |-> h[i]]
    OBVIOUS
  <2> HIDE DEF h
  <2>4. h = [i \in 0 .. m + 1 |-> Round(h, i)]
    BY <2>2, <2>3, Zenon
  <2> QED
    BY <2>4 DEF Rounds, Other
<1> HIDE DEF S
<1>3. 0 .. n \subseteq S
  BY <1>1, <1>2, RoundsByInduction
<1> QED
  BY <1>3 DEF S

(* What the rounds start from. *)
LEMMA FirstRound ==
    ASSUME NEW base, NEW s, NEW self, NEW n \in Nat, NEW g, Rounds(g, base, s, self, n)
    PROVE  g[0] = base
<1>1. 0 \in 0 .. n
  OBVIOUS
<1> QED
  BY <1>1, Zenon DEF Rounds

(* One round. *)
LEMMA NextRound ==
    ASSUME NEW base, NEW s, NEW self, NEW n \in Nat, NEW g, Rounds(g, base, s, self, n),
           NEW i \in 1 .. n
    PROVE  g[i] = json_object_update(g[i - 1], Other(g, s, self, i))
<1>1. i \in 0 .. n /\ i # 0
  OBVIOUS
<1> QED
  BY <1>1, Zenon DEF Rounds

(* json_object_update adds the keys of the second object, with its values. *)
LEMMA Update ==
    ASSUME NEW x \in Datum, x # NoData, NEW y \in Datum
    PROVE  LET z == json_object_update(x, y)
           IN  /\ z \in Datum /\ z # NoData
               /\ \A k \in Keys : /\ Holds(z, k) <=> Holds(x, k) \/ Holds(y, k)
                                  /\ Holds(y, k) => z[k] = y[k]
                                  /\ Holds(x, k) /\ ~ Holds(y, k) => z[k] = x[k]
<1>1. CASE y = NoData
  BY <1>1 DEF json_object_update, Holds
<1>2. CASE y # NoData
  <2> DEFINE K == DOMAIN x \cup DOMAIN y
             z == [k \in K |-> IF k \in DOMAIN y THEN y[k] ELSE x[k]]
  <2>1. json_object_update(x, y) = z
    BY <1>2 DEF json_object_update
  <2>2. K \in SUBSET Keys
    BY <1>2, Objects
  <2>3. z \in [K -> Nat]
    BY <1>2, Objects
  <2>4. z \in Datum /\ z # NoData
    BY <2>2, <2>3, Objects
  <2>5. DOMAIN z = K /\ \A k \in K : z[k] = IF k \in DOMAIN y THEN y[k] ELSE x[k]
    OBVIOUS
  <2> HIDE DEF z
  <2>6. \A k \in Keys : /\ Holds(z, k) <=> Holds(x, k) \/ Holds(y, k)
                        /\ Holds(y, k) => z[k] = y[k]
                        /\ Holds(x, k) /\ ~ Holds(y, k) => z[k] = x[k]
    BY <1>2, <2>4, <2>5 DEF Holds
  <2> QED
    BY <2>1, <2>4, <2>6
<1> QED
  BY <1>1, <1>2

(* The first n elements of s have been merged, in order, into base: x has  *)
(* the keys of all of them, and the value of the latest that has the key.  *)
Merges(x, base, s, n) ==
    /\ x \in Datum /\ x # NoData
    /\ \A k \in Keys : Holds(x, k) <=> Holds(base, k) \/ \E j \in 1 .. n : Holds(s[j], k)
    /\ \A k \in Keys : Holds(x, k) =>
          \/ /\ \A j \in 1 .. n : ~ Holds(s[j], k)
             /\ x[k] = base[k]
          \/ \E j \in 1 .. n : /\ Holds(s[j], k)
                               /\ \A l \in 1 .. n : Holds(s[l], k) => l <= j
                               /\ x[k] = s[j][k]

(* One more element. *)
LEMMA MergesNext ==
    ASSUME NEW base \in Datum, NEW s, NEW n \in Nat, s[n + 1] \in Datum,
           NEW x, Merges(x, base, s, n)
    PROVE  Merges(json_object_update(x, s[n + 1]), base, s, n + 1)
<1> DEFINE y == s[n + 1]
           z == json_object_update(x, y)
<1>1. x \in Datum /\ x # NoData
  BY DEF Merges
<1>2. /\ z \in Datum /\ z # NoData
      /\ \A k \in Keys : /\ Holds(z, k) <=> Holds(x, k) \/ Holds(y, k)
                         /\ Holds(y, k) => z[k] = y[k]
                         /\ Holds(x, k) /\ ~ Holds(y, k) => z[k] = x[k]
  BY <1>1, Update
<1> HIDE DEF z
<1>3. 1 .. n + 1 = (1 .. n) \cup {n + 1} /\ \A j \in 1 .. n : j <= n + 1
  OBVIOUS
<1>4. ASSUME NEW k \in Keys
      PROVE  Holds(z, k) <=> Holds(base, k) \/ \E j \in 1 .. n + 1 : Holds(s[j], k)
  <2>1. Holds(x, k) <=> Holds(base, k) \/ \E j \in 1 .. n : Holds(s[j], k)
    BY DEF Merges
  <2>2. Holds(z, k) <=> Holds(x, k) \/ Holds(s[n + 1], k)
    BY <1>2
  <2>3. (\E j \in 1 .. n + 1 : Holds(s[j], k)) <=>
           (\E j \in 1 .. n : Holds(s[j], k)) \/ Holds(s[n + 1], k)
    BY <1>3, Zenon
  <2> QED
    BY <2>1, <2>2, <2>3
<1>5. ASSUME NEW k \in Keys, Holds(z, k)
      PROVE  \/ /\ \A j \in 1 .. n + 1 : ~ Holds(s[j], k)
                /\ z[k] = base[k]
             \/ \E j \in 1 .. n + 1 : /\ Holds(s[j], k)
                                      /\ \A l \in 1 .. n + 1 : Holds(s[l], k) => l <= j
                                      /\ z[k] = s[j][k]
  <2>3. /\ Holds(x, k) \/ Holds(y, k)
        /\ Holds(y, k) => z[k] = y[k]
        /\ Holds(x, k) /\ ~ Holds(y, k) => z[k] = x[k]
    BY <1>2, <1>5, Zenon
  <2>1. CASE Holds(y, k)
    <3>1. n + 1 \in 1 .. n + 1 /\ \A l \in 1 .. n + 1 : l <= n + 1
      OBVIOUS
    <3>2. Holds(s[n + 1], k) /\ z[k] = s[n + 1][k]
      BY <2>3, <2>1, Zenon
    <3> QED
      BY <3>1, <3>2, Zenon
  <2>2. CASE ~ Holds(y, k)
    <3>1. Holds(x, k) /\ z[k] = x[k]
      BY <2>3, <2>2, Zenon
    <3>2. CASE (\A j \in 1 .. n : ~ Holds(s[j], k)) /\ x[k] = base[k]
      BY <1>3, <2>2, <3>1, <3>2, Zenon
    <3>3. ASSUME NEW j \in 1 .. n, Holds(s[j], k),
                 \A l \in 1 .. n : Holds(s[l], k) => l <= j, x[k] = s[j][k]
          PROVE  \E i \in 1 .. n + 1 : /\ Holds(s[i], k)
                                      /\ \A l \in 1 .. n + 1 : Holds(s[l], k) => l <= i
                                      /\ z[k] = s[i][k]
      <4>1. j \in 1 .. n + 1 /\ z[k] = s[j][k]
        BY <3>1, <3>3
      <4>2. \A l \in 1 .. n + 1 : Holds(s[l], k) => l <= j
        BY <1>3, <2>2, <3>3, Zenon
      <4> QED
        BY <3>3, <4>1, <4>2, Zenon
    <3>4. \/ (\A j \in 1 .. n : ~ Holds(s[j], k)) /\ x[k] = base[k]
          \/ \E j \in 1 .. n : /\ Holds(s[j], k)
                               /\ \A l \in 1 .. n : Holds(s[l], k) => l <= j
                               /\ x[k] = s[j][k]
      BY <3>1, Zenon DEF Merges
    <3> QED
      BY <3>2, <3>3, <3>4, Zenon
  <2> QED
    BY <2>1, <2>2
<1>6. Merges(z, base, s, n + 1)
  BY <1>2, <1>4, <1>5, Zenon DEF Merges
<1> QED
  BY <1>6 DEF z

(* All the rounds that merge an element. *)
LEMMA MergedSoFar ==
    ASSUME NEW base \in Datum, base # NoData, NEW n \in Nat,
           NEW s, \A i \in 1 .. n : s[i] \in Datum,
           NEW g, g[0] = base,
           \A i \in 1 .. n : g[i] = json_object_update(g[i - 1], s[i])
    PROVE  Merges(g[n], base, s, n)
<1> DEFINE S == {i \in 0 .. n : Merges(g[i], base, s, i)}
<1>1. 0 \in S
  BY DEF Merges
<1>2. ASSUME NEW i \in 0 .. n - 1, i \in S PROVE i + 1 \in S
  <2>1. i + 1 \in 1 .. n /\ i \in Nat /\ (i + 1) - 1 = i /\ i + 1 \in 0 .. n
    OBVIOUS
  <2>2. g[i + 1] = json_object_update(g[i], s[i + 1]) /\ s[i + 1] \in Datum
    BY <2>1
  <2>3. Merges(g[i + 1], base, s, i + 1)
    BY <1>2, <2>1, <2>2, MergesNext
  <2> QED
    BY <2>1, <2>3
<1> HIDE DEF S
<1>3. 0 .. n \subseteq S
  BY <1>1, <1>2, RoundsByInduction
<1>4. n \in S
  BY <1>3
<1> QED
  BY <1>4 DEF S

(* Without an object to merge into, nothing is merged. *)
LEMMA NothingMerged ==
    ASSUME NEW n \in Nat, NEW g, NEW s, NEW self, Rounds(g, NoData, s, self, n)
    PROVE  g[n] = NoData
<1> DEFINE S == {i \in 0 .. n : g[i] = NoData}
<1>1. 0 \in S
  <2>1. g[0] = NoData
    BY FirstRound
  <2> QED
    BY <2>1
<1>2. ASSUME NEW i \in 0 .. n - 1, i \in S PROVE i + 1 \in S
  <2>1. i + 1 \in 1 .. n /\ (i + 1) - 1 = i /\ i + 1 \in 0 .. n
    OBVIOUS
  <2>2. g[i + 1] = json_object_update(g[(i + 1) - 1], Other(g, s, self, i + 1))
    BY <2>1, NextRound
  <2>3. \E x : g[i + 1] = json_object_update(g[i], x)
    BY <2>1, <2>2
  <2> QED
    BY <1>2, <2>1, <2>3 DEF json_object_update
<1> HIDE DEF S
<1>3. 0 .. n \subseteq S
  BY <1>1, <1>2, RoundsByInduction
<1>4. n \in S
  BY <1>3
<1> QED
  BY <1>4 DEF S

(* session_step_stop merges all results into a copy of the last. *)
LEMMA ReplyMerges ==
    ASSUME NEW results \in Seq(Datum), results # << >>
    PROVE  LET last == results[Len(results)]
           IN  IF last = NoData THEN reply_data(results) = NoData
               ELSE Merges(reply_data(results), last, results, Len(results))
<1> DEFINE n == Len(results)
           last == results[n]
           g == CHOOSE f : f = [i \in 0 .. n |->
                                  IF i = 0 THEN last
                                  ELSE json_object_update(f[i - 1], results[i])]
<1>1. n \in Nat /\ n >= 1 /\ last \in Datum /\ \A i \in 1 .. n : results[i] \in Datum
  OBVIOUS
<1>2. reply_data(results) = g[n]
  BY DEF reply_data
<1> DEFINE P(f) == f = [i \in 0 .. n |->
                          IF i = 0 THEN last
                          ELSE json_object_update(f[i - 1], results[i])]
<1>3. \A f : P(f) <=> Rounds(f, last, results, n + 1, n)
  <2>1. \A i \in 0 .. n : i # n + 1
    BY <1>1
  <2> HIDE DEF n, last
  <2> QED
    BY <2>1 DEF Rounds, Other
<1>4. \E f : P(f)
  BY <1>1, <1>3, RoundsExist
<1>5. P(g)
  BY <1>4
<1>6. Rounds(g, last, results, n + 1, n)
  BY <1>3, <1>5
<1> HIDE DEF g, last, n, P
<1>7. CASE last = NoData
  BY <1>1, <1>2, <1>6, <1>7, NothingMerged DEF last, n
<1>8. CASE last # NoData
  <2>1. g[0] = last
    BY <1>1, <1>6, FirstRound
  <2>2. ASSUME NEW i \in 1 .. n
        PROVE  g[i] = json_object_update(g[i - 1], results[i])
    <3>1. g[i] = json_object_update(g[i - 1], Other(g, results, n + 1, i))
      BY <1>1, <1>6, NextRound
    <3> QED
      BY <1>1, <3>1 DEF Other
  <2>3. Merges(g[n], last, results, n)
    BY <1>1, <1>8, <2>1, <2>2, MergedSoFar
  <2> QED
    BY <1>2, <1>8, <2>3 DEF last, n
<1> QED
  BY <1>7, <1>8

(* session_step merges the results before the last one into the last one:  *)
(* its last round merges the object into itself.                           *)
LEMMA StepMerges ==
    ASSUME NEW results \in Seq(Datum), results # << >>
    PROVE  LET last == results[Len(results)]
           IN  IF last = NoData THEN step_data(results) = NoData
               ELSE Merges(step_data(results), last, results, Len(results) - 1)
<1> DEFINE n == Len(results)
           last == results[n]
           g == CHOOSE f : f = [i \in 0 .. n |->
                                  IF i = 0 THEN last
                                  ELSE json_object_update(f[i - 1],
                                          IF i = n THEN f[i - 1] ELSE results[i])]
<1>1. n \in Nat /\ n >= 1 /\ last \in Datum /\ \A i \in 1 .. n : results[i] \in Datum
  OBVIOUS
<1>2. step_data(results) = g[n]
  BY DEF step_data
<1>3. Rounds(g, last, results, n, n)
  <2>1. \E f : Rounds(f, last, results, n, n)
    BY <1>1, RoundsExist
  <2> QED
    BY <2>1 DEF Rounds, Other
<1> HIDE DEF g, last, n
<1>4. CASE last = NoData
  BY <1>1, <1>2, <1>3, <1>4, NothingMerged DEF last, n
<1>5. CASE last # NoData
  <2>1. g[0] = last
    BY <1>1, <1>3, FirstRound
  <2>2. ASSUME NEW i \in 1 .. n
        PROVE  g[i] = json_object_update(g[i - 1], Other(g, results, n, i))
    BY <1>1, <1>3, NextRound
  <2>3. ASSUME NEW i \in 1 .. n - 1
        PROVE  g[i] = json_object_update(g[i - 1], results[i])
    <3>1. i \in 1 .. n /\ i # n
      BY <1>1
    <3> QED
      BY <2>2, <3>1 DEF Other
  <2>4. Merges(g[n - 1], last, results, n - 1)
    <3>1. n - 1 \in Nat /\ \A i \in 1 .. n - 1 : results[i] \in Datum
      BY <1>1
    <3> QED
      BY <1>1, <1>5, <2>1, <2>3, <3>1, MergedSoFar
  <2>5. g[n] = json_object_update(g[n - 1], g[n - 1])
    BY <1>1, <2>2 DEF Other
  <2>6. json_object_update(g[n - 1], g[n - 1]) = g[n - 1]
    <3>1. g[n - 1] \in Datum /\ g[n - 1] # NoData
      BY <2>4 DEF Merges
    <3>2. g[n - 1] = [k \in DOMAIN g[n - 1] |-> g[n - 1][k]]
      BY <3>1, Objects
    <3> QED
      BY <3>1, <3>2 DEF json_object_update
  <2> QED
    BY <1>2, <1>5, <2>4, <2>5, <2>6 DEF last, n
<1> QED
  BY <1>4, <1>5

-----------------------------------------------------------------------------
(* The results of a session *)

(* What the i-th response brought, as session_step_update appends it. *)
Exact(rec, i) == IF rec[i] = NoData THEN NoData ELSE [k \in rec[i] |-> i]

(* An object whose values came with their keys in the responses rec. *)
ObjectIn(data, rec) ==
    data # NoData =>
        \A k \in DOMAIN data :
            /\ k \in Keys
            /\ data[k] \in {i \in DOMAIN rec : rec[i] # NoData /\ k \in rec[i]}

(* The first n responses that have key k. *)
Bring(rec, k, n) == {i \in 1 .. n : rec[i] # NoData /\ k \in rec[i]}

(* Response i is the latest of the first n that have key k, and no older   *)
(* result was merged over it: ms are the responses that session_step has   *)
(* merged into.                                                            *)
Kept(rec, ms, k, n, i) ==
    /\ i \in Bring(rec, k, n)
    /\ \A j \in Bring(rec, k, n) : j <= i
    /\ i \in ms => Bring(rec, k, n) = {i}

(* Every key of x is in one of the first n responses, and has the value of *)
(* the latest one if that was kept.                                        *)
Fresh(x, rec, ms, n) ==
    \A k \in Keys : Holds(x, k) =>
        /\ Bring(rec, k, n) # {}
        /\ \A i \in 1 .. n : Kept(rec, ms, k, n, i) => x[k] = i

(* How results stand to the responses rec: a result has at least the keys  *)
(* of its response, and the latest values that were known with it, as far  *)
(* as they were kept; those that session_step has not merged into are what *)
(* the responses brought.                                                  *)
InOrder(results, rec, ms) ==
    /\ rec \in Seq(Responses)
    /\ results \in Seq(Datum)
    /\ Len(results) = Len(rec)
    /\ ms \subseteq 1 .. Len(rec)
    /\ \A i \in 1 .. Len(rec) :
          /\ ObjectIn(results[i], rec)
          /\ rec[i] # NoData => results[i] # NoData /\ rec[i] \subseteq DOMAIN results[i]
          /\ i \notin ms => results[i] = Exact(rec, i)
          /\ Fresh(results[i], rec, ms, i)

(* What a response brings is an object. *)
LEMMA ExactObject ==
    ASSUME NEW rec \in Seq(Responses), NEW i \in 1 .. Len(rec)
    PROVE  /\ Exact(rec, i) \in Datum
           /\ ObjectIn(Exact(rec, i), rec)
           /\ rec[i] # NoData => /\ Exact(rec, i) # NoData
                                 /\ DOMAIN Exact(rec, i) = rec[i]
                                 /\ \A k \in rec[i] : Exact(rec, i)[k] = i
<1>1. rec[i] \in Responses /\ i \in Nat /\ i \in DOMAIN rec
  OBVIOUS
<1>2. CASE rec[i] = NoData
  BY <1>2 DEF Exact, Datum, ObjectIn
<1>3. CASE rec[i] # NoData
  <2> DEFINE f == [k \in rec[i] |-> i]
  <2>1. rec[i] \in SUBSET Keys
    BY <1>1, <1>3, DataMergeAssumption
  <2>2. f \in [rec[i] -> Nat] /\ Exact(rec, i) = f
    BY <1>1, <1>3 DEF Exact
  <2>3. f \in Datum /\ f # NoData
    BY <2>1, <2>2, Objects
  <2> QED
    BY <1>1, <1>3, <2>1, <2>2, <2>3 DEF ObjectIn
<1> QED
  BY <1>2, <1>3

(* What came in earlier responses came in more responses. *)
LEMMA ObjectLater ==
    ASSUME NEW rec \in Seq(Responses), NEW response \in Responses,
           NEW x, ObjectIn(x, rec)
    PROVE  ObjectIn(x, Append(rec, response))
<1>1. \A i \in DOMAIN rec : i \in DOMAIN Append(rec, response)
                           /\ Append(rec, response)[i] = rec[i]
  OBVIOUS
<1> QED
  BY <1>1 DEF ObjectIn

(* What a response brings is fresh. *)
LEMMA ExactFresh ==
    ASSUME NEW rec \in Seq(Responses), NEW n \in 1 .. Len(rec), NEW ms, n \notin ms
    PROVE  Fresh(Exact(rec, n), rec, ms, n)
<1> SUFFICES ASSUME NEW k \in Keys, Holds(Exact(rec, n), k)
             PROVE  /\ Bring(rec, k, n) # {}
                    /\ \A i \in 1 .. n : Kept(rec, ms, k, n, i) => Exact(rec, n)[k] = i
  BY DEF Fresh
<1>1. rec[n] # NoData
  BY DEF Exact, Holds
<1>2. k \in rec[n] /\ Exact(rec, n)[k] = n
  BY <1>1, ExactObject DEF Holds
<1>3. n \in Bring(rec, k, n)
  BY <1>1, <1>2 DEF Bring
<1>4. \A i \in 1 .. n : n <= i => i = n
  OBVIOUS
<1> QED
  BY <1>2, <1>3, <1>4 DEF Kept

(* A response arrives. *)
LEMMA Arrival ==
    ASSUME NEW results, NEW rec, NEW ms, InOrder(results, rec, ms),
           NEW response \in Responses
    PROVE  LET more == Append(rec, response)
               n == Len(rec) + 1
               now == Append(results, Exact(more, n))
           IN  /\ InOrder(now, more, ms)
               /\ Len(more) = n /\ Len(now) = n /\ now # << >> /\ n \notin ms
<1> DEFINE more == Append(rec, response)
           n == Len(rec) + 1
           now == Append(results, Exact(more, n))
<1>1. /\ rec \in Seq(Responses) /\ results \in Seq(Datum) /\ Len(results) = Len(rec)
      /\ ms \subseteq 1 .. Len(rec)
  BY DEF InOrder
<1>2. more \in Seq(Responses) /\ Len(more) = n /\ n \in 1 .. Len(more) /\ n \in Nat
  BY <1>1
<1>3. /\ Exact(more, n) \in Datum
      /\ ObjectIn(Exact(more, n), more)
      /\ more[n] # NoData => Exact(more, n) # NoData /\ more[n] = DOMAIN Exact(more, n)
  BY <1>2, ExactObject
<1> DEFINE e == Exact(more, n)
<1> HIDE DEF e
<1>4. /\ now \in Seq(Datum) /\ Len(now) = n /\ now # << >> /\ now[n] = e
      /\ \A i \in 1 .. Len(rec) : now[i] = results[i] /\ more[i] = rec[i]
  BY <1>1, <1>3 DEF e
<1>5. ms \subseteq 1 .. n /\ n \notin ms
  BY <1>1
<1>6. \A i \in 1 .. Len(rec) : Exact(more, i) = Exact(rec, i)
  BY <1>4 DEF Exact
<1>7. Fresh(e, more, ms, n)
  BY <1>2, <1>5, ExactFresh DEF e
<1>8. ASSUME NEW i \in 1 .. n
      PROVE  /\ ObjectIn(now[i], more)
             /\ more[i] # NoData => now[i] # NoData /\ more[i] \subseteq DOMAIN now[i]
             /\ i \notin ms => now[i] = Exact(more, i)
             /\ Fresh(now[i], more, ms, i)
  <2>1. CASE i = n
    BY <1>3, <1>4, <1>7, <2>1 DEF e
  <2>2. CASE i # n
    <3>1. i \in 1 .. Len(rec)
      BY <1>1, <2>2
    <3>2. /\ ObjectIn(results[i], rec)
          /\ rec[i] # NoData => results[i] # NoData /\ rec[i] \subseteq DOMAIN results[i]
          /\ i \notin ms => results[i] = Exact(rec, i)
          /\ Fresh(results[i], rec, ms, i)
      BY <3>1 DEF InOrder
    <3>3. ObjectIn(results[i], more)
      BY <1>1, <3>2, ObjectLater
    <3>4. now[i] = results[i] /\ more[i] = rec[i] /\ Exact(more, i) = Exact(rec, i)
      BY <1>4, <1>6, <3>1
    <3>5. \A j \in 1 .. i : more[j] = rec[j]
      BY <1>1, <1>4, <3>1
    <3> HIDE DEF now, more
    <3>6. \A k : Bring(more, k, i) = Bring(rec, k, i)
      BY <3>5 DEF Bring
    <3>7. Fresh(results[i], more, ms, i)
      BY <3>2, <3>6 DEF Fresh, Kept
    <3> QED
      BY <3>2, <3>3, <3>4, <3>7
  <2> QED
    BY <2>1, <2>2
<1> HIDE DEF now, more, n
<1>9. InOrder(now, more, ms)
  BY <1>2, <1>4, <1>5, <1>8 DEF InOrder
<1> QED
  BY <1>2, <1>4, <1>5, <1>9 DEF now, more, n

(* A merge makes up no value. *)
LEMMA MergedObject ==
    ASSUME NEW rec, NEW base, NEW s, NEW n \in Nat, NEW x, Merges(x, base, s, n),
           base # NoData, ObjectIn(base, rec), \A j \in 1 .. n : ObjectIn(s[j], rec)
    PROVE  ObjectIn(x, rec)
<1>1. x \in Datum /\ x # NoData
  BY DEF Merges
<1>2. ASSUME NEW k \in DOMAIN x
      PROVE  /\ k \in Keys
             /\ x[k] \in {i \in DOMAIN rec : rec[i] # NoData /\ k \in rec[i]}
  <2>1. k \in Keys /\ Holds(x, k)
    BY <1>1, Objects DEF Holds
  <2>2. CASE (\A j \in 1 .. n : ~ Holds(s[j], k)) /\ x[k] = base[k]
    <3>1. Holds(base, k)
      BY <2>1, <2>2 DEF Merges
    <3> QED
      BY <2>1, <2>2, <3>1 DEF Holds, ObjectIn
  <2>3. CASE \E j \in 1 .. n : Holds(s[j], k) /\ x[k] = s[j][k]
    BY <2>1, <2>3 DEF Holds, ObjectIn
  <2> QED
    BY <2>1, <2>2, <2>3 DEF Merges
<1> QED
  BY <1>2 DEF ObjectIn

(* Both loops give an object if the last response has one, and its values  *)
(* come from the responses.                                                *)
LEMMA BothObjects ==
    ASSUME NEW results, NEW rec, NEW ms, InOrder(results, rec, ms), results # << >>
    PROVE  /\ step_data(results) \in Datum /\ ObjectIn(step_data(results), rec)
           /\ reply_data(results) \in Datum /\ ObjectIn(reply_data(results), rec)
<1> DEFINE n == Len(results)
           last == results[n]
<1>1. /\ results \in Seq(Datum) /\ n \in Nat /\ n >= 1 /\ n - 1 \in Nat
      /\ last \in Datum
      /\ \A i \in 1 .. n : ObjectIn(results[i], rec)
  BY DEF InOrder
<1>2. ObjectIn(last, rec) /\ \A i \in 1 .. n - 1 : ObjectIn(results[i], rec)
  BY <1>1
<1>3. CASE last = NoData
  <2>1. step_data(results) = NoData /\ reply_data(results) = NoData
    BY <1>1, <1>3, StepMerges, ReplyMerges
  <2> QED
    BY <2>1 DEF Datum, ObjectIn
<1>4. CASE last # NoData
  <2>1. /\ Merges(step_data(results), last, results, n - 1)
        /\ Merges(reply_data(results), last, results, n)
    BY <1>1, <1>4, StepMerges, ReplyMerges
  <2>2. step_data(results) \in Datum /\ reply_data(results) \in Datum
    BY <2>1 DEF Merges
  <2> HIDE DEF n, last
  <2> QED
    BY <1>1, <1>2, <1>4, <2>1, <2>2, MergedObject
<1> QED
  BY <1>3, <1>4

(* A value that was kept is in every later result that has its key. *)
LEMMA KeptLater ==
    ASSUME NEW results, NEW rec, NEW ms, InOrder(results, rec, ms),
           NEW k \in Keys, NEW i, NEW j \in 1 .. Len(rec),
           Kept(rec, ms, k, Len(rec), i), i <= j, Holds(results[j], k)
    PROVE  results[j][k] = i
<1>1. /\ Len(rec) \in Nat /\ i \in 1 .. Len(rec)
      /\ rec \in Seq(Responses)
  BY DEF InOrder, Kept, Bring
<1>2. i \in Bring(rec, k, j) /\ Bring(rec, k, j) \subseteq Bring(rec, k, Len(rec))
  BY <1>1 DEF Kept, Bring
<1>3. Kept(rec, ms, k, j, i)
  BY <1>2 DEF Kept
<1>4. i \in 1 .. j
  BY <1>1
<1>5. Fresh(results[j], rec, ms, j)
  BY DEF InOrder
<1> QED
  BY <1>3, <1>4, <1>5 DEF Fresh

(* A result has the keys of its response. *)
LEMMA OwnKeys ==
    ASSUME NEW results, NEW rec, NEW ms, InOrder(results, rec, ms),
           NEW k, NEW n, n <= Len(rec), NEW i \in Bring(rec, k, n), n \in Nat
    PROVE  Holds(results[i], k)
<1>1. i \in 1 .. Len(rec) /\ rec[i] # NoData /\ k \in rec[i]
  <2>1. Len(rec) \in Nat
    BY DEF InOrder
  <2> QED
    BY <2>1 DEF Bring
<1> QED
  BY <1>1 DEF InOrder, Holds

(* The data that session_step sends on are fresh, once the last response   *)
(* counts as merged into.                                                  *)
LEMMA StepFresh ==
    ASSUME NEW results, NEW rec, NEW ms, InOrder(results, rec, ms),
           results # << >>, Len(rec) \notin ms
    PROVE  Fresh(step_data(results), rec, ms \cup {Len(rec)}, Len(rec))
<1> DEFINE n == Len(rec)
           d == step_data(results)
           last == results[n]
<1>1. /\ rec \in Seq(Responses) /\ results \in Seq(Datum) /\ Len(results) = n
      /\ n \in Nat /\ n >= 1 /\ n \in 1 .. n
      /\ last = Exact(rec, n)
      /\ \A i \in 1 .. n : Fresh(results[i], rec, ms, i)
  BY DEF InOrder
<1> SUFFICES ASSUME NEW k \in Keys, Holds(d, k)
             PROVE  /\ Bring(rec, k, n) # {}
                    /\ \A i \in 1 .. n :
                          Kept(rec, ms \cup {n}, k, n, i) => d[k] = i
  BY DEF Fresh
<1>2. last # NoData
  BY <1>1, StepMerges DEF Holds
<1>3. Merges(d, last, results, n - 1)
  BY <1>1, <1>2, StepMerges
<1> HIDE DEF d
<1>4. \A j \in 1 .. n - 1 : j \in 1 .. n /\ j < n /\ j <= n
  BY <1>1
<1>5. Holds(last, k) => n \in Bring(rec, k, n) /\ last[k] = n
  <2>1. rec[n] # NoData
    BY <1>1, <1>2 DEF Exact
  <2>2. DOMAIN last = rec[n] /\ \A q \in rec[n] : last[q] = n
    BY <1>1, <2>1, ExactObject
  <2> QED
    BY <1>1, <2>1, <2>2 DEF Holds, Bring
<1>6. ASSUME NEW j \in 1 .. n - 1, Holds(results[j], k)
      PROVE  \E i \in Bring(rec, k, n) : i < n
  <2>1. Bring(rec, k, j) # {}
    BY <1>1, <1>4, <1>6 DEF Fresh
  <2>2. PICK i \in Bring(rec, k, j) : TRUE
    BY <2>1
  <2>3. i \in 1 .. n /\ i < n /\ i \in Bring(rec, k, n)
    BY <1>1, <2>2 DEF Bring
  <2> QED
    BY <2>3
<1>7. Holds(last, k) \/ \E j \in 1 .. n - 1 : Holds(results[j], k)
  BY <1>3 DEF Merges
<1>8. Bring(rec, k, n) # {}
  BY <1>5, <1>6, <1>7
<1>9. ASSUME NEW i \in 1 .. n, Kept(rec, ms \cup {n}, k, n, i) PROVE d[k] = i
  <2>1. /\ i \in Bring(rec, k, n)
        /\ \A j \in Bring(rec, k, n) : j <= i
        /\ i \in ms \cup {n} => Bring(rec, k, n) = {i}
    BY <1>9 DEF Kept
  <2>2. Holds(results[i], k)
    BY <1>1, <2>1, OwnKeys
  <2>3. \/ /\ \A j \in 1 .. n - 1 : ~ Holds(results[j], k)
           /\ d[k] = last[k]
        \/ \E j \in 1 .. n - 1 : /\ Holds(results[j], k)
                                 /\ \A l \in 1 .. n - 1 : Holds(results[l], k) => l <= j
                                 /\ d[k] = results[j][k]
    BY <1>3, Zenon DEF Merges
  <2>4. CASE i = n
    <3>1. \A j \in 1 .. n - 1 : ~ Holds(results[j], k)
      <4>1. ASSUME NEW j \in 1 .. n - 1, Holds(results[j], k) PROVE FALSE
        BY <1>1, <1>6, <2>1, <2>4, <4>1
      <4> QED
        BY <4>1
    <3>2. d[k] = last[k]
      BY <2>3, <3>1, Zenon
    <3> QED
      BY <1>5, <2>2, <2>4, <3>2
  <2>5. CASE i # n
    <3>1. i \in 1 .. n - 1
      BY <1>1, <2>5
    <3>2. PICK j \in 1 .. n - 1 : /\ Holds(results[j], k)
                                  /\ \A l \in 1 .. n - 1 : Holds(results[l], k) => l <= j
                                  /\ d[k] = results[j][k]
      BY <2>2, <2>3, <3>1, Zenon
    <3>3. i <= j /\ j \in 1 .. n
      BY <1>4, <2>2, <3>1, <3>2
    <3>4. Kept(rec, ms, k, n, i)
      BY <2>1 DEF Kept
    <3>5. results[j][k] = i
      BY <3>2, <3>3, <3>4, KeptLater
    <3> QED
      BY <3>2, <3>5
  <2> QED
    BY <2>4, <2>5
<1> QED
  BY <1>8, <1>9

(* session_step sends the merged data on, and the last result is them. *)
LEMMA StepKept ==
    ASSUME NEW results, NEW rec, NEW ms, InOrder(results, rec, ms),
           results # << >>, Len(rec) \notin ms
    PROVE  InOrder(shared_result(results, step_data(results)), rec, ms \cup {Len(rec)})
<1> DEFINE n == Len(rec)
           d == step_data(results)
           now == [results EXCEPT ![n] = d]
           ms2 == ms \cup {n}
<1>1. /\ rec \in Seq(Responses) /\ results \in Seq(Datum) /\ Len(results) = n
      /\ n \in Nat /\ n >= 1 /\ ms2 \subseteq 1 .. n
  <2>1. /\ rec \in Seq(Responses) /\ results \in Seq(Datum) /\ Len(results) = n
        /\ ms \subseteq 1 .. n
    BY DEF InOrder
  <2>2. n \in Nat /\ n >= 1
    BY <2>1
  <2>3. n \in 1 .. n
    BY <2>2
  <2> QED
    BY <2>1, <2>2, <2>3
<1>2. d \in Datum /\ ObjectIn(d, rec) /\ Fresh(d, rec, ms2, n)
  BY BothObjects, StepFresh
<1>3. ASSUME rec[n] # NoData PROVE d # NoData /\ rec[n] \subseteq DOMAIN d
  <2>1. results[n] # NoData /\ rec[n] \subseteq DOMAIN results[n]
    BY <1>1, <1>3 DEF InOrder
  <2>2. Merges(d, results[n], results, n - 1)
    BY <1>1, <2>1, StepMerges
  <2>3. rec[n] \subseteq Keys /\ \A k \in rec[n] : Holds(results[n], k)
    BY <1>1, <1>3, <2>1, DataMergeAssumption DEF Holds
  <2>4. d # NoData /\ \A k \in rec[n] : Holds(d, k)
    BY <2>2, <2>3 DEF Merges
  <2> QED
    BY <2>4 DEF Holds
<1> HIDE DEF d
<1>4. /\ now \in Seq(Datum) /\ Len(now) = n /\ now[n] = d
      /\ \A i \in 1 .. n : i # n => now[i] = results[i]
  BY <1>1, <1>2
<1>5. shared_result(results, d) = now
  BY <1>1 DEF shared_result
<1>6. ASSUME NEW i \in 1 .. n
      PROVE  /\ ObjectIn(now[i], rec)
             /\ rec[i] # NoData => now[i] # NoData /\ rec[i] \subseteq DOMAIN now[i]
             /\ i \notin ms2 => now[i] = Exact(rec, i)
             /\ Fresh(now[i], rec, ms2, i)
  <2>1. CASE i = n
    BY <1>1, <1>2, <1>3, <1>4, <2>1
  <2>2. CASE i # n
    <3>1. now[i] = results[i] /\ (i \notin ms2 => i \notin ms)
      BY <1>1, <1>4, <2>2
    <3>2. /\ ObjectIn(results[i], rec)
          /\ rec[i] # NoData => results[i] # NoData /\ rec[i] \subseteq DOMAIN results[i]
          /\ i \notin ms => results[i] = Exact(rec, i)
          /\ Fresh(results[i], rec, ms, i)
      BY DEF InOrder
    <3>3. \A k, j : Kept(rec, ms2, k, i, j) => Kept(rec, ms, k, i, j)
      BY DEF Kept
    <3>4. Fresh(results[i], rec, ms2, i)
      BY <3>2, <3>3 DEF Fresh
    <3> HIDE DEF now, ms2
    <3> QED
      BY <3>1, <3>2, <3>4
  <2> QED
    BY <2>1, <2>2
<1> HIDE DEF now, ms2
<1>7. InOrder(now, rec, ms2)
  BY <1>1, <1>4, <1>6 DEF InOrder
<1> QED
  BY <1>5, <1>7 DEF d, ms2

-----------------------------------------------------------------------------
(* What is sent on *)

(* Both loops keep every key that a response has brought. *)
LEMMA KeysKept ==
    ASSUME NoData \notin Responses,
           NEW results, NEW rec, NEW ms, InOrder(results, rec, ms), results # << >>,
           NEW k \in Keys, NEW i \in DOMAIN rec, k \in rec[i]
    PROVE  Holds(step_data(results), k) /\ Holds(reply_data(results), k)
<1> DEFINE n == Len(results)
           last == results[n]
<1>1. /\ rec \in Seq(Responses) /\ results \in Seq(Datum) /\ n = Len(rec)
      /\ n \in Nat /\ n >= 1 /\ i \in 1 .. n
  BY DEF InOrder
<1>2. rec[n] # NoData /\ rec[i] # NoData
  BY <1>1
<1>3. last # NoData /\ Holds(results[i], k)
  BY <1>1, <1>2 DEF InOrder, Holds
<1>4. /\ Merges(step_data(results), last, results, n - 1)
      /\ Merges(reply_data(results), last, results, n)
  BY <1>1, <1>3, StepMerges, ReplyMerges
<1>5. Holds(reply_data(results), k)
  BY <1>1, <1>3, <1>4 DEF Merges
<1>6. Holds(step_data(results), k)
  <2>1. i = n \/ i \in 1 .. n - 1
    BY <1>1
  <2> QED
    BY <1>3, <1>4, <2>1 DEF Merges
<1> QED
  BY <1>5, <1>6

(* session_step_stop answers, for a key, what the latest result says. *)
LEMMA LatestResult ==
    ASSUME NEW results, NEW rec, NEW ms, InOrder(results, rec, ms), results # << >>,
           NEW k, Holds(reply_data(results), k)
    PROVE  \E j \in 1 .. Len(rec) :
              /\ Holds(results[j], k)
              /\ \A l \in 1 .. Len(rec) : Holds(results[l], k) => l <= j
              /\ reply_data(results)[k] = results[j][k]
<1> DEFINE n == Len(results)
           last == results[n]
           d == reply_data(results)
<1>1. /\ results \in Seq(Datum) /\ n = Len(rec) /\ n \in Nat /\ n >= 1 /\ n \in 1 .. n
  BY DEF InOrder
<1>2. last # NoData
  BY <1>1, ReplyMerges DEF Holds
<1>3. Merges(d, last, results, n)
  BY <1>1, <1>2, ReplyMerges
<1>4. k \in Keys
  BY <1>3, Objects DEF Merges, Holds
<1> HIDE DEF d
<1>5. ~ \A j \in 1 .. n : ~ Holds(results[j], k)
  <2>1. Holds(last, k) \/ \E j \in 1 .. n : Holds(results[j], k)
    BY <1>3, <1>4 DEF Merges, d
  <2> QED
    BY <1>1, <2>1
<1>6. \E j \in 1 .. n : /\ Holds(results[j], k)
                        /\ \A l \in 1 .. n : Holds(results[l], k) => l <= j
                        /\ d[k] = results[j][k]
  BY <1>3, <1>4, <1>5 DEF Merges, d
<1> QED
  BY <1>1, <1>6 DEF d

(* So the data of the answer are fresh. *)
LEMMA ReplyFresh ==
    ASSUME NEW results, NEW rec, NEW ms, InOrder(results, rec, ms), results # << >>,
           NEW k \in Keys, Holds(reply_data(results), k),
           NEW i, Kept(rec, ms, k, Len(rec), i)
    PROVE  reply_data(results)[k] = i
<1>1. PICK j \in 1 .. Len(rec) :
         /\ Holds(results[j], k)
         /\ \A l \in 1 .. Len(rec) : Holds(results[l], k) => l <= j
         /\ reply_data(results)[k] = results[j][k]
  BY LatestResult
<1>2. i \in Bring(rec, k, Len(rec)) /\ i \in 1 .. Len(rec) /\ Len(rec) \in Nat
  BY DEF Kept, Bring, InOrder
<1>3. Holds(results[i], k)
  BY <1>2, OwnKeys
<1>4. i <= j
  BY <1>1, <1>2, <1>3
<1> QED
  BY <1>1, <1>4, KeptLater

-----------------------------------------------------------------------------
(* The invariant: while a session runs, its counters are within its chain  *)
(* and its results in order; what was sent came from responses.            *)
MergeInv ==
    /\ chain \in Chains \cup {<< >>}
    /\ received \in Seq(Responses)
    /\ sent \in [type : {"nothing", "request", "step", "reply", "error", "timeout"},
                 data : Datum]
    /\ ObjectIn(sent.data, received)
    /\ merged \subseteq 1 .. Len(received)
    /\ chain = << >> => curr_step = 0 /\ result_chain = << >>
    /\ chain # << >> => /\ curr_step \in 1 .. Len(chain)
                        /\ curr_wait \in 1 .. chain[curr_step]
                        /\ InOrder(result_chain, received, merged)

LEMMA MergeInit == Init => MergeInv
BY DEF Init, MergeInv, Published, Datum, ObjectIn

(* A new session has no results. *)
LEMMA CreateKeeps ==
    ASSUME MergeInv, NEW c \in Chains, session_create_node(c)
    PROVE  MergeInv'
<1>1. /\ chain' = c /\ curr_step' = 1 /\ curr_wait' = c[1] /\ result_chain' = << >>
      /\ received' = << >> /\ merged' = {}
      /\ sent' = Published("request", NoData)
  BY DEF session_create_node
<1>2. c # << >> /\ c \in Seq(Nat \ {0})
  BY DataMergeAssumption
<1>3. 1 \in 1 .. Len(c) /\ c[1] \in 1 .. c[1]
  BY <1>2
<1>4. InOrder(<< >>, << >>, {})
  BY DEF InOrder
<1> QED
  BY <1>1, <1>2, <1>3, <1>4 DEF MergeInv, Published, Datum, ObjectIn

(* What session_step_update appends. *)
LEMMA ResultExact ==
    ASSUME NEW response \in Responses, received \in Seq(Responses)
    PROVE  (IF response = NoData THEN NoData ELSE [k \in response |-> Len(received) + 1])
              = Exact(Append(received, response), Len(received) + 1)
BY DEF Exact

(* The end of a session, with data that came from its responses. *)
LEMMA OverKeeps ==
    ASSUME MergeInv, chain # << >>, received' \in Seq(Responses),
           merged \subseteq 1 .. Len(received'),
           NEW d \in Datum, ObjectIn(d, received'),
           NEW type \in {"reply", "error", "timeout"},
           session_over(Published(type, d))
    PROVE  MergeInv'
BY DEF MergeInv, session_over, Published

(* A response with code 200, in each of its three outcomes. *)
LEMMA UpdateKeeps ==
    ASSUME MergeInv, NEW response \in Responses, session_step_update(response)
    PROVE  MergeInv'
<1> DEFINE more == Append(received, response)
           n == Len(received) + 1
           results == Append(result_chain, Exact(more, n))
<1>1. /\ chain # << >> /\ received \in Seq(Responses)
      /\ InOrder(result_chain, received, merged)
      /\ merged \subseteq 1 .. Len(received)
      /\ chain \in Chains
  BY DEF session_step_update, MergeInv
<1>2. /\ received' = more
      /\ \/ /\ ~ last_response
            /\ curr_wait' = curr_wait - 1
            /\ result_chain' = results
            /\ sent' = Published("nothing", NoData)
            /\ UNCHANGED <<chain, curr_step, merged>>
         \/ /\ last_response /\ curr_step < Len(chain)
            /\ curr_step' = curr_step + 1
            /\ curr_wait' = chain[curr_step + 1]
            /\ merged' = merged \cup {n}
            /\ result_chain' = shared_result(results, step_data(results))
            /\ sent' = Published("step", step_data(results))
            /\ UNCHANGED chain
         \/ session_over(Published("reply", reply_data(results)))
  BY <1>1, ResultExact DEF session_step_update
<1>3. /\ InOrder(results, more, merged)
      /\ Len(more) = n /\ results # << >> /\ n \notin merged
  <2>1. InOrder(results, more, merged)
    BY <1>1, Arrival, Zenon
  <2>2. results # << >>
    BY <1>1 DEF InOrder
  <2>3. n \notin merged
    BY <1>1
  <2> QED
    BY <1>1, <2>1, <2>2, <2>3
<1>4. more \in Seq(Responses) /\ merged \subseteq 1 .. Len(more) /\ n \in 1 .. Len(more)
  BY <1>1
<1>5. /\ step_data(results) \in Datum /\ ObjectIn(step_data(results), more)
      /\ reply_data(results) \in Datum /\ ObjectIn(reply_data(results), more)
  BY <1>3, BothObjects
<1>6. curr_step \in 1 .. Len(chain) /\ curr_wait \in 1 .. chain[curr_step]
  BY <1>1 DEF MergeInv
<1>7. chain \in Seq(Nat \ {0})
  BY <1>1, DataMergeAssumption
<1> HIDE DEF more, n, results
<1>8. CASE /\ ~ last_response
           /\ curr_wait' = curr_wait - 1
           /\ result_chain' = results
           /\ sent' = Published("nothing", NoData)
           /\ UNCHANGED <<chain, curr_step, merged>>
  <2>1. curr_wait' \in 1 .. chain[curr_step]
    BY <1>6, <1>7, <1>8 DEF last_response
  <2> QED
    BY <1>1, <1>2, <1>3, <1>4, <1>6, <1>8, <2>1 DEF MergeInv, Published, Datum, ObjectIn
<1>9. CASE /\ last_response /\ curr_step < Len(chain)
           /\ curr_step' = curr_step + 1
           /\ curr_wait' = chain[curr_step + 1]
           /\ merged' = merged \cup {n}
           /\ result_chain' = shared_result(results, step_data(results))
           /\ sent' = Published("step", step_data(results))
           /\ UNCHANGED chain
  <2>1. /\ curr_step' \in 1 .. Len(chain)
        /\ chain[curr_step + 1] \in 1 .. chain[curr_step + 1]
    BY <1>6, <1>7, <1>9
  <2>2. InOrder(shared_result(results, step_data(results)), more, merged \cup {n})
    BY <1>3, StepKept
  <2>3. /\ sent' \in [type : {"nothing", "request", "step", "reply", "error", "timeout"},
                      data : Datum]
        /\ sent'.data = step_data(results)
    BY <1>5, <1>9 DEF Published
  <2>4. InOrder(result_chain', received', merged')
    BY <1>2, <1>9, <2>2
  <2> QED
    BY <1>1, <1>2, <1>4, <1>5, <1>9, <2>1, <2>3, <2>4 DEF MergeInv
<1>10. CASE session_over(Published("reply", reply_data(results)))
  BY <1>1, <1>2, <1>4, <1>5, <1>10, OverKeeps
<1> QED
  BY <1>2, <1>8, <1>9, <1>10

(* Every step keeps the invariant. *)
LEMMA MergeNext == MergeInv /\ [Next]_vars => MergeInv'
<1> SUFFICES ASSUME MergeInv, [Next]_vars PROVE MergeInv'
  OBVIOUS
<1>1. ASSUME NEW response \in Responses, session_step_fail(response) PROVE MergeInv'
  <2> DEFINE more == Append(received, response)
             n == Len(received) + 1
             d == Exact(more, n)
  <2>1. /\ chain # << >> /\ received \in Seq(Responses) /\ received' = more
        /\ merged \subseteq 1 .. Len(received)
    BY <1>1 DEF session_step_fail, MergeInv
  <2>2. session_over(Published("error", d))
    BY <1>1, <2>1, ResultExact DEF session_step_fail
  <2>3. more \in Seq(Responses) /\ n \in 1 .. Len(more) /\ merged \subseteq 1 .. Len(more)
    BY <2>1
  <2>4. d \in Datum /\ ObjectIn(d, more)
    BY <2>3, ExactObject
  <2> HIDE DEF more, n, d
  <2> QED
    BY <2>1, <2>2, <2>3, <2>4, OverKeeps
<1>2. CASE session_step_expire
  <2>1. /\ chain # << >> /\ received' = received
        /\ session_over(Published("timeout", NoData))
    BY <1>2 DEF session_step_expire
  <2>2. received \in Seq(Responses) /\ merged \subseteq 1 .. Len(received)
    BY DEF MergeInv
  <2>3. NoData \in Datum /\ ObjectIn(NoData, received)
    BY DEF Datum, ObjectIn
  <2> QED
    BY <2>1, <2>2, <2>3, OverKeeps
<1>3. CASE UNCHANGED vars
  BY <1>3 DEF vars, MergeInv
<1> QED
  BY <1>1, <1>2, <1>3, CreateKeeps, UpdateKeeps DEF Next

(* No merge makes up a value, and the counters stay within the chain,      *)
(* whatever responses carry.                                               *)
THEOREM MergeTypeCorrect == Spec => []TypeOK
<1>1. MergeInv => TypeOK
  <2> SUFFICES ASSUME MergeInv PROVE TypeOK
    OBVIOUS
  <2>1. \A x : ObjectIn(x, received) => Object(x)
    BY DEF ObjectIn, Object, Bringing
  <2>2. Object(sent.data) /\ merged \subseteq DOMAIN received
    BY <2>1 DEF MergeInv
  <2>3. \A i \in DOMAIN result_chain : Object(result_chain[i])
    <3>1. CASE chain = << >>
      BY <3>1 DEF MergeInv
    <3>2. CASE chain # << >>
      <4>1. InOrder(result_chain, received, merged)
        BY <3>2 DEF MergeInv
      <4>2. \A i \in DOMAIN result_chain : i \in 1 .. Len(received)
        BY <4>1 DEF InOrder
      <4>3. \A i \in 1 .. Len(received) : ObjectIn(result_chain[i], received)
        BY <4>1 DEF InOrder
      <4> QED
        BY <2>1, <4>2, <4>3
    <3> QED
      BY <3>1, <3>2
  <2>4. curr_step \in 0 .. Len(chain)
    <3>1. CASE chain = << >>
      BY <3>1 DEF MergeInv
    <3>2. CASE chain # << >>
      BY <3>2 DEF MergeInv
    <3> QED
      BY <3>1, <3>2
  <2> QED
    BY <2>2, <2>3, <2>4 DEF MergeInv, TypeOK
<1> QED
  BY <1>1, MergeInit, MergeNext, PTL DEF Spec

(* Only session_step and session_step_stop send merged data, made from     *)
(* results that are in order.                                              *)
LEMMA MergedSent ==
    ASSUME MergeInv, Next, Merged'
    PROVE  \E results :
              /\ InOrder(results, received', merged) /\ results # << >>
              /\ Len(received') \notin merged
              /\ \/ /\ sent' = Published("step", step_data(results))
                    /\ merged' = merged \cup {Len(received')}
                 \/ /\ sent' = Published("reply", reply_data(results))
                    /\ merged' = merged
<1>1. sent'.type \in {"step", "reply"}
  BY DEF Merged
<1>2. ASSUME NEW c \in Chains, session_create_node(c) PROVE FALSE
  BY <1>1, <1>2 DEF session_create_node, Published
<1>3. ASSUME NEW response \in Responses, session_step_fail(response) PROVE FALSE
  BY <1>1, <1>3 DEF session_step_fail, session_over, Published
<1>4. ASSUME session_step_expire PROVE FALSE
  BY <1>1, <1>4 DEF session_step_expire, session_over, Published
<1>5. PICK response \in Responses : session_step_update(response)
  BY <1>2, <1>3, <1>4 DEF Next
<1> DEFINE more == Append(received, response)
           n == Len(received) + 1
           results == Append(result_chain, Exact(more, n))
<1>6. received \in Seq(Responses) /\ InOrder(result_chain, received, merged)
  BY <1>5 DEF session_step_update, MergeInv
<1>7. /\ InOrder(results, more, merged)
      /\ Len(more) = n /\ results # << >> /\ n \notin merged
  BY <1>6, Arrival
<1>8. /\ received' = more
      /\ \/ sent' = Published("nothing", NoData)
         \/ sent' = Published("step", step_data(results)) /\ merged' = merged \cup {n}
         \/ sent' = Published("reply", reply_data(results)) /\ merged' = merged
  BY <1>5, <1>6, ResultExact DEF session_step_update, session_over
<1> HIDE DEF more, n, results
<1> QED
  BY <1>1, <1>7, <1>8 DEF Published

(* "response data will be merged": if every response carries data, what is *)
(* sent to the next step and to the client has every key that any response *)
(* has brought, whatever the length of the chain.                          *)
THEOREM NothingGetsLost ==
    ASSUME NoData \notin Responses
    PROVE  Spec => []NothingLost
<1>1. ASSUME MergeInv, Next PROVE NothingLost'
  <2> SUFFICES ASSUME Merged', NEW k \in Keys, NEW i \in Bringing(k)'
               PROVE  sent'.data # NoData /\ k \in DOMAIN sent'.data
    BY DEF NothingLost
  <2>1. PICK results :
           /\ InOrder(results, received', merged) /\ results # << >>
           /\ \/ sent' = Published("step", step_data(results))
              \/ sent' = Published("reply", reply_data(results))
    BY <1>1, MergedSent
  <2>2. i \in DOMAIN received' /\ k \in received'[i]
    BY DEF Bringing
  <2>3. Holds(step_data(results), k) /\ Holds(reply_data(results), k)
    BY <2>1, <2>2, KeysKept
  <2> QED
    BY <2>1, <2>3 DEF Published, Holds
<1>2. MergeInv /\ NothingLost /\ [Next]_vars => NothingLost'
  BY <1>1 DEF vars, NothingLost, Merged, Bringing
<1>3. Init => NothingLost
  BY DEF Init, NothingLost, Merged, Published
<1> QED
  BY <1>2, <1>3, MergeInit, MergeNext, PTL DEF Spec

(* "new data will overwrite old data": the next step and the client get    *)
(* the latest value of a key through any number of merges, unless the      *)
(* response that brought it was the last of a step and an earlier one had  *)
(* the key too.                                                            *)
THEOREM NewestAlwaysWins == Spec => []NewestWins
<1>1. ASSUME MergeInv, Next PROVE NewestWins'
  <2> SUFFICES ASSUME Merged', sent'.data # NoData,
                      NEW k \in DOMAIN sent'.data, NEW i \in Bringing(k)',
                      Latest(k, i)', i \in merged' => Bringing(k)' = {i}
               PROVE  sent'.data[k] = i
    BY DEF NewestWins
  <2>1. PICK results :
           /\ InOrder(results, received', merged) /\ results # << >>
           /\ Len(received') \notin merged
           /\ \/ /\ sent' = Published("step", step_data(results))
                 /\ merged' = merged \cup {Len(received')}
              \/ /\ sent' = Published("reply", reply_data(results))
                 /\ merged' = merged
    BY <1>1, MergedSent
  <2>2. Bringing(k)' = Bring(received', k, Len(received'))
    <3>1. DOMAIN received' = 1 .. Len(received')
      BY <2>1 DEF InOrder
    <3> QED
      BY <3>1 DEF Bringing, Bring
  <2>3. /\ Kept(received', merged', k, Len(received'), i)
        /\ i \in 1 .. Len(received')
    BY <2>2 DEF Kept, Latest, Bring
  <2>4. CASE /\ sent' = Published("step", step_data(results))
             /\ merged' = merged \cup {Len(received')}
    <3>1. sent'.data = step_data(results)
      BY <2>4 DEF Published
    <3>2. step_data(results) \in Datum
      BY <2>1, BothObjects
    <3>3. k \in Keys /\ Holds(step_data(results), k)
      BY <3>1, <3>2, Objects DEF Holds
    <3>4. Fresh(step_data(results), received', merged', Len(received'))
      BY <2>1, <2>4, StepFresh
    <3> QED
      BY <2>3, <3>1, <3>3, <3>4 DEF Fresh
  <2>5. CASE /\ sent' = Published("reply", reply_data(results))
             /\ merged' = merged
    <3>1. sent'.data = reply_data(results)
      BY <2>5 DEF Published
    <3>2. reply_data(results) \in Datum
      BY <2>1, BothObjects
    <3>3. k \in Keys /\ Holds(reply_data(results), k)
      BY <3>1, <3>2, Objects DEF Holds
    <3> QED
      BY <2>1, <2>3, <2>5, <3>1, <3>3, ReplyFresh
  <2> QED
    BY <2>1, <2>4, <2>5
<1>2. MergeInv /\ NewestWins /\ [Next]_vars => NewestWins'
  BY <1>1 DEF vars, NewestWins, Merged, Bringing, Latest
<1>3. Init => NewestWins
  BY DEF Init, NewestWins, Merged, Published
<1> QED
  BY <1>2, <1>3, MergeInit, MergeNext, PTL DEF Spec
=============================================================================
