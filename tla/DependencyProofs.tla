-------------------------- MODULE DependencyProofs --------------------------
(***************************************************************************)
(* The dependency lookup and the search of routing_req agree, and both     *)
(* find the least set of models that is closed under the hooks, for every  *)
(* table and every depth of the hooks.                                     *)
(***************************************************************************)
EXTENDS Dependency, ControllerProofs, WellFoundedInduction

-----------------------------------------------------------------------------
(* Induction over the iterations *)

(* A set of numbers that is not empty has a least element. *)
LEMMA LeastNumber ==
    ASSUME NEW S \in SUBSET Nat, S # {}
    PROVE  \E x \in S : \A y \in S : x <= y
<1> DEFINE R == {p \in Nat \X Nat : p[1] < p[2]}
<1>1. IsWellFoundedOn(R, Nat)
  BY NatLessThanWellFounded DEF OpToRel
<1> HIDE DEF R
<1>2. PICK x \in S : \A y \in S : ~ (<<y, x>> \in R)
  BY <1>1, WFMin
<1>3. \A y \in S : ~ (y < x)
  BY <1>2 DEF R
<1> QED
  BY <1>3

(* Induction, for sets of numbers. *)
LEMMA NumbersByInduction ==
    ASSUME NEW S, 0 \in S, \A n \in Nat : n \in S => n + 1 \in S
    PROVE  Nat \subseteq S
<1> SUFFICES ASSUME Nat \ S # {} PROVE FALSE
  OBVIOUS
<1>1. PICK x \in Nat \ S : \A y \in Nat \ S : x <= y
  BY LeastNumber
<1>2. x - 1 \in Nat /\ x - 1 \notin S
  BY <1>1
<1> QED
  BY <1>1, <1>2

(* One iteration of the lookup: who hooks the models of a level. *)
NextLevel(b) == Hooks(WithRole(b, "model"))

(* The levels from base on, as far as n: the function that the iterations  *)
(* define.                                                                 *)
LevelsTo(n, base, g) ==
    g = [k \in 0 .. n |-> IF k = 0 THEN base ELSE NextLevel(g[k - 1])]

(* Every number of iterations defines such a function. *)
LEMMA LevelsExist ==
    ASSUME NEW base
    PROVE  \A n \in Nat : \E g : LevelsTo(n, base, g)
<1> DEFINE S == {n \in Nat : \E g : LevelsTo(n, base, g)}
<1>1. 0 \in S
  <2> DEFINE g == [k \in 0 .. 0 |-> base]
  <2>1. g = [k \in 0 .. 0 |-> IF k = 0 THEN base ELSE NextLevel(g[k - 1])]
    OBVIOUS
  <2> QED
    BY <2>1 DEF LevelsTo
<1>2. ASSUME NEW n \in Nat, n \in S PROVE n + 1 \in S
  <2>1. PICK g : g = [k \in 0 .. n |-> IF k = 0 THEN base ELSE NextLevel(g[k - 1])]
    BY <1>2 DEF LevelsTo
  <2> DEFINE h == [k \in 0 .. n + 1 |-> IF k = n + 1 THEN NextLevel(g[n]) ELSE g[k]]
  <2>2. ASSUME NEW k \in 0 .. n + 1
        PROVE  h[k] = IF k = 0 THEN base ELSE NextLevel(h[k - 1])
    <3>1. CASE k = n + 1
      BY <3>1
    <3>2. CASE k # n + 1
      <4>1. k \in 0 .. n /\ (k # 0 => k - 1 \in 0 .. n)
        BY <3>2
      <4>2. h[k] = g[k] /\ (k # 0 => h[k - 1] = g[k - 1])
        BY <3>2, <4>1
      <4> HIDE DEF h
      <4>3. g[k] = IF k = 0 THEN base ELSE NextLevel(g[k - 1])
        BY <2>1, <4>1, Zenon
      <4> QED
        BY <4>2, <4>3
    <3> QED
      BY <3>1, <3>2
  <2>3. h = [k \in 0 .. n + 1 |-> h[k]]
    OBVIOUS
  <2> HIDE DEF h
  <2>4. h = [k \in 0 .. n + 1 |-> IF k = 0 THEN base ELSE NextLevel(h[k - 1])]
    BY <2>2, <2>3, Zenon
  <2> QED
    BY <2>4 DEF LevelsTo
<1> HIDE DEF S
<1>3. Nat \subseteq S
  BY <1>1, <1>2, NumbersByInduction
<1> QED
  BY <1>3 DEF S

(* The recursion of the lookup can be unfolded. *)
Unfolds(rs) == LevelsTo(MaxSteps, sanji_get_subscribed_component(rs), dependency_level(rs))

LEMMA LevelsUnfold == \A rs : Unfolds(rs)
<1> TAKE rs
<1> DEFINE base == sanji_get_subscribed_component(rs)
<1>1. \E g : LevelsTo(MaxSteps, base, g)
  BY LevelsExist, ControllerAssumption
<1>2. dependency_level(rs) = CHOOSE g : LevelsTo(MaxSteps, base, g)
  BY DEF dependency_level, LevelsTo, NextLevel
<1>3. LevelsTo(MaxSteps, base, CHOOSE g : LevelsTo(MaxSteps, base, g))
  BY <1>1
<1> QED
  BY <1>2, <1>3 DEF Unfolds


-----------------------------------------------------------------------------
(* What the lookup finds *)

(* The models of the k-th level. *)
LevelModels(rs, k) == Members(WithRole(dependency_level(rs)[k], "model"))

AllModels(rs) == UNION {LevelModels(rs, k) : k \in 0 .. MaxSteps}

(* The resources of the models of the first n levels. *)
FoundBefore(rs, n) ==
    {r \in DOMAIN subscribed :
        \E k \in 0 .. n - 1 : \E m \in LevelModels(rs, k) : subscribed[r][m] > 0}

LEMMA LevelValues ==
    ASSUME NEW rs
    PROVE  /\ dependency_level(rs)[0] = sanji_get_subscribed_component(rs)
           /\ \A k \in 1 .. MaxSteps :
                 dependency_level(rs)[k] = NextLevel(dependency_level(rs)[k - 1])
<1> DEFINE L == dependency_level(rs)
<1>1. L = [k \in 0 .. MaxSteps |->
             IF k = 0 THEN sanji_get_subscribed_component(rs) ELSE NextLevel(L[k - 1])]
  BY LevelsUnfold DEF Unfolds, LevelsTo
<1> HIDE DEF L
<1>2. 0 \in 0 .. MaxSteps /\ \A k \in 1 .. MaxSteps : k \in 0 .. MaxSteps /\ k # 0
  BY ControllerAssumption
<1>3. \A k \in 0 .. MaxSteps : L[k] =
         IF k = 0 THEN sanji_get_subscribed_component(rs) ELSE NextLevel(L[k - 1])
  BY <1>1, Zenon
<1> QED
  BY <1>2, <1>3 DEF L

(* Every level is a list of components. *)
LEMMA LevelType ==
    ASSUME RegistryTypeOK, NEW rs, rs \subseteq DOMAIN subscribed
    PROVE  \A k \in 0 .. MaxSteps : dependency_level(rs)[k] \in Bag
<1> DEFINE L == dependency_level(rs)
           S == {k \in Nat : k <= MaxSteps => L[k] \in Bag}
<1>1. 0 \in S
  BY LevelValues, SubscribersType
<1>2. ASSUME NEW k \in Nat, k \in S PROVE k + 1 \in S
  <2> SUFFICES ASSUME k + 1 <= MaxSteps PROVE L[k + 1] \in Bag
    BY DEF S
  <2>1. k + 1 \in 1 .. MaxSteps /\ k <= MaxSteps /\ k + 1 - 1 = k
    BY ControllerAssumption
  <2>2. L[k] \in Bag
    BY <1>2, <2>1
  <2>3. L[k + 1] = NextLevel(L[k])
    BY <2>1, LevelValues
  <2> HIDE DEF L
  <2>4. NextLevel(L[k]) \in Bag
    BY <2>2, WithRoleType, HooksType DEF NextLevel
  <2> QED
    BY <2>3, <2>4
<1> HIDE DEF S, L
<1>3. Nat \subseteq S
  BY <1>1, <1>2, NumbersByInduction
<1> QED
  BY <1>3, ControllerAssumption DEF S, L

(* Whom a level leads to: the components that hook one of its models. *)
LEMMA LevelMembers ==
    ASSUME RegistryTypeOK, NEW rs, rs \subseteq DOMAIN subscribed, NEW k \in 1 .. MaxSteps
    PROVE  Members(dependency_level(rs)[k])
             = {h \in Names : \E m \in LevelModels(rs, k - 1) : h \in component_get_names_by_hook(m)}
<1>1. k - 1 \in 0 .. MaxSteps
  BY ControllerAssumption
<1>2. WithRole(dependency_level(rs)[k - 1], "model") \in Bag
  BY <1>1, LevelType, WithRoleType
<1>3. dependency_level(rs)[k] = Hooks(WithRole(dependency_level(rs)[k - 1], "model"))
  BY LevelValues DEF NextLevel
<1> QED
  BY <1>2, <1>3, HooksMembers DEF LevelModels

(* The models of a level are those of its members that have the role. *)
LEMMA LevelModelsAre ==
    ASSUME RegistryTypeOK, NEW rs, rs \subseteq DOMAIN subscribed, NEW k \in 0 .. MaxSteps
    PROVE  LevelModels(rs, k)
             = {n \in Members(dependency_level(rs)[k]) : component_is_given_role(n, "model")}
BY DEF LevelModels, Members, WithRole

(* Nothing comes after a level without members. *)
LEMMA EmptyAfterwards ==
    ASSUME RegistryTypeOK, NEW rs, rs \subseteq DOMAIN subscribed,
           NEW n \in 0 .. MaxSteps, Members(dependency_level(rs)[n]) = {}
    PROVE  \A k \in n .. MaxSteps : Members(dependency_level(rs)[k]) = {}
<1> DEFINE L == dependency_level(rs)
           S == {k \in Nat : n + k <= MaxSteps => Members(L[n + k]) = {}}
<1>0. MaxSteps \in Nat /\ n \in Nat
  BY ControllerAssumption
<1>1. 0 \in S
  BY <1>0
<1>2. ASSUME NEW k \in Nat, k \in S PROVE k + 1 \in S
  <2> SUFFICES ASSUME n + (k + 1) <= MaxSteps PROVE Members(L[n + (k + 1)]) = {}
    BY DEF S
  <2> DEFINE j == n + (k + 1)
  <2>1. j \in 1 .. MaxSteps /\ j - 1 = n + k /\ n + k <= MaxSteps /\ n + k \in 0 .. MaxSteps
    BY <1>0
  <2>2. Members(L[j - 1]) = {}
    BY <1>2, <2>1
  <2> HIDE DEF j
  <2>3. LevelModels(rs, j - 1) = {}
    BY <2>1, <2>2, LevelModelsAre
  <2>4. Members(L[j]) = {}
    BY <2>1, <2>3, LevelMembers
  <2> QED
    BY <2>4 DEF j
<1> HIDE DEF S
<1>3. Nat \subseteq S
  BY <1>1, <1>2, NumbersByInduction
<1>4. ASSUME NEW k \in n .. MaxSteps PROVE Members(L[k]) = {}
  <2>1. k - n \in Nat /\ n + (k - n) = k /\ k <= MaxSteps
    BY <1>0
  <2>2. k - n \in S
    BY <1>3, <2>1
  <2> QED
    BY <2>1, <2>2 DEF S
<1> QED
  BY <1>4

(* Once a level is empty, the lookup has found all that it will find. *)
LEMMA ReadFinds ==
    ASSUME RegistryTypeOK, NEW rs, rs \subseteq DOMAIN subscribed,
           NEW n \in 0 .. MaxSteps, Members(dependency_level(rs)[n]) = {}
    PROVE  dependency_read(rs) = FoundBefore(rs, n)
<1>0. MaxSteps \in Nat /\ n \in Nat
  BY ControllerAssumption
<1>1. dependency_read(rs)
        = {r \in DOMAIN subscribed :
             \E k \in 0 .. MaxSteps : \E m \in LevelModels(rs, k) : subscribed[r][m] > 0}
  BY DEF dependency_read, LevelModels, resource_get_names_by_component
<1>2. ASSUME NEW k \in 0 .. MaxSteps, LevelModels(rs, k) # {} PROVE k \in 0 .. n - 1
  <2>1. Members(dependency_level(rs)[k]) # {}
    BY <1>2, LevelModelsAre
  <2>2. k \notin n .. MaxSteps
    BY <2>1, EmptyAfterwards
  <2> QED
    BY <1>0, <2>2
<1>3. \A k \in 0 .. n - 1 : k \in 0 .. MaxSteps
  BY <1>0
<1> QED
  BY <1>1, <1>2, <1>3 DEF FoundBefore

(* A set that holds the models among the subscribers and is closed under   *)
(* the hooks holds the models of every level.                              *)
LEMMA LevelsInClosed ==
    ASSUME RegistryTypeOK, NEW rs, rs \subseteq DOMAIN subscribed, NEW S,
           \A r \in rs, m \in DOMAIN component :
              component[m].role = "model" /\ subscribed[r][m] > 0 => m \in S,
           \A m \in S, h \in DOMAIN component :
              component[h].role = "model" /\ m \in component[h].hook => h \in S
    PROVE  \A k \in 0 .. MaxSteps : LevelModels(rs, k) \subseteq S
<1> DEFINE T == {k \in Nat : k <= MaxSteps => LevelModels(rs, k) \subseteq S}
<1>0. MaxSteps \in Nat
  BY ControllerAssumption
<1>1. 0 \in T
  <2>1. Members(dependency_level(rs)[0]) = {n \in Names : \E r \in rs : subscribed[r][n] > 0}
    BY LevelValues, SubscribersMembers
  <2>2. LevelModels(rs, 0)
          = {n \in Members(dependency_level(rs)[0]) : component_is_given_role(n, "model")}
    BY <1>0, LevelModelsAre
  <2> QED
    BY <2>1, <2>2 DEF component_is_given_role, component_is_registered
<1>2. ASSUME NEW k \in Nat, k \in T PROVE k + 1 \in T
  <2> SUFFICES ASSUME k + 1 <= MaxSteps, NEW h \in LevelModels(rs, k + 1) PROVE h \in S
    BY DEF T
  <2>1. k + 1 \in 1 .. MaxSteps /\ k + 1 \in 0 .. MaxSteps /\ k + 1 - 1 = k /\ k <= MaxSteps
    BY <1>0
  <2>2. h \in Members(dependency_level(rs)[k + 1]) /\ component_is_given_role(h, "model")
    BY <2>1, LevelModelsAre
  <2>3. Members(dependency_level(rs)[k + 1])
          = {n \in Names : \E m \in LevelModels(rs, k) : n \in component_get_names_by_hook(m)}
    BY <2>1, LevelMembers
  <2>4. PICK m \in LevelModels(rs, k) : h \in component_get_names_by_hook(m)
    BY <2>2, <2>3
  <2>5. m \in S
    BY <1>2, <2>1, <2>4
  <2> QED
    BY <2>2, <2>4, <2>5 DEF component_get_names_by_hook, component_is_given_role,
                           component_is_registered
<1> HIDE DEF T
<1>3. Nat \subseteq T
  BY <1>1, <1>2, NumbersByInduction
<1> QED
  BY <1>0, <1>3 DEF T

(* The models of all levels are such a set, once the last level is empty. *)
LEMMA LevelsClosed ==
    ASSUME RegistryTypeOK, NEW rs, rs \subseteq DOMAIN subscribed,
           Members(dependency_level(rs)[MaxSteps]) = {}
    PROVE  /\ \A m \in AllModels(rs) : m \in DOMAIN component /\ component[m].role = "model"
           /\ \A r \in rs, m \in DOMAIN component :
                 component[m].role = "model" /\ subscribed[r][m] > 0 => m \in AllModels(rs)
           /\ \A m \in AllModels(rs), h \in DOMAIN component :
                 component[h].role = "model" /\ m \in component[h].hook => h \in AllModels(rs)
<1> DEFINE D == AllModels(rs)
<1> USE DEF AllModels
<1>0. MaxSteps \in Nat /\ DOMAIN component \subseteq Names
  BY ControllerAssumption DEF RegistryTypeOK
<1>1. \A k \in 0 .. MaxSteps : LevelModels(rs, k)
         = {n \in Members(dependency_level(rs)[k]) : component_is_given_role(n, "model")}
  BY LevelModelsAre
<1>2. \A m \in D : m \in DOMAIN component /\ component[m].role = "model"
  BY <1>1 DEF component_is_given_role, component_is_registered
<1>3. ASSUME NEW r \in rs, NEW m \in DOMAIN component,
             component[m].role = "model", subscribed[r][m] > 0
      PROVE  m \in D
  <2>1. Members(dependency_level(rs)[0]) = {n \in Names : \E q \in rs : subscribed[q][n] > 0}
    BY LevelValues, SubscribersMembers
  <2>2. m \in LevelModels(rs, 0)
    BY <1>0, <1>1, <1>3, <2>1 DEF component_is_given_role, component_is_registered
  <2>3. 0 \in 0 .. MaxSteps
    BY <1>0
  <2> QED
    BY <2>2, <2>3
<1>4. ASSUME NEW m \in D, NEW h \in DOMAIN component,
             component[h].role = "model", m \in component[h].hook
      PROVE  h \in D
  <2>1. PICK k \in 0 .. MaxSteps : m \in LevelModels(rs, k)
    OBVIOUS
  <2>2. k # MaxSteps
    BY <1>1, <2>1
  <2>3. k + 1 \in 1 .. MaxSteps /\ k + 1 \in 0 .. MaxSteps /\ k + 1 - 1 = k
    BY <1>0, <2>2
  <2>4. Members(dependency_level(rs)[k + 1])
          = {n \in Names : \E q \in LevelModels(rs, k) : n \in component_get_names_by_hook(q)}
    BY <2>3, LevelMembers
  <2>5. h \in Members(dependency_level(rs)[k + 1])
    BY <1>0, <1>4, <2>1, <2>4 DEF component_get_names_by_hook
  <2>6. h \in LevelModels(rs, k + 1)
    BY <1>1, <1>4, <2>3, <2>5 DEF component_is_given_role, component_is_registered
  <2> QED
    BY <2>3, <2>6
<1> QED
  BY <1>2, <1>3, <1>4

(* The models of all levels are the models that a write reaches. *)
LEMMA LevelsReach ==
    ASSUME RegistryTypeOK, NEW rs, rs \subseteq DOMAIN subscribed,
           Members(dependency_level(rs)[MaxSteps]) = {}
    PROVE  Reached(rs) = AllModels(rs)
<1> DEFINE D == AllModels(rs)
           models == {n \in DOMAIN component : component[n].role = "model"}
           closed == {S \in SUBSET models :
                        /\ \A r \in rs, m \in models : subscribed[r][m] > 0 => m \in S
                        /\ \A m \in S, h \in models : m \in component[h].hook => h \in S}
<1>1. Reached(rs) = {m \in models : \A S \in closed : m \in S}
  BY DEF Reached
<1>2. D \in closed
  <2>1. /\ \A m \in D : m \in DOMAIN component /\ component[m].role = "model"
        /\ \A r \in rs, m \in DOMAIN component :
              component[m].role = "model" /\ subscribed[r][m] > 0 => m \in D
        /\ \A m \in D, h \in DOMAIN component :
              component[h].role = "model" /\ m \in component[h].hook => h \in D
    BY LevelsClosed
  <2> QED
    BY <2>1
<1>3. ASSUME NEW S \in closed PROVE D \subseteq S
  <2>1. /\ \A r \in rs, m \in DOMAIN component :
              component[m].role = "model" /\ subscribed[r][m] > 0 => m \in S
        /\ \A m \in S, h \in DOMAIN component :
              component[h].role = "model" /\ m \in component[h].hook => h \in S
    OBVIOUS
  <2>2. \A k \in 0 .. MaxSteps : LevelModels(rs, k) \subseteq S
    BY <2>1, LevelsInClosed
  <2> QED
    BY <2>2 DEF AllModels
<1>4. D \subseteq models
  BY <1>2
<1> HIDE DEF D, closed, models
<1>5. Reached(rs) = D
  BY <1>1, <1>2, <1>3, <1>4
<1> QED
  BY <1>5 DEF D

(* The tables decide: whatever they hold, the lookup answers with the      *)
(* resources of the models that a write reaches.                           *)
LEMMA LookupRight == RegistryTypeOK => LookupIsClosure
<1> SUFFICES ASSUME RegistryTypeOK, NEW rs, rs \subseteq DOMAIN subscribed,
                    Members(dependency_level(rs)[MaxSteps]) = {}
             PROVE  dependency_read(rs) = {r \in DOMAIN subscribed :
                                             \E m \in Reached(rs) : subscribed[r][m] > 0}
  <2>1. \A t \in Topics : sanji_match_resource_list(t) \subseteq DOMAIN subscribed
    BY DEF sanji_match_resource_list
  <2> QED
    BY <2>1 DEF LookupIsClosure
<1>1. Reached(rs) = AllModels(rs)
  BY LevelsReach
<1> QED
  BY <1>1 DEF AllModels, dependency_read, LevelModels, resource_get_names_by_component

-----------------------------------------------------------------------------
(* The lookup beside the rest of the controller *)

(* The lookup changes nothing that the lock discipline is about. *)
LEMMA DependencyDiscipline == LockDiscipline /\ [DependencyNext]_vars => LockDiscipline'
<1> SUFFICES ASSUME LockDiscipline, [DependencyNext]_vars PROVE LockDiscipline'
  OBVIOUS
<1>1. CASE [Next]_vars
  BY <1>1, NextDiscipline
<1>2. ASSUME NEW t, lookup_resource_dependency_procedure(t) PROVE LockDiscipline'
  BY <1>2, IdleDiscipline DEF lookup_resource_dependency_procedure
<1>3. ASSUME NEW codes, lookup_resource_dependency_refuse(codes) PROVE LockDiscipline'
  BY <1>3, IdleDiscipline DEF lookup_resource_dependency_refuse
<1> QED
  BY <1>1, <1>2, <1>3 DEF DependencyNext

LEMMA DependencyDisciplineHolds == DependencySpec => []LockDiscipline
BY InitDiscipline, DependencyDiscipline, PTL DEF DependencySpec

(* The search loop of dependency_read computes the closure of the hooks:   *)
(* whatever has been registered and deregistered, and whenever a client    *)
(* asks, the answer is the resources of exactly the models that a write to *)
(* the topic reaches.                                                      *)
THEOREM LookupComputesClosure == DependencySpec => []LookupIsClosure
<1>1. LockDiscipline => LookupIsClosure
  BY LookupRight DEF LockDiscipline, TypeOK
<1> QED
  BY <1>1, DependencyDisciplineHolds, PTL

-----------------------------------------------------------------------------
(* The lookup and the search of routing_req *)

(* The levels before and after a step of the system, one by one. *)
Iterates(rs) ==
    /\ dependency_level(rs)[0] = sanji_get_subscribed_component(rs)
    /\ \A k \in 1 .. MaxSteps :
          dependency_level(rs)[k] = NextLevel(dependency_level(rs)[k - 1])

LEMMA IteratesNext == (\A rs : Iterates(rs))'
<1>1. \A rs : Iterates(rs)
  BY LevelValues DEF Iterates
<1> QED
  BY <1>1, PTL

(* The lookup looks at the same components as long as the tables stay. *)
LEMMA LevelsKept ==
    ASSUME UNCHANGED <<component, subscribed>>, NEW rs
    PROVE  \A k \in 0 .. MaxSteps : dependency_level(rs)'[k] = dependency_level(rs)[k]
<1> DEFINE L == dependency_level(rs)
           M == dependency_level(rs)'
           S == {k \in Nat : k <= MaxSteps => M[k] = L[k]}
<1>0. MaxSteps \in Nat
  BY ControllerAssumption
<1>1. /\ M[0] = sanji_get_subscribed_component(rs)'
      /\ \A k \in 1 .. MaxSteps : M[k] = NextLevel(L[k - 1])'
  BY IteratesNext DEF Iterates
<1>2. sanji_get_subscribed_component(rs)' = sanji_get_subscribed_component(rs)
  BY DEF sanji_get_subscribed_component
<1>3. ASSUME NEW k \in 1 .. MaxSteps
      PROVE  NextLevel(L[k - 1])' = NextLevel(M[k - 1])
  BY DEF NextLevel, Hooks, WithRole, component_is_given_role, component_is_registered,
         component_get_names_by_hook
<1>4. 0 \in S
  BY <1>1, <1>2, LevelValues
<1>5. ASSUME NEW k \in Nat, k \in S PROVE k + 1 \in S
  <2> SUFFICES ASSUME k + 1 <= MaxSteps PROVE M[k + 1] = L[k + 1]
    BY DEF S
  <2>1. k + 1 \in 1 .. MaxSteps /\ k + 1 - 1 = k /\ k <= MaxSteps
    BY <1>0
  <2>2. M[k + 1] = NextLevel(M[k])
    BY <1>1, <1>3, <2>1
  <2>3. L[k + 1] = NextLevel(L[k])
    BY <2>1, LevelValues
  <2>4. M[k] = L[k]
    BY <1>5, <2>1
  <2> QED
    BY <2>2, <2>3, <2>4
<1> HIDE DEF S
<1>6. Nat \subseteq S
  BY <1>4, <1>5, NumbersByInduction
<1> QED
  BY <1>0, <1>6 DEF S

(* And finds the same resources. *)
LEMMA FoundKept ==
    ASSUME UNCHANGED <<component, subscribed>>, NEW rs, NEW n \in Nat, n <= MaxSteps
    PROVE  FoundBefore(rs, n)' = FoundBefore(rs, n)
<1>1. ASSUME NEW k \in 0 .. n - 1 PROVE LevelModels(rs, k)' = LevelModels(rs, k)
  <2>1. dependency_level(rs)'[k] = dependency_level(rs)[k]
    BY LevelsKept, ControllerAssumption
  <2> QED
    BY <2>1 DEF LevelModels, WithRole, Members, component_is_given_role, component_is_registered
<1> QED
  BY <1>1 DEF FoundBefore

(* While routing_req searches for a write, it is where the lookup would be *)
(* after as many iterations, and has found what the lookup would have.     *)
SearchAgrees ==
    routing.busy /\ routing.write =>
        /\ routing.resource_list \subseteq DOMAIN subscribed
        /\ Len(routing.chain) \in 0 .. MaxSteps
        /\ routing.level = dependency_level(routing.resource_list)[Len(routing.chain)]
        /\ routing.dependency = FoundBefore(routing.resource_list, Len(routing.chain))

(* The search begins like the lookup. *)
LEMMA ReqAgrees ==
    ASSUME NEW id, NEW write, NEW tunnel, NEW t, routing_req(id, write, tunnel, t)
    PROVE  SearchAgrees'
<1> DEFINE rs == sanji_match_resource_list(t)
<1>1. UNCHANGED <<component, subscribed>> /\ ~ routing.busy
  BY DEF routing_req, registryVars
<1>2. CASE routing' = routing
  BY <1>1, <1>2 DEF SearchAgrees
<1>3. CASE /\ routing'.resource_list = rs /\ routing'.chain = << >> /\ routing'.dependency = {}
           /\ routing'.level = sanji_get_subscribed_component(rs)
  <2>1. rs \subseteq DOMAIN subscribed
    BY DEF sanji_match_resource_list
  <2>2. PICK q : q = rs
    OBVIOUS
  <2> HIDE DEF rs
  <2>3. Len(<< >>) = 0 /\ 0 \in 0 .. MaxSteps
    BY ControllerAssumption
  <2>4. dependency_level(q)'[0] = sanji_get_subscribed_component(q)
    BY <1>1, <2>3, LevelsKept, LevelValues
  <2>5. FoundBefore(q, 0)' = {}
    BY DEF FoundBefore
  <2> QED
    BY <1>1, <1>3, <2>1, <2>2, <2>3, <2>4, <2>5 DEF SearchAgrees
<1> QED
  BY <1>2, <1>3 DEF routing_req

(* An iteration of one is an iteration of the other. *)
LEMMA LevelAgrees ==
    ASSUME LockDiscipline, SearchAgrees, routing_req_level
    PROVE  SearchAgrees'
<1> DEFINE models == WithRole(routing.level, "model")
           step == NewStep(models)
           chain == Append(routing.chain, step)
           dep == IF routing.write
                  THEN routing.dependency \cup
                         UNION {resource_get_names_by_component(m) : m \in Members(models)}
                  ELSE routing.dependency
           all_views == [n \in Names |-> routing.views[n] + WithRole(routing.level, "view")[n]]
           level == IF routing.write THEN Hooks(models) ELSE EmptyBag
<1>1. /\ UNCHANGED <<component, subscribed>> /\ routing.busy
      /\ Len(routing.chain) < MaxSteps
  BY DEF routing_req_level, registryVars
<1>2. routing \in Locals /\ RegistryTypeOK
  BY <1>1 DEF LockDiscipline, TypeOK, Idle
<1>3. CASE routing' = Idle
  BY <1>3 DEF SearchAgrees, Idle
<1>4. CASE routing' = [routing EXCEPT !.chain = chain, !.dependency = dep,
                                      !.views = all_views, !.level = level]
  <2>1. /\ routing.level \in Bag /\ routing.chain \in Seq(ChainStep)
        /\ routing.resource_list \in SUBSET Resources
    BY <1>2 DEF Locals
  <2>2. models \in Bag /\ Members(models) \subseteq DOMAIN component
    BY <2>1, WithRoleType DEF component_is_given_role, component_is_registered
  <2>3. step \in ChainStep
    <3> HIDE DEF models
    <3> QED
      BY <1>2, <2>2, NewStepType
  <2> HIDE DEF step
  <2>4. Len(chain) = Len(routing.chain) + 1 /\ Len(routing.chain) \in Nat
    BY <2>1, <2>3, AppendProperties, LenProperties
  <2> HIDE DEF chain, dep, all_views, level
  <2>5. /\ routing'.resource_list = routing.resource_list /\ routing'.write = routing.write
        /\ routing'.chain = chain /\ routing'.dependency = dep /\ routing'.level = level
    BY <1>2, <1>4 DEF Locals
  <2>6. CASE ~ routing.write
    BY <2>5, <2>6 DEF SearchAgrees
  <2>7. CASE routing.write
    <3>1. PICK rs, n : rs = routing.resource_list /\ n = Len(routing.chain)
      OBVIOUS
    <3>2. /\ rs \subseteq DOMAIN subscribed /\ routing.level = dependency_level(rs)[n]
          /\ routing.dependency = FoundBefore(rs, n)
      BY <1>1, <2>7, <3>1 DEF SearchAgrees
    <3>3. n + 1 \in 1 .. MaxSteps /\ n + 1 \in 0 .. MaxSteps /\ n + 1 - 1 = n /\ n \in Nat
      BY <1>1, <2>4, <3>1, ControllerAssumption
    <3>4. level = dependency_level(rs)[n + 1]
      BY <2>7, <3>2, <3>3, LevelValues DEF level, NextLevel
    <3>5. dep = FoundBefore(rs, n + 1)
      <4>1. Members(models) = LevelModels(rs, n)
        BY <3>2 DEF LevelModels
      <4>2. dep = FoundBefore(rs, n) \cup
                    {r \in DOMAIN subscribed : \E m \in LevelModels(rs, n) : subscribed[r][m] > 0}
        BY <2>7, <3>2, <4>1 DEF dep, resource_get_names_by_component
      <4>3. 0 .. n = (0 .. n - 1) \cup {n}
        BY <3>3
      <4> QED
        BY <3>3, <4>2, <4>3 DEF FoundBefore
    <3>6. dependency_level(rs)'[n + 1] = level /\ FoundBefore(rs, n + 1)' = dep
      BY <1>1, <3>3, <3>4, <3>5, LevelsKept, FoundKept
    <3>7. Len(routing'.chain) = n + 1 /\ routing'.resource_list = rs
      BY <2>4, <2>5, <3>1
    <3> QED
      BY <1>1, <2>5, <3>2, <3>3, <3>6, <3>7 DEF SearchAgrees
  <2> QED
    BY <2>6, <2>7
<1> QED
  BY <1>3, <1>4 DEF routing_req_level

(* Nothing changes the tables under the search. *)
LEMMA AgreesStep ==
    ASSUME LockDiscipline, SearchAgrees, [DependencyNext]_vars
    PROVE  SearchAgrees'
<1>1. CASE routing' = routing /\ ~ routing.busy
  BY <1>1 DEF SearchAgrees
<1>2. CASE routing' = Idle
  BY <1>2 DEF SearchAgrees, Idle
<1>3. CASE UNCHANGED vars
  <2>1. CASE routing.busy /\ routing.write
    <3>1. PICK rs, n : rs = routing.resource_list /\ n = Len(routing.chain)
      OBVIOUS
    <3>2. n \in 0 .. MaxSteps /\ routing' = routing /\ UNCHANGED <<component, subscribed>>
      BY <1>3, <2>1, <3>1 DEF SearchAgrees, vars, registryVars
    <3>3. /\ dependency_level(rs)'[n] = dependency_level(rs)[n]
          /\ FoundBefore(rs, n)' = FoundBefore(rs, n)
      BY <3>2, LevelsKept, FoundKept, ControllerAssumption
    <3> QED
      BY <2>1, <3>1, <3>2, <3>3 DEF SearchAgrees
  <2>2. CASE ~ (routing.busy /\ routing.write)
    BY <1>3, <2>2 DEF SearchAgrees, vars
  <2> QED
    BY <2>1, <2>2
<1>4. CASE routing_req_level
  BY <1>4, LevelAgrees
<1>5. CASE routing_req_finish
  BY <1>2, <1>5 DEF routing_req_finish
<1>6. CASE routing_req_spins
  BY <1>3, <1>6 DEF routing_req_spins
<1>7. ASSUME NEW id, NEW write, NEW tunnel, NEW t, routing_req(id, write, tunnel, t)
      PROVE  SearchAgrees'
  BY <1>7, ReqAgrees
<1>8. ASSUME NEW id, NEW code, routing_res(id, code) PROVE SearchAgrees'
  BY <1>1, <1>8 DEF routing_res
<1>9. ASSUME NEW d, session_decref_ttl(d) PROVE SearchAgrees'
  BY <1>1, <1>9 DEF session_decref_ttl
<1>10. ASSUME NEW t, routing_event(t) \/ lookup_resource_dependency_procedure(t)
       PROVE  SearchAgrees'
  BY <1>1, <1>10 DEF routing_event, lookup_resource_dependency_procedure
<1>11. ASSUME NEW reg, register_procedure_create(reg) PROVE SearchAgrees'
  BY <1>1, <1>11 DEF register_procedure_create
<1>12. ASSUME NEW n, register_procedure_delete(n) PROVE SearchAgrees'
  BY <1>1, <1>12 DEF register_procedure_delete
<1>13. CASE register_procedure_refuse \/ sanji_connect_callback
  BY <1>1, <1>13 DEF register_procedure_refuse, sanji_connect_callback
<1>14. ASSUME NEW codes, lookup_resource_dependency_refuse(codes) PROVE SearchAgrees'
  BY <1>1, <1>14 DEF lookup_resource_dependency_refuse
<1> QED
  BY <1>3, <1>4, <1>5, <1>6, <1>7, <1>8, <1>9, <1>10, <1>11, <1>12, <1>13, <1>14
     DEF DependencyNext, Next

(* The resources that one step locks. *)
Admitted == {i \in DOMAIN sessions' \ DOMAIN sessions : sessions'[i].write}

AsAnnounced ==
    resource_lock' \ resource_lock =
        IF Admitted = {} THEN {} ELSE dependency_read(routing.resource_list)

(* A write is admitted when its last level is empty: by then the lookup    *)
(* has found all that it will find.                                        *)
LEMMA FinishAnnounced ==
    ASSUME LockDiscipline, SearchAgrees, routing_req_finish
    PROVE  AsAnnounced
<1>1. routing.busy /\ Members(routing.level) = {} /\ RegistryTypeOK
  BY DEF routing_req_finish, LockDiscipline, TypeOK
<1>2. CASE sessions' = sessions /\ resource_lock' \subseteq resource_lock
  BY <1>2 DEF AsAnnounced, Admitted
<1>3. CASE /\ ~ (routing.write /\ session_node_lock_fails)
           /\ sessions' = [i \in DOMAIN sessions \cup {routing.id} |->
                 IF i = routing.id THEN NextStep(session_create_node) ELSE sessions[i]]
           /\ IF routing.write THEN session_node_lock_by_step ELSE UNCHANGED registryVars
  <2> DEFINE s == NextStep(session_create_node)
  <2>1. s.write = routing.write
    BY DEF NextStep, session_create_node
  <2>2. routing.id \notin DOMAIN sessions
    BY <1>1 DEF LockDiscipline, RoutingSound
  <2> HIDE DEF s
  <2>3. /\ DOMAIN sessions' = DOMAIN sessions \cup {routing.id}
        /\ sessions'[routing.id] = s
    BY <1>3 DEF s
  <2>4. CASE ~ routing.write
    <3>1. Admitted = {}
      BY <2>1, <2>2, <2>3, <2>4 DEF Admitted
    <3> QED
      BY <1>3, <2>4, <3>1 DEF AsAnnounced, registryVars
  <2>5. CASE routing.write
    <3>1. Admitted # {}
      BY <2>1, <2>2, <2>3, <2>5 DEF Admitted
    <3>2. resource_lock' \ resource_lock = routing.dependency
      BY <1>3, <2>5 DEF session_node_lock_by_step, session_node_lock_fails
    <3>3. PICK rs, n : rs = routing.resource_list /\ n = Len(routing.chain)
      OBVIOUS
    <3>4. /\ rs \subseteq DOMAIN subscribed /\ n \in 0 .. MaxSteps
          /\ Members(dependency_level(rs)[n]) = {} /\ routing.dependency = FoundBefore(rs, n)
      BY <1>1, <2>5, <3>3 DEF SearchAgrees
    <3>5. dependency_read(rs) = routing.dependency
      BY <1>1, <3>4, ReadFinds
    <3> QED
      BY <3>1, <3>2, <3>3, <3>5 DEF AsAnnounced
  <2> QED
    BY <2>4, <2>5
<1> QED
  BY <1>2, <1>3 DEF routing_req_finish, session_lock_rollback, registryVars

(* Nothing else locks a resource or admits a request. *)
LEMMA AnnouncedStep ==
    ASSUME LockDiscipline, SearchAgrees, [DependencyNext]_vars
    PROVE  AsAnnounced
<1>1. CASE DOMAIN sessions' \subseteq DOMAIN sessions /\ resource_lock' \subseteq resource_lock
  <2>1. Admitted = {}
    BY <1>1 DEF Admitted
  <2> QED
    BY <1>1, <2>1 DEF AsAnnounced
<1>2. ASSUME NEW ends, NEW code, session_step_stop(ends, code)
      PROVE  resource_lock' \subseteq resource_lock
  BY <1>2 DEF session_step_stop, session_node_unlock_by_step
<1>3. ASSUME NEW id, NEW code, routing_res(id, code) PROVE AsAnnounced
  <2>1. DOMAIN sessions' \subseteq DOMAIN sessions
    BY <1>3 DEF routing_res, session_step_update
  <2>2. resource_lock' \subseteq resource_lock
    BY <1>2, <1>3 DEF routing_res, session_step_update, registryVars
  <2> QED
    BY <1>1, <2>1, <2>2
<1>4. ASSUME NEW d, session_decref_ttl(d) PROVE AsAnnounced
  <2>1. DOMAIN sessions' \subseteq DOMAIN sessions
    BY <1>4 DEF session_decref_ttl
  <2>2. resource_lock' \subseteq resource_lock
    BY <1>2, <1>4 DEF session_decref_ttl
  <2> QED
    BY <1>1, <2>1, <2>2
<1>5. CASE routing_req_finish
  BY <1>5, FinishAnnounced
<1>6. ASSUME NEW id, NEW write, NEW tunnel, NEW t, routing_req(id, write, tunnel, t)
      PROVE  AsAnnounced
  BY <1>1, <1>6 DEF routing_req, registryVars
<1>7. ASSUME NEW reg, register_procedure_create(reg) PROVE AsAnnounced
  BY <1>1, <1>7 DEF register_procedure_create, register_create, registryVars
<1>8. ASSUME NEW n, register_procedure_delete(n) PROVE AsAnnounced
  BY <1>1, <1>8 DEF register_procedure_delete, register_delete, registryVars
<1>9. ASSUME NEW t, routing_event(t) \/ lookup_resource_dependency_procedure(t)
      PROVE  AsAnnounced
  BY <1>1, <1>9 DEF routing_event, lookup_resource_dependency_procedure, registryVars
<1>10. CASE \/ routing_req_level \/ routing_req_spins \/ register_procedure_refuse
            \/ sanji_connect_callback \/ UNCHANGED vars
  BY <1>1, <1>10 DEF routing_req_level, routing_req_spins, register_procedure_refuse,
                     sanji_connect_callback, connect_builtins, vars, registryVars
<1>11. ASSUME NEW codes, lookup_resource_dependency_refuse(codes) PROVE AsAnnounced
  BY <1>1, <1>11 DEF lookup_resource_dependency_refuse, registryVars
<1> QED
  BY <1>3, <1>4, <1>5, <1>6, <1>7, <1>8, <1>9, <1>10, <1>11
     DEF DependencyNext, Next

(* The two searches of the code agree: a write that is admitted locks      *)
(* exactly the resources that the lookup announces for its topic at that   *)
(* moment, however deep the hooks and whatever else is locked, and no      *)
(* other step locks a resource.                                            *)
THEOREM LocksAreAnnounced == DependencySpec => LocksAsAnnounced
<1>1. Init => SearchAgrees
  BY DEF Init, Idle, SearchAgrees
<1>2. LockDiscipline /\ SearchAgrees /\ [DependencyNext]_vars => SearchAgrees'
  BY AgreesStep
<1>3. LockDiscipline /\ SearchAgrees /\ [DependencyNext]_vars =>
         [LET admitted == {i \in DOMAIN sessions' \ DOMAIN sessions : sessions'[i].write}
          IN  resource_lock' \ resource_lock =
                 IF admitted = {} THEN {}
                 ELSE dependency_read(routing.resource_list)]_vars
  BY AnnouncedStep DEF AsAnnounced, Admitted
<1> QED
  BY <1>1, <1>2, <1>3, DependencyDisciplineHolds, PTL DEF DependencySpec, LocksAsAnnounced

-----------------------------------------------------------------------------
(* How long the two searches run *)

RegisteredModels == {n \in DOMAIN component : component[n].role = "model"}

(* Models each of which hooks the one before. *)
HookPath(f, n) ==
    /\ f \in [1 .. n -> RegisteredModels]
    /\ \A k \in 1 .. n - 1 : f[k] \in component[f[k + 1]].hook

(* To a model of the k-th level leads a path of k + 1 models. *)
LEMMA PathExists ==
    ASSUME RegistryTypeOK, NEW rs, rs \subseteq DOMAIN subscribed
    PROVE  \A k \in 0 .. MaxSteps : \A m \in LevelModels(rs, k) :
              \E f : HookPath(f, k + 1) /\ f[k + 1] = m
<1> DEFINE Leads(k) == \A m \in LevelModels(rs, k) : \E f : HookPath(f, k + 1) /\ f[k + 1] = m
           S == {k \in Nat : k <= MaxSteps => Leads(k)}
<1>0. MaxSteps \in Nat
  BY ControllerAssumption
<1>1. \A k \in 0 .. MaxSteps : LevelModels(rs, k) \subseteq RegisteredModels
  BY LevelModelsAre DEF RegisteredModels, component_is_given_role, component_is_registered
<1>2. 0 \in S
  <2> SUFFICES ASSUME NEW m \in LevelModels(rs, 0)
               PROVE  \E f : HookPath(f, 0 + 1) /\ f[0 + 1] = m
    OBVIOUS
  <2> DEFINE f == [k \in 1 .. 1 |-> m]
  <2>1. m \in RegisteredModels
    BY <1>0, <1>1
  <2>2. f \in [1 .. 1 -> RegisteredModels] /\ f[1] = m /\ 0 + 1 = 1
    BY <2>1
  <2>3. \A k \in 1 .. 1 - 1 : FALSE
    OBVIOUS
  <2> HIDE DEF f
  <2>4. HookPath(f, 1)
    BY <2>2, <2>3 DEF HookPath
  <2> QED
    BY <2>2, <2>4
<1>3. ASSUME NEW k \in Nat, k \in S PROVE k + 1 \in S
  <2> SUFFICES ASSUME k + 1 <= MaxSteps, NEW h \in LevelModels(rs, k + 1)
               PROVE  \E g : HookPath(g, k + 1 + 1) /\ g[k + 1 + 1] = h
    OBVIOUS
  <2>1. PICK n : n = k + 1
    OBVIOUS
  <2>2. n \in 1 .. MaxSteps /\ n \in 0 .. MaxSteps /\ n - 1 = k /\ k <= MaxSteps /\ n \in Nat
    BY <1>0, <2>1
  <2>3. h \in Members(dependency_level(rs)[n]) /\ h \in RegisteredModels
    BY <1>1, <2>1, <2>2, LevelModelsAre
  <2>4. PICK m \in LevelModels(rs, k) : h \in component_get_names_by_hook(m)
    <3>1. Members(dependency_level(rs)[n])
            = {x \in Names : \E m \in LevelModels(rs, n - 1) : x \in component_get_names_by_hook(m)}
      BY <2>2, LevelMembers
    <3> QED
      BY <2>2, <2>3, <3>1
  <2>5. PICK f : HookPath(f, n) /\ f[n] = m
    <3>1. Leads(k)
      BY <1>3, <2>2
    <3> QED
      BY <2>1, <3>1
  <2>6. m \in component[h].hook
    BY <2>4 DEF component_get_names_by_hook
  <2> DEFINE g == [j \in 1 .. n + 1 |-> IF j = n + 1 THEN h ELSE f[j]]
  <2>7. f \in [1 .. n -> RegisteredModels] /\ \A j \in 1 .. n - 1 : f[j] \in component[f[j + 1]].hook
    BY <2>5 DEF HookPath
  <2>8. /\ \A j \in 1 .. n + 1 : j # n + 1 => j \in 1 .. n
        /\ n + 1 \in 1 .. n + 1 /\ n + 1 - 1 = n
    BY <2>2
  <2>9. g \in [1 .. n + 1 -> RegisteredModels]
    BY <2>3, <2>7, <2>8
  <2>10. g[n + 1] = h /\ \A j \in 1 .. n : g[j] = f[j]
    <3>1. \A j \in 1 .. n : j \in 1 .. n + 1 /\ j # n + 1
      BY <2>2
    <3> QED
      BY <2>8, <3>1
  <2> HIDE DEF g
  <2>11. ASSUME NEW j \in 1 .. n PROVE g[j] \in component[g[j + 1]].hook
    <3>1. CASE j = n
      BY <2>5, <2>6, <2>10, <3>1
    <3>2. CASE j # n
      <4>1. j \in 1 .. n - 1 /\ j + 1 \in 1 .. n
        BY <2>2, <3>2
      <4> QED
        BY <2>7, <2>10, <4>1
    <3> QED
      BY <3>1, <3>2
  <2>12. HookPath(g, n + 1)
    BY <2>8, <2>9, <2>11 DEF HookPath
  <2> QED
    BY <2>1, <2>10, <2>12
<1> HIDE DEF Leads
<1>4. Nat \subseteq S
  <2> HIDE DEF S
  <2> QED
    BY <1>2, <1>3, NumbersByInduction
<1>5. \A k \in 0 .. MaxSteps : Leads(k)
  BY <1>0, <1>4
<1> QED
  BY <1>5 DEF Leads

(* Unless there is a cycle, a path never comes back to a model, and is no  *)
(* longer than there are models.                                           *)
LEMMA PathBounded ==
    ASSUME RegistryTypeOK, HooksAcyclic, NEW n \in Nat, NEW f, HookPath(f, n)
    PROVE  n <= Cardinality(RegisteredModels)
<1>1. /\ f \in [1 .. n -> RegisteredModels]
      /\ \A k \in 1 .. n - 1 : f[k] \in component[f[k + 1]].hook
  BY DEF HookPath
<1>2. ASSUME NEW a \in 1 .. n, NEW b \in 1 .. n, a < b, f[a] = f[b] PROVE FALSE
  <2> DEFINE S == {f[c] : c \in a .. b - 1}
  <2>1. \A c \in a .. b - 1 : c \in 1 .. n - 1 /\ c \in 1 .. n /\ c + 1 \in 1 .. n
    OBVIOUS
  <2>2. S \in SUBSET RegisteredModels
    BY <1>1, <2>1
  <2>3. ASSUME NEW c \in a .. b - 1 PROVE \E h \in S : f[c] \in component[h].hook
    <3>1. f[c] \in component[f[c + 1]].hook
      BY <1>1, <2>1
    <3>2. CASE c + 1 \in a .. b - 1
      BY <3>1, <3>2
    <3>3. CASE c + 1 = b
      <4>1. a \in a .. b - 1
        BY <1>2
      <4>2. f[c + 1] \in S
        BY <1>2, <3>3, <4>1
      <4> QED
        BY <3>1, <4>2
    <3>4. c + 1 \in a .. b - 1 \/ c + 1 = b
      OBVIOUS
    <3> QED
      BY <3>2, <3>3, <3>4
  <2>4. \A m \in S : \E h \in S : m \in component[h].hook
    BY <2>3
  <2>5. f[a] \in S
    <3>1. a \in a .. b - 1
      BY <1>2
    <3> QED
      BY <3>1
  <2> HIDE DEF S
  <2>6. S = {}
    BY <2>2, <2>4 DEF HooksAcyclic, RegisteredModels
  <2> QED
    BY <2>5, <2>6
<1>3. \A a, b \in 1 .. n : f[a] = f[b] => a = b
  <2>1. \A a, b \in 1 .. n : a = b \/ a < b \/ b < a
    OBVIOUS
  <2> QED
    BY <1>2, <2>1
<1>4. IsFiniteSet(RegisteredModels)
  BY FS_Subset, RegistryAssumption DEF RegisteredModels, RegistryTypeOK
<1>5. f \in Injection(1 .. n, RegisteredModels)
  BY <1>1, <1>3 DEF Injection, IsInjective
<1>6. Cardinality(1 .. n) <= Cardinality(RegisteredModels)
  BY <1>4, <1>5, FS_Injection
<1>7. Cardinality(1 .. n) = n
  BY FS_Interval
<1> QED
  BY <1>6, <1>7

(* So the levels are empty after as many iterations. *)
LEMMA LevelsBounded ==
    ASSUME RegistryTypeOK, HooksAcyclic, NEW rs, rs \subseteq DOMAIN subscribed,
           NEW k \in 0 .. MaxSteps, Members(dependency_level(rs)[k]) # {}
    PROVE  k <= Cardinality(RegisteredModels)
<1>0. MaxSteps \in Nat /\ Cardinality(RegisteredModels) \in Nat
  <2>1. IsFiniteSet(RegisteredModels)
    BY FS_Subset, RegistryAssumption DEF RegisteredModels, RegistryTypeOK
  <2> QED
    BY <2>1, FS_CardinalityType, ControllerAssumption
<1>1. CASE k = 0
  BY <1>0, <1>1
<1>2. CASE k # 0
  <2>1. k \in 1 .. MaxSteps /\ k - 1 \in 0 .. MaxSteps /\ k - 1 + 1 = k /\ k \in Nat
    BY <1>0, <1>2
  <2>2. PICK m : m \in LevelModels(rs, k - 1)
    BY <2>1, LevelMembers
  <2>3. PICK f : HookPath(f, k - 1 + 1)
    BY <2>1, <2>2, PathExists
  <2>4. HookPath(f, k)
    BY <2>1, <2>3
  <2> QED
    BY <2>1, <2>4, PathBounded
<1> QED
  BY <1>1, <1>2

(* The search for a read follows no hooks. *)
ReadsOneLevel ==
    routing.busy /\ ~ routing.write => routing.chain = << >> \/ Members(routing.level) = {}

LEMMA ReadsStep ==
    ASSUME LockDiscipline, ReadsOneLevel, [DependencyNext]_vars
    PROVE  ReadsOneLevel'
<1>1. CASE routing' = routing
  BY <1>1 DEF ReadsOneLevel, Members
<1>2. CASE routing' = Idle
  BY <1>2 DEF ReadsOneLevel, Idle
<1>3. ASSUME NEW id, NEW write, NEW tunnel, NEW t, routing_req(id, write, tunnel, t)
      PROVE  ReadsOneLevel'
  <2>1. routing' = routing \/ routing'.chain = << >>
    BY <1>3 DEF routing_req
  <2> QED
    BY <1>1, <2>1 DEF ReadsOneLevel
<1>4. CASE routing_req_level
  <2>1. routing \in Locals
    BY <1>4 DEF routing_req_level, LockDiscipline, TypeOK, Idle
  <2>2. \/ routing' = Idle
        \/ routing'.write = routing.write /\ (~ routing.write => routing'.level = EmptyBag)
    BY <1>4, <2>1 DEF routing_req_level, Locals
  <2>3. Members(EmptyBag) = {}
    BY DEF Members, EmptyBag
  <2> QED
    BY <1>2, <2>2, <2>3 DEF ReadsOneLevel, Members
<1>5. CASE routing_req_finish
  BY <1>2, <1>5 DEF routing_req_finish
<1>6. CASE routing_req_spins \/ UNCHANGED vars
  BY <1>1, <1>6 DEF routing_req_spins, vars
<1>7. ASSUME NEW id, NEW code, routing_res(id, code) PROVE ReadsOneLevel'
  BY <1>1, <1>7 DEF routing_res
<1>8. ASSUME NEW d, session_decref_ttl(d) PROVE ReadsOneLevel'
  BY <1>1, <1>8 DEF session_decref_ttl
<1>9. ASSUME NEW t, routing_event(t) \/ lookup_resource_dependency_procedure(t)
      PROVE  ReadsOneLevel'
  BY <1>1, <1>9 DEF routing_event, lookup_resource_dependency_procedure
<1>10. ASSUME NEW reg, register_procedure_create(reg) PROVE ReadsOneLevel'
  BY <1>1, <1>10 DEF register_procedure_create
<1>11. ASSUME NEW n, register_procedure_delete(n) PROVE ReadsOneLevel'
  BY <1>1, <1>11 DEF register_procedure_delete
<1>12. CASE register_procedure_refuse \/ sanji_connect_callback
  BY <1>1, <1>12 DEF register_procedure_refuse, sanji_connect_callback
<1>13. ASSUME NEW codes, lookup_resource_dependency_refuse(codes) PROVE ReadsOneLevel'
  BY <1>1, <1>13 DEF lookup_resource_dependency_refuse
<1> QED
  BY <1>3, <1>4, <1>5, <1>6, <1>7, <1>8, <1>9, <1>10, <1>11, <1>12, <1>13
     DEF DependencyNext, Next

(* Unless models hook each other in a cycle, routing_req has found its     *)
(* last step after as many iterations as there are registered models, for  *)
(* every table and every request: what HandlerReturns needs besides        *)
(* fairness.  It follows that routing_req_spins, the only trace that the   *)
(* bound MaxSteps leaves in the model, is never enabled without a cycle if *)
(* MaxSteps exceeds the number of models.                                  *)
THEOREM SearchEnds ==
    DependencySpec =>
        [](routing.busy /\ HooksAcyclic /\ Members(routing.level) # {} =>
              Len(routing.chain) <= Cardinality(RegisteredModels))
<1> DEFINE Ends == routing.busy /\ HooksAcyclic /\ Members(routing.level) # {} =>
                      Len(routing.chain) <= Cardinality(RegisteredModels)
<1>1. Init => SearchAgrees /\ ReadsOneLevel
  BY DEF Init, Idle, SearchAgrees, ReadsOneLevel
<1>2. LockDiscipline /\ SearchAgrees /\ [DependencyNext]_vars => SearchAgrees'
  BY AgreesStep
<1>3. LockDiscipline /\ ReadsOneLevel /\ [DependencyNext]_vars => ReadsOneLevel'
  BY ReadsStep
<1>4. LockDiscipline /\ SearchAgrees /\ ReadsOneLevel => Ends
  <2> SUFFICES ASSUME LockDiscipline, SearchAgrees, ReadsOneLevel,
                      routing.busy, HooksAcyclic, Members(routing.level) # {}
               PROVE  Len(routing.chain) <= Cardinality(RegisteredModels)
    OBVIOUS
  <2>1. RegistryTypeOK
    BY DEF LockDiscipline, TypeOK
  <2>2. CASE routing.write
    <3>1. PICK rs, n : rs = routing.resource_list /\ n = Len(routing.chain)
      OBVIOUS
    <3>2. /\ rs \subseteq DOMAIN subscribed /\ n \in 0 .. MaxSteps
          /\ Members(dependency_level(rs)[n]) # {}
      BY <2>2, <3>1 DEF SearchAgrees
    <3>3. n <= Cardinality(RegisteredModels)
      BY <2>1, <3>2, LevelsBounded
    <3> QED
      BY <3>1, <3>3
  <2>3. CASE ~ routing.write
    <3>1. Len(routing.chain) = 0
      BY <2>3 DEF ReadsOneLevel
    <3>2. Cardinality(RegisteredModels) \in Nat
      <4>1. IsFiniteSet(RegisteredModels)
        BY <2>1, FS_Subset, RegistryAssumption DEF RegisteredModels, RegistryTypeOK
      <4> QED
        BY <4>1, FS_CardinalityType
    <3> QED
      BY <3>1, <3>2
  <2> QED
    BY <2>2, <2>3
<1> HIDE DEF Ends
<1>5. DependencySpec => []Ends
  BY <1>1, <1>2, <1>3, <1>4, DependencyDisciplineHolds, PTL DEF DependencySpec
<1> QED
  BY <1>5 DEF Ends

(* The lookup ends, with the right answer. *)
LookupAnswers(rs) ==
    /\ Members(dependency_level(rs)[MaxSteps]) = {}
    /\ dependency_read(rs) = {r \in DOMAIN subscribed :
                                \E m \in Reached(rs) : subscribed[r][m] > 0}

(* The same holds of the loop of dependency_read: without a cycle of hooks *)
(* the lookup answers every client, and with the resources of exactly the  *)
(* models that a write reaches.                                            *)
THEOREM LookupEnds ==
    ASSUME MaxSteps > Cardinality(Names)
    PROVE  DependencySpec =>
              [](HooksAcyclic =>
                    \A t \in Topics : LookupAnswers(sanji_match_resource_list(t)))
<1> DEFINE All == HooksAcyclic =>
                     \A t \in Topics : LookupAnswers(sanji_match_resource_list(t))
<1>1. LockDiscipline => All
  <2> SUFFICES ASSUME LockDiscipline, HooksAcyclic, NEW t \in Topics
               PROVE  LookupAnswers(sanji_match_resource_list(t))
    OBVIOUS
  <2>1. PICK rs : rs = sanji_match_resource_list(t)
    OBVIOUS
  <2>2. RegistryTypeOK /\ rs \subseteq DOMAIN subscribed
    BY <2>1 DEF LockDiscipline, TypeOK, sanji_match_resource_list
  <2>3. Members(dependency_level(rs)[MaxSteps]) = {}
    <3>1. RegisteredModels \in SUBSET Names
      BY <2>2 DEF RegisteredModels, RegistryTypeOK
    <3>2. Cardinality(RegisteredModels) <= Cardinality(Names)
      BY <3>1, FS_Subset, RegistryAssumption
    <3>3. /\ Cardinality(Names) \in Nat /\ Cardinality(RegisteredModels) \in Nat
          /\ MaxSteps \in Nat
      BY <3>1, FS_Subset, FS_CardinalityType, RegistryAssumption, ControllerAssumption
    <3>4. ~ (MaxSteps <= Cardinality(RegisteredModels)) /\ MaxSteps \in 0 .. MaxSteps
      BY <3>2, <3>3
    <3> QED
      BY <2>2, <3>4, LevelsBounded
  <2>4. dependency_read(rs) = {r \in DOMAIN subscribed :
                                 \E m \in Reached(rs) : subscribed[r][m] > 0}
    BY <2>1, <2>2, <2>3, LookupRight DEF LookupIsClosure
  <2> QED
    BY <2>1, <2>3, <2>4 DEF LookupAnswers
<1> HIDE DEF All
<1>2. DependencySpec => []All
  BY <1>1, DependencyDisciplineHolds, PTL
<1> QED
  BY <1>2 DEF All
=============================================================================
