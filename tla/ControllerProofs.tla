-------------------------- MODULE ControllerProofs --------------------------
(***************************************************************************)
(* The controller, for every set of names, resources, registrations,       *)
(* topics and request ids: first the lock discipline, then the life of a   *)
(* session from its first step to its answer - the locks of its models,    *)
(* which make the controller a LockService, the responses that it still    *)
(* waits for, its time, what stands in the subscriber lists that it is     *)
(* routed by, the answer at its end, and the locks on its dependencies     *)
(* until then.                                                             *)
(***************************************************************************)
EXTENDS Controller, FiniteSetTheorems, FunctionTheorems, SequenceTheorems, TLAPS

-----------------------------------------------------------------------------
(* Bags *)

(* The entries of a bag, of a subscriber list or of the hooks of a step    *)
(* form a finite set.                                                      *)
LEMMA EntriesFinite ==
    ASSUME NEW S, IsFiniteSet(S), NEW f, \A x \in S : f[x] \in Nat
    PROVE  IsFiniteSet(UNION {{x} \X (1 .. f[x]) : x \in S})
<1> DEFINE T == {{x} \X (1 .. f[x]) : x \in S}
           g == [x \in S |-> {x} \X (1 .. f[x])]
<1>1. g \in Surjection(S, T)
  <2>1. g \in [S -> T]
    OBVIOUS
  <2>2. \A t \in T : \E x \in S : g[x] = t
    OBVIOUS
  <2> QED
    BY <2>1, <2>2 DEF Surjection
<1>2. IsFiniteSet(T)
  <2> HIDE DEF T, g
  <2> QED
    BY <1>1, FS_Surjection
<1>3. \A t \in T : IsFiniteSet(t)
  <2> SUFFICES ASSUME NEW x \in S
               PROVE  IsFiniteSet({x} \X (1 .. f[x]))
    OBVIOUS
  <2>1. IsFiniteSet({x})
    BY FS_Singleton
  <2>2. IsFiniteSet(1 .. f[x])
    BY FS_Interval
  <2> QED
    BY <2>1, <2>2, FS_Product
<1> QED
  BY <1>2, <1>3, FS_UNION

(* Counting them gives a natural number. *)
LEMMA EntriesCounted ==
    ASSUME NEW S, IsFiniteSet(S), NEW f, \A x \in S : f[x] \in Nat
    PROVE  Cardinality(UNION {{x} \X (1 .. f[x]) : x \in S}) \in Nat
BY EntriesFinite, FS_CardinalityType

(* The number of entries of a list (curr_wait starts from it) is a number. *)
LEMMA SizeType ==
    ASSUME NEW b \in Bag
    PROVE  Size(b) \in Nat
BY EntriesCounted, RegistryAssumption DEF Bag, Size

(* The empty list is a list, without members. *)
LEMMA EmptyBagType == EmptyBag \in Bag /\ Members(EmptyBag) = {}
BY DEF EmptyBag, Bag, Members

(* Filtering a list by role (routing_req) keeps entries of that role only. *)
LEMMA WithRoleType ==
    ASSUME NEW b \in Bag, NEW role
    PROVE  /\ WithRole(b, role) \in Bag
           /\ \A n \in Members(WithRole(b, role)) : component_is_given_role(n, role)
BY DEF WithRole, Bag, Members

(* The subscribers of the matched resources form a list. *)
LEMMA SubscribersType ==
    ASSUME RegistryTypeOK, NEW rs, rs \subseteq DOMAIN subscribed
    PROVE  sanji_get_subscribed_component(rs) \in Bag
<1>1. IsFiniteSet(rs)
  BY FS_Subset, RegistryAssumption DEF RegistryTypeOK
<1> SUFFICES ASSUME NEW n \in Names
             PROVE  Cardinality(UNION {{r} \X (1 .. subscribed[r][n]) : r \in rs}) \in Nat
  BY DEF sanji_get_subscribed_component, Bag
<1> DEFINE f == [r \in rs |-> subscribed[r][n]]
<1>2. \A r \in rs : f[r] \in Nat
  BY DEF RegistryTypeOK, Bag
<1>3. Cardinality(UNION {{r} \X (1 .. f[r]) : r \in rs}) \in Nat
  <2> HIDE DEF f
  <2> QED
    BY <1>1, <1>2, EntriesCounted
<1>4. {{r} \X (1 .. f[r]) : r \in rs} = {{r} \X (1 .. subscribed[r][n]) : r \in rs}
  OBVIOUS
<1> QED
  BY <1>3, <1>4

(* The hook components that routing_req collects for the next level form a *)
(* list.                                                                   *)
LEMMA HooksType ==
    ASSUME NEW b \in Bag
    PROVE  Hooks(b) \in Bag
<1> SUFFICES ASSUME NEW h \in Names
             PROVE  Cardinality(UNION {{m} \X (1 .. b[m]) :
                      m \in {k \in Names : h \in component_get_names_by_hook(k)}}) \in Nat
  BY DEF Hooks, Bag
<1> DEFINE S == {k \in Names : h \in component_get_names_by_hook(k)}
<1>1. IsFiniteSet(S)
  BY FS_Subset, RegistryAssumption
<1>2. \A m \in S : b[m] \in Nat
  BY DEF Bag
<1> HIDE DEF S
<1>3. Cardinality(UNION {{m} \X (1 .. b[m]) : m \in S}) \in Nat
  BY <1>1, <1>2, EntriesCounted
<1> QED
  BY <1>3 DEF S

(* There are entries exactly if one of the lists has some. *)
LEMMA EntriesSome ==
    ASSUME NEW S, IsFiniteSet(S), NEW f, \A x \in S : f[x] \in Nat
    PROVE  Cardinality(UNION {{x} \X (1 .. f[x]) : x \in S}) > 0
             <=> \E x \in S : f[x] > 0
<1> DEFINE E == UNION {{x} \X (1 .. f[x]) : x \in S}
<1>1. IsFiniteSet(E) /\ Cardinality(E) \in Nat
  BY EntriesFinite, EntriesCounted
<1>2. E # {} <=> \E x \in S : f[x] > 0
  <2>1. ASSUME NEW x \in S, f[x] > 0 PROVE E # {}
    <3>1. <<x, 1>> \in {x} \X (1 .. f[x])
      BY <2>1
    <3> QED
      BY <3>1
  <2>2. ASSUME E # {} PROVE \E x \in S : f[x] > 0
    <3>1. PICK x \in S : (1 .. f[x]) # {}
      BY <2>2
    <3> QED
      BY <3>1
  <2> QED
    BY <2>1, <2>2
<1> HIDE DEF E
<1>3. Cardinality(E) = 0 <=> E = {}
  BY <1>1, FS_EmptySet
<1>4. Cardinality(E) > 0 <=> \E x \in S : f[x] > 0
  BY <1>1, <1>2, <1>3
<1> QED
  BY <1>4 DEF E

(* A topic finds the components that subscribe to one of its resources. *)
LEMMA SubscribersMembers ==
    ASSUME RegistryTypeOK, NEW rs, rs \subseteq DOMAIN subscribed
    PROVE  Members(sanji_get_subscribed_component(rs))
             = {n \in Names : \E r \in rs : subscribed[r][n] > 0}
<1>1. IsFiniteSet(rs)
  BY FS_Subset, RegistryAssumption DEF RegistryTypeOK
<1>2. ASSUME NEW n \in Names
      PROVE  sanji_get_subscribed_component(rs)[n] > 0 <=> \E r \in rs : subscribed[r][n] > 0
  <2> DEFINE f == [r \in rs |-> subscribed[r][n]]
  <2>1. \A r \in rs : f[r] \in Nat
    BY DEF RegistryTypeOK, Bag
  <2>2. {{r} \X (1 .. f[r]) : r \in rs} = {{r} \X (1 .. subscribed[r][n]) : r \in rs}
    OBVIOUS
  <2>3. \A r \in rs : f[r] = subscribed[r][n]
    OBVIOUS
  <2> HIDE DEF f
  <2>4. Cardinality(UNION {{r} \X (1 .. f[r]) : r \in rs}) > 0 <=> \E r \in rs : f[r] > 0
    BY <1>1, <2>1, EntriesSome
  <2>5. sanji_get_subscribed_component(rs)[n]
          = Cardinality(UNION {{r} \X (1 .. f[r]) : r \in rs})
    BY <2>2 DEF sanji_get_subscribed_component
  <2> QED
    BY <2>3, <2>4, <2>5
<1> QED
  BY <1>2 DEF Members

(* The next level is made of the components that hook a model of this one. *)
LEMMA HooksMembers ==
    ASSUME NEW b \in Bag
    PROVE  Members(Hooks(b))
             = {h \in Names : \E m \in Members(b) : h \in component_get_names_by_hook(m)}
<1>1. ASSUME NEW h \in Names
      PROVE  Hooks(b)[h] > 0 <=> \E m \in Members(b) : h \in component_get_names_by_hook(m)
  <2> DEFINE S == {k \in Names : h \in component_get_names_by_hook(k)}
  <2>1. IsFiniteSet(S)
    BY FS_Subset, RegistryAssumption
  <2>2. \A m \in S : b[m] \in Nat
    BY DEF Bag
  <2>3. (\E m \in S : b[m] > 0)
          <=> \E m \in Members(b) : h \in component_get_names_by_hook(m)
    BY DEF Members
  <2>4. Hooks(b)[h] = Cardinality(UNION {{m} \X (1 .. b[m]) : m \in S})
    BY DEF Hooks
  <2> HIDE DEF S
  <2>5. Cardinality(UNION {{m} \X (1 .. b[m]) : m \in S}) > 0 <=> \E m \in S : b[m] > 0
    BY <2>1, <2>2, EntriesSome
  <2> QED
    BY <2>3, <2>4, <2>5
<1> QED
  BY <1>1 DEF Members

-----------------------------------------------------------------------------
(* Chains and sessions *)

(* The step that routing_req records for a level is a step of a chain with *)
(* the models of the level.                                                *)
LEMMA NewStepType ==
    ASSUME RegistryTypeOK, NEW models \in Bag, Members(models) \subseteq DOMAIN component
    PROVE  NewStep(models) \in ChainStep /\ NewStep(models).models = models
BY DEF NewStep, ChainStep, Bag, Members, RegistryTypeOK, Component

(* Recording a level adds exactly its models to the models of the chain. *)
LEMMA ChainModelsAppend ==
    ASSUME NEW chain \in Seq(ChainStep), NEW s \in ChainStep
    PROVE  /\ Append(chain, s) \in Seq(ChainStep)
           /\ Append(chain, s) # << >>
           /\ ChainModels(Append(chain, s)) = ChainModels(chain) \cup Members(s.models)
<1> DEFINE c == Append(chain, s)
<1>1. /\ c \in Seq(ChainStep) /\ c # << >> /\ Len(c) = Len(chain) + 1
      /\ \A i \in 1 .. Len(chain) : c[i] = chain[i]
      /\ c[Len(chain) + 1] = s
  BY AppendProperties
<1>2. DOMAIN c = DOMAIN chain \cup {Len(chain) + 1} /\ DOMAIN chain = 1 .. Len(chain)
  <2> HIDE DEF c
  <2>1. Len(chain) \in Nat /\ DOMAIN chain = 1 .. Len(chain)
    BY LenProperties
  <2>2. DOMAIN c = 1 .. Len(c)
    BY <1>1, LenProperties
  <2> QED
    BY <1>1, <2>1, <2>2
<1> HIDE DEF c
<1>3. ChainModels(c) = ChainModels(chain) \cup Members(s.models)
  BY <1>1, <1>2 DEF ChainModels
<1> QED
  BY <1>1, <1>3 DEF c

(* session_step moves a session that is not at its last step to a step     *)
(* that exists, and changes nothing that its locks depend on.              *)
LEMMA NextStepType ==
    ASSUME NEW s \in Session, s.step < Len(s.chain)
    PROVE  /\ NextStep(s) \in Session
           /\ NextStep(s).step = s.step + 1
           /\ NextStep(s).write = s.write
           /\ NextStep(s).chain = s.chain
           /\ NextStep(s).dependency = s.dependency
           /\ NextStep(s).wait = Size(s.chain[s.step + 1].models)
<1>0. s.chain \in Seq(ChainStep) /\ s.step \in Nat
  BY DEF Session
<1>1. s.step + 1 \in 1 .. Len(s.chain)
  BY <1>0, LenProperties
<1>2. s.chain[s.step + 1] \in ChainStep
  BY <1>0, <1>1, ElementOfSeq
<1> DEFINE w == session_node_update_wait(s, s.step + 1)
<1>3. w \in Nat
  BY <1>2, SizeType DEF ChainStep, session_node_update_wait
<1>4. NextStep(s) = [s EXCEPT !.step = s.step + 1, !.wait = w]
  BY DEF NextStep
<1> HIDE DEF w
<1>5. [s EXCEPT !.step = s.step + 1] \in Session
  BY <1>0 DEF Session
<1>6. NextStep(s) \in Session
  BY <1>3, <1>4, <1>5 DEF Session
<1>7. NextStep(s).step = s.step + 1
  BY <1>4 DEF Session
<1>8. NextStep(s).write = s.write
  BY <1>4 DEF Session
<1>9. NextStep(s).chain = s.chain /\ NextStep(s).dependency = s.dependency
  BY <1>4 DEF Session
<1>10. NextStep(s).wait = Size(s.chain[s.step + 1].models)
  BY <1>4 DEF Session, w, session_node_update_wait
<1> QED
  BY <1>6, <1>7, <1>8, <1>9, <1>10

(* The passing of time changes the ttls of a session and nothing that its  *)
(* locks depend on.                                                        *)
LEMMA AgedType ==
    ASSUME NEW s \in Session, s.step \in 1 .. Len(s.chain), NEW d \in Nat
    PROVE  /\ Aged(s, d) \in Session
           /\ Aged(s, d).step \in 1 .. Len(Aged(s, d).chain)
           /\ Aged(s, d).write = s.write
           /\ Aged(s, d).dependency = s.dependency
           /\ ChainModels(Aged(s, d).chain) = ChainModels(s.chain)
           /\ Aged(s, d).step = s.step /\ Aged(s, d).wait = s.wait
           /\ DOMAIN Aged(s, d).chain = DOMAIN s.chain
           /\ \A j \in DOMAIN s.chain : Aged(s, d).chain[j].models = s.chain[j].models
<1> DEFINE old == s.chain[s.step]
           e == [old EXCEPT !.ttls =
                   [n \in Names |-> IF old.models[n] > 0 THEN old.ttls[n] - d
                                    ELSE old.ttls[n]]]
           c == [s.chain EXCEPT ![s.step] = e]
<1>1. s.chain \in Seq(ChainStep)
  BY DEF Session
<1>2. old \in ChainStep
  BY <1>1, ElementOfSeq
<1>3. e \in ChainStep /\ e.models = old.models
  BY <1>2 DEF ChainStep, Bag
<1>4. /\ c \in Seq(ChainStep) /\ Len(c) = Len(s.chain)
      /\ \A j \in 1 .. Len(s.chain) : c[j] = IF j = s.step THEN e ELSE s.chain[j]
  <2> HIDE DEF e
  <2> QED
    BY <1>1, <1>3, ExceptSeq
<1>5. Aged(s, d) = [s EXCEPT !.chain = c]
  BY <1>1 DEF Aged, Session
<1>6. DOMAIN c = 1 .. Len(s.chain) /\ DOMAIN s.chain = 1 .. Len(s.chain)
  BY <1>1, <1>4, LenProperties
<1>7. \A j \in 1 .. Len(s.chain) : c[j].models = s.chain[j].models
  BY <1>3, <1>4
<1> HIDE DEF c
<1>8. ChainModels(c) = ChainModels(s.chain)
  BY <1>6, <1>7 DEF ChainModels
<1>9. Aged(s, d).chain = c /\ Aged(s, d).step = s.step /\ Aged(s, d).wait = s.wait
  BY <1>5 DEF Session
<1> QED
  BY <1>4, <1>5, <1>6, <1>7, <1>8, <1>9 DEF Session

-----------------------------------------------------------------------------
(* Steps that only change or end sessions *)

(* The sessions in ends go and release all that their writes hold; the     *)
(* others keep their locks, dependencies and models.                       *)
LEMMA KeepDiscipline ==
    ASSUME LockDiscipline,
           NEW ends \in SUBSET DOMAIN sessions,
           NEW res, res = UNION {sessions[i].dependency : i \in ends \cap Writers},
           NEW mod, mod = UNION {ChainModels(sessions[i].chain) : i \in ends \cap Writers},
           component' = component, subscribed' = subscribed,
           resource_lock' = resource_lock \ res,
           component_lock' = component_lock \ mod,
           ~ routing.busy, routing' = routing,
           DOMAIN sessions' = DOMAIN sessions \ ends,
           sessions' \in [DOMAIN sessions' -> Session],
           \A i \in DOMAIN sessions' :
              /\ sessions'[i].step \in 1 .. Len(sessions'[i].chain)
              /\ sessions'[i].write = sessions[i].write
              /\ sessions'[i].dependency = sessions[i].dependency
              /\ ChainModels(sessions'[i].chain) = ChainModels(sessions[i].chain)
    PROVE  LockDiscipline'
<1> USE DEF LockDiscipline
<1>1. Writers' = Writers \ ends
  BY DEF Writers
<1>2. TypeOK'
  BY DEF TypeOK, RegistryTypeOK
<1>3. ResourcesSubscribed'
  BY DEF ResourcesSubscribed, Members
<1>4. RoutingSound'
  BY DEF RoutingSound
<1>5. ASSUME NEW w \in Writers', NEW m \in ChainModels(sessions'[w].chain)
      PROVE  m \notin mod
  <2>1. w \in Writers /\ w \notin ends /\ m \in ChainModels(sessions[w].chain)
    BY <1>1 DEF Writers
  <2>2. \A i \in ends \cap Writers : m \notin ChainModels(sessions[i].chain)
    BY <2>1 DEF ModelExclusion
  <2> QED
    BY <2>2
<1>6. WritersPinned'
  BY <1>1, <1>5 DEF WritersPinned, component_is_given_role, component_is_registered, Writers
<1>7. DependencyBacked'
  BY <1>1 DEF DependencyBacked, resource_get_names_by_component, Writers
<1>8. ModelExclusion'
  BY <1>1 DEF ModelExclusion, Writers
<1>9. NoLockLeak'
  <2>1. ASSUME NEW m \in component_lock'
        PROVE  \E w \in Writers' : m \in ChainModels(sessions'[w].chain)
    BY <2>1, <1>1 DEF NoLockLeak, Writers
  <2>2. ASSUME NEW r \in resource_lock'
        PROVE  \E w \in Writers' : r \in sessions'[w].dependency
    BY <2>2, <1>1 DEF NoLockLeak, Writers
  <2> QED
    BY <2>1, <2>2 DEF NoLockLeak
<1> QED
  BY <1>2, <1>3, <1>4, <1>6, <1>7, <1>8, <1>9

(* The unlock of sessions that end clears exactly the flags of the writes  *)
(* among them: nothing they hold was deregistered meanwhile, so it never   *)
(* returns early.                                                          *)
LEMMA EndUnlocks ==
    ASSUME LockDiscipline,
           NEW ends \in SUBSET DOMAIN sessions,
           session_node_unlock_by_step(ends)
    PROVE  /\ component' = component /\ subscribed' = subscribed
           /\ resource_lock' = resource_lock \
                 UNION {sessions[i].dependency : i \in ends \cap Writers}
           /\ component_lock' = component_lock \
                 UNION {ChainModels(sessions[i].chain) : i \in ends \cap Writers}
<1> DEFINE writers == {i \in ends : sessions[i].write}
           res == UNION {sessions[i].dependency : i \in writers}
           mod == UNION {ChainModels(sessions[i].chain) : i \in writers}
           models(i) == ChainModels(sessions[i].chain)
           stuck == {i \in writers : ~ sessions[i].dependency \subseteq DOMAIN subscribed}
           half == {i \in writers \ stuck : ~ models(i) \subseteq DOMAIN component}
<1>1. writers = ends \cap Writers
  BY DEF Writers
<1>2. res \subseteq DOMAIN subscribed
  BY <1>1 DEF LockDiscipline, WritersPinned
<1>3. mod \subseteq DOMAIN component
  BY <1>1 DEF LockDiscipline, WritersPinned, component_is_given_role, component_is_registered
<1>4. stuck = {} /\ half = {}
  BY <1>2, <1>3
<1>5. PICK some \in SUBSET UNION {sessions[i].dependency : i \in stuck} :
        resource_lock' = resource_lock \
            (some \cup UNION {sessions[i].dependency : i \in writers \ stuck})
  BY DEF session_node_unlock_by_step
<1>6. PICK part \in SUBSET UNION {models(i) : i \in half} :
        component_lock' = component_lock \
            (part \cup UNION {models(i) : i \in writers \ (stuck \cup half)})
  BY DEF session_node_unlock_by_step
<1>7. component' = component /\ subscribed' = subscribed
  BY DEF session_node_unlock_by_step
<1>8. resource_lock' = resource_lock \ res
  BY <1>4, <1>5
<1>9. component_lock' = component_lock \ mod
  BY <1>4, <1>6
<1> QED
  BY <1>1, <1>7, <1>8, <1>9

(* Ending sessions (a response that fails or completes them, or their ttl) *)
(* keeps the lock discipline.                                              *)
LEMMA EndDiscipline ==
    ASSUME LockDiscipline,
           NEW ends \in SUBSET DOMAIN sessions,
           session_node_unlock_by_step(ends),
           ~ routing.busy, routing' = routing,
           DOMAIN sessions' = DOMAIN sessions \ ends,
           sessions' \in [DOMAIN sessions' -> Session],
           \A i \in DOMAIN sessions' :
              /\ sessions'[i].step \in 1 .. Len(sessions'[i].chain)
              /\ sessions'[i].write = sessions[i].write
              /\ sessions'[i].dependency = sessions[i].dependency
              /\ ChainModels(sessions'[i].chain) = ChainModels(sessions[i].chain)
    PROVE  LockDiscipline'
<1> DEFINE res == UNION {sessions[i].dependency : i \in ends \cap Writers}
           mod == UNION {ChainModels(sessions[i].chain) : i \in ends \cap Writers}
<1>1. /\ component' = component /\ subscribed' = subscribed
      /\ resource_lock' = resource_lock \ res
      /\ component_lock' = component_lock \ mod
  BY EndUnlocks
<1>2. /\ res = UNION {sessions[i].dependency : i \in ends \cap Writers}
      /\ mod = UNION {ChainModels(sessions[i].chain) : i \in ends \cap Writers}
  OBVIOUS
<1> HIDE DEF res, mod
<1> QED
  BY <1>1, <1>2, KeepDiscipline

(* routing_res keeps the lock discipline, whichever response it is given. *)
LEMMA ResDiscipline ==
    ASSUME LockDiscipline, NEW id \in Ids, NEW code, routing_res(id, code)
    PROVE  LockDiscipline'
<1> DEFINE s == sessions[id]
           wait == session_node_decref_wait(s)
<1>1. /\ ~ routing.busy /\ routing' = routing
      /\ \A i \in DOMAIN sessions :
            sessions[i] \in Session /\ sessions[i].step \in 1 .. Len(sessions[i].chain)
  BY DEF routing_res, session_step_update, LockDiscipline, TypeOK
<1>2. CASE id \notin DOMAIN sessions
  <2>1. UNCHANGED <<registryVars, sessions>>
    BY <1>2 DEF routing_res, session_step_update
  <2>2. DOMAIN sessions' = DOMAIN sessions \ {}
    BY <2>1
  <2>3. sessions' \in [DOMAIN sessions' -> Session]
    BY <2>1 DEF LockDiscipline, TypeOK
  <2>4. /\ component' = component /\ subscribed' = subscribed
        /\ resource_lock' = resource_lock \ {} /\ component_lock' = component_lock \ {}
    BY <2>1 DEF registryVars
  <2> QED
    BY <1>1, <2>1, <2>2, <2>3, <2>4, KeepDiscipline
<1>3. ASSUME id \in DOMAIN sessions,
             session_node_unlock_by_step({id}),
             sessions' = [i \in DOMAIN sessions \ {id} |-> sessions[i]]
      PROVE  LockDiscipline'
  BY <1>1, <1>3, EndDiscipline
<1>4. ASSUME id \in DOMAIN sessions, registryVars' = registryVars,
             NEW t \in Session, sessions' = [sessions EXCEPT ![id] = t],
             t.step \in 1 .. Len(t.chain), t.write = s.write,
             t.dependency = s.dependency, t.chain = s.chain
      PROVE  LockDiscipline'
  <2>1. /\ DOMAIN sessions' = DOMAIN sessions \ {}
        /\ sessions' \in [DOMAIN sessions' -> Session]
    BY <1>4 DEF LockDiscipline, TypeOK
  <2>2. \A i \in DOMAIN sessions' :
              /\ sessions'[i].step \in 1 .. Len(sessions'[i].chain)
              /\ sessions'[i].write = sessions[i].write
              /\ sessions'[i].dependency = sessions[i].dependency
              /\ ChainModels(sessions'[i].chain) = ChainModels(sessions[i].chain)
    BY <1>1, <1>4
  <2>3. /\ component' = component /\ subscribed' = subscribed
        /\ resource_lock' = resource_lock \ {} /\ component_lock' = component_lock \ {}
    BY <1>4 DEF registryVars
  <2> QED
    BY <1>1, <2>1, <2>2, <2>3, KeepDiscipline
<1>5. CASE id \in DOMAIN sessions /\ code # "OK"
  BY <1>3, <1>5 DEF routing_res, session_step_update, session_step_stop
<1>6. CASE id \in DOMAIN sessions /\ code = "OK" /\ wait = 0 /\ ~ s.step < Len(s.chain)
  BY <1>3, <1>6 DEF routing_res, session_step_update, session_step_stop
<1>7. CASE id \in DOMAIN sessions /\ code = "OK" /\ wait # 0
  <2> DEFINE t == [s EXCEPT !.wait = wait]
  <2>1. wait \in Nat
    BY <1>1, <1>7, ControllerAssumption DEF session_node_decref_wait, Session
  <2>2. sessions' = [sessions EXCEPT ![id] = t] /\ registryVars' = registryVars
    BY <1>7 DEF routing_res, session_step_update, LockDiscipline, TypeOK
  <2> HIDE DEF wait
  <2>3. /\ t \in Session /\ t.step = s.step /\ t.write = s.write
        /\ t.dependency = s.dependency /\ t.chain = s.chain
    BY <1>1, <1>7, <2>1 DEF Session
  <2> HIDE DEF t
  <2> QED
    BY <1>1, <1>4, <1>7, <2>2, <2>3
<1>8. CASE id \in DOMAIN sessions /\ code = "OK" /\ wait = 0 /\ s.step < Len(s.chain)
  <2>2. /\ s \in Session /\ s.step \in 1 .. Len(s.chain)
        /\ s.step \in Nat /\ Len(s.chain) \in Nat
    BY <1>1, <1>8, LenProperties DEF Session
  <2>1. /\ sessions' = [sessions EXCEPT ![id] = NextStep(s)]
        /\ registryVars' = registryVars
    BY <1>8, <2>2 DEF routing_res, session_step_update
  <2>3. /\ NextStep(s) \in Session /\ NextStep(s).write = s.write
        /\ NextStep(s).dependency = s.dependency /\ NextStep(s).chain = s.chain
        /\ NextStep(s).step = s.step + 1
    BY <1>8, <2>2, NextStepType
  <2>4. s.step + 1 \in 1 .. Len(s.chain)
    BY <1>8, <2>2, LenProperties DEF Session
  <2> HIDE DEF s
  <2> QED
    BY <1>4, <1>8, <2>1, <2>3, <2>4 DEF s
<1> QED
  BY <1>2, <1>5, <1>6, <1>7, <1>8

(* So does the passing of time. *)
LEMMA TtlDiscipline ==
    ASSUME LockDiscipline, NEW d \in Ticks, session_decref_ttl(d)
    PROVE  LockDiscipline'
<1> DEFINE expired == {i \in DOMAIN sessions : Expired(Aged(sessions[i], d))}
<1>1. /\ ~ routing.busy /\ routing' = routing
      /\ session_node_unlock_by_step(expired)
      /\ sessions' = [i \in DOMAIN sessions \ expired |-> Aged(sessions[i], d)]
  BY DEF session_decref_ttl, session_step_stop
<1>2. expired \in SUBSET DOMAIN sessions
  OBVIOUS
<1>3. d \in Nat
  BY ControllerAssumption
<1> HIDE DEF expired
<1>4. \A i \in DOMAIN sessions :
         /\ Aged(sessions[i], d) \in Session
         /\ Aged(sessions[i], d).step \in 1 .. Len(Aged(sessions[i], d).chain)
         /\ Aged(sessions[i], d).write = sessions[i].write
         /\ Aged(sessions[i], d).dependency = sessions[i].dependency
         /\ ChainModels(Aged(sessions[i], d).chain) = ChainModels(sessions[i].chain)
  <2> SUFFICES ASSUME NEW i \in DOMAIN sessions
               PROVE  /\ Aged(sessions[i], d) \in Session
                      /\ Aged(sessions[i], d).step \in 1 .. Len(Aged(sessions[i], d).chain)
                      /\ Aged(sessions[i], d).write = sessions[i].write
                      /\ Aged(sessions[i], d).dependency = sessions[i].dependency
                      /\ ChainModels(Aged(sessions[i], d).chain)
                           = ChainModels(sessions[i].chain)
    OBVIOUS
  <2>1. sessions[i] \in Session /\ sessions[i].step \in 1 .. Len(sessions[i].chain)
    BY DEF LockDiscipline, TypeOK
  <2> QED
    BY <2>1, <1>3, AgedType
<1>5. /\ DOMAIN sessions' = DOMAIN sessions \ expired
      /\ sessions' \in [DOMAIN sessions' -> Session]
      /\ \A i \in DOMAIN sessions' :
            /\ sessions'[i].step \in 1 .. Len(sessions'[i].chain)
            /\ sessions'[i].write = sessions[i].write
            /\ sessions'[i].dependency = sessions[i].dependency
            /\ ChainModels(sessions'[i].chain) = ChainModels(sessions[i].chain)
  BY <1>1, <1>4
<1> QED
  BY <1>1, <1>2, <1>5, EndDiscipline

-----------------------------------------------------------------------------
(* Steps that change the tables *)

(* A registration asks for a number of entries in every resource. *)
LEMMA AskedType ==
    ASSUME NEW gs \in SUBSET Registration, NEW r \in Resources, NEW n
    PROVE  Asked(gs, r, n) \in Nat
BY DEF Asked, Registration

(* Adding registrations of new names only adds entries to the tables. *)
LEMMA AddedNodes ==
    ASSUME RegistryTypeOK,
           NEW gs \in SUBSET (Registrations \cup Builtins),
           \A b, c \in gs : b.name = c.name => b = c,
           component_add_node(gs),
           resource_append_component_by_name(gs),
           \A g \in gs : g.name \notin DOMAIN component
    PROVE  /\ DOMAIN component \subseteq DOMAIN component'
           /\ DOMAIN component' \subseteq Names
           /\ component' \in [DOMAIN component' -> Component]
           /\ \A n \in DOMAIN component : component'[n] = component[n]
           /\ DOMAIN subscribed \subseteq DOMAIN subscribed'
           /\ DOMAIN subscribed' \subseteq Resources
           /\ subscribed' \in [DOMAIN subscribed' -> Bag]
           /\ \A r \in DOMAIN subscribed, n \in Names :
                 subscribed'[r][n] >= subscribed[r][n]
           /\ \A r \in DOMAIN subscribed' \ DOMAIN subscribed :
                 \E n \in Names : subscribed'[r][n] > 0
<1>0. gs \subseteq Registration
  BY RegistryAssumption
<1>1. DOMAIN component' = DOMAIN component \cup {g.name : g \in gs}
  BY DEF component_add_node
<1>2. DOMAIN component' \subseteq Names
  BY <1>0, <1>1 DEF Registration, RegistryTypeOK
<1>3. ASSUME NEW n \in DOMAIN component'
      PROVE  component'[n] \in Component /\ (n \in DOMAIN component => component'[n] = component[n])
  <2>1. CASE \E g \in gs : g.name = n
    <3> DEFINE g == CHOOSE g \in gs : g.name = n
    <3>1. g \in gs /\ g.name = n
      BY <2>1
    <3>2. component'[n] = [role |-> g.role, hook |-> g.hook, ttl |-> g.ttl]
      BY <1>3, <2>1 DEF component_add_node
    <3>3. g \in Registration
      BY <1>0, <3>1
    <3> HIDE DEF g
    <3> QED
      BY <3>1, <3>2, <3>3 DEF Registration, Component
  <2>2. CASE ~ \E g \in gs : g.name = n
    BY <1>3, <1>1, <2>2 DEF component_add_node, RegistryTypeOK
  <2> QED
    BY <2>1, <2>2
<1>4. component' \in [DOMAIN component' -> Component]
  BY <1>3 DEF component_add_node
<1>5. DOMAIN subscribed' = DOMAIN subscribed \cup UNION {Listed(g) : g \in gs}
  BY DEF resource_append_component_by_name
<1>6. DOMAIN subscribed' \subseteq Resources
  BY <1>5 DEF RegistryTypeOK, Listed
<1>7. ASSUME NEW r \in DOMAIN subscribed', NEW n \in Names
      PROVE  /\ subscribed'[r][n] \in Nat
             /\ r \in DOMAIN subscribed => subscribed'[r][n] >= subscribed[r][n]
             /\ r \notin DOMAIN subscribed => subscribed'[r][n] = Asked(gs, r, n)
  <2>1. Asked(gs, r, n) \in Nat
    BY <1>0, <1>6, <1>7, AskedType
  <2>2. subscribed'[r][n] = (IF r \in DOMAIN subscribed THEN subscribed[r][n] ELSE 0)
                            + (IF r \in resource_lock THEN 0 ELSE Asked(gs, r, n))
    BY <1>5, <1>7 DEF resource_append_component_by_name
  <2>3. r \in DOMAIN subscribed => subscribed[r][n] \in Nat
    BY <1>7 DEF RegistryTypeOK, Bag
  <2>4. r \notin DOMAIN subscribed => r \notin resource_lock
    BY DEF RegistryTypeOK
  <2> QED
    BY <2>1, <2>2, <2>3, <2>4
<1>8. subscribed' \in [DOMAIN subscribed' -> Bag]
  <2>1. \A r \in DOMAIN subscribed' : subscribed'[r] \in Bag
    BY <1>5, <1>7 DEF resource_append_component_by_name, Bag
  <2> QED
    BY <2>1 DEF resource_append_component_by_name
<1>9. ASSUME NEW r \in DOMAIN subscribed' \ DOMAIN subscribed
      PROVE  \E n \in Names : subscribed'[r][n] > 0
  <2>1. PICK g \in gs : r \in Listed(g)
    BY <1>5
  <2>2. g.name \in Names /\ g.resources[r] > 0
    BY <1>0, <2>1 DEF Registration, Listed
  <2>3. Asked(gs, r, g.name) = g.resources[r]
    BY DEF Asked
  <2> QED
    BY <1>7, <2>2, <2>3
<1> QED
  BY <1>1, <1>2, <1>3, <1>4, <1>5, <1>6, <1>7, <1>8, <1>9

(* Tables that only grow keep the lock discipline. *)
LEMMA GrowDiscipline ==
    ASSUME LockDiscipline, ~ routing.busy,
           UNCHANGED <<sessions, routing, component_lock, resource_lock>>,
           DOMAIN component \subseteq DOMAIN component',
           DOMAIN component' \subseteq Names,
           component' \in [DOMAIN component' -> Component],
           \A n \in DOMAIN component : component'[n] = component[n],
           DOMAIN subscribed \subseteq DOMAIN subscribed',
           DOMAIN subscribed' \subseteq Resources,
           subscribed' \in [DOMAIN subscribed' -> Bag],
           \A r \in DOMAIN subscribed, n \in Names :
              subscribed'[r][n] >= subscribed[r][n],
           \A r \in DOMAIN subscribed' \ DOMAIN subscribed :
              \E n \in Names : subscribed'[r][n] > 0
    PROVE  LockDiscipline'
<1> USE DEF LockDiscipline
<1>1. TypeOK'
  BY DEF TypeOK, RegistryTypeOK
<1>2. \A r \in DOMAIN subscribed, n \in Names :
         subscribed[r][n] > 0 => subscribed'[r][n] > 0
  <2> SUFFICES ASSUME NEW r \in DOMAIN subscribed, NEW n \in Names, subscribed[r][n] > 0
               PROVE  subscribed'[r][n] > 0
    OBVIOUS
  <2>1. subscribed[r][n] \in Nat /\ subscribed'[r][n] \in Nat
    BY DEF TypeOK, RegistryTypeOK, Bag
  <2> QED
    BY <2>1
<1>3. ResourcesSubscribed'
  BY <1>2 DEF ResourcesSubscribed, Members
<1>4. Writers' = Writers
  BY DEF Writers
<1>5. WritersPinned'
  BY <1>4 DEF WritersPinned, component_is_given_role, component_is_registered, Writers
<1>6. DependencyBacked'
  <2> SUFFICES ASSUME NEW w \in Writers, NEW r \in sessions[w].dependency
               PROVE  \E m \in ChainModels(sessions[w].chain) :
                         r \in DOMAIN subscribed' /\ subscribed'[r][m] > 0
    BY <1>4 DEF DependencyBacked, resource_get_names_by_component
  <2>1. PICK m \in ChainModels(sessions[w].chain) :
           r \in DOMAIN subscribed /\ subscribed[r][m] > 0
    BY DEF DependencyBacked, resource_get_names_by_component
  <2>2. m \in Names
    BY DEF ChainModels, Members
  <2> QED
    BY <1>2, <2>1, <2>2
<1>7. ModelExclusion' /\ NoLockLeak' /\ RoutingSound'
  BY <1>4 DEF ModelExclusion, NoLockLeak, RoutingSound
<1> QED
  BY <1>1, <1>3, <1>5, <1>6, <1>7

(* Steps that change neither the tables nor the sessions. *)
LEMMA IdleDiscipline ==
    ASSUME LockDiscipline, UNCHANGED <<registryVars, sessions, routing>>
    PROVE  LockDiscipline'
<1> USE DEF LockDiscipline, registryVars
<1>1. TypeOK' /\ ResourcesSubscribed'
  BY DEF TypeOK, RegistryTypeOK, ResourcesSubscribed
<1>2. RoutingSound'
  BY DEF RoutingSound, component_is_given_role, component_is_registered,
         resource_get_names_by_component
<1>3. Writers' = Writers
  BY DEF Writers
<1>4. WritersPinned' /\ DependencyBacked'
  BY <1>3 DEF WritersPinned, DependencyBacked, component_is_given_role,
              component_is_registered, resource_get_names_by_component
<1>5. ModelExclusion' /\ NoLockLeak'
  BY <1>3 DEF ModelExclusion, NoLockLeak
<1> QED
  BY <1>1, <1>2, <1>4, <1>5

(* Registration keeps the lock discipline. *)
LEMMA CreateDiscipline ==
    ASSUME LockDiscipline, NEW reg \in Registrations, register_procedure_create(reg)
    PROVE  LockDiscipline'
<1>1. ~ routing.busy /\ UNCHANGED <<sessions, routing>> /\ register_create(reg)
  BY DEF register_procedure_create
<1>2. CASE register_create_status(reg) = "OK"
  <2>1. /\ component_add_node({reg})
        /\ resource_append_component_by_name({reg})
        /\ UNCHANGED <<component_lock, resource_lock>>
    BY <1>1, <1>2 DEF register_create
  <2>2. reg.name \notin DOMAIN component
    BY <1>2 DEF register_create_status, component_is_registered
  <2>3. RegistryTypeOK
    BY DEF LockDiscipline, TypeOK
  <2>4. {reg} \in SUBSET (Registrations \cup Builtins)
    OBVIOUS
  <2> QED
    BY <1>1, <2>1, <2>2, <2>3, <2>4, AddedNodes, GrowDiscipline
<1>3. CASE register_create_status(reg) # "OK"
  BY <1>1, <1>3, IdleDiscipline DEF register_create
<1> QED
  BY <1>2, <1>3

(* So does a reconnection, although it does not look at the locks. *)
LEMMA ConnectDiscipline ==
    ASSUME LockDiscipline, sanji_connect_callback
    PROVE  LockDiscipline'
<1> DEFINE missing == {b \in Builtins : ~ component_is_registered(b.name)}
<1>1. /\ ~ routing.busy /\ UNCHANGED <<sessions, routing>>
      /\ component_add_node(missing)
      /\ resource_append_component_by_name(missing)
      /\ UNCHANGED <<component_lock, resource_lock>>
  BY DEF sanji_connect_callback, connect_builtins
<1>2. missing \in SUBSET (Registrations \cup Builtins)
  OBVIOUS
<1>3. \A b, c \in missing : b.name = c.name => b = c
  BY RegistryAssumption
<1>4. \A g \in missing : g.name \notin DOMAIN component
  BY DEF component_is_registered
<1>5. RegistryTypeOK
  BY DEF LockDiscipline, TypeOK
<1> HIDE DEF missing
<1> QED
  BY <1>1, <1>2, <1>3, <1>4, <1>5, AddedNodes, GrowDiscipline

(* Deregistration: the component is not locked and subscribes to no locked *)
(* resource, so it is not part of a write in flight, and every dependency  *)
(* keeps the subscriber that backs it.                                     *)
LEMMA DeleteDiscipline ==
    ASSUME LockDiscipline, NEW n \in Names, register_procedure_delete(n)
    PROVE  LockDiscipline'
<1>1. ~ routing.busy /\ UNCHANGED <<sessions, routing>> /\ register_delete(n)
  BY DEF register_procedure_delete
<1>2. CASE ~ (component_is_registered(n) /\ register_delete_status(n) = "OK")
  BY <1>1, <1>2, IdleDiscipline DEF register_delete
<1>3. CASE component_is_registered(n) /\ register_delete_status(n) = "OK"
  <2> USE DEF LockDiscipline
  <2>1. /\ component' = [m \in DOMAIN component \ {n} |-> component[m]]
        /\ subscribed' = [r \in {q \in DOMAIN subscribed :
                                   Members(OneLess(subscribed[q], n)) # {}} |->
                            OneLess(subscribed[r], n)]
        /\ component_lock' = component_lock /\ resource_lock' = resource_lock
    BY <1>1, <1>3 DEF register_delete, component_delete_first_name,
                      resource_remove_all_component_by_name
  <2>2. /\ n \notin component_lock
        /\ \A r \in resource_lock : ~ (r \in DOMAIN subscribed /\ subscribed[r][n] > 0)
    BY <1>3 DEF register_delete_status, resource_is_any_locked_by_component,
                resource_get_names_by_component
  <2>3. \A r \in DOMAIN subscribed : subscribed[r] \in Bag /\ OneLess(subscribed[r], n) \in Bag
    BY DEF TypeOK, RegistryTypeOK, Bag, OneLess
  <2>4. \A r \in DOMAIN subscribed, m \in Names :
           m # n /\ subscribed[r][m] > 0 =>
              r \in DOMAIN subscribed' /\ subscribed'[r][m] > 0
    BY <2>1 DEF OneLess, Members
  <2>5. resource_lock \subseteq DOMAIN subscribed'
    <3> SUFFICES ASSUME NEW r \in resource_lock
                 PROVE  r \in DOMAIN subscribed'
      OBVIOUS
    <3>1. r \in DOMAIN subscribed
      BY DEF TypeOK, RegistryTypeOK
    <3>2. PICK m \in Names : subscribed[r][m] > 0
      BY <3>1 DEF ResourcesSubscribed, Members
    <3> QED
      BY <2>2, <2>4, <3>1, <3>2
  <2>6. TypeOK'
    <3>1. RegistryTypeOK'
      BY <2>1, <2>2, <2>3, <2>5 DEF TypeOK, RegistryTypeOK
    <3> QED
      BY <1>1, <3>1 DEF TypeOK
  <2>7. ResourcesSubscribed'
    BY <2>1 DEF ResourcesSubscribed
  <2>8. Writers' = Writers
    BY <1>1 DEF Writers
  <2>9. \A w \in Writers : n \notin ChainModels(sessions[w].chain)
    BY <2>2 DEF WritersPinned
  <2>10. DependencyBacked'
    <3> SUFFICES ASSUME NEW w \in Writers, NEW r \in sessions[w].dependency
                 PROVE  \E m \in ChainModels(sessions[w].chain) :
                           r \in DOMAIN subscribed' /\ subscribed'[r][m] > 0
      BY <1>1, <2>8 DEF DependencyBacked, resource_get_names_by_component
    <3>1. PICK m \in ChainModels(sessions[w].chain) :
             r \in DOMAIN subscribed /\ subscribed[r][m] > 0
      BY DEF DependencyBacked, resource_get_names_by_component
    <3>2. m \in Names
      BY DEF ChainModels, Members
    <3> QED
      BY <2>4, <2>9, <3>1, <3>2
  <2>11. WritersPinned'
    <3> SUFFICES ASSUME NEW w \in Writers
                 PROVE  /\ \A m \in ChainModels(sessions[w].chain) :
                              /\ m \in DOMAIN component' /\ component'[m].role = "model"
                              /\ m \in component_lock
                        /\ sessions[w].dependency \subseteq DOMAIN subscribed'
      BY <1>1, <2>1, <2>8 DEF WritersPinned, component_is_given_role, component_is_registered
    <3>1. \A m \in ChainModels(sessions[w].chain) :
             /\ m \in DOMAIN component' /\ component'[m].role = "model"
             /\ m \in component_lock
      BY <2>1, <2>9 DEF WritersPinned, component_is_given_role, component_is_registered
    <3>2. sessions[w].dependency \subseteq DOMAIN subscribed'
      BY <1>1, <2>8, <2>10 DEF DependencyBacked, resource_get_names_by_component
    <3> QED
      BY <3>1, <3>2
  <2>12. ModelExclusion' /\ NoLockLeak' /\ RoutingSound'
    BY <1>1, <2>1, <2>8 DEF ModelExclusion, NoLockLeak, RoutingSound
  <2> QED
    BY <2>6, <2>7, <2>10, <2>11, <2>12
<1> QED
  BY <1>2, <1>3

-----------------------------------------------------------------------------
(* Routing a request *)

(* While the tables and the sessions stay as they are, only the local      *)
(* variables of routing_req are left to check.                             *)
LEMMA LocalDiscipline ==
    ASSUME LockDiscipline, UNCHANGED <<registryVars, sessions>>,
           routing' \in Locals \cup {Idle}, RoutingSound'
    PROVE  LockDiscipline'
<1> USE DEF LockDiscipline, registryVars
<1>1. TypeOK' /\ ResourcesSubscribed'
  BY DEF TypeOK, RegistryTypeOK, ResourcesSubscribed
<1>2. Writers' = Writers
  BY DEF Writers
<1>3. WritersPinned' /\ DependencyBacked'
  BY <1>2 DEF WritersPinned, DependencyBacked, component_is_given_role,
              component_is_registered, resource_get_names_by_component
<1>4. ModelExclusion' /\ NoLockLeak'
  BY <1>2 DEF ModelExclusion, NoLockLeak
<1> QED
  BY <1>1, <1>3, <1>4

(* routing_req up to its loop only sets its own local variables. *)
LEMMA ReqDiscipline ==
    ASSUME LockDiscipline, NEW id \in Ids, NEW write \in BOOLEAN,
           NEW tunnel \in BOOLEAN, NEW t \in Topics, routing_req(id, write, tunnel, t)
    PROVE  LockDiscipline'
<1> DEFINE rs == sanji_match_resource_list(t)
           status == routing_req_status(id, rs)
           level == sanji_get_subscribed_component(rs)
<1>1. UNCHANGED <<registryVars, sessions>>
  BY DEF routing_req
<1>2. CASE status # "OK"
  BY <1>1, <1>2, IdleDiscipline DEF routing_req
<1>3. CASE status = "OK"
  <2>1. rs \subseteq DOMAIN subscribed /\ rs \subseteq Resources
    BY DEF sanji_match_resource_list, LockDiscipline, TypeOK, RegistryTypeOK
  <2>2. level \in Bag
    BY <2>1, SubscribersType DEF LockDiscipline, TypeOK
  <2>3. id \notin DOMAIN sessions /\ Members(level) # {}
    BY <1>3 DEF routing_req_status
  <2>4. routing' = [busy |-> TRUE, id |-> id, write |-> write, tunnel |-> tunnel,
                    resource_list |-> rs, level |-> level, dependency |-> {},
                    chain |-> << >>, views |-> EmptyBag]
    BY <1>3 DEF routing_req
  <2> HIDE DEF rs, level
  <2>5. routing' \in Locals
    BY <2>1, <2>2, <2>4, EmptyBagType, EmptySeq DEF Locals
  <2>6. ChainModels(<< >>) = {}
    BY DEF ChainModels
  <2>7. RoutingSound'
    BY <1>1, <2>3, <2>4, <2>6 DEF RoutingSound
  <2> QED
    BY <1>1, <2>5, <2>7, LocalDiscipline
<1> QED
  BY <1>2, <1>3

(* One iteration of the search loop keeps the local variables sound: the   *)
(* models it records are registered and were seen unlocked, and every      *)
(* dependency it records has one of them as a subscriber.                  *)
LEMMA LevelDiscipline ==
    ASSUME LockDiscipline, routing_req_level
    PROVE  LockDiscipline'
<1> DEFINE models == WithRole(routing.level, "model")
           views == WithRole(routing.level, "view")
<1>1. /\ UNCHANGED <<registryVars, sessions>> /\ routing.busy
      /\ Members(routing.level) # {}
  BY DEF routing_req_level
<1>2. routing \in Locals
  BY <1>1 DEF LockDiscipline, TypeOK, Idle
<1>3. CASE component_any_locked(models)
  <2>1. routing' = Idle
    BY <1>3 DEF routing_req_level
  <2>2. RoutingSound'
    BY <2>1 DEF RoutingSound, Idle
  <2> QED
    BY <1>1, <2>1, <2>2, LocalDiscipline
<1>4. CASE ~ component_any_locked(models)
  <2> DEFINE step == NewStep(models)
             chain == Append(routing.chain, step)
             dep == IF routing.write
                    THEN routing.dependency \cup
                           UNION {resource_get_names_by_component(m) : m \in Members(models)}
                    ELSE routing.dependency
             all_views == [n \in Names |-> routing.views[n] + views[n]]
             level == IF routing.write THEN Hooks(models) ELSE EmptyBag
  <2>1. routing' = [routing EXCEPT !.chain = chain, !.dependency = dep,
                                   !.views = all_views, !.level = level]
    BY <1>4 DEF routing_req_level
  <2>2. /\ routing.level \in Bag /\ routing.views \in Bag
        /\ routing.chain \in Seq(ChainStep) /\ routing.dependency \in SUBSET Resources
    BY <1>2 DEF Locals
  <2>3. /\ models \in Bag /\ views \in Bag
        /\ \A m \in Members(models) : component_is_given_role(m, "model")
    BY <2>2, WithRoleType
  <2>4. RegistryTypeOK
    BY DEF LockDiscipline, TypeOK
  <2>5. Members(models) \subseteq DOMAIN component
    BY <2>3 DEF component_is_given_role, component_is_registered
  <2>6. \A m \in Members(models) : m \notin component_lock
    BY <1>4 DEF component_any_locked
  <2> HIDE DEF models, views
  <2>7. step \in ChainStep /\ step.models = models
    BY <2>3, <2>4, <2>5, NewStepType
  <2> HIDE DEF step
  <2>8. /\ chain \in Seq(ChainStep) /\ chain # << >>
        /\ ChainModels(chain) = ChainModels(routing.chain) \cup Members(models)
    BY <2>2, <2>7, ChainModelsAppend
  <2>9. dep \in SUBSET Resources
    BY <2>2, <2>4 DEF resource_get_names_by_component, RegistryTypeOK
  <2>10. all_views \in Bag
    BY <2>2, <2>3 DEF Bag
  <2>11. level \in Bag
    BY <2>3, HooksType, EmptyBagType
  <2>12. \A r \in dep : \E m \in ChainModels(chain) : r \in resource_get_names_by_component(m)
    BY <1>1, <2>8 DEF LockDiscipline, RoutingSound
  <2> HIDE DEF chain, dep, all_views, level
  <2>13. /\ routing' \in Locals
         /\ routing'.id = routing.id /\ routing'.chain = chain /\ routing'.dependency = dep
    BY <1>2, <2>1, <2>8, <2>9, <2>10, <2>11 DEF Locals
  <2>14. RoutingSound'
    <3>1. routing.id \notin DOMAIN sessions
      BY <1>1 DEF LockDiscipline, RoutingSound
    <3>2. \A m \in ChainModels(chain) :
             component_is_given_role(m, "model") /\ m \notin component_lock
      BY <1>1, <2>3, <2>6, <2>8 DEF LockDiscipline, RoutingSound
    <3> QED
      BY <1>1, <2>8, <2>12, <2>13, <3>1, <3>2
         DEF RoutingSound, registryVars, component_is_given_role,
             component_is_registered, resource_get_names_by_component
  <2> QED
    BY <1>1, <2>13, <2>14, LocalDiscipline
<1> QED
  BY <1>3, <1>4

(* The end of routing_req: refused, rolled back or admitted. *)
LEMMA FinishDiscipline ==
    ASSUME LockDiscipline, routing_req_finish
    PROVE  LockDiscipline'
<1> DEFINE no_model == Members(routing.chain[1].models) = {}
           fails == routing.write /\ session_node_lock_fails
<1>1. routing.busy /\ Members(routing.level) = {} /\ routing' = Idle
  BY DEF routing_req_finish
<1>2. routing \in Locals
  BY <1>1 DEF LockDiscipline, TypeOK, Idle
<1>3. RoutingSound'
  BY <1>1 DEF RoutingSound, Idle
<1>4. /\ routing.id \notin DOMAIN sessions
      /\ \A m \in ChainModels(routing.chain) :
            /\ m \in DOMAIN component /\ component[m].role = "model"
            /\ m \notin component_lock
      /\ \A r \in routing.dependency : \E m \in ChainModels(routing.chain) :
            r \in DOMAIN subscribed /\ subscribed[r][m] > 0
      /\ routing.chain # << >>
  BY <1>1 DEF LockDiscipline, RoutingSound, component_is_given_role,
              component_is_registered, resource_get_names_by_component
<1>5. CASE no_model
  <2>1. UNCHANGED <<registryVars, sessions>>
    BY <1>5 DEF routing_req_finish
  <2> QED
    BY <1>1, <1>3, <2>1, LocalDiscipline
<1>6. CASE ~ no_model /\ fails
  <2> USE DEF LockDiscipline
  <2>1. /\ UNCHANGED <<component, subscribed, sessions>>
        /\ resource_lock' = resource_lock \ routing.dependency
        /\ component_lock' = component_lock \ ChainModels(routing.chain)
    BY <1>6 DEF routing_req_finish, session_lock_rollback
  <2>2. component_lock' = component_lock
    BY <1>4, <2>1
  <2>3. TypeOK' /\ ResourcesSubscribed'
    BY <1>1, <2>1 DEF TypeOK, RegistryTypeOK, ResourcesSubscribed
  <2>4. Writers' = Writers
    BY <2>1 DEF Writers
  <2>5. WritersPinned' /\ DependencyBacked'
    BY <2>1, <2>2, <2>4 DEF WritersPinned, DependencyBacked, component_is_given_role,
                            component_is_registered, resource_get_names_by_component
  <2>6. ModelExclusion' /\ NoLockLeak'
    BY <2>1, <2>2, <2>4 DEF ModelExclusion, NoLockLeak
  <2> QED
    BY <1>3, <2>3, <2>5, <2>6
<1>7. CASE ~ no_model /\ ~ fails
  <2> DEFINE new == session_create_node
             s == NextStep(new)
  <2>1. sessions' = [i \in DOMAIN sessions \cup {routing.id} |->
                       IF i = routing.id THEN s ELSE sessions[i]]
    BY <1>7 DEF routing_req_finish
  <2>2. IF routing.write THEN session_node_lock_by_step ELSE UNCHANGED registryVars
    BY <1>7 DEF routing_req_finish
  <2>3. new \in Session /\ new.step = 0 /\ new.chain = routing.chain
        /\ new.dependency = routing.dependency /\ new.write = routing.write
    BY <1>2 DEF session_create_node, Session, Locals
  <2>4. Len(routing.chain) \in Nat \ {0}
    BY <1>2, <1>4, EmptySeq DEF Locals
  <2>5. /\ s \in Session /\ s.step = 1 /\ s.write = routing.write
        /\ s.chain = routing.chain /\ s.dependency = routing.dependency
    <3> HIDE DEF new
    <3> QED
      BY <2>3, <2>4, NextStepType
  <2>6. s.step \in 1 .. Len(s.chain)
    BY <2>4, <2>5
  <2> HIDE DEF s, new
  <2>7. /\ DOMAIN sessions' = DOMAIN sessions \cup {routing.id}
        /\ sessions'[routing.id] = s
        /\ \A i \in DOMAIN sessions : sessions'[i] = sessions[i]
    BY <1>4, <2>1
  <2>8. /\ component' = component /\ subscribed' = subscribed
        /\ component_lock \subseteq component_lock'
        /\ resource_lock \subseteq resource_lock'
        /\ component_lock' \subseteq component_lock \cup ChainModels(routing.chain)
        /\ resource_lock' \subseteq resource_lock \cup routing.dependency
        /\ routing.write => ChainModels(routing.chain) \subseteq component_lock'
        /\ ~ routing.write => component_lock' = component_lock /\ resource_lock' = resource_lock
    BY <2>2 DEF session_node_lock_by_step, registryVars
  <2>9. Writers' = Writers \cup (IF routing.write THEN {routing.id} ELSE {})
    BY <1>4, <2>5, <2>7 DEF Writers
  <2>10. \A w \in Writers : w # routing.id /\ sessions'[w] = sessions[w]
    BY <1>4, <2>7 DEF Writers
  <2> USE DEF LockDiscipline
  <2>11. TypeOK'
    <3>1. RegistryTypeOK'
      BY <1>4, <2>8 DEF TypeOK, RegistryTypeOK
    <3>2. DOMAIN sessions' \subseteq Ids
      BY <1>2, <2>7 DEF TypeOK, Locals
    <3>3. sessions' \in [DOMAIN sessions' -> Session]
      BY <2>1, <2>5 DEF TypeOK
    <3>4. \A i \in DOMAIN sessions' : sessions'[i].step \in 1 .. Len(sessions'[i].chain)
      BY <2>6, <2>7 DEF TypeOK
    <3> QED
      BY <1>1, <3>1, <3>2, <3>3, <3>4 DEF TypeOK
  <2>12. ResourcesSubscribed'
    BY <2>8 DEF ResourcesSubscribed
  <2>13. WritersPinned'
    <3> SUFFICES ASSUME NEW w \in Writers'
                 PROVE  /\ \A m \in ChainModels(sessions'[w].chain) :
                              /\ m \in DOMAIN component /\ component[m].role = "model"
                              /\ m \in component_lock'
                        /\ sessions'[w].dependency \subseteq DOMAIN subscribed
      BY <2>8 DEF WritersPinned, component_is_given_role, component_is_registered
    <3>1. CASE w \in Writers
      BY <2>8, <2>10, <3>1 DEF WritersPinned, component_is_given_role, component_is_registered
    <3>2. CASE w \notin Writers
      BY <1>4, <2>5, <2>7, <2>8, <2>9, <3>2
    <3> QED
      BY <3>1, <3>2
  <2>14. DependencyBacked'
    <3> SUFFICES ASSUME NEW w \in Writers', NEW r \in sessions'[w].dependency
                 PROVE  \E m \in ChainModels(sessions'[w].chain) :
                           r \in DOMAIN subscribed /\ subscribed[r][m] > 0
      BY <2>8 DEF DependencyBacked, resource_get_names_by_component
    <3>1. CASE w \in Writers
      BY <2>10, <3>1 DEF DependencyBacked, resource_get_names_by_component
    <3>2. CASE w \notin Writers
      BY <1>4, <2>5, <2>7, <2>9, <3>2
    <3> QED
      BY <3>1, <3>2
  <2>15. ModelExclusion'
    <3>1. \A w \in Writers : ChainModels(sessions[w].chain) \cap ChainModels(routing.chain) = {}
      BY <1>4 DEF WritersPinned
    <3> QED
      BY <2>5, <2>7, <2>9, <2>10, <3>1 DEF ModelExclusion
  <2>16. NoLockLeak'
    <3>1. ASSUME NEW m \in component_lock'
          PROVE  \E w \in Writers' : m \in ChainModels(sessions'[w].chain)
      BY <3>1, <2>5, <2>7, <2>8, <2>9, <2>10 DEF NoLockLeak
    <3>2. ASSUME NEW r \in resource_lock'
          PROVE  \E w \in Writers' : r \in sessions'[w].dependency
      BY <3>2, <2>5, <2>7, <2>8, <2>9, <2>10 DEF NoLockLeak
    <3> QED
      BY <3>1, <3>2 DEF NoLockLeak
  <2> QED
    BY <1>3, <2>11, <2>12, <2>13, <2>14, <2>15, <2>16
<1> QED
  BY <1>5, <1>6, <1>7

-----------------------------------------------------------------------------
(* The theorems *)

(* The lock discipline holds after the first connection: nothing is locked *)
(* and only the built-in models are registered.                            *)
LEMMA InitDiscipline == Init => LockDiscipline
<1> SUFFICES ASSUME Init PROVE LockDiscipline
  OBVIOUS
<1>1. component_lock = {} /\ resource_lock = {} /\ routing = Idle /\ DOMAIN sessions = {}
  BY DEF Init, RegistryInit
<1>2. Writers = {}
  BY <1>1 DEF Writers
<1>3. DOMAIN component \subseteq Names /\ component \in [DOMAIN component -> Component]
  <2>1. DOMAIN component = {b.name : b \in Builtins}
    BY DEF Init, RegistryInit
  <2>2. ASSUME NEW n \in DOMAIN component
        PROVE  component[n] \in Component
    <3> DEFINE b == CHOOSE b \in Builtins : b.name = n
    <3>1. b \in Builtins
      BY <2>1, <2>2
    <3>2. component[n] = [role |-> b.role, hook |-> b.hook, ttl |-> b.ttl]
      BY <2>1, <2>2 DEF Init, RegistryInit
    <3>3. b \in Registration
      BY <3>1, RegistryAssumption
    <3> HIDE DEF b
    <3> QED
      BY <3>2, <3>3 DEF Registration, Component
  <2>3. \A b \in Builtins : b.name \in Names
    BY RegistryAssumption DEF Registration
  <2>4. component = [n \in DOMAIN component |-> component[n]]
    BY DEF Init, RegistryInit
  <2> QED
    BY <2>1, <2>2, <2>3, <2>4
<1>4. /\ DOMAIN subscribed = UNION {Listed(b) : b \in Builtins}
      /\ \A r \in DOMAIN subscribed : subscribed[r] = [n \in Names |-> Asked(Builtins, r, n)]
  BY DEF Init, RegistryInit
<1>5. DOMAIN subscribed \subseteq Resources
  BY <1>4 DEF Listed
<1>6. Builtins \in SUBSET Registration
  BY RegistryAssumption
<1>7. \A r \in DOMAIN subscribed : subscribed[r] \in Bag
  <2>1. \A r \in Resources, n \in Names : Asked(Builtins, r, n) \in Nat
    BY <1>6, AskedType
  <2> QED
    BY <1>4, <1>5, <2>1 DEF Bag
<1>8. RegistryTypeOK
  <2>1. subscribed \in [DOMAIN subscribed -> Bag]
    BY <1>7 DEF Init, RegistryInit
  <2> QED
    BY <1>1, <1>3, <1>5, <2>1 DEF RegistryTypeOK
<1>9. TypeOK
  BY <1>1, <1>8 DEF TypeOK, Init
<1>10. ResourcesSubscribed
  <2> SUFFICES ASSUME NEW r \in DOMAIN subscribed
               PROVE  \E n \in Names : subscribed[r][n] > 0
    BY DEF ResourcesSubscribed, Members
  <2>1. PICK b \in Builtins : r \in Listed(b)
    BY <1>4
  <2>2. b.name \in Names /\ b.resources[r] > 0
    BY <1>6, <2>1 DEF Listed, Registration
  <2>3. Asked(Builtins, r, b.name) = b.resources[r]
    BY RegistryAssumption DEF Asked
  <2> QED
    BY <1>4, <2>2, <2>3
<1>11. RoutingSound
  BY <1>1 DEF RoutingSound, Idle
<1>12. WritersPinned /\ DependencyBacked /\ ModelExclusion /\ NoLockLeak
  BY <1>1, <1>2 DEF WritersPinned, DependencyBacked, ModelExclusion, NoLockLeak
<1> QED
  BY <1>9, <1>10, <1>11, <1>12 DEF LockDiscipline

(* Every handler, every iteration of the search loop and every tick of the *)
(* clock keeps the lock discipline.                                        *)
LEMMA NextDiscipline == LockDiscipline /\ [Next]_vars => LockDiscipline'
<1> SUFFICES ASSUME LockDiscipline, [Next]_vars
             PROVE  LockDiscipline'
  OBVIOUS
<1>1. ASSUME NEW id \in Ids, NEW write \in BOOLEAN, NEW tunnel \in BOOLEAN,
             NEW t \in Topics, routing_req(id, write, tunnel, t)
      PROVE  LockDiscipline'
  BY <1>1, ReqDiscipline
<1>2. CASE routing_req_level
  BY <1>2, LevelDiscipline
<1>3. CASE routing_req_finish
  BY <1>3, FinishDiscipline
<1>4. ASSUME NEW id \in Ids, NEW code \in {"OK", "FAIL"}, routing_res(id, code)
      PROVE  LockDiscipline'
  BY <1>4, ResDiscipline
<1>5. ASSUME NEW d \in Ticks, session_decref_ttl(d)
      PROVE  LockDiscipline'
  BY <1>5, TtlDiscipline
<1>6. ASSUME NEW reg \in Registrations, register_procedure_create(reg)
      PROVE  LockDiscipline'
  BY <1>6, CreateDiscipline
<1>7. ASSUME NEW n \in Names, register_procedure_delete(n)
      PROVE  LockDiscipline'
  BY <1>7, DeleteDiscipline
<1>8. CASE sanji_connect_callback
  BY <1>8, ConnectDiscipline
<1>9. ASSUME NEW t \in Topics, routing_event(t)
      PROVE  LockDiscipline'
  BY <1>9, IdleDiscipline DEF routing_event
<1>10. CASE UNCHANGED <<registryVars, sessions, routing>>
  BY <1>10, IdleDiscipline
<1>11. CASE UNCHANGED vars
  BY <1>11, <1>10 DEF vars
<1>12. CASE routing_req_spins
  BY <1>12, <1>11 DEF routing_req_spins
<1>13. CASE register_procedure_refuse
  BY <1>13, <1>10 DEF register_procedure_refuse
<1> QED
  BY <1>1, <1>2, <1>3, <1>4, <1>5, <1>6, <1>7, <1>8, <1>9, <1>11, <1>12, <1>13 DEF Next

(* The lock discipline holds in every reachable state. *)
THEOREM LockDisciplineHolds == Spec => []LockDiscipline
BY InitDiscipline, NextDiscipline, PTL DEF Spec

(* The state keeps its shape: only registered nodes are locked, and the    *)
(* current step of every session exists.                                   *)
THEOREM TypeCorrect == Spec => []TypeOK
<1>1. LockDiscipline => TypeOK
  BY DEF LockDiscipline
<1> QED
  BY <1>1, LockDisciplineHolds, PTL

(* A resource in the table has a subscriber: the "not implemented" branch  *)
(* of routing_req is dead.                                                 *)
THEOREM ResourcesAlwaysSubscribed == Spec => []ResourcesSubscribed
<1>1. LockDiscipline => ResourcesSubscribed
  BY DEF LockDiscipline
<1> QED
  BY <1>1, LockDisciplineHolds, PTL

(* Two writes in flight never share a model. *)
THEOREM ModelsExclusive == Spec => []ModelExclusion
<1>1. LockDiscipline => ModelExclusion
  BY DEF LockDiscipline
<1> QED
  BY <1>1, LockDisciplineHolds, PTL

(* No lock survives the write it was taken for. *)
THEOREM LocksNeverLeak == Spec => []NoLockLeak
<1>1. LockDiscipline => NoLockLeak
  BY DEF LockDiscipline
<1> QED
  BY <1>1, LockDisciplineHolds, PTL

(* What a write in flight uses can neither be deregistered nor unlocked    *)
(* (its models) nor freed (its resources).                                 *)
THEOREM WritersStayPinned == Spec => []WritersPinned
<1>1. LockDiscipline => WritersPinned
  BY DEF LockDiscipline
<1> QED
  BY <1>1, LockDisciplineHolds, PTL

(* No request is admitted onto a model that serves a write in flight: only *)
(* the end of routing_req creates a session, all of its models were seen   *)
(* unlocked, and the models of a write in flight are locked.               *)
LEMMA AdmissionStep ==
    ASSUME LockDiscipline, [Next]_vars
    PROVE  \A i \in DOMAIN sessions' \ DOMAIN sessions : \A w \in Writers :
              ChainModels(sessions'[i].chain) \cap ChainModels(sessions[w].chain) = {}
<1> DEFINE Goal == \A i \in DOMAIN sessions' \ DOMAIN sessions : \A w \in Writers :
              ChainModels(sessions'[i].chain) \cap ChainModels(sessions[w].chain) = {}
<1>1. CASE DOMAIN sessions' \subseteq DOMAIN sessions
  BY <1>1
<1>2. CASE routing_req_finish
  <2>1. routing.busy
    BY <1>2 DEF routing_req_finish
  <2>2. \A m \in ChainModels(routing.chain) : m \notin component_lock
    BY <2>1 DEF LockDiscipline, RoutingSound
  <2>3. CASE UNCHANGED sessions
    BY <2>3
  <2>4. CASE sessions' = [i \in DOMAIN sessions \cup {routing.id} |->
                            IF i = routing.id THEN NextStep(session_create_node)
                            ELSE sessions[i]]
    <3>1. NextStep(session_create_node).chain = routing.chain
      BY DEF NextStep, session_create_node
    <3>2. \A w \in Writers : ChainModels(sessions[w].chain) \subseteq component_lock
      BY DEF LockDiscipline, WritersPinned
    <3> QED
      BY <2>2, <2>4, <3>1, <3>2
  <2> QED
    BY <1>2, <2>3, <2>4 DEF routing_req_finish
<1>3. ASSUME NEW id \in Ids, NEW write, NEW tunnel, NEW t,
             routing_req(id, write, tunnel, t)
      PROVE  DOMAIN sessions' \subseteq DOMAIN sessions
  BY <1>3 DEF routing_req
<1>4. ASSUME NEW id, NEW code, routing_res(id, code)
      PROVE  DOMAIN sessions' \subseteq DOMAIN sessions
  BY <1>4 DEF routing_res, session_step_update
<1>5. ASSUME NEW d, session_decref_ttl(d)
      PROVE  DOMAIN sessions' \subseteq DOMAIN sessions
  BY <1>5 DEF session_decref_ttl
<1>6. ASSUME NEW reg, register_procedure_create(reg)
      PROVE  DOMAIN sessions' \subseteq DOMAIN sessions
  BY <1>6 DEF register_procedure_create
<1>7. ASSUME NEW n, register_procedure_delete(n)
      PROVE  DOMAIN sessions' \subseteq DOMAIN sessions
  BY <1>7 DEF register_procedure_delete
<1>8. ASSUME NEW t, routing_event(t)
      PROVE  DOMAIN sessions' \subseteq DOMAIN sessions
  BY <1>8 DEF routing_event
<1>9. CASE \/ routing_req_level \/ routing_req_spins \/ sanji_connect_callback
         \/ register_procedure_refuse \/ UNCHANGED vars
  BY <1>9 DEF routing_req_level, routing_req_spins, sanji_connect_callback,
              register_procedure_refuse, vars
<1> HIDE DEF Goal
<1> QED
  BY <1>1, <1>2, <1>3, <1>4, <1>5, <1>6, <1>7, <1>8, <1>9 DEF Next, Goal

(* The same for whole behaviours: AdmissionExclusive is an action property *)
(* of the controller.                                                      *)
THEOREM AdmissionsExclusive == Spec => AdmissionExclusive
<1>1. LockDiscipline /\ [Next]_vars =>
         [\A i \in DOMAIN sessions' \ DOMAIN sessions : \A w \in Writers :
             ChainModels(sessions'[i].chain) \cap ChainModels(sessions[w].chain) = {}]_vars
  BY AdmissionStep
<1> QED
  BY <1>1, LockDisciplineHolds, PTL DEF Spec, AdmissionExclusive

-----------------------------------------------------------------------------
(* The lock service: every step of Controller is a step of LockService,    *)
(* or changes nothing that LockService knows of.                           *)

(* The request that session i stands for. *)
WorkOf(s) == [write |-> s.write, models |-> ChainModels(s.chain)]

(* The mapping of the sessions. *)
workBar == [i \in DOMAIN sessions |-> WorkOf(sessions[i])]

(* A step that keeps the sessions and the flags maps to a stutter. *)
LEMMA StutterMaps ==
    ASSUME sessions' = sessions, component_lock' = component_lock
    PROVE  [Service!Next]_(Service!vars)
BY DEF Service!vars

(* Sessions that end and are unlocked map to end. *)
LEMMA EndMaps ==
    ASSUME LockDiscipline,
           NEW ends \in SUBSET DOMAIN sessions,
           session_node_unlock_by_step(ends),
           DOMAIN sessions' = DOMAIN sessions \ ends,
           \A i \in DOMAIN sessions' :
              /\ sessions'[i].write = sessions[i].write
              /\ ChainModels(sessions'[i].chain) = ChainModels(sessions[i].chain)
    PROVE  Service!Next
<1>1. component_lock' = component_lock \
         UNION {ChainModels(sessions[i].chain) : i \in ends \cap Writers}
  BY EndUnlocks
<1>2. workBar' = [j \in DOMAIN workBar \ ends |-> workBar[j]]
  BY DEF workBar, WorkOf
<1>3. UNION {workBar[i].models : i \in {j \in ends : workBar[j].write}}
        = UNION {ChainModels(sessions[i].chain) : i \in ends \cap Writers}
  BY DEF workBar, WorkOf, Writers
<1>4. Service!end(ends)
  BY <1>1, <1>2, <1>3 DEF Service!end, Service!Held, workBar, WorkOf
<1>5. ends \in SUBSET DOMAIN workBar
  BY DEF workBar
<1> QED
  BY <1>4, <1>5 DEF Service!Next, workBar, WorkOf

(* routing_res ends the session or keeps its models. *)
LEMMA ResMaps ==
    ASSUME LockDiscipline, NEW id \in Ids, NEW code, routing_res(id, code)
    PROVE  [Service!Next]_(Service!vars)
<1> DEFINE s == sessions[id]
           wait == session_node_decref_wait(s)
<1>1. CASE id \notin DOMAIN sessions
  <2>1. sessions' = sessions /\ component_lock' = component_lock
    BY <1>1 DEF routing_res, session_step_update, registryVars
  <2> QED
    BY <2>1, StutterMaps
<1>2. ASSUME id \in DOMAIN sessions,
             session_node_unlock_by_step({id}),
             sessions' = [i \in DOMAIN sessions \ {id} |-> sessions[i]]
      PROVE  Service!Next
  BY <1>2, EndMaps
<1>3. ASSUME id \in DOMAIN sessions, component_lock' = component_lock,
             NEW t, sessions' = [sessions EXCEPT ![id] = t],
             t.write = s.write, t.chain = s.chain
      PROVE  [Service!Next]_(Service!vars)
  <2>1. workBar' = workBar
    BY <1>3 DEF workBar, WorkOf
  <2> QED
    BY <1>3, <2>1 DEF Service!vars, workBar, WorkOf
<1>4. CASE id \in DOMAIN sessions /\ code # "OK"
  BY <1>2, <1>4 DEF routing_res, session_step_update, session_step_stop
<1>5. CASE id \in DOMAIN sessions /\ code = "OK" /\ wait = 0 /\ ~ s.step < Len(s.chain)
  BY <1>2, <1>5 DEF routing_res, session_step_update, session_step_stop
<1>6. \A i \in DOMAIN sessions :
         sessions[i] \in Session /\ sessions[i].step \in 1 .. Len(sessions[i].chain)
  BY DEF LockDiscipline, TypeOK
<1>7. CASE id \in DOMAIN sessions /\ code = "OK" /\ wait # 0
  <2> DEFINE t == [s EXCEPT !.wait = wait]
  <2>1. sessions' = [sessions EXCEPT ![id] = t] /\ component_lock' = component_lock
    BY <1>7 DEF routing_res, session_step_update, LockDiscipline, TypeOK, registryVars
  <2>2. t.write = s.write /\ t.chain = s.chain
    BY <1>6, <1>7 DEF Session
  <2> HIDE DEF t
  <2> QED
    BY <1>3, <1>7, <2>1, <2>2
<1>8. CASE id \in DOMAIN sessions /\ code = "OK" /\ wait = 0 /\ s.step < Len(s.chain)
  <2>1. /\ sessions' = [sessions EXCEPT ![id] = NextStep(s)]
        /\ component_lock' = component_lock
    <3>1. s.step \in Nat /\ Len(s.chain) \in Nat
      BY <1>6, <1>8, LenProperties DEF Session
    <3> QED
      BY <1>8, <3>1 DEF routing_res, session_step_update, registryVars
  <2>2. NextStep(s).write = s.write /\ NextStep(s).chain = s.chain
    BY <1>6, <1>8, NextStepType
  <2> QED
    BY <1>3, <1>8, <2>1, <2>2
<1> QED
  BY <1>1, <1>4, <1>5, <1>7, <1>8

(* The clock ends the sessions that expire, all at once. *)
LEMMA TtlMaps ==
    ASSUME LockDiscipline, NEW d \in Ticks, session_decref_ttl(d)
    PROVE  Service!Next
<1> DEFINE expired == {i \in DOMAIN sessions : Expired(Aged(sessions[i], d))}
<1>1. /\ session_node_unlock_by_step(expired)
      /\ sessions' = [i \in DOMAIN sessions \ expired |-> Aged(sessions[i], d)]
  BY DEF session_decref_ttl, session_step_stop
<1>2. d \in Nat
  BY ControllerAssumption
<1>3. ASSUME NEW i \in DOMAIN sessions
      PROVE  /\ Aged(sessions[i], d).write = sessions[i].write
             /\ ChainModels(Aged(sessions[i], d).chain) = ChainModels(sessions[i].chain)
  <2>1. sessions[i] \in Session /\ sessions[i].step \in 1 .. Len(sessions[i].chain)
    BY DEF LockDiscipline, TypeOK
  <2> QED
    BY <1>2, <2>1, AgedType
<1>4. expired \in SUBSET DOMAIN sessions
  OBVIOUS
<1> HIDE DEF expired
<1> QED
  BY <1>1, <1>3, <1>4, EndMaps

(* routing_req_finish begins a request, or refuses it: the rollback of the *)
(* refusal clears flags of models that the search saw unlocked.            *)
LEMMA FinishMaps ==
    ASSUME LockDiscipline, routing_req_finish
    PROVE  [Service!Next]_(Service!vars)
<1> DEFINE no_model == Members(routing.chain[1].models) = {}
           fails == routing.write /\ session_node_lock_fails
           models == ChainModels(routing.chain)
<1>1. routing.busy /\ Members(routing.level) = {} /\ routing \in Locals
  BY DEF routing_req_finish, LockDiscipline, TypeOK, Idle
<1>2. /\ routing.id \notin DOMAIN sessions
      /\ models \cap component_lock = {}
      /\ routing.chain # << >>
  BY <1>1 DEF LockDiscipline, RoutingSound
<1>3. CASE no_model
  <2>1. sessions' = sessions /\ component_lock' = component_lock
    BY <1>3 DEF routing_req_finish, registryVars
  <2> QED
    BY <2>1, StutterMaps
<1>4. CASE ~ no_model /\ fails
  <2>1. sessions' = sessions /\ component_lock' = component_lock \ models
    BY <1>4 DEF routing_req_finish, session_lock_rollback
  <2>2. component_lock' = component_lock
    BY <1>2, <2>1
  <2> QED
    BY <2>1, <2>2, StutterMaps
<1>5. CASE ~ no_model /\ ~ fails
  <2> DEFINE w == [write |-> routing.write, models |-> models]
             new == NextStep(session_create_node)
  <2>1. /\ sessions' = [i \in DOMAIN sessions \cup {routing.id} |->
                          IF i = routing.id THEN new ELSE sessions[i]]
        /\ component_lock' = IF routing.write THEN component_lock \cup models
                             ELSE component_lock
    BY <1>5 DEF routing_req_finish, session_node_lock_by_step, registryVars
  <2>2. new.write = routing.write /\ new.chain = routing.chain
    BY <1>1 DEF NextStep, session_create_node
  <2>3. routing.chain \in Seq(ChainStep) /\ routing.write \in BOOLEAN
    BY <1>1 DEF Locals
  <2>4. 1 \in DOMAIN routing.chain
    BY <1>2, <2>3, EmptySeq, LenProperties
  <2>5. models # {} /\ models \subseteq Names
    BY <1>5, <2>4 DEF ChainModels, Members
  <2> HIDE DEF models, new
  <2>6. w \in Service!Work
    BY <2>3, <2>5 DEF Service!Work
  <2>7. workBar' = [j \in DOMAIN workBar \cup {routing.id} |->
                      IF j = routing.id THEN w ELSE workBar[j]]
    BY <2>1, <2>2 DEF workBar, WorkOf, models
  <2>8. Service!begin(routing.id, w)
    <3>1. w.models = models /\ w.write = routing.write
      OBVIOUS
    <3>2. models \cap component_lock = {}
      BY <1>2 DEF models
    <3> HIDE DEF w
    <3>3. component_lock' = IF w.write THEN component_lock \cup w.models
                            ELSE component_lock
      BY <2>1, <3>1
    <3>4. routing.id \notin DOMAIN workBar
      BY <1>2 DEF workBar
    <3> QED
      BY <2>5, <2>7, <3>1, <3>2, <3>3, <3>4 DEF Service!begin, workBar, WorkOf
  <2>9. routing.id \in Ids
    BY <1>1 DEF Locals
  <2> HIDE DEF w
  <2> QED
    BY <2>6, <2>8, <2>9 DEF Service!Next, Service!begin
<1> QED
  BY <1>3, <1>4, <1>5

(* Every other action leaves the sessions and the flags alone. *)
LEMMA NextMaps ==
    ASSUME LockDiscipline, [Next]_vars
    PROVE  [Service!Next]_(Service!vars)
<1>1. ASSUME NEW id \in Ids, NEW write \in BOOLEAN, NEW tunnel \in BOOLEAN,
             NEW t \in Topics, routing_req(id, write, tunnel, t)
      PROVE  [Service!Next]_(Service!vars)
  BY <1>1, StutterMaps DEF routing_req, registryVars
<1>2. CASE routing_req_level
  BY <1>2, StutterMaps DEF routing_req_level, registryVars
<1>3. CASE routing_req_finish
  BY <1>3, FinishMaps
<1>4. ASSUME NEW id \in Ids, NEW code \in {"OK", "FAIL"}, routing_res(id, code)
      PROVE  [Service!Next]_(Service!vars)
  BY <1>4, ResMaps
<1>5. ASSUME NEW d \in Ticks, session_decref_ttl(d)
      PROVE  [Service!Next]_(Service!vars)
  BY <1>5, TtlMaps
<1>6. ASSUME NEW t \in Topics, routing_event(t)
      PROVE  [Service!Next]_(Service!vars)
  BY <1>6, StutterMaps DEF routing_event, registryVars
<1>7. ASSUME NEW reg \in Registrations, register_procedure_create(reg)
      PROVE  [Service!Next]_(Service!vars)
  BY <1>7, StutterMaps DEF register_procedure_create, register_create, registryVars
<1>8. ASSUME NEW n \in Names, register_procedure_delete(n)
      PROVE  [Service!Next]_(Service!vars)
  BY <1>8, StutterMaps DEF register_procedure_delete, register_delete, registryVars
<1>9. CASE sanji_connect_callback
  BY <1>9, StutterMaps DEF sanji_connect_callback, connect_builtins
<1>10. CASE UNCHANGED vars
  BY <1>10, StutterMaps DEF vars, registryVars
<1>11. CASE routing_req_spins
  BY <1>11, StutterMaps DEF routing_req_spins, vars, registryVars
<1>12. CASE register_procedure_refuse
  BY <1>12, StutterMaps DEF register_procedure_refuse, registryVars
<1> QED
  BY <1>1, <1>2, <1>3, <1>4, <1>5, <1>6, <1>7, <1>8, <1>9, <1>10, <1>11, <1>12 DEF Next

(* The controller implements the lock service, for any number of           *)
(* components, resources, registrations and requests.                      *)
THEOREM LockServiceImplemented == Spec => ImplementsLockService
<1>1. Init => Service!Init
  <2> SUFFICES ASSUME Init PROVE Service!Init
    OBVIOUS
  <2>1. component_lock = {} /\ sessions = [i \in {} |-> EmptyBag]
    BY DEF Init, RegistryInit
  <2> QED
    BY <2>1 DEF Service!Init
<1>2. LockDiscipline /\ [Next]_vars => [Service!Next]_(Service!vars)
  BY NextMaps
<1> QED
  BY <1>1, <1>2, LockDisciplineHolds, PTL DEF Spec, ImplementsLockService, Service!Spec

-----------------------------------------------------------------------------
(* Responses *)

(* A list that names someone is not of size zero. *)
LEMMA SizePositive ==
    ASSUME NEW b \in Bag, Members(b) # {}
    PROVE  Size(b) \in Nat /\ Size(b) >= 1
<1> DEFINE E == UNION {{n} \X (1 .. b[n]) : n \in Names}
<1>1. PICK n \in Names : b[n] > 0
  BY DEF Members
<1>2. <<n, 1>> \in E
  BY <1>1 DEF Bag
<1>3. Size(b) \in Nat
  BY SizeType
<1>4. Size(b) = Cardinality(E)
  BY DEF Size
<1>5. IsFiniteSet(E)
  BY EntriesFinite, RegistryAssumption DEF Bag
<1> HIDE DEF E
<1>6. Cardinality(E) # 0
  BY <1>2, <1>5, FS_EmptySet
<1> QED
  BY <1>3, <1>4, <1>6

(* Every step of the chain asks some model. *)
NoEmptyStep(chain) == \A k \in DOMAIN chain : Members(chain[k].models) # {}

(* The counter of one session. *)
WaitRight(s) ==
    NoEmptyStep(s.chain) => s.wait \in 1 .. Size(s.chain[s.step].models)

(* Entering a step sets the counter to the number of models asked. *)
LEMMA EnterStep ==
    ASSUME NEW s \in Session, s.step < Len(s.chain)
    PROVE  WaitRight(NextStep(s))
<1> DEFINE t == NextStep(s)
<1>1. t.step = s.step + 1 /\ t.chain = s.chain /\ t.wait = Size(s.chain[s.step + 1].models)
  BY NextStepType
<1>2. s.chain \in Seq(ChainStep) /\ s.step \in Nat
  BY DEF Session
<1>3. s.step + 1 \in 1 .. Len(s.chain) /\ DOMAIN s.chain = 1 .. Len(s.chain)
  BY <1>2, LenProperties
<1>4. s.chain[s.step + 1].models \in Bag
  <2>1. s.chain[s.step + 1] \in ChainStep
    BY <1>2, <1>3, ElementOfSeq
  <2> QED
    BY <2>1 DEF ChainStep
<1> HIDE DEF t
<1> SUFFICES ASSUME NoEmptyStep(s.chain)
             PROVE  t.wait \in 1 .. Size(s.chain[s.step + 1].models)
  BY <1>1 DEF WaitRight, t
<1>5. Members(s.chain[s.step + 1].models) # {}
  BY <1>3 DEF NoEmptyStep
<1> QED
  BY <1>1, <1>4, <1>5, SizePositive

(* Time does not touch the counter. *)
LEMMA AgedWait ==
    ASSUME NEW s \in Session, s.step \in 1 .. Len(s.chain), NEW d \in Nat, WaitRight(s)
    PROVE  WaitRight(Aged(s, d))
<1>1. /\ Aged(s, d).step = s.step /\ Aged(s, d).wait = s.wait
      /\ DOMAIN Aged(s, d).chain = DOMAIN s.chain
      /\ \A j \in DOMAIN s.chain : Aged(s, d).chain[j].models = s.chain[j].models
  BY AgedType
<1>2. s.step \in DOMAIN s.chain
  BY LenProperties DEF Session
<1> QED
  BY <1>1, <1>2 DEF WaitRight, NoEmptyStep

(* Every action keeps every counter right. *)
LEMMA WaitStep ==
    ASSUME LockDiscipline, [Next]_vars, \A i \in DOMAIN sessions : WaitRight(sessions[i])
    PROVE  \A i \in DOMAIN sessions' : WaitRight(sessions'[i])
<1> DEFINE Goal == \A i \in DOMAIN sessions' : WaitRight(sessions'[i])
<1>0. \A i \in DOMAIN sessions :
         sessions[i] \in Session /\ sessions[i].step \in 1 .. Len(sessions[i].chain)
  BY DEF LockDiscipline, TypeOK
<1>1. CASE sessions' = sessions
  BY <1>1
<1>2. CASE routing_req_finish /\ sessions' # sessions
  <2> DEFINE new == session_create_node
  <2>1. sessions' = [i \in DOMAIN sessions \cup {routing.id} |->
                       IF i = routing.id THEN NextStep(new) ELSE sessions[i]]
    BY <1>2 DEF routing_req_finish
  <2>2. routing.busy /\ Members(routing.level) = {} /\ routing \in Locals
    BY <1>2 DEF routing_req_finish, LockDiscipline, TypeOK, Idle
  <2>3. routing.chain # << >>
    BY <2>2 DEF LockDiscipline, RoutingSound
  <2>4. new \in Session /\ new.step = 0 /\ new.chain = routing.chain
    BY <2>2 DEF session_create_node, Session, Locals
  <2>5. Len(routing.chain) \in Nat \ {0}
    BY <2>2, <2>3, EmptySeq DEF Locals
  <2> HIDE DEF new
  <2>6. WaitRight(NextStep(new))
    BY <2>4, <2>5, EnterStep
  <2> QED
    BY <2>1, <2>6
<1>3. ASSUME NEW id \in Ids, NEW code \in {"OK", "FAIL"}, routing_res(id, code),
             sessions' # sessions
      PROVE  Goal
  <2> DEFINE s == sessions[id]
             wait == session_node_decref_wait(s)
  <2>1. id \in DOMAIN sessions
    BY <1>3 DEF routing_res
  <2>2. s \in Session /\ s.step \in 1 .. Len(s.chain) /\ WaitRight(s)
    BY <1>0, <2>1
  <2>3. CASE sessions' = [i \in DOMAIN sessions \ {id} |-> sessions[i]]
    BY <2>3
  <2>4. CASE sessions' = [sessions EXCEPT ![id].wait = wait] /\ wait # 0
    <3> DEFINE t == [s EXCEPT !.wait = wait]
    <3>1. sessions' = [sessions EXCEPT ![id] = t]
      BY <2>1, <2>4
    <3>2. t.step = s.step /\ t.chain = s.chain /\ t.wait = wait
      BY <2>2 DEF Session
    <3>3. ASSUME NoEmptyStep(s.chain)
          PROVE  wait \in 1 .. Size(s.chain[s.step].models)
      <4> DEFINE size == Size(s.chain[s.step].models)
      <4>1. s.chain[s.step] \in ChainStep
        BY <2>2, ElementOfSeq DEF Session
      <4>2. size \in Nat
        BY <4>1, SizeType DEF ChainStep
      <4> HIDE DEF size
      <4>3. s.wait \in 1 .. size
        BY <2>2, <3>3 DEF WaitRight, size
      <4>4. wait = s.wait - 1
        BY <4>2, <4>3 DEF session_node_decref_wait
      <4> HIDE DEF wait, s
      <4> QED
        BY <2>4, <4>2, <4>3, <4>4 DEF size
    <3> HIDE DEF t, wait
    <3>4. WaitRight(t)
      BY <3>2, <3>3 DEF WaitRight
    <3> QED
      BY <2>1, <3>1, <3>4
  <2>5. CASE sessions' = [sessions EXCEPT ![id] = NextStep(s)] /\ s.step < Len(s.chain)
    <3>1. WaitRight(NextStep(s))
      BY <2>2, <2>5, EnterStep
    <3> QED
      BY <2>1, <2>5, <3>1
  <2> QED
    BY <1>3, <2>1, <2>3, <2>4, <2>5 DEF routing_res, session_step_update
<1>4. ASSUME NEW d \in Ticks, session_decref_ttl(d)
      PROVE  Goal
  <2> DEFINE expired == {i \in DOMAIN sessions : Expired(Aged(sessions[i], d))}
  <2>1. sessions' = [i \in DOMAIN sessions \ expired |-> Aged(sessions[i], d)]
    BY <1>4 DEF session_decref_ttl
  <2>2. d \in Nat
    BY ControllerAssumption
  <2>3. \A i \in DOMAIN sessions : WaitRight(Aged(sessions[i], d))
    BY <1>0, <2>2, AgedWait
  <2> QED
    BY <2>1, <2>3
<1>5. sessions' = sessions \/ routing_req_finish
        \/ (\E id \in Ids, code \in {"OK", "FAIL"} : routing_res(id, code))
        \/ (\E d \in Ticks : session_decref_ttl(d))
  BY DEF Next, vars, routing_req, routing_req_level, routing_req_spins, routing_event,
         register_procedure_create, register_procedure_delete, register_procedure_refuse,
         sanji_connect_callback
<1> QED
  BY <1>1, <1>2, <1>3, <1>4, <1>5

(* Whatever responses arrive, late, repeated or for another step, the      *)
(* counter of a session whose steps all ask someone stays between one and  *)
(* the number of models asked: it never wraps around.                      *)
THEOREM WaitStaysInRange == Spec => []WaitInRange
<1> DEFINE Right == \A i \in DOMAIN sessions : WaitRight(sessions[i])
<1>1. Init => Right
  BY DEF Init
<1>2. LockDiscipline /\ Right /\ [Next]_vars => Right'
  BY WaitStep
<1>3. Right => WaitInRange
  BY DEF WaitRight, NoEmptyStep, WaitInRange
<1> HIDE DEF Right
<1> QED
  BY <1>1, <1>2, <1>3, LockDisciplineHolds, PTL DEF Spec

-----------------------------------------------------------------------------
(* The time of a session *)

(* A step that makes t of session s gives it neither time nor models, and  *)
(* does not send it back.                                                  *)
NoYounger(s, t) ==
    /\ DOMAIN t.chain = DOMAIN s.chain
    /\ \A k \in DOMAIN s.chain :
          /\ t.chain[k].models = s.chain[k].models
          /\ \A n \in Names : t.chain[k].ttls[n] <= s.chain[k].ttls[n]
    /\ t.step \in {s.step, s.step + 1}

(* The clock has taken time off all the models that s waits for, and some  *)
(* is left to each.                                                        *)
Older(s, t) ==
    /\ t.step = s.step
    /\ \A n \in Members(s.chain[s.step].models) :
          /\ t.chain[s.step].ttls[n] < s.chain[s.step].ttls[n]
          /\ 0 < t.chain[s.step].ttls[n]

LEMMA SameChain ==
    ASSUME NEW s \in Session, NEW t, t.chain = s.chain, t.step \in {s.step, s.step + 1}
    PROVE  NoYounger(s, t)
<1>1. \A k \in DOMAIN s.chain : s.chain[k] \in ChainStep
  BY ElementOfSeq, LenProperties DEF Session
<1>2. \A k \in DOMAIN s.chain : \A n \in Names : s.chain[k].ttls[n] <= s.chain[k].ttls[n]
  BY <1>1 DEF ChainStep
<1> QED
  BY <1>2 DEF NoYounger

LEMMA AgedOlder ==
    ASSUME NEW s \in Session, s.step \in 1 .. Len(s.chain), NEW d \in Nat \ {0}
    PROVE  /\ NoYounger(s, Aged(s, d))
           /\ ~ Expired(Aged(s, d)) => Older(s, Aged(s, d))
<1> DEFINE old == s.chain[s.step]
           e == [old EXCEPT !.ttls =
                   [n \in Names |-> IF old.models[n] > 0 THEN old.ttls[n] - d
                                    ELSE old.ttls[n]]]
           c == [s.chain EXCEPT ![s.step] = e]
           a == Aged(s, d)
<1>1. s.chain \in Seq(ChainStep) /\ DOMAIN s.chain = 1 .. Len(s.chain)
  BY LenProperties DEF Session
<1>2. old \in ChainStep
  BY <1>1, ElementOfSeq
<1>3. /\ e \in ChainStep /\ e.models = old.models
      /\ \A n \in Names : e.ttls[n] = IF old.models[n] > 0 THEN old.ttls[n] - d ELSE old.ttls[n]
  BY <1>2 DEF ChainStep, Bag
<1>4. c \in Seq(ChainStep) /\ \A k \in 1 .. Len(s.chain) : c[k] = IF k = s.step THEN e ELSE s.chain[k]
  <2> HIDE DEF e
  <2> QED
    BY <1>1, <1>3, ExceptSeq
<1>5. a = [s EXCEPT !.chain = c]
  BY <1>1 DEF Aged, Session
<1>6. a.chain = c /\ a.step = s.step
  BY <1>5 DEF Session
<1>7. DOMAIN a.chain = DOMAIN s.chain /\ \A k \in DOMAIN s.chain : a.chain[k].models = s.chain[k].models
  BY AgedType
<1> HIDE DEF e, c, a
<1>8. \A n \in Names : old.ttls[n] \in Int /\ old.models[n] \in Nat
  BY <1>2 DEF ChainStep, Bag
<1> HIDE DEF old
<1>9. \A n \in Names :
         /\ e.ttls[n] <= old.ttls[n]
         /\ old.models[n] > 0 => e.ttls[n] < old.ttls[n]
  <2> SUFFICES ASSUME NEW n \in Names
               PROVE  e.ttls[n] <= old.ttls[n] /\ (old.models[n] > 0 => e.ttls[n] < old.ttls[n])
    OBVIOUS
  <2>1. PICK x, y : x = old.ttls[n] /\ y = e.ttls[n]
    OBVIOUS
  <2>2. x \in Int /\ y = IF old.models[n] > 0 THEN x - d ELSE x
    BY <1>3, <1>8, <2>1
  <2> QED
    BY <2>1, <2>2
<1>10. ASSUME NEW k \in DOMAIN s.chain, NEW n \in Names
       PROVE  a.chain[k].ttls[n] <= s.chain[k].ttls[n]
  <2>1. CASE k = s.step
    <3>1. a.chain[k] = e /\ s.chain[k] = old
      BY <1>1, <1>4, <1>6, <2>1 DEF old
    <3> QED
      BY <1>9, <3>1, Zenon
  <2>2. CASE k # s.step
    <3>1. s.chain[k] \in ChainStep /\ a.chain[k] = s.chain[k]
      BY <1>1, <1>4, <1>6, <2>2, ElementOfSeq
    <3>2. s.chain[k].ttls[n] \in Int
      BY <3>1 DEF ChainStep
    <3> QED
      BY <3>1, <3>2
  <2> QED
    BY <2>1, <2>2
<1>11. NoYounger(s, a)
  BY <1>6, <1>7, <1>10 DEF NoYounger
<1>12. ASSUME ~ Expired(a) PROVE Older(s, a)
  <2>1. a.chain[s.step] = e /\ s.chain[s.step] = old
    BY <1>4, <1>6 DEF old
  <2>2. ASSUME NEW n \in Members(old.models) PROVE e.ttls[n] < old.ttls[n] /\ 0 < e.ttls[n]
    <3>1. n \in Names /\ old.models[n] > 0
      BY DEF Members
    <3>2. n \in Members(e.models)
      BY <1>3
    <3>3. ~ (e.ttls[n] <= 0)
      <4>1. a.chain[a.step] = e
        BY <1>6, <2>1
      <4> QED
        BY <1>12, <3>2, <4>1, Zenon DEF Expired
    <3>4. e.ttls[n] \in Int
      BY <1>3, <3>1 DEF ChainStep
    <3>5. 0 < e.ttls[n]
      BY <3>3, <3>4
    <3> QED
      BY <1>9, <3>1, <3>5, Zenon
  <2> QED
    BY <1>6, <2>1, <2>2 DEF Older
<1> QED
  BY <1>11, <1>12 DEF a

LEMMA WearStep ==
    ASSUME LockDiscipline, [Next]_vars
    PROVE  \A i \in DOMAIN sessions \cap DOMAIN sessions' : NoYounger(sessions[i], sessions'[i])
<1> DEFINE Goal == \A i \in DOMAIN sessions \cap DOMAIN sessions' :
                      NoYounger(sessions[i], sessions'[i])
<1>0. \A i \in DOMAIN sessions :
         /\ sessions[i] \in Session /\ sessions[i].step \in 1 .. Len(sessions[i].chain)
         /\ NoYounger(sessions[i], sessions[i])
  BY SameChain DEF LockDiscipline, TypeOK
<1>1. CASE sessions' = sessions
  BY <1>0, <1>1
<1>2. CASE routing_req_finish /\ sessions' # sessions
  <2>1. sessions' = [i \in DOMAIN sessions \cup {routing.id} |->
                       IF i = routing.id THEN NextStep(session_create_node) ELSE sessions[i]]
    BY <1>2 DEF routing_req_finish
  <2>2. routing.id \notin DOMAIN sessions
    BY <1>2 DEF routing_req_finish, LockDiscipline, RoutingSound
  <2> QED
    BY <1>0, <2>1, <2>2
<1>3. ASSUME NEW id \in Ids, NEW code \in {"OK", "FAIL"}, routing_res(id, code),
             sessions' # sessions
      PROVE  Goal
  <2> DEFINE s == sessions[id]
             wait == session_node_decref_wait(s)
  <2>1. id \in DOMAIN sessions
    BY <1>3 DEF routing_res
  <2>2. s \in Session /\ s.step \in 1 .. Len(s.chain)
    BY <1>0, <2>1
  <2>3. CASE sessions' = [i \in DOMAIN sessions \ {id} |-> sessions[i]]
    BY <1>0, <2>3
  <2>4. CASE sessions' = [sessions EXCEPT ![id].wait = wait]
    <3> DEFINE t == [s EXCEPT !.wait = wait]
    <3>1. sessions' = [sessions EXCEPT ![id] = t]
      BY <2>1, <2>4
    <3>2. t.step = s.step /\ t.chain = s.chain
      BY <2>2 DEF Session
    <3> HIDE DEF t, wait
    <3>3. NoYounger(s, t)
      BY <2>2, <3>2, SameChain
    <3> QED
      BY <1>0, <2>1, <3>1, <3>3
  <2>5. CASE sessions' = [sessions EXCEPT ![id] = NextStep(s)] /\ s.step < Len(s.chain)
    <3>1. NextStep(s).step = s.step + 1 /\ NextStep(s).chain = s.chain
      BY <2>2, <2>5, NextStepType
    <3>2. NoYounger(s, NextStep(s))
      BY <2>2, <3>1, SameChain
    <3> QED
      BY <1>0, <2>1, <2>5, <3>2
  <2> QED
    BY <1>3, <2>1, <2>3, <2>4, <2>5 DEF routing_res, session_step_update
<1>4. ASSUME NEW d \in Ticks, session_decref_ttl(d) PROVE Goal
  <2> DEFINE expired == {i \in DOMAIN sessions : Expired(Aged(sessions[i], d))}
  <2>1. sessions' = [i \in DOMAIN sessions \ expired |-> Aged(sessions[i], d)]
    BY <1>4 DEF session_decref_ttl
  <2>2. d \in Nat \ {0}
    BY ControllerAssumption
  <2>3. \A i \in DOMAIN sessions : NoYounger(sessions[i], Aged(sessions[i], d))
    BY <1>0, <2>2, AgedOlder
  <2> HIDE DEF expired
  <2> QED
    BY <2>1, <2>3
<1>5. sessions' = sessions \/ routing_req_finish
        \/ (\E id \in Ids, code \in {"OK", "FAIL"} : routing_res(id, code))
        \/ (\E d \in Ticks : session_decref_ttl(d))
  BY DEF Next, vars, routing_req, routing_req_level, routing_req_spins, routing_event,
         register_procedure_create, register_procedure_delete, register_procedure_refuse,
         sanji_connect_callback
<1> QED
  BY <1>1, <1>2, <1>3, <1>4, <1>5

LEMMA ClockStep ==
    ASSUME LockDiscipline, NEW d \in Ticks, session_decref_ttl(d)
    PROVE  \A i \in DOMAIN sessions' : Older(sessions[i], sessions'[i])
<1> DEFINE expired == {i \in DOMAIN sessions : Expired(Aged(sessions[i], d))}
<1>1. sessions' = [i \in DOMAIN sessions \ expired |-> Aged(sessions[i], d)]
  BY DEF session_decref_ttl
<1>2. d \in Nat \ {0}
  BY ControllerAssumption
<1>3. \A i \in DOMAIN sessions \ expired : Older(sessions[i], Aged(sessions[i], d))
  BY <1>2, AgedOlder DEF LockDiscipline, TypeOK
<1> HIDE DEF expired
<1> QED
  BY <1>1, <1>3

(* Sessions wear down: no handler gives a session time, models or steps    *)
(* back, whatever arrives, and every run of sanji_refresh_session takes    *)
(* time off each model that a remaining session waits for and leaves only  *)
(* sessions in which all of them have time left.  So the steps left and    *)
(* the time left of the current one fall until the session is gone: what   *)
(* SessionsEnd needs besides fairness.                                     *)
THEOREM SessionsWearDown ==
    Spec => [][/\ \A i \in DOMAIN sessions \cap DOMAIN sessions' :
                     NoYounger(sessions[i], sessions'[i])
               /\ (\E d \in Ticks : session_decref_ttl(d)) =>
                     \A i \in DOMAIN sessions' : Older(sessions[i], sessions'[i])]_vars
<1>1. LockDiscipline /\ [Next]_vars =>
         [/\ \A i \in DOMAIN sessions \cap DOMAIN sessions' :
                NoYounger(sessions[i], sessions'[i])
          /\ (\E d \in Ticks : session_decref_ttl(d)) =>
                \A i \in DOMAIN sessions' : Older(sessions[i], sessions'[i])]_vars
  BY WearStep, ClockStep
<1> QED
  BY <1>1, LockDisciplineHolds, PTL DEF Spec

-----------------------------------------------------------------------------
(* Entries of the subscriber lists *)

(* No request names a resource twice.  The code does not ask for it:       *)
(* without it a deregistration leaves an entry behind.                     *)
ListedOnce ==
    \A g \in Registrations \cup Builtins : \A r \in Resources : g.resources[r] <= 1

(* A registered component has at most one entry in a list, any other name  *)
(* none: what makes the removal of one entry enough.                       *)
SingleEntries ==
    \A r \in DOMAIN subscribed : \A n \in Names :
        subscribed[r][n] <= IF n \in DOMAIN component THEN 1 ELSE 0

(* Registering names that are not in the table adds one entry at most. *)
LEMMA AddedEntries ==
    ASSUME ListedOnce, SingleEntries, RegistryTypeOK,
           NEW gs \in SUBSET (Registrations \cup Builtins),
           component_add_node(gs),
           resource_append_component_by_name(gs),
           \A g \in gs : g.name \notin DOMAIN component
    PROVE  SingleEntries'
<1>1. DOMAIN component' = DOMAIN component \cup {g.name : g \in gs}
  BY DEF component_add_node
<1>2. DOMAIN subscribed' = DOMAIN subscribed \cup UNION {Listed(g) : g \in gs}
  BY DEF resource_append_component_by_name
<1>3. gs \subseteq Registration /\ DOMAIN subscribed' \subseteq Resources
  BY <1>2, RegistryAssumption DEF RegistryTypeOK, Listed
<1>4. ASSUME NEW r \in DOMAIN subscribed', NEW n \in Names
      PROVE  subscribed'[r][n] <= IF n \in DOMAIN component' THEN 1 ELSE 0
  <2> DEFINE old == IF r \in DOMAIN subscribed THEN subscribed[r][n] ELSE 0
             new == IF r \in resource_lock THEN 0 ELSE Asked(gs, r, n)
  <2>1. subscribed'[r][n] = old + new
    BY <1>2, <1>4 DEF resource_append_component_by_name
  <2>2. r \in DOMAIN subscribed => subscribed[r][n] \in Nat
    BY DEF RegistryTypeOK, Bag
  <2>3. old \in Nat /\ old <= IF n \in DOMAIN component THEN 1 ELSE 0
    BY <2>2 DEF SingleEntries
  <2>4. Asked(gs, r, n) \in Nat
    BY <1>3, <1>4, AskedType
  <2>5. CASE \E g \in gs : g.name = n
    <3> DEFINE g == CHOOSE h \in gs : h.name = n
    <3>1. g \in gs /\ g.name = n
      BY <2>5
    <3>2. Asked(gs, r, n) = g.resources[r]
      BY <2>5 DEF Asked
    <3> HIDE DEF g
    <3>3. Asked(gs, r, n) <= 1
      BY <1>3, <1>4, <3>1, <3>2 DEF ListedOnce
    <3>4. n \notin DOMAIN component /\ n \in DOMAIN component'
      BY <1>1, <3>1
    <3> QED
      BY <2>1, <2>3, <2>4, <3>3, <3>4
  <2>6. CASE ~ \E g \in gs : g.name = n
    <3>1. Asked(gs, r, n) = 0
      BY <2>6 DEF Asked
    <3>2. n \in DOMAIN component' <=> n \in DOMAIN component
      BY <1>1, <2>6
    <3> QED
      BY <2>1, <2>3, <3>1, <3>2
  <2> QED
    BY <2>5, <2>6
<1> QED
  BY <1>4 DEF SingleEntries

(* Removing one entry of a component from every list removes all of them. *)
LEMMA RemovedEntries ==
    ASSUME SingleEntries, RegistryTypeOK, NEW n \in Names,
           component_delete_first_name(n),
           resource_remove_all_component_by_name(n)
    PROVE  SingleEntries'
<1>1. DOMAIN component' = DOMAIN component \ {n}
  BY DEF component_delete_first_name
<1>2. ASSUME NEW r \in DOMAIN subscribed', NEW m \in Names
      PROVE  subscribed'[r][m] <= IF m \in DOMAIN component' THEN 1 ELSE 0
  <2>1. r \in DOMAIN subscribed /\ subscribed'[r] = OneLess(subscribed[r], n)
    BY <1>2 DEF resource_remove_all_component_by_name
  <2>2. subscribed[r][m] \in Nat
    BY <2>1 DEF RegistryTypeOK, Bag
  <2>3. subscribed'[r][m] = IF m = n /\ subscribed[r][m] > 0
                            THEN subscribed[r][m] - 1 ELSE subscribed[r][m]
    BY <2>1 DEF OneLess
  <2>4. subscribed[r][m] <= IF m \in DOMAIN component THEN 1 ELSE 0
    BY <2>1 DEF SingleEntries
  <2> QED
    BY <1>1, <2>2, <2>3, <2>4
<1> QED
  BY <1>2 DEF SingleEntries

(* The actions that change the tables keep the entries single. *)
LEMMA EntriesStep ==
    ASSUME ListedOnce, LockDiscipline, [Next]_vars, SingleEntries
    PROVE  SingleEntries'
<1>0. RegistryTypeOK
  BY DEF LockDiscipline, TypeOK
<1>1. CASE UNCHANGED <<component, subscribed>>
  BY <1>1 DEF SingleEntries
<1>2. ASSUME NEW reg \in Registrations, register_procedure_create(reg),
             register_create_status(reg) = "OK"
      PROVE  SingleEntries'
  <2>1. component_add_node({reg}) /\ resource_append_component_by_name({reg})
    BY <1>2 DEF register_procedure_create, register_create
  <2>2. \A g \in {reg} : g.name \notin DOMAIN component
    BY <1>2 DEF register_create_status, component_is_registered
  <2> QED
    BY <1>0, <1>2, <2>1, <2>2, AddedEntries
<1>3. ASSUME NEW n \in Names, register_procedure_delete(n),
             component_is_registered(n), register_delete_status(n) = "OK"
      PROVE  SingleEntries'
  <2>1. component_delete_first_name(n) /\ resource_remove_all_component_by_name(n)
    BY <1>3 DEF register_procedure_delete, register_delete
  <2> QED
    BY <1>0, <1>3, <2>1, RemovedEntries
<1>4. CASE sanji_connect_callback
  <2> DEFINE missing == {b \in Builtins : ~ component_is_registered(b.name)}
  <2>1. component_add_node(missing) /\ resource_append_component_by_name(missing)
    BY <1>4 DEF sanji_connect_callback, connect_builtins
  <2>2. /\ missing \in SUBSET (Registrations \cup Builtins)
        /\ \A g \in missing : g.name \notin DOMAIN component
    BY DEF component_is_registered
  <2> HIDE DEF missing
  <2> QED
    BY <1>0, <2>1, <2>2, AddedEntries
<1>5. CASE routing_req_finish
  BY <1>1, <1>5 DEF routing_req_finish, session_lock_rollback,
                    session_node_lock_by_step, registryVars
<1>6. ASSUME NEW id \in Ids, NEW code \in {"OK", "FAIL"}, routing_res(id, code)
      PROVE  SingleEntries'
  BY <1>1, <1>6 DEF routing_res, session_step_update, session_step_stop,
                    session_node_unlock_by_step, registryVars
<1>7. ASSUME NEW d \in Ticks, session_decref_ttl(d)
      PROVE  SingleEntries'
  BY <1>1, <1>7 DEF session_decref_ttl, session_step_stop, session_node_unlock_by_step
<1>8. ASSUME NEW reg \in Registrations, register_procedure_create(reg),
             register_create_status(reg) # "OK"
      PROVE  SingleEntries'
  BY <1>1, <1>8 DEF register_procedure_create, register_create, registryVars
<1>9. ASSUME NEW n \in Names, register_procedure_delete(n),
             ~ (component_is_registered(n) /\ register_delete_status(n) = "OK")
      PROVE  SingleEntries'
  BY <1>1, <1>9 DEF register_procedure_delete, register_delete, registryVars
<1>10. \/ UNCHANGED <<component, subscribed>>
       \/ routing_req_finish
       \/ \E id \in Ids, code \in {"OK", "FAIL"} : routing_res(id, code)
       \/ \E d \in Ticks : session_decref_ttl(d)
       \/ \E reg \in Registrations : register_procedure_create(reg)
       \/ \E n \in Names : register_procedure_delete(n)
       \/ sanji_connect_callback
  BY DEF Next, vars, registryVars, routing_req, routing_req_level, routing_req_spins,
         routing_event, register_procedure_refuse
<1> QED
  BY <1>1, <1>2, <1>3, <1>4, <1>5, <1>6, <1>7, <1>8, <1>9, <1>10

(* When no registration names a resource twice, a subscriber list never    *)
(* holds a component that is not registered, whatever is registered,       *)
(* deregistered, refused or reconnected, and in whatever order.            *)
THEOREM NeverStale ==
    ASSUME ListedOnce
    PROVE  Spec => []NoStaleSubscription
<1>1. Init => SingleEntries
  <2> SUFFICES ASSUME Init, NEW r \in DOMAIN subscribed, NEW n \in Names
               PROVE  subscribed[r][n] <= IF n \in DOMAIN component THEN 1 ELSE 0
    BY DEF SingleEntries
  <2>1. subscribed[r][n] = Asked(Builtins, r, n)
    BY DEF Init, RegistryInit
  <2>2. DOMAIN component = {b.name : b \in Builtins}
    BY DEF Init, RegistryInit
  <2>3. r \in Resources
    BY DEF Init, RegistryInit, Listed
  <2>4. CASE \E g \in Builtins : g.name = n
    <3> DEFINE g == CHOOSE h \in Builtins : h.name = n
    <3>1. g \in Builtins /\ g.name = n
      BY <2>4
    <3>2. Asked(Builtins, r, n) = g.resources[r]
      BY <2>4 DEF Asked
    <3> HIDE DEF g
    <3>3. g.resources[r] <= 1
      BY <2>3, <3>1 DEF ListedOnce
    <3> QED
      BY <2>1, <2>2, <3>1, <3>2, <3>3
  <2>5. CASE ~ \E g \in Builtins : g.name = n
    BY <2>1, <2>2, <2>5 DEF Asked
  <2> QED
    BY <2>4, <2>5
<1>2. LockDiscipline /\ SingleEntries /\ [Next]_vars => SingleEntries'
  BY EntriesStep
<1>3. LockDiscipline /\ SingleEntries => NoStaleSubscription
  <2> SUFFICES ASSUME LockDiscipline, SingleEntries, NEW r \in DOMAIN subscribed,
                      NEW n \in Members(subscribed[r])
               PROVE  n \in DOMAIN component
    BY DEF NoStaleSubscription
  <2>1. n \in Names /\ subscribed[r][n] > 0 /\ subscribed[r][n] \in Nat
    BY DEF Members, LockDiscipline, TypeOK, RegistryTypeOK, Bag
  <2>2. subscribed[r][n] <= IF n \in DOMAIN component THEN 1 ELSE 0
    BY <2>1 DEF SingleEntries
  <2> QED
    BY <2>1, <2>2
<1> QED
  BY <1>1, <1>2, <1>3, LockDisciplineHolds, PTL DEF Spec
-----------------------------------------------------------------------------
(* Answers *)

(* m ends the session i: an answer with its id that is not the refusal of  *)
(* a second request.                                                       *)
Closes(m, i) ==
    m.type = "reply" /\ m.id = i /\ m.code \notin {"FORBIDDEN", "NOT_FOUND"}

(* Fields of the messages that a handler publishes. *)
LEMMA ReplyCloses ==
    ASSUME NEW id, NEW tunnel, NEW code, NEW views, NEW i
    PROVE  Closes(Reply(id, tunnel, code, views), i)
             <=> id = i /\ code \notin {"FORBIDDEN", "NOT_FOUND"}
BY DEF Closes, Reply

(* A step of a session, an answer of the registration model and an event   *)
(* end no session.                                                         *)
LEMMA OthersCloseNothing ==
    ASSUME NEW m, m.type # "reply", NEW i
    PROVE  ~ Closes(m, i)
BY DEF Closes

(* session_step_stop answers the sessions that end, and no others. *)
LEMMA StopAnswers ==
    ASSUME NEW ends, NEW code \in {"OK", "FAIL", "TIMEOUT"},
           session_step_stop(ends, code), NEW i
    PROVE  i \in ends <=> \E m \in sent' : Closes(m, i)
<1>1. sent' = {Reply(j, sessions[j].tunnel, code, Reachable(sessions[j].views)) : j \in ends}
  BY DEF session_step_stop
<1>2. \A j \in ends :
         Closes(Reply(j, sessions[j].tunnel, code, Reachable(sessions[j].views)), i) <=> j = i
  BY ReplyCloses
<1> QED
  BY <1>1, <1>2

(* Every step of the controller drops the sessions that it answers and     *)
(* answers the sessions that it drops.                                     *)
LEMMA AnswerStep ==
    ASSUME LockDiscipline, Next, NEW i \in DOMAIN sessions
    PROVE  \/ UNCHANGED vars
           \/ i \notin DOMAIN sessions' <=> \E m \in sent' : Closes(m, i)
<1> DEFINE Silent == i \in DOMAIN sessions' /\ \A m \in sent' : ~ Closes(m, i)
           Goal == i \notin DOMAIN sessions' <=> \E m \in sent' : Closes(m, i)
<1>1. Silent => Goal
  OBVIOUS
<1>2. ASSUME NEW id, NEW write, NEW tunnel, NEW t, routing_req(id, write, tunnel, t)
      PROVE  Silent
  <2> DEFINE rs == sanji_match_resource_list(t)
             status == routing_req_status(id, rs)
             views == WithRole(sanji_get_subscribed_component(rs), "view")
  <2>1. i \in DOMAIN sessions' /\ sent' \subseteq {Reply(id, tunnel, status, views)}
    BY <1>2 DEF routing_req, routing_error_response_all
  <2>2. id = i => status \in {"FORBIDDEN", "NOT_FOUND"}
    BY DEF routing_req_status
  <2> HIDE DEF status, views
  <2>3. ~ Closes(Reply(id, tunnel, status, views), i)
    BY <2>2, ReplyCloses
  <2> QED
    BY <2>1, <2>3
<1>3. routing.busy => routing.id # i
  BY DEF LockDiscipline, RoutingSound
<1>4. CASE routing_req_level
  <2> DEFINE views == WithRole(sanji_get_subscribed_component(routing.resource_list), "view")
  <2>1. /\ i \in DOMAIN sessions' /\ routing.busy
        /\ sent' \subseteq {Reply(routing.id, routing.tunnel, "LOCKED", views)}
    BY <1>4 DEF routing_req_level, routing_error_response_all
  <2> HIDE DEF views
  <2> QED
    BY <1>3, <2>1, ReplyCloses
<1>5. CASE routing_req_finish
  <2> DEFINE views == WithRole(sanji_get_subscribed_component(routing.resource_list), "view")
             step == StepMessage(routing.id, routing.chain[1].models)
  <2>1. i \in DOMAIN sessions' /\ routing.busy
    BY <1>5 DEF routing_req_finish
  <2>2. \/ \E code : sent' = {Reply(routing.id, routing.tunnel, code, views)}
        \/ sent' = {step}
    BY <1>5 DEF routing_req_finish, routing_error_response_all
  <2>3. step.type # "reply"
    BY DEF StepMessage
  <2> HIDE DEF views, step
  <2> QED
    BY <1>3, <2>1, <2>2, <2>3, ReplyCloses, OthersCloseNothing
<1>6. ASSUME NEW id \in Ids, NEW code \in {"OK", "FAIL"}, routing_res(id, code)
      PROVE  Goal
  <2>1. CASE /\ session_step_stop({id}, "OK") \/ session_step_stop({id}, "FAIL")
             /\ sessions' = [j \in DOMAIN sessions \ {id} |-> sessions[j]]
    <3>1. i = id <=> \E m \in sent' : Closes(m, i)
      BY <2>1, StopAnswers
    <3> QED
      BY <2>1, <3>1
  <2>2. CASE DOMAIN sessions' = DOMAIN sessions /\ \A m \in sent' : m.type = "step"
    BY <2>2, OthersCloseNothing
  <2> QED
    BY <1>6, <2>1, <2>2 DEF routing_res, session_step_update, StepMessage
<1>7. ASSUME NEW d \in Ticks, session_decref_ttl(d)
      PROVE  Goal
  <2> DEFINE expired == {j \in DOMAIN sessions : Expired(Aged(sessions[j], d))}
  <2>1. /\ DOMAIN sessions' = DOMAIN sessions \ expired
        /\ session_step_stop(expired, "TIMEOUT")
    BY <1>7 DEF session_decref_ttl
  <2> HIDE DEF expired
  <2>2. i \in expired <=> \E m \in sent' : Closes(m, i)
    BY <2>1, StopAnswers
  <2> QED
    BY <2>1, <2>2
<1>8. ASSUME sessions' = sessions, \A m \in sent' : m.type \in {"event", "register"}
      PROVE  Goal
  BY <1>8, OthersCloseNothing
<1>9. ASSUME NEW t, routing_event(t) PROVE Goal
  BY <1>8, <1>9 DEF routing_event, EventMessage
<1>10. CASE register_procedure_refuse
  BY <1>8, <1>10 DEF register_procedure_refuse, Registered
<1>11. ASSUME NEW reg, register_procedure_create(reg) PROVE Goal
  BY <1>8, <1>11 DEF register_procedure_create, register_answers, Registered
<1>12. ASSUME NEW n, register_procedure_delete(n) PROVE Goal
  BY <1>8, <1>12 DEF register_procedure_delete, register_answers, Registered
<1>13. CASE sanji_connect_callback
  BY <1>8, <1>13 DEF sanji_connect_callback
<1>14. CASE routing_req_spins
  BY <1>14 DEF routing_req_spins
<1> QED
  BY <1>1, <1>2, <1>4, <1>5, <1>6, <1>7, <1>9, <1>10, <1>11, <1>12, <1>13, <1>14 DEF Next

(* A session ends exactly when an answer with its id is published: none is *)
(* dropped in silence and none goes on after its answer.                   *)
THEOREM SessionsEndWithReply == Spec => EndsWithReply
<1>1. LockDiscipline /\ [Next]_vars =>
         [\A i \in DOMAIN sessions :
             i \notin DOMAIN sessions' <=>
                \E m \in sent' : /\ m.type = "reply" /\ m.id = i
                                 /\ m.code \notin {"FORBIDDEN", "NOT_FOUND"}]_vars
  BY AnswerStep DEF Closes
<1> QED
  BY <1>1, LockDisciplineHolds, PTL DEF Spec, EndsWithReply
-----------------------------------------------------------------------------
(* Where the tables come from *)

(* Every subscriber of a resource has a registration of its name that      *)
(* lists the resource, and every registered component one that gives it    *)
(* its role: the tables hold nothing that was never asked for.             *)
TablesAsked ==
    /\ \A r \in DOMAIN subscribed, n \in Names : subscribed[r][n] > 0 =>
          \E g \in Registrations \cup Builtins : g.name = n /\ r \in Listed(g)
    /\ \A n \in DOMAIN component :
          \E g \in Registrations \cup Builtins :
             g.name = n /\ g.role = component[n].role

(* What Asked counts was asked for. *)
LEMMA AskedListed ==
    ASSUME NEW gs \in SUBSET (Registrations \cup Builtins),
           NEW r \in Resources, NEW n, Asked(gs, r, n) > 0
    PROVE  \E g \in Registrations \cup Builtins : g.name = n /\ r \in Listed(g)
<1>1. CASE \E g \in gs : g.name = n
  <2> DEFINE g == CHOOSE h \in gs : h.name = n
  <2>1. g \in gs /\ g.name = n
    BY <1>1
  <2>2. Asked(gs, r, n) = g.resources[r]
    BY <1>1 DEF Asked
  <2> HIDE DEF g
  <2> QED
    BY <2>1, <2>2 DEF Listed
<1>2. CASE ~ \E g \in gs : g.name = n
  BY <1>2 DEF Asked
<1> QED
  BY <1>1, <1>2

(* Registering adds what the registrations ask for. *)
LEMMA AddedAsked ==
    ASSUME TablesAsked, RegistryTypeOK,
           NEW gs \in SUBSET (Registrations \cup Builtins),
           component_add_node(gs),
           resource_append_component_by_name(gs)
    PROVE  TablesAsked'
<1>1. DOMAIN component' = DOMAIN component \cup {g.name : g \in gs}
  BY DEF component_add_node
<1>2. DOMAIN subscribed' = DOMAIN subscribed \cup UNION {Listed(g) : g \in gs}
  BY DEF resource_append_component_by_name
<1>3. gs \subseteq Registration /\ DOMAIN subscribed' \subseteq Resources
  BY <1>2, RegistryAssumption DEF RegistryTypeOK, Listed
<1>4. ASSUME NEW r \in DOMAIN subscribed', NEW n \in Names, subscribed'[r][n] > 0
      PROVE  \E g \in Registrations \cup Builtins : g.name = n /\ r \in Listed(g)
  <2> DEFINE old == IF r \in DOMAIN subscribed THEN subscribed[r][n] ELSE 0
             new == IF r \in resource_lock THEN 0 ELSE Asked(gs, r, n)
  <2>1. subscribed'[r][n] = old + new
    BY <1>2, <1>4 DEF resource_append_component_by_name
  <2>2. old \in Nat
    BY DEF RegistryTypeOK, Bag
  <2>3. Asked(gs, r, n) \in Nat
    BY <1>3, <1>4, AskedType
  <2>4. CASE old > 0
    BY <2>4 DEF TablesAsked
  <2>5. CASE Asked(gs, r, n) > 0
    BY <1>3, <1>4, <2>5, AskedListed
  <2> QED
    BY <1>4, <2>1, <2>2, <2>3, <2>4, <2>5
<1>5. ASSUME NEW n \in DOMAIN component'
      PROVE  \E g \in Registrations \cup Builtins :
                g.name = n /\ g.role = component'[n].role
  <2>1. CASE \E g \in gs : g.name = n
    <3> DEFINE g == CHOOSE g \in gs : g.name = n
    <3>1. g \in gs /\ g.name = n
      BY <2>1
    <3>2. component'[n] = [role |-> g.role, hook |-> g.hook, ttl |-> g.ttl]
      BY <1>1, <1>5, <2>1 DEF component_add_node
    <3> HIDE DEF g
    <3> QED
      BY <3>1, <3>2
  <2>2. CASE ~ \E g \in gs : g.name = n
    <3>1. n \in DOMAIN component /\ component'[n] = component[n]
      BY <1>1, <1>5, <2>2 DEF component_add_node
    <3> QED
      BY <3>1 DEF TablesAsked
  <2> QED
    BY <2>1, <2>2
<1> QED
  BY <1>4, <1>5 DEF TablesAsked

(* Deregistering adds nothing. *)
LEMMA RemovedAsked ==
    ASSUME TablesAsked, RegistryTypeOK, NEW n \in Names,
           component_delete_first_name(n),
           resource_remove_all_component_by_name(n)
    PROVE  TablesAsked'
<1>1. \A m \in DOMAIN component' : m \in DOMAIN component /\ component'[m] = component[m]
  BY DEF component_delete_first_name
<1>2. ASSUME NEW r \in DOMAIN subscribed', NEW m \in Names, subscribed'[r][m] > 0
      PROVE  r \in DOMAIN subscribed /\ subscribed[r][m] > 0
  <2>1. r \in DOMAIN subscribed /\ subscribed'[r] = OneLess(subscribed[r], n)
    BY <1>2 DEF resource_remove_all_component_by_name
  <2>2. subscribed[r][m] \in Nat
    BY <2>1 DEF RegistryTypeOK, Bag
  <2> QED
    BY <1>2, <2>1, <2>2 DEF OneLess
<1> QED
  BY <1>1, <1>2 DEF TablesAsked

(* The actions that change the tables are the three registration handlers. *)
LEMMA TableSteps ==
    ASSUME [Next]_vars
    PROVE  \/ UNCHANGED <<component, subscribed>>
           \/ \E reg \in Registrations :
                 /\ component_add_node({reg})
                 /\ resource_append_component_by_name({reg})
           \/ \E n \in Names :
                 /\ component_delete_first_name(n)
                 /\ resource_remove_all_component_by_name(n)
           \/ \E gs \in SUBSET Builtins :
                 /\ component_add_node(gs)
                 /\ resource_append_component_by_name(gs)
<1>1. CASE routing_req_finish
  BY <1>1 DEF routing_req_finish, session_lock_rollback,
              session_node_lock_by_step, registryVars
<1>2. ASSUME NEW id, NEW code, routing_res(id, code)
      PROVE  UNCHANGED <<component, subscribed>>
  BY <1>2 DEF routing_res, session_step_update, session_step_stop,
              session_node_unlock_by_step, registryVars
<1>3. ASSUME NEW d, session_decref_ttl(d)
      PROVE  UNCHANGED <<component, subscribed>>
  BY <1>3 DEF session_decref_ttl, session_step_stop, session_node_unlock_by_step
<1>4. ASSUME NEW reg \in Registrations, register_procedure_create(reg)
      PROVE  \/ UNCHANGED <<component, subscribed>>
             \/ /\ component_add_node({reg})
                /\ resource_append_component_by_name({reg})
  BY <1>4 DEF register_procedure_create, register_create, registryVars
<1>5. ASSUME NEW n \in Names, register_procedure_delete(n)
      PROVE  \/ UNCHANGED <<component, subscribed>>
             \/ /\ component_delete_first_name(n)
                /\ resource_remove_all_component_by_name(n)
  BY <1>5 DEF register_procedure_delete, register_delete, registryVars
<1>6. CASE sanji_connect_callback
  <2> DEFINE missing == {b \in Builtins : ~ component_is_registered(b.name)}
  <2>1. component_add_node(missing) /\ resource_append_component_by_name(missing)
    BY <1>6 DEF sanji_connect_callback, connect_builtins
  <2>2. missing \in SUBSET Builtins
    OBVIOUS
  <2> HIDE DEF missing
  <2> QED
    BY <2>1, <2>2
<1>7. \/ UNCHANGED <<component, subscribed>>
      \/ routing_req_finish
      \/ \E id \in Ids, code \in {"OK", "FAIL"} : routing_res(id, code)
      \/ \E d \in Ticks : session_decref_ttl(d)
      \/ \E reg \in Registrations : register_procedure_create(reg)
      \/ \E n \in Names : register_procedure_delete(n)
      \/ sanji_connect_callback
  BY DEF Next, vars, registryVars, routing_req, routing_req_level, routing_req_spins,
         routing_event, register_procedure_refuse
<1> QED
  BY <1>1, <1>2, <1>3, <1>4, <1>5, <1>6, <1>7

(* Nothing gets into the tables but what a registration asks for. *)
LEMMA AskedStep ==
    ASSUME LockDiscipline, [Next]_vars, TablesAsked
    PROVE  TablesAsked'
<1>0. RegistryTypeOK
  BY DEF LockDiscipline, TypeOK
<1>1. CASE UNCHANGED <<component, subscribed>>
  BY <1>1 DEF TablesAsked
<1>2. ASSUME NEW gs \in SUBSET (Registrations \cup Builtins),
             component_add_node(gs), resource_append_component_by_name(gs)
      PROVE  TablesAsked'
  BY <1>0, <1>2, AddedAsked
<1>3. ASSUME NEW n \in Names, component_delete_first_name(n),
             resource_remove_all_component_by_name(n)
      PROVE  TablesAsked'
  BY <1>0, <1>3, RemovedAsked
<1>4. /\ \A reg \in Registrations : {reg} \in SUBSET (Registrations \cup Builtins)
      /\ \A gs \in SUBSET Builtins : gs \in SUBSET (Registrations \cup Builtins)
  OBVIOUS
<1> QED
  BY <1>1, <1>2, <1>3, <1>4, TableSteps

(* The first connection registers what the built-in models ask for. *)
LEMMA AskedInit == Init => TablesAsked
<1> SUFFICES ASSUME Init PROVE TablesAsked
  OBVIOUS
<1>1. ASSUME NEW r \in DOMAIN subscribed, NEW n \in Names, subscribed[r][n] > 0
      PROVE  \E g \in Registrations \cup Builtins : g.name = n /\ r \in Listed(g)
  <2>1. subscribed[r][n] = Asked(Builtins, r, n) /\ r \in Resources
    BY DEF Init, RegistryInit, Listed
  <2>2. Builtins \in SUBSET (Registrations \cup Builtins)
    OBVIOUS
  <2> QED
    BY <1>1, <2>1, <2>2, AskedListed
<1>2. ASSUME NEW n \in DOMAIN component
      PROVE  \E g \in Registrations \cup Builtins : g.name = n /\ g.role = component[n].role
  <2> DEFINE b == CHOOSE b \in Builtins : b.name = n
  <2>1. b \in Builtins /\ b.name = n
    BY DEF Init, RegistryInit
  <2>2. component[n] = [role |-> b.role, hook |-> b.hook, ttl |-> b.ttl]
    BY DEF Init, RegistryInit
  <2> HIDE DEF b
  <2> QED
    BY <2>1, <2>2
<1> QED
  BY <1>1, <1>2 DEF TablesAsked

-----------------------------------------------------------------------------
(* The dependencies of a write *)

(* The names that may be models, and: no resource is listed under two of   *)
(* them.  The code does not ask for it: without it the rollback of a       *)
(* refused write, and the end of another, unlock resources of a write that *)
(* is in flight.                                                           *)
ModelNames == {g.name : g \in {h \in Registrations \cup Builtins : h.role = "model"}}

ResourcesApart ==
    \A g, h \in Registrations \cup Builtins :
        g.name \in ModelNames /\ h.name \in ModelNames /\ g.name # h.name =>
            Listed(g) \cap Listed(h) = {}

(* Then a resource has one model at most among its subscribers. *)
LEMMA OneModelEach ==
    ASSUME ResourcesApart, TablesAsked,
           NEW m \in Names, NEW n \in Names, NEW r,
           component_is_given_role(m, "model"), component_is_given_role(n, "model"),
           r \in resource_get_names_by_component(m),
           r \in resource_get_names_by_component(n)
    PROVE  m = n
<1>1. m \in ModelNames /\ n \in ModelNames
  BY DEF TablesAsked, component_is_given_role, component_is_registered, ModelNames
<1>2. /\ r \in DOMAIN subscribed
      /\ \E g \in Registrations \cup Builtins : g.name = m /\ r \in Listed(g)
      /\ \E g \in Registrations \cup Builtins : g.name = n /\ r \in Listed(g)
  BY DEF TablesAsked, resource_get_names_by_component
<1> QED
  BY <1>1, <1>2 DEF ResourcesApart

(* A chain asks components. *)
LEMMA ChainNames ==
    ASSUME NEW chain
    PROVE  ChainModels(chain) \subseteq Names
BY DEF ChainModels, Members

(* Sessions end: the writes that go on depend on nothing that is unlocked. *)
LEMMA EndHolds ==
    ASSUME ResourcesApart, LockDiscipline, TablesAsked, DependencyHeld,
           NEW ends \in SUBSET DOMAIN sessions,
           session_node_unlock_by_step(ends),
           DOMAIN sessions' = DOMAIN sessions \ ends,
           \A i \in DOMAIN sessions' :
              /\ sessions'[i].write = sessions[i].write
              /\ sessions'[i].dependency = sessions[i].dependency
    PROVE  DependencyHeld'
<1>1. resource_lock' = resource_lock \ UNION {sessions[i].dependency : i \in ends \cap Writers}
  BY EndUnlocks
<1> SUFFICES ASSUME NEW w \in Writers', NEW r \in sessions'[w].dependency
             PROVE  r \in resource_lock'
  BY DEF DependencyHeld
<1>2. w \in Writers /\ w \notin ends /\ r \in sessions[w].dependency
  BY DEF Writers
<1>3. ASSUME NEW i \in ends \cap Writers PROVE r \notin sessions[i].dependency
  <2> SUFFICES ASSUME r \in sessions[i].dependency PROVE FALSE
    OBVIOUS
  <2>1. PICK m \in ChainModels(sessions[w].chain) : r \in resource_get_names_by_component(m)
    BY <1>2 DEF LockDiscipline, DependencyBacked
  <2>2. PICK n \in ChainModels(sessions[i].chain) : r \in resource_get_names_by_component(n)
    BY <1>3 DEF LockDiscipline, DependencyBacked
  <2>3. component_is_given_role(m, "model") /\ component_is_given_role(n, "model")
    BY <1>2, <1>3 DEF LockDiscipline, WritersPinned
  <2>4. m \in Names /\ n \in Names
    BY ChainNames
  <2>5. m = n
    BY <2>1, <2>2, <2>3, <2>4, OneModelEach
  <2> QED
    BY <1>2, <1>3, <2>5 DEF LockDiscipline, ModelExclusion
<1>4. r \in resource_lock
  BY <1>2 DEF DependencyHeld
<1> QED
  BY <1>1, <1>3, <1>4

(* A write is refused at its locks: what its rollback clears is not locked *)
(* for another write, since none of its models is locked.                  *)
LEMMA RollbackHolds ==
    ASSUME ResourcesApart, LockDiscipline, TablesAsked, DependencyHeld,
           routing.busy, session_lock_rollback, UNCHANGED sessions
    PROVE  DependencyHeld'
<1>1. resource_lock' = resource_lock \ routing.dependency
  BY DEF session_lock_rollback
<1> SUFFICES ASSUME NEW w \in Writers, NEW r \in sessions[w].dependency
             PROVE  r \in resource_lock'
  BY DEF DependencyHeld, Writers
<1>2. ASSUME r \in routing.dependency PROVE FALSE
  <2>1. PICK m \in ChainModels(sessions[w].chain) : r \in resource_get_names_by_component(m)
    BY DEF LockDiscipline, DependencyBacked
  <2>2. PICK n \in ChainModels(routing.chain) : r \in resource_get_names_by_component(n)
    BY <1>2 DEF LockDiscipline, RoutingSound
  <2>3. /\ component_is_given_role(m, "model") /\ m \in component_lock
        /\ component_is_given_role(n, "model") /\ n \notin component_lock
    BY DEF LockDiscipline, WritersPinned, RoutingSound
  <2>4. m \in Names /\ n \in Names
    BY ChainNames
  <2> QED
    BY <2>1, <2>2, <2>3, <2>4, OneModelEach
<1>3. r \in resource_lock
  BY DEF DependencyHeld
<1> QED
  BY <1>1, <1>2, <1>3

(* Every action leaves the dependencies of the writes in flight locked. *)
LEMMA HeldStep ==
    ASSUME ResourcesApart, LockDiscipline, TablesAsked, DependencyHeld, [Next]_vars
    PROVE  DependencyHeld'
<1>1. CASE UNCHANGED <<resource_lock, sessions>>
  BY <1>1 DEF DependencyHeld, Writers
<1>2. CASE routing_req_finish
  <2>1. routing.busy
    BY <1>2 DEF routing_req_finish
  <2>2. CASE session_lock_rollback /\ UNCHANGED sessions
    BY <2>1, <2>2, RollbackHolds
  <2>3. CASE /\ sessions' = [i \in DOMAIN sessions \cup {routing.id} |->
                    IF i = routing.id THEN NextStep(session_create_node) ELSE sessions[i]]
             /\ IF routing.write THEN session_node_lock_by_step ELSE UNCHANGED registryVars
    <3> DEFINE s == NextStep(session_create_node)
    <3>1. s.write = routing.write /\ s.dependency = routing.dependency
      BY DEF NextStep, session_create_node
    <3> HIDE DEF s
    <3>2. /\ resource_lock \subseteq resource_lock'
          /\ routing.write => routing.dependency \subseteq resource_lock'
      BY <2>3 DEF session_node_lock_by_step, registryVars
    <3>3. \A i \in DOMAIN sessions' : sessions'[i] = IF i = routing.id THEN s ELSE sessions[i]
      BY <2>3 DEF s
    <3>4. DOMAIN sessions' = DOMAIN sessions \cup {routing.id}
      BY <2>3
    <3> QED
      BY <3>1, <3>2, <3>3, <3>4 DEF DependencyHeld, Writers
  <2>4. CASE UNCHANGED <<registryVars, sessions>>
    BY <1>1, <2>4 DEF registryVars
  <2> QED
    BY <1>2, <2>2, <2>3, <2>4 DEF routing_req_finish
<1>3. ASSUME NEW id \in Ids, NEW code \in {"OK", "FAIL"}, routing_res(id, code)
      PROVE  DependencyHeld'
  <2> DEFINE s == sessions[id]
  <2>1. CASE UNCHANGED <<registryVars, sessions>>
    BY <1>1, <2>1 DEF registryVars
  <2>2. CASE /\ session_node_unlock_by_step({id}) /\ id \in DOMAIN sessions
             /\ sessions' = [i \in DOMAIN sessions \ {id} |-> sessions[i]]
    BY <2>2, EndHolds
  <2>3. ASSUME UNCHANGED registryVars, NEW t, sessions' = [sessions EXCEPT ![id] = t],
               t.write = s.write, t.dependency = s.dependency
        PROVE  DependencyHeld'
    <3>1. /\ DOMAIN sessions' = DOMAIN sessions /\ resource_lock' = resource_lock
          /\ \A i \in DOMAIN sessions : /\ sessions'[i].write = sessions[i].write
                                        /\ sessions'[i].dependency = sessions[i].dependency
      BY <2>3 DEF registryVars
    <3> QED
      BY <3>1 DEF DependencyHeld, Writers
  <2>4. ASSUME UNCHANGED registryVars, NEW k, id \in DOMAIN sessions,
               sessions' = [sessions EXCEPT ![id].wait = k]
        PROVE  DependencyHeld'
    <3> DEFINE t == [s EXCEPT !.wait = k]
    <3>1. sessions' = [sessions EXCEPT ![id] = t]
      BY <2>4
    <3>2. s \in Session
      BY <2>4 DEF LockDiscipline, TypeOK
    <3>3. t.write = s.write /\ t.dependency = s.dependency
      BY <3>2 DEF Session
    <3> HIDE DEF t
    <3> QED
      BY <2>3, <2>4, <3>1, <3>3
  <2>5. ASSUME UNCHANGED registryVars, id \in DOMAIN sessions,
               sessions' = [sessions EXCEPT ![id] = NextStep(s)]
        PROVE  DependencyHeld'
    <3>1. s \in Session
      BY <2>5 DEF LockDiscipline, TypeOK
    <3>2. NextStep(s).write = s.write /\ NextStep(s).dependency = s.dependency
      BY <3>1 DEF NextStep, Session
    <3> QED
      BY <2>3, <2>5, <3>2
  <2> QED
    BY <1>3, <2>1, <2>2, <2>4, <2>5 DEF routing_res, session_step_update, session_step_stop
<1>4. ASSUME NEW d \in Ticks, session_decref_ttl(d)
      PROVE  DependencyHeld'
  <2> DEFINE expired == {i \in DOMAIN sessions : Expired(Aged(sessions[i], d))}
  <2>1. /\ sessions' = [i \in DOMAIN sessions \ expired |-> Aged(sessions[i], d)]
        /\ session_node_unlock_by_step(expired)
    BY <1>4 DEF session_decref_ttl, session_step_stop
  <2>2. expired \in SUBSET DOMAIN sessions /\ d \in Nat
    BY ControllerAssumption
  <2> HIDE DEF expired
  <2>3. ASSUME NEW i \in DOMAIN sessions
        PROVE  /\ Aged(sessions[i], d).write = sessions[i].write
               /\ Aged(sessions[i], d).dependency = sessions[i].dependency
    <3>1. sessions[i] \in Session /\ sessions[i].step \in 1 .. Len(sessions[i].chain)
      BY DEF LockDiscipline, TypeOK
    <3> QED
      BY <2>2, <3>1, AgedType
  <2> QED
    BY <2>1, <2>2, <2>3, EndHolds
<1>5. UNCHANGED <<resource_lock, sessions>> \/ routing_req_finish
        \/ (\E id \in Ids, code \in {"OK", "FAIL"} : routing_res(id, code))
        \/ (\E d \in Ticks : session_decref_ttl(d))
  BY DEF Next, vars, registryVars, routing_req, routing_req_level, routing_req_spins,
         routing_event, register_procedure_create, register_create,
         register_procedure_delete, register_delete, register_procedure_refuse,
         sanji_connect_callback, connect_builtins
<1> QED
  BY <1>1, <1>2, <1>3, <1>4, <1>5

(* When no resource is listed under two names that may be models, the      *)
(* dependency resources of a write stay locked from its admission to its   *)
(* answer, whatever is refused, rolled back, answered or timed out         *)
(* meanwhile, and although deregistration does not clean the lists.        *)
THEOREM DependenciesStayHeld ==
    ASSUME ResourcesApart
    PROVE  Spec => []DependencyHeld
<1>1. Init => DependencyHeld
  BY DEF Init, DependencyHeld, Writers
<1>2. LockDiscipline /\ TablesAsked /\ [Next]_vars => TablesAsked'
  BY AskedStep
<1>3. LockDiscipline /\ TablesAsked /\ DependencyHeld /\ [Next]_vars => DependencyHeld'
  BY HeldStep
<1> QED
  BY <1>1, <1>2, <1>3, AskedInit, LockDisciplineHolds, PTL DEF Spec
=============================================================================
