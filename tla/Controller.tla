----------------------------- MODULE Controller -----------------------------
(***************************************************************************)
(* The controller process: routing of requests, responses and events       *)
(* (routing_req, routing_res, routing_event), the sessions of in-flight    *)
(* requests and their locks (session.c), the TTL clock, registration and   *)
(* reconnection.                                                           *)
(*                                                                         *)
(* The process is one thread: mosquitto_loop runs one message callback at  *)
(* a time and sanji_refresh_session runs between two of them.  Every       *)
(* handler is therefore one action, except routing_req, whose search loop  *)
(* over the hooks has no bound in the code: it is one action per iteration *)
(* and no other action is enabled while it runs.                           *)
(*                                                                         *)
(* The environment is open: any request, response, registration or event   *)
(* may arrive at any time, so lost, duplicated, late and wrongly addressed *)
(* responses are all included.                                             *)
(***************************************************************************)
EXTENDS Registry, Sequences

CONSTANTS
    Ids,       \* request identifiers
    Topics,    \* values of the 'resource' field of a request or an event
    Matches,   \* Matches[t]: the resource names that topic t matches
    Ticks,     \* seconds that may pass between two refreshes
    WaitMod,   \* curr_wait is an unsigned int: its modulus
    MaxSteps   \* bound: iterations of the search loop that are recorded

VARIABLES
    sessions,  \* id -> session node, for the requests in flight
    routing,   \* the local variables of routing_req while its loop runs
    sent       \* the messages published by the last handler

vars == <<registryVars, sessions, routing, sent>>

ASSUME ControllerAssumption ==
    /\ Matches \in [Topics -> SUBSET Resources]
    /\ Ticks \subseteq Nat \ {0}
    /\ WaitMod \in Nat \ {0}
    /\ MaxSteps \in Nat \ {0}

-----------------------------------------------------------------------------
(* One step of a model chain: the models that are asked at the same time   *)
(* and what is left of the ttl of each.                                    *)
ChainStep == [models : Bag, ttls : [Names -> Int]]

Session ==
    [write : BOOLEAN,               \* resource_is_write_like_method(method)
     tunnel : BOOLEAN,              \* did the request carry a 'tunnel'
     dependency : SUBSET Resources, \* dependency_chain
     chain : Seq(ChainStep),        \* model_chain
     views : Bag,                   \* view_chain
     step : Nat,                    \* curr_step
     wait : Nat]                    \* curr_wait

Locals ==
    [busy : {TRUE}, id : Ids, write : BOOLEAN, tunnel : BOOLEAN,
     resource_list : SUBSET Resources,
     level : Bag,                   \* subscribed_component
     dependency : SUBSET Resources, chain : Seq(ChainStep), views : Bag]

Idle == [busy |-> FALSE]

Code == {"OK", "FAIL", "LOCKED", "NOT_FOUND", "NOT_IMPLEMENTED", "FORBIDDEN",
         "UNAVAILABLE", "TIMEOUT"}

(* A published message: a step of a session to its models, the answer to a *)
(* request, the answer of the registration model, or an event.             *)
StepMessage(id, to) == [type |-> "step", id |-> id, to |-> to]

(* If we get a tunnel, only respond to it.  With neither a tunnel nor a    *)
(* view that can be reached the answer is addressed to nobody, and nothing *)
(* is published.                                                           *)
Reply(id, tunnel, code, views) ==
    [type |-> "reply", id |-> id, code |-> code, tunnel |-> tunnel,
     to |-> IF tunnel THEN EmptyBag ELSE views]

Registered(status) == [type |-> "register", ok |-> status = "OK"]

EventMessage(to) == [type |-> "event", to |-> to]

(* Publishing to a name that is no longer registered publishes nothing:    *)
(* component_get_tunnel_by_name returns NULL.                              *)
Reachable(b) == [n \in Names |-> IF component_is_registered(n) THEN b[n] ELSE 0]

-----------------------------------------------------------------------------
(* Searching the chains *)

sanji_match_resource_list(t) == Matches[t] \cap DOMAIN subscribed

sanji_get_subscribed_component(rs) ==
    [n \in Names |-> Cardinality(UNION {{r} \X (1 .. subscribed[r][n]) : r \in rs})]

WithRole(b, role) ==
    [n \in Names |-> IF component_is_given_role(n, role) THEN b[n] ELSE 0]

(* The names that hook the models of a step, once for every model entry. *)
Hooks(models) ==
    [h \in Names |->
        Cardinality(UNION {{m} \X (1 .. models[m]) :
            m \in {k \in Names : h \in component_get_names_by_hook(k)}})]

NewStep(models) ==
    [models |-> models,
     ttls |-> [n \in Names |-> IF models[n] > 0 THEN component[n].ttl ELSE 0]]

ChainModels(chain) == UNION {Members(chain[i].models) : i \in DOMAIN chain}

(* Some model has two entries in the chain: locking it fails the second    *)
(* time.                                                                   *)
Repeats(chain) ==
    \E m \in Names, i, j \in DOMAIN chain :
        /\ chain[i].models[m] > 0 /\ chain[j].models[m] > 0
        /\ i # j \/ chain[i].models[m] > 1

-----------------------------------------------------------------------------
(* Answering a request with an error: every view that subscribes to one of *)
(* the matched resources, unless the request carried a tunnel.             *)

routing_error_response_all(id, tunnel, rs, code) ==
    sent' = {Reply(id, tunnel, code,
                   WithRole(sanji_get_subscribed_component(rs), "view"))}

routing_req_status(id, rs) ==
    IF rs = {} THEN "NOT_FOUND"
    ELSE IF id \in DOMAIN sessions THEN "FORBIDDEN"
    ELSE IF rs \cap resource_lock # {} THEN "LOCKED"
    ELSE IF Members(sanji_get_subscribed_component(rs)) = {} THEN "NOT_IMPLEMENTED"
    ELSE "OK"

(* routing_req up to its search loop. *)
routing_req(id, write, tunnel, t) ==
    LET rs == sanji_match_resource_list(t)
        status == routing_req_status(id, rs)
    IN  /\ ~ routing.busy
        /\ \/ /\ status # "OK"
              /\ routing_error_response_all(id, tunnel, rs, status)
              /\ UNCHANGED routing
           \/ /\ status = "OK"
              /\ routing' = [busy |-> TRUE, id |-> id, write |-> write,
                             tunnel |-> tunnel, resource_list |-> rs,
                             level |-> sanji_get_subscribed_component(rs),
                             dependency |-> {}, chain |-> << >>,
                             views |-> EmptyBag]
              /\ sent' = {}
        /\ UNCHANGED <<registryVars, sessions>>

(* variant: a model is not looked at for its lock *)
component_never_locked(models) == FALSE

component_any_locked(models) == Members(models) \cap component_lock # {}

(* One iteration: a locked model refuses the request; otherwise its models *)
(* make a step of the chain and, for a write, their resources are          *)
(* dependencies and the components that hook them make the next level.     *)
routing_req_level ==
    LET models == WithRole(routing.level, "model")
        views == WithRole(routing.level, "view")
    IN  /\ routing.busy
        /\ Members(routing.level) # {}
        /\ Len(routing.chain) < MaxSteps
        /\ \/ /\ component_any_locked(models)
              /\ routing_error_response_all(routing.id, routing.tunnel,
                                            routing.resource_list, "LOCKED")
              /\ routing' = Idle
           \/ /\ ~ component_any_locked(models)
              /\ routing' = [routing EXCEPT
                    !.chain = Append(@, NewStep(models)),
                    !.dependency =
                        IF routing.write
                        THEN @ \cup UNION {resource_get_names_by_component(m) :
                                             m \in Members(models)}
                        ELSE @,
                    !.views = [n \in Names |-> @[n] + views[n]],
                    !.level = IF routing.write THEN Hooks(models) ELSE EmptyBag]
              /\ sent' = {}
        /\ UNCHANGED <<registryVars, sessions>>

(* Hooks that form a cycle keep the loop running for ever; the model stops *)
(* recording its iterations at MaxSteps.                                   *)
routing_req_spins ==
    /\ routing.busy
    /\ Members(routing.level) # {}
    /\ Len(routing.chain) >= MaxSteps
    /\ UNCHANGED vars

(* session_node_lock_by_step locks the dependencies and then the models of *)
(* all steps; it fails at the first node that is locked already.           *)
session_node_lock_fails ==
    \/ routing.dependency \cap resource_lock # {}
    \/ ChainModels(routing.chain) \cap component_lock # {}
    \/ Repeats(routing.chain)

(* variant: the requested resources are locked, not the dependency chain *)
session_node_lock_requested ==
    /\ resource_lock' = resource_lock \cup routing.resource_list
    /\ component_lock' = component_lock \cup ChainModels(routing.chain)
    /\ UNCHANGED <<component, subscribed>>

session_node_lock_by_step ==
    /\ resource_lock' = resource_lock \cup routing.dependency
    /\ component_lock' = component_lock \cup ChainModels(routing.chain)
    /\ UNCHANGED <<component, subscribed>>

(* The rollback of a failed lock clears the flags of all the dependencies  *)
(* and models of the request, the ones it found locked included.           *)
session_lock_rollback ==
    /\ resource_lock' = resource_lock \ routing.dependency
    /\ component_lock' = component_lock \ ChainModels(routing.chain)
    /\ UNCHANGED <<component, subscribed>>

session_create_node ==
    [write |-> routing.write, tunnel |-> routing.tunnel,
     dependency |-> routing.dependency, chain |-> routing.chain,
     views |-> routing.views, step |-> 0, wait |-> 0]

(* variant: the number of steps instead of the number of models *)
session_node_wait_steps(s, k) == Len(s.chain)

(* session_step on a session that is not at its last step. *)
session_node_update_wait(s, k) == Size(s.chain[k].models)

(* variant: curr_step is incremented twice *)
NextStepTwice(s) ==
    LET k == IF s.step + 2 <= Len(s.chain) THEN s.step + 2 ELSE s.step + 1
    IN  [s EXCEPT !.step = k, !.wait = session_node_update_wait(s, k)]

NextStep(s) ==
    [s EXCEPT !.step = s.step + 1,
              !.wait = session_node_update_wait(s, s.step + 1)]

(* routing_req after its loop, with session_create_node, the lock, its     *)
(* rollback, session_add and the first session_step.                       *)
routing_req_finish ==
    LET no_model == Members(routing.chain[1].models) = {}
        refuse(code) ==
            /\ routing_error_response_all(routing.id, routing.tunnel,
                                          routing.resource_list, code)
            /\ UNCHANGED sessions
    IN  /\ routing.busy
        /\ Members(routing.level) = {}
        /\ routing' = Idle
        /\ \/ /\ no_model
              /\ refuse("FORBIDDEN")
              /\ UNCHANGED registryVars
           \/ /\ ~ no_model /\ routing.write /\ session_node_lock_fails
              /\ refuse("UNAVAILABLE")
              /\ session_lock_rollback
           \/ /\ ~ no_model /\ ~ (routing.write /\ session_node_lock_fails)
              /\ sessions' = [i \in DOMAIN sessions \cup {routing.id} |->
                    IF i = routing.id THEN NextStep(session_create_node)
                    ELSE sessions[i]]
              /\ sent' = {StepMessage(routing.id, routing.chain[1].models)}
              /\ IF routing.write THEN session_node_lock_by_step
                 ELSE UNCHANGED registryVars

-----------------------------------------------------------------------------
(* Sessions *)

(* variant: only the models of the current step are unlocked *)
session_node_unlock_current(ends) ==
    LET writers == {i \in ends : sessions[i].write}
    IN  /\ UNCHANGED <<component, subscribed>>
        /\ resource_lock' =
              resource_lock \ UNION {sessions[i].dependency : i \in writers}
        /\ component_lock' = component_lock \
              UNION {Members(sessions[i].chain[sessions[i].step].models) : i \in writers}

(* session_node_unlock_by_step clears the locks of a write one by one and  *)
(* returns at the first name that is not registered any more: the locks it *)
(* has reached by then are any of those that still exist.  A write that is *)
(* stuck at a resource leaves its models alone.                            *)
session_node_unlock_by_step(ends) ==
    LET writers == {i \in ends : sessions[i].write}
        models(i) == ChainModels(sessions[i].chain)
        stuck == {i \in writers : ~ sessions[i].dependency \subseteq DOMAIN subscribed}
        half == {i \in writers \ stuck : ~ models(i) \subseteq DOMAIN component}
    IN  /\ UNCHANGED <<component, subscribed>>
        /\ \E some \in SUBSET UNION {sessions[i].dependency : i \in stuck} :
              resource_lock' = resource_lock \
                  (some \cup UNION {sessions[i].dependency : i \in writers \ stuck})
        /\ \E some \in SUBSET UNION {models(i) : i \in half} :
              component_lock' = component_lock \
                  (some \cup UNION {models(i) : i \in writers \ (stuck \cup half)})

(* variant: only a session that succeeds is answered *)
session_step_stop_silent(ends, code) ==
    /\ sent' = {Reply(i, sessions[i].tunnel, code, Reachable(sessions[i].views)) :
                  i \in {e \in ends : code = "OK"}}
    /\ session_node_unlock_by_step(ends)

(* The sessions in ends are over: answer, unlock, free. *)
session_step_stop(ends, code) ==
    /\ sent' = {Reply(i, sessions[i].tunnel, code, Reachable(sessions[i].views)) :
                  i \in ends}
    /\ session_node_unlock_by_step(ends)

(* An unsigned decrement. *)
session_node_decref_wait(s) == IF s.wait = 0 THEN WaitMod - 1 ELSE s.wait - 1

(* A response is counted for the current step: the session fails, goes on  *)
(* waiting, moves to its next step or succeeds.                            *)
session_step_update(id, code) ==
    LET s == sessions[id]
        wait == session_node_decref_wait(s)
    IN  \/ /\ code # "OK"
           /\ session_step_stop({id}, "FAIL")
           /\ sessions' = [i \in DOMAIN sessions \ {id} |-> sessions[i]]
        \/ /\ code = "OK" /\ wait # 0
           /\ sessions' = [sessions EXCEPT ![id].wait = wait]
           /\ sent' = {}
           /\ UNCHANGED registryVars
        \/ /\ code = "OK" /\ wait = 0 /\ s.step < Len(s.chain)
           /\ sessions' = [sessions EXCEPT ![id] = NextStep(s)]
           /\ sent' = {StepMessage(id, Reachable(s.chain[s.step + 1].models))}
           /\ UNCHANGED registryVars
        \/ /\ code = "OK" /\ wait = 0 /\ s.step >= Len(s.chain)
           /\ session_step_stop({id}, "OK")
           /\ sessions' = [i \in DOMAIN sessions \ {id} |-> sessions[i]]

(* routing_res: a response is matched to a session by its id alone. *)
routing_res(id, code) ==
    /\ ~ routing.busy
    /\ UNCHANGED routing
    /\ \/ /\ id \notin DOMAIN sessions
          /\ sent' = {}
          /\ UNCHANGED <<registryVars, sessions>>
       \/ /\ id \in DOMAIN sessions
          /\ session_step_update(id, code)

(* variant: only the first step of a chain ages *)
AgedFirstStep(s, pass_time) ==
    IF s.step = 1
    THEN [s EXCEPT !.chain[1].ttls = [n \in Names |-> @[n] - pass_time]]
    ELSE s

(* pass_time comes off the ttl of every model of the current step, whether *)
(* it has answered or not.                                                 *)
Aged(s, pass_time) ==
    [s EXCEPT !.chain[s.step].ttls =
        [n \in Names |-> IF s.chain[s.step].models[n] > 0
                        THEN @[n] - pass_time ELSE @[n]]]

Expired(s) ==
    \E n \in Members(s.chain[s.step].models) : s.chain[s.step].ttls[n] <= 0

(* variant: an expired session is answered and not freed *)
session_decref_ttl_kept(pass_time) ==
    LET expired == {i \in DOMAIN sessions : Expired(Aged(sessions[i], pass_time))}
    IN  /\ ~ routing.busy
        /\ sessions' = [i \in DOMAIN sessions |-> Aged(sessions[i], pass_time)]
        /\ session_step_stop(expired, "TIMEOUT")
        /\ UNCHANGED routing

(* sanji_refresh_session: all sessions age, the expired ones are dropped. *)
session_decref_ttl(pass_time) ==
    LET expired == {i \in DOMAIN sessions : Expired(Aged(sessions[i], pass_time))}
    IN  /\ ~ routing.busy
        /\ sessions' = [i \in DOMAIN sessions \ expired |->
                           Aged(sessions[i], pass_time)]
        /\ session_step_stop(expired, "TIMEOUT")
        /\ UNCHANGED routing

(* routing_event: nothing is kept, the views of the topic are told. *)
routing_event(t) ==
    LET to == WithRole(sanji_get_subscribed_component(
                         sanji_match_resource_list(t)), "view")
    IN  /\ ~ routing.busy
        /\ sent' = IF Members(to) = {} THEN {} ELSE {EventMessage(to)}
        /\ UNCHANGED <<registryVars, sessions, routing>>

(* A 'resource' that is not the one of the registration model is answered  *)
(* as a bad request, but register_procedure goes on and answers again.     *)
register_answers(status) ==
    {{Registered(status)}, {Registered("BAD_REQUEST"), Registered(status)}}

(* A method that is not supported, or a request that is incomplete. *)
register_procedure_refuse ==
    /\ ~ routing.busy
    /\ sent' = {Registered("BAD_REQUEST")}
    /\ UNCHANGED <<registryVars, sessions, routing>>

register_procedure_create(reg) ==
    /\ ~ routing.busy
    /\ sent' \in register_answers(register_create_status(reg))
    /\ register_create(reg)
    /\ UNCHANGED <<sessions, routing>>

register_procedure_delete(n) ==
    /\ ~ routing.busy
    /\ sent' \in register_answers(register_delete_status(n))
    /\ register_delete(n)
    /\ UNCHANGED <<sessions, routing>>

(* A reconnection keeps the tables and the sessions. *)
sanji_connect_callback ==
    /\ ~ routing.busy
    /\ sent' = {}
    /\ connect_builtins
    /\ UNCHANGED <<sessions, routing>>

-----------------------------------------------------------------------------
Init ==
    /\ RegistryInit
    /\ sessions = [i \in {} |-> EmptyBag]
    /\ routing = Idle
    /\ sent = {}

Next ==
    \/ \E id \in Ids, write, tunnel \in BOOLEAN, t \in Topics :
          routing_req(id, write, tunnel, t)
    \/ routing_req_level
    \/ routing_req_spins
    \/ routing_req_finish
    \/ \E id \in Ids, code \in {"OK", "FAIL"} : routing_res(id, code)
    \/ \E d \in Ticks : session_decref_ttl(d)
    \/ \E t \in Topics : routing_event(t)
    \/ \E reg \in Registrations : register_procedure_create(reg)
    \/ \E n \in Names : register_procedure_delete(n)
    \/ register_procedure_refuse
    \/ sanji_connect_callback

Spec == Init /\ [][Next]_vars

(* routing_req is straight-line code in one thread: it runs on.  The main  *)
(* loop calls sanji_refresh_session after every call of mosquitto_loop,    *)
(* which handles a bounded number of packets, so no traffic can hold the   *)
(* clock back for ever: strong fairness, since requests disable it again   *)
(* and again.  Nothing is assumed of the models or of the network.         *)
Fairness ==
    /\ WF_vars(routing_req_level)
    /\ WF_vars(routing_req_finish)
    /\ SF_vars(\E d \in Ticks : session_decref_ttl(d))

FairSpec == Spec /\ Fairness

-----------------------------------------------------------------------------
(* Safety *)

Writers == {i \in DOMAIN sessions : sessions[i].write}

(* The state has its shape; in particular the step that session_step and   *)
(* session_decref_ttl index model_chain with always exists, and only       *)
(* registered nodes are locked.                                            *)
TypeOK ==
    /\ RegistryTypeOK
    /\ DOMAIN sessions \subseteq Ids
    /\ sessions \in [DOMAIN sessions -> Session]
    /\ \A i \in DOMAIN sessions : sessions[i].step \in 1 .. Len(sessions[i].chain)
    /\ routing \in Locals \cup {Idle}

(* While a write is in flight its models keep their registration, their    *)
(* role and their lock, and its dependency resources keep theirs: a        *)
(* registration, deregistration, other session or reconnection in between  *)
(* cannot make the unlock of the session return early.                     *)
WritersPinned ==
    \A w \in Writers :
        /\ \A m \in ChainModels(sessions[w].chain) :
              component_is_given_role(m, "model") /\ m \in component_lock
        /\ sessions[w].dependency \subseteq DOMAIN subscribed

(* No model serves two writes at once: the lock of routing_req and         *)
(* session_node_lock_by_step is exclusive.                                 *)
ModelExclusion ==
    \A v, w \in Writers : v # w =>
        ChainModels(sessions[v].chain) \cap ChainModels(sessions[w].chain) = {}

(* A lock never outlives the write that took it: every locked node belongs *)
(* to a write in flight, whatever happened to the tables meanwhile.        *)
NoLockLeak ==
    /\ component_lock \subseteq UNION {ChainModels(sessions[w].chain) : w \in Writers}
    /\ resource_lock \subseteq UNION {sessions[w].dependency : w \in Writers}

(* "lock all related resource/models for write-like method": the           *)
(* dependency resources of a write stay locked until it ends.              *)
DependencyHeld ==
    \A w \in Writers : sessions[w].dependency \subseteq resource_lock

(* curr_wait never underflows and never exceeds what was asked, whatever   *)
(* responses arrive, as long as no step of the chain is without models.    *)
WaitInRange ==
    \A i \in DOMAIN sessions :
        LET s == sessions[i]
        IN  (\A k \in DOMAIN s.chain : Members(s.chain[k].models) # {}) =>
                s.wait \in 1 .. Size(s.chain[s.step].models)

(* A request, read or write, is only admitted when none of its models      *)
(* serves a write in flight.                                               *)
AdmissionExclusive ==
    [][\A i \in DOMAIN sessions' \ DOMAIN sessions : \A w \in Writers :
          ChainModels(sessions'[i].chain) \cap ChainModels(sessions[w].chain) = {}]_vars

(* A session ends exactly when its answer is made, for the tunnel or for   *)
(* the views that are left (an answer that is addressed to nobody is not   *)
(* published, see Reply); the only other answers with its id refuse a      *)
(* second request that uses it, because of the id itself or because its    *)
(* topic matches nothing.                                                  *)
EndsWithReply ==
    [][\A i \in DOMAIN sessions :
          i \notin DOMAIN sessions' <=>
             \E m \in sent' : /\ m.type = "reply" /\ m.id = i
                              /\ m.code \notin {"FORBIDDEN", "NOT_FOUND"}]_vars

(* What is true of the local variables of routing_req between two of its   *)
(* iterations: the id is not in use, every model found so far is a         *)
(* registered and unlocked model, every dependency has one of them as a    *)
(* subscriber, and the first iteration has something to look at.           *)
RoutingSound ==
    routing.busy =>
        /\ routing.id \notin DOMAIN sessions
        /\ \A m \in ChainModels(routing.chain) :
              component_is_given_role(m, "model") /\ m \notin component_lock
        /\ \A r \in routing.dependency : \E m \in ChainModels(routing.chain) :
              r \in resource_get_names_by_component(m)
        /\ routing.chain = << >> => Members(routing.level) # {}

(* Every dependency of a write in flight still has a model of its chain as *)
(* a subscriber: this, and the lock of that model, is what keeps the       *)
(* resource from being freed even after its own lock was lost.             *)
DependencyBacked ==
    \A w \in Writers : \A r \in sessions[w].dependency :
        \E m \in ChainModels(sessions[w].chain) :
            r \in resource_get_names_by_component(m)

(* The inductive invariant of the proofs: the lock discipline of the       *)
(* controller as a whole.                                                  *)
LockDiscipline ==
    /\ TypeOK
    /\ ResourcesSubscribed
    /\ RoutingSound
    /\ WritersPinned
    /\ DependencyBacked
    /\ ModelExclusion
    /\ NoLockLeak

-----------------------------------------------------------------------------
(* Refinement *)

Service == INSTANCE LockService WITH
    Models <- Names,
    work <- [i \in DOMAIN sessions |->
               [write |-> sessions[i].write,
                models |-> ChainModels(sessions[i].chain)]],
    locked <- component_lock

(* The search of routing_req, the flags of the component nodes, the        *)
(* rollback of a refused request, the unlock that may return early, the    *)
(* registrations and the clock add up to a lock service: a request starts  *)
(* with all of its models unlocked, a write has the flags of exactly its   *)
(* models until it ends, and a refused request takes no flag away.         *)
ImplementsLockService == Service!Spec

-----------------------------------------------------------------------------
(* Liveness *)

(* A set of registered models each of which is hooked by one of the set    *)
(* holds a cycle of hooks.                                                 *)
HooksAcyclic ==
    \A S \in SUBSET {n \in DOMAIN component : component[n].role = "model"} :
        (\A m \in S : \E h \in S : m \in component[h].hook) => S = {}

(* Every session ends, answered by its models or dropped by its ttl ("will *)
(* refresh every session status in order to drop TTL session"), unless     *)
(* models hook each other in a cycle: a request to them keeps the thread.  *)
SessionsEnd ==
    \A i \in Ids :
        i \in DOMAIN sessions ~> i \notin DOMAIN sessions \/ ~ HooksAcyclic

(* Unless the hooks form a cycle, the search loop of routing_req ends.     *)
HandlerReturns ==
    (routing.busy /\ HooksAcyclic) ~> ~ routing.busy
=============================================================================
