----------------------------- MODULE Dependency -----------------------------
(***************************************************************************)
(* The resource dependency lookup: a client asks which resources a write   *)
(* to a topic would lock.  dependency_read is a search of its own, written *)
(* after the one of routing_req but without views, locks and sessions; the *)
(* two have to agree.                                                      *)
(***************************************************************************)
EXTENDS Controller

(* variant: a single round of hooks is followed *)
dependency_level_once(rs) ==
    [k \in 0 .. MaxSteps |->
        IF k = 0 THEN sanji_get_subscribed_component(rs)
        ELSE IF k = 1
        THEN Hooks(WithRole(sanji_get_subscribed_component(rs), "model"))
        ELSE EmptyBag]

(* The components that each iteration of the search loop looks at. *)
dependency_level(rs) ==
    LET level[k \in 0 .. MaxSteps] ==
            IF k = 0 THEN sanji_get_subscribed_component(rs)
            ELSE Hooks(WithRole(level[k - 1], "model"))
    IN  level

(* The resources of all the models that the loop meets. *)
dependency_read(rs) ==
    LET level == dependency_level(rs)
        models == UNION {Members(WithRole(level[k], "model")) : k \in 0 .. MaxSteps}
    IN  UNION {resource_get_names_by_component(m) : m \in models}

dependency_read_status(rs) ==
    IF rs = {} THEN "NOT_FOUND"
    ELSE IF Members(sanji_get_subscribed_component(rs)) = {} THEN "NOT_IMPLEMENTED"
    ELSE "OK"

dependency_response(code, rs) ==
    [type |-> "dependency", code |-> code, resources |-> rs]

(* A request for another resource is answered with BAD_REQUEST first, and  *)
(* goes on all the same.                                                   *)
dependency_answers(answers) ==
    {answers, answers \cup {dependency_response("BAD_REQUEST", {})}}

(* A READ of the dependencies of topic t.  Like routing_req, the loop      *)
(* never ends when the hooks it follows form a cycle; those tables are     *)
(* left out.                                                               *)
lookup_resource_dependency_procedure(t) ==
    LET rs == sanji_match_resource_list(t)
        code == dependency_read_status(rs)
    IN  /\ ~ routing.busy
        /\ Members(dependency_level(rs)[MaxSteps]) = {}
        /\ sent' \in dependency_answers(
                {dependency_response(code,
                    IF code = "OK" THEN dependency_read(rs) ELSE {})})
        /\ UNCHANGED <<registryVars, sessions, routing>>

(* Another method is not allowed, a READ without '?resource=' is forbidden *)
(* and a READ of the bare topic is both, in two answers.                   *)
lookup_resource_dependency_refuse(codes) ==
    /\ ~ routing.busy
    /\ sent' \in dependency_answers({dependency_response(code, {}) : code \in codes})
    /\ UNCHANGED <<registryVars, sessions, routing>>

DependencyNext ==
    \/ Next
    \/ \E t \in Topics : lookup_resource_dependency_procedure(t)
    \/ \E codes \in SUBSET {"METHOD_NOT_ALLOWED", "FORBIDDEN"} \ {{}} :
          lookup_resource_dependency_refuse(codes)

DependencySpec == Init /\ [][DependencyNext]_vars

-----------------------------------------------------------------------------
(* The models that a write to the resources rs reaches, without a search:  *)
(* the least set that holds the models among the subscribers and every     *)
(* model that hooks one of its members.                                    *)
Reached(rs) ==
    LET models == {n \in DOMAIN component : component[n].role = "model"}
        closed == {S \in SUBSET models :
                      /\ \A r \in rs, m \in models : subscribed[r][m] > 0 => m \in S
                      /\ \A m \in S, h \in models : m \in component[h].hook => h \in S}
    IN  {m \in models : \A S \in closed : m \in S}

(* Whatever has been registered and deregistered, the lookup answers with  *)
(* the resources of the models that a write reaches, no more and no less.  *)
LookupIsClosure ==
    \A t \in Topics :
        LET rs == sanji_match_resource_list(t)
        IN  Members(dependency_level(rs)[MaxSteps]) = {} =>
               dependency_read(rs) = {r \in DOMAIN subscribed :
                                         \E m \in Reached(rs) : subscribed[r][m] > 0}

(* A write that is admitted locks exactly the resources that the lookup    *)
(* announces for its topic, and only an admitted write locks any.          *)
LocksAsAnnounced ==
    [][LET admitted == {i \in DOMAIN sessions' \ DOMAIN sessions : sessions'[i].write}
       IN  resource_lock' \ resource_lock =
              IF admitted = {} THEN {}
              ELSE dependency_read(routing.resource_list)]_vars
=============================================================================
