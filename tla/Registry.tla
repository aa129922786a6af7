------------------------------ MODULE Registry ------------------------------
(***************************************************************************)
(* The two tables of the controller: the component list (component.c) and  *)
(* the resource list (resource.c), and the operations that change which    *)
(* names they hold: register_create, register_delete and the registration  *)
(* of the built-in models in sanji_connect_callback.                       *)
(*                                                                         *)
(* A node of either list carries a lock flag.  The flags are kept as the   *)
(* sets component_lock and resource_lock of the names whose flag is 1; the *)
(* operations on them are below, and session.c (module Controller) is      *)
(* what calls them.                                                        *)
(***************************************************************************)
EXTENDS Integers, FiniteSets

CONSTANTS
    Names,          \* component names
    Resources,      \* resource names (a name may be a wildcard pattern)
    Registrations,  \* the registration requests that components send
    Builtins,       \* what the connect callback registers by itself
    MaxCopies       \* bound: entries of one component in one resource

VARIABLES
    component,       \* name -> [role, hook, ttl], for the registered names
    component_lock,  \* registered names whose node is locked
    subscribed,      \* resource -> its subscriber list, as a bag of names
    resource_lock    \* registered resources whose node is locked

registryVars == <<component, component_lock, subscribed, resource_lock>>

-----------------------------------------------------------------------------
(* Lists of component names are bags: the code never depends on the order  *)
(* of a list, but it does depend on how often a name occurs in it.         *)

Bag == [Names -> Nat]

EmptyBag == [n \in Names |-> 0]

Members(b) == {n \in Names : b[n] > 0}

Size(b) == Cardinality(UNION {{n} \X (1 .. b[n]) : n \in Names})

Role == {"model", "view", "other"}

Component == [role : Role, hook : SUBSET Names, ttl : Int]

(* 'resources' of a registration is the list in the request: how often     *)
(* each resource is named.                                                 *)
Registration ==
    [name : Names, role : Role, hook : SUBSET Names, ttl : Int,
     resources : [Resources -> Nat]]

ASSUME RegistryAssumption ==
    /\ IsFiniteSet(Names)
    /\ IsFiniteSet(Resources)
    /\ Registrations \subseteq Registration
    /\ Builtins \subseteq Registration
    /\ \A b, c \in Builtins : b.name = c.name => b = c
    /\ \A g \in Registrations \cup Builtins :
          \E r \in Resources : g.resources[r] > 0
    /\ MaxCopies \in Nat

Listed(reg) == {r \in Resources : reg.resources[r] > 0}

-----------------------------------------------------------------------------
(* Lookups *)

component_is_registered(n) == n \in DOMAIN component

component_is_given_role(n, role) ==
    component_is_registered(n) /\ component[n].role = role

(* variant: the hook entries are not compared with the name *)
component_get_names_with_hook(m) ==
    {h \in DOMAIN component : component[h].hook # {}}

(* Each hooking component appears once, whatever its role. *)
component_get_names_by_hook(m) ==
    {h \in DOMAIN component : m \in component[h].hook}

resource_get_names_by_component(m) ==
    {r \in DOMAIN subscribed : subscribed[r][m] > 0}

resource_is_any_locked_by_component(n) ==
    resource_get_names_by_component(n) \cap resource_lock # {}

-----------------------------------------------------------------------------
(* Node operations *)

(* How many entries of name n the registrations gs ask for in resource r. *)
Asked(gs, r, n) ==
    IF \E g \in gs : g.name = n
    THEN (CHOOSE g \in gs : g.name = n).resources[r]
    ELSE 0

component_add_node(gs) ==
    component' = [n \in DOMAIN component \cup {g.name : g \in gs} |->
                    IF \E g \in gs : g.name = n
                    THEN LET g == CHOOSE g \in gs : g.name = n
                         IN  [role |-> g.role, hook |-> g.hook, ttl |-> g.ttl]
                    ELSE component[n]]

(* Append every listed entry; a locked resource is left as it is, a        *)
(* resource that is not in the list yet gets a node of its own.            *)
resource_append_component_by_name(gs) ==
    subscribed' =
        [r \in DOMAIN subscribed \cup UNION {Listed(g) : g \in gs} |->
            [n \in Names |->
                (IF r \in DOMAIN subscribed THEN subscribed[r][n] ELSE 0)
                + (IF r \in resource_lock THEN 0 ELSE Asked(gs, r, n))]]

(* Removing a component: its node goes, and one entry of it from every     *)
(* subscriber list that has one; a resource whose list becomes empty is    *)
(* freed.  register_delete has made sure that none of these nodes is       *)
(* locked: the LOCKED returns of the two functions cannot be taken.        *)
component_delete_first_name(n) ==
    component' = [m \in DOMAIN component \ {n} |-> component[m]]

OneLess(b, n) ==
    [m \in Names |-> IF m = n /\ b[m] > 0 THEN b[m] - 1 ELSE b[m]]

(* variant: a list that becomes empty keeps its node *)
resource_remove_keeps_empty(n) ==
    subscribed' = [r \in DOMAIN subscribed |-> OneLess(subscribed[r], n)]

(* variant: only one of the resources of n is looked at *)
resource_remove_one_resource(n) ==
    LET one == CHOOSE q \in DOMAIN subscribed : subscribed[q][n] > 0
    IN  subscribed' =
            [r \in {q \in DOMAIN subscribed :
                      q = one => Members(OneLess(subscribed[q], n)) # {}} |->
                IF r = one THEN OneLess(subscribed[r], n) ELSE subscribed[r]]

resource_remove_all_component_by_name(n) ==
    subscribed' =
        [r \in {q \in DOMAIN subscribed : Members(OneLess(subscribed[q], n)) # {}} |->
            OneLess(subscribed[r], n)]

-----------------------------------------------------------------------------
(* Registration *)

register_create_status(reg) ==
    IF Listed(reg) \cap resource_lock # {} THEN "LOCKED"
    ELSE IF component_is_registered(reg.name) THEN "FORBIDDEN"
    ELSE "OK"

register_create(reg) ==
    IF register_create_status(reg) = "OK"
    THEN /\ \A r \in DOMAIN subscribed :
                subscribed[r][reg.name] + reg.resources[r] <= MaxCopies
         /\ component_add_node({reg})
         /\ resource_append_component_by_name({reg})
         /\ UNCHANGED <<component_lock, resource_lock>>
    ELSE UNCHANGED registryVars

(* variant: deregistration does not look at the locks *)
register_delete_unchecked(n) == "OK"

register_delete_status(n) ==
    IF ~ component_is_registered(n) THEN "OK"
    ELSE IF n \in component_lock \/ resource_is_any_locked_by_component(n)
         THEN "LOCKED"
    ELSE "OK"

register_delete(n) ==
    IF component_is_registered(n) /\ register_delete_status(n) = "OK"
    THEN /\ component_delete_first_name(n)
         /\ resource_remove_all_component_by_name(n)
         /\ UNCHANGED <<component_lock, resource_lock>>
    ELSE UNCHANGED registryVars

(* Every (re)connection registers the built-in models that are missing; it *)
(* keeps the tables and does not test the locks first.                     *)
connect_builtins ==
    LET missing == {b \in Builtins : ~ component_is_registered(b.name)}
    IN  /\ component_add_node(missing)
        /\ resource_append_component_by_name(missing)
        /\ UNCHANGED <<component_lock, resource_lock>>

(* The tables after the first connection of a fresh process. *)
RegistryInit ==
    /\ component = [n \in {b.name : b \in Builtins} |->
                      LET b == CHOOSE b \in Builtins : b.name = n
                      IN  [role |-> b.role, hook |-> b.hook, ttl |-> b.ttl]]
    /\ component_lock = {}
    /\ subscribed = [r \in UNION {Listed(b) : b \in Builtins} |->
                       [n \in Names |-> Asked(Builtins, r, n)]]
    /\ resource_lock = {}

-----------------------------------------------------------------------------
(* What the tables keep true *)

RegistryTypeOK ==
    /\ DOMAIN component \subseteq Names
    /\ component \in [DOMAIN component -> Component]
    /\ component_lock \subseteq DOMAIN component
    /\ DOMAIN subscribed \subseteq Resources
    /\ subscribed \in [DOMAIN subscribed -> Bag]
    /\ resource_lock \subseteq DOMAIN subscribed

(* No registered resource has an empty subscriber list: the "resource is   *)
(* not implemented" answers of routing_req and routing_event are           *)
(* unreachable.                                                            *)
ResourcesSubscribed ==
    \A r \in DOMAIN subscribed : Members(subscribed[r]) # {}

(* Every subscriber is a registered component: what register_delete leaves *)
(* behind ("remove component from all resources", resource.c).             *)
NoStaleSubscription ==
    \A r \in DOMAIN subscribed : Members(subscribed[r]) \subseteq DOMAIN component
=============================================================================
