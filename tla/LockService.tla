---------------------------- MODULE LockService ----------------------------
(***************************************************************************)
(* What the controller promises its models, without tables, hooks, chains, *)
(* steps, responses or clocks: requests run on sets of models; a request   *)
(* starts only when none of its models is locked, a write then holds all   *)
(* of them, and holds them until it ends.  A read holds nothing: a write   *)
(* may start on the models of a read that is still running.                *)
(***************************************************************************)
CONSTANTS
    Ids,     \* request identifiers
    Models   \* component names

VARIABLES
    work,    \* id -> [write, models], for the requests that run
    locked   \* the models that are held

vars == <<work, locked>>

Work == [write : BOOLEAN, models : SUBSET Models]

(* What the writes among the requests I hold. *)
Held(I) == UNION {work[i].models : i \in {j \in I : work[j].write}}

Init ==
    /\ work = [i \in {} |-> [write |-> FALSE, models |-> {}]]
    /\ locked = {}

begin(i, w) ==
    /\ i \notin DOMAIN work
    /\ w.models # {}
    /\ w.models \cap locked = {}
    /\ work' = [j \in DOMAIN work \cup {i} |-> IF j = i THEN w ELSE work[j]]
    /\ locked' = IF w.write THEN locked \cup w.models ELSE locked

(* One response, or the clock, may end several requests at once. *)
end(I) ==
    /\ work' = [j \in DOMAIN work \ I |-> work[j]]
    /\ locked' = locked \ Held(I)

Next ==
    \/ \E i \in Ids, w \in Work : begin(i, w)
    \/ \E I \in SUBSET DOMAIN work : end(I)

Spec == Init /\ [][Next]_vars
=============================================================================
