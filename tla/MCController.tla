---------------------------- MODULE MCController ----------------------------
(* Small systems for the runs of Controller. *)
EXTENDS Controller, TLC

Symmetry == Permutations(Ids)

(* a registration that lists each of its resources once *)
Reg(name, role, hook, ttl, rs) ==
    [name |-> name, role |-> role, hook |-> hook, ttl |-> ttl,
     resources |-> [r \in Resources |-> IF r \in rs THEN 1 ELSE 0]]

(* Two models that share resource R, a model that hooks one of them, and a *)
(* view: the writes to R1 and R2 meet on R.                                *)
SharedNames == {"M1", "M2", "H", "V"}
SharedResources == {"R1", "R2", "R"}
SharedRegistrations ==
    {Reg("M1", "model", {}, 1, {"R1", "R"}),
     Reg("M2", "model", {}, 2, {"R2", "R"}),
     Reg("H", "model", {"M1"}, 1, {"R2"}),
     Reg("V", "view", {}, 1, {"R1"})}
SharedTopics == {"t1", "t2", "t12"}
SharedMatches == [t1 |-> {"R1"}, t2 |-> {"R2"}, t12 |-> {"R1", "R2"}]
NoBuiltins == {}

(* Models only, no cycle: a chain of two steps, the second one longer. *)
ChainNames == {"M", "H"}
ChainResources == {"R1", "R2"}
ChainRegistrations ==
    {Reg("M", "model", {}, 1, {"R1"}), Reg("H", "model", {"M"}, 2, {"R2"})}
ChainTopics == {"t1", "t2"}
ChainMatches == [t1 |-> {"R1"}, t2 |-> {"R2"}]

(* M may register with a hook that closes a cycle with H, or without. *)
CycleRegistrations == ChainRegistrations \cup {Reg("M", "model", {"H"}, 1, {"R1"})}

(* A view, and only a view, hooks M. *)
ViewHookRegistrations ==
    {Reg("M", "model", {}, 1, {"R1"}), Reg("H", "view", {"M"}, 1, {"R2"})}
=============================================================================
