---------------------------- MODULE MCDependency ----------------------------
(* No resource is shared by two models.  Two levels of hooks above R1; G   *)
(* may hook two models and then is reached twice; W is a view that hooks a *)
(* model: alone it makes a chain step without models.  M is a built-in     *)
(* model.                                                                  *)
EXTENDS Dependency, TLC

Symmetry == Permutations(Ids)

Reg(name, role, hook, rs) ==
    [name |-> name, role |-> role, hook |-> hook, ttl |-> 1,
     resources |-> [r \in Resources |-> IF r \in rs THEN 1 ELSE 0]]

LevelNames == {"M", "H", "G", "W"}
LevelResources == {"R1", "RH", "RG"}
LevelRegistrations ==
    {Reg("H", "model", {"M"}, {"RH"}),
     Reg("G", "model", {"H"}, {"RG"}),
     Reg("G", "model", {"H", "M"}, {"RG"}),
     Reg("W", "view", {"H"}, {"R1"})}
LevelBuiltins == {Reg("M", "model", {}, {"R1"})}
LevelTopics == {"t", "th"}
LevelMatches == [t |-> {"R1"}, th |-> {"RH", "RG"}]
=============================================================================
