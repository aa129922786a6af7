----------------------------- MODULE MCDataMerge -----------------------------
(* Small chains and objects for the runs of DataMerge. *)
EXTENDS DataMerge

AllData == SUBSET Keys

(* One step of any size, and chains whose steps end after one or several   *)
(* responses.                                                              *)
SomeChains ==
    {<<1>>, <<2>>, <<3>>, <<1, 1>>, <<1, 3>>} \cup
    {<<2, 1>>, <<2, 2>>, <<1, 1, 1>>, <<1, 2, 1>>}
=============================================================================
