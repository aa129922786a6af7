--------------------------- MODULE MCResourceLookup --------------------------
(* Bounded names and topics for the run of ResourceLookup. *)
EXTENDS ResourceLookup

Strings(chars, n) == UNION {[1 .. k -> chars] : k \in 1 .. n}

(* Every name of up to four characters, and longer ones with several       *)
(* wildcards, malformed ones among them.                                   *)
SomePatterns ==
    {p \in Strings({"a", "/", "+", "#"}, 4) : WellFormed(p)} \cup
    {<<"+", "/", "a", "/", "+">>, <<"+", "/", "+", "/", "#">>,
     <<"a", "+">>, <<"a", "#", "b">>}

(* Every topic of up to four characters, longer ones, and topics that      *)
(* spell a wildcard or hold two query marks themselves.                    *)
SomeTopics ==
    {t \in Strings({"a", "b", "/", "?"}, 4) : Concrete(t)} \cup
    {<<"a", "/", "b", "?", "c">>, <<"a", "/", "a", "/", "b">>,
     <<"b", "/", "a", "/", "a">>, <<"b", "/", "a", "/", "/", "a">>,
     <<"a", "/", "+">>, <<"a", "/", "#">>, <<"a", "?", "b", "?", "c">>}
=============================================================================
