------------------------------- MODULE IniMap -------------------------------
(***************************************************************************)
(* What the store of ini.c promises its readers: a map from keys to        *)
(* values.  A step gives one key a value and leaves all others alone, or   *)
(* empties the map as a whole.                                             *)
(***************************************************************************)
CONSTANTS IniKeys, Null

VARIABLE map  \* key -> value, or Null

Nothing == [k \in IniKeys |-> Null]

Init == map = Nothing

set(k) == \A j \in IniKeys \ {k} : map'[j] = map[j]

clear == map' = Nothing

Next ==
    \/ \E k \in IniKeys : set(k)
    \/ clear

Spec == Init /\ [][Next]_map
=============================================================================
