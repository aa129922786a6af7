---------------------------- MODULE WildcardMatch ----------------------------
(***************************************************************************)
(* When a registered resource name, which may hold the wildcards '+' and   *)
(* '#', matches the topic of a request or an event: the character scan of  *)
(* resource_lookup_wildcard_nodes_by_name, and a reference definition by   *)
(* levels.  Names and topics are sequences of characters, because the code *)
(* scans characters.  The relation is the constant Matches of Controller.  *)
(***************************************************************************)
EXTENDS Integers, Sequences, Functions, FiniteSetsExt

(* The topic up to its last '?'. *)
truncate(t) ==
    LET marks == {i \in DOMAIN t : t[i] = "?"}
    IN  IF marks = {} THEN t ELSE SubSeq(t, 1, Max(marks) - 1)

(* The index at which the level that holds index j ends. *)
LevelEnd(q, j) == Min({k \in j .. Len(q) : q[k] = "/"} \cup {Len(q) + 1})

(* Where the two pointers stand when the scan loop stops that has them at  *)
(* i and j.  An index past the end stands for the terminating zero.        *)
scan_from(p, q) ==
    LET at[i \in 1 .. Len(p) + 1] ==
            [j \in 1 .. Len(q) + 1 |->
                IF i > Len(p) \/ j > Len(q) THEN <<i, j>>
                ELSE IF p[i] = "#" THEN <<i, j>>
                ELSE IF p[i] = "+"
                     THEN IF q[j] = "/" THEN <<i, j>> ELSE at[i + 1][LevelEnd(q, j)]
                ELSE IF p[i] # q[j] THEN <<i, j>> ELSE at[i + 1][j + 1]]
    IN  at

scan(p, q) == scan_from(p, q)[1][1]

(* variant: a '#' also matches when nothing is left of the topic *)
wildcard_matches_nothing(p, t) ==
    LET q == truncate(t)
        end == scan(p, q)
    IN  \/ end[1] <= Len(p) /\ p[end[1]] = "#"
        \/ end[1] > Len(p) /\ end[2] > Len(q)

wildcard_matches(p, t) ==
    LET q == truncate(t)
        end == scan(p, q)
    IN  \/ end[1] <= Len(p) /\ p[end[1]] = "#" /\ end[2] <= Len(q)
        \/ end[1] > Len(p) /\ end[2] > Len(q)

-----------------------------------------------------------------------------
(* The reference definition: by levels, as MQTT describes its wildcards,   *)
(* but with at least one character for each wildcard (functional tests 252 *)
(* and 253).                                                               *)

(* The levels of s from index j on. *)
LevelsFrom(s) ==
    LET from[j \in 1 .. Len(s) + 1] ==
            LET e == LevelEnd(s, j)
            IN  IF e > Len(s) THEN <<SubSeq(s, j, Len(s))>>
                ELSE <<SubSeq(s, j, e - 1)>> \o from[e + 1]
    IN  from

Levels(s) == LevelsFrom(s)[1]

(* A wildcard is a level of its own, and '#' the last one. *)
WellFormed(p) ==
    LET P == Levels(p)
    IN  /\ "?" \notin Range(p)
        /\ \A k \in DOMAIN P :
              /\ "+" \in Range(P[k]) => P[k] = <<"+">>
              /\ "#" \in Range(P[k]) => P[k] = <<"#">> /\ k = Len(P)

Concrete(t) ==
    /\ "+" \notin Range(t) /\ "#" \notin Range(t)
    /\ \A i, j \in DOMAIN t : t[i] = "?" /\ t[j] = "?" => i = j

(* A topic without its query string. *)
Path(t) ==
    SubSeq(t, 1, Min({i \in DOMAIN t : t[i] = "?"} \cup {Len(t) + 1}) - 1)

LevelMatches(a, b) == a = b \/ (a = <<"+">> /\ b # << >>)

ByLevel(p, t) ==
    LET P == Levels(p)
        Q == Levels(Path(t))
    IN  IF P[Len(P)] = <<"#">>
        THEN /\ Len(Q) >= Len(P)
             /\ \A k \in 1 .. Len(P) - 1 : LevelMatches(P[k], Q[k])
             /\ Len(Q) > Len(P) \/ Q[Len(P)] # << >>
        ELSE /\ Len(Q) = Len(P)
             /\ \A k \in DOMAIN P : LevelMatches(P[k], Q[k])
=============================================================================
