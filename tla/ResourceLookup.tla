--------------------------- MODULE ResourceLookup ---------------------------
(***************************************************************************)
(* Which registered resources a request or an event is about: the wildcard *)
(* lookup, the exact lookup of sanji_match_resource, and their union in    *)
(* sanji_match_resource_list, on a resource list that changes.             *)
(***************************************************************************)
EXTENDS WildcardMatch

CONSTANTS
    Patterns,   \* resource names that components may register
    Requested,  \* the 'resource' field of requests and events
    MaxTable    \* bound: resources registered at the same time

ASSUME LookupAssumption ==
    /\ Patterns \subseteq Seq(STRING)
    /\ Requested \subseteq Seq(STRING)

VARIABLES
    table,  \* the resource list, in order
    topic,  \* the topic of the handler that runs, << >> between handlers
    list    \* resource_list: what the lookup returned

vars == <<table, topic, list>>

-----------------------------------------------------------------------------
(* A loop over the nodes of s that appends those in S to its result. *)
Select(s, S) ==
    LET upto[n \in 0 .. Len(s)] ==
            IF n = 0 THEN << >>
            ELSE IF s[n] \in S THEN Append(upto[n - 1], s[n]) ELSE upto[n - 1]
    IN  upto[Len(s)]

resource_lookup_wildcard_nodes_by_name(t) ==
    Select(table, {p \in Range(table) : wildcard_matches(p, t)})

sanji_match_resource(t) == Select(table, {truncate(t)})

(* variant: the exact match is added without looking for it in the list *)
match_resource_twice(t) ==
    resource_lookup_wildcard_nodes_by_name(t) \o sanji_match_resource(t)

(* The wildcard matches, and the exact one if it is not among them. *)
sanji_match_resource_list(t) ==
    LET wild == resource_lookup_wildcard_nodes_by_name(t)
    IN  wild \o Select(sanji_match_resource(t), {truncate(t)} \ Range(wild))

-----------------------------------------------------------------------------
Init ==
    /\ table = << >>
    /\ topic = << >>
    /\ list = << >>

(* A resource gets a node when the first component subscribes to it, and   *)
(* loses it with the last one.                                             *)
resource_append(p) ==
    /\ topic = << >>
    /\ Len(table) < MaxTable
    /\ table' = IF p \in Range(table) THEN table ELSE Append(table, p)
    /\ UNCHANGED <<topic, list>>

resource_remove(p) ==
    /\ topic = << >>
    /\ p \in Range(table)
    /\ table' = Select(table, Range(table) \ {p})
    /\ UNCHANGED <<topic, list>>

(* A handler looks its topic up, uses the list and frees it before the     *)
(* next handler starts.                                                    *)
lookup(t) ==
    /\ topic = << >>
    /\ topic' = t
    /\ list' = sanji_match_resource_list(t)
    /\ UNCHANGED table

handler_returns ==
    /\ topic # << >>
    /\ topic' = << >>
    /\ list' = << >>
    /\ UNCHANGED table

Next ==
    \/ \E p \in Patterns : resource_append(p)
    \/ \E p \in Patterns : resource_remove(p)
    \/ \E t \in Requested : lookup(t)
    \/ handler_returns

Spec == Init /\ [][Next]_vars

-----------------------------------------------------------------------------
(* A lookup finds exactly the registered resources that match by levels:   *)
(* the character scan of resource_lookup_wildcard_nodes_by_name never      *)
(* runs over a level boundary, stops too early, or takes the query string  *)
(* for a part of the name.                                                 *)
FoundByLevel ==
    \A p \in Range(table) :
        WellFormed(p) /\ topic # << >> /\ Concrete(topic) =>
            (p \in Range(list) <=> ByLevel(p, topic))

(* No resource is in the list twice, although an exact name is found by    *)
(* both scans: its models would stand twice in the chain of a write, and   *)
(* the write would fail on its own lock.                                   *)
FoundOnce == \A i, j \in DOMAIN list : list[i] = list[j] => i = j
=============================================================================
