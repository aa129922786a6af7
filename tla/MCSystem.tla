------------------------------ MODULE MCSystem ------------------------------
(* Clients that register, deregister and write, for the runs of System. *)
EXTENDS System

Reg(name, hook, ttl, rs) ==
    [name |-> name, role |-> "model", hook |-> hook, ttl |-> ttl,
     resources |-> [r \in Resources |-> IF r \in rs THEN 1 ELSE 0]]

(* Model M serves R1, model H hooks it and serves R2. *)
SomeNames == {"registration", "M", "H"}
SomeResources == {"reg", "reg/+", "R1", "R2"}
RegM == Reg("M", {}, 1, {"R1"})
RegH == Reg("H", {"M"}, 1, {"R2"})
SomeRegistrations == {RegM, RegH}
SomeBuiltins == {Reg("registration", {}, 1, {"reg", "reg/+"})}
SomeTopics == {"t1", "reg", "reg/M"}
SomeMatches == [t \in SomeTopics |-> CASE t = "t1" -> {"R1"} [] t = "reg" -> {"reg"}
                                       [] t = "reg/M" -> {"reg/+"}]
SomeRegisterTopics == {"reg", "reg/M"}

W(topic, method, resource, name, reg) ==
    [topic |-> topic, form |-> "fine", event |-> FALSE, method |-> method,
     resource |-> resource, tunnel |-> TRUE, complete |-> TRUE, name |-> name, reg |-> reg]

CreateM == W("controller", "POST", "reg", "M", RegM)
CreateH == W("controller", "POST", "reg", "H", RegH)
DeleteM == W("controller", "DELETE", "reg/M", "M", RegM)
Write == W("controller", "PUT", "t1", "none", RegM)
Unnamed == [DeleteM EXCEPT !.topic = "registration", !.resource = "reg", !.name = "none"]
NoMethod == [Write EXCEPT !.method = "none"]
Event == [Write EXCEPT !.event = TRUE]
WrongTopic == [CreateM EXCEPT !.topic = "registration", !.resource = "t1"]

Writing == [m |-> CreateM, h |-> CreateH, w |-> Write, d |-> DeleteM]
Leaving == [m |-> CreateM, d |-> DeleteM, x |-> WrongTopic, n |-> NoMethod, u |-> Unnamed, e |-> Event]
=============================================================================
