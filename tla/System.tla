------------------------------- MODULE System -------------------------------
(***************************************************************************)
(* The controller among its clients, models and broker: messages on their  *)
(* way, the parsing and dispatch of the ones that reach the controller,    *)
(* and the registration, which goes twice through it: a client's request   *)
(* is routed like any other to the built-in model 'registration', that is  *)
(* to the controller itself on another topic, and so is its answer.        *)
(*                                                                         *)
(* Clients choose different ids and send one message each.  The broker may *)
(* lose any message and, unless it is a client's request (QoS 2), deliver  *)
(* it again: the controller publishes with pub_qos 1.                      *)
(***************************************************************************)
EXTENDS Controller

CONSTANTS
    Wants,           \* Wants[id]: the message of the client with this id
    Registrar,       \* SANJI_REGISTER_NAME
    RegisterTopics,  \* those that begin with SANJI_REGISTER_RESOURCE
    MayRepeat        \* does the broker repeat messages

Want ==
    [topic : {"controller", "registration"},
     form : {"fine", "retained", "malformed"},
     event : BOOLEAN,              \* no 'id'
     method : {"POST", "GET", "PUT", "DELETE", "UNKNOWN", "none"},
     resource : Topics \cup {"none"},
     tunnel : BOOLEAN,
     complete : BOOLEAN,           \* has 'data' what a registration needs
     name : Names \cup {"none"},   \* from 'resource' or 'data'
     reg : Registrations]

(* The tunnel of a model that registers is a random number that is unique  *)
(* (register_create): never one of the topics of the controller.           *)
ASSUME SystemAssumption ==
    /\ Wants \in [Ids -> Want]
    /\ \A i \in Ids : Wants[i].name \in {"none", Wants[i].reg.name}
    /\ Registrar \in Names
    /\ {"controller", "registration"} \cap (Names \ {Registrar}) = {}
    /\ RegisterTopics \subseteq Topics
    /\ MayRepeat \in BOOLEAN

VARIABLES
    net,    \* messages on their way
    asked,  \* history: the clients that have sent their message
    taken,  \* history: the requests that reached routing_req
    told,   \* history: told[id], the answers with this id
    served, \* history: <<id, model>>, the model answered OK
    done    \* history: registrations and deregistrations that took place

netVars == <<net, asked, taken, told, served, done>>
sysVars == <<vars, netVars>>

(* Topics are those of the controller and the tunnels of the models.  The  *)
(* other fields of a message are those of Wants[id]: a step message and a  *)
(* response repeat the request.                                            *)
Message ==
    [topic : {"controller", "registration"} \cup (Names \ {Registrar}),
     id : Ids, code : {"none", "OK", "FAIL"}]

Msg(topic, id, code) == [topic |-> topic, id |-> id, code |-> code]

Tunnel(n) == IF n = Registrar THEN "registration" ELSE n

-----------------------------------------------------------------------------
(* The handlers *)

response(m) == m.code # "none"

(* sanji_message_callback, sanji_parse_context and the validation of       *)
(* sanji_dispatch_context: the rest is dropped without an answer.          *)
sanji_context_valid(m) ==
    response(m) \/ /\ Wants[m.id].form = "fine"
                   /\ Wants[m.id].method # "none" /\ Wants[m.id].resource # "none"

routing_procedure(m) ==
    LET w == Wants[m.id]
    IN  \/ /\ ~ response(m) /\ w.event
           /\ routing_event(w.resource)
           /\ UNCHANGED taken
        \/ /\ ~ response(m) /\ ~ w.event
           /\ routing_req(m.id, w.method # "GET", w.tunnel, w.resource)
           /\ taken' = taken \cup {m.id}
        \/ /\ response(m)
           /\ routing_res(m.id, m.code)
           /\ UNCHANGED taken

(* The early returns of register_procedure and its switch. *)
register_refused(w) ==
    \/ w.method \notin {"POST", "DELETE"}
    \/ w.name = "none"
    \/ w.method = "POST" /\ ~ w.complete

register_wrong_topic(w) == w.resource \notin RegisterTopics

(* variant: the answer does not depend on what register_create returned *)
register_code_always(status) == "OK"

register_code(status) == IF status = "OK" THEN "OK" ELSE "FAIL"

(* One or two answers to topic "controller", with the id of the request:   *)
(* a resource that is not the registration's is answered with 400, but the *)
(* handler goes on.                                                        *)
register_responses(m, code) ==
    {Msg("controller", m.id, c) :
        c \in {code} \cup IF register_wrong_topic(Wants[m.id]) THEN {"FAIL"} ELSE {}}

register_ends(m, status) ==
    /\ sent' = {Registered(status)} \cup
                  IF register_wrong_topic(Wants[m.id]) THEN {Registered("BAD_REQUEST")} ELSE {}
    /\ done' = IF status = "OK" THEN done \cup {m.id} ELSE done

(* variant: a component is registered without its resources *)
register_procedure_adds(m) ==
    LET w == Wants[m.id]
    IN  \/ /\ register_refused(w)
           /\ register_procedure_refuse
           /\ UNCHANGED done
        \/ /\ ~ register_refused(w) /\ w.method = "POST"
           /\ component_add_node({w.reg})
           /\ register_ends(m, "OK")
           /\ UNCHANGED <<subscribed, component_lock, resource_lock, sessions, routing>>
        \/ /\ ~ register_refused(w) /\ w.method = "DELETE"
           /\ register_procedure_delete(w.name)
           /\ register_ends(m, register_delete_status(w.name))

register_procedure(m) ==
    LET w == Wants[m.id]
    IN  \/ /\ register_refused(w)
           /\ register_procedure_refuse
           /\ UNCHANGED done
        \/ /\ ~ register_refused(w) /\ w.method = "POST"
           /\ register_procedure_create(w.reg)
           /\ register_ends(m, register_create_status(w.reg))
        \/ /\ ~ register_refused(w) /\ w.method = "DELETE"
           /\ register_procedure_delete(w.name)
           /\ register_ends(m, register_delete_status(w.name))

(* What register_procedure publishes, before it changes anything. *)
register_status(w) ==
    IF register_refused(w) THEN "BAD_REQUEST"
    ELSE IF w.method = "POST" THEN register_create_status(w.reg)
    ELSE register_delete_status(w.name)

-----------------------------------------------------------------------------
(* The network *)

(* The step messages among what the last handler published. *)
Published ==
    UNION {{Msg(Tunnel(n), s.id, "none") : n \in Members(s.to)} :
             s \in {q \in sent' : q.type = "step"}}

(* A message is on its way until it is delivered, or still is when it will *)
(* be repeated.  The network is a set: equal messages of a step (a model   *)
(* that its chain lists twice) are one, the other copy is lost.            *)
Delivered(m, new) ==
    \/ net' = (net \ {m}) \cup new
    \/ /\ MayRepeat /\ (m.topic = Wants[m.id].topic => response(m))
       /\ net' = net \cup new

(* The answers among what the last handler published reach their clients. *)
Answers ==
    told' = [i \in Ids |->
               LET codes == {s \in sent' : s.type = "reply" /\ s.id = i}
               IN  IF codes = {} THEN told[i]
                   ELSE Append(told[i], (CHOOSE s \in codes : TRUE).code)]

ask(id) ==
    /\ id \notin asked
    /\ asked' = asked \cup {id}
    /\ net' = net \cup {Msg(Wants[id].topic, id, "none")}
    /\ UNCHANGED <<vars, taken, told, served, done>>

(* mosquitto_loop hands a message to the controller. *)
deliver(m) ==
    /\ ~ routing.busy
    /\ \/ /\ ~ sanji_context_valid(m)
          /\ net' = net \ {m}
          /\ UNCHANGED <<vars, asked, taken, told, served, done>>
       \/ /\ sanji_context_valid(m) /\ m.topic = "controller"
          /\ routing_procedure(m)
          /\ Delivered(m, Published)
          /\ Answers
          /\ UNCHANGED <<asked, served, done>>
       \/ /\ sanji_context_valid(m) /\ m.topic = "registration"
          /\ register_procedure(m)
          /\ Delivered(m, register_responses(m, register_code(register_status(Wants[m.id]))))
          /\ served' = IF register_status(Wants[m.id]) = "OK"
                       THEN served \cup {<<m.id, Registrar>>} ELSE served
          /\ UNCHANGED <<asked, taken, told>>

(* routing_req goes on. *)
search ==
    /\ routing_req_level \/ routing_req_finish
    /\ net' = net \cup Published
    /\ Answers
    /\ UNCHANGED <<asked, taken, served, done>>

refresh ==
    /\ \E d \in Ticks : session_decref_ttl(d)
    /\ Answers
    /\ UNCHANGED <<net, asked, taken, served, done>>

reconnect ==
    /\ sanji_connect_callback
    /\ UNCHANGED netVars

model_answers(m, code) ==
    /\ m.topic \notin {"controller", "registration"}
    /\ Delivered(m, {Msg("controller", m.id, code)})
    /\ served' = IF code = "OK" THEN served \cup {<<m.id, m.topic>>} ELSE served
    /\ UNCHANGED <<vars, asked, taken, told, done>>

lose(m) ==
    /\ net' = net \ {m}
    /\ UNCHANGED <<vars, asked, taken, told, served, done>>

SysInit ==
    /\ Init
    /\ net = {}
    /\ asked = {} /\ taken = {} /\ served = {} /\ done = {}
    /\ told = [i \in Ids |-> << >>]

SysNext ==
    \/ \E id \in Ids : ask(id)
    \/ search
    \/ refresh
    \/ reconnect
    \/ \E m \in net :
          \/ deliver(m)
          \/ \E code \in {"OK", "FAIL"} : model_answers(m, code)
          \/ lose(m)

SysSpec == SysInit /\ [][SysNext]_sysVars

(* The fairness of Controller: the handler runs on, the clock is read. *)
SysFairSpec ==
    /\ SysSpec
    /\ WF_sysVars(search)
    /\ SF_sysVars(refresh)

-----------------------------------------------------------------------------
(* Whatever the messages, dispatch hands the controller what Controller    *)
(* allows: what is proved of Controller holds here.                        *)
ImplementsController == Spec

(* "All build-in model should get through routing mechanism": a client     *)
(* that is told OK for a registration has got it, although the session     *)
(* that is answered and the registration are two passes through the        *)
(* controller with the broker between them.                                *)
ToldOkIsDone ==
    \A i \in Ids :
        /\ Wants[i].topic = "controller" /\ Wants[i].resource \in RegisterTopics
        /\ \E k \in DOMAIN told[i] : told[i][k] = "OK"
        => i \in done

(* No request is answered twice: not by a response and the clock, not by   *)
(* two of its steps, not by a refusal and a session.                       *)
AnsweredOnce == \A i \in Ids : Len(told[i]) <= 1

(* Without repeated messages, OK means that every model of the chain has   *)
(* been asked and has answered OK, although responses are only counted.    *)
OkMeansServed ==
    [][\A i \in Ids :
          told'[i] # told[i] /\ told'[i][Len(told'[i])] = "OK" =>
             /\ i \in DOMAIN sessions
             /\ \A n \in ChainModels(sessions[i].chain) : <<i, n>> \in served]_sysVars

(* Every request that reaches routing_req is answered, whatever is lost    *)
(* between the controller, itself and the models.                          *)
EveryoneAnswered == \A i \in Ids : i \in taken ~> told[i] # << >>
=============================================================================
