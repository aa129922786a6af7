---------------------------- MODULE SystemProofs ----------------------------
(***************************************************************************)
(* Clients, models, broker and dispatch around the controller ask nothing  *)
(* of it that Controller does not allow: every theorem about Controller    *)
(* holds of the system.  Then what clients can rely on: one answer to a    *)
(* request, a registration that took place when they are told OK, and a    *)
(* chain that every model has served.                                      *)
(***************************************************************************)
EXTENDS System, ControllerProofs

NetOK == net \subseteq Message

SysInv == LockDiscipline /\ NetOK

(* Fields of a message on its way, and of the request that it belongs to. *)
LEMMA Fields ==
    ASSUME NetOK, NEW m \in net
    PROVE  /\ m \in Message /\ m.id \in Ids /\ m.code \in {"none", "OK", "FAIL"}
           /\ Wants[m.id] \in Want
BY SystemAssumption DEF NetOK, Message

(* A delivered message is one step of the controller. *)
LEMMA DeliverStep ==
    ASSUME NetOK, NEW m \in net, deliver(m)
    PROVE  Next \/ UNCHANGED vars
<1> DEFINE w == Wants[m.id]
<1>1. m.id \in Ids /\ m.code \in {"none", "OK", "FAIL"} /\ w \in Want
  BY Fields
<1>2. CASE UNCHANGED vars
  BY <1>2
<1>3. CASE sanji_context_valid(m) /\ routing_procedure(m)
  <2>1. ~ response(m) => w.resource \in Topics
    BY <1>1, <1>3 DEF sanji_context_valid, Want
  <2>2. w.tunnel \in BOOLEAN /\ (w.method # "GET") \in BOOLEAN
    BY <1>1 DEF Want
  <2>3. CASE ~ response(m) /\ routing_event(w.resource)
    BY <2>1, <2>3 DEF Next
  <2>4. CASE ~ response(m) /\ routing_req(m.id, w.method # "GET", w.tunnel, w.resource)
    BY <1>1, <2>1, <2>2, <2>4 DEF Next
  <2>5. CASE response(m) /\ routing_res(m.id, m.code)
    <3>1. m.code \in {"OK", "FAIL"}
      BY <1>1, <2>5 DEF response
    <3> QED
      BY <1>1, <2>5, <3>1 DEF Next
  <2> QED
    BY <1>3, <2>3, <2>4, <2>5 DEF routing_procedure
<1>4. CASE register_procedure(m)
  <2>1. w.reg \in Registrations /\ w.name \in Names \cup {"none"}
    BY <1>1 DEF Want
  <2>2. CASE register_procedure_refuse
    BY <2>2 DEF Next
  <2>3. CASE register_procedure_create(w.reg)
    BY <2>1, <2>3 DEF Next
  <2>4. CASE ~ register_refused(w) /\ register_procedure_delete(w.name)
    <3>1. w.name \in Names
      BY <2>1, <2>4 DEF register_refused
    <3> QED
      BY <2>4, <3>1 DEF Next
  <2> QED
    BY <1>4, <2>2, <2>3, <2>4 DEF register_procedure
<1> QED
  BY <1>2, <1>3, <1>4 DEF deliver

(* Every step of the system is one of the controller, or none of it. *)
LEMMA SysStep == NetOK /\ [SysNext]_sysVars => [Next]_vars
<1> SUFFICES ASSUME NetOK, [SysNext]_sysVars PROVE Next \/ UNCHANGED vars
  OBVIOUS
<1>1. CASE UNCHANGED sysVars
  BY <1>1 DEF sysVars
<1>2. ASSUME NEW id \in Ids, ask(id) PROVE UNCHANGED vars
  BY <1>2 DEF ask
<1>3. CASE search
  BY <1>3 DEF search, Next
<1>4. CASE refresh
  BY <1>4 DEF refresh, Next
<1>5. CASE reconnect
  BY <1>5 DEF reconnect, Next
<1>6. ASSUME NEW m \in net, deliver(m) PROVE Next \/ UNCHANGED vars
  BY <1>6, DeliverStep
<1>7. ASSUME NEW m \in net, NEW code, model_answers(m, code) PROVE UNCHANGED vars
  BY <1>7 DEF model_answers
<1>8. ASSUME NEW m \in net, lose(m) PROVE UNCHANGED vars
  BY <1>8 DEF lose
<1> QED
  BY <1>1, <1>2, <1>3, <1>4, <1>5, <1>6, <1>7, <1>8 DEF SysNext

(* What the handlers publish to models is for requests that exist. *)
LEMMA PublishedOK ==
    ASSUME \A s \in sent' : s.type = "step" => s.id \in Ids
    PROVE  Published \subseteq Message
<1> SUFFICES ASSUME NEW s \in sent', s.type = "step", NEW n \in Members(s.to)
             PROVE  Msg(Tunnel(n), s.id, "none") \in Message
  BY DEF Published
<1>1. n \in Names /\ s.id \in Ids
  BY DEF Members
<1>2. Tunnel(n) \in {"controller", "registration"} \cup (Names \ {Registrar})
  BY <1>1 DEF Tunnel
<1> QED
  BY <1>1, <1>2 DEF Msg, Message

(* While routing_req searches, it does so for a request that exists. *)
LEMMA BusyId ==
    ASSUME LockDiscipline, routing.busy
    PROVE  routing.id \in Ids
<1>1. routing \in Locals \cup {Idle}
  BY DEF LockDiscipline, TypeOK
<1>2. routing # Idle
  BY DEF Idle
<1>3. routing \in Locals
  BY <1>1, <1>2
<1> QED
  BY <1>3 DEF Locals

(* Each handler of the routing publishes steps only for such requests. *)
LEMMA RoutingPublishes ==
    ASSUME LockDiscipline, NEW id \in Ids,
           \/ \E write, tunnel, t : routing_req(id, write, tunnel, t)
           \/ \E code : routing_res(id, code)
           \/ \E t : routing_event(t)
           \/ routing_req_level
           \/ routing_req_finish
    PROVE  \A s \in sent' : s.type = "step" => s.id \in Ids
<1>1. routing.busy => routing.id \in Ids
  BY BusyId
<1>2. ASSUME NEW write, NEW tunnel, NEW t, routing_req(id, write, tunnel, t)
      PROVE  \A s \in sent' : s.type # "step"
  BY <1>2 DEF routing_req, routing_error_response_all, Reply
<1>3. ASSUME NEW code, routing_res(id, code)
      PROVE  \A s \in sent' : s.type = "step" => s.id \in Ids
  BY <1>3 DEF routing_res, session_step_update, session_step_stop, Reply, StepMessage
<1>4. ASSUME NEW t, routing_event(t) PROVE \A s \in sent' : s.type # "step"
  BY <1>4 DEF routing_event, EventMessage
<1>5. CASE routing_req_level
  BY <1>5 DEF routing_req_level, routing_error_response_all, Reply
<1>6. CASE routing_req_finish
  <2>1. routing.id \in Ids
    BY <1>1, <1>6 DEF routing_req_finish
  <2>2. \A s \in sent' : s.type = "reply" \/ s.id = routing.id
    BY <1>6 DEF routing_req_finish, routing_error_response_all, Reply, StepMessage
  <2> QED
    BY <2>1, <2>2
<1> QED
  BY <1>2, <1>3, <1>4, <1>5, <1>6

(* The network only carries messages of requests that exist. *)
LEMMA NetStep == SysInv /\ [SysNext]_sysVars => NetOK'
<1> SUFFICES ASSUME SysInv, [SysNext]_sysVars PROVE net' \subseteq Message
  BY DEF NetOK
<1>0. net \subseteq Message /\ LockDiscipline
  BY DEF SysInv, NetOK
<1>1. ASSUME NEW id \in Ids, NEW c \in {"none", "OK", "FAIL"},
             NEW t \in {"controller", "registration"}
      PROVE  Msg(t, id, c) \in Message
  BY DEF Msg, Message
<1>2. CASE UNCHANGED sysVars
  BY <1>0, <1>2 DEF sysVars, netVars
<1>3. ASSUME NEW id \in Ids, ask(id) PROVE net' \subseteq Message
  <2>1. Wants[id].topic \in {"controller", "registration"}
    BY SystemAssumption DEF Want
  <2>2. Msg(Wants[id].topic, id, "none") \in Message
    BY <1>1, <2>1
  <2> QED
    BY <1>0, <1>3, <2>2 DEF ask
<1>4. CASE search
  <2>1. routing.busy
    BY <1>4 DEF search, routing_req_level, routing_req_finish
  <2>2. routing.id \in Ids
    BY <1>0, <2>1, BusyId
  <2>3. \A s \in sent' : s.type = "step" => s.id \in Ids
    BY <1>0, <1>4, <2>2, RoutingPublishes DEF search
  <2> QED
    BY <1>0, <1>4, <2>3, PublishedOK DEF search
<1>5. CASE refresh \/ reconnect
  BY <1>0, <1>5 DEF refresh, reconnect, netVars
<1>6. ASSUME NEW m \in net, deliver(m) PROVE net' \subseteq Message
  <2>1. m.id \in Ids
    BY <1>0, Fields DEF NetOK
  <2>2. CASE net' = net \ {m}
    BY <1>0, <2>2
  <2>3. CASE routing_procedure(m) /\ Delivered(m, Published)
    <3>1. \A s \in sent' : s.type = "step" => s.id \in Ids
      BY <1>0, <2>1, <2>3, RoutingPublishes DEF routing_procedure
    <3>2. Published \subseteq Message
      BY <3>1, PublishedOK
    <3> QED
      BY <1>0, <2>3, <3>2 DEF Delivered
  <2>4. ASSUME NEW status, Delivered(m, register_responses(m, register_code(status)))
        PROVE  net' \subseteq Message
    <3>1. register_code(status) \in {"OK", "FAIL"}
      BY DEF register_code
    <3>2. register_responses(m, register_code(status)) \subseteq Message
      BY <1>1, <2>1, <3>1 DEF register_responses
    <3> QED
      BY <1>0, <2>4, <3>2 DEF Delivered
  <2> QED
    BY <1>6, <2>2, <2>3, <2>4 DEF deliver
<1>7. ASSUME NEW m \in net, NEW code \in {"OK", "FAIL"}, model_answers(m, code)
      PROVE  net' \subseteq Message
  <2>1. m.id \in Ids
    BY <1>0, Fields DEF NetOK
  <2>2. Msg("controller", m.id, code) \in Message
    BY <1>1, <2>1
  <2> QED
    BY <1>0, <1>7, <2>2 DEF model_answers, Delivered
<1>8. ASSUME NEW m \in net, lose(m) PROVE net' \subseteq Message
  BY <1>0, <1>8 DEF lose
<1> QED
  BY <1>2, <1>3, <1>4, <1>5, <1>6, <1>7, <1>8 DEF SysNext

(* The system implements the controller specification, whatever the        *)
(* clients send, the models answer and the broker loses or repeats.        *)
THEOREM SystemImplementsController == SysSpec => ImplementsController
<1>1. SysInit => Init /\ NetOK
  BY DEF SysInit, NetOK
<1>2. SysInit => SysInv
  BY <1>1, InitDiscipline DEF SysInv
<1>3. SysInv /\ [SysNext]_sysVars => [Next]_vars
  BY SysStep DEF SysInv
<1>4. SysInv /\ [SysNext]_sysVars => SysInv'
  BY <1>3, NextDiscipline, NetStep DEF SysInv
<1> QED
  BY <1>1, <1>2, <1>3, <1>4, PTL DEF SysSpec, Spec, ImplementsController

-----------------------------------------------------------------------------
(* One answer for each request *)

Request(i) == Msg("controller", i, "none")

(* The controller is busy with request i: it searches the chain of i, or   *)
(* has a session of i.                                                     *)
InHand(i) == i \in DOMAIN sessions \/ (routing.busy /\ routing.id = i)

(* The last handler has answered request i. *)
Replied(i) == \E s \in sent' : s.type = "reply" /\ s.id = i

(* What one call of a handler does with the requests: it takes up the ones *)
(* in new, and what it answers it had or takes up and has no longer.       *)
Handles(new) ==
    \A i \in Ids :
        /\ Replied(i) => (InHand(i) \/ i \in new) /\ ~ InHand(i)'
        /\ InHand(i)' => InHand(i) \/ i \in new

(* routing_req takes up its own request, if it does not refuse it. *)
LEMMA ReqHandles ==
    ASSUME NEW id \in Ids, id \notin DOMAIN sessions,
           NEW write, NEW tunnel, NEW t, routing_req(id, write, tunnel, t)
    PROVE  Handles({id})
<1>1. sessions' = sessions /\ ~ routing.busy
  BY DEF routing_req, registryVars
<1>2. CASE routing' = routing
  <2>1. \A s \in sent' : s.id = id \/ s.type # "reply"
    BY DEF routing_req, routing_error_response_all, Reply
  <2> QED
    BY <1>1, <1>2, <2>1 DEF Handles, Replied, InHand
<1>3. CASE routing'.id = id /\ sent' = {}
  BY <1>1, <1>3 DEF Handles, Replied, InHand
<1> QED
  BY <1>2, <1>3 DEF routing_req

(* routing_res answers the request of the session that it ends. *)
LEMMA ResHandles ==
    ASSUME NEW id \in Ids, NEW code, routing_res(id, code)
    PROVE  Handles({})
<1>1. ~ routing.busy /\ routing' = routing
  BY DEF routing_res
<1>2. CASE /\ id \in DOMAIN sessions
           /\ session_step_stop({id}, "OK") \/ session_step_stop({id}, "FAIL")
           /\ DOMAIN sessions' = DOMAIN sessions \ {id}
  <2>1. \A s \in sent' : s.id = id
    BY <1>2 DEF session_step_stop, Reply
  <2> QED
    BY <1>1, <1>2, <2>1 DEF Handles, Replied, InHand
<1>3. CASE DOMAIN sessions' = DOMAIN sessions /\ \A s \in sent' : s.type = "step"
  BY <1>1, <1>3 DEF Handles, Replied, InHand
<1> QED
  BY <1>2, <1>3 DEF routing_res, session_step_update, StepMessage

(* The clock answers the requests of the sessions that it drops. *)
LEMMA TtlHandles ==
    ASSUME NEW d, session_decref_ttl(d)
    PROVE  Handles({})
<1> DEFINE expired == {i \in DOMAIN sessions : Expired(Aged(sessions[i], d))}
<1>1. /\ ~ routing.busy /\ routing' = routing
      /\ DOMAIN sessions' = DOMAIN sessions \ expired
      /\ session_step_stop(expired, "TIMEOUT")
  BY DEF session_decref_ttl
<1>2. expired \subseteq DOMAIN sessions
  OBVIOUS
<1> HIDE DEF expired
<1>3. \A s \in sent' : s.id \in expired
  BY <1>1 DEF session_step_stop, Reply
<1> QED
  BY <1>1, <1>2, <1>3 DEF Handles, Replied, InHand

(* An iteration of the search loop refuses its request or adds a step. *)
LEMMA LevelShape ==
    ASSUME LockDiscipline, routing_req_level
    PROVE  \/ routing' = Idle /\ \A s \in sent' : s.type = "reply" /\ s.id = routing.id
           \/ /\ sent' = {} /\ routing'.id = routing.id
              /\ routing'.chain = Append(routing.chain,
                                         NewStep(WithRole(routing.level, "model")))
<1> DEFINE models == WithRole(routing.level, "model")
           all_views == [n \in Names |-> routing.views[n] + WithRole(routing.level, "view")[n]]
           chain == Append(routing.chain, NewStep(models))
           dep == IF routing.write
                  THEN routing.dependency \cup
                         UNION {resource_get_names_by_component(m) : m \in Members(models)}
                  ELSE routing.dependency
           level == IF routing.write THEN Hooks(models) ELSE EmptyBag
<1>1. CASE component_any_locked(models)
  <2>1. /\ routing' = Idle
        /\ routing_error_response_all(routing.id, routing.tunnel,
                                      routing.resource_list, "LOCKED")
    BY <1>1 DEF routing_req_level
  <2> QED
    BY <2>1 DEF routing_error_response_all, Reply
<1>2. CASE ~ component_any_locked(models)
  <2>1. /\ sent' = {}
        /\ routing' = [routing EXCEPT !.chain = chain, !.dependency = dep,
                                      !.views = all_views, !.level = level]
    BY <1>2 DEF routing_req_level
  <2>2. routing \in Locals
    BY DEF routing_req_level, LockDiscipline, TypeOK, Idle
  <2> HIDE DEF all_views, chain, dep, level
  <2>3. routing'.id = routing.id /\ routing'.chain = chain
    BY <2>1, <2>2 DEF Locals
  <2> QED
    BY <2>1, <2>3 DEF chain
<1> QED
  BY <1>1, <1>2

(* routing_req goes on with its request until it has refused or admitted   *)
(* it.                                                                     *)
LEMMA SearchHandles ==
    ASSUME LockDiscipline, routing_req_level \/ routing_req_finish
    PROVE  Handles({})
<1>1. routing.busy /\ routing.id \notin DOMAIN sessions
  BY DEF routing_req_level, routing_req_finish, LockDiscipline, RoutingSound
<1>2. routing \in Locals
  BY <1>1 DEF LockDiscipline, TypeOK, Idle
<1>3. CASE routing' = Idle /\ sessions' = sessions /\ \A s \in sent' : s.id = routing.id
  BY <1>1, <1>3 DEF Handles, Replied, InHand, Idle
<1>4. CASE routing_req_level
  <2>1. sessions' = sessions
    BY <1>4 DEF routing_req_level
  <2>2. CASE sent' = {} /\ routing'.id = routing.id
    BY <1>1, <2>1, <2>2 DEF Handles, Replied, InHand
  <2> QED
    BY <1>3, <1>4, <2>1, <2>2, LevelShape
<1>5. CASE routing_req_finish
  <2>1. routing' = Idle
    BY <1>5 DEF routing_req_finish
  <2>2. CASE /\ DOMAIN sessions' = DOMAIN sessions \cup {routing.id}
             /\ \A s \in sent' : s.type = "step"
    BY <1>1, <2>1, <2>2 DEF Handles, Replied, InHand, Idle
  <2> QED
    BY <1>3, <1>5, <2>1, <2>2
       DEF routing_req_finish, routing_error_response_all, Reply, StepMessage
<1> QED
  BY <1>4, <1>5

(* Everything else answers no request. *)
LEMMA OthersHandle ==
    ASSUME UNCHANGED <<sessions, routing>>, \A s \in sent' : s.type # "reply"
    PROVE  Handles({})
BY DEF Handles, Replied, InHand

(* A request is on its way, in hand or answered, one of them at a time,    *)
(* and none of them before its client has sent it.                         *)
OneStage ==
    \A i \in Ids :
        /\ Request(i) \in net => ~ InHand(i)
        /\ Request(i) \in net \/ InHand(i) => Wants[i].topic = "controller"
        /\ i \notin asked => Request(i) \notin net /\ ~ InHand(i) /\ told[i] = << >>
        /\ \/ told[i] = << >>
           \/ /\ \E c : told[i] = <<c>>
              /\ Request(i) \notin net /\ ~ InHand(i)

(* Steps of the system that hand no request to the controller. *)
LEMMA StageKept ==
    ASSUME OneStage, Handles({}), asked' = asked,
           Answers \/ (told' = told /\ \A i \in Ids : ~ Replied(i)),
           \A i \in Ids : Request(i) \in net' => Request(i) \in net
    PROVE  OneStage'
<1> SUFFICES ASSUME NEW i \in Ids
             PROVE  /\ Request(i) \in net' => ~ InHand(i)'
                    /\ Request(i) \in net' \/ InHand(i)' => Wants[i].topic = "controller"
                    /\ i \notin asked' => /\ Request(i) \notin net'
                                          /\ ~ InHand(i)' /\ told'[i] = << >>
                    /\ \/ told'[i] = << >>
                       \/ /\ \E c : told'[i] = <<c>>
                          /\ Request(i) \notin net' /\ ~ InHand(i)'
  BY DEF OneStage, Request, Msg
<1>1. /\ Replied(i) => InHand(i) /\ ~ InHand(i)'
      /\ InHand(i)' => InHand(i)
  BY DEF Handles
<1>2. CASE Replied(i)
  <2>1. told[i] = << >> /\ Request(i) \notin net /\ i \in asked
    BY <1>1, <1>2 DEF OneStage
  <2>2. \E c : told'[i] = Append(told[i], c)
    BY <1>2 DEF Answers, Replied
  <2>3. \E c : told'[i] = <<c>>
    BY <2>1, <2>2
  <2> QED
    BY <1>1, <1>2, <2>1, <2>3
<1>3. CASE ~ Replied(i)
  <2>1. told'[i] = told[i]
    BY <1>3 DEF Answers, Replied
  <2> QED
    BY <1>1, <2>1 DEF OneStage
<1> QED
  BY <1>2, <1>3

(* A client's request reaches routing_req: it is not on its way any more,  *)
(* the broker delivers it once.                                            *)
LEMMA StageTaken ==
    ASSUME OneStage, NEW j \in Ids, Request(j) \in net, Handles({j}), asked' = asked,
           Answers, Request(j) \notin net',
           \A i \in Ids : Request(i) \in net' => Request(i) \in net
    PROVE  OneStage'
<1> SUFFICES ASSUME NEW i \in Ids
             PROVE  /\ Request(i) \in net' => ~ InHand(i)'
                    /\ Request(i) \in net' \/ InHand(i)' => Wants[i].topic = "controller"
                    /\ i \notin asked' => /\ Request(i) \notin net'
                                          /\ ~ InHand(i)' /\ told'[i] = << >>
                    /\ \/ told'[i] = << >>
                       \/ /\ \E c : told'[i] = <<c>>
                          /\ Request(i) \notin net' /\ ~ InHand(i)'
  BY DEF OneStage, Request, Msg
<1>1. /\ Replied(i) => (InHand(i) \/ i = j) /\ ~ InHand(i)'
      /\ InHand(i)' => InHand(i) \/ i = j
  BY DEF Handles
<1>2. told[j] = << >> /\ j \in asked /\ ~ InHand(j)
  BY DEF OneStage
<1>3. CASE Replied(i)
  <2>1. told[i] = << >> /\ Request(i) \notin net' /\ i \in asked
    BY <1>1, <1>2, <1>3 DEF OneStage
  <2>2. \E c : told'[i] = Append(told[i], c)
    BY <1>3 DEF Answers, Replied
  <2>3. \E c : told'[i] = <<c>>
    BY <2>1, <2>2
  <2> QED
    BY <1>1, <1>3, <2>1, <2>3
<1>4. CASE ~ Replied(i)
  <2>1. told'[i] = told[i]
    BY <1>4 DEF Answers, Replied
  <2> QED
    BY <1>1, <1>2, <2>1 DEF OneStage
<1> QED
  BY <1>3, <1>4

(* What the controller and the models publish is no request of a client. *)
LEMMA NoNewRequest ==
    ASSUME NEW i \in Ids
    PROVE  /\ Request(i) \notin Published
           /\ \A id, c : c \in {"OK", "FAIL"} => Request(i) # Msg("controller", id, c)
<1>1. \A n \in Names : Tunnel(n) # "controller"
  BY SystemAssumption DEF Tunnel
<1>2. ASSUME Request(i) \in Published PROVE FALSE
  <2>1. PICK s \in sent' : \E n \in Members(s.to) : Request(i) = Msg(Tunnel(n), s.id, "none")
    BY <1>2 DEF Published
  <2> QED
    BY <1>1, <2>1 DEF Members, Msg, Request
<1>3. \A id, c : c \in {"OK", "FAIL"} => Request(i) # Msg("controller", id, c)
  BY DEF Request, Msg
<1> QED
  BY <1>2, <1>3

(* A step that only takes messages off the network and puts responses on   *)
(* it hands no request on.                                                 *)
LEMMA NetOnly ==
    ASSUME OneStage, UNCHANGED <<sessions, routing, asked, told>>,
           \A i \in Ids : Request(i) \in net' => Request(i) \in net
    PROVE  OneStage'
BY DEF OneStage, InHand, Request, Msg

(* Every step of the system keeps each request in one stage. *)
LEMMA StageStep ==
    ASSUME SysInv, OneStage, [SysNext]_sysVars
    PROVE  OneStage'
<1>0. LockDiscipline /\ NetOK
  BY DEF SysInv
<1>1. CASE UNCHANGED sysVars
  BY <1>1, NetOnly DEF sysVars, vars, netVars
<1>2. ASSUME NEW j \in Ids, ask(j) PROVE OneStage'
  <2>1. /\ UNCHANGED <<sessions, routing, told>> /\ j \notin asked
        /\ asked' = asked \cup {j} /\ net' = net \cup {Msg(Wants[j].topic, j, "none")}
    BY <1>2 DEF ask, vars
  <2>2. \A i \in Ids : Request(i) \in net' =>
           Request(i) \in net \/ (i = j /\ Wants[j].topic = "controller")
    BY <2>1 DEF Request, Msg
  <2> QED
    BY <2>1, <2>2 DEF OneStage, InHand, Request, Msg
<1>3. CASE search
  <2>1. Handles({})
    BY <1>0, <1>3, SearchHandles DEF search
  <2>2. \A i \in Ids : Request(i) \in net' => Request(i) \in net
    BY <1>3, NoNewRequest DEF search
  <2> QED
    BY <1>3, <2>1, <2>2, StageKept DEF search
<1>4. CASE refresh
  <2>1. Handles({})
    BY <1>4, TtlHandles DEF refresh
  <2> QED
    BY <1>4, <2>1, StageKept DEF refresh
<1>5. CASE reconnect
  BY <1>5, NetOnly DEF reconnect, netVars, sanji_connect_callback
<1>6. ASSUME NEW m \in net, deliver(m) PROVE OneStage'
  <2>0. m.id \in Ids /\ m.code \in {"none", "OK", "FAIL"} /\ m \in Message
    BY <1>0, Fields
  <2>1. CASE net' = net \ {m} /\ UNCHANGED <<vars, asked, told>>
    BY <2>1, NetOnly DEF vars
  <2>2. CASE /\ m.topic = "controller" /\ routing_procedure(m)
             /\ Delivered(m, Published) /\ Answers /\ asked' = asked
    <3>1. \A i \in Ids : Request(i) \in net' => Request(i) \in net
      BY <2>2, NoNewRequest DEF Delivered
    <3>2. ASSUME ~ response(m), NEW write, NEW tunnel, NEW t,
                 routing_req(m.id, write, tunnel, t)
          PROVE  OneStage'
      <4>1. m = Request(m.id)
        BY <2>0, <2>2, <3>2 DEF Message, Request, Msg, response
      <4>2. ~ InHand(m.id) /\ Wants[m.id].topic = "controller"
        BY <2>0, <4>1 DEF OneStage
      <4>3. Handles({m.id})
        BY <2>0, <3>2, <4>2, ReqHandles DEF InHand
      <4>4. m \notin net'
        BY <2>0, <2>2, <3>2, <4>1, <4>2, NoNewRequest DEF Delivered
      <4> QED
        BY <2>0, <2>2, <3>1, <4>1, <4>3, <4>4, StageTaken
    <3>3. ASSUME NEW t, routing_event(t) PROVE Handles({})
      BY <3>3, OthersHandle DEF routing_event, EventMessage
    <3>4. ASSUME NEW code, routing_res(m.id, code) PROVE Handles({})
      BY <2>0, <3>4, ResHandles
    <3> QED
      BY <2>2, <3>1, <3>2, <3>3, <3>4, StageKept DEF routing_procedure
  <2>3. ASSUME register_procedure(m), NEW status,
               Delivered(m, register_responses(m, register_code(status))),
               UNCHANGED <<asked, told>>
        PROVE  OneStage'
    <3>1. UNCHANGED <<sessions, routing>>
      BY <2>3 DEF register_procedure, register_procedure_refuse,
                  register_procedure_create, register_procedure_delete
    <3>2. \A i \in Ids : Request(i) \notin register_responses(m, register_code(status))
      BY NoNewRequest DEF register_responses, register_code
    <3> QED
      BY <2>3, <3>1, <3>2, NetOnly DEF Delivered
  <2> QED
    BY <1>6, <2>1, <2>2, <2>3 DEF deliver
<1>7. ASSUME NEW m \in net, NEW code \in {"OK", "FAIL"}, model_answers(m, code)
      PROVE  OneStage'
  <2>1. \A i \in Ids : Request(i) \in net' => Request(i) \in net
    BY <1>7, NoNewRequest DEF model_answers, Delivered
  <2> QED
    BY <1>7, <2>1, NetOnly DEF model_answers, vars
<1>8. ASSUME NEW m \in net, lose(m) PROVE OneStage'
  BY <1>8, NetOnly DEF lose, vars
<1> QED
  BY <1>1, <1>2, <1>3, <1>4, <1>5, <1>6, <1>7, <1>8 DEF SysNext

(* SysInv holds in every reachable state of the system. *)
LEMMA SysInvHolds == SysSpec => []SysInv
<1>1. SysInit => SysInv
  BY InitDiscipline DEF SysInit, NetOK, SysInv
<1>2. SysInv /\ [SysNext]_sysVars => SysInv'
  BY SysStep, NextDiscipline, NetStep DEF SysInv
<1> QED
  BY <1>1, <1>2, PTL DEF SysSpec

(* No request is answered twice, whatever its models answer and however    *)
(* late, whatever the broker loses or repeats, and although responses are  *)
(* matched by id alone: by a refusal, by the last of its responses, by a   *)
(* failed one or by the clock, but only by one of them.                    *)
THEOREM RequestsAnsweredOnce == SysSpec => []AnsweredOnce
<1>1. SysInit => OneStage
  BY DEF SysInit, Init, Idle, OneStage, InHand
<1>2. SysInv /\ OneStage /\ [SysNext]_sysVars => OneStage'
  BY StageStep
<1>3. OneStage => AnsweredOnce
  <2> SUFFICES ASSUME OneStage, NEW i \in Ids PROVE Len(told[i]) <= 1
    BY DEF AnsweredOnce
  <2>1. told[i] = << >> \/ \E c : told[i] = <<c>>
    BY DEF OneStage
  <2>2. Len(<< >>) = 0 /\ \A c : Len(<<c>>) = 1
    OBVIOUS
  <2> DEFINE n == Len(told[i])
  <2>3. n = 0 \/ n = 1
    BY <2>1, <2>2, Zenon
  <2> HIDE DEF n
  <2>4. n <= 1
    BY <2>3
  <2> QED
    BY <2>4 DEF n
<1> QED
  BY <1>1, <1>2, <1>3, SysInvHolds, PTL DEF SysSpec
-----------------------------------------------------------------------------
(* Registrations through the routing *)

(* No model but the registration model lists a resource that the topics of *)
(* a registration match.  The code does not ask for it: with a wildcard    *)
(* another model could be asked, and answer, beside the registration.      *)
RegistrarAlone ==
    \A g \in Registrations \cup Builtins, t \in RegisterTopics :
        g.name \in ModelNames /\ Matches[t] \cap Listed(g) # {} => g.name = Registrar

Registering(i) == Wants[i].topic = "controller" /\ Wants[i].resource \in RegisterTopics

(* What routing_req has found asks the registration model first. *)
RegistrarFirst ==
    IF routing.chain = << >>
    THEN Members(WithRole(routing.level, "model")) \subseteq {Registrar}
    ELSE Members(routing.chain[1].models) \subseteq {Registrar}

(* The controller has asked nobody else for i, and has not told it OK. *)
AsksRegistrar(i) ==
    /\ i \in DOMAIN sessions =>
          /\ sessions[i].step = 1
          /\ Members(sessions[i].chain[1].models) \subseteq {Registrar}
    /\ routing.busy /\ routing.id = i => RegistrarFirst

(* A message of i that does not say OK and is not for another model. *)
Harmless(m, i) ==
    m.id = i => m.code # "OK" /\ m.topic \in {"controller", "registration"}

(* A client's registration that has not taken place is still in its first  *)
(* pass, or back from it without success: its step is the registration     *)
(* model's, no other model has been asked and nobody has said OK.          *)
FirstPass ==
    \A i \in Ids : Registering(i) /\ i \notin done =>
        /\ AsksRegistrar(i)
        /\ \A m \in net : Harmless(m, i)
        /\ told[i] # <<"OK">>

(* The only model that a registration topic finds is the registration's. *)
LEMMA FindsRegistrar ==
    ASSUME RegistrarAlone, RegistryTypeOK, TablesAsked, NEW t \in RegisterTopics
    PROVE  Members(WithRole(sanji_get_subscribed_component(sanji_match_resource_list(t)),
                            "model")) \subseteq {Registrar}
<1> DEFINE rs == sanji_match_resource_list(t)
           level == sanji_get_subscribed_component(rs)
<1>1. rs \subseteq DOMAIN subscribed /\ rs \subseteq Matches[t]
  BY DEF sanji_match_resource_list
<1>2. Members(level) = {n \in Names : \E r \in rs : subscribed[r][n] > 0}
  BY <1>1, SubscribersMembers
<1>3. level \in Bag
  BY <1>1, SubscribersType
<1> HIDE DEF rs, level
<1> SUFFICES ASSUME NEW n \in Members(WithRole(level, "model")) PROVE n = Registrar
  BY DEF rs, level
<1>4. component_is_given_role(n, "model") /\ n \in Members(level)
  BY <1>3, WithRoleType DEF WithRole, Members, Bag
<1>5. n \in ModelNames
  BY <1>4 DEF TablesAsked, component_is_given_role, component_is_registered, ModelNames
<1>6. PICK r \in rs : n \in Names /\ subscribed[r][n] > 0
  BY <1>2, <1>4
<1>7. PICK g \in Registrations \cup Builtins : g.name = n /\ r \in Listed(g)
  BY <1>1, <1>6 DEF TablesAsked
<1> QED
  BY <1>1, <1>5, <1>6, <1>7 DEF RegistrarAlone

(* A handler that is not the one of an OK response tells nobody OK. *)
LEMMA NobodyToldOk ==
    ASSUME NEW i,
           \/ routing_req_level \/ routing_req_finish
           \/ \E d : session_decref_ttl(d)
           \/ \E id, write, tunnel, t : routing_req(id, write, tunnel, t)
           \/ \E t : routing_event(t)
           \/ \E id, code : routing_res(id, code) /\ (id # i \/ code # "OK")
    PROVE  \A s \in sent' : s.type = "reply" /\ s.id = i => s.code # "OK"
<1>1. CASE routing_req_level
  BY <1>1 DEF routing_req_level, routing_error_response_all, Reply
<1>2. CASE routing_req_finish
  BY <1>2 DEF routing_req_finish, routing_error_response_all, Reply, StepMessage
<1>3. ASSUME NEW d, session_decref_ttl(d)
      PROVE  \A s \in sent' : s.code # "OK"
  BY <1>3 DEF session_decref_ttl, session_step_stop, Reply
<1>4. ASSUME NEW id, NEW write, NEW tunnel, NEW t, routing_req(id, write, tunnel, t)
      PROVE  \A s \in sent' : s.code # "OK"
  BY <1>4 DEF routing_req, routing_error_response_all, Reply
<1>5. ASSUME NEW t, routing_event(t)
      PROVE  \A s \in sent' : s.type # "reply"
  BY <1>5 DEF routing_event, EventMessage
<1>6. ASSUME NEW id, NEW code, routing_res(id, code), id # i \/ code # "OK"
      PROVE  \A s \in sent' : s.type = "reply" /\ s.id = i => s.code # "OK"
  <2>1. CASE code # "OK" /\ session_step_stop({id}, "FAIL")
    BY <2>1 DEF session_step_stop, Reply
  <2>2. CASE id # i /\ session_step_stop({id}, "OK")
    BY <2>2 DEF session_step_stop, Reply
  <2>3. CASE \A s \in sent' : s.type = "step"
    BY <2>3
  <2> QED
    BY <1>6, <2>1, <2>2, <2>3 DEF routing_res, session_step_update, StepMessage
<1> QED
  BY <1>1, <1>2, <1>3, <1>4, <1>5, <1>6

(* Then the client of i is not told OK. *)
LEMMA StillNotOk ==
    ASSUME OneStage, NEW i \in Ids, told[i] # <<"OK">>, Answers,
           \A s \in sent' : s.type = "reply" /\ s.id = i => s.code # "OK"
    PROVE  told'[i] # <<"OK">>
<1> DEFINE codes == {s \in sent' : s.type = "reply" /\ s.id = i}
<1>1. CASE codes = {}
  BY <1>1 DEF Answers
<1>2. CASE codes # {}
  <2> DEFINE c == (CHOOSE s \in codes : TRUE).code
  <2>1. told'[i] = Append(told[i], c)
    BY <1>2 DEF Answers
  <2>2. c # "OK"
    BY <1>2
  <2> HIDE DEF c
  <2>3. told[i] = << >> \/ \E d : told[i] = <<d>>
    BY DEF OneStage
  <2>4. CASE told[i] = << >>
    BY <2>1, <2>2, <2>4
  <2>5. ASSUME NEW d, told[i] = <<d>> PROVE told'[i] # <<"OK">>
    <3>1. <<d>> \in Seq({d, c}) /\ c \in {d, c}
      OBVIOUS
    <3>2. Len(Append(<<d>>, c)) = Len(<<d>>) + 1
      BY <3>1, AppendProperties
    <3>3. Len(<<d>>) = 1 /\ Len(<<"OK">>) = 1
      OBVIOUS
    <3>4. Append(<<d>>, c) # <<"OK">>
      BY <3>2, <3>3
    <3> QED
      BY <2>1, <2>5, <3>4
  <2> QED
    BY <2>3, <2>4, <2>5
<1> QED
  BY <1>1, <1>2

(* A step of i that is published for the registration model is harmless. *)
LEMMA PublishedHarmless ==
    ASSUME NEW i,
           \A s \in sent' : s.type = "step" /\ s.id = i => Members(s.to) \subseteq {Registrar}
    PROVE  \A m \in Published : Harmless(m, i)
<1> SUFFICES ASSUME NEW s \in sent', s.type = "step", NEW n \in Members(s.to), s.id = i
             PROVE  Harmless(Msg(Tunnel(n), s.id, "none"), i)
  BY DEF Published, Harmless, Msg
<1>1. n = Registrar
  OBVIOUS
<1> QED
  BY <1>1 DEF Harmless, Msg, Tunnel

(* routing_req: what a registration topic finds first is the registration  *)
(* model.                                                                  *)
LEMMA ReqAsks ==
    ASSUME RegistrarAlone, LockDiscipline, TablesAsked,
           NEW i \in Ids, Registering(i), AsksRegistrar(i),
           NEW id \in Ids, NEW write, NEW tunnel,
           routing_req(id, write, tunnel, Wants[id].resource)
    PROVE  AsksRegistrar(i)' /\ \A s \in sent' : s.type # "step"
<1> DEFINE t == Wants[id].resource
           level == sanji_get_subscribed_component(sanji_match_resource_list(t))
<1>1. sessions' = sessions /\ component' = component /\ ~ routing.busy
  BY DEF routing_req, registryVars
<1>2. \A s \in sent' : s.type # "step"
  BY DEF routing_req, routing_error_response_all, Reply
<1>3. CASE routing' = routing
  BY <1>1, <1>2, <1>3 DEF AsksRegistrar
<1>4. CASE routing'.id = id /\ routing'.chain = << >> /\ routing'.level = level
  <2>1. id = i => Members(WithRole(level, "model")) \subseteq {Registrar}
    BY FindsRegistrar DEF LockDiscipline, TypeOK, Registering
  <2> HIDE DEF level
  <2>2. id = i => RegistrarFirst'
    BY <1>1, <1>4, <2>1 DEF RegistrarFirst, WithRole, component_is_given_role,
                            component_is_registered
  <2> QED
    BY <1>1, <1>2, <1>4, <2>2 DEF AsksRegistrar
<1> QED
  BY <1>3, <1>4 DEF routing_req

(* The search loop puts the registration model into the first step and     *)
(* leaves that step alone afterwards.                                      *)
LEMMA LevelAsks ==
    ASSUME LockDiscipline, NEW i \in Ids, AsksRegistrar(i), routing_req_level
    PROVE  AsksRegistrar(i)' /\ \A s \in sent' : s.type # "step"
<1> DEFINE models == WithRole(routing.level, "model")
           step == NewStep(models)
<1>1. sessions' = sessions /\ routing.busy
  BY DEF routing_req_level
<1>2. routing.chain \in Seq(ChainStep) /\ routing.level \in Bag
  <2>1. routing \in Locals
    BY <1>1 DEF LockDiscipline, TypeOK, Idle
  <2> QED
    BY <2>1 DEF Locals
<1>3. CASE routing' = Idle /\ \A s \in sent' : s.type = "reply"
  BY <1>1, <1>3 DEF AsksRegistrar, Idle
<1>4. CASE sent' = {} /\ routing'.id = routing.id /\ routing'.chain = Append(routing.chain, step)
  <2>1. models \in Bag /\ Members(models) \subseteq DOMAIN component
    BY <1>2, WithRoleType DEF component_is_given_role, component_is_registered
  <2> HIDE DEF models
  <2>2. step \in ChainStep /\ step.models = models
    BY <2>1, NewStepType DEF LockDiscipline, TypeOK
  <2> HIDE DEF step
  <2>3. /\ Append(routing.chain, step) # << >>
        /\ \A k \in 1 .. Len(routing.chain) : Append(routing.chain, step)[k] = routing.chain[k]
        /\ Append(routing.chain, step)[Len(routing.chain) + 1] = step
    BY <1>2, <2>2, AppendProperties
  <2>4. CASE routing.chain = << >>
    <3>1. Append(routing.chain, step)[1] = step
      BY <2>3, <2>4, EmptySeq
    <3>2. routing.id = i => RegistrarFirst'
      BY <1>1, <1>4, <2>2, <2>3, <2>4, <3>1 DEF AsksRegistrar, RegistrarFirst, models
    <3> QED
      BY <1>1, <1>4, <3>2 DEF AsksRegistrar
  <2>5. CASE routing.chain # << >>
    <3>1. 1 \in 1 .. Len(routing.chain)
      BY <1>2, <2>5, EmptySeq, LenProperties
    <3>2. Append(routing.chain, step)[1] = routing.chain[1]
      BY <2>3, <3>1
    <3>3. routing.id = i => RegistrarFirst'
      BY <1>1, <1>4, <2>3, <2>5, <3>2 DEF AsksRegistrar, RegistrarFirst
    <3> QED
      BY <1>1, <1>4, <3>3 DEF AsksRegistrar
  <2> QED
    BY <2>4, <2>5
<1> QED
  BY <1>3, <1>4, LevelShape

(* routing_req asks the models of the first step when it is done. *)
LEMMA FinishAsks ==
    ASSUME LockDiscipline, NEW i \in Ids, AsksRegistrar(i), routing_req_finish
    PROVE  /\ AsksRegistrar(i)'
           /\ \A s \in sent' : s.type = "step" /\ s.id = i => Members(s.to) \subseteq {Registrar}
<1>1. routing.busy /\ routing' = Idle /\ routing.chain # << >>
  BY DEF routing_req_finish, LockDiscipline, RoutingSound
<1>2. routing.id = i => Members(routing.chain[1].models) \subseteq {Registrar}
  BY <1>1 DEF AsksRegistrar, RegistrarFirst
<1>3. CASE sessions' = sessions /\ \A s \in sent' : s.type = "reply"
  BY <1>1, <1>3 DEF AsksRegistrar, Idle
<1>4. CASE /\ sessions' = [j \in DOMAIN sessions \cup {routing.id} |->
                  IF j = routing.id THEN NextStep(session_create_node) ELSE sessions[j]]
           /\ sent' = {StepMessage(routing.id, routing.chain[1].models)}
  <2> DEFINE s == NextStep(session_create_node)
  <2>1. s.step = 1 /\ s.chain = routing.chain
    BY DEF NextStep, session_create_node
  <2> HIDE DEF s
  <2>2. i \in DOMAIN sessions' => sessions'[i] = IF i = routing.id THEN s ELSE sessions[i]
    BY <1>4 DEF s
  <2>3. i \in DOMAIN sessions' => i = routing.id \/ i \in DOMAIN sessions
    BY <1>4
  <2>4. AsksRegistrar(i)'
    BY <1>1, <1>2, <2>1, <2>2, <2>3 DEF AsksRegistrar, Idle
  <2>5. \A q \in sent' : q.type = "step" /\ q.id = i => Members(q.to) \subseteq {Registrar}
    BY <1>2, <1>4 DEF StepMessage
  <2> QED
    BY <2>4, <2>5
<1> QED
  BY <1>3, <1>4 DEF routing_req_finish, routing_error_response_all, Reply

(* A response of another request, or one that says FAIL, does not move the *)
(* session of i to a next step.                                            *)
LEMMA ResAsks ==
    ASSUME LockDiscipline, NEW i \in Ids, AsksRegistrar(i),
           NEW id \in Ids, NEW code, routing_res(id, code), id # i \/ code # "OK"
    PROVE  /\ AsksRegistrar(i)'
           /\ \A s \in sent' : s.type = "step" => s.id # i
<1>1. ~ routing.busy /\ routing' = routing
  BY DEF routing_res
<1>2. ASSUME i \in DOMAIN sessions' PROVE i \in DOMAIN sessions /\ sessions'[i] = sessions[i]
  BY <1>2 DEF routing_res, session_step_update
<1>3. \A s \in sent' : s.type = "step" => s.id # i
  BY DEF routing_res, session_step_update, session_step_stop, Reply, StepMessage
<1> QED
  BY <1>1, <1>2, <1>3 DEF AsksRegistrar

(* Nor does the clock. *)
LEMMA TtlAsks ==
    ASSUME LockDiscipline, NEW i \in Ids, AsksRegistrar(i),
           NEW d \in Ticks, session_decref_ttl(d)
    PROVE  AsksRegistrar(i)'
<1>1. /\ ~ routing.busy /\ routing' = routing
      /\ i \in DOMAIN sessions' => i \in DOMAIN sessions /\ sessions'[i] = Aged(sessions[i], d)
  BY DEF session_decref_ttl
<1>2. ASSUME i \in DOMAIN sessions
      PROVE  /\ Aged(sessions[i], d).step = sessions[i].step
             /\ sessions[i].step = 1 =>
                  Aged(sessions[i], d).chain[1].models = sessions[i].chain[1].models
  <2>1. sessions[i] \in Session /\ sessions[i].step \in 1 .. Len(sessions[i].chain)
    BY <1>2 DEF LockDiscipline, TypeOK
  <2>2. d \in Nat
    BY ControllerAssumption
  <2>3. /\ Aged(sessions[i], d).step = sessions[i].step
        /\ \A j \in DOMAIN sessions[i].chain :
              Aged(sessions[i], d).chain[j].models = sessions[i].chain[j].models
    BY <2>1, <2>2, AgedType
  <2>4. sessions[i].step \in DOMAIN sessions[i].chain
    BY <2>1, LenProperties DEF Session
  <2> QED
    BY <2>3, <2>4
<1> QED
  BY <1>1, <1>2 DEF AsksRegistrar

(* What a handler of the routing leaves when i was not told OK before. *)
LEMMA PassRouted ==
    ASSUME OneStage, NEW i \in Ids, told[i] # <<"OK">>, AsksRegistrar(i)',
           \A m \in net : Harmless(m, i), net' \subseteq net \cup Published, Answers,
           \A s \in sent' : s.type = "step" /\ s.id = i => Members(s.to) \subseteq {Registrar},
           \A s \in sent' : s.type = "reply" /\ s.id = i => s.code # "OK"
    PROVE  AsksRegistrar(i)' /\ (\A m \in net' : Harmless(m, i)) /\ told'[i] # <<"OK">>
<1>1. told'[i] # <<"OK">>
  BY StillNotOk
<1>2. \A m \in Published : Harmless(m, i)
  BY PublishedHarmless
<1> QED
  BY <1>1, <1>2

(* The answer of the registration says OK only when it has taken place. *)
LEMMA RegistrationTold ==
    ASSUME NEW i \in Ids, i \notin done', NEW m, m.id \in Ids, register_procedure(m)
    PROVE  \A q \in register_responses(m, register_code(register_status(Wants[m.id]))) :
              Harmless(q, i)
<1> DEFINE w == Wants[m.id]
           status == register_status(w)
<1>1. CASE m.id # i
  BY <1>1 DEF register_responses, Harmless, Msg
<1>2. CASE m.id = i
  <2>1. status # "OK"
    <3>1. CASE register_refused(w)
      BY <3>1 DEF register_status
    <3>2. CASE ~ register_refused(w) /\ w.method = "POST"
      <4>1. register_ends(m, register_create_status(w.reg))
        BY <3>2 DEF register_procedure
      <4>2. register_create_status(w.reg) # "OK"
        BY <1>2, <4>1 DEF register_ends
      <4> QED
        BY <3>2, <4>2 DEF register_status
    <3>3. CASE ~ register_refused(w) /\ w.method # "POST"
      <4>1. register_ends(m, register_delete_status(w.name))
        BY <3>3 DEF register_procedure
      <4>2. register_delete_status(w.name) # "OK"
        BY <1>2, <4>1 DEF register_ends
      <4> QED
        BY <3>3, <4>2 DEF register_status
    <3> QED
      BY <3>1, <3>2, <3>3
  <2> HIDE DEF status
  <2>2. register_code(status) = "FAIL"
    BY <2>1 DEF register_code
  <2> QED
    BY <2>2 DEF register_responses, Harmless, Msg, status
<1> QED
  BY <1>1, <1>2

(* Nothing that is done is undone. *)
LEMMA DoneGrows == [SysNext]_sysVars => done \subseteq done'
<1> SUFFICES ASSUME [SysNext]_sysVars PROVE done \subseteq done'
  OBVIOUS
<1>1. ASSUME NEW m \in net, deliver(m) PROVE done \subseteq done'
  BY <1>1 DEF deliver, register_procedure, register_ends
<1>2. CASE \A m \in net : ~ deliver(m)
  BY <1>2 DEF SysNext, sysVars, netVars, ask, search, refresh, reconnect, model_answers, lose
<1> QED
  BY <1>1, <1>2

(* Every step keeps a registration in its first pass until it has taken    *)
(* place.                                                                  *)
LEMMA PassStep ==
    ASSUME RegistrarAlone, SysInv, TablesAsked, OneStage, FirstPass, [SysNext]_sysVars
    PROVE  FirstPass'
<1> SUFFICES ASSUME NEW i \in Ids, Registering(i), i \notin done'
             PROVE  /\ AsksRegistrar(i)'
                    /\ \A m \in net' : Harmless(m, i)
                    /\ told'[i] # <<"OK">>
  BY DEF FirstPass, Registering, Harmless
<1> DEFINE Goal == AsksRegistrar(i)' /\ (\A m \in net' : Harmless(m, i)) /\ told'[i] # <<"OK">>
<1>0. /\ LockDiscipline /\ NetOK
      /\ AsksRegistrar(i) /\ (\A m \in net : Harmless(m, i)) /\ told[i] # <<"OK">>
  BY DoneGrows DEF SysInv, FirstPass
<1>1. ASSUME UNCHANGED <<sessions, routing, told>>, ~ routing.busy \/ component' = component,
             \A m \in net' : m \in net \/ Harmless(m, i)
      PROVE  Goal
  BY <1>0, <1>1 DEF AsksRegistrar, RegistrarFirst, WithRole, component_is_given_role,
                    component_is_registered
<1>2. CASE UNCHANGED sysVars
  BY <1>1, <1>2 DEF sysVars, vars, netVars, registryVars
<1>3. ASSUME NEW j \in Ids, ask(j) PROVE Goal
  <2>1. Wants[j].topic \in {"controller", "registration"}
    BY SystemAssumption DEF Want
  <2>2. Harmless(Msg(Wants[j].topic, j, "none"), i)
    BY <2>1 DEF Harmless, Msg
  <2> QED
    BY <1>1, <1>3, <2>2 DEF ask, vars, registryVars
<1>4. CASE search
  <2>1. /\ AsksRegistrar(i)'
        /\ \A s \in sent' : s.type = "step" /\ s.id = i => Members(s.to) \subseteq {Registrar}
    BY <1>0, <1>4, LevelAsks, FinishAsks DEF search
  <2>2. \A s \in sent' : s.type = "reply" /\ s.id = i => s.code # "OK"
    BY <1>4, NobodyToldOk DEF search
  <2>3. Answers /\ net' \subseteq net \cup Published
    BY <1>4 DEF search
  <2> QED
    BY <1>0, <2>1, <2>2, <2>3, PassRouted
<1>5. CASE refresh
  <2>1. AsksRegistrar(i)'
    BY <1>0, <1>5, TtlAsks DEF refresh
  <2>2. \A s \in sent' : s.type = "reply" /\ s.id = i => s.code # "OK"
    BY <1>5, NobodyToldOk DEF refresh
  <2>3. \A s \in sent' : s.type # "step"
    BY <1>5 DEF refresh, session_decref_ttl, session_step_stop, Reply
  <2>4. Answers /\ net' \subseteq net \cup Published
    BY <1>5 DEF refresh
  <2> QED
    BY <1>0, <2>1, <2>2, <2>3, <2>4, PassRouted
<1>6. CASE reconnect
  BY <1>1, <1>6 DEF reconnect, sanji_connect_callback, netVars
<1>7. ASSUME NEW m \in net, deliver(m) PROVE Goal
  <2>0. m.id \in Ids /\ m.code \in {"none", "OK", "FAIL"}
    BY <1>0, Fields
  <2>1. CASE net' = net \ {m} /\ UNCHANGED <<vars, told>>
    BY <1>1, <2>1 DEF vars, registryVars
  <2>2. CASE routing_procedure(m) /\ Delivered(m, Published) /\ Answers
    <3>1. net' \subseteq net \cup Published
      BY <2>2 DEF Delivered
    <3>2. m.id = i => m.code # "OK"
      BY <1>0 DEF Harmless
    <3>3. ASSUME NEW write, NEW tunnel,
                 routing_req(m.id, write, tunnel, Wants[m.id].resource)
          PROVE  Goal
      <4>1. AsksRegistrar(i)' /\ \A s \in sent' : s.type # "step"
        BY <1>0, <2>0, <3>3, ReqAsks
      <4>2. \A s \in sent' : s.type = "reply" /\ s.id = i => s.code # "OK"
        BY <3>3, NobodyToldOk
      <4> QED
        BY <1>0, <2>2, <3>1, <4>1, <4>2, PassRouted
    <3>4. CASE routing_res(m.id, m.code)
      <4>1. AsksRegistrar(i)' /\ \A s \in sent' : s.type = "step" => s.id # i
        BY <1>0, <2>0, <3>2, <3>4, ResAsks
      <4>2. \A s \in sent' : s.type = "reply" /\ s.id = i => s.code # "OK"
        BY <3>2, <3>4, NobodyToldOk
      <4> QED
        BY <1>0, <2>2, <3>1, <4>1, <4>2, PassRouted
    <3>5. ASSUME NEW t, routing_event(t) PROVE Goal
      <4>1. sent' = {} \/ \A s \in sent' : s.type = "event"
        BY <3>5 DEF routing_event, EventMessage
      <4>2. AsksRegistrar(i)'
        BY <1>0, <3>5 DEF routing_event, AsksRegistrar
      <4> QED
        BY <1>0, <2>2, <3>1, <4>1, <4>2, PassRouted
    <3> QED
      BY <2>2, <3>3, <3>4, <3>5 DEF routing_procedure
  <2>3. CASE /\ register_procedure(m) /\ told' = told /\ ~ routing.busy
             /\ Delivered(m, register_responses(m, register_code(register_status(Wants[m.id]))))
    <3>1. UNCHANGED <<sessions, routing>>
      BY <2>3 DEF register_procedure, register_procedure_refuse,
                  register_procedure_create, register_procedure_delete
    <3>2. \A q \in register_responses(m, register_code(register_status(Wants[m.id]))) :
             Harmless(q, i)
      BY <2>0, <2>3, RegistrationTold
    <3> QED
      BY <1>1, <2>3, <3>1, <3>2 DEF Delivered
  <2> QED
    BY <1>7, <2>1, <2>2, <2>3 DEF deliver
<1>8. ASSUME NEW m \in net, NEW code \in {"OK", "FAIL"}, model_answers(m, code)
      PROVE  Goal
  <2>1. m.id # i
    BY <1>0, <1>8 DEF Harmless, model_answers
  <2>2. Harmless(Msg("controller", m.id, code), i)
    BY <2>1 DEF Harmless, Msg
  <2> QED
    BY <1>1, <1>8, <2>2 DEF model_answers, Delivered, vars, registryVars
<1>9. ASSUME NEW m \in net, lose(m) PROVE Goal
  BY <1>1, <1>9 DEF lose, vars, registryVars
<1> QED
  BY <1>2, <1>3, <1>4, <1>5, <1>6, <1>7, <1>8, <1>9 DEF SysNext

(* When no other model lists a resource that a registration topic matches, *)
(* a client that is told OK for its registration or deregistration has got *)
(* it, whatever is lost, repeated, late or answered by whom.               *)
THEOREM OkIsDone ==
    ASSUME RegistrarAlone
    PROVE  SysSpec => []ToldOkIsDone
<1>1. SysInit => OneStage /\ FirstPass /\ TablesAsked
  <2> SUFFICES ASSUME SysInit PROVE OneStage /\ FirstPass /\ TablesAsked
    OBVIOUS
  <2>1. Init /\ net = {} /\ DOMAIN sessions = {} /\ routing = Idle
    BY DEF SysInit, Init
  <2>2. \A i \in Ids : told[i] = << >>
    BY DEF SysInit
  <2>3. OneStage
    BY <2>1, <2>2 DEF OneStage, InHand, Idle
  <2>4. << >> # <<"OK">>
    OBVIOUS
  <2>5. FirstPass
    BY <2>1, <2>2, <2>4 DEF FirstPass, AsksRegistrar, Idle
  <2> QED
    BY <2>1, <2>3, <2>5, AskedInit
<1>2. SysInv /\ OneStage /\ [SysNext]_sysVars => OneStage'
  BY StageStep
<1>3. SysInv /\ TablesAsked /\ [SysNext]_sysVars => TablesAsked'
  BY SysStep, AskedStep DEF SysInv
<1>4. SysInv /\ TablesAsked /\ OneStage /\ FirstPass /\ [SysNext]_sysVars => FirstPass'
  BY PassStep
<1>5. OneStage /\ FirstPass => ToldOkIsDone
  <2> SUFFICES ASSUME OneStage, FirstPass, NEW i \in Ids, Registering(i),
                      NEW k \in DOMAIN told[i], told[i][k] = "OK"
               PROVE  i \in done
    BY DEF ToldOkIsDone, Registering
  <2>1. told[i] = << >> \/ \E c : told[i] = <<c>>
    BY DEF OneStage
  <2>2. told[i] = <<"OK">>
    BY <2>1
  <2> QED
    BY <2>2 DEF FirstPass
<1> QED
  BY <1>1, <1>2, <1>3, <1>4, <1>5, SysInvHolds, PTL DEF SysSpec

-----------------------------------------------------------------------------
(* OK means that every model has answered OK *)

(* A list has at least as many entries as members. *)
LEMMA MembersCounted ==
    ASSUME NEW b \in Bag
    PROVE  /\ IsFiniteSet(Members(b)) /\ Cardinality(Members(b)) <= Size(b)
           /\ Cardinality(Members(b)) \in Nat /\ Size(b) \in Nat
<1> DEFINE E == UNION {{n} \X (1 .. b[n]) : n \in Names}
           f == [n \in Members(b) |-> <<n, 1>>]
<1>1. IsFiniteSet(E)
  BY EntriesFinite, RegistryAssumption DEF Bag
<1>2. f \in Injection(Members(b), E)
  <2>1. \A n \in Members(b) : f[n] \in E
    BY DEF Members, Bag
  <2>2. \A n, k \in Members(b) : f[n] = f[k] => n = k
    OBVIOUS
  <2> HIDE DEF E
  <2>3. f \in [Members(b) -> E]
    BY <2>1
  <2> QED
    BY <2>2, <2>3 DEF Injection, IsInjective
<1>3. IsFiniteSet(Members(b)) /\ Cardinality(Members(b)) <= Cardinality(E)
  <2> HIDE DEF E, f
  <2> QED
    BY <1>1, <1>2, FS_Injection
<1> QED
  BY <1>3, SizeType, FS_CardinalityType DEF Size

(* Two models are not asked through the same tunnel. *)
LEMMA TunnelsDiffer ==
    ASSUME NEW n \in Names, NEW k \in Names, Tunnel(n) = Tunnel(k)
    PROVE  n = k
BY SystemAssumption DEF Tunnel

Response(i, code) == Msg("controller", i, code)

StepTo(n, i) == Msg(Tunnel(n), i, "none")

(* The models of the current step of session i. *)
CurrentModels(i) == sessions[i].chain[sessions[i].step].models

(* Those that have not answered OK yet: they have not said so, or they are *)
(* asked again.                                                            *)
Open(i) == {n \in Members(CurrentModels(i)) : StepTo(n, i) \in net \/ <<i, n>> \notin served}

(* An OK on its way that curr_wait will count. *)
Owed(i) == IF Response(i, "OK") \in net THEN 1 ELSE 0

(* What curr_wait stands for.  A session waits for all the models of its   *)
(* step that have not answered OK and for the OK on its way, everything on *)
(* its way with its id belongs to this step, and the models of the earlier *)
(* steps have answered OK.                                                 *)
Counted(i) ==
    /\ sessions[i].wait >= Cardinality(Open(i)) + Owed(i)
    /\ \A m \in net : m.id = i =>
          \/ m \in {Response(i, "OK"), Response(i, "FAIL")}
          \/ \E n \in Members(CurrentModels(i)) : m = StepTo(n, i)
    /\ \A k \in 1 .. sessions[i].step - 1 :
          \A n \in Members(sessions[i].chain[k].models) : <<i, n>> \in served

(* A request that has no session yet and no answer is alone on its way. *)
Unsent(i) ==
    told[i] = << >> /\ Wants[i].topic = "controller" =>
        \A m \in net : m.id = i => m = Request(i)

Balance ==
    \A i \in Ids :
        /\ i \in DOMAIN sessions => Counted(i)
        /\ i \notin DOMAIN sessions => Unsent(i)

(* The current step of a session, and how many of its models are open. *)
LEMMA CurrentStep ==
    ASSUME LockDiscipline, NEW i \in DOMAIN sessions
    PROVE  /\ sessions[i] \in Session /\ sessions[i].step \in 1 .. Len(sessions[i].chain)
           /\ DOMAIN sessions[i].chain = 1 .. Len(sessions[i].chain)
           /\ Len(sessions[i].chain) \in Nat /\ sessions[i].wait \in Nat
           /\ CurrentModels(i) \in Bag
           /\ IsFiniteSet(Open(i)) /\ Cardinality(Open(i)) \in Nat
           /\ Cardinality(Open(i)) <= Size(CurrentModels(i))
<1> DEFINE s == sessions[i]
<1>1. s \in Session /\ s.step \in 1 .. Len(s.chain)
  BY DEF LockDiscipline, TypeOK
<1>2. s.chain \in Seq(ChainStep) /\ s.wait \in Nat
  BY <1>1 DEF Session
<1>3. DOMAIN s.chain = 1 .. Len(s.chain) /\ Len(s.chain) \in Nat
  BY <1>2, LenProperties
<1>4. s.chain[s.step] \in ChainStep
  BY <1>1, <1>2, ElementOfSeq
<1>5. CurrentModels(i) \in Bag
  BY <1>4 DEF CurrentModels, ChainStep
<1>6. Open(i) \in SUBSET Members(CurrentModels(i))
  BY DEF Open
<1>7. /\ IsFiniteSet(Members(CurrentModels(i))) /\ Size(CurrentModels(i)) \in Nat
      /\ Cardinality(Members(CurrentModels(i))) <= Size(CurrentModels(i))
      /\ Cardinality(Members(CurrentModels(i))) \in Nat
  BY <1>5, MembersCounted
<1>8. IsFiniteSet(Open(i)) /\ Cardinality(Open(i)) <= Cardinality(Members(CurrentModels(i)))
  BY <1>6, <1>7, FS_Subset
<1>9. Cardinality(Open(i)) \in Nat
  BY <1>8, FS_CardinalityType
<1>10. Cardinality(Open(i)) <= Size(CurrentModels(i))
  BY <1>7, <1>8, <1>9
<1> QED
  BY <1>1, <1>2, <1>3, <1>5, <1>8, <1>9, <1>10

(* A step in which session i stays where it is: models may answer, and an  *)
(* OK comes from a model that was open and has answered now.               *)
LEMMA CountKept ==
    ASSUME LockDiscipline, LockDiscipline', NEW i, i \in DOMAIN sessions, i \in DOMAIN sessions',
           Counted(i),
           sessions'[i].step = sessions[i].step, sessions'[i].wait = sessions[i].wait,
           \A k \in DOMAIN sessions[i].chain :
              sessions'[i].chain[k].models = sessions[i].chain[k].models,
           served \subseteq served',
           \A m \in net' : m.id = i =>
              m \in net \/ m \in {Response(i, "OK"), Response(i, "FAIL")},
           Response(i, "OK") \in net' =>
              \/ Response(i, "OK") \in net
              \/ \E n \in Members(CurrentModels(i)) :
                    StepTo(n, i) \in net \ net' /\ <<i, n>> \in served'
    PROVE  Counted(i)'
<1>1. /\ IsFiniteSet(Open(i)) /\ Cardinality(Open(i)) \in Nat
      /\ sessions[i].wait \in Nat /\ sessions[i].step \in DOMAIN sessions[i].chain
      /\ DOMAIN sessions[i].chain = 1 .. Len(sessions[i].chain)
      /\ sessions[i].step \in Nat /\ Len(sessions[i].chain) \in Nat
  BY CurrentStep
<1>2. CurrentModels(i)' = CurrentModels(i)
  BY <1>1 DEF CurrentModels
<1>3. \A n : StepTo(n, i) \in net' => StepTo(n, i) \in net
  BY DEF StepTo, Response, Msg
<1>4. Open(i)' \subseteq Open(i)
  <2> SUFFICES ASSUME NEW n \in Open(i)' PROVE n \in Open(i)
    OBVIOUS
  <2>1. n \in Members(CurrentModels(i)) /\ (StepTo(n, i) \in net' \/ <<i, n>> \notin served')
    BY <1>2 DEF Open, StepTo, Msg, Tunnel, Members
  <2> QED
    BY <1>3, <2>1 DEF Open
<1>5. sessions[i].wait >= Cardinality(Open(i)) + Owed(i)
  BY DEF Counted
<1>6. Cardinality(Open(i)') + Owed(i)' <= Cardinality(Open(i)) + Owed(i)
  <2>0. Owed(i) \in {0, 1} /\ Owed(i)' \in {0, 1}
    BY DEF Owed
  <2>1. CASE Owed(i)' <= Owed(i)
    <3>1. Cardinality(Open(i)') <= Cardinality(Open(i)) /\ Cardinality(Open(i)') \in Nat
      BY <1>1, <1>4, FS_Subset, FS_CardinalityType
    <3> QED
      BY <1>1, <2>0, <2>1, <3>1
  <2>2. CASE ~ (Owed(i)' <= Owed(i))
    <3>1. Response(i, "OK") \in net' /\ Response(i, "OK") \notin net
      BY <2>2 DEF Owed, Response, Msg
    <3>2. PICK n \in Members(CurrentModels(i)) :
             StepTo(n, i) \in net /\ StepTo(n, i) \notin net' /\ <<i, n>> \in served'
      BY <3>1
    <3>3. n \in Open(i) /\ n \notin Open(i)'
      BY <3>2 DEF Open, StepTo, Msg, Tunnel
    <3>4. Open(i)' \in SUBSET (Open(i) \ {n})
      BY <1>4, <3>3
    <3>5. IsFiniteSet(Open(i) \ {n}) /\ Cardinality(Open(i) \ {n}) = Cardinality(Open(i)) - 1
      BY <1>1, <3>3, FS_RemoveElement
    <3>6. Cardinality(Open(i)') <= Cardinality(Open(i)) - 1 /\ Cardinality(Open(i)') \in Nat
      BY <3>4, <3>5, FS_Subset, FS_CardinalityType
    <3> QED
      BY <1>1, <2>0, <3>6
  <2> QED
    BY <2>1, <2>2
<1>7. sessions'[i].wait >= Cardinality(Open(i)') + Owed(i)'
  <2>1. Owed(i) \in {0, 1} /\ Owed(i)' \in {0, 1}
    BY DEF Owed
  <2>2. Cardinality(Open(i)') \in Nat
    BY <1>1, <1>4, FS_Subset, FS_CardinalityType
  <2> QED
    BY <1>1, <1>5, <1>6, <2>1, <2>2
<1>8. \A m \in net' : m.id = i =>
         \/ m \in {Response(i, "OK"), Response(i, "FAIL")}
         \/ \E n \in Members(CurrentModels(i)) : m = StepTo(n, i)
  BY DEF Counted
<1>9. \A k \in 1 .. sessions'[i].step - 1 :
         \A n \in Members(sessions'[i].chain[k].models) : <<i, n>> \in served'
  <2> SUFFICES ASSUME NEW k \in 1 .. sessions[i].step - 1
               PROVE  \A n \in Members(sessions'[i].chain[k].models) : <<i, n>> \in served'
    OBVIOUS
  <2>1. k \in DOMAIN sessions[i].chain
    BY <1>1
  <2> QED
    BY <2>1 DEF Counted
<1> QED
  BY <1>2, <1>7, <1>8, <1>9 DEF Counted, Response, StepTo, Msg, Tunnel

(* A step of the chain begins: its models are asked, nothing else of i is  *)
(* on its way, and curr_wait is the number of entries of the step.         *)
LEMMA CountBegins ==
    ASSUME LockDiscipline', NEW i, i \in DOMAIN sessions',
           sessions'[i].wait = Size(CurrentModels(i)'),
           \A m \in net' : m.id = i =>
              \/ m = Response(i, "FAIL")
              \/ \E n \in Members(CurrentModels(i)') : m = StepTo(n, i),
           \A k \in 1 .. sessions'[i].step - 1 :
              \A n \in Members(sessions'[i].chain[k].models) : <<i, n>> \in served'
    PROVE  Counted(i)'
<1>1. CurrentModels(i)' \in Bag
  <2>1. sessions'[i] \in Session /\ sessions'[i].step \in 1 .. Len(sessions'[i].chain)
    BY DEF LockDiscipline, TypeOK
  <2>2. sessions'[i].chain \in Seq(ChainStep)
    BY <2>1 DEF Session
  <2>3. sessions'[i].chain[sessions'[i].step] \in ChainStep
    BY <2>1, <2>2, ElementOfSeq
  <2> QED
    BY <2>3 DEF CurrentModels, ChainStep
<1> DEFINE b == CurrentModels(i)'
           o == Open(i)'
<1>2. /\ IsFiniteSet(Members(b)) /\ Cardinality(Members(b)) <= Size(b)
      /\ Cardinality(Members(b)) \in Nat /\ Size(b) \in Nat
  BY <1>1, MembersCounted
<1>3. o \in SUBSET Members(b)
  BY DEF Open, Members
<1>4. Owed(i)' = 0
  <2>1. Response(i, "OK") \notin net'
    BY DEF Response, StepTo, Msg
  <2> QED
    BY <2>1 DEF Owed, Response, Msg
<1> HIDE DEF b, o
<1>5. Cardinality(o) <= Size(b) /\ Cardinality(o) \in Nat
  <2>1. IsFiniteSet(o) /\ Cardinality(o) <= Cardinality(Members(b))
    BY <1>2, <1>3, FS_Subset
  <2> QED
    BY <1>2, <2>1, FS_CardinalityType
<1>6. sessions'[i].wait >= Cardinality(o) + Owed(i)'
  BY <1>2, <1>4, <1>5 DEF b
<1> QED
  BY <1>6 DEF o, Counted, Response, StepTo, Msg, Tunnel, Members

(* An OK that arrives is one that the session waits for: curr_wait does    *)
(* not underflow, and at its last OK every model of the step has answered. *)
LEMMA OkAwaited ==
    ASSUME LockDiscipline, NEW i, i \in DOMAIN sessions, Counted(i),
           Response(i, "OK") \in net
    PROVE  /\ sessions[i].wait \in Nat /\ sessions[i].wait >= 1
           /\ session_node_decref_wait(sessions[i]) = sessions[i].wait - 1
           /\ sessions[i].wait >= Cardinality(Open(i)) + 1
           /\ sessions[i].wait = 1 =>
                /\ \A n \in Members(CurrentModels(i)) :
                      StepTo(n, i) \notin net /\ <<i, n>> \in served
                /\ \A k \in 1 .. sessions[i].step :
                      \A n \in Members(sessions[i].chain[k].models) : <<i, n>> \in served
<1>1. /\ IsFiniteSet(Open(i)) /\ Cardinality(Open(i)) \in Nat /\ sessions[i].wait \in Nat
      /\ sessions[i].step \in Nat
  BY CurrentStep
<1>2. sessions[i].wait >= Cardinality(Open(i)) + 1
  BY DEF Counted, Owed
<1>3. sessions[i].wait >= 1
  BY <1>1, <1>2
<1>4. session_node_decref_wait(sessions[i]) = sessions[i].wait - 1
  BY <1>1, <1>3 DEF session_node_decref_wait
<1>5. ASSUME sessions[i].wait = 1
      PROVE  /\ \A n \in Members(CurrentModels(i)) :
                   StepTo(n, i) \notin net /\ <<i, n>> \in served
             /\ \A k \in 1 .. sessions[i].step :
                   \A n \in Members(sessions[i].chain[k].models) : <<i, n>> \in served
  <2>1. Cardinality(Open(i)) = 0
    BY <1>1, <1>2, <1>5
  <2>2. Open(i) = {}
    BY <1>1, <2>1, FS_EmptySet
  <2>3. \A n \in Members(CurrentModels(i)) : StepTo(n, i) \notin net /\ <<i, n>> \in served
    BY <2>2 DEF Open
  <2> SUFFICES ASSUME NEW k \in 1 .. sessions[i].step
               PROVE  \A n \in Members(sessions[i].chain[k].models) : <<i, n>> \in served
    BY <2>3
  <2>4. CASE k = sessions[i].step
    BY <2>3, <2>4 DEF CurrentModels
  <2>5. CASE k # sessions[i].step
    <3>1. k \in 1 .. sessions[i].step - 1
      BY <1>1, <2>5
    <3> QED
      BY <3>1 DEF Counted
  <2> QED
    BY <2>4, <2>5
<1> QED
  BY <1>1, <1>2, <1>3, <1>4, <1>5

(* Such an OK is counted and leaves the session waiting for the others. *)
LEMMA CountReceived ==
    ASSUME LockDiscipline, LockDiscipline', NEW i, i \in DOMAIN sessions, i \in DOMAIN sessions',
           Counted(i), Response(i, "OK") \in net, served' = served,
           net' = net \ {Response(i, "OK")},
           sessions'[i].wait = sessions[i].wait - 1,
           sessions'[i].step = sessions[i].step, sessions'[i].chain = sessions[i].chain
    PROVE  Counted(i)'
<1>1. /\ sessions[i].wait \in Nat /\ sessions[i].wait >= Cardinality(Open(i)) + 1
      /\ Cardinality(Open(i)) \in Nat
  BY OkAwaited, CurrentStep
<1>2. CurrentModels(i)' = CurrentModels(i)
  BY DEF CurrentModels
<1>3. \A n : StepTo(n, i) \in net' <=> StepTo(n, i) \in net
  BY DEF StepTo, Response, Msg
<1>4. Open(i)' = Open(i)
  BY <1>2, <1>3 DEF Open, StepTo, Msg, Tunnel, Members
<1>5. Owed(i)' = 0
  BY DEF Owed, Response, Msg
<1>6. sessions'[i].wait >= Cardinality(Open(i)') + Owed(i)'
  BY <1>1, <1>4, <1>5
<1> QED
  BY <1>2, <1>6 DEF Counted, Response, StepTo, Msg, Tunnel, Members

(* An answer is not taken back. *)
LEMMA ToldStays ==
    ASSUME OneStage, NEW i \in Ids, Answers \/ told' = told, told'[i] = << >>
    PROVE  told[i] = << >>
<1> SUFFICES ASSUME Answers, told[i] # << >> PROVE FALSE
  OBVIOUS
<1>1. PICK d : told[i] = <<d>>
  BY DEF OneStage
<1>2. PICK c : told'[i] = told[i] \/ told'[i] = Append(told[i], c)
  BY DEF Answers
<1>3. <<d>> \in Seq({d, c}) /\ c \in {d, c}
  OBVIOUS
<1>4. Append(<<d>>, c) # << >>
  BY <1>3, AppendProperties
<1> QED
  BY <1>1, <1>2, <1>4

(* A session that ends is answered. *)
LEMMA EndTold ==
    ASSUME LockDiscipline, OneStage, [Next]_vars, Answers,
           NEW i \in Ids, i \in DOMAIN sessions, i \notin DOMAIN sessions'
    PROVE  told'[i] # << >>
<1>1. \E s \in sent' : Closes(s, i)
  BY AnswerStep DEF vars
<1>2. PICK c : told'[i] = Append(told[i], c)
  BY <1>1 DEF Closes, Answers
<1>3. told[i] = << >>
  BY DEF OneStage, InHand
<1>4. Append(<< >>, c) # << >>
  OBVIOUS
<1> QED
  BY <1>2, <1>3, <1>4

(* Handlers that ask no model. *)
LEMMA BalanceQuiet ==
    ASSUME LockDiscipline, LockDiscipline', OneStage, Balance, [Next]_vars, Answers,
           net' \subseteq net, served' = served, DOMAIN sessions' \subseteq DOMAIN sessions,
           \A i \in DOMAIN sessions' :
              /\ sessions'[i].step = sessions[i].step /\ sessions'[i].wait = sessions[i].wait
              /\ \A k \in DOMAIN sessions[i].chain :
                    sessions'[i].chain[k].models = sessions[i].chain[k].models
    PROVE  Balance'
<1> SUFFICES ASSUME NEW i \in Ids
             PROVE  /\ i \in DOMAIN sessions' => Counted(i)'
                    /\ i \notin DOMAIN sessions' => Unsent(i)'
  BY DEF Balance
<1>1. CASE i \in DOMAIN sessions'
  <2>1. i \in DOMAIN sessions /\ Counted(i)
    BY <1>1 DEF Balance
  <2> QED
    BY <1>1, <2>1, CountKept
<1>2. CASE i \notin DOMAIN sessions' /\ i \in DOMAIN sessions
  BY <1>2, EndTold DEF Unsent
<1>3. CASE i \notin DOMAIN sessions' /\ i \notin DOMAIN sessions
  BY <1>3, ToldStays DEF Balance, Unsent, Request, Msg
<1> QED
  BY <1>1, <1>2, <1>3

(* A model, or the registration, answers a step message. *)
LEMMA BalanceAnswered ==
    ASSUME LockDiscipline, LockDiscipline', NetOK, Balance, UNCHANGED <<sessions, told>>,
           NEW m \in net, m.topic # "controller", served \subseteq served',
           NEW new \in SUBSET {Response(m.id, "OK"), Response(m.id, "FAIL")},
           net' = (net \ {m}) \cup new,
           Response(m.id, "OK") \in new =>
              \E n \in Names : m.topic = Tunnel(n) /\ <<m.id, n>> \in served'
    PROVE  Balance'
<1> SUFFICES ASSUME NEW i \in Ids
             PROVE  /\ i \in DOMAIN sessions' => Counted(i)'
                    /\ i \notin DOMAIN sessions' => Unsent(i)'
  BY DEF Balance
<1>0. \A q \in net' : q.id = i => q \in net \/ q \in {Response(i, "OK"), Response(i, "FAIL")}
  BY DEF Response, Msg
<1>1. CASE i \in DOMAIN sessions
  <2>1. Counted(i)
    BY <1>1 DEF Balance
  <2>2. ASSUME Response(i, "OK") \in net', Response(i, "OK") \notin net
        PROVE  \E n \in Members(CurrentModels(i)) :
                  StepTo(n, i) \in net \ net' /\ <<i, n>> \in served'
    <3>1. m.id = i /\ Response(m.id, "OK") \in new
      BY <2>2 DEF Response, Msg
    <3>2. PICK n \in Names : m.topic = Tunnel(n) /\ <<i, n>> \in served'
      BY <3>1
    <3>3. PICK k \in Members(CurrentModels(i)) : m = StepTo(k, i)
      BY <2>1, <3>1 DEF Counted, Response, Msg
    <3>4. k = n
      BY <3>2, <3>3, TunnelsDiffer DEF StepTo, Msg, Members
    <3>5. m \notin net'
      BY DEF Response, Msg
    <3> QED
      BY <3>2, <3>3, <3>4, <3>5
  <2> QED
    BY <1>0, <1>1, <2>1, <2>2, CountKept
<1>2. CASE i \notin DOMAIN sessions
  <2>1. CASE m.id = i
    BY <1>2, <2>1 DEF Balance, Unsent, Request, Msg
  <2>2. CASE m.id # i
    BY <1>2, <2>2 DEF Balance, Unsent, Request, Response, Msg
  <2> QED
    BY <2>1, <2>2
<1> QED
  BY <1>1, <1>2

(* What is published when nobody is asked, and when the models of one step *)
(* are.                                                                    *)
LEMMA NothingPublished ==
    ASSUME \A s \in sent' : s.type # "step"
    PROVE  Published = {}
BY DEF Published

LEMMA StepPublished ==
    ASSUME NEW i, NEW to, sent' = {StepMessage(i, to)}
    PROVE  Published = {StepTo(n, i) : n \in Members(to)}
<1>1. {q \in sent' : q.type = "step"} = {StepMessage(i, to)}
  BY DEF StepMessage
<1>2. StepMessage(i, to).id = i /\ StepMessage(i, to).to = to
  BY DEF StepMessage
<1> QED
  BY <1>1, <1>2 DEF Published, StepTo

(* routing_req_finish: a request becomes a session or is refused. *)
LEMMA BalanceFinish ==
    ASSUME LockDiscipline, LockDiscipline', OneStage, Balance, routing_req_finish,
           net' = net \cup Published, Answers, served' = served
    PROVE  Balance'
<1>0. routing.busy
  BY DEF routing_req_finish
<1>1. PICK r \in Ids : r = routing.id /\ r \notin DOMAIN sessions /\ InHand(r)
  BY <1>0, BusyId DEF routing_req_finish, LockDiscipline, RoutingSound, InHand
<1>2. CASE sessions' = sessions /\ \A s \in sent' : s.type # "step"
  BY <1>2, NothingPublished, BalanceQuiet DEF Next
<1>3. CASE /\ sessions' = [j \in DOMAIN sessions \cup {r} |->
                  IF j = r THEN NextStep(session_create_node) ELSE sessions[j]]
           /\ sent' = {StepMessage(r, routing.chain[1].models)}
  <2> DEFINE s == NextStep(session_create_node)
             b == routing.chain[1].models
  <2>1. s.step = 1 /\ s.chain = routing.chain /\ s.wait = Size(b)
    BY DEF NextStep, session_create_node, session_node_update_wait
  <2> HIDE DEF s
  <2>2. sessions'[r] = s /\ \A j \in DOMAIN sessions : j # r => sessions'[j] = sessions[j]
    BY <1>3 DEF s
  <2>3. DOMAIN sessions' = DOMAIN sessions \cup {r}
    BY <1>3
  <2>4. Published = {StepTo(n, r) : n \in Members(b)}
    BY <1>3, StepPublished
  <2> HIDE DEF b
  <2> SUFFICES ASSUME NEW i \in Ids
               PROVE  /\ i \in DOMAIN sessions' => Counted(i)'
                      /\ i \notin DOMAIN sessions' => Unsent(i)'
    BY DEF Balance
  <2>5. CASE i = r
    <3>1. CurrentModels(r)' = b
      BY <2>1, <2>2 DEF CurrentModels, b
    <3>2. told[r] = << >> /\ Wants[r].topic = "controller" /\ Request(r) \notin net
      BY <1>1 DEF OneStage
    <3>3. \A m \in net : m.id # r
      BY <1>1, <3>2 DEF Balance, Unsent
    <3>4. \A m \in net' : m.id = r => \E n \in Members(b) : m = StepTo(n, r)
      BY <2>4, <3>3
    <3>5. \A k \in 1 .. sessions'[r].step - 1 : FALSE
      BY <2>1, <2>2
    <3> QED
      BY <2>1, <2>2, <2>3, <2>5, <3>1, <3>4, <3>5, CountBegins
  <2>6. CASE i # r
    <3>1. \A m \in net' : m.id = i => m \in net
      BY <2>4, <2>6 DEF StepTo, Msg
    <3>2. CASE i \in DOMAIN sessions
      <4>1. Counted(i) /\ i \in DOMAIN sessions' /\ sessions'[i] = sessions[i]
        BY <2>2, <2>3, <2>6, <3>2 DEF Balance
      <4>2. Response(i, "OK") \in net' => Response(i, "OK") \in net
        BY <3>1 DEF Response, Msg
      <4> QED
        BY <3>1, <3>2, <4>1, <4>2, CountKept
    <3>3. CASE i \notin DOMAIN sessions
      BY <2>3, <2>6, <3>1, <3>3, ToldStays DEF Balance, Unsent, Request, Msg
    <3> QED
      BY <3>2, <3>3
  <2> QED
    BY <2>5, <2>6
<1> QED
  BY <1>1, <1>2, <1>3 DEF routing_req_finish, routing_error_response_all, Reply

(* routing_res: a response is counted. *)
LEMMA BalanceRes ==
    ASSUME LockDiscipline, LockDiscipline', OneStage, Balance,
           NEW id \in Ids, NEW code \in {"OK", "FAIL"}, routing_res(id, code),
           Response(id, code) \in net,
           net' = (net \ {Response(id, code)}) \cup Published, Answers, served' = served
    PROVE  Balance'
<1> DEFINE s == sessions[id]
           wait == session_node_decref_wait(s)
<1>0. [Next]_vars
  BY DEF Next
<1>1. CASE /\ sessions' = sessions \/ sessions' = [i \in DOMAIN sessions \ {id} |-> sessions[i]]
           /\ \A q \in sent' : q.type # "step"
  BY <1>0, <1>1, NothingPublished, BalanceQuiet
<1>2. ASSUME id \in DOMAIN sessions, code = "OK", DOMAIN sessions' = DOMAIN sessions,
             \A j \in DOMAIN sessions : j # id => sessions'[j] = sessions[j],
             \A m \in Published : m.id = id, Counted(id)'
      PROVE  Balance'
  <2> SUFFICES ASSUME NEW i \in Ids, i # id
               PROVE  /\ i \in DOMAIN sessions' => Counted(i)'
                      /\ i \notin DOMAIN sessions' => Unsent(i)'
    BY <1>2 DEF Balance
  <2>1. \A m \in net' : m.id = i => m \in net
    BY <1>2
  <2>2. CASE i \in DOMAIN sessions
    <3>1. Counted(i) /\ i \in DOMAIN sessions' /\ sessions'[i] = sessions[i]
      BY <1>2, <2>2 DEF Balance
    <3>2. Response(i, "OK") \in net' => Response(i, "OK") \in net
      BY <2>1 DEF Response, Msg
    <3> QED
      BY <2>1, <2>2, <3>1, <3>2, CountKept
  <2>3. CASE i \notin DOMAIN sessions
    BY <1>2, <2>1, <2>3, ToldStays DEF Balance, Unsent, Request, Msg
  <2> QED
    BY <2>2, <2>3
<1>3. ASSUME id \in DOMAIN sessions, code = "OK"
      PROVE  /\ Counted(id) /\ s.wait \in Nat /\ wait = s.wait - 1 /\ s.wait >= 1
             /\ s \in Session /\ s.step \in 1 .. Len(s.chain) /\ Len(s.chain) \in Nat
             /\ s.chain \in Seq(ChainStep)
  <2>1. Counted(id)
    BY <1>3 DEF Balance
  <2> QED
    BY <1>3, <2>1, OkAwaited, CurrentStep DEF Session
<1>4. CASE /\ id \in DOMAIN sessions /\ code = "OK" /\ wait # 0
           /\ sessions' = [sessions EXCEPT ![id].wait = wait] /\ sent' = {}
  <2>1. /\ DOMAIN sessions' = DOMAIN sessions
        /\ \A j \in DOMAIN sessions : j # id => sessions'[j] = sessions[j]
        /\ sessions'[id] = [s EXCEPT !.wait = wait]
    BY <1>4
  <2>2. Published = {}
    BY <1>4, NothingPublished
  <2> HIDE DEF wait
  <2>3. /\ sessions'[id].wait = s.wait - 1
        /\ sessions'[id].step = s.step /\ sessions'[id].chain = s.chain
    BY <1>3, <1>4, <2>1 DEF Session
  <2>4. Counted(id)'
    BY <1>3, <1>4, <2>1, <2>2, <2>3, CountReceived
  <2> QED
    BY <1>2, <1>4, <2>1, <2>2, <2>4
<1>5. CASE /\ id \in DOMAIN sessions /\ code = "OK" /\ wait = 0 /\ s.step < Len(s.chain)
           /\ sessions' = [sessions EXCEPT ![id] = NextStep(s)]
           /\ sent' = {StepMessage(id, Reachable(s.chain[s.step + 1].models))}
  <2> DEFINE b == s.chain[s.step + 1].models
  <2>1. /\ DOMAIN sessions' = DOMAIN sessions
        /\ \A j \in DOMAIN sessions : j # id => sessions'[j] = sessions[j]
        /\ sessions'[id] = NextStep(s)
    BY <1>5
  <2>2. NextStep(s).step = s.step + 1 /\ NextStep(s).chain = s.chain /\ NextStep(s).wait = Size(b)
    BY <1>3, <1>5, NextStepType
  <2>3. Published = {StepTo(n, id) : n \in Members(Reachable(b))}
    BY <1>5, StepPublished
  <2>4. Members(Reachable(b)) \subseteq Members(b)
    BY DEF Members, Reachable
  <2>5. CurrentModels(id)' = b
    BY <2>1, <2>2 DEF CurrentModels
  <2> HIDE DEF b
  <2>6. /\ \A n \in Members(CurrentModels(id)) : StepTo(n, id) \notin net
        /\ \A k \in 1 .. s.step : \A n \in Members(s.chain[k].models) : <<id, n>> \in served
    <3>1. s.wait = 1
      BY <1>3, <1>5
    <3> QED
      BY <1>3, <1>5, <3>1, OkAwaited
  <2>7. \A m \in net' : m.id = id =>
           m = Response(id, "FAIL") \/ \E n \in Members(b) : m = StepTo(n, id)
    BY <1>3, <1>5, <2>3, <2>4, <2>6 DEF Counted
  <2>8. Counted(id)'
    <3>1. sessions'[id].wait = Size(CurrentModels(id)')
      BY <2>1, <2>2, <2>5
    <3>2. \A k \in 1 .. sessions'[id].step - 1 :
             \A n \in Members(sessions'[id].chain[k].models) : <<id, n>> \in served'
      <4>1. sessions'[id].step = s.step + 1 /\ sessions'[id].chain = s.chain
        BY <2>1, <2>2, Zenon
      <4>2. sessions'[id].step - 1 = s.step
        <5> DEFINE old == s.step
                   new == sessions'[id].step
        <5>1. old \in Nat /\ new = old + 1
          BY <1>3, <1>5, <4>1
        <5> HIDE DEF old, new
        <5>2. new - 1 = old
          BY <5>1
        <5> QED
          BY <5>2 DEF old, new
      <4> QED
        BY <2>6, <4>1, <4>2
    <3>3. \A m \in net' : m.id = id =>
             m = Response(id, "FAIL") \/ \E n \in Members(CurrentModels(id)') : m = StepTo(n, id)
      BY <2>5, <2>7
    <3> QED
      BY <1>5, <2>1, <3>1, <3>2, <3>3, CountBegins
  <2>9. \A m \in Published : m.id = id
    BY <2>3 DEF StepTo, Msg
  <2> QED
    BY <1>2, <1>5, <2>1, <2>8, <2>9
<1> QED
  BY <1>1, <1>4, <1>5
     DEF routing_res, session_step_update, session_step_stop, Reply

(* Without repeated messages, every step of the system keeps the balance   *)
(* between what a session waits for and what is to come.                   *)
LEMMA BalanceStep ==
    ASSUME MayRepeat = FALSE, SysInv, SysInv', OneStage, Balance, [SysNext]_sysVars
    PROVE  Balance'
<1>0. LockDiscipline /\ NetOK /\ LockDiscipline' /\ [Next]_vars
  BY SysStep DEF SysInv
<1>1. ASSUME UNCHANGED <<sessions, told>>, served \subseteq served', net' \subseteq net
      PROVE  Balance'
  <2> SUFFICES ASSUME NEW i \in Ids
               PROVE  /\ i \in DOMAIN sessions' => Counted(i)'
                      /\ i \notin DOMAIN sessions' => Unsent(i)'
    BY DEF Balance
  <2>1. CASE i \in DOMAIN sessions
    BY <1>0, <1>1, <2>1, CountKept DEF Balance
  <2>2. CASE i \notin DOMAIN sessions
    BY <1>1, <2>2 DEF Balance, Unsent, Request, Msg
  <2> QED
    BY <1>1, <2>1, <2>2
<1>2. CASE UNCHANGED sysVars
  BY <1>1, <1>2 DEF sysVars, vars, netVars
<1>3. ASSUME NEW j \in Ids, ask(j) PROVE Balance'
  <2>1. /\ UNCHANGED <<sessions, routing, told, served>> /\ j \notin DOMAIN sessions
        /\ net' = net \cup {Msg(Wants[j].topic, j, "none")}
    BY <1>3 DEF ask, vars, OneStage, InHand
  <2> SUFFICES ASSUME NEW i \in Ids
               PROVE  /\ i \in DOMAIN sessions' => Counted(i)'
                      /\ i \notin DOMAIN sessions' => Unsent(i)'
    BY DEF Balance
  <2>2. CASE i \in DOMAIN sessions
    <3>1. \A m \in net' : m.id = i => m \in net
      BY <2>1, <2>2 DEF Msg
    <3>2. Response(i, "OK") \in net' => Response(i, "OK") \in net
      BY <3>1 DEF Response, Msg
    <3> QED
      BY <1>0, <2>1, <2>2, <3>1, <3>2, CountKept DEF Balance
  <2>3. CASE i \notin DOMAIN sessions
    BY <2>1, <2>3 DEF Balance, Unsent, Request, Msg
  <2> QED
    BY <2>1, <2>2, <2>3
<1>4. CASE search
  <2>1. CASE routing_req_level
    <3>1. /\ net' = net \cup Published /\ Answers /\ served' = served /\ sessions' = sessions
      BY <1>4, <2>1 DEF search, routing_req_level
    <3>2. \A s \in sent' : s.type # "step"
      BY <2>1 DEF routing_req_level, routing_error_response_all, Reply
    <3> QED
      BY <1>0, <3>1, <3>2, NothingPublished, BalanceQuiet
  <2>2. CASE routing_req_finish
    BY <1>0, <1>4, <2>2, BalanceFinish DEF search
  <2> QED
    BY <1>4, <2>1, <2>2 DEF search
<1>5. CASE refresh
  <2>1. PICK d \in Ticks : session_decref_ttl(d)
    BY <1>5 DEF refresh
  <2>2. Answers /\ net' = net /\ served' = served
    BY <1>5 DEF refresh
  <2>3. /\ DOMAIN sessions' \subseteq DOMAIN sessions
        /\ \A i \in DOMAIN sessions' : sessions'[i] = Aged(sessions[i], d)
    BY <2>1 DEF session_decref_ttl
  <2>4. \A i \in DOMAIN sessions' :
           /\ sessions'[i].step = sessions[i].step /\ sessions'[i].wait = sessions[i].wait
           /\ \A k \in DOMAIN sessions[i].chain :
                 sessions'[i].chain[k].models = sessions[i].chain[k].models
    <3>1. d \in Nat
      BY ControllerAssumption
    <3> QED
      BY <1>0, <2>3, <3>1, CurrentStep, AgedType
  <2> QED
    BY <1>0, <2>2, <2>3, <2>4, BalanceQuiet
<1>6. CASE reconnect
  BY <1>1, <1>6 DEF reconnect, sanji_connect_callback, netVars
<1>7. ASSUME NEW m \in net, deliver(m) PROVE Balance'
  <2>0. m.id \in Ids /\ m.code \in {"none", "OK", "FAIL"} /\ m \in Message
    BY <1>0, Fields
  <2>1. CASE net' = net \ {m} /\ UNCHANGED <<vars, told, served>>
    BY <1>1, <2>1 DEF vars
  <2>2. CASE /\ m.topic = "controller" /\ routing_procedure(m)
             /\ Delivered(m, Published) /\ Answers /\ served' = served
    <3>1. net' = (net \ {m}) \cup Published
      BY <2>2 DEF Delivered
    <3>2. CASE sessions' = sessions /\ \A s \in sent' : s.type # "step"
      BY <1>0, <2>2, <3>1, <3>2, NothingPublished, BalanceQuiet
    <3>3. CASE response(m) /\ routing_res(m.id, m.code)
      <4>1. m.code \in {"OK", "FAIL"} /\ m = Response(m.id, m.code)
        BY <2>0, <2>2, <3>3 DEF Message, Response, Msg, response
      <4> QED
        BY <1>0, <2>0, <2>2, <3>1, <3>3, <4>1, BalanceRes
    <3>4. ASSUME NEW t, routing_event(t)
          PROVE  sessions' = sessions /\ \A s \in sent' : s.type # "step"
      BY <3>4 DEF routing_event, EventMessage
    <3>5. ASSUME NEW write, NEW tunnel, NEW t, routing_req(m.id, write, tunnel, t)
          PROVE  sessions' = sessions /\ \A s \in sent' : s.type # "step"
      BY <3>5 DEF routing_req, routing_error_response_all, Reply
    <3> QED
      BY <2>2, <3>2, <3>3, <3>4, <3>5 DEF routing_procedure
  <2>3. CASE /\ m.topic = "registration" /\ register_procedure(m) /\ told' = told
             /\ Delivered(m, register_responses(m, register_code(register_status(Wants[m.id]))))
             /\ served' = IF register_status(Wants[m.id]) = "OK"
                          THEN served \cup {<<m.id, Registrar>>} ELSE served
    <3> DEFINE status == register_status(Wants[m.id])
               new == register_responses(m, register_code(status))
    <3>1. sessions' = sessions
      BY <2>3 DEF register_procedure, register_procedure_refuse,
                  register_procedure_create, register_procedure_delete
    <3>2. net' = (net \ {m}) \cup new
      BY <2>3 DEF Delivered
    <3>3. Registrar \in Names /\ m.topic = Tunnel(Registrar)
      BY <2>3, SystemAssumption DEF Tunnel
    <3>4. /\ new \in SUBSET {Response(m.id, "OK"), Response(m.id, "FAIL")}
          /\ Response(m.id, "OK") \in new => status = "OK"
      <4> HIDE DEF status
      <4> QED
        BY DEF register_responses, register_code, Response, Msg
    <3>5. served \subseteq served' /\ (status = "OK" => <<m.id, Registrar>> \in served')
      BY <2>3
    <3> HIDE DEF new, status
    <3> QED
      BY <1>0, <2>3, <3>1, <3>2, <3>3, <3>4, <3>5, BalanceAnswered
  <2> QED
    BY <1>7, <2>1, <2>2, <2>3 DEF deliver
<1>8. ASSUME NEW m \in net, NEW code \in {"OK", "FAIL"}, model_answers(m, code)
      PROVE  Balance'
  <2>1. /\ m.topic \in Names \ {Registrar} /\ m.topic # "controller"
        /\ UNCHANGED <<sessions, told>>
        /\ net' = (net \ {m}) \cup {Response(m.id, code)}
        /\ served' = IF code = "OK" THEN served \cup {<<m.id, m.topic>>} ELSE served
    <3>1. m \in Message
      BY <1>0, Fields
    <3> QED
      BY <1>8, <3>1 DEF model_answers, Delivered, Message, vars, Response
  <2>2. m.topic = Tunnel(m.topic)
    BY <2>1 DEF Tunnel
  <2>3. Response(m.id, "OK") = Response(m.id, code) => code = "OK"
    BY DEF Response, Msg
  <2>4. {Response(m.id, code)} \in SUBSET {Response(m.id, "OK"), Response(m.id, "FAIL")}
    OBVIOUS
  <2>5. served \subseteq served' /\ (code = "OK" => <<m.id, m.topic>> \in served')
    BY <2>1
  <2> QED
    BY <1>0, <2>1, <2>2, <2>3, <2>4, <2>5, BalanceAnswered
<1>9. ASSUME NEW m \in net, lose(m) PROVE Balance'
  BY <1>1, <1>9 DEF lose, vars
<1> QED
  BY <1>2, <1>3, <1>4, <1>5, <1>6, <1>7, <1>8, <1>9 DEF SysNext

(* The last OK that a session waits for finds every model of its chain     *)
(* served.                                                                 *)
LEMMA LastOk ==
    ASSUME LockDiscipline, Balance, NEW i \in Ids, Response(i, "OK") \in net,
           routing_res(i, "OK"), \E s \in sent' : s.type = "reply"
    PROVE  /\ i \in DOMAIN sessions
           /\ \A n \in ChainModels(sessions[i].chain) : <<i, n>> \in served
<1> DEFINE s == sessions[i]
<1>1. i \in DOMAIN sessions /\ session_node_decref_wait(s) = 0 /\ s.step >= Len(s.chain)
  BY DEF routing_res, session_step_update, StepMessage
<1>2. Counted(i)
  BY <1>1 DEF Balance
<1>3. s.step \in 1 .. Len(s.chain) /\ DOMAIN s.chain = 1 .. Len(s.chain) /\ Len(s.chain) \in Nat
  BY <1>1, CurrentStep
<1>4. s.wait = 1
  BY <1>1, <1>2, OkAwaited
<1>5. \A k \in 1 .. s.step : \A n \in Members(s.chain[k].models) : <<i, n>> \in served
  BY <1>1, <1>2, <1>4, OkAwaited
<1>6. DOMAIN s.chain = 1 .. s.step
  BY <1>1, <1>3
<1> QED
  BY <1>1, <1>5, <1>6 DEF ChainModels

(* The step that tells a client OK is the one of such an OK. *)
LEMMA OkStep ==
    ASSUME SysInv, OneStage, OneStage', Balance, [SysNext]_sysVars,
           NEW i \in Ids, told'[i] # told[i], told'[i][Len(told'[i])] = "OK"
    PROVE  /\ i \in DOMAIN sessions
           /\ \A n \in ChainModels(sessions[i].chain) : <<i, n>> \in served
<1>0. LockDiscipline /\ NetOK
  BY DEF SysInv
<1>1. Answers
  BY DEF SysNext, sysVars, netVars, ask, search, refresh, reconnect, deliver, model_answers, lose
<1>2. told'[i] = <<"OK">>
  <2>1. told'[i] = << >> \/ \E c : told'[i] = <<c>>
    BY DEF OneStage
  <2>2. told'[i] # << >>
    BY <1>1, ToldStays
  <2>3. PICK c : told'[i] = <<c>>
    BY <2>1, <2>2
  <2> QED
    BY <2>3
<1>3. PICK s \in sent' : s.type = "reply" /\ s.id = i /\ s.code = "OK"
  BY <1>1, <1>2, StillNotOk
<1>4. PICK m \in net : deliver(m)
  <2>1. CASE search
    BY <1>3, <2>1, NobodyToldOk DEF search
  <2>2. CASE refresh
    BY <1>3, <2>2, NobodyToldOk DEF refresh
  <2> QED
    BY <2>1, <2>2 DEF SysNext, sysVars, netVars, ask, reconnect, model_answers, lose
<1>5. m.topic = "controller" /\ routing_procedure(m)
  BY <1>4 DEF deliver
<1>6. response(m) /\ routing_res(m.id, m.code)
  BY <1>3, <1>5, NobodyToldOk DEF routing_procedure
<1>7. m.id = i /\ m.code = "OK"
  BY <1>3, <1>6, NobodyToldOk
<1>8. Response(i, "OK") \in net
  <2>1. m \in Message
    BY <1>0, Fields
  <2>2. m = Response(i, "OK")
    BY <1>5, <1>7, <2>1 DEF Message, Response, Msg
  <2> QED
    BY <2>2
<1> QED
  BY <1>0, <1>3, <1>6, <1>7, <1>8, LastOk

(* When the broker repeats no message, a client is told OK only after      *)
(* every model of the chain of its request has been asked and has answered *)
(* OK, although responses are only counted and matched by id alone.        *)
THEOREM OkMeansAllServed ==
    ASSUME MayRepeat = FALSE
    PROVE  SysSpec => OkMeansServed
<1>1. SysInit => OneStage /\ Balance
  BY DEF SysInit, Init, Idle, OneStage, InHand, Balance, Unsent
<1>2. SysInv /\ OneStage /\ [SysNext]_sysVars => OneStage'
  BY StageStep
<1>3. SysInv /\ SysInv' /\ OneStage /\ Balance /\ [SysNext]_sysVars => Balance'
  BY BalanceStep
<1>4. SysInv /\ OneStage /\ OneStage' /\ Balance /\ [SysNext]_sysVars =>
         [\A i \in Ids :
            told'[i] # told[i] /\ told'[i][Len(told'[i])] = "OK" =>
               /\ i \in DOMAIN sessions
               /\ \A n \in ChainModels(sessions[i].chain) : <<i, n>> \in served]_sysVars
  BY OkStep
<1> QED
  BY <1>1, <1>2, <1>3, <1>4, SysInvHolds, PTL DEF SysSpec, OkMeansServed

=============================================================================
