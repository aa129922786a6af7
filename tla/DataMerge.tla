------------------------------ MODULE DataMerge ------------------------------
(***************************************************************************)
(* The 'data' objects of one session: how session_step and                 *)
(* session_step_stop merge the results of the models, in the order in      *)
(* which session_step_update has appended them to result_chain.            *)
(*                                                                         *)
(* A JSON object is a function from its keys; the value of a key is the    *)
(* number of the response that brought it, so that the origin of           *)
(* everything that is published can be told.  json_object_set in           *)
(* session_step_update shares the object: the last element of result_chain *)
(* and the 'data' of the response at hand are one object, and what         *)
(* session_step merges into the one it merges into the other.              *)
(***************************************************************************)
EXTENDS Integers, Sequences

CONSTANTS
    Keys,       \* keys of the data objects
    NoData,     \* stands for a missing object
    Responses,  \* the key sets of the data that a response carries, or NoData
    Chains      \* model chains: the number of models of each step

ASSUME DataMergeAssumption ==
    /\ Responses \ {NoData} \subseteq SUBSET Keys
    /\ \A K \in SUBSET Keys : NoData \notin [K -> Nat]    \* it is no object
    /\ \A c \in Chains : c # << >> /\ c \in Seq(Nat \ {0})

VARIABLES
    chain,         \* model_chain of the session, << >> when there is none
    curr_step,
    curr_wait,
    result_chain,  \* the data objects of the responses so far
    received,      \* history: the responses as they arrived
    merged,        \* history: the responses that session_step merged into
    sent           \* what the last handler published

vars == <<chain, curr_step, curr_wait, result_chain, received, merged, sent>>

-----------------------------------------------------------------------------
(* jansson: copies every entry of other; does nothing when one of the two  *)
(* is not an object.                                                       *)
json_object_update(object, other) ==
    IF object = NoData \/ other = NoData THEN object
    ELSE [k \in DOMAIN object \cup DOMAIN other |->
            IF k \in DOMAIN other THEN other[k] ELSE object[k]]

(* The loop of session_step: every result goes into the data of the last   *)
(* response, which is the last result itself.                              *)
step_data(results) ==
    LET n == Len(results)
        data[i \in 0 .. n] ==
            IF i = 0 THEN results[n]
            ELSE json_object_update(data[i - 1],
                                    IF i = n THEN data[i - 1] ELSE results[i])
    IN  data[n]

(* variant: only the result at hand is answered *)
reply_data_last(results) == results[Len(results)]

(* variant: the results are taken from the last to the first *)
reply_data_backwards(results) ==
    LET n == Len(results)
        data[i \in 0 .. n] ==
            IF i = 0 THEN results[n]
            ELSE json_object_update(data[i - 1], results[n + 1 - i])
    IN  data[n]

(* The loop of session_step_stop: every result goes into a deep copy of    *)
(* the last response.                                                      *)
reply_data(results) ==
    LET n == Len(results)
        data[i \in 0 .. n] ==
            IF i = 0 THEN results[n]
            ELSE json_object_update(data[i - 1], results[i])
    IN  data[n]

(* The object that session_step has changed is the last of result_chain. *)
shared_result(results, data) == [results EXCEPT ![Len(results)] = data]

-----------------------------------------------------------------------------
Published(type, data) == [type |-> type, data |-> data]

(* A request is admitted and its first step published, with the data of    *)
(* the request.                                                            *)
session_create_node(c) ==
    /\ chain = << >>
    /\ chain' = c
    /\ curr_step' = 1
    /\ curr_wait' = c[1]
    /\ result_chain' = << >>
    /\ received' = << >>
    /\ merged' = {}
    /\ sent' = Published("request", NoData)

session_over(data) ==
    /\ chain' = << >>
    /\ curr_step' = 0
    /\ curr_wait' = 0
    /\ result_chain' = << >>
    /\ sent' = data
    /\ UNCHANGED merged

(* variant: the counter is compared before it is decreased *)
last_response_late == curr_wait = 0

(* session_node_decref_wait: the step has all its responses. *)
last_response == curr_wait = 1

(* A response with code 200. *)
session_step_update(response) ==
    LET number == Len(received) + 1
        result == IF response = NoData THEN NoData
                  ELSE [k \in response |-> number]
        results == Append(result_chain, result)
    IN  /\ chain # << >>
        /\ received' = Append(received, response)
        /\ \/ /\ ~ last_response
              /\ curr_wait' = curr_wait - 1
              /\ result_chain' = results
              /\ sent' = Published("nothing", NoData)
              /\ UNCHANGED <<chain, curr_step, merged>>
           \/ /\ last_response /\ curr_step < Len(chain)
              /\ curr_step' = curr_step + 1
              /\ curr_wait' = chain[curr_step + 1]
              /\ merged' = merged \cup {number}
              /\ result_chain' = shared_result(results, step_data(results))
              /\ sent' = Published("step", step_data(results))
              /\ UNCHANGED chain
           \/ /\ last_response /\ curr_step = Len(chain)
              /\ session_over(Published("reply", reply_data(results)))

(* Any other code: the response is passed on as it is. *)
session_step_fail(response) ==
    /\ chain # << >>
    /\ received' = Append(received, response)
    /\ session_over(Published("error",
           IF response = NoData THEN NoData
           ELSE [k \in response |-> Len(received) + 1]))

(* The ttl runs out: the answer holds no result. *)
session_step_expire ==
    /\ chain # << >>
    /\ UNCHANGED received
    /\ session_over(Published("timeout", NoData))

Init ==
    /\ chain = << >>
    /\ curr_step = 0
    /\ curr_wait = 0
    /\ result_chain = << >>
    /\ received = << >>
    /\ merged = {}
    /\ sent = Published("nothing", NoData)

Next ==
    \/ \E c \in Chains : session_create_node(c)
    \/ \E response \in Responses : session_step_update(response)
    \/ \E response \in Responses : session_step_fail(response)
    \/ session_step_expire

Spec == Init /\ [][Next]_vars

-----------------------------------------------------------------------------
Bringing(k) == {i \in DOMAIN received : received[i] # NoData /\ k \in received[i]}

(* An object that holds nothing but values of responses of this session. *)
Object(data) ==
    data # NoData => \A k \in DOMAIN data : k \in Keys /\ data[k] \in Bringing(k)

(* The counters stay within the chain, and no merge makes up a value: what *)
(* stands for a key came with that key in a response of this session.      *)
TypeOK ==
    /\ chain \in Chains \cup {<< >>}
    /\ curr_step \in 0 .. Len(chain)
    /\ chain # << >> => curr_wait \in 1 .. chain[curr_step]
    /\ \A i \in DOMAIN result_chain : Object(result_chain[i])
    /\ Object(sent.data)
    /\ merged \subseteq DOMAIN received

Merged == sent.type \in {"step", "reply"}

(* "response data will be merged": the data sent to the next step and to   *)
(* the client hold every key that any response has brought.                *)
NothingLost ==
    Merged => \A k \in Keys : Bringing(k) # {} =>
                 sent.data # NoData /\ k \in DOMAIN sent.data

Latest(k, i) == i \in Bringing(k) /\ \A j \in Bringing(k) : j <= i

(* "new data will overwrite old data(the same key)", as far as the code    *)
(* does so: the next step and the client get the latest value of a key,    *)
(* through any number of merges, unless the response that brought it was   *)
(* the last of a step and another one had the key too.  Then session_step  *)
(* merges the older results into this response, over what it brought.      *)
NewestWins ==
    Merged /\ sent.data # NoData =>
        \A k \in DOMAIN sent.data : \A i \in Bringing(k) :
            Latest(k, i) /\ (i \in merged => Bringing(k) = {i}) => sent.data[k] = i
=============================================================================
