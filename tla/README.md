# A TLA+ model of the Sanji controller

The Sanji controller is one process between an MQTT broker and a set of
*components*. A component is a *model* (it serves resources) or a *view* (it
shows them). Components register with the controller, clients send requests
for resources, and the controller asks the models that subscribe to the
resource, then the models that *hook* those, step by step, and answers the
views or the tunnel of the client when the last step is done. A write locks
everything it will touch until it ends.

The project holds

- the two tables, the sessions and the routing of that process (`Registry`,
  `Controller`), and what they promise the models (`LockService`);
- the parts that `Controller` abstracts from: wildcard matching
  (`WildcardMatch`, `ResourceLookup`), real time (`SessionClock`), the merge of
  result data (`DataMerge`), the dependency lookup (`Dependency`);
- the process around it: the configuration file (`Ini`, and its promise
  `IniMap`), the settings (`Config`), start, loop, signals and end (`MainLoop`);
- the composition with clients, models and broker (`System`);
- systems small enough for TLC (the `MC` modules and the `.cfg` files) and the
  proofs (the `...Proofs` modules).

Paths below are paths of the repository; `C` stands for
`src/sanji_controller.c`.

## 1. Inventory

| component | state | operations | interacts with |
|---|---|---|---|
| component table (`src/component.c`) | list of nodes: name, tunnel, role, hooks, ttl, lock | add, delete, lookups by name, role and hook, lock, unlock | registration adds and deletes, sessions lock, routing looks up |
| resource table (`src/resource.c`) | list of nodes: name (may be a wildcard), subscriber list, lock | append a subscriber, remove a component from all lists, lookups, lock, unlock | the same |
| sessions (`src/session.c`) | list of requests in flight: id, method, tunnel, dependency chain, model chain with ttls, view chain, results, current step and wait | create, lock, unlock, step, count a response, expire, stop | locks nodes of both tables, publishes to models, views and tunnels |
| routing (C:1500-2037) | local variables of one handler | request, response, event | reads both tables, creates and drives sessions |
| registration (C:658-1140) | none of its own | create, delete (update and read are refused) | changes both tables; is itself served as a built-in model |
| dependency lookup (C:1143-1498) | none | list the resources that a write would lock | reads both tables |
| session clock (C:2212-2229) | time of the last refresh | take the elapsed time off every session | expires sessions |
| connection callback (C:2284-2334) | the three list heads | create the lists once, register the built-in models when missing | runs again at every reconnection |
| parsing and dispatch (C:2039-2210) | none | JSON to fields, choice of the procedure by topic | calls registration, dependency lookup or routing |
| options and configuration (C:109-420) | `struct sanji_config`, client id, topics | defaults, options, file, validation | decides what the main loop and the callback do |
| ini parser (`src/ini.c`, `src/lib/strext.c`) | three parallel arrays | set, get, parse, release | read by the configuration |
| main loop (C:63-75, C:2347-2496, `src/lib/daemonize.c`) | the run and dump flags, the retries left, the connection | daemonize, connect with retries, loop, reconnect, signals, clean up | calls the clock after each round of the MQTT library |
| `src/list.h`, the rest of `src/lib/*`, display and dump functions, `src/tool/*` | - | - | vendored, plain helpers, example clients |

The process has one thread. `mosquitto_loop` calls one message callback at a
time and the clock runs between two of them, so no handler is interrupted.
What is hard lies *between* handlers: a write lives from its request to its
last response or its ttl, and everything else happens meanwhile.

- Other requests meet its locks, reached by another resource, a wildcard or
  a hook; a refused one is rolled back.
- Components register and deregister, which frees the nodes it has locked;
  its unlock gives up at the first node it does not find.
- Responses are counted and matched by id alone. They come late, twice, never
  or from somebody else, and the id may be used again.
- The ttl of a step runs out while responses are on their way.
- The broker connection is lost and made again, with the tables kept.
- Registrations shape the search of the next request: cycles of hooks, hooks
  by views, a model reached twice, a resource listed twice.
- A registration is itself a routed request: it passes through the controller
  twice, with the broker between the passes.
- Signals interrupt the main loop anywhere, and the broker goes and comes.

What makes each part correct: the tables hold no entry of a component that
left and no resource without subscribers; locks are exclusive, are held for
the whole of a write, and never outlive it; what a write uses stays
registered; every session is answered exactly once and ends; every handler
returns; every request gets one answer, and OK means done; the process obeys
its settings and its signals, and comes back when the broker does.
`PROJECT.json` lists the hazards line by line.

## 2. The modules

### Registry

| TLA+ | code |
|---|---|
| `component` (function on the registered names), `component_lock` | `struct component` list, its `lock` fields |
| `subscribed` (resource to bag of names), `resource_lock` | `struct resource` list, its `lock` fields |
| `register_create`, `register_delete` | same names, with all checks; `..._status` is the code they return |
| `component_add_node`, `resource_append_component_by_name`, `component_delete_first_name`, `resource_remove_all_component_by_name` | same names |
| `connect_builtins`, `RegistryInit` | the end of `sanji_connect_callback` |

A list of names is a bag: nothing in the code depends on the order of a
list, but much depends on multiplicity (a model that stands twice in a chain
cannot be locked; a component that stands twice in a subscriber list is only
removed once). Descriptions and tunnel strings are left out; a registered
component has one tunnel. `Registrations` is the set of requests that passed
the validation of `register_procedure`; each names at least one resource, as
that validation demands.

### Controller

`sessions` maps the ids in flight to session nodes, `routing` holds the local
variables of `routing_req`, and `sent` the messages that the last handler
published.

| action | code |
|---|---|
| `routing_req` | `routing_req` up to its loop: the refusals 404, 403, 423, 501 |
| `routing_req_level` | one iteration of its `do ... while`: models, ttls, dependencies, hooks, views; 423 if a model is locked |
| `routing_req_spins` | an iteration beyond the bound `MaxSteps` |
| `routing_req_finish` | the rest: 403 without a model in the first step, lock, 503 with rollback, or `session_add` and the first `session_step` |
| `routing_res` | `routing_res`, `session_step_update`, `session_node_decref_wait`, `session_step`, `session_step_stop` |
| `session_decref_ttl` | `sanji_refresh_session`, `session_decref_ttl`, `session_step_stop` of all that expired |
| `routing_event` | `routing_event` |
| `register_procedure_create`, `register_procedure_delete` | the CREATE and DELETE cases of `register_procedure`, with one answer, or two when the resource does not match |
| `register_procedure_refuse` | its refusals |
| `sanji_connect_callback` | a reconnection |

`routing_req` is cut into iterations because its loop has no bound in the
code; no other action is enabled while it runs, as in the one thread.

The environment is open. Any request, response, registration or event may
arrive in any state; no model has to answer, and a response need not come
from a model that was asked. This is more than a broker can do, so what holds
here holds for every broker, client and component.

Abstractions. `Matches` stands for the matching of a topic with resource
names (`ResourceLookup`). A method is write-like or not. The code of a response is 200 or not.
`curr_wait` is an unsigned integer modulo `WaitMod`. Payloads are left out here (see `DataMerge`).
The unlock at the end of a write clears all locks if all nodes exist, and any
part of them that the early return may leave otherwise. Out of memory is not
modelled. `MaxCopies` and `MaxSteps` are the bounds, both in guards. An answer
for which there is neither a tunnel nor a view that is still registered is in
`sent` with nobody to go to; the code publishes nothing then
(`src/session.c:486-510`).

### Dependency

`Dependency` extends `Controller` with the dependency lookup. `dependency_read`
has a search loop of its own; its levels are the recursive function
`dependency_level`. `Reached` is a reference definition without a search: the
least set of models that holds the subscribers and is closed under hooking.
`lookup_resource_dependency_procedure` answers a READ of a resource and
`lookup_resource_dependency_refuse` everything else; neither changes the tables.
The code does not return after the 400 for a wrong resource nor after the 405
for a READ of the bare topic, so a request may get two or three answers.

### DataMerge

The data objects of one session, apart from the rest: `session_step_update`
appends the data of a response to `result_chain`, `step_data` is the loop of
`session_step` that makes the data for the next step, `reply_data` the loop of
`session_step_stop`. The value of a key is the number of the response that
brought it. `shared_result` is the sharing that `json_object_set` causes: the
data of the response and the last result are one object, so `session_step`
changes a result that later merges read. `received` (the responses as they
came) and `merged` (those that `session_step` merged into) are history.

### LockService

What the controller promises its models, in two actions: `begin` a request on
models none of which is locked, `end` some requests and release what their
writes hold. `Controller` maps a session to the models of its chain and the
lock flags to `locked` (`Service`), and implements it.

### WildcardMatch, ResourceLookup

`scan` is the two-pointer loop of `resource_lookup_wildcard_nodes_by_name` as a
recursive function on the two positions (`scan_from`), `wildcard_matches` the
test after it. Names and topics are sequences of characters because the code
compares characters. `ByLevel` is the reference definition, level by level
(`LevelsFrom` splits a name). `ResourceLookup` adds the table, the loop over its
nodes (`Select`), the exact lookup and the union of both
(`sanji_match_resource_list`).

### SessionClock

Real time in ticks, the monotonic clock of `get_timestamp` that shows whole
seconds, and `sanji_refresh_session`, which takes the seconds since its last
call off every session, those that are younger than that call included.
`since` and `dropped` are history. `Period` is the longest time between two
refreshes: the select of `mosquitto_loop`, the handlers, the pause before a
reconnection.

### Ini, IniMap, Config

`Ini` has the three arrays as they are, slot by slot: growth by `INI_MINSIZE`
when `num = size`, the search for a free slot, the comparison of hash and
name, the release of the first `num` slots. `ini_parse_file` reads a line at a
time and joins lines that end in a backslash. A line is given by what
`ini_parse_line` makes of it; `Parts` and `value_text` say what joined lines
become. The section buffer is not initialised in the code, so its first
content is any of `Garbage`. The key `section:key` is the pair of its parts; names
that contain a `:`, which the concatenation (`src/ini.c:331`) could confuse, are
left out. `IniMap` is the promise: one line changes one key.

`Config` extends `Ini`. It starts with the defaults, takes options one by one,
opens the file (or not), lets the parser read it line by line, sets what the
store holds under `global` over what the options have set, releases the store,
validates, and makes client id and topics. A text is the sequence of the
pieces that the parser joins, with `atoi` and `strlen` as constants.

### MainLoop

One action per statement of `main` that signals or the broker can come
between; `pc` names the statement. The signal handlers are enabled everywhere.
The library is external: `mosquitto_loop` returns without event
(`_quiet`), after a CONNACK (`_connack`, which runs `sanji_connect_callback`)
or with an error (`_lost`). `wanted`, `attempts`, `quit`, `owed` and `fatal`
are history.

### System

`System` extends `Controller` with a network. `net` holds the messages on
their way; `deliver` is `sanji_message_callback` and everything below it:
the checks of `sanji_dispatch_context` (`sanji_context_valid`), the choice by
topic, `routing_procedure`, `register_procedure`. The built-in model
`registration` is reached like any model, by a step message to its tunnel,
which is a topic of the controller itself; its answer comes back as a response.
The broker may lose any message and, with `MayRepeat`, deliver a message twice
unless it is a client's request (QoS 2; the controller publishes with
QoS 1). Models answer OK, answer an error, or stay silent. Clients use
different ids: that two clients may share one is left to `Controller`.
`register_procedure` does not return after the 400 for a wrong resource,
so it may answer twice. `net` is a set: two equal messages of one step (a model
that stands twice in the chain of a read) are one, and the other copy is lost. In
the systems of the runs no model is reached twice.

## 3. What the runs check

| run | system | properties | result |
|---|---|---|---|
| `shared` | two models sharing a resource, a model that hooks one of them, a view; two ids | `TypeOK`, `ResourcesSubscribed`, `NoStaleSubscription`, `WritersPinned`, `ModelExclusion`, `NoLockLeak`, `WaitInRange`, `AdmissionExclusive`, `EndsWithReply` | holds, about 270 000 states |
| `apart` | no resource shared by two models; two levels of hooks, a model that may be reached twice, a hooking view, a built-in model; the dependency lookup; two ids | `DependencyHeld`, `LockDiscipline`, `LookupIsClosure`, `ImplementsLockService`, `LocksAsAnnounced` | holds, about 130 000 states |
| `live` | models with different ttls, registrations that may close a cycle of hooks; two ids | `SessionsEnd`, `HandlerReturns` under `FairSpec` | holds, about 8 000 states |
| `merge` | chains of up to three steps whose steps end after one or several responses | `TypeOK`, `NothingLost`, `NewestWins` | holds, about 2 700 states |
| `match` | tables of two names, all names and topics of up to four characters and some longer and malformed ones | `FoundByLevel`, `FoundOnce` | holds, about 1 300 000 states |
| `clock` | 3 ticks per second, up to 4 ticks between refreshes, ttls 0, 1, 3; two ids | `ClockInvariant`, `NotEarly`, `NotLate` | holds, about 53 000 states |
| `mainloop` | retries -1, 0, 1, 3; all signals; a broker that is up, down or refuses | `GivesUpInTime`, `QuitEnds`, `ComesBack`, `DumpServed` under `FairSpec` | holds |
| `config` | all command lines of up to two out of eight options; all files of up to two out of ten lines, of three more under `[global]`, one line for each other setting, and five lines with a blank line continued by a value or a heading; colliding hashes, arrays that grow by 2 | `StoreOK`, `NothingLeaks`, `LastLineWins`, `ImplementsMap`, `SettingsFromSource`, `StartsValid` | holds, about 860 000 states |
| `system` | clients that register a model and a model that hooks it, write and deregister; losses | `AnsweredOnce`, `OkMeansServed`, `EveryoneAnswered`, `ImplementsController` under `SysFairSpec` | holds |
| `registering` | clients that register a component, deregister it, register under another resource, deregister nobody, write without a method, send an event; losses and repetitions | `ToldOkIsDone` | holds, about 1 200 000 states |
| `theft` | as `shared` | `DependencyHeld` | violated, see findings |
| `viewhook` | a model hooked by a view only | `SessionsEnd` under `FairSpec` | violated, see findings |

- `WritersPinned`: while a write is in flight its models stay registered,
  stay models and stay locked, and its dependency resources stay registered.
  Without it the unlock at its end returns early and locks stay for ever.
- `ModelExclusion`: two writes in flight never share a model.
- `NoLockLeak`: every locked node belongs to a write in flight.
- `AdmissionExclusive`: no request, read or write, is admitted onto a model
  that serves a write.
- `DependencyHeld`: the dependency resources of a write are locked until it
  ends. True as long as no two models subscribe to the same resource.
- `WaitInRange`: the wait counter stays between 1 and the number of models
  asked, whatever responses arrive, in sessions without an empty step.
- `EndsWithReply`: a session leaves the list exactly when its answer is made
  (published, unless nobody is left to send it to), and no other answer with
  its id is made, except the refusal of a second request that uses the same id.
- `ResourcesSubscribed`, `NoStaleSubscription`: the tables agree.
- `LookupIsClosure`: the lookup answers with the resources of the models that
  a write reaches. `LocksAsAnnounced`: a write locks exactly what the lookup
  announces for its topic.
- `NothingLost`: every key of a result is passed on. `NewestWins`: the latest
  value of a key is what is passed on, through any number of merges, for every
  key whose latest value did not come with the last response of a step, or came
  with the only response that has the key (for the others the code does
  otherwise, against the tests, see section 4). In `DataMerge`, `TypeOK` says
  that merging invents no value.
- `SessionsEnd`, `HandlerReturns`: every session ends and the search loop ends,
  unless registered models hook each other in a cycle.
- `ImplementsLockService`: search, flags, rollback, unlock, registration and
  clock add up to a lock service; in particular a read, which locks nothing,
  is never admitted onto a locked model, and a refused request takes no flag
  of a model away from a write in flight.
- `FoundByLevel`: the character scan finds the names that match by levels.
  `FoundOnce`: the union of the two lookups holds no resource twice.
- `NotEarly`, `NotLate`: a step is dropped at most a refresh period and a
  second early, and less than a refresh period late. `ClockInvariant` is the
  inductive invariant behind them.
- `StoreOK`, `NothingLeaks`, `ImplementsMap`: the ini store is in order, freed
  completely, and behaves as a map. `LastLineWins`: the value of a key is that
  of the last entry (a line with its continuation lines) that sets it in its
  section.
- `SettingsFromSource`: file over option over default, for each setting by
  itself, from the lines of the file on (if each value stands under a heading:
  before the first heading the section is whatever the stack held).
  `StartsValid`: no value escapes the validation.
- `GivesUpInTime`: the number of attempts is what the setting says.
  `QuitEnds`: a quit signal ends the process. `ComesBack`: once the broker
  stays up, the controller gets subscribed and stays so. `DumpServed`: a dump
  signal that is caught while no dump is being written leads to a dump, also
  when it comes during a reconnection.
- `AnsweredOnce`, `EveryoneAnswered`: a request that reaches `routing_req` is
  answered exactly once. `OkMeansServed`: OK means that every model of the
  chain has answered OK, although responses are only counted (without repeated
  messages; a repeated response does count twice).
- `ToldOkIsDone`: a client that is told OK for a registration has got it.
  `ImplementsController`: each dispatch is a step of `Controller`.

**Bounds.** Two ids are enough for every property here, each of which speaks
of at most two sessions at once (the session that acts and one it may harm);
an id is reused after its session ended, so histories are unbounded. Three to
four names with chains of up to three steps (`MaxSteps` is above the longest
chain without a cycle) contain every way for two requests to meet: by
resource, by hook, by wildcard (`t12`, `t2`), and a model reached twice. Ttls
of 1 and 2 with ticks of one second order every expiry before and after every
response. `WaitMod` is above any count that the system asks for, and small in
`apart`, where a chain step without models makes the counter wrap. The ids
are symmetric in the runs without liveness. In `DataMerge` two keys and up to
four responses suffice: a key, another key to tell it from, and a value
before, at and after the end of a step. Four characters hold a wildcard
before, between and after levels; the longer names hold two wildcards. In `clock` a ttl of 3
exceeds a period and a second, so that a step dropped at once would violate
`NotEarly`. Four lines hold a section, a key, its continuation and a second
setting, and make the arrays of the store grow in `config`. In `mainloop` attempts are counted
up to one more than the largest number of retries; signals and changes of
the broker are not bounded. In `system` each client sends one message;
sessions, losses and repetitions are not bounded. The proofs have none of these
bounds.

**Fairness** (`FairSpec`). `routing_req` is straight-line code in the only
thread, so its iterations and its end are weakly fair. The main loop
(C:2464-2481) calls `sanji_refresh_session` after every `mosquitto_loop`,
which handles a bounded number of packets, so the clock is strongly fair:
requests disable it again and again but cannot keep it from running. Nothing
is assumed of models, clients or broker: `SessionsEnd` relies on the ttl
alone. `SysFairSpec` is the same for `System`: no message has to arrive.
In `MainLoop` the thread of the process runs on (every call returns), and a
CONNACK or the end of a connection is noticed by some later call of
`mosquitto_loop` (strong fairness: TCP and the keepalive of the library);
nothing is assumed of signals, and of the broker only what `ComesBack` says.

## 4. Findings

1. `theft`. A write whose lock fails is rolled back by
   `session_node_unlock_by_step` (C:1951), which clears the locks of *all* its
   dependencies, also the one on which it failed because a write in flight
   holds it. If models M1 and M2 both subscribe to R, a write to M1 in flight
   and a refused write to M2 leave R unlocked, although
   `src/functional_test/V1.6.0/testcase_list:13` says "Controller should lock
   related resource/model for write-like request". The models of the first
   write stay locked, which is why exclusion survives (section 5).
2. `viewhook`. A component that hooks a model but is no model makes a chain
   step without models. Such a step publishes nothing, waits for 0 responses
   and has no ttl to run out: the session and its locks stay until a stray
   error response arrives (a stray OK only makes the unsigned counter wrap). `sanji-controller.conf:61` says that the refresh is there
   "in order to drop TTL session".

Other places where the code does not do what a document says, or what one
would expect. The models have each of them as the code has it; the properties
state the boundary.

- `resource_remove_all_component_by_name` (`src/resource.c:448`) removes one
  entry per resource ("remove component from all resources"), registration
  appends one entry per listed name without looking for duplicates. A
  registration that lists a resource twice leaves an entry behind:
  `NoStaleSubscription` needs `ListedOnce`.
- `session_step` (`src/session.c:574`) merges all results, oldest first, into the
  data of the last response. `json_object_set` (`src/session.c:620`) has made that
  object the last result, so the older results overwrite what it brought, and
  when its own turn comes there is nothing left to put back. When two models of
  a step answer with the same key, the models of the next step are sent the
  older value, and the client too unless a later response has the key, although
  `src/functional_test/V1.6.0/testcase_229/testcase_229.sh:13` says "new data will
  overwrite old data(the same key)". Without its clause about `merged`,
  `NewestWins` is violated in the chain `<<2, 1>>` of the run `merge`.
- If the last response of a step has no data object, there is nothing to merge
  into, and the data of the other responses are dropped; test case 228 says
  "response data will be merged". In `merge` responses carry data.
- `register_procedure` answers a message whose resource is not
  `/controller/registration` with 400 (C:903) and goes on: it registers the
  component and answers again (`register_wrong_topic`). Only a message sent
  straight to the topic `/controller/registration` can have such a resource.
- `main` clears `sanji_dump` after the dump (C:2473), so a SIGUSR1 that arrives
  while the dump is written is forgotten. Hence the condition of `DumpServed`.
- `src/lib/daemonize.c` tests `#ifdef SIGHUP` without including `signal.h`, so
  "ignore signal" is not compiled and SIGHUP ends the daemon (`hangup`).
- Without a client id the local id is used when there is one (C:390);
  `sanji-controller.conf:46` says that it defaults to `controller`. The key in
  that file is spelled `cliet_id`, which the code does not read.

Two more facts that are not findings but worth knowing: a cycle of hooks keeps
`routing_req` in its loop for ever (`HandlerReturns` has the absence of cycles
as its hypothesis, and `live` includes registrations that make one), and the
branch that answers 501 cannot be reached (`ResourcesSubscribed`).

## 5. What is proved

For all finite sets of names and resources and all registrations, built-in
models, topics, ids and bounds, and likewise for all values of the other
modules' constants:

| theorem | statement |
|---|---|
| `LockDisciplineHolds` | `Spec => []LockDiscipline` |
| `TypeCorrect` | `Spec => []TypeOK` |
| `ResourcesAlwaysSubscribed` | `Spec => []ResourcesSubscribed` |
| `ModelsExclusive` | `Spec => []ModelExclusion` |
| `LocksNeverLeak` | `Spec => []NoLockLeak` |
| `WritersStayPinned` | `Spec => []WritersPinned` |
| `AdmissionsExclusive` | `Spec => AdmissionExclusive` |
| `LockServiceImplemented` | `Spec => ImplementsLockService` |
| `WaitStaysInRange` | `Spec => []WaitInRange` |
| `NeverStale` | `Spec => []NoStaleSubscription`, if no registration or built-in model lists a resource twice (`ListedOnce`) |
| `SessionsEndWithReply` | `Spec => EndsWithReply` |
| `DependenciesStayHeld` | `Spec => []DependencyHeld`, if no two models list the same resource (`ResourcesApart`) |
| `SessionsWearDown` | no step gives a session time, models or steps back; each refresh takes time off every model that a remaining session waits for |
| `LookupComputesClosure`, `LocksAreAnnounced` (`DependencyProofs`) | `DependencySpec => []LookupIsClosure`; `DependencySpec => LocksAsAnnounced` |
| `SearchEnds` (`DependencyProofs`) | while a level is left to look at and no hooks form a cycle, `routing_req` has made at most as many iterations as there are registered models |
| `LookupEnds` (`DependencyProofs`) | without a cycle the lookup ends for every topic, with the right answer, if `MaxSteps > Cardinality(Names)` |
| `ListedByLevel`, `NeverListedTwice`, `ListIsFound` (`ResourceLookupProofs`) | `Spec => []FoundByLevel`; `Spec => []FoundOnce`; the list is, as a set, what the scan or the exact comparison accepts |
| `MergeTypeCorrect`, `NewestAlwaysWins` (`DataMergeProofs`) | `TypeOK`, `NewestWins` are invariants |
| `NothingGetsLost` (`DataMergeProofs`) | `NothingLost` is an invariant, if every response carries a data object (`NoData \notin Responses`) |
| `ClockHolds`, `NeverTooEarly`, `NeverTooLate` (`SessionClockProofs`) | `ClockInvariant`, `NotEarly`, `NotLate` are invariants |
| `StoreInOrder`, `NeverLeaks`, `MapImplemented` (`ConfigProofs`) | `StoreOK`, `NothingLeaks` are invariants; `Spec => ImplementsMap` (of `Ini`) |
| `ConfigParses`, `AlwaysStartsValid` (`ConfigProofs`) | `ConfigSpec => Spec` (of `Ini`), so that the three above hold for it; `ConfigSpec => []StartsValid` |
| `LastEntryWins`, `SettingsAsGiven` (`ConfigProofs`) | `Spec => []LastLineWins` (of `Ini`); `ConfigSpec => []SettingsFromSource` |
| `RetriesCounted` (`MainLoopProofs`) | `Spec => []GivesUpInTime` |
| `SystemImplementsController` (`SystemProofs`) | `SysSpec => ImplementsController` |
| `RequestsAnsweredOnce` (`SystemProofs`) | `SysSpec => []AnsweredOnce` |
| `OkIsDone` (`SystemProofs`) | `SysSpec => []ToldOkIsDone`, if only the registrar serves the registration topics (`RegistrarAlone`) |
| `OkMeansAllServed` (`SystemProofs`) | `SysSpec => OkMeansServed`, if messages are not repeated (`MayRepeat = FALSE`) |

Each hypothesis in the table is one that the code needs. Finding 1 is what
happens without `ResourcesApart`. A merge has nothing to put results into when
the last response carries no data (section 4). Another model that subscribes
to `/controller/registration` may answer OK in the place of the registrar, and
a repeated response is counted as a second one. `LookupEnds` speaks of the
bounded search of the model, so its bound has to be above the number of names.
The runs `apart`, `merge`, `registering` and `system` satisfy the hypotheses of
the properties that they check.

The assumptions are the named ASSUMEs of the modules. `RegistryAssumption` and
`ControllerAssumption`: finite sets, well-formed registrations that name a
resource, built-in models with different names, positive ticks.
`ClockAssumption`: a clock with at least one tick per second that has left its
second 0. `IniAssumption`: a hash function of any kind, arrays that grow by at
least one, files that are sequences of lines, continued lines that are values,
comments or blank. `ConfigAssumption`: a default host that fits its buffer, and
`atoi` and `strlen` that are defined on the values of all entries of the files.
`LookupAssumption`: names and topics are texts (sequences of strings, one for
each character). `DataMergeAssumption`: no data is not an object.
`MainLoopAssumption`: the bound of the counter is above the retries.
`SystemAssumption`: well-formed messages, and no component called `controller`
or `registration` except the registrar (a component's tunnel is not a topic of
the controller). TLC evaluates them in every run.

The argument. `LockDiscipline` is the inductive invariant. `ModelExclusion`
alone is not inductive: admission looks at lock flags, not at sessions, so
`WritersPinned` ties the models of each write to their flags. That in turn
needs deregistration to be unable to remove such a model, which its own lock
ensures, and `NoLockLeak` and `ModelExclusion` to know that the end of one
write does not clear the flags of another. The lock of a *dependency* cannot
be used for this, since finding 1 shows that it may be lost:
`DependencyBacked` says instead that each dependency of a write still has one
of the write's own, locked, models as a subscriber, and so is not freed
although it may be unlocked. `RoutingSound` carries what the search loop has
established through its iterations (models registered and unlocked,
dependencies backed, id not in use) to `routing_req_finish`.

There is one lemma per action, below them `KeepDiscipline` (sessions end and
release all they hold), `GrowDiscipline` (tables that only grow),
`LocalDiscipline` (only the local variables of `routing_req` change), and
lemmas about bags and chains. `EndDiscipline` shows on the way that the early
return of the unlock is never taken.

`LockServiceImplemented` uses `LockDiscipline` as its invariant: `begin` needs
the models of a new session to be unlocked (`RoutingSound`) and, for a write,
the flags to grow by exactly those models; `end` needs the flags of the
ended writes, and no others, to be cleared. `WaitStaysInRange` needs
that a counter at zero belongs to an empty step; it is inductive with
`LockDiscipline`. `SystemImplementsController` makes every theorem about
`Controller` one about `System`: it needs an invariant of the network (`NetOK`,
messages carry known ids) and one case per way a message is dispatched.

`SessionsEndWithReply` compares, handler by handler, the ids that leave the
list with the answers published (`Closes`). `DependenciesStayHeld` needs to know
where the tables come from: `TablesAsked` says that every subscriber has a
registration that lists the resource. With `ResourcesApart`, a resource then has
one model at most (`OneModelEach`), so that whoever fails on the lock of a
dependency has failed on the lock of its model before.

`LookupComputesClosure` and `LocksAreAnnounced` are about recursive functions.
The induction theorems of the library have an operator parameter that the
provers cannot instantiate, but induction over a *set* of numbers follows from
`NatLessThanWellFounded` and `WFMin`, and is enough (`NumbersByInduction`): the
set of the lengths for which the function exists, or for which a model of
that level is reached. `SearchAgrees` says that `routing_req` is at each of its
iterations where the lookup would be after as many. `DataMergeProofs` goes the
same way: `Merges` says what a merging loop computes, all keys with the value of
the latest result that has them. `MergeInv` is the inductive invariant; its
core `InOrder` says that every result has at least the keys of its response, is
exactly what the response brought unless `session_step` has merged into it, and
that no result has an older value of a key than it should (`Fresh`): the
latest one up to then, if `NewestWins` speaks of it. Sharing of objects is what
makes the last part necessary, since a merge reads what earlier merges wrote.

Two theorems are the safety halves of liveness properties. `SessionsWearDown`
gives the measure behind `SessionsEnd`: steps left, then time left of the
current step; no response, registration or reconnection makes it grow, and the
clock lowers it unless the step is without models (finding 2). `SearchEnds` does
the same for `HandlerReturns`: a model that the search finds after k iterations
ends a path of models each of which hooks the one before (`PathExists`); without
a cycle no model stands on it twice (`PathBounded`). Only the fairness of
thread and clock is left to TLC. `SearchEnds` also says that the bound
`MaxSteps` hides nothing: above the number of models, `routing_req_spins` is only
ever taken in a cycle.

`ListedByLevel` is an induction over positions. `Accepts` is the test after the
scan for a scan that starts at any two positions, `AcceptsStep` one round of the
loop. Over a level without wildcards the scan compares characters until a
boundary is met on one side, and is then accepted only if it is met on both
(`PlainLevel`); a `+` takes a level that is not empty (`PlusLevel`), a `#` any
rest that is not empty (`HashLevel`). So a first level matches or not, and the
rest is accepted from the next boundary on (`LevelByLevel`), which is how
`ByLevel` recurs (`FirstLevels`). The induction goes down from the end of the
name, since each round may skip many characters of the topic. Malformed names
are outside it, as they are outside `FoundByLevel`. `LookupInv` is the inductive
invariant of the table: no node twice, and the list is what the running
handler's topic finds.

`RequestsAnsweredOnce` rests on `OneStage`: a request is on its way, in hand or
answered, and only one of these. `OkIsDone` follows a registration through both
its passes: as long as it has not taken place, only the registrar has been
asked and no OK is on its way (`FirstPass`). `OkMeansAllServed` is a counting
argument (`Balance`): a session waits for at least as many responses as
models of the current step have not answered OK, plus the OK on its way, and
all messages with its id belong to this step. Only then does a counter at zero
mean that all have answered.

`ClockInvariant` relates what was taken off a step to the clock when it was
sent: the seconds counted since the last refresh before. `NotEarly` and
`NotLate` are not inductive without it. `RetryInv` of `MainLoopProofs` ties the
retries left to the attempts made; `StoreInv` of `ConfigProofs` is `StoreOK` and
`NothingLeaks`, which are inductive together; `RangeInv` adds to `StartsValid`
that the host fits at all times and that the validation comes last.
`LastEntryWins` needs to know where the parser is between two lines
(`Reading`: the lines held are the beginning of one entry) and that the store
has the last of the complete entries for each key (`LinesStored`);
`SettingsAsGiven` adds that the configuration is at each stage what has been
said so far (`SourceInv`). The first attempt at `LastEntryWins` failed for a good
reason: a blank line that ends in a backslash is joined with the next line, and
the parser then reads the joined text as a value or a heading, which the
definition of `LastLineWins` did not say. It is now stated with `Entry`, the
joined lines, and `config` has such files.

Checked by TLC only: `SessionsEnd`, `HandlerReturns`, `QuitEnds`, `ComesBack`,
`DumpServed` and `EveryoneAnswered`, since liveness under fairness is out of the
prover's reach. Every safety property that a run checks, invariant, action
property or refinement, is also a theorem.

## 6. Not modelled

Out of memory paths; which field of a registration is missing (all refusals
are one) and the truncation of names to their buffers; JSON syntax and the
text of messages; quoted values and line buffers of the ini file; the
handshakes and stored sessions of MQTT; the utility library except
`daemonize.c` and the clock; output; the example clients under `src/tool`;
functions without callers (`component_append_hook_by_name`,
`component_remove_hook_by_name`, `resource_remove_component_by_name`,
`session_delete_first_resource`). The dispatch of a message to the dependency
lookup is not part of `System`: the lookup changes nothing, and `Dependency`
checks its answer.

Three hazards have no property. The answer to a view that left meanwhile is in
the model, but nothing in the repository says who should get it. A failed
allocation in the middle of a change would need a model of the allocator. That
`register_procedure` goes on after its 400 (C:903) is in the model, but nothing
says what a registration under another resource should lead to.

## 7. Plan

Done: every module named above, both refinements of the first plan that the
code supports (`LockService` by `Controller`, `Controller` by `System`), and
`IniMap` by `Ini`, which `Config` drives.

Theorems cover every safety property that a run checks.

Left, in this order:

1. `OkMeansServed` with repeated responses: which part of it survives.
2. The dependency lookup as a second built-in model in `System`.
