----------------------------- MODULE Operations ------------------------------
(***************************************************************************)
(* The operating plane: the instance manager (canal-instance), the Admin   *)
(* API (canal-admin), the instance's filter (canal-filter) and the start   *)
(* of the process (canal-cli, run_server).                                 *)
(*                                                                         *)
(* Two programs use them.  "server" is run_server: one instance, started   *)
(* before the Admin API listens.  "embedded" is the deployment of several  *)
(* instances in README.md:407-421: its tasks share the manager, and call   *)
(* register, remove, start_all and stop_all whenever they like, with an    *)
(* AdminServer over it.                                                    *)
(*                                                                         *)
(* The manager is a DashMap.  An iteration locks one shard at a time, so   *)
(* it sees each destination at a time of its own: here every destination   *)
(* is in a shard of its own, visited in any order.                         *)
(***************************************************************************)
EXTENDS Naturals, Sequences, FiniteSets, SequencesExt, Selection

CONSTANTS
    Null,
    Bad,              \* an address or a file that does not parse
    Programs,         \* SUBSET {"server", "embedded"}
    Destinations,     \* names of instances; run_server's is "default"
    Tables,           \* what patterns are about
    PatternTables,    \* the tables a pattern matches, for each that compiles
    EmptyPattern,     \* "": as a regular expression it matches everything
    Configs,          \* canal.yaml
    Filters,          \* of the instances that an embedded program makes
    AdminTokens,      \* AdminServer::with_auth in an embedded program; Null: without
    Headers,          \* Authorization headers, by the token they carry
    MaxPort,          \* u16::MAX
    Fed,              \* bound: the destinations that an embedded program feeds
    MaxFeeders,       \* bound: tasks that feed instances
    Batches,          \* batches that are fed: sequences of tables
    Requests,         \* bound: requests to the Admin API
    Kinds,            \* bound: what each of them may ask
    MaxInstances,     \* bound: instances made
    MaxSweeps,        \* bound: calls of start_all and stop_all
    MaxFed            \* bound: events an instance accepts

ASSUME OperationsAssumption ==
    /\ Programs \subseteq {"server", "embedded"} /\ {"default"} \cup Fed \subseteq Destinations
    /\ EmptyPattern \in DOMAIN PatternTables
    /\ \A c \in Configs :
         /\ c.parses \in BOOLEAN
         /\ {c.bind, c.metrics_bind} \subseteq 1 .. MaxPort \cup {Bad}
         /\ c.admin_bind \in 1 .. MaxPort \cup {Bad, Null}
    /\ AdminTokens # {}
    /\ Kinds \in [Requests -> SUBSET {"list", "start", "stop"}]
    /\ Batches \subseteq Seq(Tables) \ {<<>>}
    /\ IsFiniteSet(Destinations)
    /\ MaxPort \in Nat \ {0}
    /\ MaxInstances \in Nat /\ MaxSweeps \in Nat /\ MaxFed \in Nat /\ MaxFeeders \in Nat

VARIABLES
    program,      \* which of the two this is
    config,       \* its CanalConfig
    admin_token,  \* AdminState.admin_token
    main,         \* run_server: where it is
    shutdown,     \* the shutdown token
    listening,    \* the port of each listener, or Null
    instances,    \* InstanceManager.instances: destination to instance
    made,         \* the instances, those that were removed or replaced included
    sweep,        \* the start_all or stop_all that is running
    requests,     \* the requests to the Admin API
    gauge         \* canal_instances_active

vars == <<program, config, admin_token, main, shutdown, listening, instances, made,
          sweep, requests, gauge>>

-----------------------------------------------------------------------------
(* canal-filter and CanalInstance::new.  A pattern that does not compile,  *)
(* or is longer than 256 bytes, is not in PatternTables.                   *)
(* Fault: the empty blacklist is compiled like any other.                  *)
EmptyMatchesAll(f) ==
    IF {f.pattern, f.black_list} \subseteq DOMAIN PatternTables
    THEN [include |-> PatternTables[f.pattern], exclude |-> PatternTables[f.black_list]]
    ELSE Null

with_blacklist(f) ==
    IF {f.pattern, f.black_list} \subseteq DOMAIN PatternTables
    THEN [include |-> PatternTables[f.pattern],
          exclude |-> IF f.black_list = EmptyPattern THEN {} ELSE PatternTables[f.black_list]]
    ELSE Null

(* The tables of which `matches` is true.                                  *)
matches(filter) == filter.include \ filter.exclude

Filtered(filter, batch) == Kept(batch, matches(filter))

NewInstance(f) ==
    [filter |-> f, running |-> FALSE, feeder |-> FALSE, feeding |-> <<>>,
     accepted |-> <<>>, store |-> <<>>,
     stopped |-> FALSE, late |-> 0]      \* history: the operator's last word, puts since

-----------------------------------------------------------------------------
(* What an observer may find of a destination.  Requests keep what could   *)
(* be seen while they were open.                                           *)
StateOf(map, all, d) ==
    IF map[d] = Null THEN "absent" ELSE IF all[map[d]].running THEN "running" ELSE "stopped"

Views(map, all) == {<<d, StateOf(map, all, d)>> : d \in Destinations}

Listing(q) == q.pc \in {"keys", "states"}

Watched(qs, map, all) ==
    [r \in Requests |-> IF Listing(qs[r]) THEN [qs[r] EXCEPT !.was = @ \cup Views(map, all)]
                        ELSE qs[r]]

(* A change after the sweep has passed it.                                 *)
Touched(d) == sweep' = [sweep EXCEPT !.touched = @ \cup ({d} \ sweep.todo)]

Up == main # "exited"

(* InstanceManager::register: whoever holds the instance it replaces goes  *)
(* on with that one.                                                       *)
register(d, f) ==
    /\ Len(made) < MaxInstances
    /\ made' = Append(made, NewInstance(f))
    /\ instances' = [instances EXCEPT ![d] = Len(made) + 1]
    /\ requests' = Watched(requests, instances', made')
    /\ Touched(d)

remove(d) ==
    /\ instances[d] # Null
    /\ instances' = [instances EXCEPT ![d] = Null]
    /\ requests' = Watched(requests, instances', made)
    /\ Touched(d)
    /\ UNCHANGED made

(* start_all, stop_all.                                                    *)
BeginSweep(flag) ==
    /\ sweep.todo = {}
    /\ sweep' = [flag |-> flag, todo |-> Destinations, touched |-> {},
                 number |-> sweep.number + 1]

(* Fault: the loop ends with its first entry.                              *)
FirstOnly(todo, d) == {}

Rest(todo, d) == todo \ {d}

(* The operator's word is an embedded program's own, but not run_server's. *)
Visit(d) ==
    /\ Up /\ d \in sweep.todo
    /\ sweep' = [sweep EXCEPT !.todo = Rest(@, d)]
    /\ LET i == instances[d]
           stopped == IF program = "embedded" THEN ~ sweep.flag ELSE made[i].stopped
       IN  made' = IF i = Null THEN made
                   ELSE [made EXCEPT ![i] = [@ EXCEPT !.running = sweep.flag,
                                                      !.stopped = stopped, !.late = 0]]
    /\ requests' = Watched(requests, instances, made')
    /\ UNCHANGED <<program, config, admin_token, main, shutdown, listening, instances, gauge>>

running_count == Cardinality({d \in Destinations : StateOf(instances, made, d) = "running"})

-----------------------------------------------------------------------------
(* CanalInstance::feed: the flag is looked at, then the sink filters the   *)
(* batch and puts it into the store.  A batch that meets a stopped         *)
(* instance is refused, and is gone.                                       *)
Feed(i, batch) ==
    /\ Up /\ made[i].feeder /\ made[i].feeding = <<>>
    /\ Len(made[i].accepted) < MaxFed
    /\ IF made[i].running
       THEN made' = [made EXCEPT ![i].feeding = batch, ![i].accepted = @ \o batch]
       ELSE UNCHANGED made
    /\ UNCHANGED <<program, config, admin_token, main, shutdown, listening, instances,
                   sweep, requests, gauge>>

Sink(i) ==
    /\ Up /\ made[i].feeding # <<>>
    /\ LET x == made[i]
       IN  made' = [made EXCEPT ![i] =
             [x EXCEPT !.store = x.store \o Filtered(with_blacklist(x.filter), x.feeding),
                       !.feeding = <<>>,
                       !.late = IF x.stopped THEN x.late + 1 ELSE x.late]]
    /\ UNCHANGED <<program, config, admin_token, main, shutdown, listening, instances,
                   sweep, requests, gauge>>

-----------------------------------------------------------------------------
(* canal-admin.                                                            *)
NoRequest == [pc |-> "none", kind |-> Null, dest |-> Null, todo |-> {}, keys |-> {},
              found |-> Null, rows |-> {}, was |-> {}]

Answered == [NoRequest EXCEPT !.pc = "answered"]

(* check_auth: a configured token that is empty lets nobody in.            *)
check_auth(header) == admin_token = Null \/ (admin_token # "" /\ header = admin_token)

(* A request that is not let in changes nothing.                           *)
Ask(r, kind, d, header) ==
    /\ Up /\ listening.admin # Null /\ requests[r].pc = "none"
    /\ check_auth(header)
    /\ requests' = [requests EXCEPT ![r] =
         IF kind = "list"
         THEN [@ EXCEPT !.pc = "keys", !.kind = kind, !.todo = Destinations,
                        !.was = Views(instances, made)]
         ELSE [@ EXCEPT !.pc = "lookup", !.kind = kind, !.dest = d]]
    /\ UNCHANGED <<program, config, admin_token, main, shutdown, listening, instances, made,
                   sweep, gauge>>

(* list_instances: list(), then get() and is_running() for each name, the  *)
(* two of them as one step.                                                *)
ListKey(r, d) ==
    /\ Up /\ requests[r].pc = "keys" /\ d \in requests[r].todo
    /\ LET q == requests[r]
           keys == IF instances[d] = Null THEN q.keys ELSE q.keys \cup {d}
       IN  requests' = [requests EXCEPT ![r] =
             IF q.todo = {d} THEN [q EXCEPT !.keys = keys, !.todo = keys, !.pc = "states"]
             ELSE [q EXCEPT !.keys = keys, !.todo = q.todo \ {d}]]
    /\ UNCHANGED <<program, config, admin_token, main, shutdown, listening, instances, made,
                   sweep, gauge>>

(* Fault: an instance that is gone counts as running.                      *)
GoneIsRunning(d) == StateOf(instances, made, d) # "stopped"

IsRunning(d) == StateOf(instances, made, d) = "running"

ListState(r, d) ==
    /\ Up /\ requests[r].pc = "states" /\ d \in requests[r].todo
    /\ LET q == requests[r]
       IN  requests' = [requests EXCEPT ![r] =
             [q EXCEPT !.rows = q.rows \cup {[name |-> d, running |-> IsRunning(d)]},
                       !.todo = q.todo \ {d}]]
    /\ UNCHANGED <<program, config, admin_token, main, shutdown, listening, instances, made,
                   sweep, gauge>>

ListAnswer(r) ==
    /\ Up /\ requests[r].pc = "states" /\ requests[r].todo = {}
    /\ requests' = [requests EXCEPT ![r] = Answered]
    /\ UNCHANGED <<program, config, admin_token, main, shutdown, listening, instances, made,
                   sweep, gauge>>

(* start_instance, stop_instance: get(), then the flag.                    *)
LookedUp(q, i) == IF i = Null THEN Answered ELSE [q EXCEPT !.pc = "found", !.found = i]

Lookup(r) ==
    /\ Up /\ requests[r].pc = "lookup"
    /\ requests' = [requests EXCEPT ![r] = LookedUp(@, instances[@.dest])]
    /\ UNCHANGED <<program, config, admin_token, main, shutdown, listening, instances, made,
                   sweep, gauge>>

Act(r) ==
    /\ Up /\ requests[r].pc = "found"
    /\ LET q == requests[r]
       IN  /\ made' = [made EXCEPT ![q.found] =
                         [@ EXCEPT !.running = (q.kind = "start"),
                                   !.stopped = (q.kind = "stop"), !.late = 0]]
           /\ requests' = Watched([requests EXCEPT ![r] = Answered], instances, made')
           /\ Touched(q.dest)
    /\ UNCHANGED <<program, config, admin_token, main, shutdown, listening, instances, gauge>>

-----------------------------------------------------------------------------
(* canal-cli: run_server, a step at a time.  An error ends the process.    *)

(* Fault: wraps instead of checked_add.                                    *)
WrappingBind(c) == IF c.admin_bind # Null THEN c.admin_bind ELSE (c.bind + 1) % (MaxPort + 1)

resolve_admin_bind(c) ==
    IF c.admin_bind # Null THEN c.admin_bind
    ELSE IF c.bind = MaxPort THEN Bad ELSE c.bind + 1

(* Fault: the Admin API listens before the instances start.                *)
AdminFirst == <<"config", "bind", "metrics", "instance", "admin", "start_all", "sweeping",
                "gauge", "feeder", "bind_server", "serving">>

Steps == <<"config", "bind", "metrics", "instance", "start_all", "sweeping", "gauge",
           "admin", "feeder", "bind_server", "serving">>

StepAfter(step) == Steps[(CHOOSE n \in DOMAIN Steps : Steps[n] = step) + 1]

Free(port) == port \notin {listening[l] : l \in DOMAIN listening}

CanDo(step) ==
    CASE step = "config"      -> config.parses
      [] step = "bind"        -> config.bind # Bad
      [] step = "metrics"     -> config.metrics_bind # Bad /\ Free(config.metrics_bind)
      [] step = "instance"    -> with_blacklist(config.filter) # Null
      [] step = "admin"       -> /\ resolve_admin_bind(config) # Bad
                                 /\ Free(resolve_admin_bind(config))
      [] step = "bind_server" -> Free(config.bind)
      [] OTHER                -> TRUE

At(step) == main = step /\ CanDo(step) /\ main' = StepAfter(step)

ReadConfig ==
    /\ At("config") \/ At("bind")
    /\ UNCHANGED <<program, config, admin_token, shutdown, listening, instances, made, sweep,
                   requests, gauge>>

(* MetricsServer::start, AdminServer::start, CanalServer::serve.           *)
Listen(step, listener, port) ==
    /\ At(step)
    /\ listening' = [listening EXCEPT ![listener] = port]
    /\ UNCHANGED <<program, config, admin_token, shutdown, instances, made, sweep, requests,
                   gauge>>

MakeInstance ==
    /\ At("instance") /\ register("default", config.filter)
    /\ UNCHANGED <<program, config, admin_token, shutdown, listening, gauge>>

StartAll ==
    /\ \/ At("start_all") /\ BeginSweep(TRUE)
       \/ At("sweeping") /\ sweep.todo = {} /\ UNCHANGED sweep
    /\ UNCHANGED <<program, config, admin_token, shutdown, listening, instances, made,
                   requests, gauge>>

SetGauge ==
    /\ At("gauge") /\ gauge' = running_count
    /\ UNCHANGED <<program, config, admin_token, shutdown, listening, instances, made, sweep,
                   requests>>

(* get(), and a task that feeds what it returned from then on.             *)
spawn_feeder(d) ==
    /\ instances[d] # Null
    /\ Cardinality({i \in DOMAIN made : made[i].feeder}) < MaxFeeders
    /\ made' = [made EXCEPT ![instances[d]].feeder = TRUE]

SpawnFeeder ==
    /\ At("feeder") /\ spawn_feeder("default")
    /\ UNCHANGED <<program, config, admin_token, shutdown, listening, instances, sweep,
                   requests, gauge>>

(* An error of a step: its own, or a port that another process has.        *)
Fails ==
    /\ \E n \in DOMAIN Steps :
         /\ main = Steps[n]
         /\ ~ CanDo(main) \/ main \in {"metrics", "admin", "bind_server"}
    /\ main' = "exited"
    /\ UNCHANGED <<program, config, admin_token, shutdown, listening, instances, made, sweep,
                   requests, gauge>>

(* Until the handler is installed SIGINT ends the process.                 *)
Handled == main \in {"bind_server", "serving", "waiting"}

Sigint ==
    /\ program = "server" /\ Up /\ ~ shutdown
    /\ IF Handled THEN shutdown' = TRUE /\ UNCHANGED main
                  ELSE main' = "exited" /\ UNCHANGED shutdown
    /\ UNCHANGED <<program, config, admin_token, listening, instances, made, sweep, requests,
                   gauge>>

(* The feeder's stream ends, or it could not connect.                      *)
FeederEnds ==
    /\ program = "server" /\ Up /\ instances["default"] # Null
    /\ LET i == instances["default"]
       IN  /\ made[i].feeder /\ made[i].feeding = <<>>
           /\ made' = [made EXCEPT ![i].feeder = FALSE]
    /\ shutdown' = TRUE
    /\ UNCHANGED <<program, config, admin_token, main, listening, instances, sweep, requests,
                   gauge>>

(* Fault: the loop of serve only looks at accept.                          *)
AcceptOnly == FALSE

LoopEnds == shutdown

ServeReturns ==
    /\ main = "serving" /\ LoopEnds
    /\ main' = "waiting" /\ listening' = [listening EXCEPT !.server = Null]
    /\ UNCHANGED <<program, config, admin_token, shutdown, instances, made, sweep, requests,
                   gauge>>

(* `serve().await?`: an error of accept leaves run_server at once.         *)
AcceptFails ==
    /\ main = "serving" /\ main' = "exited"
    /\ UNCHANGED <<program, config, admin_token, shutdown, listening, instances, made, sweep,
                   requests, gauge>>

(* The feeder's task ends, or is aborted after 5 s.                        *)
WaitEnds ==
    /\ main = "waiting" /\ main' = "exited"
    /\ UNCHANGED <<program, config, admin_token, shutdown, listening, instances, made, sweep,
                   requests, gauge>>

-----------------------------------------------------------------------------
(* The tasks of an embedded program.                                       *)
Embedder ==
    /\ main = "run"
    /\ \/ \E d \in Destinations, f \in Filters :
            with_blacklist(f) # Null /\ register(d, f)
       \/ \E d \in Destinations : remove(d)
       \/ \E flag \in BOOLEAN :
            /\ sweep.number < MaxSweeps /\ BeginSweep(flag)
            /\ UNCHANGED <<instances, made, requests>>
       \/ \E d \in Fed : spawn_feeder(d) /\ UNCHANGED <<instances, sweep, requests>>
    /\ UNCHANGED <<program, config, admin_token, main, shutdown, listening, gauge>>

-----------------------------------------------------------------------------
(* An embedded program's listeners are up when its tasks begin.            *)
Init ==
    /\ program \in Programs
    /\ config \in IF program = "server" THEN Configs ELSE {Null}
    /\ admin_token \in IF program = "server" THEN {Null} ELSE AdminTokens
    /\ main = IF program = "server" THEN Steps[1] ELSE "run"
    /\ shutdown = FALSE
    /\ listening = [metrics |-> Null, admin |-> IF program = "server" THEN Null ELSE 1,
                    server |-> Null]
    /\ instances = [d \in Destinations |-> Null] /\ made = <<>>
    /\ sweep = [flag |-> FALSE, todo |-> {}, touched |-> Destinations, number |-> 0]
    /\ requests = [r \in Requests |-> NoRequest]
    /\ gauge = 0

RunServer ==
    \/ ReadConfig \/ MakeInstance \/ StartAll \/ SetGauge
    \/ Listen("metrics", "metrics", config.metrics_bind)
    \/ Listen("admin", "admin", resolve_admin_bind(config))
    \/ Listen("bind_server", "server", config.bind)
    \/ SpawnFeeder \/ Fails \/ ServeReturns \/ WaitEnds

Answers(r) ==
    \/ Lookup(r) \/ Act(r) \/ ListAnswer(r)
    \/ \E d \in Destinations : ListKey(r, d) \/ ListState(r, d)

Next ==
    \/ program = "server" /\ RunServer
    \/ AcceptFails \/ Sigint \/ FeederEnds \/ Embedder
    \/ \E d \in Destinations : Visit(d)
    \/ \E i \in DOMAIN made, b \in Batches : Feed(i, b)
    \/ \E i \in DOMAIN made : Sink(i)
    \/ \E r \in Requests, d \in Destinations, h \in Headers :
         \E kind \in Kinds[r] : Ask(r, kind, d, h)
    \/ \E r \in Requests : Answers(r)

(* Tokio runs every task that is ready; requests, signals and the binlog   *)
(* may never come, and nobody waits for them.                              *)
Spec ==
    /\ Init /\ [][Next]_vars
    /\ WF_vars(program = "server" /\ RunServer)
    /\ \A d \in Destinations : WF_vars(Visit(d))

-----------------------------------------------------------------------------
(* Properties.                                                             *)

(* Every variable has its type; a listener has a real port                 *)
(* (resolve_admin_bind, lib.rs:216).                                       *)
OperationsTypeOK ==
    /\ program \in Programs /\ config \in Configs \cup {Null}
    /\ admin_token \in AdminTokens \cup {Null}
    /\ main \in {Steps[n] : n \in DOMAIN Steps} \cup {"run", "waiting", "exited"}
    /\ shutdown \in BOOLEAN
    /\ listening \in [{"metrics", "admin", "server"} -> 1 .. MaxPort \cup {Null}]
    /\ instances \in [Destinations -> DOMAIN made \cup {Null}]
    /\ Len(made) <= MaxInstances
    /\ sweep.todo \subseteq Destinations /\ sweep.touched \subseteq Destinations
    /\ gauge \in 0 .. Cardinality(Destinations)
    /\ \A i \in DOMAIN made : made[i].running \in BOOLEAN

(* What GET /api/instances answers (lib.rs:222, list() and then get() for  *)
(* each name while register, remove, start and stop go on) was true of     *)
(* each instance at some moment of the request, and an instance registered *)
(* all that time is in the answer.                                         *)
ListIsTrue ==
    \A r \in Requests : LET q == requests[r] IN
      q.pc = "states" =>
        /\ \A row \in q.rows :
             IF row.running THEN <<row.name, "running">> \in q.was
             ELSE q.was \cap {<<row.name, "stopped">>, <<row.name, "absent">>} # {}
        /\ \A d \in Destinations \ q.todo :
             <<d, "absent">> \notin q.was => \E row \in q.rows : row.name = d

(* What the operator stopped stays stopped until the operator starts it:   *)
(* neither the start of the process nor another request undoes it, and at  *)
(* most the one batch that had passed the check of feed (instance.rs:87)   *)
(* reaches the store after the answer.                                     *)
StopHolds ==
    \A i \in DOMAIN made : made[i].stopped => ~ made[i].running /\ made[i].late <= 1

(* start_all and stop_all (instance.rs:168) reach every instance that      *)
(* nobody registers, removes, starts or stops meanwhile, whatever happens  *)
(* to the others during the iteration.                                     *)
SweepReachesAll ==
    \A d \in Destinations \ (sweep.todo \cup sweep.touched) :
      instances[d] # Null => made[instances[d]].running = sweep.flag

(* What an instance's patterns let through.                                *)
Wanted(f) ==
    PatternTables[f.pattern]
      \ (IF f.black_list = EmptyPattern THEN {} ELSE PatternTables[f.black_list])

(* An instance's store holds what it accepted while it was running, in     *)
(* order, less what its patterns exclude; an empty blacklist excludes      *)
(* nothing (with_blacklist, canal-filter), and what was accepted is not    *)
(* lost when the instance is stopped, removed or replaced meanwhile.       *)
StoredIsFiltered ==
    \A i \in DOMAIN made :
      LET x == made[i]
          sunk == SubSeq(x.accepted, 1, Len(x.accepted) - Len(x.feeding))
      IN  x.store = Kept(sunk, Wanted(x.filter))

(* A shutdown ends the process, wherever run_server is when it comes: from *)
(* SIGINT or from the feeder, before serve has bound its port too          *)
(* (main.rs:119-218).                                                      *)
ShutdownExits == shutdown ~> ~ Up
=============================================================================
