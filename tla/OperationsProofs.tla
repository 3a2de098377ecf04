-------------------------- MODULE OperationsProofs --------------------------
(***************************************************************************)
(* Proofs about Operations, for all configurations, destinations, filters, *)
(* requests and numbers of instances: what the operator stopped stays      *)
(* stopped, a sweep passes no instance over, the Admin API's list was true *)
(* of each instance at some moment of the request, a store is what its     *)
(* instance accepted less what the patterns exclude, and the types.        *)
(***************************************************************************)
EXTENDS Operations, SelectionProofs, FiniteSetTheorems, TLAPS

-----------------------------------------------------------------------------
(* The inductive invariant.                                                *)

(* An instance, a request and the sweep, as the records they are.          *)
IsInstance(x) ==
    /\ x = [filter |-> x.filter, running |-> x.running, feeder |-> x.feeder,
            feeding |-> x.feeding, accepted |-> x.accepted, store |-> x.store,
            stopped |-> x.stopped, late |-> x.late]
    /\ x.running \in BOOLEAN /\ x.stopped \in BOOLEAN /\ x.late \in Nat

IsRequest(q) ==
    q = [pc |-> q.pc, kind |-> q.kind, dest |-> q.dest, todo |-> q.todo, keys |-> q.keys,
         found |-> q.found, rows |-> q.rows, was |-> q.was]

MadeOK ==
    /\ made \in Seq({made[i] : i \in DOMAIN made})
    /\ \A i \in DOMAIN made : IsInstance(made[i])

InstancesOK == instances \in [Destinations -> DOMAIN made \cup {Null}]

RequestsOK ==
    /\ DOMAIN requests = Requests
    /\ \A r \in Requests :
         /\ IsRequest(requests[r])
         /\ requests[r].pc \in {"lookup", "found"} => requests[r].dest \in Destinations
         /\ requests[r].pc = "found" => requests[r].found \in DOMAIN made

SweepOK ==
    /\ sweep = [flag |-> sweep.flag, todo |-> sweep.todo, touched |-> sweep.touched,
                number |-> sweep.number]
    /\ sweep.flag \in BOOLEAN /\ sweep.todo \subseteq Destinations

(* A stopped instance may have one batch between its check and its store,  *)
(* and none once that batch is stored.                                     *)
Holds(x) == x.stopped => ~ x.running /\ x.late <= 1 /\ (x.feeding # <<>> => x.late = 0)

StopsHold == \A i \in DOMAIN made : Holds(made[i])

(* While run_server starts, nobody can stop anything; and its one sweep is *)
(* over before the Admin API listens.                                      *)
Early == {"config", "bind", "metrics", "instance", "start_all", "sweeping", "gauge", "admin"}

Late == {"feeder", "bind_server", "serving", "waiting", "exited"}

StartOK ==
    /\ program \in {"server", "embedded"}
    /\ program = "server" => main \in Early \cup Late
    /\ program = "embedded" => main = "run"
    /\ "admin" \in DOMAIN listening
    /\ program = "server" /\ main \in Early =>
         /\ listening.admin = Null
         /\ \A r \in Requests : requests[r].pc = "none"
         /\ \A i \in DOMAIN made : ~ made[i].stopped
    /\ program = "server" /\ Up /\ sweep.todo # {} => main = "sweeping" /\ sweep.flag

StopInv == MadeOK /\ InstancesOK /\ RequestsOK /\ SweepOK /\ StopsHold /\ StartOK

-----------------------------------------------------------------------------
(* The order of the start-up.                                              *)
LEMMA StepOrder ==
    /\ StepAfter("config") = "bind" /\ StepAfter("bind") = "metrics"
    /\ StepAfter("metrics") = "instance" /\ StepAfter("instance") = "start_all"
    /\ StepAfter("start_all") = "sweeping" /\ StepAfter("sweeping") = "gauge"
    /\ StepAfter("gauge") = "admin" /\ StepAfter("admin") = "feeder"
    /\ StepAfter("feeder") = "bind_server" /\ StepAfter("bind_server") = "serving"
  <1>1. DOMAIN Steps = 1 .. 11
    BY DEF Steps
  <1>2. /\ Steps[1] = "config" /\ Steps[2] = "bind" /\ Steps[3] = "metrics"
        /\ Steps[4] = "instance" /\ Steps[5] = "start_all" /\ Steps[6] = "sweeping"
        /\ Steps[7] = "gauge" /\ Steps[8] = "admin" /\ Steps[9] = "feeder"
        /\ Steps[10] = "bind_server" /\ Steps[11] = "serving"
    BY DEF Steps
  <1>3. \A n \in 1 .. 11 : n = 1 \/ n = 2 \/ n = 3 \/ n = 4 \/ n = 5 \/ n = 6 \/ n = 7
                           \/ n = 8 \/ n = 9 \/ n = 10 \/ n = 11
    OBVIOUS
  <1>4. ASSUME NEW k \in 1 .. 11, \A n \in 1 .. 11 : Steps[n] = Steps[k] => n = k
        PROVE  StepAfter(Steps[k]) = Steps[k + 1]
    <2>1. (CHOOSE n \in DOMAIN Steps : Steps[n] = Steps[k]) = k
      BY <1>1, <1>4
    <2> QED
      BY <2>1 DEF StepAfter
  <1>5. \A k, n \in 1 .. 11 : Steps[n] = Steps[k] => n = k
    BY <1>2, <1>3
  <1> QED
    BY <1>2, <1>4, <1>5

(* A sequence is one of its own elements.                                  *)
LEMMA SeqOfItsOwn ==
    ASSUME NEW S, NEW s \in Seq(S)
    PROVE  s \in Seq({s[k] : k \in DOMAIN s})
  <1> DEFINE R == {s[k] : k \in DOMAIN s}
  <1>1. Len(s) \in Nat /\ DOMAIN s = 1 .. Len(s) /\ s = [k \in 1 .. Len(s) |-> s[k]]
    OBVIOUS
  <1>2. \A k \in 1 .. Len(s) : s[k] \in R
    BY <1>1
  <1> HIDE DEF R
  <1>3. s \in [1 .. Len(s) -> R]
    BY <1>1, <1>2
  <1>4. s \in Seq(R)
    BY <1>1, <1>3
  <1> QED
    BY <1>4 DEF R

(* A changed instance among the others, and a new one behind them.         *)
LEMMA MadeChanged ==
    ASSUME MadeOK, StopsHold, NEW i \in DOMAIN made, NEW v, IsInstance(v), Holds(v),
           made' = [made EXCEPT ![i] = v]
    PROVE  MadeOK' /\ StopsHold' /\ DOMAIN made' = DOMAIN made
  <1>1. made \in Seq({made[k] : k \in DOMAIN made})
    BY DEF MadeOK
  <1>2. DOMAIN made' = DOMAIN made /\ \A k \in DOMAIN made : made'[k] = IF k = i THEN v ELSE made[k]
    OBVIOUS
  <1>3. DOMAIN made' = 1 .. Len(made) /\ Len(made) \in Nat
    BY <1>1, <1>2
  <1> DEFINE S == {made[k] : k \in DOMAIN made} \cup {v}
  <1>4. made' \in Seq(S)
    BY <1>1
  <1> HIDE DEF S
  <1>5. \A s \in Seq(S) : s \in Seq({s[k] : k \in DOMAIN s})
    BY SeqOfItsOwn
  <1>6. made' \in Seq({made'[k] : k \in DOMAIN made'})
    BY <1>4, <1>5
  <1> QED
    BY <1>2, <1>6 DEF MadeOK, StopsHold

LEMMA MadeAppended ==
    ASSUME MadeOK, StopsHold, NEW f, made' = Append(made, NewInstance(f))
    PROVE  /\ MadeOK' /\ StopsHold' /\ DOMAIN made \subseteq DOMAIN made'
           /\ Len(made) + 1 \in DOMAIN made'
           /\ (\A i \in DOMAIN made : ~ made[i].stopped)
                => \A i \in DOMAIN made' : ~ made'[i].stopped
  <1> DEFINE x == NewInstance(f)
  <1>1. made \in Seq({made[k] : k \in DOMAIN made} \cup {x})
    <2>1. made \in Seq({made[k] : k \in DOMAIN made})
      BY DEF MadeOK
    <2> QED
      BY <2>1
  <1>2. /\ DOMAIN made = 1 .. Len(made) /\ Len(made) \in Nat
        /\ DOMAIN made' = 1 .. Len(made) + 1
        /\ \A k \in DOMAIN made' : made'[k] = IF k = Len(made) + 1 THEN x ELSE made[k]
    BY <1>1
  <1>3. IsInstance(x) /\ ~ x.stopped
    BY DEF IsInstance, NewInstance
  <1>4. made' \in Seq({made[k] : k \in DOMAIN made} \cup {x})
    BY <1>1
  <1> HIDE DEF x
  <1>5. made' \in Seq({made'[k] : k \in DOMAIN made'})
    BY <1>4, SeqOfItsOwn
  <1>6. \A k \in DOMAIN made' : IsInstance(made'[k]) /\ Holds(made'[k])
    BY <1>2, <1>3 DEF MadeOK, StopsHold, Holds
  <1> QED
    BY <1>2, <1>3, <1>5, <1>6 DEF MadeOK, StopsHold

(* Watching changes nothing of a request but what it has seen.             *)
LEMMA WatchedKeeps ==
    ASSUME NEW qs, DOMAIN qs = Requests, \A r \in Requests : IsRequest(qs[r]), NEW map, NEW all
    PROVE  /\ DOMAIN Watched(qs, map, all) = Requests
           /\ \A r \in Requests : LET w == Watched(qs, map, all)[r] IN
                /\ IsRequest(w) /\ w.pc = qs[r].pc
                /\ w.dest = qs[r].dest /\ w.found = qs[r].found
  <1> DEFINE W == Watched(qs, map, all)
  <1>1. DOMAIN W = Requests /\ \A r \in Requests :
          W[r] = IF Listing(qs[r]) THEN [qs[r] EXCEPT !.was = qs[r].was \cup Views(map, all)]
                 ELSE qs[r]
    BY DEF Watched
  <1> HIDE DEF W
  <1>2. ASSUME NEW r \in Requests
        PROVE  IsRequest(W[r]) /\ W[r].pc = qs[r].pc /\ W[r].dest = qs[r].dest
               /\ W[r].found = qs[r].found
    BY <1>1, <1>2 DEF IsRequest
  <1> QED
    BY <1>1, <1>2 DEF W

-----------------------------------------------------------------------------
(* The invariant, action by action.                                        *)
LEMMA StopInvInit == Init => StopInv
  <1> SUFFICES ASSUME Init PROVE StopInv
    OBVIOUS
  <1>1. MadeOK /\ StopsHold
    BY DEF Init, MadeOK, StopsHold
  <1>2. InstancesOK /\ SweepOK
    BY DEF Init, InstancesOK, SweepOK
  <1>3. RequestsOK
    BY DEF Init, RequestsOK, NoRequest, IsRequest
  <1>4. StartOK
    <2>1. Steps[1] = "config"
      BY DEF Steps
    <2> QED
      BY <2>1, OperationsAssumption DEF Init, StartOK, NoRequest, Early, Late
  <1> QED
    BY <1>1, <1>2, <1>3, <1>4 DEF StopInv

(* Steps of run_server that touch no instance, no request and no sweep.    *)
LEMMA MainStep ==
    ASSUME StopInv, UNCHANGED <<program, instances, made, sweep, requests>>,
           "admin" \in DOMAIN listening',
           program = "embedded" => main' = main,
           program = "server" => /\ main' \in Early \cup Late
                                 /\ main' \in Early => main \in Early /\ listening'.admin = listening.admin
                                 /\ main' # main /\ main' # "exited" => sweep.todo = {}
    PROVE  StopInv'
  <1>1. MadeOK' /\ InstancesOK' /\ SweepOK' /\ StopsHold' /\ RequestsOK'
    BY DEF StopInv, MadeOK, InstancesOK, SweepOK, StopsHold, RequestsOK
  <1>2. StartOK'
    BY DEF StopInv, StartOK, Up, Early, Late
  <1> QED
    BY <1>1, <1>2 DEF StopInv

LEMMA StopInvMain ==
    ASSUME StopInv,
           \/ program = "server" /\ (ReadConfig \/ SetGauge \/ Fails \/ ServeReturns \/ WaitEnds)
           \/ AcceptFails \/ Sigint
    PROVE  StopInv'
  <1>1. /\ "admin" \in DOMAIN listening /\ (program = "embedded" => main = "run")
        /\ (program = "server" /\ Up /\ sweep.todo # {} => main = "sweeping")
        /\ (program = "server" => main \in Early \cup Late)
        /\ program \in {"server", "embedded"}
    BY DEF StopInv, StartOK
  <1>2. CASE program = "server" /\ ReadConfig
    BY <1>1, <1>2, MainStep, StepOrder DEF ReadConfig, At, Early, Late, Up
  <1>3. CASE program = "server" /\ SetGauge
    BY <1>1, <1>3, MainStep, StepOrder DEF SetGauge, At, Early, Late, Up
  <1>4. CASE program = "server" /\ Fails
    BY <1>1, <1>4, MainStep DEF Fails, Early, Late
  <1>5. CASE program = "server" /\ ServeReturns
    <2>1. "admin" \in DOMAIN listening'
      BY <1>1, <1>5 DEF ServeReturns
    <2> QED
      BY <1>1, <1>5, <2>1, MainStep DEF ServeReturns, Early, Late, Up
  <1>6. CASE program = "server" /\ WaitEnds
    BY <1>1, <1>6, MainStep DEF WaitEnds, Early, Late
  <1>7. CASE AcceptFails
    BY <1>1, <1>7, MainStep DEF AcceptFails, Early, Late
  <1>8. CASE Sigint
    BY <1>1, <1>8, MainStep DEF Sigint, Early, Late
  <1> QED
    BY <1>2, <1>3, <1>4, <1>5, <1>6, <1>7, <1>8

LEMMA StopInvListen ==
    ASSUME StopInv, program = "server",
           \/ Listen("metrics", "metrics", config.metrics_bind)
           \/ Listen("admin", "admin", resolve_admin_bind(config))
           \/ Listen("bind_server", "server", config.bind)
    PROVE  StopInv'
  <1>1. /\ "admin" \in DOMAIN listening
        /\ (Up /\ sweep.todo # {} => main = "sweeping")
    BY DEF StopInv, StartOK
  <1>2. CASE Listen("metrics", "metrics", config.metrics_bind)
    <2>1. "admin" \in DOMAIN listening' /\ listening'.admin = listening.admin
      BY <1>1, <1>2 DEF Listen
    <2> QED
      BY <1>1, <1>2, <2>1, MainStep, StepOrder DEF Listen, At, Early, Late, Up
  <1>3. CASE Listen("admin", "admin", resolve_admin_bind(config))
    <2>1. "admin" \in DOMAIN listening'
      BY <1>1, <1>3 DEF Listen
    <2> QED
      BY <1>1, <1>3, <2>1, MainStep, StepOrder DEF Listen, At, Early, Late, Up
  <1>4. CASE Listen("bind_server", "server", config.bind)
    <2>1. "admin" \in DOMAIN listening'
      BY <1>1, <1>4 DEF Listen
    <2> QED
      BY <1>1, <1>4, <2>1, MainStep, StepOrder DEF Listen, At, Early, Late, Up
  <1> QED
    BY <1>2, <1>3, <1>4

(* The start-up's sweep.                                                   *)
LEMMA StopInvStartAll == StopInv /\ program = "server" /\ StartAll => StopInv'
  <1> SUFFICES ASSUME StopInv, program = "server", StartAll PROVE StopInv'
    OBVIOUS
  <1>1. UNCHANGED <<program, config, admin_token, shutdown, listening, instances, made, requests, gauge>>
    BY DEF StartAll
  <1>2. MadeOK' /\ InstancesOK' /\ StopsHold' /\ RequestsOK'
    BY <1>1 DEF StopInv, MadeOK, InstancesOK, StopsHold, RequestsOK
  <1>3. SweepOK'
    <2>1. SweepOK
      BY DEF StopInv
    <2>2. CASE BeginSweep(TRUE)
      BY <2>2 DEF BeginSweep, SweepOK
    <2>3. CASE UNCHANGED sweep
      BY <2>1, <2>3 DEF SweepOK
    <2> QED
      BY <2>2, <2>3 DEF StartAll
  <1>4. StartOK'
    <2>1. CASE At("start_all") /\ BeginSweep(TRUE)
      BY <1>1, <2>1, StepOrder DEF BeginSweep, StopInv, StartOK, At, Up, Early, Late
    <2>2. CASE At("sweeping") /\ sweep.todo = {} /\ UNCHANGED sweep
      BY <1>1, <2>2, StepOrder DEF StopInv, StartOK, At, Up, Early, Late
    <2> QED
      BY <2>1, <2>2 DEF StartAll
  <1> QED
    BY <1>2, <1>3, <1>4 DEF StopInv

(* Requests that are watched while an instance changes.                    *)
LEMMA Watching ==
    ASSUME RequestsOK, NEW qs, DOMAIN qs = Requests,
           \A r \in Requests : qs[r] = requests[r] \/ qs[r] = Answered,
           NEW map, NEW all, requests' = Watched(qs, map, all),
           DOMAIN made \subseteq DOMAIN made'
    PROVE  /\ RequestsOK'
           /\ \A r \in Requests : requests'[r].pc \in {requests[r].pc, "answered"}
           /\ qs = requests => \A r \in Requests : requests'[r].pc = requests[r].pc
  <1>1. IsRequest(Answered) /\ Answered.pc = "answered"
    BY DEF IsRequest, Answered, NoRequest
  <1> HIDE DEF Answered
  <1>2. \A r \in Requests : IsRequest(qs[r])
    BY <1>1 DEF RequestsOK
  <1>3. /\ DOMAIN requests' = Requests
        /\ \A r \in Requests : /\ IsRequest(requests'[r]) /\ requests'[r].pc = qs[r].pc
                               /\ requests'[r].dest = qs[r].dest
                               /\ requests'[r].found = qs[r].found
    BY <1>2, WatchedKeeps
  <1> QED
    BY <1>1, <1>3 DEF RequestsOK

LEMMA StopInvRegister ==
    ASSUME StopInv, NEW d \in Destinations, NEW f, register(d, f),
           UNCHANGED <<program, listening>>,
           \/ UNCHANGED main
           \/ program = "server" /\ main = "instance" /\ main' = "start_all"
    PROVE  StopInv'
  <1>1. /\ MadeOK' /\ StopsHold' /\ DOMAIN made \subseteq DOMAIN made'
        /\ Len(made) + 1 \in DOMAIN made'
        /\ (\A i \in DOMAIN made : ~ made[i].stopped)
             => \A i \in DOMAIN made' : ~ made'[i].stopped
    BY MadeAppended DEF StopInv, register
  <1>2. InstancesOK'
    BY <1>1 DEF StopInv, InstancesOK, register
  <1>3. RequestsOK' /\ \A r \in Requests : requests'[r].pc = requests[r].pc
    BY <1>1, Watching DEF StopInv, register, RequestsOK
  <1>4. SweepOK' /\ sweep'.todo = sweep.todo /\ sweep'.flag = sweep.flag
    BY DEF StopInv, register, Touched, SweepOK
  <1>5. StartOK'
    BY <1>1, <1>3, <1>4 DEF StopInv, StartOK, Up, Early, Late
  <1> QED
    BY <1>1, <1>2, <1>3, <1>4, <1>5 DEF StopInv

LEMMA StopInvRemove ==
    ASSUME StopInv, NEW d \in Destinations, remove(d), UNCHANGED <<program, listening, main>>
    PROVE  StopInv'
  <1>1. MadeOK' /\ StopsHold' /\ made' = made
    BY DEF StopInv, MadeOK, StopsHold, remove
  <1>2. InstancesOK'
    BY DEF StopInv, InstancesOK, remove
  <1>3. RequestsOK' /\ \A r \in Requests : requests'[r].pc = requests[r].pc
    BY <1>1, Watching DEF StopInv, remove, RequestsOK
  <1>4. SweepOK' /\ sweep'.todo = sweep.todo /\ sweep'.flag = sweep.flag
    BY DEF StopInv, remove, Touched, SweepOK
  <1>5. StartOK'
    BY <1>1, <1>3, <1>4 DEF StopInv, StartOK, Up
  <1> QED
    BY <1>1, <1>2, <1>3, <1>4, <1>5 DEF StopInv

(* An instance changes in a way that stops nothing.                        *)
LEMMA InstanceStep ==
    ASSUME StopInv, NEW i \in DOMAIN made, NEW v, IsInstance(v), Holds(v),
           v.stopped = made[i].stopped, made' = [made EXCEPT ![i] = v],
           UNCHANGED <<program, listening, instances, sweep, requests>>,
           \/ UNCHANGED main
           \/ program = "server" /\ main = "feeder" /\ main' = "bind_server"
    PROVE  StopInv'
  <1>1. MadeOK' /\ StopsHold' /\ DOMAIN made' = DOMAIN made
    BY MadeChanged DEF StopInv
  <1>2. \A k \in DOMAIN made : made'[k].stopped = made[k].stopped
    OBVIOUS
  <1>3. InstancesOK' /\ RequestsOK' /\ SweepOK'
    BY <1>1 DEF StopInv, InstancesOK, RequestsOK, SweepOK
  <1>4. StartOK'
    BY <1>1, <1>2 DEF StopInv, StartOK, Up, Early, Late
  <1> QED
    BY <1>1, <1>3, <1>4 DEF StopInv

(* The sink counts what it stores after a stop.                            *)
LEMMA LateByOne ==
    ASSUME NEW x, IsInstance(x), Holds(x), x.feeding # <<>>, NEW l,
           l = x.late \/ l = x.late + 1, ~ x.stopped => l = x.late
    PROVE  l \in Nat /\ (x.stopped => l <= 1)
  <1>1. x.late \in Nat /\ (x.stopped => x.late = 0)
    BY DEF IsInstance, Holds
  <1> QED
    BY <1>1

(* The changes that feed, the sink and the feeder's task make.             *)
LEMMA InstanceFields ==
    ASSUME NEW x, IsInstance(x), Holds(x), NEW v,
           \/ \E b, a : x.running /\ v = [x EXCEPT !.feeding = b, !.accepted = a]
           \/ \E s, l : /\ x.feeding # <<>> /\ (l = x.late \/ l = x.late + 1) /\ (~ x.stopped => l = x.late)
                        /\ v = [x EXCEPT !.store = s, !.feeding = <<>>, !.late = l]
           \/ \E b : v = [x EXCEPT !.feeder = b]
    PROVE  IsInstance(v) /\ Holds(v) /\ v.stopped = x.stopped
  <1>1. CASE \E b, a : x.running /\ v = [x EXCEPT !.feeding = b, !.accepted = a]
    BY <1>1 DEF IsInstance, Holds
  <1>2. CASE \E s, l : /\ x.feeding # <<>> /\ (l = x.late \/ l = x.late + 1) /\ (~ x.stopped => l = x.late)
                       /\ v = [x EXCEPT !.store = s, !.feeding = <<>>, !.late = l]
    <2>1. PICK s, l : /\ x.feeding # <<>> /\ (l = x.late \/ l = x.late + 1) /\ (~ x.stopped => l = x.late)
                      /\ v = [x EXCEPT !.store = s, !.feeding = <<>>, !.late = l]
      BY <1>2
    <2>2. l \in Nat /\ (x.stopped => l <= 1)
      BY <2>1, LateByOne
    <2>3. /\ v.stopped = x.stopped /\ v.running = x.running
          /\ v.feeding = <<>> /\ v.late = l
      BY <2>1 DEF IsInstance
    <2>4. IsInstance(v)
      BY <2>1, <2>2 DEF IsInstance
    <2> QED
      BY <2>2, <2>3, <2>4 DEF Holds
  <1>3. CASE \E b : v = [x EXCEPT !.feeder = b]
    BY <1>3 DEF IsInstance, Holds
  <1> QED
    BY <1>1, <1>2, <1>3

LEMMA StopInvFeed ==
    ASSUME StopInv, NEW i \in DOMAIN made, NEW batch, Feed(i, batch)
    PROVE  StopInv'
  <1>1. IsInstance(made[i]) /\ Holds(made[i])
    BY DEF StopInv, MadeOK, StopsHold
  <1>2. CASE made[i].running
    <2> DEFINE v == [made[i] EXCEPT !.feeding = batch, !.accepted = made[i].accepted \o batch]
    <2>1. made' = [made EXCEPT ![i] = v]
      BY <1>2 DEF Feed
    <2>2. IsInstance(v) /\ Holds(v) /\ v.stopped = made[i].stopped
      BY <1>1, <1>2, InstanceFields
    <2> QED
      BY <2>1, <2>2, InstanceStep DEF Feed
  <1>3. CASE ~ made[i].running
    <2>1. made' = made /\ made \in Seq({made[k] : k \in DOMAIN made})
      BY <1>3 DEF Feed, StopInv, MadeOK
    <2>2. made' = [made EXCEPT ![i] = made[i]]
      BY <2>1
    <2> QED
      BY <1>1, <2>2, InstanceStep DEF Feed
  <1> QED
    BY <1>2, <1>3

LEMMA StopInvSink ==
    ASSUME StopInv, NEW i \in DOMAIN made, Sink(i)
    PROVE  StopInv'
  <1>1. IsInstance(made[i]) /\ Holds(made[i])
    BY DEF StopInv, MadeOK, StopsHold
  <1> DEFINE s == made[i].store \o Filtered(with_blacklist(made[i].filter), made[i].feeding)
             l == IF made[i].stopped THEN made[i].late + 1 ELSE made[i].late
             v == [made[i] EXCEPT !.store = s, !.feeding = <<>>, !.late = l]
  <1>2. made' = [made EXCEPT ![i] = v] /\ made[i].feeding # <<>>
    BY DEF Sink
  <1>3. IsInstance(v) /\ Holds(v) /\ v.stopped = made[i].stopped
    <2>1. (l = made[i].late \/ l = made[i].late + 1) /\ (~ made[i].stopped => l = made[i].late)
      OBVIOUS
    <2> HIDE DEF s, l
    <2> QED
      BY <1>1, <1>2, <2>1, InstanceFields
  <1> QED
    BY <1>2, <1>3, InstanceStep DEF Sink

LEMMA StopInvSpawn ==
    ASSUME StopInv, NEW d \in Destinations, spawn_feeder(d),
           UNCHANGED <<program, listening, instances, sweep, requests>>,
           \/ UNCHANGED main
           \/ program = "server" /\ main = "feeder" /\ main' = "bind_server"
    PROVE  StopInv'
  <1> DEFINE i == instances[d]
  <1>1. i \in DOMAIN made
    BY DEF StopInv, InstancesOK, spawn_feeder
  <1>2. IsInstance(made[i]) /\ Holds(made[i])
    BY <1>1 DEF StopInv, MadeOK, StopsHold
  <1> DEFINE v == [made[i] EXCEPT !.feeder = TRUE]
  <1>3. made' = [made EXCEPT ![i] = v]
    BY DEF spawn_feeder
  <1>4. IsInstance(v) /\ Holds(v) /\ v.stopped = made[i].stopped
    BY <1>2, InstanceFields
  <1> QED
    BY <1>1, <1>3, <1>4, InstanceStep

LEMMA StopInvFeederEnds == StopInv /\ FeederEnds => StopInv'
  <1> SUFFICES ASSUME StopInv, FeederEnds PROVE StopInv'
    OBVIOUS
  <1> DEFINE i == instances["default"]
  <1>1. i \in DOMAIN made
    BY OperationsAssumption DEF StopInv, InstancesOK, FeederEnds
  <1>2. IsInstance(made[i]) /\ Holds(made[i])
    BY <1>1 DEF StopInv, MadeOK, StopsHold
  <1> DEFINE v == [made[i] EXCEPT !.feeder = FALSE]
  <1>3. made' = [made EXCEPT ![i] = v]
    BY DEF FeederEnds
  <1>4. IsInstance(v) /\ Holds(v) /\ v.stopped = made[i].stopped
    BY <1>2, InstanceFields
  <1> QED
    BY <1>1, <1>3, <1>4, InstanceStep DEF FeederEnds

(* Setting the flag of an instance, and the operator's word with it.       *)
LEMMA FlagSet ==
    ASSUME NEW v,
           v = [filter |-> v.filter, running |-> v.running, feeder |-> v.feeder,
                feeding |-> v.feeding, accepted |-> v.accepted, store |-> v.store,
                stopped |-> v.stopped, late |-> 0],
           v.running \in BOOLEAN, v.stopped \in BOOLEAN, v.stopped => ~ v.running
    PROVE  IsInstance(v) /\ Holds(v)
  <1>1. v.late = 0
    OBVIOUS
  <1> QED
    BY <1>1 DEF IsInstance, Holds

(* A sweep visits a destination.  In run_server it starts instances only,  *)
(* and nobody has stopped any yet.                                         *)
LEMMA StopInvVisit ==
    ASSUME StopInv, NEW d \in Destinations, Visit(d), program = "server" => sweep.flag
    PROVE  StopInv'
  <1> DEFINE i == instances[d]
             stopped == IF program = "embedded" THEN ~ sweep.flag ELSE made[i].stopped
             v == [made[i] EXCEPT !.running = sweep.flag, !.stopped = stopped, !.late = 0]
  <1>1. SweepOK' /\ sweep'.todo \subseteq sweep.todo /\ sweep'.flag = sweep.flag
    BY DEF StopInv, SweepOK, Visit, Rest
  <1>2. /\ UNCHANGED <<program, main, listening, instances>>
        /\ Up /\ sweep.todo # {}
        /\ requests' = Watched(requests, instances, made')
        /\ made' = IF i = Null THEN made ELSE [made EXCEPT ![i] = v]
    BY DEF Visit
  <1>3. /\ MadeOK' /\ StopsHold' /\ DOMAIN made' = DOMAIN made
        /\ (program = "server" => \A k \in DOMAIN made : made'[k].stopped = made[k].stopped)
    <2>1. CASE i = Null
      BY <1>2, <2>1 DEF StopInv, MadeOK, StopsHold
    <2>2. CASE i # Null
      <3>1. i \in DOMAIN made
        BY <2>2 DEF StopInv, InstancesOK
      <3>2. IsInstance(made[i]) /\ sweep.flag \in BOOLEAN /\ program \in {"server", "embedded"}
        BY <3>1 DEF StopInv, MadeOK, SweepOK, StartOK
      <3>3. program = "server" => ~ made[i].stopped
        BY <1>2, <3>1 DEF StopInv, StartOK, Early
      <3>4. stopped \in BOOLEAN /\ (stopped => ~ sweep.flag)
        BY <3>2, <3>3 DEF IsInstance
      <3>5. program = "server" => stopped = made[i].stopped
        OBVIOUS
      <3> HIDE DEF stopped
      <3>6. IsInstance(v) /\ v.stopped = stopped /\ Holds(v)
        <4>1. PICK x : x = made[i]
          OBVIOUS
        <4>2. PICK b, c : b = sweep.flag /\ c = stopped
          OBVIOUS
        <4>3. v = [x EXCEPT !.running = b, !.stopped = c, !.late = 0]
          BY <4>1, <4>2, Zenon
        <4>4. IsInstance(x) /\ b \in BOOLEAN /\ c \in BOOLEAN /\ (c => ~ b)
          BY <3>2, <3>4, <4>1, <4>2
        <4> HIDE DEF v
        <4>5. /\ v.running = b /\ v.stopped = c
              /\ v = [filter |-> v.filter, running |-> v.running, feeder |-> v.feeder,
                      feeding |-> v.feeding, accepted |-> v.accepted, store |-> v.store,
                      stopped |-> v.stopped, late |-> 0]
          BY <4>3, <4>4 DEF IsInstance
        <4> QED
          BY <4>2, <4>4, <4>5, FlagSet
      <3> HIDE DEF v
      <3>8. made' = [made EXCEPT ![i] = v]
        BY <1>2, <2>2
      <3> HIDE DEF i
      <3>9. MadeOK' /\ StopsHold' /\ DOMAIN made' = DOMAIN made
        BY <3>1, <3>6, <3>8, MadeChanged DEF StopInv
      <3> QED
        BY <3>1, <3>5, <3>6, <3>8, <3>9
    <2> QED
      BY <2>1, <2>2
  <1>4. RequestsOK' /\ \A r \in Requests : requests'[r].pc = requests[r].pc
    BY <1>2, <1>3, Watching DEF StopInv, RequestsOK
  <1>5. InstancesOK'
    BY <1>2, <1>3 DEF StopInv, InstancesOK
  <1>6. StartOK'
    BY <1>1, <1>2, <1>3, <1>4 DEF StopInv, StartOK, Up
  <1> QED
    BY <1>1, <1>3, <1>4, <1>5, <1>6 DEF StopInv

(* A request goes on without touching an instance.                         *)
LEMMA RequestStep ==
    ASSUME StopInv, NEW r \in Requests, NEW q, IsRequest(q),
           q.pc \in {"lookup", "found"} => q.dest \in Destinations,
           q.pc = "found" => q.found \in DOMAIN made,
           requests' = [requests EXCEPT ![r] = q],
           ~ (program = "server" /\ main \in Early),
           UNCHANGED <<program, main, listening, instances, made, sweep>>
    PROVE  StopInv'
  <1>1. MadeOK' /\ InstancesOK' /\ SweepOK' /\ StopsHold'
    BY DEF StopInv, MadeOK, InstancesOK, SweepOK, StopsHold
  <1>2. RequestsOK'
    BY DEF StopInv, RequestsOK
  <1>3. StartOK'
    BY DEF StopInv, StartOK, Up
  <1> QED
    BY <1>1, <1>2, <1>3 DEF StopInv

(* There is no request while run_server starts.                            *)
LEMMA RequestsComeLater ==
    ASSUME StopInv, NEW r \in Requests, requests[r].pc # "none" \/ listening.admin # Null
    PROVE  ~ (program = "server" /\ main \in Early)
  BY DEF StopInv, StartOK

LEMMA StopInvAsk ==
    ASSUME StopInv, NEW r \in Requests, NEW kind, NEW d \in Destinations, NEW h,
           Ask(r, kind, d, h)
    PROVE  StopInv'
  <1> DEFINE q == requests[r]
  <1>1. IsRequest(q)
    BY DEF StopInv, RequestsOK
  <1>2. PICK w : w = [q EXCEPT !.pc = "keys", !.kind = kind, !.todo = Destinations,
                               !.was = Views(instances, made)]
    OBVIOUS
  <1>3. PICK x : x = [q EXCEPT !.pc = "lookup", !.kind = kind, !.dest = d]
    OBVIOUS
  <1>4. requests' = [requests EXCEPT ![r] = IF kind = "list" THEN w ELSE x]
    BY <1>2, <1>3 DEF Ask
  <1>5. ~ (program = "server" /\ main \in Early)
    BY RequestsComeLater DEF Ask
  <1>6. UNCHANGED <<program, main, listening, instances, made, sweep>>
    BY DEF Ask
  <1>7. IsRequest(w) /\ w.pc = "keys"
    BY <1>1, <1>2 DEF IsRequest
  <1>8. IsRequest(x) /\ x.pc = "lookup" /\ x.dest = d
    BY <1>1, <1>3 DEF IsRequest
  <1> QED
    BY <1>4, <1>5, <1>6, <1>7, <1>8, RequestStep

LEMMA StopInvList ==
    ASSUME StopInv, NEW r \in Requests, NEW d \in Destinations,
           ListKey(r, d) \/ ListState(r, d)
    PROVE  StopInv'
  <1> DEFINE q == requests[r]
  <1>1. IsRequest(q)
    BY DEF StopInv, RequestsOK
  <1>2. CASE ListKey(r, d)
    <2> DEFINE keys == IF instances[d] = Null THEN q.keys ELSE q.keys \cup {d}
    <2>1. PICK w : w = [q EXCEPT !.keys = keys, !.todo = keys, !.pc = "states"]
      OBVIOUS
    <2>2. PICK x : x = [q EXCEPT !.keys = keys, !.todo = q.todo \ {d}]
      OBVIOUS
    <2>3. /\ q.pc = "keys" /\ UNCHANGED <<program, main, listening, instances, made, sweep>>
          /\ requests' = [requests EXCEPT ![r] = IF q.todo = {d} THEN w ELSE x]
      BY <1>2, <2>1, <2>2 DEF ListKey
    <2> HIDE DEF keys
    <2>4. IsRequest(w) /\ w.pc = "states"
      BY <1>1, <2>1 DEF IsRequest
    <2>5. IsRequest(x) /\ x.pc = "keys"
      BY <1>1, <2>2, <2>3 DEF IsRequest
    <2>6. ~ (program = "server" /\ main \in Early)
      BY <2>3, RequestsComeLater
    <2> QED
      BY <2>3, <2>4, <2>5, <2>6, RequestStep
  <1>3. CASE ListState(r, d)
    <2> DEFINE rows == q.rows \cup {[name |-> d, running |-> IsRunning(d)]}
    <2>1. PICK w : w = [q EXCEPT !.rows = rows, !.todo = q.todo \ {d}]
      OBVIOUS
    <2>2. /\ q.pc = "states" /\ UNCHANGED <<program, main, listening, instances, made, sweep>>
          /\ requests' = [requests EXCEPT ![r] = w]
      BY <1>3, <2>1 DEF ListState
    <2> HIDE DEF rows
    <2>3. IsRequest(w) /\ w.pc = "states"
      BY <1>1, <2>1, <2>2 DEF IsRequest
    <2>4. ~ (program = "server" /\ main \in Early)
      BY <2>2, RequestsComeLater
    <2> QED
      BY <2>2, <2>3, <2>4, RequestStep
  <1> QED
    BY <1>2, <1>3

LEMMA AnsweredIsRequest == IsRequest(Answered) /\ Answered.pc = "answered"
  BY DEF IsRequest, Answered, NoRequest

LEMMA StopInvAnswer ==
    ASSUME StopInv, NEW r \in Requests, ListAnswer(r) \/ Lookup(r)
    PROVE  StopInv'
  <1> DEFINE q == requests[r]
  <1>1. IsRequest(q) /\ (q.pc = "lookup" => q.dest \in Destinations)
    BY DEF StopInv, RequestsOK
  <1>2. UNCHANGED <<program, main, listening, instances, made, sweep>> /\ q.pc # "none"
    BY DEF ListAnswer, Lookup
  <1>3. ~ (program = "server" /\ main \in Early)
    BY <1>2, RequestsComeLater
  <1>4. CASE ListAnswer(r)
    BY <1>2, <1>3, <1>4, AnsweredIsRequest, RequestStep DEF ListAnswer
  <1>5. CASE Lookup(r)
    <2> DEFINE i == instances[q.dest]
    <2>1. PICK w : w = [q EXCEPT !.pc = "found", !.found = i]
      OBVIOUS
    <2>2. requests' = [requests EXCEPT ![r] = IF i = Null THEN Answered ELSE w]
      BY <1>5, <2>1 DEF Lookup, LookedUp
    <2>3. i # Null => i \in DOMAIN made
      BY <1>1, <1>5 DEF Lookup, StopInv, InstancesOK
    <2> HIDE DEF i
    <2>4. IsRequest(w) /\ w.pc = "found" /\ w.found = i /\ w.dest = q.dest
      BY <1>1, <2>1 DEF IsRequest
    <2>5. q.dest \in Destinations
      BY <1>1, <1>5 DEF Lookup
    <2> QED
      BY <1>2, <1>3, <2>2, <2>3, <2>4, <2>5, AnsweredIsRequest, RequestStep
  <1> QED
    BY <1>4, <1>5

(* Start or stop: the one action that stops an instance of run_server.     *)
LEMMA StopInvAct ==
    ASSUME StopInv, NEW r \in Requests, Act(r)
    PROVE  StopInv'
  <1> DEFINE q == requests[r]
             i == q.found
             qs == [requests EXCEPT ![r] = Answered]
  <1>0. PICK v : v = [made[i] EXCEPT !.running = (q.kind = "start"),
                                     !.stopped = (q.kind = "stop"), !.late = 0]
    OBVIOUS
  <1>1. /\ q.pc = "found" /\ made' = [made EXCEPT ![i] = v]
        /\ requests' = Watched(qs, instances', made') /\ Touched(q.dest)
        /\ UNCHANGED <<program, main, listening, instances>>
    BY <1>0 DEF Act
  <1>2. i \in DOMAIN made /\ ~ (program = "server" /\ main \in Early)
    BY <1>1, RequestsComeLater DEF StopInv, RequestsOK
  <1>3. IsInstance(v) /\ Holds(v)
    <2>1. IsInstance(made[i])
      BY <1>2 DEF StopInv, MadeOK
    <2>2. v.running = (q.kind = "start") /\ v.stopped = (q.kind = "stop")
      BY <1>0, <2>1 DEF IsInstance
    <2>3. v.running \in BOOLEAN /\ v.stopped \in BOOLEAN /\ (v.stopped => ~ v.running)
      BY <2>2
    <2>4. v = [filter |-> v.filter, running |-> v.running, feeder |-> v.feeder,
               feeding |-> v.feeding, accepted |-> v.accepted, store |-> v.store,
               stopped |-> v.stopped, late |-> 0]
      BY <1>0, <2>1 DEF IsInstance
    <2> QED
      BY <2>3, <2>4, FlagSet
  <1>4. MadeOK' /\ StopsHold' /\ DOMAIN made' = DOMAIN made
    BY <1>1, <1>2, <1>3, MadeChanged DEF StopInv
  <1>5. DOMAIN qs = Requests /\ \A k \in Requests : qs[k] = requests[k] \/ qs[k] = Answered
    BY DEF StopInv, RequestsOK
  <1> HIDE DEF qs
  <1>6. RequestsOK'
    BY <1>1, <1>4, <1>5, Watching DEF StopInv
  <1>7. InstancesOK' /\ SweepOK' /\ sweep'.todo = sweep.todo /\ sweep'.flag = sweep.flag
    BY <1>1, <1>4 DEF StopInv, InstancesOK, SweepOK, Touched
  <1>8. StartOK'
    BY <1>1, <1>2, <1>7 DEF StopInv, StartOK, Up
  <1> QED
    BY <1>4, <1>6, <1>7, <1>8 DEF StopInv

LEMMA StopInvEmbedder == StopInv /\ Embedder => StopInv'
  <1> SUFFICES ASSUME StopInv, Embedder PROVE StopInv'
    OBVIOUS
  <1>1. UNCHANGED <<program, main, listening>> /\ program = "embedded"
    BY DEF Embedder, StopInv, StartOK, Early, Late
  <1>2. CASE \E d \in Destinations, f \in Filters : with_blacklist(f) # Null /\ register(d, f)
    BY <1>1, <1>2, StopInvRegister
  <1>3. CASE \E d \in Destinations : remove(d)
    BY <1>1, <1>3, StopInvRemove
  <1>4. CASE \E flag \in BOOLEAN : /\ sweep.number < MaxSweeps /\ BeginSweep(flag)
                                   /\ UNCHANGED <<instances, made, requests>>
    <2>1. SweepOK'
      BY <1>4 DEF BeginSweep, SweepOK
    <2>2. MadeOK' /\ InstancesOK' /\ StopsHold' /\ RequestsOK'
      BY <1>4 DEF StopInv, MadeOK, InstancesOK, StopsHold, RequestsOK
    <2>3. StartOK'
      BY <1>1 DEF StopInv, StartOK
    <2> QED
      BY <2>1, <2>2, <2>3 DEF StopInv
  <1>5. CASE \E d \in Fed : spawn_feeder(d) /\ UNCHANGED <<instances, sweep, requests>>
    BY <1>1, <1>5, StopInvSpawn, OperationsAssumption
  <1> QED
    BY <1>2, <1>3, <1>4, <1>5 DEF Embedder

-----------------------------------------------------------------------------
LEMMA StopInvStep == StopInv /\ [Next]_vars => StopInv'
  <1> SUFFICES ASSUME StopInv, [Next]_vars PROVE StopInv'
    OBVIOUS
  <1>1. CASE program = "server" /\ RunServer
    <2>1. CASE ReadConfig \/ SetGauge \/ Fails \/ ServeReturns \/ WaitEnds
      BY <1>1, <2>1, StopInvMain
    <2>2. CASE MakeInstance
      <3>1. /\ main = "instance" /\ main' = "start_all" /\ register("default", config.filter)
            /\ UNCHANGED <<program, listening>>
        BY <2>2, StepOrder DEF MakeInstance, At
      <3> QED
        BY <1>1, <3>1, StopInvRegister, OperationsAssumption
    <2>3. CASE StartAll
      BY <1>1, <2>3, StopInvStartAll
    <2>4. CASE \/ Listen("metrics", "metrics", config.metrics_bind)
               \/ Listen("admin", "admin", resolve_admin_bind(config))
               \/ Listen("bind_server", "server", config.bind)
      BY <1>1, <2>4, StopInvListen
    <2>5. CASE SpawnFeeder
      <3>1. /\ main = "feeder" /\ main' = "bind_server" /\ spawn_feeder("default")
            /\ UNCHANGED <<program, listening, instances, sweep, requests>>
        BY <2>5, StepOrder DEF SpawnFeeder, At
      <3> QED
        BY <1>1, <3>1, StopInvSpawn, OperationsAssumption
    <2> QED
      BY <1>1, <2>1, <2>2, <2>3, <2>4, <2>5 DEF RunServer
  <1>2. CASE AcceptFails \/ Sigint
    BY <1>2, StopInvMain
  <1>3. CASE FeederEnds
    BY <1>3, StopInvFeederEnds
  <1>4. CASE Embedder
    BY <1>4, StopInvEmbedder
  <1>5. ASSUME NEW d \in Destinations, Visit(d) PROVE StopInv'
    BY <1>5, StopInvVisit DEF StopInv, StartOK, Visit
  <1>6. ASSUME NEW i \in DOMAIN made, NEW b \in Batches, Feed(i, b) PROVE StopInv'
    BY <1>6, StopInvFeed
  <1>7. ASSUME NEW i \in DOMAIN made, Sink(i) PROVE StopInv'
    BY <1>7, StopInvSink
  <1>8. ASSUME NEW r \in Requests, NEW d \in Destinations, NEW h \in Headers,
               NEW kind \in Kinds[r], Ask(r, kind, d, h)
        PROVE  StopInv'
    BY <1>8, StopInvAsk
  <1>9. ASSUME NEW r \in Requests, Answers(r) PROVE StopInv'
    BY <1>9, StopInvAnswer, StopInvAct, StopInvList DEF Answers
  <1>10. CASE UNCHANGED vars
    BY <1>10 DEF vars, StopInv, MadeOK, InstancesOK, RequestsOK, SweepOK, StopsHold, StartOK, Up
  <1> QED
    BY <1>1, <1>2, <1>3, <1>4, <1>5, <1>6, <1>7, <1>8, <1>9, <1>10 DEF Next

LEMMA StopInvAlways == Spec => []StopInv
  BY StopInvInit, StopInvStep, PTL DEF Spec

(* Whoever registers, removes, starts, stops, sweeps and feeds, and        *)
(* wherever the start-up is: an instance that the operator stopped stays   *)
(* stopped, and stores one more batch at most (instance.rs:87, main.rs:98, *)
(* lib.rs:268-290 of canal-admin).                                         *)
THEOREM StopIsRespected == Spec => []StopHolds
  <1>1. StopInv => StopHolds
    BY DEF StopInv, StopsHold, Holds, StopHolds
  <1> QED
    BY <1>1, StopInvAlways, PTL

-----------------------------------------------------------------------------
(* A sweep reaches everybody.  For this an instance must belong to one     *)
(* destination: what a request has found and starts or stops is not the    *)
(* instance of a destination that it does not name.                        *)
Homes ==
    /\ \A d, e \in Destinations :
         d # e /\ instances[d] # Null => instances[d] # instances[e]
    /\ \A r \in Requests, d \in Destinations :
         requests[r].pc = "found" /\ d # requests[r].dest /\ instances[d] # Null
           => instances[d] # requests[r].found

SweepInv == StopInv /\ Homes /\ SweepReachesAll

(* Steps that leave the map, the sweep and the flags alone.                *)
QuietRequests ==
    \A r \in Requests :
      requests'[r].pc = "found" =>
        /\ requests[r].pc = "found"
        /\ requests'[r].dest = requests[r].dest /\ requests'[r].found = requests[r].found

LEMMA QuietStep ==
    ASSUME SweepInv, StopInv', QuietRequests, UNCHANGED <<instances, sweep>>,
           \A i \in DOMAIN made : made'[i].running = made[i].running
    PROVE  SweepInv'
  <1>1. Homes'
    BY DEF SweepInv, Homes, QuietRequests
  <1>2. SweepReachesAll'
    BY DEF SweepInv, StopInv, InstancesOK, SweepReachesAll
  <1> QED
    BY <1>1, <1>2 DEF SweepInv

LEMMA QuietMain ==
    ASSUME SweepInv, StopInv', UNCHANGED <<instances, sweep, requests, made>>
    PROVE  SweepInv'
  BY QuietStep DEF QuietRequests

LEMMA QuietMade ==
    ASSUME SweepInv, StopInv', UNCHANGED <<instances, sweep, requests>>,
           \/ \E i \in DOMAIN made, b \in Batches : Feed(i, b)
           \/ \E i \in DOMAIN made : Sink(i)
           \/ \E d \in Destinations : spawn_feeder(d)
           \/ FeederEnds
    PROVE  SweepInv'
  <1>1. \A i \in DOMAIN made : IsInstance(made[i])
    BY DEF SweepInv, StopInv, MadeOK
  <1>2. ASSUME NEW i \in DOMAIN made, NEW v, v.running = made[i].running,
               made' = [made EXCEPT ![i] = v]
        PROVE  SweepInv'
    BY <1>2, QuietStep DEF QuietRequests
  <1>3. ASSUME NEW i \in DOMAIN made, NEW b \in Batches, Feed(i, b) PROVE SweepInv'
    <2>1. PICK v : v = [made[i] EXCEPT !.feeding = b, !.accepted = made[i].accepted \o b]
      OBVIOUS
    <2>2. v.running = made[i].running
      BY <1>1, <2>1 DEF IsInstance
    <2>3. CASE made[i].running
      BY <1>2, <1>3, <2>1, <2>2, <2>3 DEF Feed
    <2>4. CASE ~ made[i].running
      BY <1>3, <2>4, QuietMain DEF Feed
    <2> QED
      BY <2>3, <2>4
  <1>4. ASSUME NEW i \in DOMAIN made, Sink(i) PROVE SweepInv'
    <2> DEFINE x == made[i]
               s == x.store \o Filtered(with_blacklist(x.filter), x.feeding)
               l == IF x.stopped THEN x.late + 1 ELSE x.late
    <2>1. PICK v : v = [x EXCEPT !.store = s, !.feeding = <<>>, !.late = l]
      OBVIOUS
    <2>2. made' = [made EXCEPT ![i] = v]
      BY <1>4, <2>1 DEF Sink
    <2> HIDE DEF s, l
    <2>3. v.running = made[i].running
      BY <1>1, <2>1 DEF IsInstance
    <2> QED
      BY <1>2, <2>2, <2>3
  <1>5. ASSUME NEW i \in DOMAIN made, NEW b, made' = [made EXCEPT ![i].feeder = b]
        PROVE  SweepInv'
    <2>1. PICK v : v = [made[i] EXCEPT !.feeder = b]
      OBVIOUS
    <2>2. v.running = made[i].running
      BY <1>1, <2>1 DEF IsInstance
    <2> QED
      BY <1>2, <1>5, <2>1, <2>2
  <1>6. ASSUME NEW d \in Destinations, spawn_feeder(d) PROVE SweepInv'
    BY <1>5, <1>6 DEF spawn_feeder, SweepInv, StopInv, InstancesOK
  <1>7. CASE FeederEnds
    BY <1>5, <1>7, OperationsAssumption DEF FeederEnds, SweepInv, StopInv, InstancesOK
  <1> QED
    BY <1>3, <1>4, <1>6, <1>7

LEMMA QuietRequest ==
    ASSUME SweepInv, StopInv', UNCHANGED <<instances, sweep, made>>, NEW r \in Requests,
           \/ ListAnswer(r)
           \/ \E d \in Destinations : ListKey(r, d) \/ ListState(r, d)
           \/ \E kind \in Kinds[r], d \in Destinations, h \in Headers : Ask(r, kind, d, h)
    PROVE  SweepInv'
  <1>1. DOMAIN requests = Requests /\ IsRequest(requests[r])
    BY DEF SweepInv, StopInv, RequestsOK
  <1>2. ASSUME NEW q, q.pc # "found", requests' = [requests EXCEPT ![r] = q]
        PROVE  SweepInv'
    BY <1>1, <1>2, QuietStep DEF QuietRequests
  <1>3. CASE ListAnswer(r)
    BY <1>2, <1>3, AnsweredIsRequest DEF ListAnswer
  <1>4. ASSUME NEW d \in Destinations, ListKey(r, d) PROVE SweepInv'
    <2> DEFINE q == requests[r]
               keys == IF instances[d] = Null THEN q.keys ELSE q.keys \cup {d}
    <2>1. PICK w : w = [q EXCEPT !.keys = keys, !.todo = keys, !.pc = "states"]
      OBVIOUS
    <2>2. PICK x : x = [q EXCEPT !.keys = keys, !.todo = q.todo \ {d}]
      OBVIOUS
    <2>3. q.pc = "keys" /\ requests' = [requests EXCEPT ![r] = IF q.todo = {d} THEN w ELSE x]
      BY <1>4, <2>1, <2>2 DEF ListKey
    <2> HIDE DEF keys
    <2>4. w.pc = "states" /\ x.pc = "keys"
      BY <1>1, <2>1, <2>2, <2>3 DEF IsRequest
    <2> QED
      BY <1>2, <2>3, <2>4
  <1>5. ASSUME NEW d \in Destinations, ListState(r, d) PROVE SweepInv'
    <2> DEFINE q == requests[r]
               rows == q.rows \cup {[name |-> d, running |-> IsRunning(d)]}
    <2>1. PICK w : w = [q EXCEPT !.rows = rows, !.todo = q.todo \ {d}]
      OBVIOUS
    <2>2. q.pc = "states" /\ requests' = [requests EXCEPT ![r] = w]
      BY <1>5, <2>1 DEF ListState
    <2> HIDE DEF rows
    <2>3. w.pc = "states"
      BY <1>1, <2>1, <2>2 DEF IsRequest
    <2> QED
      BY <1>2, <2>2, <2>3
  <1>6. ASSUME NEW kind \in Kinds[r], NEW d \in Destinations, NEW h \in Headers,
               Ask(r, kind, d, h)
        PROVE  SweepInv'
    <2> DEFINE q == requests[r]
    <2>1. PICK w : w = [q EXCEPT !.pc = "keys", !.kind = kind, !.todo = Destinations,
                                 !.was = Views(instances, made)]
      OBVIOUS
    <2>2. PICK x : x = [q EXCEPT !.pc = "lookup", !.kind = kind, !.dest = d]
      OBVIOUS
    <2>3. requests' = [requests EXCEPT ![r] = IF kind = "list" THEN w ELSE x]
      BY <1>6, <2>1, <2>2 DEF Ask
    <2>4. w.pc = "keys" /\ x.pc = "lookup"
      BY <1>1, <2>1, <2>2 DEF IsRequest
    <2> QED
      BY <1>2, <2>3, <2>4
  <1> QED
    BY <1>3, <1>4, <1>5, <1>6

(* A request finds the instance of the destination it names.               *)
LEMMA SweepInvLookup ==
    ASSUME SweepInv, StopInv', NEW r \in Requests, Lookup(r)
    PROVE  SweepInv'
  <1> DEFINE q == requests[r]
             i == instances[q.dest]
  <1>1. DOMAIN requests = Requests /\ IsRequest(q) /\ q.dest \in Destinations
    BY DEF SweepInv, StopInv, RequestsOK, Lookup
  <1>2. PICK w : w = [q EXCEPT !.pc = "found", !.found = i]
    OBVIOUS
  <1>3. /\ requests' = [requests EXCEPT ![r] = IF i = Null THEN Answered ELSE w]
        /\ UNCHANGED <<instances, made, sweep>>
    BY <1>2 DEF Lookup, LookedUp
  <1>4. w.pc = "found" /\ w.dest = q.dest /\ w.found = i
    BY <1>1, <1>2 DEF IsRequest
  <1>5. Homes'
    BY <1>1, <1>3, <1>4, AnsweredIsRequest DEF SweepInv, Homes
  <1>6. SweepReachesAll'
    BY <1>3 DEF SweepInv, SweepReachesAll
  <1> QED
    BY <1>5, <1>6 DEF SweepInv

(* Requests that are watched keep what they have found.                    *)
LEMMA WatchedHomes ==
    ASSUME SweepInv, NEW qs, DOMAIN qs = Requests,
           \A r \in Requests : qs[r] = requests[r] \/ qs[r] = Answered,
           NEW map, NEW all, requests' = Watched(qs, map, all)
    PROVE  QuietRequests
  <1>1. \A r \in Requests : IsRequest(requests[r])
    BY DEF SweepInv, StopInv, RequestsOK
  <1>2. \A r \in Requests : IsRequest(qs[r])
    BY <1>1, AnsweredIsRequest
  <1>3. \A r \in Requests : /\ requests'[r].pc = qs[r].pc
                            /\ requests'[r].dest = qs[r].dest
                            /\ requests'[r].found = qs[r].found
    BY <1>2, WatchedKeeps
  <1> QED
    BY <1>3, AnsweredIsRequest DEF QuietRequests

(* A new instance has a number that nobody knows.                          *)
LEMMA SweepInvRegister ==
    ASSUME SweepInv, StopInv', NEW d \in Destinations, NEW f, register(d, f)
    PROVE  SweepInv'
  <1> DEFINE n == Len(made) + 1
  <1>1. QuietRequests
    BY WatchedHomes DEF register, SweepInv, StopInv, RequestsOK
  <1>2. made \in Seq({made[k] : k \in DOMAIN made})
    BY DEF SweepInv, StopInv, MadeOK
  <1>3. /\ n \notin DOMAIN made
        /\ \A k \in DOMAIN made : made'[k] = made[k]
    BY <1>2 DEF register
  <1>4. instances' = [instances EXCEPT ![d] = n]
    BY DEF register
  <1>5. instances \in [Destinations -> DOMAIN made \cup {Null}]
    BY DEF SweepInv, StopInv, InstancesOK
  <1>6. \A r \in Requests : requests[r].pc = "found" => requests[r].found \in DOMAIN made
    BY DEF SweepInv, StopInv, RequestsOK
  <1> HIDE DEF n
  <1>7. Homes'
    BY <1>1, <1>3, <1>4, <1>5, <1>6 DEF SweepInv, Homes, QuietRequests
  <1>8. sweep'.todo = sweep.todo /\ sweep'.touched = sweep.touched \cup ({d} \ sweep.todo)
        /\ sweep'.flag = sweep.flag
    BY DEF register, Touched, SweepInv, StopInv, SweepOK
  <1>9. SweepReachesAll'
    BY <1>3, <1>4, <1>5, <1>8 DEF SweepInv, SweepReachesAll
  <1> QED
    BY <1>7, <1>9 DEF SweepInv

LEMMA SweepInvRemove ==
    ASSUME SweepInv, StopInv', NEW d \in Destinations, remove(d)
    PROVE  SweepInv'
  <1>1. QuietRequests
    BY WatchedHomes DEF remove, SweepInv, StopInv, RequestsOK
  <1>2. instances' = [instances EXCEPT ![d] = Null] /\ made' = made
    BY DEF remove
  <1>3. instances \in [Destinations -> DOMAIN made \cup {Null}]
    BY DEF SweepInv, StopInv, InstancesOK
  <1>4. Homes'
    BY <1>1, <1>2, <1>3 DEF SweepInv, Homes, QuietRequests
  <1>5. sweep'.todo = sweep.todo /\ sweep'.touched = sweep.touched \cup ({d} \ sweep.todo)
        /\ sweep'.flag = sweep.flag
    BY DEF remove, Touched, SweepInv, StopInv, SweepOK
  <1>6. SweepReachesAll'
    BY <1>2, <1>3, <1>5 DEF SweepInv, SweepReachesAll
  <1> QED
    BY <1>4, <1>6 DEF SweepInv

LEMMA SweepInvBegin ==
    ASSUME SweepInv, StopInv', NEW flag, BeginSweep(flag),
           UNCHANGED <<instances, made, requests>>
    PROVE  SweepInv'
  <1>1. Homes'
    BY DEF SweepInv, Homes
  <1>2. sweep'.todo = Destinations
    BY DEF BeginSweep
  <1>3. SweepReachesAll'
    BY <1>2 DEF SweepReachesAll
  <1> QED
    BY <1>1, <1>3 DEF SweepInv

(* A visit changes the instance of the destination it visits, and no other *)
(* destination's.                                                          *)
LEMMA SweepInvVisit ==
    ASSUME SweepInv, StopInv', NEW d \in Destinations, Visit(d)
    PROVE  SweepInv'
  <1> DEFINE i == instances[d]
             stopped == IF program = "embedded" THEN ~ sweep.flag ELSE made[i].stopped
  <1>1. PICK v : v = [made[i] EXCEPT !.running = sweep.flag, !.stopped = stopped, !.late = 0]
    OBVIOUS
  <1>2. /\ made' = IF i = Null THEN made ELSE [made EXCEPT ![i] = v]
        /\ UNCHANGED instances
    BY <1>1 DEF Visit
  <1> HIDE DEF stopped
  <1>3. QuietRequests
    BY WatchedHomes DEF Visit, SweepInv, StopInv, RequestsOK
  <1>4. instances \in [Destinations -> DOMAIN made \cup {Null}]
    BY DEF SweepInv, StopInv, InstancesOK
  <1>5. Homes'
    BY <1>2, <1>3, <1>4 DEF SweepInv, Homes, QuietRequests
  <1>6. /\ sweep'.todo = sweep.todo \ {d} /\ sweep'.flag = sweep.flag
        /\ sweep'.touched = sweep.touched
    BY DEF Visit, Rest, SweepInv, StopInv, SweepOK
  <1>7. i # Null => made'[i].running = sweep.flag
    <2> SUFFICES ASSUME i # Null PROVE made'[i].running = sweep.flag
      OBVIOUS
    <2>1. i \in DOMAIN made /\ IsInstance(made[i])
      BY <1>4 DEF SweepInv, StopInv, MadeOK
    <2>2. v.running = sweep.flag
      BY <1>1, <2>1 DEF IsInstance
    <2> QED
      BY <1>2, <2>1, <2>2
  <1>8. ASSUME NEW e \in Destinations, e \notin sweep'.todo, e \notin sweep'.touched,
               instances[e] # Null
        PROVE  made'[instances[e]].running = sweep.flag
    <2>1. CASE e = d
      BY <1>7, <1>8, <2>1
    <2>2. CASE e # d
      <3>1. instances[e] # i /\ instances[e] \in DOMAIN made
        BY <1>4, <1>8, <2>2 DEF SweepInv, Homes
      <3>2. made'[instances[e]] = made[instances[e]]
        BY <1>2, <3>1
      <3> QED
        BY <1>6, <1>8, <2>2, <3>2 DEF SweepInv, SweepReachesAll
    <2> QED
      BY <2>1, <2>2
  <1>9. SweepReachesAll'
    BY <1>2, <1>6, <1>8 DEF SweepReachesAll
  <1> QED
    BY <1>5, <1>9 DEF SweepInv

LEMMA SweepInvAct ==
    ASSUME SweepInv, StopInv', NEW r \in Requests, Act(r)
    PROVE  SweepInv'
  <1> DEFINE q == requests[r]
             i == q.found
             qs == [requests EXCEPT ![r] = Answered]
  <1>1. PICK v : v = [made[i] EXCEPT !.running = (q.kind = "start"),
                                     !.stopped = (q.kind = "stop"), !.late = 0]
    OBVIOUS
  <1>2. /\ q.pc = "found" /\ made' = [made EXCEPT ![i] = v]
        /\ requests' = Watched(qs, instances', made') /\ Touched(q.dest)
        /\ UNCHANGED instances
    BY <1>1 DEF Act
  <1>3. DOMAIN qs = Requests /\ \A k \in Requests : qs[k] = requests[k] \/ qs[k] = Answered
    BY DEF SweepInv, StopInv, RequestsOK
  <1>4. QuietRequests
    BY <1>2, <1>3, WatchedHomes
  <1>5. Homes'
    BY <1>2, <1>4 DEF SweepInv, Homes, QuietRequests
  <1>6. /\ sweep'.todo = sweep.todo /\ sweep'.flag = sweep.flag
        /\ sweep'.touched = sweep.touched \cup ({q.dest} \ sweep.todo)
    BY <1>2 DEF Touched, SweepInv, StopInv, SweepOK
  <1>7. ASSUME NEW e \in Destinations, e \notin sweep'.todo, e \notin sweep'.touched,
               instances[e] # Null
        PROVE  made'[instances[e]].running = sweep.flag
    <2>1. e # q.dest
      BY <1>6, <1>7
    <2>2. instances[e] # i /\ instances[e] \in DOMAIN made
      BY <1>2, <1>7, <2>1 DEF SweepInv, Homes, StopInv, InstancesOK
    <2>3. made'[instances[e]] = made[instances[e]]
      BY <1>2, <2>2
    <2> QED
      BY <1>6, <1>7, <2>3 DEF SweepInv, SweepReachesAll
  <1>8. SweepReachesAll'
    BY <1>2, <1>6, <1>7 DEF SweepReachesAll
  <1> QED
    BY <1>5, <1>8 DEF SweepInv

LEMMA SweepInvInit == Init => SweepInv
  <1> SUFFICES ASSUME Init PROVE SweepInv
    OBVIOUS
  <1>1. StopInv
    BY StopInvInit
  <1>2. Homes
    BY DEF Init, Homes, NoRequest
  <1>3. SweepReachesAll
    BY DEF Init, SweepReachesAll
  <1> QED
    BY <1>1, <1>2, <1>3 DEF SweepInv

LEMMA SweepInvStep == SweepInv /\ [Next]_vars => SweepInv'
  <1> SUFFICES ASSUME SweepInv, [Next]_vars PROVE SweepInv'
    OBVIOUS
  <1>1. StopInv'
    BY StopInvStep DEF SweepInv
  <1>2. CASE program = "server" /\ RunServer
    <2>1. CASE ReadConfig \/ SetGauge \/ Fails \/ ServeReturns \/ WaitEnds
      BY <1>1, <2>1, QuietMain DEF ReadConfig, SetGauge, Fails, ServeReturns, WaitEnds
    <2>2. CASE MakeInstance
      BY <1>1, <2>2, SweepInvRegister, OperationsAssumption DEF MakeInstance
    <2>3. CASE StartAll
      <3>1. UNCHANGED <<instances, made, requests>>
        BY <2>3 DEF StartAll
      <3>2. CASE BeginSweep(TRUE)
        BY <1>1, <3>1, <3>2, SweepInvBegin
      <3>3. CASE UNCHANGED sweep
        BY <1>1, <3>1, <3>3, QuietMain
      <3> QED
        BY <2>3, <3>2, <3>3 DEF StartAll
    <2>4. CASE \/ Listen("metrics", "metrics", config.metrics_bind)
               \/ Listen("admin", "admin", resolve_admin_bind(config))
               \/ Listen("bind_server", "server", config.bind)
      BY <1>1, <2>4, QuietMain DEF Listen
    <2>5. CASE SpawnFeeder
      BY <1>1, <2>5, QuietMade, OperationsAssumption DEF SpawnFeeder
    <2> QED
      BY <1>2, <2>1, <2>2, <2>3, <2>4, <2>5 DEF RunServer
  <1>3. CASE AcceptFails \/ Sigint
    BY <1>1, <1>3, QuietMain DEF AcceptFails, Sigint
  <1>4. CASE FeederEnds
    BY <1>1, <1>4, QuietMade DEF FeederEnds
  <1>5. CASE Embedder
    <2>1. ASSUME NEW d \in Destinations, NEW f \in Filters, register(d, f) PROVE SweepInv'
      BY <1>1, <2>1, SweepInvRegister
    <2>2. ASSUME NEW d \in Destinations, remove(d) PROVE SweepInv'
      BY <1>1, <2>2, SweepInvRemove
    <2>3. ASSUME NEW flag \in BOOLEAN, BeginSweep(flag), UNCHANGED <<instances, made, requests>>
          PROVE  SweepInv'
      BY <1>1, <2>3, SweepInvBegin
    <2>4. ASSUME NEW d \in Fed, spawn_feeder(d), UNCHANGED <<instances, sweep, requests>>
          PROVE  SweepInv'
      BY <1>1, <2>4, QuietMade, OperationsAssumption
    <2> QED
      BY <1>5, <2>1, <2>2, <2>3, <2>4 DEF Embedder
  <1>6. ASSUME NEW d \in Destinations, Visit(d) PROVE SweepInv'
    BY <1>1, <1>6, SweepInvVisit
  <1>7. ASSUME NEW i \in DOMAIN made, NEW b \in Batches, Feed(i, b) PROVE SweepInv'
    BY <1>1, <1>7, QuietMade DEF Feed
  <1>8. ASSUME NEW i \in DOMAIN made, Sink(i) PROVE SweepInv'
    BY <1>1, <1>8, QuietMade DEF Sink
  <1>9. ASSUME NEW r \in Requests, NEW d \in Destinations, NEW h \in Headers,
               NEW kind \in Kinds[r], Ask(r, kind, d, h)
        PROVE  SweepInv'
    <2>1. UNCHANGED <<instances, sweep, made>>
      BY <1>9 DEF Ask
    <2> QED
      BY <1>1, <1>9, <2>1, QuietRequest
  <1>10. ASSUME NEW r \in Requests, Answers(r) PROVE SweepInv'
    <2>1. CASE ListAnswer(r)
      BY <1>1, <2>1, QuietRequest DEF ListAnswer
    <2>2. ASSUME NEW d \in Destinations, ListKey(r, d) \/ ListState(r, d) PROVE SweepInv'
      <3>1. UNCHANGED <<instances, sweep, made>>
        BY <2>2 DEF ListKey, ListState
      <3> QED
        BY <1>1, <2>2, <3>1, QuietRequest
    <2> QED
      BY <1>1, <1>10, <2>1, <2>2, SweepInvLookup, SweepInvAct DEF Answers
  <1>11. CASE UNCHANGED vars
    BY <1>1, <1>11, QuietMain DEF vars
  <1> QED
    BY <1>2, <1>3, <1>4, <1>5, <1>6, <1>7, <1>8, <1>9, <1>10, <1>11 DEF Next

LEMMA SweepInvAlways == Spec => []SweepInv
  BY SweepInvInit, SweepInvStep, PTL DEF Spec

(* start_all and stop_all (instance.rs:168) leave no instance behind, for  *)
(* every number of destinations, instances and requests: one that nobody   *)
(* registered, removed, started or stopped since the sweep passed it is as *)
(* the sweep set it.                                                       *)
THEOREM SweepIsComplete == Spec => []SweepReachesAll
  <1>1. SweepInv => SweepReachesAll
    BY DEF SweepInv
  <1> QED
    BY <1>1, SweepInvAlways, PTL

-----------------------------------------------------------------------------
(* A list is true of every instance it names.  While a request is open it  *)
(* has seen all that there is now; of a destination it has passed it knows *)
(* the name, or has seen that there was none; a row says what it has seen. *)
RowSeen(row, was) ==
    IF row.running THEN <<row.name, "running">> \in was
    ELSE <<row.name, "stopped">> \in was \/ <<row.name, "absent">> \in was

ListOK(q, views) ==
    /\ Listing(q) => views \subseteq q.was
    /\ q.pc \in {"none", "keys"} => q.rows = {}
    /\ q.pc = "keys" =>
         \A d \in Destinations \ q.todo : d \in q.keys \/ <<d, "absent">> \in q.was
    /\ q.pc = "states" =>
         /\ \A row \in q.rows : RowSeen(row, q.was)
         /\ \A d \in Destinations \ q.todo :
              <<d, "absent">> \in q.was \/ \E row \in q.rows : row.name = d

ListInv == StopInv /\ \A r \in Requests : ListOK(requests[r], Views(instances, made))

LEMMA ListInvInit == Init => ListInv
  <1> SUFFICES ASSUME Init PROVE ListInv
    OBVIOUS
  <1>1. StopInv
    BY StopInvInit
  <1>2. ASSUME NEW r \in Requests
        PROVE  ListOK(requests[r], Views(instances, made))
    <2>1. requests[r].pc = "none" /\ requests[r].rows = {}
      BY DEF Init, NoRequest
    <2>2. QED
      BY <2>1 DEF ListOK, Listing
  <1>3. QED
    BY <1>1, <1>2 DEF ListInv

(* Feeding, sinking and the start-up's own steps show no observer anything. *)
LEMMA SameViews ==
    ASSUME StopInv, UNCHANGED instances,
           \A i \in DOMAIN made : made'[i].running = made[i].running
    PROVE  Views(instances', made') = Views(instances, made)
  <1>1. \A d \in Destinations : StateOf(instances', made', d) = StateOf(instances, made, d)
    BY DEF StopInv, InstancesOK, StateOf
  <1>2. QED
    BY <1>1 DEF Views

LEMMA ListQuiet ==
    ASSUME ListInv, StopInv', UNCHANGED <<instances, requests>>,
           \A i \in DOMAIN made : made'[i].running = made[i].running
    PROVE  ListInv'
  <1>1. Views(instances', made') = Views(instances, made)
    BY SameViews DEF ListInv
  <1>2. QED
    BY <1>1 DEF ListInv

(* Steps that an observer may see: register, remove, a visit of a sweep, a *)
(* start or stop.  The open requests have seen what there is then.         *)
LEMMA ListWatched ==
    ASSUME ListInv, StopInv', NEW qs, DOMAIN qs = Requests,
           \A r \in Requests : qs[r] = requests[r] \/ qs[r] = Answered,
           requests' = Watched(qs, instances', made')
    PROVE  ListInv'
  <1>1. PICK views : views = Views(instances', made')
    OBVIOUS
  <1>2. \A r \in Requests :
          requests'[r] = IF Listing(qs[r]) THEN [qs[r] EXCEPT !.was = qs[r].was \cup views]
                         ELSE qs[r]
    BY <1>1 DEF Watched
  <1>3. ASSUME NEW r \in Requests
        PROVE  ListOK(requests'[r], views)
    <2>1. ListOK(requests[r], Views(instances, made)) /\ IsRequest(requests[r])
      BY DEF ListInv, StopInv, RequestsOK
    <2>2. CASE ~ Listing(qs[r])
      <3>1. requests'[r] = qs[r]
        BY <1>2, <2>2
      <3>2. qs[r].pc = "none" => qs[r].rows = {}
        BY <2>1, AnsweredIsRequest DEF ListOK
      <3>3. QED
        BY <2>2, <3>1, <3>2 DEF ListOK, Listing
    <2>3. CASE Listing(qs[r])
      <3>1. qs[r] = requests[r]
        BY <2>3, AnsweredIsRequest DEF Listing
      <3>2. PICK q, w : q = requests[r] /\ w = [q EXCEPT !.was = q.was \cup views]
        OBVIOUS
      <3>3. requests'[r] = w
        BY <1>2, <2>3, <3>1, <3>2
      <3>4. /\ w.pc = q.pc /\ w.todo = q.todo /\ w.keys = q.keys /\ w.rows = q.rows
            /\ w.was = q.was \cup views
        BY <2>1, <3>2 DEF IsRequest
      <3>5. \A row : RowSeen(row, q.was) => RowSeen(row, w.was)
        BY <3>4 DEF RowSeen
      <3>6. ListOK(q, Views(instances, made))
        BY <2>1, <3>2
      <3>7. ListOK(w, views)
        BY <3>4, <3>5, <3>6 DEF ListOK, Listing
      <3>8. QED
        BY <3>3, <3>7
    <2>4. QED
      BY <2>2, <2>3
  <1>4. QED
    BY <1>1, <1>3 DEF ListInv

(* A request takes a step of its own.                                      *)
LEMMA ListOwn ==
    ASSUME ListInv, StopInv', UNCHANGED <<instances, made>>,
           NEW r \in Requests, NEW q, ListOK(q, Views(instances, made)),
           requests' = [requests EXCEPT ![r] = q]
    PROVE  ListInv'
  BY DEF ListInv, StopInv, RequestsOK

LEMMA ListKeyKeeps ==
    ASSUME ListInv, StopInv', NEW r \in Requests, NEW d \in Destinations, ListKey(r, d)
    PROVE  ListInv'
  <1>1. PICK q, views : q = requests[r] /\ views = Views(instances, made)
    OBVIOUS
  <1>2. PICK keys : keys = IF instances[d] = Null THEN q.keys ELSE q.keys \cup {d}
    OBVIOUS
  <1>3. PICK w, x : /\ w = [q EXCEPT !.keys = keys, !.todo = keys, !.pc = "states"]
                    /\ x = [q EXCEPT !.keys = keys, !.todo = q.todo \ {d}]
    OBVIOUS
  <1>4. /\ q.pc = "keys" /\ UNCHANGED <<instances, made>>
        /\ requests' = [requests EXCEPT ![r] = IF q.todo = {d} THEN w ELSE x]
    BY <1>1, <1>2, <1>3 DEF ListKey
  <1>5. IsRequest(q) /\ ListOK(q, views)
    BY <1>1 DEF ListInv, StopInv, RequestsOK
  <1>6. /\ w.pc = "states" /\ w.keys = keys /\ w.todo = keys /\ w.rows = q.rows /\ w.was = q.was
        /\ x.pc = "keys" /\ x.keys = keys /\ x.todo = q.todo \ {d} /\ x.rows = q.rows
        /\ x.was = q.was
    BY <1>3, <1>4, <1>5 DEF IsRequest
  <1>7. /\ views \subseteq q.was /\ q.rows = {}
        /\ \A e \in Destinations \ q.todo : e \in q.keys \/ <<e, "absent">> \in q.was
    BY <1>4, <1>5 DEF ListOK, Listing
  <1>8. d \in keys \/ <<d, "absent">> \in q.was
    <2>1. instances[d] = Null => StateOf(instances, made, d) = "absent"
      BY DEF StateOf
    <2>2. <<d, StateOf(instances, made, d)>> \in views
      BY <1>1 DEF Views
    <2>3. QED
      BY <1>2, <1>7, <2>1, <2>2
  <1>9. \A e \in q.keys : e \in keys
    BY <1>2
  <1>10. \A e \in Destinations \ (q.todo \ {d}) : e \in keys \/ <<e, "absent">> \in q.was
    BY <1>7, <1>8, <1>9
  <1>11. ListOK(x, views)
    BY <1>6, <1>7, <1>10 DEF ListOK, Listing
  <1>12. q.todo = {d} => ListOK(w, views)
    BY <1>6, <1>7, <1>10 DEF ListOK, Listing
  <1>13. QED
    BY <1>1, <1>4, <1>11, <1>12, ListOwn

LEMMA ListStateKeeps ==
    ASSUME ListInv, StopInv', NEW r \in Requests, NEW d \in Destinations, ListState(r, d)
    PROVE  ListInv'
  <1>1. PICK q, views : q = requests[r] /\ views = Views(instances, made)
    OBVIOUS
  <1>2. PICK row : row = [name |-> d, running |-> IsRunning(d)]
    OBVIOUS
  <1>3. PICK w : w = [q EXCEPT !.rows = q.rows \cup {row}, !.todo = q.todo \ {d}]
    OBVIOUS
  <1>4. /\ q.pc = "states" /\ UNCHANGED <<instances, made>>
        /\ requests' = [requests EXCEPT ![r] = w]
    BY <1>1, <1>2, <1>3 DEF ListState
  <1>5. IsRequest(q) /\ ListOK(q, views)
    BY <1>1 DEF ListInv, StopInv, RequestsOK
  <1>6. /\ w.pc = "states" /\ w.rows = q.rows \cup {row} /\ w.todo = q.todo \ {d}
        /\ w.was = q.was
    BY <1>3, <1>4, <1>5 DEF IsRequest
  <1>7. /\ views \subseteq q.was /\ \A s \in q.rows : RowSeen(s, q.was)
        /\ \A e \in Destinations \ q.todo :
             <<e, "absent">> \in q.was \/ \E s \in q.rows : s.name = e
    BY <1>4, <1>5 DEF ListOK, Listing
  <1>8. RowSeen(row, q.was) /\ row.name = d
    <2>1. row.name = d /\ row.running = (StateOf(instances, made, d) = "running")
      BY <1>2 DEF IsRunning
    <2>2. StateOf(instances, made, d) \in {"absent", "running", "stopped"}
      BY DEF StateOf
    <2>3. <<d, StateOf(instances, made, d)>> \in q.was
      BY <1>1, <1>7 DEF Views
    <2>4. QED
      BY <2>1, <2>2, <2>3 DEF RowSeen
  <1>9. ListOK(w, views)
    <2>1. \A s \in w.rows : RowSeen(s, w.was)
      BY <1>6, <1>7, <1>8
    <2>2. ASSUME NEW e \in Destinations \ w.todo
          PROVE  <<e, "absent">> \in w.was \/ \E s \in w.rows : s.name = e
      BY <1>6, <1>7, <1>8
    <2>3. QED
      BY <1>6, <1>7, <2>1, <2>2 DEF ListOK, Listing
  <1>10. QED
    BY <1>1, <1>4, <1>9, ListOwn

LEMMA ListAskKeeps ==
    ASSUME ListInv, StopInv', NEW r \in Requests, NEW kind, NEW d \in Destinations, NEW h,
           Ask(r, kind, d, h)
    PROVE  ListInv'
  <1>1. PICK q, views : q = requests[r] /\ views = Views(instances, made)
    OBVIOUS
  <1>2. PICK w, x : /\ w = [q EXCEPT !.pc = "keys", !.kind = kind, !.todo = Destinations,
                                     !.was = views]
                    /\ x = [q EXCEPT !.pc = "lookup", !.kind = kind, !.dest = d]
    OBVIOUS
  <1>3. /\ q.pc = "none" /\ UNCHANGED <<instances, made>>
        /\ requests' = [requests EXCEPT ![r] = IF kind = "list" THEN w ELSE x]
    BY <1>1, <1>2 DEF Ask
  <1>4. IsRequest(q) /\ q.rows = {}
    BY <1>1, <1>3 DEF ListInv, ListOK, StopInv, RequestsOK
  <1>5. /\ w.pc = "keys" /\ w.todo = Destinations /\ w.was = views /\ w.rows = {}
        /\ x.pc = "lookup"
    BY <1>2, <1>4 DEF IsRequest
  <1>6. ListOK(w, views) /\ ListOK(x, views)
    BY <1>5 DEF ListOK, Listing
  <1>7. QED
    BY <1>1, <1>3, <1>6, ListOwn

(* Lookup and ListAnswer: the request is not, or no longer, a list.        *)
LEMMA ListRequestKeeps ==
    ASSUME ListInv, StopInv', NEW r \in Requests, Lookup(r) \/ ListAnswer(r)
    PROVE  ListInv'
  <1>1. ASSUME NEW q, q.pc = "found" \/ q.pc = "answered", UNCHANGED <<instances, made>>,
               requests' = [requests EXCEPT ![r] = q]
        PROVE  ListInv'
    <2>1. ListOK(q, Views(instances, made))
      BY <1>1 DEF ListOK, Listing
    <2>2. QED
      BY <1>1, <2>1, ListOwn
  <1>2. CASE ListAnswer(r)
    <2>1. PICK a : a = Answered
      OBVIOUS
    <2>2. (a.pc = "found" \/ a.pc = "answered") /\ UNCHANGED <<instances, made>>
          /\ requests' = [requests EXCEPT ![r] = a]
      BY <1>2, <2>1, AnsweredIsRequest DEF ListAnswer
    <2>3. QED
      BY <1>1, <2>2
  <1>3. CASE Lookup(r)
    <2>1. PICK q, i : q = requests[r] /\ i = instances[q.dest]
      OBVIOUS
    <2>2. PICK w : w = [q EXCEPT !.pc = "found", !.found = i]
      OBVIOUS
    <2>3. /\ requests' = [requests EXCEPT ![r] = IF i = Null THEN Answered ELSE w]
          /\ UNCHANGED <<instances, made>>
      BY <1>3, <2>1, <2>2 DEF Lookup, LookedUp
    <2>4. w.pc = "found"
      <3>1. IsRequest(q)
        BY <2>1 DEF ListInv, StopInv, RequestsOK
      <3>2. QED
        BY <2>2, <3>1 DEF IsRequest
    <2>5. PICK a : a = IF i = Null THEN Answered ELSE w
      OBVIOUS
    <2>6. (a.pc = "found" \/ a.pc = "answered")
      BY <2>4, <2>5, AnsweredIsRequest
    <2>7. requests' = [requests EXCEPT ![r] = a]
      BY <2>3, <2>5
    <2>8. QED
      BY <1>1, <2>3, <2>6, <2>7
  <1>4. QED
    BY <1>2, <1>3

(* Feed, the sink and the feeder's task leave the flags alone.             *)
LEMMA FlagsStay ==
    ASSUME StopInv,
           \/ \E i \in DOMAIN made, b \in Batches : Feed(i, b)
           \/ \E i \in DOMAIN made : Sink(i)
           \/ \E d \in Destinations : spawn_feeder(d)
           \/ FeederEnds
    PROVE  \A i \in DOMAIN made : made'[i].running = made[i].running
  <1>1. \A i \in DOMAIN made : IsInstance(made[i])
    BY DEF StopInv, MadeOK
  <1>2. ASSUME NEW i \in DOMAIN made, NEW v, v.running = made[i].running,
               made' = [made EXCEPT ![i] = v]
        PROVE  \A k \in DOMAIN made : made'[k].running = made[k].running
    BY <1>2
  <1>3. ASSUME NEW i \in DOMAIN made, NEW b \in Batches, Feed(i, b)
        PROVE  \A k \in DOMAIN made : made'[k].running = made[k].running
    <2>1. PICK v : v = [made[i] EXCEPT !.feeding = b, !.accepted = made[i].accepted \o b]
      OBVIOUS
    <2>2. v.running = made[i].running
      BY <1>1, <2>1 DEF IsInstance
    <2>3. made' = made \/ made' = [made EXCEPT ![i] = v]
      BY <1>3, <2>1 DEF Feed
    <2>4. QED
      BY <1>2, <2>2, <2>3
  <1>4. ASSUME NEW i \in DOMAIN made, Sink(i)
        PROVE  \A k \in DOMAIN made : made'[k].running = made[k].running
    <2>1. PICK x, s, l : /\ x = made[i]
                         /\ s = x.store \o Filtered(with_blacklist(x.filter), x.feeding)
                         /\ l = IF x.stopped THEN x.late + 1 ELSE x.late
      OBVIOUS
    <2>2. PICK v : v = [x EXCEPT !.store = s, !.feeding = <<>>, !.late = l]
      OBVIOUS
    <2>3. made' = [made EXCEPT ![i] = v]
      BY <1>4, <2>1, <2>2 DEF Sink
    <2>4. v.running = made[i].running
      BY <1>1, <2>1, <2>2 DEF IsInstance
    <2>5. QED
      BY <1>2, <2>3, <2>4
  <1>5. ASSUME NEW i \in DOMAIN made, NEW b, made' = [made EXCEPT ![i].feeder = b]
        PROVE  \A k \in DOMAIN made : made'[k].running = made[k].running
    <2>1. PICK v : v = [made[i] EXCEPT !.feeder = b]
      OBVIOUS
    <2>2. v.running = made[i].running
      BY <1>1, <2>1 DEF IsInstance
    <2>3. QED
      BY <1>2, <1>5, <2>1, <2>2
  <1>6. ASSUME NEW d \in Destinations, spawn_feeder(d)
        PROVE  \A k \in DOMAIN made : made'[k].running = made[k].running
    BY <1>5, <1>6 DEF spawn_feeder, StopInv, InstancesOK
  <1>7. CASE FeederEnds
    BY <1>5, <1>7, OperationsAssumption DEF FeederEnds, StopInv, InstancesOK
  <1>8. QED
    BY <1>3, <1>4, <1>6, <1>7

LEMMA ListInvStep == ListInv /\ [Next]_vars => ListInv'
  <1> SUFFICES ASSUME ListInv, [Next]_vars PROVE ListInv'
    OBVIOUS
  <1>1. StopInv /\ StopInv' /\ DOMAIN requests = Requests
    BY StopInvStep DEF ListInv, StopInv, RequestsOK
  <1>2. CASE UNCHANGED <<instances, requests, made>>
    BY <1>1, <1>2, ListQuiet
  <1>3. ASSUME requests' = Watched(requests, instances', made')
        PROVE  ListInv'
    BY <1>1, <1>3, ListWatched
  <1>4. ASSUME UNCHANGED <<instances, requests>>,
               \/ \E i \in DOMAIN made, b \in Batches : Feed(i, b)
               \/ \E i \in DOMAIN made : Sink(i)
               \/ \E d \in Destinations : spawn_feeder(d)
               \/ FeederEnds
        PROVE  ListInv'
    BY <1>1, <1>4, FlagsStay, ListQuiet
  <1>5. CASE program = "server" /\ RunServer
    <2>1. CASE ReadConfig \/ StartAll \/ SetGauge \/ Fails \/ ServeReturns \/ WaitEnds
      BY <1>2, <2>1 DEF ReadConfig, StartAll, SetGauge, Fails, ServeReturns, WaitEnds
    <2>2. CASE MakeInstance
      BY <1>3, <2>2 DEF MakeInstance, register
    <2>3. CASE \/ Listen("metrics", "metrics", config.metrics_bind)
               \/ Listen("admin", "admin", resolve_admin_bind(config))
               \/ Listen("bind_server", "server", config.bind)
      BY <1>2, <2>3 DEF Listen
    <2>4. CASE SpawnFeeder
      BY <1>4, <2>4, OperationsAssumption DEF SpawnFeeder
    <2>5. QED
      BY <1>5, <2>1, <2>2, <2>3, <2>4 DEF RunServer
  <1>6. CASE AcceptFails \/ Sigint
    BY <1>2, <1>6 DEF AcceptFails, Sigint
  <1>7. CASE FeederEnds
    BY <1>4, <1>7 DEF FeederEnds
  <1>8. CASE Embedder
    <2>1. ASSUME NEW d \in Destinations, NEW f \in Filters, register(d, f) PROVE ListInv'
      BY <1>3, <2>1 DEF register
    <2>2. ASSUME NEW d \in Destinations, remove(d) PROVE ListInv'
      BY <1>3, <2>2 DEF remove
    <2>3. ASSUME NEW d \in Fed, spawn_feeder(d), UNCHANGED <<instances, sweep, requests>>
          PROVE  ListInv'
      BY <1>4, <2>3, OperationsAssumption
    <2>4. QED
      BY <1>2, <1>8, <2>1, <2>2, <2>3 DEF Embedder
  <1>9. ASSUME NEW d \in Destinations, Visit(d) PROVE ListInv'
    BY <1>3, <1>9 DEF Visit
  <1>10. ASSUME NEW i \in DOMAIN made, NEW b \in Batches, Feed(i, b) PROVE ListInv'
    BY <1>4, <1>10 DEF Feed
  <1>11. ASSUME NEW i \in DOMAIN made, Sink(i) PROVE ListInv'
    BY <1>4, <1>11 DEF Sink
  <1>12. ASSUME NEW r \in Requests, NEW d \in Destinations, NEW h \in Headers,
                NEW kind \in Kinds[r], Ask(r, kind, d, h)
         PROVE  ListInv'
    BY <1>1, <1>12, ListAskKeeps
  <1>13. ASSUME NEW r \in Requests, Act(r) PROVE ListInv'
    <2>1. PICK qs : qs = [requests EXCEPT ![r] = Answered]
      OBVIOUS
    <2>2. requests' = Watched(qs, instances', made')
      BY <1>13, <2>1 DEF Act
    <2>3. DOMAIN qs = Requests /\ \A s \in Requests : qs[s] = requests[s] \/ qs[s] = Answered
      BY <1>1, <2>1
    <2>4. QED
      BY <1>1, <2>2, <2>3, ListWatched
  <1>14. ASSUME NEW r \in Requests, Answers(r) PROVE ListInv'
    BY <1>1, <1>13, <1>14, ListRequestKeeps, ListKeyKeeps, ListStateKeeps DEF Answers
  <1>15. CASE UNCHANGED vars
    BY <1>2, <1>15 DEF vars
  <1>16. QED
    BY <1>5, <1>6, <1>7, <1>8, <1>9, <1>10, <1>11, <1>12, <1>14, <1>15 DEF Next

(* GET /api/instances (lib.rs:222): for every number of destinations and   *)
(* requests, and whatever is registered, removed, started, stopped and     *)
(* swept meanwhile, a row was true at some moment of the request, and a    *)
(* destination that had an instance all the time has its row.              *)
THEOREM ListIsCorrect == Spec => []ListIsTrue
  <1>1. ASSUME ListInv
        PROVE  ListIsTrue
    <2>1. SUFFICES ASSUME NEW r \in Requests, requests[r].pc = "states"
                   PROVE  /\ \A row \in requests[r].rows :
                               IF row.running THEN <<row.name, "running">> \in requests[r].was
                               ELSE requests[r].was
                                      \cap {<<row.name, "stopped">>, <<row.name, "absent">>} # {}
                          /\ \A d \in Destinations \ requests[r].todo :
                               <<d, "absent">> \notin requests[r].was =>
                                 \E row \in requests[r].rows : row.name = d
      BY DEF ListIsTrue
    <2>2. ListOK(requests[r], Views(instances, made))
      BY <1>1 DEF ListInv
    <2>3. QED
      BY <2>1, <2>2 DEF ListOK, RowSeen
  <1>2. Spec => []ListInv
    BY ListInvInit, ListInvStep, PTL DEF Spec
  <1>3. QED
    BY <1>1, <1>2, PTL

-----------------------------------------------------------------------------
(* What an instance stores.  The tables that its sink lets through are     *)
(* those its patterns say, and its store is what that leaves of all it has *)
(* accepted but the batch that is between the check of feed and the sink.  *)
LEMMA PatternsApply ==
    ASSUME NEW f, with_blacklist(f) # Null, NEW batch
    PROVE  Filtered(with_blacklist(f), batch) = Kept(batch, Wanted(f))
  <1>1. PICK p, b : p = PatternTables[f.pattern] /\ b = PatternTables[f.black_list]
    OBVIOUS
  <1>2. with_blacklist(f) =
          [include |-> p, exclude |-> IF f.black_list = EmptyPattern THEN {} ELSE b]
    BY <1>1 DEF with_blacklist
  <1>3. matches(with_blacklist(f)) = Wanted(f)
    BY <1>1, <1>2 DEF matches, Wanted
  <1>4. QED
    BY <1>3 DEF Filtered

Sunk(x) ==
    /\ with_blacklist(x.filter) # Null
    /\ x.feeding \in Seq(Tables)
    /\ \E s \in Seq(Tables) : /\ x.accepted = s \o x.feeding
                              /\ x.store = Kept(s, Wanted(x.filter))

StoreInv == StopInv /\ \A i \in DOMAIN made : Sunk(made[i])

(* An instance made by a step, or changed by one.                          *)
LEMMA SunkNew ==
    ASSUME NEW f, with_blacklist(f) # Null
    PROVE  Sunk(NewInstance(f))
  <1>1. PICK x : x = NewInstance(f)
    OBVIOUS
  <1>2. /\ x.filter = f /\ x.feeding = <<>> /\ x.accepted = <<>> /\ x.store = <<>>
    BY <1>1 DEF NewInstance
  <1>3. /\ <<>> \in Seq(Tables) /\ <<>> \o <<>> = <<>>
    OBVIOUS
  <1>4. Kept(<<>>, Wanted(f)) = <<>>
    BY KeptEmpty
  <1>5. Sunk(x)
    BY <1>2, <1>3, <1>4 DEF Sunk
  <1>6. QED
    BY <1>1, <1>5

LEMMA SunkSame ==
    ASSUME NEW x, Sunk(x), NEW v, v.filter = x.filter, v.feeding = x.feeding,
           v.accepted = x.accepted, v.store = x.store
    PROVE  Sunk(v)
  BY DEF Sunk

LEMMA SunkFeed ==
    ASSUME NEW x, Sunk(x), x.feeding = <<>>, NEW batch \in Seq(Tables), NEW v,
           v.filter = x.filter, v.feeding = batch, v.accepted = x.accepted \o batch,
           v.store = x.store
    PROVE  Sunk(v)
  <1>1. PICK s \in Seq(Tables) : x.accepted = s \o <<>> /\ x.store = Kept(s, Wanted(x.filter))
    BY DEF Sunk
  <1>2. s \o <<>> = s
    BY ConcatEmptySeq
  <1>3. v.accepted = s \o v.feeding
    BY <1>1, <1>2
  <1>4. QED
    BY <1>1, <1>3 DEF Sunk

LEMMA SunkSink ==
    ASSUME NEW x, Sunk(x), NEW v, v.filter = x.filter, v.feeding = <<>>,
           v.accepted = x.accepted,
           v.store = x.store \o Filtered(with_blacklist(x.filter), x.feeding)
    PROVE  Sunk(v)
  <1>1. PICK s \in Seq(Tables) : x.accepted = s \o x.feeding
                                 /\ x.store = Kept(s, Wanted(x.filter))
    BY DEF Sunk
  <1>2. PICK b, t : b = x.feeding /\ t = s \o b
    OBVIOUS
  <1>3. b \in Seq(Tables) /\ t \in Seq(Tables) /\ t \o <<>> = t
    <2>1. b \in Seq(Tables)
      BY <1>2 DEF Sunk
    <2>2. t \in Seq(Tables)
      BY <1>2, <2>1, ConcatProperties
    <2>3. QED
      BY <2>1, <2>2, ConcatEmptySeq
  <1>4. Filtered(with_blacklist(x.filter), b) = Kept(b, Wanted(x.filter))
    BY PatternsApply DEF Sunk
  <1>5. Kept(t, Wanted(x.filter)) = Kept(s, Wanted(x.filter)) \o Kept(b, Wanted(x.filter))
    BY <1>2, <1>3, KeptConcat
  <1>6. v.accepted = t \o v.feeding /\ v.store = Kept(t, Wanted(x.filter))
    BY <1>1, <1>2, <1>3, <1>4, <1>5
  <1>7. <<>> \in Seq(Tables)
    OBVIOUS
  <1>8. QED
    BY <1>3, <1>6, <1>7 DEF Sunk

(* The steps, by what they do to the instances.                            *)
LEMMA StoreQuiet ==
    ASSUME StoreInv, StopInv', UNCHANGED made
    PROVE  StoreInv'
  BY DEF StoreInv

LEMMA StoreChanged ==
    ASSUME StoreInv, StopInv', NEW i \in DOMAIN made, NEW v, Sunk(v),
           made' = [made EXCEPT ![i] = v]
    PROVE  StoreInv'
  BY DEF StoreInv

LEMMA StoreRegister ==
    ASSUME StoreInv, StopInv', NEW d, NEW f, with_blacklist(f) # Null, register(d, f)
    PROVE  StoreInv'
  <1>1. PICK x : x = NewInstance(f) /\ Sunk(x)
    BY SunkNew
  <1>2. PICK S : made \in Seq(S)
    BY DEF StoreInv, StopInv, MadeOK
  <1>3. made' = Append(made, x)
    BY <1>1 DEF register
  <1>4. /\ DOMAIN made = 1 .. Len(made) /\ Len(made) \in Nat
        /\ DOMAIN made' = 1 .. Len(made) + 1
        /\ \A k \in DOMAIN made' : made'[k] = IF k = Len(made) + 1 THEN x ELSE made[k]
    BY <1>2, <1>3
  <1>5. \A k \in DOMAIN made' : Sunk(made'[k])
    BY <1>1, <1>4 DEF StoreInv
  <1>6. QED
    BY <1>5 DEF StoreInv

(* The operator's word, a sweep and the feeder's task.                     *)
LEMMA FieldsStay ==
    ASSUME NEW x, IsInstance(x), NEW v,
           \/ \E a, b : v = [x EXCEPT !.running = a, !.stopped = b, !.late = 0]
           \/ \E a : v = [x EXCEPT !.feeder = a]
    PROVE  /\ v.filter = x.filter /\ v.feeding = x.feeding /\ v.accepted = x.accepted
           /\ v.store = x.store
  BY DEF IsInstance

LEMMA StoreInstanceStep ==
    ASSUME StoreInv, StopInv', NEW i \in DOMAIN made, NEW v,
           \/ \E a, b : v = [made[i] EXCEPT !.running = a, !.stopped = b, !.late = 0]
           \/ \E a : v = [made[i] EXCEPT !.feeder = a],
           made' = [made EXCEPT ![i] = v]
    PROVE  StoreInv'
  <1>1. PICK x : x = made[i]
    OBVIOUS
  <1>2. IsInstance(x) /\ Sunk(x)
    BY <1>1 DEF StoreInv, StopInv, MadeOK
  <1>3. /\ v.filter = x.filter /\ v.feeding = x.feeding /\ v.accepted = x.accepted
        /\ v.store = x.store
    BY <1>1, <1>2, FieldsStay
  <1>4. Sunk(v)
    BY <1>2, <1>3, SunkSame
  <1>5. QED
    BY <1>4, StoreChanged

LEMMA StoreFeed ==
    ASSUME StoreInv, StopInv', NEW i \in DOMAIN made, NEW b \in Batches, Feed(i, b)
    PROVE  StoreInv'
  <1>1. PICK x : x = made[i]
    OBVIOUS
  <1>2. IsInstance(x) /\ Sunk(x) /\ b \in Seq(Tables) /\ x.feeding = <<>>
    BY <1>1, OperationsAssumption DEF StoreInv, StopInv, MadeOK, Feed
  <1>3. PICK a : a = x.accepted \o b
    OBVIOUS
  <1>4. PICK v : v = [x EXCEPT !.feeding = b, !.accepted = a]
    OBVIOUS
  <1>5. v.filter = x.filter /\ v.feeding = b /\ v.accepted = a /\ v.store = x.store
    BY <1>2, <1>4 DEF IsInstance
  <1>6. Sunk(v)
    BY <1>2, <1>3, <1>5, SunkFeed
  <1>7. made' = made \/ made' = [made EXCEPT ![i] = v]
    BY <1>1, <1>3, <1>4 DEF Feed
  <1>8. QED
    BY <1>6, <1>7, StoreChanged, StoreQuiet

LEMMA StoreSink ==
    ASSUME StoreInv, StopInv', NEW i \in DOMAIN made, Sink(i)
    PROVE  StoreInv'
  <1>1. PICK x, s, l : /\ x = made[i]
                       /\ s = x.store \o Filtered(with_blacklist(x.filter), x.feeding)
                       /\ l = IF x.stopped THEN x.late + 1 ELSE x.late
    OBVIOUS
  <1>2. PICK v : v = [x EXCEPT !.store = s, !.feeding = <<>>, !.late = l]
    OBVIOUS
  <1>3. IsInstance(x) /\ Sunk(x)
    BY <1>1 DEF StoreInv, StopInv, MadeOK
  <1>4. v.filter = x.filter /\ v.feeding = <<>> /\ v.accepted = x.accepted /\ v.store = s
    BY <1>2, <1>3 DEF IsInstance
  <1>5. Sunk(v)
    BY <1>1, <1>3, <1>4, SunkSink
  <1>6. made' = [made EXCEPT ![i] = v]
    BY <1>1, <1>2 DEF Sink
  <1>7. QED
    BY <1>5, <1>6, StoreChanged

LEMMA StoreVisit ==
    ASSUME StoreInv, StopInv', NEW d \in Destinations, Visit(d)
    PROVE  StoreInv'
  <1>1. PICK i, a, b : /\ i = instances[d] /\ a = sweep.flag
                       /\ b = IF program = "embedded" THEN ~ sweep.flag ELSE made[i].stopped
    <2>1. PICK i, a : i = instances[d] /\ a = sweep.flag
      OBVIOUS
    <2>2. PICK b : b = IF program = "embedded" THEN ~ sweep.flag ELSE made[i].stopped
      OBVIOUS
    <2>3. QED
      BY <2>1, <2>2
  <1>2. PICK v : v = [made[i] EXCEPT !.running = a, !.stopped = b, !.late = 0]
    OBVIOUS
  <1>3. made' = IF i = Null THEN made ELSE [made EXCEPT ![i] = v]
    BY <1>1, <1>2 DEF Visit
  <1>4. i # Null => i \in DOMAIN made
    BY <1>1 DEF StoreInv, StopInv, InstancesOK
  <1>5. QED
    BY <1>2, <1>3, <1>4, StoreInstanceStep, StoreQuiet

LEMMA StoreAct ==
    ASSUME StoreInv, StopInv', NEW r \in Requests, Act(r)
    PROVE  StoreInv'
  <1>1. PICK q, a, b : q = requests[r] /\ a = (q.kind = "start") /\ b = (q.kind = "stop")
    OBVIOUS
  <1>2. PICK i : i = q.found
    OBVIOUS
  <1>3. i \in DOMAIN made
    BY <1>1, <1>2 DEF StoreInv, StopInv, RequestsOK, Act
  <1>4. PICK v : v = [made[i] EXCEPT !.running = a, !.stopped = b, !.late = 0]
    OBVIOUS
  <1>5. made' = [made EXCEPT ![i] = v]
    BY <1>1, <1>2, <1>4 DEF Act
  <1>6. QED
    BY <1>3, <1>4, <1>5, StoreInstanceStep

LEMMA StoreFeeder ==
    ASSUME StoreInv, StopInv', NEW i \in DOMAIN made, NEW a,
           made' = [made EXCEPT ![i].feeder = a]
    PROVE  StoreInv'
  <1>1. PICK v : v = [made[i] EXCEPT !.feeder = a]
    OBVIOUS
  <1>2. made' = [made EXCEPT ![i] = v]
    BY <1>1
  <1>3. QED
    BY <1>1, <1>2, StoreInstanceStep

LEMMA StoreSpawn ==
    ASSUME StoreInv, StopInv', (\E d \in Destinations : spawn_feeder(d)) \/ FeederEnds
    PROVE  StoreInv'
  <1>1. ASSUME NEW d \in Destinations, spawn_feeder(d)
        PROVE  StoreInv'
    BY <1>1, StoreFeeder DEF spawn_feeder, StoreInv, StopInv, InstancesOK
  <1>2. CASE FeederEnds
    BY <1>2, StoreFeeder, OperationsAssumption DEF FeederEnds, StoreInv, StopInv, InstancesOK
  <1>3. QED
    BY <1>1, <1>2

LEMMA StoreInvStep == StoreInv /\ [Next]_vars => StoreInv'
  <1> SUFFICES ASSUME StoreInv, [Next]_vars PROVE StoreInv'
    OBVIOUS
  <1>1. StopInv'
    BY StopInvStep DEF StoreInv
  <1>2. CASE UNCHANGED made
    BY <1>1, <1>2, StoreQuiet
  <1>3. CASE program = "server" /\ RunServer
    <2>1. CASE \/ ReadConfig \/ StartAll \/ SetGauge \/ Fails \/ ServeReturns \/ WaitEnds
               \/ Listen("metrics", "metrics", config.metrics_bind)
               \/ Listen("admin", "admin", resolve_admin_bind(config))
               \/ Listen("bind_server", "server", config.bind)
      BY <1>2, <2>1 DEF ReadConfig, StartAll, SetGauge, Fails, ServeReturns, WaitEnds, Listen
    <2>2. CASE MakeInstance
      <3>1. with_blacklist(config.filter) # Null /\ register("default", config.filter)
        BY <2>2 DEF MakeInstance, At, CanDo
      <3>2. QED
        BY <1>1, <3>1, StoreRegister
    <2>3. CASE SpawnFeeder
      BY <1>1, <2>3, StoreSpawn, OperationsAssumption DEF SpawnFeeder
    <2>4. QED
      BY <1>3, <2>1, <2>2, <2>3 DEF RunServer
  <1>4. CASE AcceptFails \/ Sigint
    BY <1>2, <1>4 DEF AcceptFails, Sigint
  <1>5. CASE FeederEnds
    BY <1>1, <1>5, StoreSpawn
  <1>6. CASE Embedder
    <2>1. ASSUME NEW d \in Destinations, NEW f \in Filters, with_blacklist(f) # Null,
                 register(d, f)
          PROVE  StoreInv'
      BY <1>1, <2>1, StoreRegister
    <2>2. ASSUME NEW d \in Fed, spawn_feeder(d)
          PROVE  StoreInv'
      BY <1>1, <2>2, StoreSpawn, OperationsAssumption
    <2>3. ASSUME NEW d \in Destinations, remove(d)
          PROVE  StoreInv'
      BY <1>2, <2>3 DEF remove
    <2>4. QED
      BY <1>2, <1>6, <2>1, <2>2, <2>3 DEF Embedder
  <1>7. ASSUME NEW d \in Destinations, Visit(d) PROVE StoreInv'
    BY <1>1, <1>7, StoreVisit
  <1>8. ASSUME NEW i \in DOMAIN made, NEW b \in Batches, Feed(i, b) PROVE StoreInv'
    BY <1>1, <1>8, StoreFeed
  <1>9. ASSUME NEW i \in DOMAIN made, Sink(i) PROVE StoreInv'
    BY <1>1, <1>9, StoreSink
  <1>10. ASSUME NEW r \in Requests, NEW d \in Destinations, NEW h \in Headers,
                NEW kind \in Kinds[r], Ask(r, kind, d, h)
         PROVE  StoreInv'
    BY <1>2, <1>10 DEF Ask
  <1>11. ASSUME NEW r \in Requests, Answers(r) PROVE StoreInv'
    BY <1>1, <1>2, <1>11, StoreAct DEF Answers, Lookup, ListAnswer, ListKey, ListState
  <1>12. CASE UNCHANGED vars
    BY <1>2, <1>12 DEF vars
  <1>13. QED
    BY <1>3, <1>4, <1>5, <1>6, <1>7, <1>8, <1>9, <1>10, <1>11, <1>12 DEF Next

LEMMA StoreInvInit == Init => StoreInv
  BY StopInvInit DEF Init, StoreInv

(* A batch that has been accepted reaches the store whole but for what the *)
(* patterns exclude, and in its place, whatever becomes of the instance    *)
(* meanwhile (instance.rs:87, sink.rs:149-200).                            *)
THEOREM StoreIsFiltered == Spec => []StoredIsFiltered
  <1>1. ASSUME StoreInv
        PROVE  StoredIsFiltered
    <2>1. SUFFICES ASSUME NEW i \in DOMAIN made, NEW x, x = made[i]
                   PROVE  x.store = Kept(SubSeq(x.accepted, 1, Len(x.accepted) - Len(x.feeding)),
                                         Wanted(x.filter))
      BY DEF StoredIsFiltered
    <2>2. Sunk(x)
      BY <1>1, <2>1 DEF StoreInv
    <2>3. PICK s \in Seq(Tables) : x.accepted = s \o x.feeding
                                   /\ x.store = Kept(s, Wanted(x.filter))
      BY <2>2 DEF Sunk
    <2>4. PICK b : b = x.feeding /\ b \in Seq(Tables)
      BY <2>2 DEF Sunk
    <2>5. SubSeq(s \o b, 1, Len(s \o b) - Len(b)) = s
      <3>1. Len(s \o b) = Len(s) + Len(b) /\ Len(s) \in Nat /\ Len(b) \in Nat
        BY <2>4, ConcatProperties
      <3>2. Len(s \o b) - Len(b) = Len(s)
        BY <3>1
      <3>3. SubSeq(s \o b, 1, Len(s)) = s
        BY <2>4, <3>1
      <3>4. QED
        BY <3>2, <3>3
    <2>6. QED
      BY <2>3, <2>4, <2>5
  <1>2. Spec => []StoreInv
    BY StoreInvInit, StoreInvStep, PTL DEF Spec
  <1>3. QED
    BY <1>1, <1>2, PTL

-----------------------------------------------------------------------------
(* Types.  What is not in StopInv already: that run_server has its bind    *)
(* address once it is past parsing it, so that the Admin API's port, the   *)
(* next one, is a port.                                                    *)
BoundOK ==
    program = "server" =>
        /\ config \in Configs
        /\ main \in {"config", "bind", "exited"} \/ config.bind # Bad

TypeInv == StopInv /\ OperationsTypeOK /\ BoundOK

LEMMA ConfigStays ==
    ASSUME [Next]_vars
    PROVE  UNCHANGED <<program, config, admin_token>>
  <1>1. CASE RunServer
    BY <1>1 DEF RunServer, ReadConfig, MakeInstance, StartAll, SetGauge, Listen, SpawnFeeder,
                Fails, ServeReturns, WaitEnds
  <1>2. CASE AcceptFails \/ Sigint \/ FeederEnds \/ Embedder
    BY <1>2 DEF AcceptFails, Sigint, FeederEnds, Embedder
  <1>3. CASE \/ \E d \in Destinations : Visit(d)
             \/ \E i \in DOMAIN made, b \in Batches : Feed(i, b)
             \/ \E i \in DOMAIN made : Sink(i)
    BY <1>3 DEF Visit, Feed, Sink
  <1>4. CASE \/ \E r \in Requests, d \in Destinations, h \in Headers :
                  \E kind \in Kinds[r] : Ask(r, kind, d, h)
             \/ \E r \in Requests : Answers(r)
    BY <1>4 DEF Ask, Answers, Lookup, Act, ListAnswer, ListKey, ListState
  <1>5. CASE UNCHANGED vars
    BY <1>5 DEF vars
  <1>6. QED
    BY <1>1, <1>2, <1>3, <1>4, <1>5 DEF Next

(* The steps that move main, shutdown, the listeners or the gauge.         *)
MovesMain ==
    \/ program = "server" /\ RunServer
    \/ AcceptFails \/ Sigint \/ FeederEnds

LEMMA OthersStay ==
    ASSUME [Next]_vars, ~ MovesMain
    PROVE  UNCHANGED <<main, shutdown, listening, gauge>>
  <1>1. CASE Embedder
    BY <1>1 DEF Embedder
  <1>2. CASE \/ \E d \in Destinations : Visit(d)
             \/ \E i \in DOMAIN made, b \in Batches : Feed(i, b)
             \/ \E i \in DOMAIN made : Sink(i)
    BY <1>2 DEF Visit, Feed, Sink
  <1>3. CASE \/ \E r \in Requests, d \in Destinations, h \in Headers :
                  \E kind \in Kinds[r] : Ask(r, kind, d, h)
             \/ \E r \in Requests : Answers(r)
    BY <1>3 DEF Ask, Answers, Lookup, Act, ListAnswer, ListKey, ListState
  <1>4. CASE UNCHANGED vars
    BY <1>4 DEF vars
  <1>5. QED
    BY <1>1, <1>2, <1>3, <1>4 DEF Next, MovesMain

(* resolve_admin_bind: the port that was checked, or the one after it.     *)
LEMMA AdminPort ==
    ASSUME NEW c \in Configs, c.bind # Bad, resolve_admin_bind(c) # Bad
    PROVE  resolve_admin_bind(c) \in 1 .. MaxPort
  <1>1. /\ c.bind \in 1 .. MaxPort \cup {Bad}
        /\ c.admin_bind \in 1 .. MaxPort \cup {Bad, Null} /\ MaxPort \in Nat \ {0}
    BY OperationsAssumption
  <1>2. CASE c.admin_bind # Null
    BY <1>1, <1>2 DEF resolve_admin_bind
  <1>3. CASE c.admin_bind = Null
    <2>1. c.bind \in 1 .. MaxPort /\ c.bind # MaxPort
      BY <1>1, <1>3 DEF resolve_admin_bind
    <2>2. c.bind + 1 \in 1 .. MaxPort
      BY <1>1, <2>1
    <2>3. QED
      BY <1>3, <2>1, <2>2 DEF resolve_admin_bind
  <1>4. QED
    BY <1>2, <1>3

Ports == [{"metrics", "admin", "server"} -> 1 .. MaxPort \cup {Null}]

LEMMA ListenPort ==
    ASSUME NEW l \in Ports, NEW k \in {"metrics", "admin", "server"},
           NEW p \in 1 .. MaxPort \cup {Null}
    PROVE  [l EXCEPT ![k] = p] \in Ports
  BY DEF Ports

LEMMA RunningCount == running_count \in 0 .. Cardinality(Destinations)
  <1>1. PICK D : D = {d \in Destinations : StateOf(instances, made, d) = "running"}
    OBVIOUS
  <1>2. D \subseteq Destinations /\ IsFiniteSet(Destinations)
    BY <1>1, OperationsAssumption
  <1>3. IsFiniteSet(D) /\ Cardinality(D) <= Cardinality(Destinations)
    BY <1>2, FS_Subset
  <1>4. Cardinality(D) \in Nat /\ Cardinality(Destinations) \in Nat
    BY <1>2, <1>3, FS_CardinalityType
  <1>5. QED
    BY <1>1, <1>3, <1>4 DEF running_count

LEMMA TypeInvMoves ==
    ASSUME TypeInv, MovesMain, UNCHANGED <<program, config>>
    PROVE  /\ shutdown' \in BOOLEAN /\ listening' \in Ports
           /\ gauge' \in 0 .. Cardinality(Destinations) /\ BoundOK'
  <1>1. /\ shutdown \in BOOLEAN /\ listening \in Ports
        /\ gauge \in 0 .. Cardinality(Destinations) /\ BoundOK
    BY DEF TypeInv, OperationsTypeOK, Ports
  <1>2. program = "server" => config \in Configs
    BY <1>1 DEF BoundOK
  <1>3. CASE program = "server" /\ ReadConfig
    <2>1. UNCHANGED <<shutdown, listening, gauge>>
      BY <1>3 DEF ReadConfig
    <2>2. main' = "bind" \/ config.bind # Bad
      BY <1>3, StepOrder DEF ReadConfig, At, CanDo
    <2>3. QED
      BY <1>1, <1>2, <2>1, <2>2 DEF BoundOK
  <1>4. ASSUME NEW step \in {"metrics", "instance", "start_all", "sweeping", "gauge", "admin",
                             "feeder", "bind_server"},
               program = "server", At(step)
        PROVE  BoundOK' /\ config.bind # Bad
    BY <1>1, <1>2, <1>4 DEF BoundOK, At
  <1>5. CASE program = "server" /\ MakeInstance
    <2>1. UNCHANGED <<shutdown, listening, gauge>> /\ At("instance")
      BY <1>5 DEF MakeInstance
    <2>2. QED
      BY <1>1, <1>4, <1>5, <2>1
  <1>6. CASE program = "server" /\ StartAll
    <2>1. UNCHANGED <<shutdown, listening, gauge>> /\ (At("start_all") \/ At("sweeping"))
      BY <1>6 DEF StartAll
    <2>2. QED
      BY <1>1, <1>4, <1>6, <2>1
  <1>7. CASE program = "server" /\ SetGauge
    <2>1. /\ UNCHANGED <<shutdown, listening>> /\ At("gauge")
          /\ gauge' = running_count
      BY <1>7 DEF SetGauge
    <2>2. QED
      BY <1>1, <1>4, <1>7, <2>1, RunningCount
  <1>8. ASSUME NEW step \in {"metrics", "admin", "bind_server"}, program = "server",
               NEW listener \in {"metrics", "admin", "server"},
               NEW port \in 1 .. MaxPort, Listen(step, listener, port)
        PROVE  /\ shutdown' \in BOOLEAN /\ listening' \in Ports
               /\ gauge' \in 0 .. Cardinality(Destinations) /\ BoundOK'
    <2>1. /\ UNCHANGED <<shutdown, gauge>> /\ At(step)
          /\ listening' = [listening EXCEPT ![listener] = port]
      BY <1>8 DEF Listen
    <2>2. listening' \in Ports
      BY <1>1, <2>1, ListenPort
    <2>3. QED
      BY <1>1, <1>4, <1>8, <2>1, <2>2
  <1>9. CASE program = "server" /\ Listen("metrics", "metrics", config.metrics_bind)
    <2>1. config.metrics_bind \in 1 .. MaxPort \cup {Bad} /\ config.metrics_bind # Bad
      BY <1>2, <1>9, OperationsAssumption DEF Listen, At, CanDo
    <2>2. PICK port : port = config.metrics_bind /\ port \in 1 .. MaxPort
      BY <2>1
    <2>3. QED
      BY <1>8, <1>9, <2>2
  <1>10. CASE program = "server" /\ Listen("admin", "admin", resolve_admin_bind(config))
    <2>1. config.bind # Bad /\ resolve_admin_bind(config) # Bad
      BY <1>4, <1>10 DEF Listen, At, CanDo
    <2>2. PICK port : port = resolve_admin_bind(config) /\ port \in 1 .. MaxPort
      BY <1>2, <1>10, <2>1, AdminPort
    <2>3. QED
      BY <1>8, <1>10, <2>2
  <1>11. CASE program = "server" /\ Listen("bind_server", "server", config.bind)
    <2>1. config.bind # Bad
      BY <1>4, <1>11 DEF Listen
    <2>2. config.bind \in 1 .. MaxPort \cup {Bad}
      BY <1>2, <1>11, OperationsAssumption
    <2>3. PICK port : port = config.bind /\ port \in 1 .. MaxPort
      BY <2>1, <2>2
    <2>4. QED
      BY <1>8, <1>11, <2>3
  <1>12. CASE program = "server" /\ SpawnFeeder
    <2>1. UNCHANGED <<shutdown, listening, gauge>> /\ At("feeder")
      BY <1>12 DEF SpawnFeeder
    <2>2. QED
      BY <1>1, <1>4, <1>12, <2>1
  <1>13. CASE Fails \/ WaitEnds \/ AcceptFails
    <2>1. UNCHANGED <<shutdown, listening, gauge>> /\ main' = "exited"
      BY <1>13 DEF Fails, WaitEnds, AcceptFails
    <2>2. QED
      BY <1>1, <1>2, <2>1 DEF BoundOK
  <1>14. CASE ServeReturns
    <2>1. /\ UNCHANGED <<shutdown, gauge>> /\ main = "serving"
          /\ listening' = [listening EXCEPT !["server"] = Null]
      BY <1>14 DEF ServeReturns
    <2>2. PICK port : port = Null
      OBVIOUS
    <2>3. port \in 1 .. MaxPort \cup {Null}
      BY <2>2
    <2>4. listening' \in Ports
      BY <1>1, <2>1, <2>2, <2>3, ListenPort
    <2>5. QED
      BY <1>1, <1>2, <2>1, <2>4 DEF BoundOK
  <1>15. CASE Sigint
    <2>1. UNCHANGED <<listening, gauge>> /\ (main' = main \/ main' = "exited")
      BY <1>15 DEF Sigint
    <2>2. shutdown' \in BOOLEAN
      BY <1>1, <1>15 DEF Sigint
    <2>3. QED
      BY <1>1, <1>2, <2>1, <2>2 DEF BoundOK
  <1>16. CASE FeederEnds
    <2>1. UNCHANGED <<main, listening, gauge>> /\ shutdown' = TRUE
      BY <1>16 DEF FeederEnds
    <2>2. QED
      BY <1>1, <1>2, <2>1 DEF BoundOK
  <1>17. QED
    BY <1>3, <1>5, <1>6, <1>7, <1>9, <1>10, <1>11, <1>12, <1>13, <1>14, <1>15, <1>16
       DEF MovesMain, RunServer

(* The indices of a sequence tell its length (InstanceManager keeps no     *)
(* gaps among the instances made).                                         *)
LEMMA SameIndices ==
    ASSUME NEW m \in Nat, NEW n \in Nat, 1 .. m = 1 .. n
    PROVE  m = n
  <1>1. \A k \in Int : k \in 1 .. m <=> k \in 1 .. n
    OBVIOUS
  <1>2. m >= 1 => m <= n
    BY <1>1
  <1>3. n >= 1 => n <= m
    BY <1>1
  <1>4. QED
    BY <1>2, <1>3

(* Only register makes an instance.                                        *)
LEMMA MadeLength ==
    ASSUME StopInv, StopInv', [Next]_vars, Len(made) <= MaxInstances
    PROVE  Len(made') <= MaxInstances
  <1>1. PICK S, R : made \in Seq(S) /\ made' \in Seq(R)
    BY DEF StopInv, MadeOK
  <1>2. /\ Len(made) \in Nat /\ Len(made') \in Nat /\ MaxInstances \in Nat
        /\ DOMAIN made = 1 .. Len(made) /\ DOMAIN made' = 1 .. Len(made')
    BY <1>1, OperationsAssumption
  <1>3. ASSUME DOMAIN made' = DOMAIN made
        PROVE  Len(made') = Len(made)
    <2>1. PICK m \in Nat, n \in Nat : m = Len(made) /\ n = Len(made')
      BY <1>2
    <2>2. 1 .. m = 1 .. n
      BY <1>2, <1>3, <2>1
    <2>3. QED
      BY <2>1, <2>2, SameIndices
  <1>4. ASSUME NEW d, NEW f, register(d, f)
        PROVE  Len(made') <= MaxInstances
    <2>1. PICK x : x = NewInstance(f)
      OBVIOUS
    <2>2. made' = Append(made, x) /\ Len(made) < MaxInstances
      BY <1>4, <2>1 DEF register
    <2>3. Len(made') = Len(made) + 1
      BY <1>1, <2>2
    <2>4. QED
      BY <1>2, <2>2, <2>3
  <1>5. CASE RunServer
    BY <1>3, <1>4, <1>5 DEF RunServer, ReadConfig, MakeInstance, StartAll, SetGauge, Listen,
                            SpawnFeeder, spawn_feeder, Fails, ServeReturns, WaitEnds
  <1>6. CASE AcceptFails \/ Sigint \/ FeederEnds
    BY <1>3, <1>6 DEF AcceptFails, Sigint, FeederEnds
  <1>7. CASE Embedder
    BY <1>3, <1>4, <1>7 DEF Embedder, remove, spawn_feeder
  <1>8. ASSUME NEW d \in Destinations, Visit(d)
        PROVE  DOMAIN made' = DOMAIN made
    BY <1>8 DEF Visit
  <1>9. ASSUME NEW i \in DOMAIN made, NEW b, Feed(i, b) \/ Sink(i)
        PROVE  DOMAIN made' = DOMAIN made
    BY <1>9 DEF Feed, Sink
  <1>10. ASSUME NEW r \in Requests, NEW d, NEW h, NEW kind, Ask(r, kind, d, h) \/ Answers(r)
         PROVE  DOMAIN made' = DOMAIN made
    BY <1>10 DEF Ask, Answers, Lookup, Act, ListAnswer, ListKey, ListState
  <1>11. CASE UNCHANGED vars
    BY <1>3, <1>11 DEF vars
  <1>12. QED
    BY <1>3, <1>5, <1>6, <1>7, <1>8, <1>9, <1>10, <1>11 DEF Next

(* A sweep is passed at destinations.                                      *)
LEMMA TouchedType ==
    ASSUME StopInv, [Next]_vars, sweep.touched \subseteq Destinations
    PROVE  sweep'.touched \subseteq Destinations
  <1>1. PICK s : s = sweep
    OBVIOUS
  <1>2. s = [flag |-> s.flag, todo |-> s.todo, touched |-> s.touched, number |-> s.number]
    BY <1>1 DEF StopInv, SweepOK
  <1>3. CASE UNCHANGED sweep
    BY <1>3
  <1>4. ASSUME NEW d \in Destinations, Touched(d)
        PROVE  sweep'.touched \subseteq Destinations
    <2>1. sweep' = [s EXCEPT !.touched = s.touched \cup ({d} \ s.todo)]
      BY <1>1, <1>4 DEF Touched
    <2>2. sweep'.touched = s.touched \cup ({d} \ s.todo)
      BY <1>2, <2>1
    <2>3. QED
      BY <1>1, <2>2
  <1>5. ASSUME NEW flag, BeginSweep(flag)
        PROVE  sweep'.touched \subseteq Destinations
    BY <1>5 DEF BeginSweep
  <1>6. CASE RunServer
    BY <1>3, <1>4, <1>5, <1>6, OperationsAssumption
       DEF RunServer, ReadConfig, MakeInstance, register, StartAll, SetGauge, Listen,
           SpawnFeeder, Fails, ServeReturns, WaitEnds
  <1>7. CASE AcceptFails \/ Sigint \/ FeederEnds
    BY <1>3, <1>7 DEF AcceptFails, Sigint, FeederEnds
  <1>8. CASE Embedder
    BY <1>3, <1>4, <1>5, <1>8 DEF Embedder, register, remove
  <1>9. ASSUME NEW d \in Destinations, Visit(d)
        PROVE  sweep'.touched \subseteq Destinations
    <2>1. sweep' = [s EXCEPT !.todo = Rest(s.todo, d)]
      BY <1>1, <1>9 DEF Visit
    <2>2. sweep'.touched = s.touched
      BY <1>2, <2>1
    <2>3. QED
      BY <1>1, <2>2
  <1>10. ASSUME NEW i \in DOMAIN made, NEW b, Feed(i, b) \/ Sink(i)
         PROVE  UNCHANGED sweep
    BY <1>10 DEF Feed, Sink
  <1>11. ASSUME NEW r \in Requests, NEW d, NEW h, NEW kind, Ask(r, kind, d, h)
         PROVE  UNCHANGED sweep
    BY <1>11 DEF Ask
  <1>12. ASSUME NEW r \in Requests, Answers(r)
         PROVE  sweep'.touched \subseteq Destinations
    <2>1. CASE Act(r)
      <3>1. requests[r].dest \in Destinations
        BY <2>1 DEF Act, StopInv, RequestsOK
      <3>2. QED
        BY <1>4, <2>1, <3>1 DEF Act
    <2>2. CASE ~ Act(r)
      BY <1>3, <1>12, <2>2 DEF Answers, Lookup, ListAnswer, ListKey, ListState
    <2>3. QED
      BY <2>1, <2>2
  <1>13. CASE UNCHANGED vars
    BY <1>3, <1>13 DEF vars
  <1>14. QED
    BY <1>3, <1>6, <1>7, <1>8, <1>9, <1>10, <1>11, <1>12, <1>13 DEF Next

LEMMA StepNames == Early \cup Late \cup {"run"}
                     \subseteq {Steps[n] : n \in DOMAIN Steps} \cup {"run", "waiting", "exited"}
  <1>1. /\ Steps[1] = "config" /\ Steps[2] = "bind" /\ Steps[3] = "metrics"
        /\ Steps[4] = "instance" /\ Steps[5] = "start_all" /\ Steps[6] = "sweeping"
        /\ Steps[7] = "gauge" /\ Steps[8] = "admin" /\ Steps[9] = "feeder"
        /\ Steps[10] = "bind_server" /\ Steps[11] = "serving" /\ DOMAIN Steps = 1 .. 11
    BY DEF Steps
  <1>2. \A n \in {1, 2, 3, 4, 5, 6, 7, 8, 9, 10, 11} : n \in 1 .. 11
    OBVIOUS
  <1>3. QED
    BY <1>1, <1>2 DEF Early, Late

(* What StopInv says of the types.                                         *)
LEMMA StopInvTypes ==
    ASSUME StopInv
    PROVE  /\ main \in {Steps[n] : n \in DOMAIN Steps} \cup {"run", "waiting", "exited"}
           /\ instances \in [Destinations -> DOMAIN made \cup {Null}]
           /\ sweep.todo \subseteq Destinations
           /\ \A i \in DOMAIN made : made[i].running \in BOOLEAN
  <1>1. main \in Early \cup Late \cup {"run"}
    BY DEF StopInv, StartOK
  <1>2. QED
    BY <1>1, StepNames DEF StopInv, InstancesOK, SweepOK, MadeOK, IsInstance

LEMMA TypeInvInit == Init => TypeInv
  <1> SUFFICES ASSUME Init PROVE TypeInv
    OBVIOUS
  <1>1. StopInv
    BY StopInvInit
  <1>2. Len(made) <= MaxInstances
    BY OperationsAssumption DEF Init
  <1>3. Cardinality(Destinations) \in Nat /\ 1 \in 1 .. MaxPort
    BY OperationsAssumption, FS_CardinalityType
  <1>4. gauge \in 0 .. Cardinality(Destinations)
    BY <1>3 DEF Init
  <1>5. listening \in Ports
    BY <1>3 DEF Init, Ports
  <1>6. Steps[1] = "config"
    BY DEF Steps
  <1>7. BoundOK
    BY <1>6 DEF Init, BoundOK
  <1>8. /\ program \in Programs /\ config \in Configs \cup {Null}
        /\ admin_token \in AdminTokens \cup {Null} /\ shutdown \in BOOLEAN
        /\ sweep.touched \subseteq Destinations
    BY DEF Init
  <1>9. QED
    BY <1>1, <1>2, <1>4, <1>5, <1>7, <1>8, StopInvTypes DEF TypeInv, OperationsTypeOK, Ports

LEMMA TypeInvStep == TypeInv /\ [Next]_vars => TypeInv'
  <1> SUFFICES ASSUME TypeInv, [Next]_vars PROVE TypeInv'
    OBVIOUS
  <1>1. StopInv /\ StopInv' /\ OperationsTypeOK /\ BoundOK
    BY StopInvStep DEF TypeInv
  <1>2. UNCHANGED <<program, config, admin_token>>
    BY ConfigStays
  <1>3. /\ shutdown' \in BOOLEAN /\ listening' \in Ports
        /\ gauge' \in 0 .. Cardinality(Destinations) /\ BoundOK'
    <2>1. CASE MovesMain
      BY <1>2, <2>1, TypeInvMoves
    <2>2. CASE ~ MovesMain
      <3>1. UNCHANGED <<main, shutdown, listening, gauge>>
        BY <2>2, OthersStay
      <3>2. QED
        BY <1>1, <1>2, <3>1 DEF OperationsTypeOK, BoundOK, Ports
    <2>3. QED
      BY <2>1, <2>2
  <1>4. Len(made') <= MaxInstances /\ sweep'.touched \subseteq Destinations
    BY <1>1, MadeLength, TouchedType DEF OperationsTypeOK
  <1>5. /\ main' \in {Steps[n] : n \in DOMAIN Steps} \cup {"run", "waiting", "exited"}
        /\ instances' \in [Destinations -> DOMAIN made' \cup {Null}]
        /\ sweep'.todo \subseteq Destinations
        /\ \A i \in DOMAIN made' : made'[i].running \in BOOLEAN
    <2>1. main' \in Early \cup Late \cup {"run"}
      BY <1>1 DEF StopInv, StartOK
    <2>2. QED
      BY <1>1, <2>1, StepNames DEF StopInv, InstancesOK, SweepOK, MadeOK, IsInstance
  <1>6. OperationsTypeOK'
    BY <1>1, <1>2, <1>3, <1>4, <1>5 DEF OperationsTypeOK, Ports
  <1>7. QED
    BY <1>1, <1>3, <1>6 DEF TypeInv

(* For every configuration: a listener's port is a real one (checked_add   *)
(* in resolve_admin_bind, lib.rs:216), nobody holds an instance that was   *)
(* not made, and run_server is at one of its steps.                        *)
THEOREM OperationsTypeCorrect == Spec => []OperationsTypeOK
  <1>1. TypeInv => OperationsTypeOK
    BY DEF TypeInv
  <1>2. Spec => []TypeInv
    BY TypeInvInit, TypeInvStep, PTL DEF Spec
  <1>3. QED
    BY <1>1, <1>2, PTL
=============================================================================
