---------------------------- MODULE CanalServer ----------------------------
(***************************************************************************)
(* The TCP server (canal-server/src/server.rs, session.rs) on top of the   *)
(* event store: connections authenticate, subscribe, get, acknowledge and  *)
(* roll back; the session table is shared by all of them and is keyed by   *)
(* client id, not by connection.                                           *)
(*                                                                         *)
(* A connection handles one packet at a time, so nothing else happens on   *)
(* it while its handler awaits get_batch.  Everything a handler does       *)
(* between two awaits touches the session table at most once per step and  *)
(* is one action.  A request answered with an error Ack and no effect      *)
(* (not authenticated, authenticated twice, client_id mismatch, a filter   *)
(* that is too long or does not compile) changes at most the count of      *)
(* unknown packets.                                                        *)
(***************************************************************************)
EXTENDS EventStore, FiniteSets

CONSTANTS
    ClientIds,       \* client ids ("" is taken as "anonymous")
    IdsOf,           \* the client ids each connection's peer may present
    Filters,         \* accepted filters, each the set of tables it matches
    DefaultStart,    \* DEFAULT_START_JOURNAL : DEFAULT_START_POSITION
    StartTimes,      \* ClientAuth.start_timestamp, 0 when not used
    FetchSizes,      \* Get.fetch_size, as asked for
    MaxFetchSize,    \* MAX_FETCH_SIZE (10000)
    MaxAuthErrors,   \* failures before a disconnect (3)
    MaxUnknown,      \* unknown packets in a row before a disconnect (10)
    MaxConnections   \* MAX_CONNECTIONS (1024)

ASSUME IdsOfAssumption == IdsOf \in [Readers -> SUBSET ClientIds]

ASSUME FiltersAssumption == Filters \subseteq SUBSET Tables

ASSUME DefaultStartAssumption == DefaultStart \in Position

ASSUME LimitsAssumption ==
    /\ FetchSizes \subseteq Int /\ StartTimes \subseteq Nat
    /\ {MaxFetchSize, MaxAuthErrors, MaxUnknown, MaxConnections} \subseteq Nat \ {0}

OptPos == Position \cup {None}

ClientState ==
    [open : BOOLEAN, authenticated : BOOLEAN, client_id : ClientIds \cup {None},
     current_pos : Cursor \cup {None}, last_ack_pos : OptPos,
     last_get_batch_id : Nat, last_get_end_pos : OptPos,
     auth_error_count : 0 .. MaxAuthErrors - 1,
     unknown_packet_count : 0 .. MaxUnknown - 1]

(* ClientSession: a client's entry in the session table is one, or None.   *)
Session == [pattern : SUBSET Tables, black_list : SUBSET Tables,
            last_ack_position : OptPos]

ASSUME SessionAssumption == None \notin Session

VARIABLES
    conn,       \* per connection: open or not, and its ClientState
    sessions,   \* SessionManager.sessions
    phase,      \* where serve() is: not yet bound, accepting, draining, returned
    hist        \* history, for the properties only

serverVars == <<conn, sessions, phase, hist>>

vars == <<storeVars, serverVars>>

-----------------------------------------------------------------------------
NewClient ==   \* ClientState::default()
    [open |-> FALSE, authenticated |-> FALSE, client_id |-> None,
     current_pos |-> None, last_ack_pos |-> None,
     last_get_batch_id |-> 0, last_get_end_pos |-> None,
     auth_error_count |-> 0, unknown_packet_count |-> 0]

(* ClientSession::new.  black_list is never set by a packet.               *)
NewSession(filter, black) ==
    [pattern |-> filter, black_list |-> black, last_ack_position |-> None]

(* History of a connection: the rows its gets returned, the rows sent to   *)
(* the peer since its client's filter was last set, the ends of its        *)
(* batches by id, the ends of the batches the peer named in an Ack;        *)
(* whether it ever used a timestamp or rolled back, and whether its last   *)
(* Get came from a cursor of its own; and what its client had acked when   *)
(* it authenticated.                                                       *)
NewTrace == [served |-> {}, sent |-> {}, ends |-> {}, confirmed |-> {},
             timed |-> FALSE, rolled |-> FALSE, own |-> FALSE,
             resume |-> None]

Ready(c) == phase # "stopped" /\ conn[c].open /\ call[c].pc = "idle"

(* A packet of an authenticated client: the counter of unknown packets is  *)
(* reset before its handler runs, whatever the handler answers.            *)
Authenticated(c) == Ready(c) /\ conn[c].authenticated

Handled(c) == [conn[c] EXCEPT !.unknown_packet_count = 0]

Open == {c \in Readers : conn[c].open}

-----------------------------------------------------------------------------
(* serve(): the listener is bound and the store started.                   *)
Serve ==
    /\ phase = "starting"
    /\ SetRunning(TRUE)
    /\ phase' = "serving"
    /\ UNCHANGED <<conn, sessions, hist>>

(* The accept loop and its end.  A connection over the limit is dropped.   *)
Accept(c) ==
    /\ phase = "serving"
    /\ ~ conn[c].open
    /\ Cardinality(Open) < MaxConnections   \* try_acquire_owned
    /\ conn' = [conn EXCEPT ![c].open = TRUE]
    /\ UNCHANGED <<storeVars, sessions, phase, hist>>

Shutdown ==   \* the token is cancelled
    /\ phase = "serving"
    /\ phase' = "draining"
    /\ UNCHANGED <<storeVars, conn, sessions, hist>>

(* All client tasks joined, or the 30 s timeout: handlers do not watch the *)
(* token, so connections may still be open.                                *)
Drained ==
    /\ phase = "draining"
    /\ Open = {}
    /\ phase' = "stopped"
    /\ UNCHANGED <<storeVars, conn, sessions, hist>>

(* Fault: no bound on the drain.                                           *)
DrainForever == Drained

DrainTimeout ==
    /\ phase = "draining"
    /\ Open # {}
    /\ phase' = "stopped"
    /\ UNCHANGED <<storeVars, conn, sessions, hist>>

(* handle_client leaves its loop (end of stream, idle timeout) and         *)
(* unregisters its client id.                                              *)
Unregister(c) ==
    sessions' = IF conn[c].client_id = None
                THEN sessions
                ELSE [sessions EXCEPT ![conn[c].client_id] = None]

Forget(c) ==   \* the task ends
    /\ conn' = [conn EXCEPT ![c] = NewClient]
    /\ hist' = [hist EXCEPT !.trace[c] = NewTrace]

Close(c) ==
    /\ Ready(c)
    /\ Unregister(c)
    /\ Forget(c)
    /\ UNCHANGED <<storeVars, phase>>

(* A `?` on a frame that cannot be read or decoded, or on a failed send:   *)
(* handle_client returns without unregistering.                            *)
ErrorExit(c) ==
    /\ Ready(c)
    /\ Forget(c)
    /\ UNCHANGED <<storeVars, sessions, phase>>

-----------------------------------------------------------------------------
(* SessionManager.register: always a new session, without an ack.          *)
(* Fault: an existing session is kept.                                     *)
RegisterIfAbsent(cid, filter, black) ==
    sessions' = IF sessions[cid] # None THEN sessions
                ELSE [sessions EXCEPT ![cid] = NewSession(filter, black)]

Register(cid, filter, black) ==
    sessions' = [sessions EXCEPT ![cid] = NewSession(filter, black)]

(* history: the client's filter is set, by whichever connection.           *)
Refiltered(d, c, cid, ts) ==
    [hist.trace[d] EXCEPT
        !.sent = IF d = c \/ conn[d].client_id = cid THEN {} ELSE hist.trace[d].sent,
        !.timed = IF d = c /\ ts > 0 THEN TRUE ELSE hist.trace[d].timed,
        !.resume = IF d = c /\ ~ conn[c].authenticated
                   THEN hist.acked[cid] ELSE hist.trace[d].resume]

FilterSet(c, cid, filter, ts) ==
    hist' = [hist EXCEPT
        !.filter[cid] = filter,
        !.trace = [d \in Readers |-> Refiltered(d, c, cid, ts)]]

(* handle_auth: the password matches and the filter is valid.              *)
Auth(c, cid, filter, ts) ==
    /\ Ready(c)
    /\ ~ conn[c].authenticated
    /\ Register(cid, filter, {})
    /\ conn' = [conn EXCEPT
                  ![c].authenticated = TRUE,
                  ![c].client_id = cid,
                  ![c].current_pos = IF ts > 0 THEN AtTimestamp(ts) ELSE @]
    /\ FilterSet(c, cid, filter, ts)
    /\ UNCHANGED <<storeVars, phase>>

(* Fault: one failure more than allowed.                                   *)
LastAuthErrorLate(c) == conn[c].auth_error_count + 1 > MaxAuthErrors

LastAuthError(c) == conn[c].auth_error_count + 1 >= MaxAuthErrors

(* handle_auth: bad password; the last failure allowed ends the task.      *)
AuthFailed(c) ==
    /\ Ready(c)
    /\ ~ conn[c].authenticated
    /\ IF LastAuthError(c)
       THEN Forget(c)
       ELSE /\ conn' = [conn EXCEPT ![c].auth_error_count = @ + 1]
            /\ UNCHANGED hist
    /\ UNCHANGED <<storeVars, sessions, phase>>

(* Fault: any client id may be subscribed.                                 *)
AnyId(c, cid) == cid \in ClientIds

OwnId(c, cid) == cid = conn[c].client_id

(* handle_sub, for the client id the connection is authenticated as.  The  *)
(* session is replaced: its filter is the new one, its ack is gone.        *)
Sub(c, cid, filter) ==
    /\ Authenticated(c)
    /\ OwnId(c, cid)
    /\ Register(cid, filter,
                IF sessions[cid] # None THEN sessions[cid].black_list ELSE {})
    /\ conn' = [conn EXCEPT ![c] = [Handled(c) EXCEPT !.client_id = cid]]
    /\ FilterSet(c, cid, filter, 0)
    /\ UNCHANGED <<storeVars, phase>>

(* Heartbeat, and every authenticated request that is refused.             *)
Refused(c) ==
    /\ Authenticated(c)
    /\ conn' = [conn EXCEPT ![c] = Handled(c)]
    /\ UNCHANGED <<storeVars, sessions, phase, hist>>

Unknown(c) ==
    /\ Authenticated(c)
    /\ IF conn[c].unknown_packet_count + 1 >= MaxUnknown
       THEN Forget(c)
       ELSE /\ conn' = [conn EXCEPT ![c].unknown_packet_count = @ + 1]
            /\ UNCHANGED hist
    /\ UNCHANGED <<storeVars, sessions, phase>>

-----------------------------------------------------------------------------
(* handle_get, up to the await: the cursor is the connection's own, else   *)
(* the ack stored for the client, else the default.                        *)
SessionAck(c) ==
    LET s == sessions[conn[c].client_id]
    IN  IF s = None THEN None ELSE s.last_ack_position

HasOwnCursor(c) == conn[c].current_pos # None \/ SessionAck(c) # None

StartCursor(c) ==
    CASE conn[c].current_pos # None -> conn[c].current_pos
      [] conn[c].current_pos = None /\ SessionAck(c) # None -> AtPosition(SessionAck(c))
      [] OTHER -> AtPosition(DefaultStart)

BatchSize(fetch) ==   \* usize::try_from(..).unwrap_or(100).clamp(1, MAX)
    LET n == IF fetch < 0 THEN 100 ELSE fetch
    IN  IF n < 1 THEN 1 ELSE Least(n, MaxFetchSize)

(* Fault: a cursor at the watermark counts as below it.                    *)
AtOrBelowWatermark(c) ==
    /\ HasOwnCursor(c)
    /\ StartCursor(c).timestamp = 0
    /\ evicted_watermark # None
    /\ PosLeq(StartCursor(c).pos, evicted_watermark)

BelowWatermark(c) ==
    /\ HasOwnCursor(c)
    /\ StartCursor(c).timestamp = 0
    /\ evicted_watermark # None
    /\ PosLess(StartCursor(c).pos, evicted_watermark)

Get(c, fetch) ==
    /\ Authenticated(c)
    /\ ~ BelowWatermark(c)
    /\ GetBatch(c, StartCursor(c), BatchSize(fetch))
    /\ conn' = [conn EXCEPT ![c] = Handled(c)]
    /\ hist' = [hist EXCEPT !.trace[c].own = HasOwnCursor(c)]
    /\ UNCHANGED <<sessions, phase>>

GetLost(c) ==   \* "cursor ... is below the eviction watermark"
    /\ Refused(c)
    /\ BelowWatermark(c)

(* handle_get, after the await.  The session is looked up again; without   *)
(* one nothing is filtered.                                                *)
Passes(c, e) ==
    LET s == sessions[conn[c].client_id]
    IN  s = None \/ (e.table \in s.pattern /\ e.table \notin s.black_list)

(* history: the rows of to_send.                                           *)
RowsSent(c, events) ==
    {events[i].row : i \in {j \in 1 .. Len(events) : Passes(c, events[j])}}

(* Fault: the cursor jumps to the end of the store.                        *)
CursorToLatest(events) == AtPosition(latest_position)

NextCursor(events) == AtPosition(EndOf(events))

Deliver(c) ==
    /\ GetServe(c)
    /\ LET events == reply'[c].events
           id == reply'[c].batch_id
       IN  /\ conn' = [conn EXCEPT
                         ![c].current_pos = NextCursor(events),
                         ![c].last_get_batch_id = id,
                         ![c].last_get_end_pos = EndOf(events)]
           /\ hist' = [hist EXCEPT
                         !.trace[c].served = @ \cup Rows(events),
                         !.trace[c].sent = @ \cup RowsSent(c, events),
                         !.trace[c].ends = @ \cup {<<id, EndOf(events)>>}]
    /\ UNCHANGED <<sessions, phase>>

GetStep(c) ==
    /\ phase # "stopped"
    /\ \/ Deliver(c)
       \/ /\ GetMiss(c) \/ GetWait(c) \/ GetWoken(c) \/ GetTimeout(c)
          /\ UNCHANGED serverVars

(* handle_client_ack: only the id of the last batch moves the cursor.      *)
(* Fault: an ack of any id counts as one of the last batch.                *)
AckAnyId(c, id) == conn[c].last_get_end_pos # None

AckMatches(c, id) ==
    conn[c].last_get_end_pos # None /\ id = conn[c].last_get_batch_id

ClientAck(c, id) ==
    /\ Authenticated(c)
    /\ LET end == conn[c].last_get_end_pos
           cid == conn[c].client_id
           named == {p[2] : p \in {q \in hist.trace[c].ends : q[1] = id}}
       IN  /\ conn' = [conn EXCEPT ![c] =
                         [Handled(c) EXCEPT !.last_ack_pos =
                            IF AckMatches(c, id) THEN end ELSE @]]
           /\ sessions' = IF AckMatches(c, id) /\ sessions[cid] # None
                          THEN [sessions EXCEPT ![cid].last_ack_position = end]
                          ELSE sessions
           /\ hist' = [hist EXCEPT
                         !.trace[c].confirmed = @ \cup named,
                         !.acked[cid] = IF AckMatches(c, id) THEN end ELSE @]
    /\ UNCHANGED <<storeVars, phase>>

RollbackPos(c) ==
    IF conn[c].last_ack_pos # None THEN AtPosition(conn[c].last_ack_pos) ELSE None

ClientRollback(c) ==
    /\ Authenticated(c)
    /\ conn' = [conn EXCEPT ![c] = [Handled(c) EXCEPT !.current_pos = RollbackPos(c)]]
    /\ hist' = [hist EXCEPT !.trace[c].rolled = TRUE]
    /\ UNCHANGED <<storeVars, sessions, phase>>

-----------------------------------------------------------------------------
Init ==
    /\ StoreInit
    /\ conn = [c \in Readers |-> NewClient]
    /\ sessions = [cid \in ClientIds |-> None]
    /\ phase = "starting"
    /\ hist = [trace |-> [c \in Readers |-> NewTrace],
               filter |-> [cid \in ClientIds |-> None],
               acked |-> [cid \in ClientIds |-> None]]

(* The sink appends to the store whatever the connections do.              *)
Feed == phase # "stopped" /\ Put /\ UNCHANGED serverVars

Packet(c) ==
    \/ \E cid \in IdsOf[c], filter \in Filters, ts \in StartTimes :
          Auth(c, cid, filter, ts)
    \/ AuthFailed(c)
    \/ \E cid \in ClientIds, filter \in Filters : Sub(c, cid, filter)
    \/ Refused(c)
    \/ Unknown(c)
    \/ \E fetch \in FetchSizes : batch_id_seq < MaxIds /\ Get(c, fetch)
    \/ GetLost(c)
    \/ \E id \in 0 .. batch_id_seq : ClientAck(c, id)
    \/ ClientRollback(c)

Next ==
    \/ Feed
    \/ Serve \/ Shutdown \/ Drained \/ DrainTimeout
    \/ \E c \in Readers : \/ Accept(c) \/ Close(c) \/ ErrorExit(c)
                          \/ Packet(c) \/ GetStep(c)

(* serve()'s drain is bounded by its own 30 s timeout; peers owe the       *)
(* server nothing.                                                         *)
Fairness == WF_vars(Drained \/ DrainTimeout)

Spec == Init /\ [][Next]_vars /\ Fairness
-----------------------------------------------------------------------------
(* Properties.                                                             *)

ServerTypeOK ==
    /\ StoreTypeOK
    /\ conn \in [Readers -> ClientState]
    /\ sessions \in [ClientIds -> Session \cup {None}]
    /\ phase \in {"starting", "serving", "draining", "stopped"}

(* The positions a connection may continue from: its cursor, its last ack  *)
(* (rollback) and the ack of its client's session.                         *)
Resumable(c) ==
    {IF conn[c].current_pos = None THEN None ELSE conn[c].current_pos.pos,
     conn[c].last_ack_pos, SessionAck(c)} \ {None}

(* No cursor runs ahead of delivery: whatever position the connection may  *)
(* continue from (server.rs:417-428, 526, 534-538), every event still held *)
(* that lies before it was returned by one of this connection's gets, save *)
(* the rows that came after a batch had ended at their very position (see  *)
(* GroupNeverSplit).  For clients that start at a position and do not      *)
(* share their id.                                                         *)
NothingSkipped ==
    \A c \in Open : conn[c].authenticated /\ ~ hist.trace[c].timed =>
        \A p \in Resumable(c) : \A i \in 1 .. Len(buffer) :
            PosLeq(buffer[i].pos, p) =>
                \/ buffer[i].row \in hist.trace[c].served
                \/ \E q \in hist.trace[c].ends : q[2] = buffer[i].pos

(* "Only the batch the client was last sent may be acked" (server.rs:516-  *)
(* 518): the ack positions, of the connection and of its session, are ends *)
(* of batches of this connection that its peer has named.  In particular   *)
(* a session never hands a new connection the ack of an earlier one.       *)
AckWasConfirmed ==
    \A c \in Open : conn[c].authenticated =>
        {conn[c].last_ack_pos, SessionAck(c)} \ {None} \subseteq hist.trace[c].confirmed

(* The session filter (server.rs:459-475): a peer is only sent rows of the *)
(* tables its client last asked for, whichever handler set the filter and  *)
(* however the answer to its Get was delayed.                              *)
FilterRespected ==
    \A c \in Open : \A i \in hist.trace[c].sent :
        log[i].table \in hist.filter[conn[c].client_id]

(* A live client has its session: nothing another connection does takes    *)
(* it away (server.rs:222-224, session.rs:71-73).                          *)
LiveClientHasSession ==
    \A c \in Open : conn[c].authenticated => sessions[conn[c].client_id] # None

(* Without a rollback no event is returned twice on a connection: the      *)
(* cursor of the next Get (server.rs:455) excludes all of the last batch.  *)
ServesOnce(c) ==
    /\ hist'.trace[c].ends # hist.trace[c].ends
    /\ hist'.trace[c].ends # {}
    /\ ~ hist.trace[c].rolled
    => Rows(reply'[c].events) \cap hist.trace[c].served = {}

OnceWithoutRollback == [][\A c \in Readers : ServesOnce(c)]_vars

(* Peers that stay connected do not hold up shutdown (server.rs:123-140).  *)
ShutdownCompletes == phase = "draining" ~> phase = "stopped"

Answered(c) == conn[c].open /\ call[c].pc = "idle" /\ hist.trace[c].ends # {}

(* "Events between the client's cursor and the eviction watermark are      *)
(* gone: report that instead of silently serving a batch that skips them." *)
(* (server.rs:430-431)                                                     *)
NoSilentGap ==
    \A c \in Open :
        LET answer == reply[c] IN
        /\ Answered(c) /\ hist.trace[c].own
        /\ answer.events # <<>> /\ answer.cursor.timestamp = 0
        => Rows(answer.events) =
             {i \in 1 .. answer.seen :
                /\ PosLess(answer.cursor.pos, log[i].pos)
                /\ PosLeq(log[i].pos, EndOf(answer.events))}

(* "handle_get restores from SessionManager.last_ack_position when         *)
(* current_pos is None" (docs/review-report-2026-07-31-v18.md:369, the     *)
(* fix of 1.6, a reconnecting client gets everything again): a client that *)
(* comes back is not served what it had acknowledged.                      *)
ReconnectResumesAfterAck ==
    \A c \in Open :
        LET t == hist.trace[c] IN
        /\ Answered(c) /\ ~ t.timed /\ ~ t.rolled /\ t.resume # None
        => \A i \in t.served : PosLess(t.resume, log[i].pos)
=============================================================================
