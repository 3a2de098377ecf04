-------------------------- MODULE CanalServerProofs --------------------------
(***************************************************************************)
(* Proofs about CanalServer, for every set of connections, every capacity  *)
(* of the store and every limit.                                           *)
(*                                                                         *)
(* Two facts about the peers and the binlog are hypotheses of the theorems *)
(* that need them.  No two connections present the same client id          *)
(* (IdsDisjoint): an empty id becomes "anonymous", so peers that leave it  *)
(* out share one, and the end of one connection then takes the session of  *)
(* the other, its filter included.  The default start, offset 4 of the     *)
(* first journal, lies before every event (StartIsFirst).                  *)
(***************************************************************************)
EXTENDS CanalServer, EventStoreProofs

IdsDisjoint == \A c, d \in Readers : c # d => IdsOf[c] \cap IdsOf[d] = {}

StartIsFirst == \A p \in Positions : PosLess(DefaultStart, p)

-----------------------------------------------------------------------------
(* The inductive invariant, connection by connection.                      *)

Trace == [served : SUBSET Nat, sent : SUBSET Nat,
          ends : SUBSET (Nat \X Position), confirmed : SUBSET Position,
          timed : BOOLEAN, rolled : BOOLEAN, own : BOOLEAN, resume : OptPos]

History == [trace : [Readers -> Trace],
            filter : [ClientIds -> (SUBSET Tables) \cup {None}],
            acked : [ClientIds -> OptPos]]

EndPositions(c) == {q[2] : q \in hist.trace[c].ends}

(* A connection that is not authenticated has no cursor, no acks and no    *)
(* history; one that is uses an id of its own, and only such a one can be  *)
(* inside get_batch.                                                       *)
Identified(c) ==
    /\ conn[c].authenticated => conn[c].open /\ conn[c].client_id \in IdsOf[c]
    /\ ~ conn[c].authenticated =>
         /\ hist.trace[c] = NewTrace
         /\ conn[c].client_id = None
         /\ conn[c].current_pos = None
         /\ conn[c].last_ack_pos = None
         /\ conn[c].last_get_end_pos = None
    /\ call[c].pc # "idle" => conn[c].authenticated

(* The session of an authenticated client is in the table, with the filter *)
(* its client last asked for.                                              *)
HasSession(c) ==
    conn[c].authenticated =>
        /\ sessions[conn[c].client_id] # None
        /\ sessions[conn[c].client_id].pattern = hist.filter[conn[c].client_id]

SentFiltered(c) ==
    \A i \in hist.trace[c].sent :
        /\ i \in 1 .. Len(log)
        /\ log[i].table \in hist.filter[conn[c].client_id]

(* What is acknowledged was named by the peer, and what the peer named is  *)
(* the end of a batch.                                                     *)
AcksNamed(c) ==
    /\ conn[c].last_get_end_pos # None =>
         <<conn[c].last_get_batch_id, conn[c].last_get_end_pos>> \in hist.trace[c].ends
    /\ hist.trace[c].confirmed \subseteq EndPositions(c)
    /\ conn[c].last_ack_pos # None => conn[c].last_ack_pos \in hist.trace[c].confirmed
    /\ conn[c].authenticated /\ SessionAck(c) # None =>
         SessionAck(c) \in hist.trace[c].confirmed

(* A connection that never used a timestamp reads from the default start   *)
(* or from the end of one of its batches.                                  *)
CursorsAreEnds(c) ==
    ~ hist.trace[c].timed =>
        /\ conn[c].current_pos # None =>
             \E p \in EndPositions(c) : conn[c].current_pos = AtPosition(p)
        /\ call[c].pc # "idle" =>
             \E p \in EndPositions(c) \cup {DefaultStart} : call[c].cursor = AtPosition(p)

(* The events a connection may consider delivered once it is past them.    *)
Covered(c, i) == i \in hist.trace[c].served \/ log[i].pos \in EndPositions(c)

(* An end of a batch is the position of an event, and every event held up  *)
(* to it is covered.                                                       *)
EndsCover(c) ==
    /\ \A p \in EndPositions(c) : \E i \in 1 .. Len(log) : log[i].pos = p
    /\ ~ hist.trace[c].timed =>
         \A p \in EndPositions(c) : \A i \in Dropped + 1 .. Len(log) :
            PosLeq(log[i].pos, p) => Covered(c, i)

(* Without a rollback the cursor is at the end of what was served.         *)
CursorIsAhead(c) ==
    /\ ~ hist.trace[c].rolled =>
         IF conn[c].current_pos = None \/ conn[c].current_pos.timestamp # 0
         THEN hist.trace[c].served = {}
         ELSE \A i \in hist.trace[c].served :
                 i \in 1 .. Len(log) /\ PosLeq(log[i].pos, conn[c].current_pos.pos)
    /\ call[c].pc # "idle" /\ conn[c].current_pos # None =>
         call[c].cursor = conn[c].current_pos

ConnInv(c) ==
    /\ Identified(c)
    /\ HasSession(c)
    /\ SentFiltered(c)
    /\ AcksNamed(c)
    /\ CursorsAreEnds(c)
    /\ EndsCover(c)
    /\ CursorIsAhead(c)

ServerInv ==
    /\ StoreInv
    /\ ServerTypeOK
    /\ hist \in History
    /\ \A i \in 1 .. Len(log) : log[i].pos \in Positions
    /\ \A c \in Readers : ConnInv(c)

-----------------------------------------------------------------------------
(* What a step leaves alone.                                               *)

(* Nothing the invariant of a connection reads of it changes, except that  *)
(* a call may move on or end.                                              *)
Undisturbed(d) ==
    /\ conn'[d].authenticated = conn[d].authenticated
    /\ conn[d].open /\ conn[d].authenticated => conn'[d].open
    /\ conn'[d].client_id = conn[d].client_id
    /\ conn'[d].current_pos = conn[d].current_pos
    /\ conn'[d].last_ack_pos = conn[d].last_ack_pos
    /\ conn'[d].last_get_batch_id = conn[d].last_get_batch_id
    /\ conn'[d].last_get_end_pos = conn[d].last_get_end_pos
    /\ hist'.trace[d] = hist.trace[d]
    /\ call'[d].pc # "idle" => call[d].pc # "idle" /\ call'[d].cursor = call[d].cursor
    /\ conn[d].authenticated =>
         /\ sessions'[conn[d].client_id] = sessions[conn[d].client_id]
         /\ hist'.filter[conn[d].client_id] = hist.filter[conn[d].client_id]

LogExtends ==
    /\ Len(log) \in Nat /\ Len(log') \in Nat /\ Len(log) <= Len(log')
    /\ \A i \in 1 .. Len(log) : log'[i] = log[i]

(* The parts of a connection's invariant that the buffer has no part in.   *)
LEMMA UndisturbedParts ==
    ASSUME NEW d \in Readers, ConnInv(d), Undisturbed(d), LogExtends
    PROVE  /\ Identified(d)' /\ HasSession(d)' /\ SentFiltered(d)'
           /\ AcksNamed(d)' /\ CursorsAreEnds(d)' /\ CursorIsAhead(d)'
  <1>1. EndPositions(d)' = EndPositions(d)
    BY DEF EndPositions, Undisturbed
  <1>2. Identified(d)'
    BY DEF ConnInv, Identified, Undisturbed
  <1>3. HasSession(d)'
    BY DEF ConnInv, HasSession, Undisturbed
  <1>4. SentFiltered(d)'
    <2>1. CASE conn[d].authenticated
      <3>1. hist'.filter[conn'[d].client_id] = hist.filter[conn[d].client_id]
        BY <2>1 DEF Undisturbed
      <3>2. SUFFICES ASSUME NEW i \in hist.trace[d].sent
                     PROVE  i \in 1 .. Len(log') /\ log'[i].table \in hist.filter[conn[d].client_id]
        BY <3>1 DEF Undisturbed, SentFiltered
      <3>3. i \in 1 .. Len(log) /\ log[i].table \in hist.filter[conn[d].client_id]
        BY DEF ConnInv, SentFiltered
      <3>4. QED
        BY <3>3 DEF LogExtends
    <2>2. CASE ~ conn[d].authenticated
      <3>1. hist'.trace[d].sent = {}
        BY <2>2 DEF ConnInv, Identified, Undisturbed, NewTrace
      <3>2. QED
        BY <3>1 DEF SentFiltered
    <2>3. QED
      BY <2>1, <2>2
  <1>5. AcksNamed(d)'
    <2>1. conn[d].authenticated => SessionAck(d)' = SessionAck(d)
      BY DEF SessionAck, Undisturbed
    <2>2. QED
      BY <1>1, <2>1 DEF ConnInv, AcksNamed, Undisturbed
  <1>6. CursorsAreEnds(d)'
    BY <1>1 DEF ConnInv, CursorsAreEnds, Undisturbed
  <1>7. CursorIsAhead(d)'
    <2>1. ASSUME NEW i \in 1 .. Len(log)
          PROVE  i \in 1 .. Len(log') /\ log'[i] = log[i]
      BY DEF LogExtends
    <2>2. CursorIsAhead(d)
      BY DEF ConnInv
    <2>3. CASE conn[d].current_pos = None \/ conn[d].current_pos.timestamp # 0
      BY <2>2, <2>3 DEF CursorIsAhead, Undisturbed
    <2>4. CASE ~ (conn[d].current_pos = None \/ conn[d].current_pos.timestamp # 0)
      <3>1. ASSUME ~ hist.trace[d].rolled, NEW i \in hist.trace[d].served
            PROVE  i \in 1 .. Len(log') /\ PosLeq(log'[i].pos, conn[d].current_pos.pos)
        <4>1. i \in 1 .. Len(log) /\ PosLeq(log[i].pos, conn[d].current_pos.pos)
          BY <2>2, <2>4, <3>1 DEF CursorIsAhead
        <4>2. QED
          BY <2>1, <4>1
      <3>2. QED
        BY <2>2, <2>4, <3>1 DEF CursorIsAhead, Undisturbed
    <2>5. QED
      BY <2>3, <2>4
  <1>8. QED
    BY <1>2, <1>3, <1>4, <1>5, <1>6, <1>7

(* While nothing is put, what the buffer owes a connection stays covered.  *)
LEMMA EndsCoverStays ==
    ASSUME NEW d, EndsCover(d), UNCHANGED <<buffer, log>>,
           EndPositions(d)' = EndPositions(d),
           hist.trace[d].served \subseteq hist'.trace[d].served,
           hist'.trace[d].timed = hist.trace[d].timed
    PROVE  EndsCover(d)'
  <1>1. Dropped' = Dropped
    BY DEF Dropped
  <1>2. \A i : Covered(d, i) => Covered(d, i)'
    BY DEF Covered
  <1>3. QED
    BY <1>1, <1>2 DEF EndsCover

LEMMA UndisturbedInv ==
    ASSUME NEW d \in Readers, ConnInv(d), Undisturbed(d), Len(log) \in Nat,
           UNCHANGED <<buffer, log>>
    PROVE  ConnInv(d)'
  <1>1. LogExtends
    BY DEF LogExtends
  <1>2. EndsCover(d)'
    <2>1. EndPositions(d)' = EndPositions(d)
      BY DEF EndPositions, Undisturbed
    <2>2. QED
      BY <2>1, EndsCoverStays DEF ConnInv, Undisturbed
  <1>3. QED
    BY <1>1, <1>2, UndisturbedParts DEF ConnInv

(* A connection without a client has nothing to keep.                      *)
LEMMA FreshInv ==
    ASSUME NEW c \in Readers, conn'[c] = NewClient, hist'.trace[c] = NewTrace,
           call'[c].pc = "idle"
    PROVE  ConnInv(c)'
  <1>1. EndPositions(c)' = {}
    BY DEF EndPositions, NewTrace
  <1>2. Identified(c)' /\ HasSession(c)' /\ SentFiltered(c)'
    BY DEF Identified, HasSession, SentFiltered, NewClient, NewTrace
  <1>3. AcksNamed(c)' /\ CursorsAreEnds(c)' /\ EndsCover(c)' /\ CursorIsAhead(c)'
    BY <1>1 DEF AcksNamed, CursorsAreEnds, EndsCover, CursorIsAhead, NewClient, NewTrace
  <1>4. QED
    BY <1>2, <1>3 DEF ConnInv

-----------------------------------------------------------------------------
(* Types, and steps that leave the store alone.                            *)

LEMMA Typed ==
    ASSUME ServerInv, NEW c \in Readers
    PROVE  /\ conn \in [Readers -> ClientState] /\ conn[c] \in ClientState
           /\ hist.trace \in [Readers -> Trace] /\ hist.trace[c] \in Trace
           /\ hist.filter \in [ClientIds -> (SUBSET Tables) \cup {None}]
           /\ hist.acked \in [ClientIds -> OptPos]
           /\ hist = [trace |-> hist.trace, filter |-> hist.filter, acked |-> hist.acked]
           /\ call \in [Readers -> CallState] /\ call[c] \in CallState
           /\ reply \in [Readers -> Reply] /\ reply[c] \in Reply
           /\ sessions \in [ClientIds -> Session \cup {None}]
           /\ buffer \in Seq(Event) /\ log \in Seq(Event) /\ Len(log) \in Nat
           /\ conn[c].authenticated => conn[c].client_id \in ClientIds
           /\ ConnInv(c)
  <1>1. /\ conn \in [Readers -> ClientState] /\ hist \in History
        /\ sessions \in [ClientIds -> Session \cup {None}]
        /\ call \in [Readers -> CallState] /\ reply \in [Readers -> Reply]
        /\ buffer \in Seq(Event) /\ log \in Seq(Event)
        /\ ConnInv(c)
    BY DEF ServerInv, ServerTypeOK, StoreTypeOK
  <1>2. conn[c].authenticated => conn[c].client_id \in ClientIds
    BY <1>1, IdsOfAssumption DEF ConnInv, Identified
  <1>3. /\ hist.trace \in [Readers -> Trace]
        /\ hist.filter \in [ClientIds -> (SUBSET Tables) \cup {None}]
        /\ hist.acked \in [ClientIds -> OptPos]
        /\ hist = [trace |-> hist.trace, filter |-> hist.filter, acked |-> hist.acked]
    BY <1>1 DEF History
  <1>4. QED
    BY <1>1, <1>2, <1>3

LEMMA NewTyped == NewClient \in ClientState /\ NewTrace \in Trace
  BY LimitsAssumption DEF NewClient, ClientState, NewTrace, Trace, OptPos

(* What is left to show of a handler that does not touch the store.        *)
LEMMA ServerParts ==
    ASSUME ServerInv, UNCHANGED storeVars,
           conn' \in [Readers -> ClientState],
           sessions' \in [ClientIds -> Session \cup {None}],
           phase' \in {"starting", "serving", "draining", "stopped"},
           hist' \in History,
           \A d \in Readers : ConnInv(d)'
    PROVE  ServerInv'
  <1>1. StoreTypeOK'
    BY DEF ServerInv, StoreInv, BufferInv, StoreTypeOK, storeVars
  <1>2. StoreInv'
    BY <1>1, FrameKeeps DEF ServerInv, storeVars
  <1>3. QED
    BY <1>1, <1>2 DEF ServerInv, ServerTypeOK, storeVars

(* Another connection only sees the session table and the filters at the   *)
(* ids of its own peer.                                                    *)
LEMMA OthersKeep ==
    ASSUME IdsDisjoint, ServerInv, UNCHANGED <<buffer, log>>,
           NEW c \in Readers, NEW d \in Readers, d # c,
           conn'[d] = conn[d], hist'.trace[d] = hist.trace[d], call'[d] = call[d],
           \A cid \in ClientIds \ IdsOf[c] :
              sessions'[cid] = sessions[cid] /\ hist'.filter[cid] = hist.filter[cid]
    PROVE  ConnInv(d)'
  <1>1. Len(log) \in Nat /\ ConnInv(d)
    BY Typed
  <1>2. conn[d].authenticated =>
           /\ sessions'[conn[d].client_id] = sessions[conn[d].client_id]
           /\ hist'.filter[conn[d].client_id] = hist.filter[conn[d].client_id]
    <2>1. SUFFICES ASSUME conn[d].authenticated
                   PROVE  conn[d].client_id \in ClientIds \ IdsOf[c]
      OBVIOUS
    <2>2. conn[d].client_id \in IdsOf[d] /\ conn[d].client_id \in ClientIds
      BY <1>1, <2>1, IdsOfAssumption DEF ConnInv, Identified
    <2>3. QED
      BY <2>2 DEF IdsDisjoint
  <1>3. Undisturbed(d)
    BY <1>2 DEF Undisturbed
  <1>4. QED
    BY <1>1, <1>3, UndisturbedInv

(* serve() itself: nothing of a connection changes.                        *)
LEMMA PhaseKeeps ==
    ASSUME ServerInv, Serve \/ Shutdown \/ Drained \/ DrainTimeout
    PROVE  ServerInv'
  <1>1. /\ UNCHANGED <<conn, sessions, hist, buffer, latest_position, first_position,
                       evicted_watermark, log, call, reply, batch_id_seq>>
        /\ running' \in BOOLEAN
        /\ phase' \in {"starting", "serving", "draining", "stopped"}
    BY DEF Serve, Shutdown, Drained, DrainTimeout, SetRunning, storeVars, ServerInv,
           ServerTypeOK, StoreTypeOK
  <1>2. StoreTypeOK'
    BY <1>1 DEF ServerInv, StoreInv, BufferInv, StoreTypeOK
  <1>3. StoreInv'
    BY <1>1, <1>2, FrameKeeps DEF ServerInv
  <1>4. ASSUME NEW d \in Readers
        PROVE  ConnInv(d)'
    <2>1. Undisturbed(d)
      BY <1>1 DEF Undisturbed
    <2>2. ConnInv(d) /\ Len(log) \in Nat
      BY Typed
    <2>3. QED
      BY <1>1, <2>1, <2>2, UndisturbedInv
  <1>5. QED
    BY <1>1, <1>2, <1>3, <1>4 DEF ServerInv, ServerTypeOK

(* The accept loop opens a connection that knows nothing yet.              *)
LEMMA AcceptKeeps == ASSUME ServerInv, NEW c \in Readers, Accept(c) PROVE ServerInv'
  <1>1. conn' = [conn EXCEPT ![c].open = TRUE]
        /\ UNCHANGED <<buffer, log, call, sessions, phase, hist, storeVars>>
    BY DEF Accept, storeVars
  <1>2. conn' \in [Readers -> ClientState]
    <2>1. PICK k : k = [conn[c] EXCEPT !.open = TRUE]
      OBVIOUS
    <2>2. k \in ClientState
      BY <2>1, Typed DEF ClientState
    <2>3. conn' = [conn EXCEPT ![c] = k]
      BY <1>1, <2>1, Typed
    <2>4. QED
      BY <2>2, <2>3, Typed
  <1>3. ASSUME NEW d \in Readers
        PROVE  ConnInv(d)'
    <2>1. conn[d] \in ClientState /\ conn \in [Readers -> ClientState] /\ ConnInv(d)
          /\ Len(log) \in Nat
      BY Typed
    <2>2. Undisturbed(d)
      BY <1>1, <2>1 DEF Undisturbed, ClientState
    <2>3. QED
      BY <1>1, <2>1, <2>2, UndisturbedInv
  <1>4. QED
    BY <1>1, <1>2, <1>3, ServerParts DEF ServerInv, ServerTypeOK

(* A task that ends: the connection forgets everything.  At most the       *)
(* session of its own client goes with it.                                 *)
LEMMA ForgetKeeps ==
    ASSUME IdsDisjoint, ServerInv, NEW c \in Readers, Ready(c), Forget(c),
           UNCHANGED <<storeVars, phase>>,
           UNCHANGED sessions \/ Unregister(c)
    PROVE  ServerInv'
  <1>1. /\ conn' = [conn EXCEPT ![c] = NewClient]
        /\ hist' = [hist EXCEPT !.trace[c] = NewTrace]
        /\ UNCHANGED <<buffer, log, call>>
    BY DEF Forget, storeVars
  <1>2. /\ conn \in [Readers -> ClientState] /\ hist.trace \in [Readers -> Trace]
        /\ sessions \in [ClientIds -> Session \cup {None}]
        /\ hist \in History /\ ConnInv(c)
    BY Typed DEF ServerInv
  <1>3. conn' \in [Readers -> ClientState]
    BY <1>1, <1>2, NewTyped
  <1>4. /\ hist'.trace = [hist.trace EXCEPT ![c] = NewTrace]
        /\ hist'.filter = hist.filter /\ hist' \in History
    BY <1>1, <1>2, NewTyped DEF History
  <1>5. /\ sessions' \in [ClientIds -> Session \cup {None}]
        /\ \A cid \in ClientIds \ IdsOf[c] : sessions'[cid] = sessions[cid]
    <2>1. CASE UNCHANGED sessions
      BY <1>2, <2>1
    <2>2. CASE Unregister(c)
      <3>1. conn[c].client_id # None => conn[c].client_id \in IdsOf[c]
        BY <1>2 DEF ConnInv, Identified
      <3>2. QED
        BY <1>2, <2>2, <3>1, IdsOfAssumption DEF Unregister
    <2>3. QED
      BY <2>1, <2>2
  <1>6. ASSUME NEW d \in Readers
        PROVE  ConnInv(d)'
    <2>1. CASE d = c
      <3>1. conn'[c] = NewClient /\ hist'.trace[c] = NewTrace
        BY <1>1, <1>2, <1>4
      <3>2. call'[c].pc = "idle"
        BY <1>1 DEF Ready
      <3>3. QED
        BY <2>1, <3>1, <3>2, FreshInv
    <2>2. CASE d # c
      <3>1. conn'[d] = conn[d] /\ hist'.trace[d] = hist.trace[d] /\ call'[d] = call[d]
        BY <1>1, <1>2, <1>4, <2>2
      <3>2. QED
        BY <1>1, <1>4, <1>5, <2>2, <3>1, OthersKeep
    <2>3. QED
      BY <2>1, <2>2
  <1>7. QED
    BY <1>3, <1>4, <1>5, <1>6, ServerParts DEF ServerInv, ServerTypeOK

-----------------------------------------------------------------------------
(* The handlers.                                                           *)

(* A handler that changes nothing of its connection but the counters.      *)
LEMMA CountersKeep ==
    ASSUME ServerInv, NEW c \in Readers, NEW k \in ClientState,
           conn' = [conn EXCEPT ![c] = k],
           k.authenticated = conn[c].authenticated, k.open = conn[c].open,
           k.client_id = conn[c].client_id, k.current_pos = conn[c].current_pos,
           k.last_ack_pos = conn[c].last_ack_pos,
           k.last_get_batch_id = conn[c].last_get_batch_id,
           k.last_get_end_pos = conn[c].last_get_end_pos,
           UNCHANGED <<storeVars, sessions, phase, hist>>
    PROVE  ServerInv'
  <1>1. conn' \in [Readers -> ClientState]
    BY Typed
  <1>2. UNCHANGED <<buffer, log, call>>
    BY DEF storeVars
  <1>3. ASSUME NEW d \in Readers
        PROVE  ConnInv(d)'
    <2>1. conn \in [Readers -> ClientState] /\ ConnInv(d) /\ Len(log) \in Nat
      BY Typed
    <2>2. Undisturbed(d)
      BY <1>2, <2>1 DEF Undisturbed
    <2>3. QED
      BY <1>2, <2>1, <2>2, UndisturbedInv
  <1>4. QED
    BY <1>1, <1>3, ServerParts DEF ServerInv, ServerTypeOK

(* The packet counter is reset before any other effect.                    *)
LEMMA HandledType ==
    ASSUME NEW c, conn[c] \in ClientState
    PROVE  Handled(c) \in ClientState
  BY LimitsAssumption DEF Handled, ClientState

LEMMA RefusedKeeps == ASSUME ServerInv, NEW c \in Readers, Refused(c) PROVE ServerInv'
  <1>1. conn[c] \in ClientState
    BY Typed
  <1>2. PICK k \in ClientState : k = Handled(c)
    BY <1>1, HandledType
  <1>3. /\ k.authenticated = conn[c].authenticated /\ k.open = conn[c].open
        /\ k.client_id = conn[c].client_id /\ k.current_pos = conn[c].current_pos
        /\ k.last_ack_pos = conn[c].last_ack_pos
        /\ k.last_get_batch_id = conn[c].last_get_batch_id
        /\ k.last_get_end_pos = conn[c].last_get_end_pos
    BY <1>1, <1>2 DEF Handled, ClientState
  <1>4. conn' = [conn EXCEPT ![c] = k] /\ UNCHANGED <<storeVars, sessions, phase, hist>>
    BY <1>2 DEF Refused
  <1>5. QED
    BY <1>3, <1>4, CountersKeep

(* Unknown packets are counted; the last one allowed ends the task.        *)
LEMMA UnknownKeeps ==
    ASSUME IdsDisjoint, ServerInv, NEW c \in Readers, Unknown(c)
    PROVE  ServerInv'
  <1>1. conn[c] \in ClientState
    BY Typed
  <1>2. CASE Forget(c)
    BY <1>2, ForgetKeeps DEF Unknown, Authenticated
  <1>3. CASE ~ (conn[c].unknown_packet_count + 1 >= MaxUnknown)
    <2>1. conn[c].unknown_packet_count + 1 \in 0 .. MaxUnknown - 1
      BY <1>1, <1>3, LimitsAssumption DEF ClientState
    <2>2. [conn[c] EXCEPT !.unknown_packet_count = @ + 1] \in ClientState
      BY <1>1, <2>1 DEF ClientState
    <2>3. PICK k \in ClientState : k = [conn[c] EXCEPT !.unknown_packet_count = @ + 1]
      BY <2>2
    <2>4. /\ k.authenticated = conn[c].authenticated /\ k.open = conn[c].open
          /\ k.client_id = conn[c].client_id /\ k.current_pos = conn[c].current_pos
          /\ k.last_ack_pos = conn[c].last_ack_pos
          /\ k.last_get_batch_id = conn[c].last_get_batch_id
          /\ k.last_get_end_pos = conn[c].last_get_end_pos
      BY <1>1, <2>3 DEF ClientState
    <2>5. conn' = [conn EXCEPT ![c] = k] /\ UNCHANGED <<storeVars, sessions, phase, hist>>
      BY <1>3, <2>3 DEF Unknown
    <2>6. QED
      BY <2>4, <2>5, CountersKeep
  <1>4. QED
    BY <1>2, <1>3 DEF Unknown

(* A wrong password is counted; the last failure allowed ends the task.    *)
LEMMA AuthFailedKeeps ==
    ASSUME IdsDisjoint, ServerInv, NEW c \in Readers, AuthFailed(c)
    PROVE  ServerInv'
  <1>1. conn[c] \in ClientState
    BY Typed
  <1>2. CASE Forget(c)
    BY <1>2, ForgetKeeps DEF AuthFailed
  <1>3. CASE ~ LastAuthError(c)
    <2>1. conn[c].auth_error_count + 1 \in 0 .. MaxAuthErrors - 1
      BY <1>1, <1>3, LimitsAssumption DEF ClientState, LastAuthError
    <2>2. [conn[c] EXCEPT !.auth_error_count = @ + 1] \in ClientState
      BY <1>1, <2>1 DEF ClientState
    <2>3. PICK k \in ClientState : k = [conn[c] EXCEPT !.auth_error_count = @ + 1]
      BY <2>2
    <2>4. /\ k.authenticated = conn[c].authenticated /\ k.open = conn[c].open
          /\ k.client_id = conn[c].client_id /\ k.current_pos = conn[c].current_pos
          /\ k.last_ack_pos = conn[c].last_ack_pos
          /\ k.last_get_batch_id = conn[c].last_get_batch_id
          /\ k.last_get_end_pos = conn[c].last_get_end_pos
      BY <1>1, <2>3 DEF ClientState
    <2>5. conn' = [conn EXCEPT ![c] = k] /\ UNCHANGED <<storeVars, sessions, phase, hist>>
      BY <1>3, <2>3 DEF AuthFailed
    <2>6. QED
      BY <2>4, <2>5, CountersKeep
  <1>4. QED
    BY <1>2, <1>3 DEF AuthFailed

(* The effect of setting a client's filter on the history of connections.  *)
FilterIsSet(c, cid, filter, ts) ==
    /\ hist' \in History
    /\ hist'.filter[cid] = filter
    /\ \A i \in ClientIds : i # cid => hist'.filter[i] = hist.filter[i]
    /\ \A d \in Readers : d # c => hist'.trace[d] = hist.trace[d]
    /\ hist'.trace[c].sent = {}
    /\ hist'.trace[c].served = hist.trace[c].served
    /\ hist'.trace[c].ends = hist.trace[c].ends
    /\ hist'.trace[c].confirmed = hist.trace[c].confirmed
    /\ hist'.trace[c].rolled = hist.trace[c].rolled
    /\ hist'.trace[c].timed = IF ts > 0 THEN TRUE ELSE hist.trace[c].timed

LEMMA FilterEffect ==
    ASSUME ServerInv, NEW c \in Readers, NEW cid \in ClientIds, NEW filter \in Filters,
           NEW ts \in Nat, FilterSet(c, cid, filter, ts),
           \A d \in Readers : d # c /\ conn[d].authenticated => conn[d].client_id # cid
    PROVE  FilterIsSet(c, cid, filter, ts)
  <1>1. /\ hist.trace \in [Readers -> Trace] /\ hist \in History
        /\ hist.filter \in [ClientIds -> (SUBSET Tables) \cup {None}]
        /\ hist.acked \in [ClientIds -> OptPos]
    BY Typed DEF ServerInv
  <1>2. /\ hist'.trace = [d \in Readers |-> Refiltered(d, c, cid, ts)]
        /\ hist'.filter = [hist.filter EXCEPT ![cid] = filter]
        /\ hist'.acked = hist.acked
        /\ hist' = [trace |-> hist'.trace, filter |-> hist'.filter, acked |-> hist'.acked]
    BY <1>1 DEF FilterSet, History
  <1>3. ASSUME NEW d \in Readers
        PROVE  Refiltered(d, c, cid, ts) \in Trace
    <2>1. PICK t : t = hist.trace[d]
      OBVIOUS
    <2>2. PICK sent : sent = IF d = c \/ conn[d].client_id = cid THEN {} ELSE t.sent
      OBVIOUS
    <2>3. PICK timed : timed = IF d = c /\ ts > 0 THEN TRUE ELSE t.timed
      OBVIOUS
    <2>4. PICK resume : resume = IF d = c /\ ~ conn[c].authenticated
                                 THEN hist.acked[cid] ELSE t.resume
      OBVIOUS
    <2>5. t \in Trace /\ hist.acked[cid] \in OptPos
      BY <1>1, <2>1
    <2>6. sent \in SUBSET Nat /\ timed \in BOOLEAN /\ resume \in OptPos
      BY <2>2, <2>3, <2>4, <2>5 DEF Trace
    <2>7. Refiltered(d, c, cid, ts) =
             [t EXCEPT !.sent = sent, !.timed = timed, !.resume = resume]
      BY <2>1, <2>2, <2>3, <2>4 DEF Refiltered
    <2>8. [t EXCEPT !.sent = sent, !.timed = timed, !.resume = resume] \in Trace
      BY <2>5, <2>6 DEF Trace
    <2>9. QED
      BY <2>7, <2>8
  <1>4. ASSUME NEW d \in Readers, d # c
        PROVE  Refiltered(d, c, cid, ts) = hist.trace[d]
    <2>1. conn[d].client_id # cid \/ hist.trace[d].sent = {}
      BY <1>4, Typed DEF ConnInv, Identified, NewTrace
    <2>2. QED
      BY <1>1, <1>4, <2>1 DEF Refiltered, Trace
  <1>5. hist' \in History
    BY <1>1, <1>2, <1>3, FiltersAssumption DEF History
  <1>6. /\ Refiltered(c, c, cid, ts).sent = {}
        /\ Refiltered(c, c, cid, ts).served = hist.trace[c].served
        /\ Refiltered(c, c, cid, ts).ends = hist.trace[c].ends
        /\ Refiltered(c, c, cid, ts).confirmed = hist.trace[c].confirmed
        /\ Refiltered(c, c, cid, ts).rolled = hist.trace[c].rolled
        /\ Refiltered(c, c, cid, ts).timed = IF ts > 0 THEN TRUE ELSE hist.trace[c].timed
    BY <1>1 DEF Refiltered, Trace
  <1>7. hist'.trace[c] = Refiltered(c, c, cid, ts)
    BY <1>2
  <1>8. /\ hist'.filter[cid] = filter
        /\ \A i \in ClientIds : i # cid => hist'.filter[i] = hist.filter[i]
    BY <1>1, <1>2
  <1>9. \A d \in Readers : d # c => hist'.trace[d] = hist.trace[d]
    BY <1>2, <1>4
  <1>10. QED
    BY <1>5, <1>6, <1>7, <1>8, <1>9 DEF FilterIsSet

(* No other authenticated connection has an id of this peer.               *)
LEMMA OthersHaveOtherIds ==
    ASSUME IdsDisjoint, ServerInv, NEW c \in Readers, NEW cid \in IdsOf[c]
    PROVE  \A d \in Readers : d # c /\ conn[d].authenticated => conn[d].client_id # cid
  BY Typed DEF IdsDisjoint, ConnInv, Identified

(* SessionManager.register, for a session that starts without an ack.      *)
LEMMA RegisterEffect ==
    ASSUME ServerInv, NEW cid \in ClientIds, NEW filter \in Filters,
           NEW black \in SUBSET Tables, Register(cid, filter, black)
    PROVE  /\ sessions' \in [ClientIds -> Session \cup {None}]
           /\ sessions'[cid] # None
           /\ sessions'[cid].pattern = filter
           /\ sessions'[cid].last_ack_position = None
           /\ \A other \in ClientIds : other # cid => sessions'[other] = sessions[other]
  <1>1. sessions \in [ClientIds -> Session \cup {None}]
    BY DEF ServerInv, ServerTypeOK
  <1>2. PICK new \in Session : new = NewSession(filter, black)
    BY FiltersAssumption DEF NewSession, Session, OptPos
  <1>3. new # None /\ new.pattern = filter /\ new.last_ack_position = None
    BY <1>2, SessionAssumption DEF NewSession
  <1>4. sessions' = [sessions EXCEPT ![cid] = new]
    BY <1>2 DEF Register
  <1>5. QED
    BY <1>1, <1>3, <1>4

(* handle_auth: the peer becomes a client, with a new session and the      *)
(* cursor its timestamp asks for.                                          *)
LEMMA AuthKeeps ==
    ASSUME IdsDisjoint, ServerInv, NEW c \in Readers, NEW cid \in IdsOf[c],
           NEW filter \in Filters, NEW ts \in Nat, Auth(c, cid, filter, ts)
    PROVE  ServerInv'
  <1>1. /\ Ready(c) /\ ~ conn[c].authenticated
        /\ Register(cid, filter, {})
        /\ FilterSet(c, cid, filter, ts)
        /\ UNCHANGED <<storeVars, phase, buffer, log, call>>
    BY DEF Auth, storeVars
  <1>2. /\ conn \in [Readers -> ClientState] /\ conn[c] \in ClientState /\ ConnInv(c)
        /\ cid \in ClientIds /\ ts \in Nat
    BY Typed, IdsOfAssumption, LimitsAssumption
  <1>3. /\ hist.trace[c] = NewTrace /\ conn[c].current_pos = None
        /\ conn[c].last_ack_pos = None /\ conn[c].last_get_end_pos = None
        /\ conn[c].open /\ call[c].pc = "idle"
    BY <1>1, <1>2 DEF ConnInv, Identified, Ready
  <1>4. PICK k : k = [conn[c] EXCEPT
                        !.authenticated = TRUE, !.client_id = cid,
                        !.current_pos = IF ts > 0 THEN AtTimestamp(ts)
                                        ELSE conn[c].current_pos]
    OBVIOUS
  <1>5. conn' = [conn EXCEPT ![c] = k]
    BY <1>2, <1>4 DEF Auth
  <1>6. /\ k \in ClientState /\ k.authenticated /\ k.open /\ k.client_id = cid
        /\ k.current_pos = IF ts > 0 THEN AtTimestamp(ts) ELSE None
        /\ k.last_ack_pos = None /\ k.last_get_end_pos = None
    <2>1. (IF ts > 0 THEN AtTimestamp(ts) ELSE conn[c].current_pos) \in Cursor \cup {None}
      BY <1>2, <1>3, CursorType
    <2>2. QED
      BY <1>2, <1>3, <1>4, <2>1 DEF ClientState
  <1>7. FilterIsSet(c, cid, filter, ts)
    <2>1. \A d \in Readers : d # c /\ conn[d].authenticated => conn[d].client_id # cid
      BY OthersHaveOtherIds
    <2>2. QED
      BY <1>1, <1>2, <2>1, FilterEffect
  <1>8. /\ sessions' \in [ClientIds -> Session \cup {None}]
        /\ sessions'[cid] # None
        /\ sessions'[cid].pattern = filter
        /\ sessions'[cid].last_ack_position = None
        /\ \A other \in ClientIds : other # cid => sessions'[other] = sessions[other]
    <2>1. {} \in SUBSET Tables
      OBVIOUS
    <2>2. QED
      BY <1>1, <1>2, <2>1, RegisterEffect
  <1>9. conn'[c] = k /\ conn' \in [Readers -> ClientState]
    BY <1>2, <1>5, <1>6
  <1>10. ConnInv(c)'
    <2>1. EndPositions(c)' = {} /\ hist'.trace[c].served = {} /\ hist'.trace[c].confirmed = {}
      BY <1>3, <1>7 DEF EndPositions, NewTrace, FilterIsSet
    <2>3. Identified(c)' /\ HasSession(c)' /\ SentFiltered(c)'
      BY <1>1, <1>3, <1>6, <1>7, <1>8, <1>9 DEF Identified, HasSession, SentFiltered, FilterIsSet
    <2>4. AcksNamed(c)'
      BY <1>6, <1>8, <1>9, <2>1 DEF AcksNamed, SessionAck
    <2>5. CursorsAreEnds(c)' /\ EndsCover(c)'
      BY <1>1, <1>3, <1>6, <1>7, <1>9, <2>1 DEF CursorsAreEnds, EndsCover, FilterIsSet
    <2>6. CursorIsAhead(c)'
      <3>1. k.current_pos = None \/ k.current_pos.timestamp # 0
        BY <1>2, <1>6 DEF AtTimestamp
      <3>2. call'[c].pc = "idle"
        BY <1>1, <1>3
      <3>3. QED
        BY <1>9, <2>1, <3>1, <3>2 DEF CursorIsAhead
    <2>7. QED
      BY <2>3, <2>4, <2>5, <2>6 DEF ConnInv
  <1>11. ASSUME NEW d \in Readers, d # c
         PROVE  ConnInv(d)'
    <2>1. conn'[d] = conn[d] /\ hist'.trace[d] = hist.trace[d] /\ call'[d] = call[d]
      BY <1>1, <1>2, <1>5, <1>7, <1>11 DEF FilterIsSet
    <2>2. \A i \in ClientIds \ IdsOf[c] :
             sessions'[i] = sessions[i] /\ hist'.filter[i] = hist.filter[i]
      BY <1>2, <1>7, <1>8, Typed DEF FilterIsSet
    <2>3. QED
      BY <1>1, <1>11, <2>1, <2>2, OthersKeep
  <1>12. QED
    BY <1>1, <1>7, <1>8, <1>9, <1>10, <1>11, ServerParts DEF ServerInv, ServerTypeOK, FilterIsSet

(* handle_sub: the session and its filter are replaced; the connection     *)
(* keeps its cursor and its own last ack.                                  *)
LEMMA SubKeeps ==
    ASSUME IdsDisjoint, ServerInv, NEW c \in Readers, NEW cid \in ClientIds,
           NEW filter \in Filters, Sub(c, cid, filter)
    PROVE  ServerInv'
  <1>1. /\ Authenticated(c) /\ cid = conn[c].client_id
        /\ FilterSet(c, cid, filter, 0)
        /\ UNCHANGED <<storeVars, phase, buffer, log, call>>
    BY DEF Sub, OwnId, storeVars
  <1>2. /\ conn \in [Readers -> ClientState] /\ conn[c] \in ClientState /\ ConnInv(c)
        /\ sessions \in [ClientIds -> Session \cup {None}] /\ Len(log) \in Nat
        /\ conn[c].authenticated /\ conn[c].open /\ call[c].pc = "idle"
    BY <1>1, Typed DEF Authenticated, Ready
  <1>3. cid \in IdsOf[c]
    BY <1>1, <1>2 DEF ConnInv, Identified
  <1>4. PICK k \in ClientState : k = [Handled(c) EXCEPT !.client_id = cid]
    BY <1>2, HandledType DEF ClientState
  <1>5. conn' = [conn EXCEPT ![c] = k]
    BY <1>4 DEF Sub
  <1>6. /\ k.authenticated = conn[c].authenticated /\ k.open = conn[c].open
        /\ k.client_id = cid /\ k.current_pos = conn[c].current_pos
        /\ k.last_ack_pos = conn[c].last_ack_pos
        /\ k.last_get_batch_id = conn[c].last_get_batch_id
        /\ k.last_get_end_pos = conn[c].last_get_end_pos
    BY <1>2, <1>4 DEF Handled, ClientState
  <1>7. conn'[c] = k /\ conn' \in [Readers -> ClientState]
    BY <1>2, <1>5
  <1>8. FilterIsSet(c, cid, filter, 0)
    <2>1. \A d \in Readers : d # c /\ conn[d].authenticated => conn[d].client_id # cid
      BY <1>3, OthersHaveOtherIds
    <2>2. QED
      BY <1>1, <2>1, FilterEffect
  <1>9. /\ sessions' \in [ClientIds -> Session \cup {None}]
        /\ sessions'[cid] # None
        /\ sessions'[cid].pattern = filter
        /\ sessions'[cid].last_ack_position = None
        /\ \A other \in ClientIds : other # cid => sessions'[other] = sessions[other]
    <2>1. PICK black \in SUBSET Tables : Register(cid, filter, black)
      <3>1. (IF sessions[cid] # None THEN sessions[cid].black_list ELSE {}) \in SUBSET Tables
        BY <1>2 DEF Session
      <3>2. QED
        BY <3>1 DEF Sub
    <2>2. QED
      BY <2>1, RegisterEffect
  <1>10. EndPositions(c)' = EndPositions(c)
    BY <1>8 DEF EndPositions, FilterIsSet
  <1>11. ConnInv(c)'
    <2>2. Identified(c)' /\ HasSession(c)' /\ SentFiltered(c)'
      BY <1>2, <1>3, <1>6, <1>7, <1>8, <1>9
         DEF Identified, HasSession, SentFiltered, FilterIsSet
    <2>3. AcksNamed(c)'
      <3>1. AcksNamed(c)
        BY <1>2 DEF ConnInv
      <3>2. SessionAck(c)' = None
        BY <1>6, <1>7, <1>9 DEF SessionAck
      <3>3. QED
        BY <1>6, <1>7, <1>8, <1>10, <3>1, <3>2 DEF AcksNamed, FilterIsSet
    <2>4. CursorsAreEnds(c)'
      BY <1>1, <1>2, <1>6, <1>7, <1>8, <1>10 DEF ConnInv, CursorsAreEnds, FilterIsSet
    <2>5. EndsCover(c)'
      BY <1>1, <1>2, <1>8, <1>10, EndsCoverStays DEF ConnInv, FilterIsSet
    <2>6. CursorIsAhead(c)'
      BY <1>1, <1>2, <1>6, <1>7, <1>8 DEF ConnInv, CursorIsAhead, FilterIsSet
    <2>7. QED
      BY <2>2, <2>3, <2>4, <2>5, <2>6 DEF ConnInv
  <1>12. ASSUME NEW d \in Readers, d # c
         PROVE  ConnInv(d)'
    <2>1. conn'[d] = conn[d] /\ hist'.trace[d] = hist.trace[d] /\ call'[d] = call[d]
      BY <1>1, <1>2, <1>5, <1>8, <1>12 DEF FilterIsSet
    <2>2. \A i \in ClientIds \ IdsOf[c] :
             sessions'[i] = sessions[i] /\ hist'.filter[i] = hist.filter[i]
      BY <1>3, <1>8, <1>9, Typed DEF FilterIsSet
    <2>3. QED
      BY <1>1, <1>12, <2>1, <2>2, OthersKeep
  <1>13. QED
    BY <1>1, <1>7, <1>8, <1>9, <1>11, <1>12, ServerParts DEF ServerInv, ServerTypeOK, FilterIsSet

(* A handler of an authenticated client works on its own connection, its   *)
(* own history and at most its own session.                                *)
OwnOnly(c, k, t) ==
    /\ k \in ClientState /\ t \in Trace
    /\ conn' = [conn EXCEPT ![c] = k]
    /\ hist' \in History
    /\ hist'.trace = [hist.trace EXCEPT ![c] = t]
    /\ hist'.filter = hist.filter
    /\ sessions' \in [ClientIds -> Session \cup {None}]
    /\ \A cid \in ClientIds \ IdsOf[c] : sessions'[cid] = sessions[cid]
    /\ phase' = phase
    /\ \A d \in Readers : d # c => call'[d] = call[d]
    /\ UNCHANGED <<buffer, log>>

LEMMA OwnOnlyEffect ==
    ASSUME IdsDisjoint, ServerInv, NEW c \in Readers, NEW k, NEW t, OwnOnly(c, k, t)
    PROVE  /\ conn' \in [Readers -> ClientState] /\ conn'[c] = k /\ hist'.trace[c] = t
           /\ \A d \in Readers : d # c => ConnInv(d)'
  <1>1. conn \in [Readers -> ClientState] /\ hist.trace \in [Readers -> Trace]
    BY Typed
  <1>2. conn' \in [Readers -> ClientState] /\ conn'[c] = k /\ hist'.trace[c] = t
    BY <1>1 DEF OwnOnly
  <1>3. ASSUME NEW d \in Readers, d # c
        PROVE  ConnInv(d)'
    <2>1. conn'[d] = conn[d] /\ hist'.trace[d] = hist.trace[d] /\ call'[d] = call[d]
      BY <1>1, <1>3 DEF OwnOnly
    <2>2. \A cid \in ClientIds \ IdsOf[c] :
             sessions'[cid] = sessions[cid] /\ hist'.filter[cid] = hist.filter[cid]
      BY DEF OwnOnly
    <2>3. UNCHANGED <<buffer, log>>
      BY DEF OwnOnly
    <2>4. QED
      BY <1>3, <2>1, <2>2, <2>3, OthersKeep
  <1>4. QED
    BY <1>2, <1>3

(* handle_client_rollback: back to the last ack of this connection.        *)
LEMMA RollbackKeeps ==
    ASSUME IdsDisjoint, ServerInv, NEW c \in Readers, ClientRollback(c)
    PROVE  ServerInv'
  <1>1. /\ Authenticated(c) /\ UNCHANGED <<storeVars, sessions, phase, buffer, log, call>>
    BY DEF ClientRollback, storeVars
  <1>2. /\ conn \in [Readers -> ClientState] /\ conn[c] \in ClientState /\ ConnInv(c)
        /\ hist.trace \in [Readers -> Trace] /\ hist.trace[c] \in Trace /\ hist \in History
        /\ sessions \in [ClientIds -> Session \cup {None}]
        /\ conn[c].authenticated /\ conn[c].open /\ call[c].pc = "idle"
    BY <1>1, Typed DEF Authenticated, Ready, ServerInv
  <1>3. RollbackPos(c) \in Cursor \cup {None}
    BY <1>2, CursorType DEF RollbackPos, ClientState, OptPos
  <1>4. PICK k : k = [Handled(c) EXCEPT !.current_pos = RollbackPos(c)]
    OBVIOUS
  <1>5. PICK t : t = [hist.trace[c] EXCEPT !.rolled = TRUE]
    OBVIOUS
  <1>6. /\ k \in ClientState
        /\ k.authenticated = conn[c].authenticated /\ k.open = conn[c].open
        /\ k.client_id = conn[c].client_id /\ k.current_pos = RollbackPos(c)
        /\ k.last_ack_pos = conn[c].last_ack_pos
        /\ k.last_get_batch_id = conn[c].last_get_batch_id
        /\ k.last_get_end_pos = conn[c].last_get_end_pos
    <2>1. Handled(c) \in ClientState
      BY <1>2, HandledType
    <2>2. QED
      BY <1>2, <1>3, <1>4, <2>1 DEF Handled, ClientState
  <1>7. /\ t \in Trace /\ t.served = hist.trace[c].served /\ t.sent = hist.trace[c].sent
        /\ t.ends = hist.trace[c].ends /\ t.confirmed = hist.trace[c].confirmed
        /\ t.timed = hist.trace[c].timed /\ t.rolled
    BY <1>2, <1>5 DEF Trace
  <1>8. OwnOnly(c, k, t)
    <2>1. conn' = [conn EXCEPT ![c] = k]
      BY <1>4 DEF ClientRollback
    <2>2. /\ hist' \in History /\ hist'.filter = hist.filter
          /\ hist'.trace = [hist.trace EXCEPT ![c] = t]
      <3>1. hist' = [hist EXCEPT !.trace[c].rolled = TRUE]
        BY DEF ClientRollback
      <3>2. hist'.trace = [hist.trace EXCEPT ![c] = t]
        BY <1>2, <1>5, <3>1 DEF History
      <3>3. hist'.trace \in [Readers -> Trace]
        BY <1>2, <1>7, <3>2
      <3>4. QED
        BY <1>2, <3>1, <3>2, <3>3 DEF History
    <2>3. QED
      BY <1>1, <1>2, <1>6, <1>7, <2>1, <2>2 DEF OwnOnly
  <1>9. /\ conn' \in [Readers -> ClientState] /\ conn'[c] = k /\ hist'.trace[c] = t
        /\ \A d \in Readers : d # c => ConnInv(d)'
    BY <1>8, OwnOnlyEffect
  <1>10. EndPositions(c)' = EndPositions(c)
    BY <1>7, <1>9 DEF EndPositions
  <1>11. ConnInv(c)'
    <2>1. hist'.filter = hist.filter /\ call'[c].pc = "idle"
      BY <1>1, <1>2, <1>8 DEF OwnOnly
    <2>2. Identified(c)' /\ HasSession(c)' /\ SentFiltered(c)'
      BY <1>1, <1>2, <1>6, <1>7, <1>9, <2>1
         DEF ConnInv, Identified, HasSession, SentFiltered
    <2>3. AcksNamed(c)'
      <3>1. AcksNamed(c)
        BY <1>2 DEF ConnInv
      <3>2. SessionAck(c)' = SessionAck(c)
        BY <1>1, <1>6, <1>9 DEF SessionAck
      <3>3. QED
        BY <1>6, <1>7, <1>9, <1>10, <3>1, <3>2 DEF AcksNamed
    <2>4. CursorsAreEnds(c)'
      <3>1. k.current_pos # None => \E p \in EndPositions(c) : k.current_pos = AtPosition(p)
        BY <1>2, <1>6 DEF ConnInv, AcksNamed, RollbackPos
      <3>2. QED
        BY <1>9, <1>10, <2>1, <3>1 DEF CursorsAreEnds
    <2>5. EndsCover(c)'
      BY <1>1, <1>2, <1>7, <1>9, <1>10, EndsCoverStays DEF ConnInv
    <2>6. CursorIsAhead(c)'
      BY <1>7, <1>9, <2>1 DEF CursorIsAhead
    <2>7. QED
      BY <2>2, <2>3, <2>4, <2>5, <2>6 DEF ConnInv
  <1>12. QED
    <2>1. \A d \in Readers : ConnInv(d)'
      BY <1>9, <1>11
    <2>2. QED
      BY <1>1, <1>8, <1>9, <2>1, ServerParts DEF ServerInv, ServerTypeOK, OwnOnly

(* handle_client_ack: the ack of the last batch moves the ack of the       *)
(* connection and of its session; the ack of an earlier one moves nothing. *)
Named(c, id) == {p[2] : p \in {q \in hist.trace[c].ends : q[1] = id}}

LEMMA AckKeeps ==
    ASSUME IdsDisjoint, ServerInv, NEW c \in Readers, NEW id \in Nat, ClientAck(c, id)
    PROVE  ServerInv'
  <1>1. /\ Authenticated(c) /\ UNCHANGED <<storeVars, phase, buffer, log, call>>
    BY DEF ClientAck, storeVars
  <1>2. /\ conn \in [Readers -> ClientState] /\ conn[c] \in ClientState /\ ConnInv(c)
        /\ hist.trace \in [Readers -> Trace] /\ hist.trace[c] \in Trace /\ hist \in History
        /\ sessions \in [ClientIds -> Session \cup {None}]
        /\ conn[c].authenticated /\ conn[c].open /\ call[c].pc = "idle"
    BY <1>1, Typed DEF Authenticated, Ready, ServerInv
  <1> DEFINE cid == conn[c].client_id
             end == conn[c].last_get_end_pos
             ack == IF AckMatches(c, id) THEN end ELSE conn[c].last_ack_pos
  <1>3. /\ cid \in IdsOf[c] /\ cid \in ClientIds /\ sessions[cid] # None
        /\ sessions[cid] \in Session /\ end \in OptPos /\ ack \in OptPos
    <2>1. cid \in IdsOf[c] /\ sessions[cid] # None
      BY <1>2 DEF ConnInv, Identified, HasSession
    <2>2. QED
      BY <1>2, <2>1, IdsOfAssumption DEF ClientState
  <1>4. PICK k : k = [Handled(c) EXCEPT !.last_ack_pos = ack]
    OBVIOUS
  <1>5. PICK t : t = [hist.trace[c] EXCEPT
                        !.confirmed = hist.trace[c].confirmed \cup Named(c, id)]
    OBVIOUS
  <1>6. /\ k \in ClientState
        /\ k.authenticated = conn[c].authenticated /\ k.open = conn[c].open
        /\ k.client_id = conn[c].client_id /\ k.current_pos = conn[c].current_pos
        /\ k.last_ack_pos = ack
        /\ k.last_get_batch_id = conn[c].last_get_batch_id
        /\ k.last_get_end_pos = conn[c].last_get_end_pos
    <2>1. Handled(c) \in ClientState
      BY <1>2, HandledType
    <2> HIDE DEF ack
    <2>2. QED
      BY <1>2, <1>3, <1>4, <2>1 DEF Handled, ClientState
  <1>7. Named(c, id) \subseteq Position /\ Named(c, id) \subseteq EndPositions(c)
    <2>1. hist.trace[c].ends \subseteq Nat \X Position
      BY <1>2 DEF Trace
    <2>2. ASSUME NEW p \in Named(c, id)
          PROVE  p \in Position /\ p \in EndPositions(c)
      <3>1. PICK q \in hist.trace[c].ends : p = q[2]
        BY DEF Named
      <3>2. q[2] \in Position
        BY <2>1, <3>1
      <3>3. QED
        BY <3>1, <3>2 DEF EndPositions
    <2>3. QED
      BY <2>2
  <1>8. /\ t \in Trace /\ t.served = hist.trace[c].served /\ t.sent = hist.trace[c].sent
        /\ t.ends = hist.trace[c].ends /\ t.timed = hist.trace[c].timed
        /\ t.rolled = hist.trace[c].rolled
        /\ t.confirmed = hist.trace[c].confirmed \cup Named(c, id)
    BY <1>2, <1>5, <1>7 DEF Trace
  <1>9. /\ sessions' \in [ClientIds -> Session \cup {None}]
        /\ \A i \in ClientIds : i # cid => sessions'[i] = sessions[i]
        /\ sessions'[cid] # None
        /\ sessions'[cid].pattern = sessions[cid].pattern
        /\ sessions'[cid].last_ack_position =
             IF AckMatches(c, id) THEN end ELSE sessions[cid].last_ack_position
    <2>1. CASE AckMatches(c, id)
      <3>1. PICK new : new = [sessions[cid] EXCEPT !.last_ack_position = end]
        OBVIOUS
      <3>2. /\ new \in Session /\ new.pattern = sessions[cid].pattern
            /\ new.last_ack_position = end
        BY <1>3, <3>1 DEF Session
      <3>3. sessions' = [sessions EXCEPT ![cid] = new]
        BY <1>2, <1>3, <2>1, <3>1 DEF ClientAck
      <3>4. QED
        BY <1>2, <1>3, <2>1, <3>2, <3>3, SessionAssumption
    <2>2. CASE ~ AckMatches(c, id)
      <3>1. sessions' = sessions
        BY <2>2 DEF ClientAck
      <3>2. QED
        BY <1>2, <1>3, <2>2, <3>1
    <2>3. QED
      BY <2>1, <2>2
  <1>10. OwnOnly(c, k, t)
    <2>1. conn' = [conn EXCEPT ![c] = k]
      <3>1. conn' = [conn EXCEPT ![c] =
                       [Handled(c) EXCEPT !.last_ack_pos =
                          IF AckMatches(c, id) THEN end ELSE Handled(c).last_ack_pos]]
        BY DEF ClientAck
      <3>2. Handled(c).last_ack_pos = conn[c].last_ack_pos
        BY <1>2 DEF Handled, ClientState
      <3>3. QED
        BY <1>4, <3>1, <3>2
    <2>2. /\ hist' \in History /\ hist'.filter = hist.filter
          /\ hist'.trace = [hist.trace EXCEPT ![c] = t]
      <3>1. PICK a \in OptPos : hist' = [hist EXCEPT
                !.trace[c].confirmed = hist.trace[c].confirmed \cup Named(c, id),
                !.acked[cid] = a]
        <4>1. (IF AckMatches(c, id) THEN end ELSE hist.acked[cid]) \in OptPos
          BY <1>2, <1>3 DEF History
        <4>2. QED
          BY <1>2, <1>3, <4>1 DEF ClientAck, Named, History
      <3>2. /\ hist'.trace = [hist.trace EXCEPT ![c] = t]
            /\ hist'.filter = hist.filter
            /\ hist'.acked = [hist.acked EXCEPT ![cid] = a]
            /\ hist' = [trace |-> hist'.trace, filter |-> hist'.filter, acked |-> hist'.acked]
        BY <1>2, <1>5, <3>1 DEF History
      <3>3. hist'.trace \in [Readers -> Trace] /\ hist'.acked \in [ClientIds -> OptPos]
        <4>1. hist.acked \in [ClientIds -> OptPos]
          BY <1>2 DEF History
        <4>2. hist'.acked \in [ClientIds -> OptPos]
          BY <1>3, <3>2, <4>1
        <4>3. hist'.trace \in [Readers -> Trace]
          BY <1>2, <1>8, <3>2
        <4>4. QED
          BY <4>2, <4>3
      <3>4. QED
        BY <1>2, <3>2, <3>3 DEF History
    <2>3. \A i \in ClientIds \ IdsOf[c] : sessions'[i] = sessions[i]
      BY <1>3, <1>9
    <2>4. QED
      BY <1>1, <1>6, <1>8, <1>9, <2>1, <2>2, <2>3 DEF OwnOnly
  <1>11. /\ conn' \in [Readers -> ClientState] /\ conn'[c] = k /\ hist'.trace[c] = t
         /\ \A d \in Readers : d # c => ConnInv(d)'
    BY <1>10, OwnOnlyEffect
  <1>12. EndPositions(c)' = EndPositions(c)
    BY <1>8, <1>11 DEF EndPositions
  <1>13. ConnInv(c)'
    <2>1. hist'.filter = hist.filter /\ call'[c].pc = "idle"
      BY <1>1, <1>2, <1>10 DEF OwnOnly
    <2>2. Identified(c)' /\ HasSession(c)' /\ SentFiltered(c)'
      <3>1. Identified(c)'
        BY <1>2, <1>6, <1>11, <2>1 DEF ConnInv, Identified
      <3>2. HasSession(c)'
        BY <1>2, <1>6, <1>9, <1>11, <2>1 DEF ConnInv, HasSession
      <3>3. SentFiltered(c)'
        BY <1>1, <1>2, <1>6, <1>8, <1>11, <2>1 DEF ConnInv, SentFiltered
      <3>4. QED
        BY <3>1, <3>2, <3>3
    <2>3. AcksNamed(c)'
      <3>1. AcksNamed(c)
        BY <1>2 DEF ConnInv
      <3>2. AckMatches(c, id) => end \in Named(c, id)
        <4>1. SUFFICES ASSUME AckMatches(c, id)
                       PROVE  end \in Named(c, id)
          OBVIOUS
        <4>2. <<id, end>> \in hist.trace[c].ends
          BY <3>1, <4>1 DEF AcksNamed, AckMatches
        <4>3. QED
          BY <4>2 DEF Named
      <3>3. SessionAck(c) = sessions[cid].last_ack_position
        BY <1>3 DEF SessionAck
      <3>4. SessionAck(c)' = IF AckMatches(c, id) THEN end
                             ELSE sessions[cid].last_ack_position
        BY <1>6, <1>9, <1>11 DEF SessionAck
      <3>5. t.confirmed \subseteq EndPositions(c)
        BY <1>7, <1>8, <3>1 DEF AcksNamed
      <3>6. k.last_ack_pos # None => k.last_ack_pos \in t.confirmed
        BY <1>6, <1>8, <3>1, <3>2 DEF AcksNamed
      <3>7. SessionAck(c)' # None => SessionAck(c)' \in t.confirmed
        BY <1>2, <1>8, <3>1, <3>2, <3>3, <3>4 DEF AcksNamed
      <3>8. k.last_get_end_pos # None =>
               <<k.last_get_batch_id, k.last_get_end_pos>> \in t.ends
        BY <1>6, <1>8, <3>1 DEF AcksNamed
      <3>9. QED
        BY <1>11, <1>12, <3>5, <3>6, <3>7, <3>8 DEF AcksNamed
    <2>4. CursorsAreEnds(c)'
      BY <1>2, <1>6, <1>8, <1>11, <1>12, <2>1 DEF ConnInv, CursorsAreEnds
    <2>5. EndsCover(c)'
      BY <1>1, <1>2, <1>8, <1>11, <1>12, EndsCoverStays DEF ConnInv
    <2>6. CursorIsAhead(c)'
      BY <1>1, <1>2, <1>6, <1>8, <1>11, <2>1 DEF ConnInv, CursorIsAhead
    <2>7. QED
      BY <2>2, <2>3, <2>4, <2>5, <2>6 DEF ConnInv
  <1>14. QED
    <2>1. \A d \in Readers : ConnInv(d)'
      BY <1>11, <1>13
    <2>2. QED
      BY <1>1, <1>10, <1>11, <2>1, ServerParts DEF ServerInv, ServerTypeOK, OwnOnly

-----------------------------------------------------------------------------
(* handle_get.                                                             *)

(* Where a Get starts: at the connection's own cursor, else at the ack of  *)
(* its session, else at the default start.                                 *)
LEMMA StartCursorIs ==
    ASSUME ServerInv, NEW c \in Readers, conn[c].authenticated
    PROVE  /\ StartCursor(c) \in Cursor
           /\ conn[c].current_pos # None => StartCursor(c) = conn[c].current_pos
           /\ ~ hist.trace[c].timed =>
                \E p \in EndPositions(c) \cup {DefaultStart} : StartCursor(c) = AtPosition(p)
  <1>1. /\ conn[c] \in ClientState /\ ConnInv(c)
        /\ sessions \in [ClientIds -> Session \cup {None}]
        /\ conn[c].client_id \in ClientIds
    BY Typed
  <1>2. SessionAck(c) \in OptPos
    BY <1>1 DEF SessionAck, Session, OptPos
  <1>3. CASE conn[c].current_pos # None
    <2>1. StartCursor(c) = conn[c].current_pos
      BY <1>3 DEF StartCursor
    <2>2. QED
      BY <1>1, <1>3, <2>1 DEF ClientState, ConnInv, CursorsAreEnds
  <1>4. CASE conn[c].current_pos = None /\ SessionAck(c) # None
    <2>1. StartCursor(c) = AtPosition(SessionAck(c))
      BY <1>4 DEF StartCursor
    <2>2. SessionAck(c) \in EndPositions(c) /\ SessionAck(c) \in Position
      BY <1>1, <1>2, <1>4 DEF ConnInv, AcksNamed, OptPos
    <2>3. QED
      BY <1>4, <2>1, <2>2, CursorType
  <1>5. CASE conn[c].current_pos = None /\ SessionAck(c) = None
    <2>1. StartCursor(c) = AtPosition(DefaultStart)
      BY <1>5 DEF StartCursor
    <2>2. QED
      BY <1>5, <2>1, CursorType, DefaultStartAssumption
  <1>6. QED
    BY <1>3, <1>4, <1>5

LEMMA BatchSizeType ==
    ASSUME NEW fetch \in Int
    PROVE  BatchSize(fetch) \in Nat
  BY LimitsAssumption DEF BatchSize, Least

(* The call begins, from a cursor the connection may read from.            *)
LEMMA GetKeeps ==
    ASSUME IdsDisjoint, ServerInv, NEW c \in Readers, NEW fetch \in Int, Get(c, fetch)
    PROVE  ServerInv'
  <1>1. /\ Authenticated(c) /\ UNCHANGED <<sessions, phase>>
        /\ UNCHANGED <<buffer, batch_id_seq, latest_position, first_position,
                       evicted_watermark, running, reply, log>>
    BY DEF Get, GetBatch
  <1>2. /\ conn \in [Readers -> ClientState] /\ conn[c] \in ClientState /\ ConnInv(c)
        /\ hist.trace \in [Readers -> Trace] /\ hist.trace[c] \in Trace /\ hist \in History
        /\ sessions \in [ClientIds -> Session \cup {None}]
        /\ call \in [Readers -> CallState]
        /\ conn[c].authenticated /\ conn[c].open /\ call[c].pc = "idle"
    BY <1>1, Typed DEF Authenticated, Ready, ServerInv
  <1>3. PICK k \in ClientState : k = Handled(c)
    BY <1>2, HandledType
  <1>4. HasOwnCursor(c) \in BOOLEAN
    BY DEF HasOwnCursor
  <1>5. PICK t : t = [hist.trace[c] EXCEPT !.own = HasOwnCursor(c)]
    OBVIOUS
  <1>6. /\ k.authenticated = conn[c].authenticated /\ k.open = conn[c].open
        /\ k.client_id = conn[c].client_id /\ k.current_pos = conn[c].current_pos
        /\ k.last_ack_pos = conn[c].last_ack_pos
        /\ k.last_get_batch_id = conn[c].last_get_batch_id
        /\ k.last_get_end_pos = conn[c].last_get_end_pos
    BY <1>2, <1>3 DEF Handled, ClientState
  <1>7. /\ t \in Trace /\ t.served = hist.trace[c].served /\ t.sent = hist.trace[c].sent
        /\ t.ends = hist.trace[c].ends /\ t.confirmed = hist.trace[c].confirmed
        /\ t.timed = hist.trace[c].timed /\ t.rolled = hist.trace[c].rolled
    BY <1>2, <1>4, <1>5 DEF Trace
  <1>8. PICK state \in CallState :
           call' = [call EXCEPT ![c] = state] /\ state.cursor = StartCursor(c)
    <2>1. StartCursor(c) \in Cursor /\ BatchSize(fetch) \in Nat
      BY <1>2, StartCursorIs, BatchSizeType
    <2>2. PICK cursor \in Cursor, size \in Nat :
             cursor = StartCursor(c) /\ size = BatchSize(fetch)
      BY <2>1
    <2>3. [pc |-> "check", cursor |-> cursor, size |-> size, woken |-> FALSE] \in CallState
      BY DEF CallState
    <2>4. QED
      BY <2>2, <2>3 DEF Get, GetBatch
  <1>9. call' \in [Readers -> CallState] /\ call'[c].cursor = StartCursor(c)
    BY <1>2, <1>8
  <1>10. OwnOnly(c, k, t)
    <2>1. conn' = [conn EXCEPT ![c] = k]
      BY <1>3 DEF Get
    <2>2. /\ hist' \in History /\ hist'.filter = hist.filter
          /\ hist'.trace = [hist.trace EXCEPT ![c] = t]
      <3>1. hist' = [hist EXCEPT !.trace[c].own = HasOwnCursor(c)]
        BY DEF Get
      <3>2. hist'.trace = [hist.trace EXCEPT ![c] = t]
        BY <1>2, <1>5, <3>1 DEF History
      <3>3. hist'.trace \in [Readers -> Trace]
        BY <1>2, <1>7, <3>2
      <3>4. QED
        BY <1>2, <3>1, <3>2, <3>3 DEF History
    <2>3. \A d \in Readers : d # c => call'[d] = call[d]
      BY <1>2, <1>8
    <2>4. QED
      BY <1>1, <1>2, <1>7, <2>1, <2>2, <2>3 DEF OwnOnly
  <1>11. /\ conn' \in [Readers -> ClientState] /\ conn'[c] = k /\ hist'.trace[c] = t
         /\ \A d \in Readers : d # c => ConnInv(d)'
    BY <1>10, OwnOnlyEffect
  <1>12. EndPositions(c)' = EndPositions(c)
    BY <1>7, <1>11 DEF EndPositions
  <1>13. ConnInv(c)'
    <2>1. hist'.filter = hist.filter
      BY <1>10 DEF OwnOnly
    <2>2. Identified(c)' /\ HasSession(c)' /\ SentFiltered(c)'
      BY <1>1, <1>2, <1>6, <1>7, <1>11, <2>1
         DEF ConnInv, Identified, HasSession, SentFiltered
    <2>3. AcksNamed(c)'
      <3>1. AcksNamed(c)
        BY <1>2 DEF ConnInv
      <3>2. SessionAck(c)' = SessionAck(c)
        BY <1>1, <1>6, <1>11 DEF SessionAck
      <3>3. QED
        BY <1>6, <1>7, <1>11, <1>12, <3>1, <3>2 DEF AcksNamed
    <2>4. CursorsAreEnds(c)'
      <3>1. ~ t.timed =>
              \E p \in EndPositions(c) \cup {DefaultStart} : call'[c].cursor = AtPosition(p)
        BY <1>2, <1>7, <1>9, StartCursorIs
      <3>2. QED
        BY <1>2, <1>6, <1>7, <1>11, <1>12, <3>1 DEF ConnInv, CursorsAreEnds
    <2>5. EndsCover(c)'
      BY <1>1, <1>2, <1>7, <1>11, <1>12, EndsCoverStays DEF ConnInv
    <2>6. CursorIsAhead(c)'
      <3>1. k.current_pos # None => call'[c].cursor = k.current_pos
        BY <1>2, <1>6, <1>9, StartCursorIs
      <3>2. QED
        BY <1>1, <1>2, <1>6, <1>7, <1>11, <3>1 DEF ConnInv, CursorIsAhead
    <2>7. QED
      BY <2>2, <2>3, <2>4, <2>5, <2>6 DEF ConnInv
  <1>14. StoreTypeOK'
    BY <1>1, <1>9 DEF ServerInv, StoreInv, BufferInv, StoreTypeOK
  <1>15. StoreInv'
    BY <1>1, <1>14, FrameKeeps DEF ServerInv
  <1>16. \A d \in Readers : ConnInv(d)'
    BY <1>11, <1>13
  <1>17. QED
    BY <1>1, <1>10, <1>11, <1>14, <1>15, <1>16 DEF ServerInv, ServerTypeOK, OwnOnly

(* The order of positions, without the strict part.                        *)
LEMMA LeqOrder ==
    ASSUME NEW p \in Position, NEW q \in Position, NEW r \in Position
    PROVE  /\ PosLeq(p, p)
           /\ PosLeq(p, q) /\ PosLeq(q, r) => PosLeq(p, r)
           /\ PosLeq(p, q) /\ PosLeq(q, p) => p = q
           /\ PosLess(p, q) /\ PosLeq(q, r) => PosLess(p, r)
           /\ PosLeq(p, q) => ~ PosLess(q, p)
           /\ ~ PosLess(p, q) => PosLeq(q, p)
  BY PosOrder DEF PosLeq

(* The log is in binlog order.                                             *)
LEMMA OrderOf ==
    ASSUME NEW l \in Seq(Event), InOrder(l),
           NEW i \in 1 .. Len(l), NEW j \in 1 .. Len(l), i <= j
    PROVE  l[i].pos \in Position /\ l[j].pos \in Position /\ PosLeq(l[i].pos, l[j].pos)
  <1>1. l[i].pos \in Position /\ l[j].pos \in Position
    <2>1. l[i] \in Event /\ l[j] \in Event
      BY ElementOfSeq
    <2>2. QED
      BY <2>1 DEF Event
  <1>2. CASE i = j
    BY <1>1, <1>2 DEF PosLeq
  <1>3. CASE i # j
    <2>1. i < j
      BY <1>3
    <2>2. QED
      BY <1>1, <2>1 DEF InOrder
  <1>4. QED
    BY <1>2, <1>3

LEMMA LogOrder ==
    ASSUME StoreInv, NEW i \in 1 .. Len(log), NEW j \in 1 .. Len(log), i <= j
    PROVE  /\ log[i].pos \in Position /\ log[j].pos \in Position
           /\ PosLeq(log[i].pos, log[j].pos)
  BY OrderOf DEF StoreInv, BufferInv, StoreTypeOK, LogInv

(* get_batch's answer, as places in the log: from the first event the      *)
(* cursor wants to the end of a position group.                            *)
IsServed(r, lo, hi) ==
    LET cursor == call[r].cursor
        answer == reply'[r]
    IN  /\ lo \in Dropped + 1 .. Len(log) /\ hi \in lo .. Len(log)
        /\ Wanted(log[lo], cursor)
        /\ \A i \in Dropped + 1 .. lo - 1 : ~ Wanted(log[i], cursor)
        /\ Len(answer.events) = hi - lo + 1
        /\ \A i \in 1 .. hi - lo + 1 : answer.events[i] = log[lo + i - 1]
        /\ Rows(answer.events) = lo .. hi
        /\ EndOf(answer.events) = log[hi].pos
        /\ answer.batch_id = batch_id_seq

LEMMA ServedPlaces ==
    ASSUME StoreInv, NEW r \in Readers, GetServe(r)
    PROVE  \E lo, hi \in 1 .. Len(log) : IsServed(r, lo, hi)
  <1> DEFINE D == Dropped
             b == Len(buffer)
             l == Len(log)
             cursor == call[r].cursor
             events == reply'[r].events
  <1>1. PICK s \in 1 .. Len(buffer), e \in 1 .. Len(buffer) :
           /\ IsStart(s, call[r].cursor)
           /\ IsEnd(e, s, call[r].size)
           /\ GetReturn(r, [batch_id |-> batch_id_seq, events |-> SubSeq(buffer, s, e),
                            cursor |-> call[r].cursor, seen |-> Len(log),
                            watermark |-> evicted_watermark])
    BY DEF GetServe
  <1>2. /\ call[r].size \in Nat /\ b \in Nat /\ l \in Nat /\ buffer \in Seq(Event)
        /\ D = l - b /\ b <= l /\ BufferInv
        /\ \A i \in 1 .. b : buffer[i] = log[D + i]
        /\ reply \in [Readers -> Reply]
    BY DEF StoreInv, BufferInv, StoreTypeOK, CallState, BufferIsNewestEvents, Dropped
  <1>3. e \in s .. b
    <2>1. s <= BaseEnd(s, call[r].size) /\ BaseEnd(s, call[r].size) <= e
      BY <1>1, <1>2, ServedRange
    <2>2. BaseEnd(s, call[r].size) \in Int
      BY <1>2 DEF BaseEnd, Least
    <2>3. QED
      BY <1>2, <2>1, <2>2
  <1>4. events = SubSeq(buffer, s, e) /\ reply'[r].batch_id = batch_id_seq
    BY <1>1, <1>2 DEF GetReturn
  <1>5. Rows(events) = D + s .. D + e /\ EndOf(events) = log[D + e].pos
    BY <1>2, <1>3, <1>4, SliceRows
  <1>6. Len(events) = e - s + 1 /\ \A i \in 1 .. e - s + 1 : events[i] = buffer[s + i - 1]
    <2>1. s \in 1 .. Len(buffer) + 1 /\ e \in s - 1 .. Len(buffer)
      BY <1>2, <1>3
    <2>2. QED
      BY <1>2, <1>4, <2>1, Slice
  <1>7. Wanted(buffer[s], cursor) /\ \A i \in 1 .. s - 1 : ~ Wanted(buffer[i], cursor)
    BY <1>1 DEF IsStart
  <1> HIDE DEF D, b, l, cursor, events
  <1> DEFINE lo == D + s
             hi == D + e
  <1>8. /\ lo \in D + 1 .. l /\ hi \in lo .. l /\ lo \in 1 .. l /\ hi \in 1 .. l
        /\ hi - lo + 1 = e - s + 1
    BY <1>2, <1>3 DEF b
  <1>9. Wanted(log[lo], cursor)
    BY <1>2, <1>7 DEF b
  <1>10. ASSUME NEW i \in D + 1 .. lo - 1
         PROVE  ~ Wanted(log[i], cursor)
    <2>1. i - D \in 1 .. s - 1 /\ i - D \in 1 .. b /\ D + (i - D) = i
      BY <1>2, <1>3 DEF b
    <2>2. QED
      BY <1>2, <1>7, <2>1
  <1>11. ASSUME NEW i \in 1 .. hi - lo + 1
         PROVE  events[i] = log[lo + i - 1]
    <2>1. i \in 1 .. e - s + 1 /\ s + i - 1 \in 1 .. b /\ D + (s + i - 1) = lo + i - 1
      BY <1>2, <1>3, <1>8 DEF b
    <2>2. QED
      BY <1>2, <1>6, <2>1
  <1>12. Len(events) = hi - lo + 1 /\ Rows(events) = lo .. hi /\ EndOf(events) = log[hi].pos
    BY <1>5, <1>6, <1>8
  <1>13. IsServed(r, lo, hi)
    BY <1>4, <1>8, <1>9, <1>10, <1>11, <1>12 DEF IsServed, D, l, cursor, events
  <1>14. QED
    BY <1>8, <1>13 DEF l

(* What an answer covers: all that is held up to its end, if all that is   *)
(* held up to its cursor was covered before.                               *)
LEMMA DeliveryCovers ==
    ASSUME StoreInv, NEW r \in Readers, NEW lo, NEW hi, IsServed(r, lo, hi),
           NEW p \in Position, call[r].cursor = AtPosition(p),
           NEW i \in Dropped + 1 .. Len(log), PosLeq(log[i].pos, log[hi].pos)
    PROVE  PosLeq(log[i].pos, p) \/ i \in lo .. hi \/ log[i].pos = log[hi].pos
  <1>1. /\ Len(log) \in Nat /\ Dropped \in Nat
        /\ lo \in Dropped + 1 .. Len(log) /\ hi \in lo .. Len(log)
    BY DEF IsServed, StoreInv, BufferInv, BufferIsNewestEvents, StoreTypeOK, Dropped
  <1>2. i \in 1 .. Len(log) /\ hi \in 1 .. Len(log)
    BY <1>1
  <1>3. log[i].pos \in Position /\ log[hi].pos \in Position
    BY <1>2, LogOrder
  <1>4. CASE i \in Dropped + 1 .. lo - 1
    <2>1. ~ Wanted(log[i], call[r].cursor)
      BY <1>4 DEF IsServed
    <2>2. ~ PosLess(p, log[i].pos)
      BY <2>1 DEF Wanted, AtPosition
    <2>3. QED
      BY <1>3, <2>2, LeqOrder
  <1>5. CASE i > hi
    <2>1. PosLeq(log[hi].pos, log[i].pos)
      BY <1>1, <1>2, <1>5, LogOrder
    <2>2. QED
      BY <1>3, <2>1, LeqOrder
  <1>6. i \in Dropped + 1 .. lo - 1 \/ i \in lo .. hi \/ i > hi
    BY <1>1
  <1>7. QED
    BY <1>4, <1>5, <1>6

(* Every event of an answer read from a position lies after it.            *)
LEMMA DeliveryAfterCursor ==
    ASSUME StoreInv, NEW r \in Readers, NEW lo, NEW hi, IsServed(r, lo, hi),
           call[r].cursor.timestamp = 0, call[r].cursor.pos \in Position,
           NEW i \in lo .. hi
    PROVE  PosLess(call[r].cursor.pos, log[i].pos)
  <1>1. /\ Len(log) \in Nat /\ Dropped \in Nat
        /\ lo \in Dropped + 1 .. Len(log) /\ hi \in lo .. Len(log)
    BY DEF IsServed, StoreInv, BufferInv, BufferIsNewestEvents, StoreTypeOK, Dropped
  <1>2. lo \in 1 .. Len(log) /\ i \in 1 .. Len(log) /\ lo <= i
    BY <1>1
  <1>3. PosLess(call[r].cursor.pos, log[lo].pos)
    BY DEF IsServed, Wanted
  <1>4. QED
    BY <1>2, <1>3, LogOrder, LeqOrder

(* A connection's own cursor, when it is a position.                       *)
LEMMA PositionCursor ==
    ASSUME NEW cursor \in Cursor
    PROVE  cursor.timestamp = 0 => cursor.pos \in Position
  BY DEF Cursor, PosCursor, TimeCursor

(* handle_get after the await: the cursor moves to the end of the batch.   *)
LEMMA DeliverKeeps ==
    ASSUME IdsDisjoint, StartIsFirst, ServerInv, NEW c \in Readers, Deliver(c)
    PROVE  ServerInv'
  <1> DEFINE events == reply'[c].events
             id == batch_id_seq
             trace == hist.trace[c]
             cid == conn[c].client_id
  <1>1. /\ GetServe(c) /\ UNCHANGED <<sessions, phase>>
        /\ UNCHANGED <<buffer, latest_position, first_position,
                       evicted_watermark, running, log>>
        /\ call[c].pc = "check"
    BY DEF Deliver, GetServe
  <1>2. /\ conn \in [Readers -> ClientState] /\ conn[c] \in ClientState /\ ConnInv(c)
        /\ hist.trace \in [Readers -> Trace] /\ trace \in Trace /\ hist \in History
        /\ sessions \in [ClientIds -> Session \cup {None}]
        /\ call \in [Readers -> CallState] /\ call[c].cursor \in Cursor
        /\ reply \in [Readers -> Reply] /\ id \in Nat /\ Len(log) \in Nat
        /\ StoreInv
    BY Typed DEF ServerInv, CallState, ServerTypeOK, StoreTypeOK
  <1>3. conn[c].authenticated /\ conn[c].open
    BY <1>1, <1>2 DEF ConnInv, Identified
  <1>4. PICK lo \in 1 .. Len(log), hi \in 1 .. Len(log) : IsServed(c, lo, hi)
    BY <1>1, <1>2, ServedPlaces
  <1> DEFINE end == log[hi].pos
  <1>5. /\ EndOf(events) = end /\ reply'[c].batch_id = id /\ Rows(events) = lo .. hi
        /\ end \in Position
    BY <1>2, <1>4, LogOrder DEF IsServed
  <1>6. PICK k : k = [conn[c] EXCEPT !.current_pos = AtPosition(end),
                                     !.last_get_batch_id = id,
                                     !.last_get_end_pos = end]
    OBVIOUS
  <1>7. PICK sent : sent = RowsSent(c, events)
    OBVIOUS
  <1>8. PICK t : t = [trace EXCEPT !.served = trace.served \cup (lo .. hi),
                                   !.sent = trace.sent \cup sent,
                                   !.ends = trace.ends \cup {<<id, end>>}]
    OBVIOUS
  <1>9. conn' = [conn EXCEPT ![c] = k]
    BY <1>2, <1>5, <1>6 DEF Deliver, NextCursor
  <1>10. hist' = [hist EXCEPT !.trace[c].served = trace.served \cup (lo .. hi),
                              !.trace[c].sent = trace.sent \cup sent,
                              !.trace[c].ends = trace.ends \cup {<<id, end>>}]
    BY <1>2, <1>5, <1>7 DEF Deliver, History, Trace
  <1>11. /\ k \in ClientState
         /\ k.authenticated /\ k.open /\ k.client_id = cid
         /\ k.current_pos = AtPosition(end) /\ k.last_get_end_pos = end
         /\ k.last_ack_pos = conn[c].last_ack_pos
         /\ k.last_get_batch_id = id
    <2>1. PICK cursor \in Cursor : cursor = AtPosition(end)
      BY <1>5, CursorType
    <2>2. k = [conn[c] EXCEPT !.current_pos = cursor, !.last_get_batch_id = id,
                              !.last_get_end_pos = end]
      BY <1>6, <2>1
    <2> HIDE DEF id, end
    <2>3. QED
      BY <1>2, <1>3, <1>5, <2>1, <2>2 DEF ClientState, OptPos
  <1>12. lo .. hi \subseteq 1 .. Len(log) /\ lo .. hi \subseteq Nat
    BY <1>2
  <1>13. /\ sent \subseteq lo .. hi
         /\ \A i \in sent : log[i].table \in hist.filter[cid]
    <2>1. /\ sessions[cid] # None
          /\ sessions[cid].pattern = hist.filter[cid]
      BY <1>2, <1>3 DEF ConnInv, HasSession
    <2>2. ASSUME NEW i \in sent
          PROVE  i \in lo .. hi /\ log[i].table \in hist.filter[cid]
      <3>1. PICK j \in 1 .. Len(events) : Passes(c, events[j]) /\ i = events[j].row
        BY <1>7 DEF RowsSent
      <3>2. /\ Len(events) = hi - lo + 1 /\ lo + j - 1 \in lo .. hi
            /\ events[j] = log[lo + j - 1]
        BY <1>2, <1>4 DEF IsServed
      <3>3. lo + j - 1 \in 1 .. Len(log)
        BY <1>12, <3>2
      <3>4. log[lo + j - 1].row = lo + j - 1
        BY <1>2, <3>3 DEF StoreInv, BufferInv, LogInv, RowsAreIndices
      <3>5. i = lo + j - 1
        BY <3>1, <3>2, <3>4
      <3>6. events[j].table \in hist.filter[cid]
        BY <2>1, <3>1 DEF Passes
      <3>7. QED
        BY <3>2, <3>5, <3>6
    <2>3. QED
      BY <2>2
  <1> HIDE DEF events, id, end
  <1>14. /\ t \in Trace
         /\ t.served = trace.served \cup (lo .. hi) /\ t.sent = trace.sent \cup sent
         /\ t.ends = trace.ends \cup {<<id, end>>}
         /\ t.confirmed = trace.confirmed /\ t.timed = trace.timed
         /\ t.rolled = trace.rolled
    <2>1. trace.served \cup (lo .. hi) \in SUBSET Nat /\ trace.sent \cup sent \in SUBSET Nat
      BY <1>2, <1>12, <1>13 DEF Trace
    <2>2. trace.ends \cup {<<id, end>>} \in SUBSET (Nat \X Position)
      <3>1. trace.ends \in SUBSET (Nat \X Position)
        BY <1>2 DEF Trace
      <3>2. <<id, end>> \in Nat \X Position
        BY <1>2, <1>5
      <3>3. QED
        BY <3>1, <3>2
    <2>3. QED
      BY <1>2, <1>8, <2>1, <2>2 DEF Trace
  <1>15. call' = [call EXCEPT ![c] = Idle]
    BY <1>1 DEF GetServe, GetReturn
  <1>16. OwnOnly(c, k, t)
    <2>1. /\ hist' \in History /\ hist'.filter = hist.filter
          /\ hist'.trace = [hist.trace EXCEPT ![c] = t]
      <3>1. hist'.trace = [hist.trace EXCEPT ![c] = t]
        BY <1>2, <1>8, <1>10 DEF History
      <3>2. hist'.trace \in [Readers -> Trace]
        BY <1>2, <1>14, <3>1
      <3>3. hist'.filter = hist.filter /\ hist'.acked = hist.acked
            /\ hist' = [trace |-> hist'.trace, filter |-> hist'.filter, acked |-> hist'.acked]
        BY <1>2, <1>10 DEF History
      <3>4. QED
        BY <1>2, <3>1, <3>2, <3>3 DEF History
    <2>2. \A d \in Readers : d # c => call'[d] = call[d]
      BY <1>2, <1>15
    <2>3. QED
      BY <1>1, <1>2, <1>9, <1>11, <1>14, <2>1, <2>2 DEF OwnOnly
  <1>17. /\ conn' \in [Readers -> ClientState] /\ conn'[c] = k /\ hist'.trace[c] = t
         /\ \A d \in Readers : d # c => ConnInv(d)'
    BY <1>16, OwnOnlyEffect
  <1>18. EndPositions(c)' = EndPositions(c) \cup {end}
    <2>1. EndPositions(c)' = {q[2] : q \in trace.ends \cup {<<id, end>>}}
      BY <1>14, <1>17 DEF EndPositions
    <2>2. <<id, end>>[2] = end
      OBVIOUS
    <2>3. {q[2] : q \in trace.ends \cup {<<id, end>>}}
          = {q[2] : q \in trace.ends} \cup {<<id, end>>[2]}
      OBVIOUS
    <2>4. QED
      BY <2>1, <2>2, <2>3 DEF EndPositions
  <1>19. call'[c].pc = "idle" /\ hist'.filter = hist.filter
    BY <1>2, <1>15, <1>16 DEF Idle, OwnOnly
  <1>20. Identified(c)' /\ HasSession(c)'
    BY <1>1, <1>2, <1>3, <1>11, <1>17, <1>19 DEF ConnInv, Identified, HasSession
  <1>21. SentFiltered(c)'
    <2>1. \A i \in trace.sent : i \in 1 .. Len(log) /\ log[i].table \in hist.filter[cid]
      BY <1>2 DEF ConnInv, SentFiltered
    <2>2. \A i \in t.sent : i \in 1 .. Len(log) /\ log[i].table \in hist.filter[cid]
      BY <1>12, <1>13, <1>14, <2>1
    <2>3. QED
      BY <1>1, <1>11, <1>17, <1>19, <2>2 DEF SentFiltered
  <1>22. AcksNamed(c)'
    <2>1. AcksNamed(c)
      BY <1>2 DEF ConnInv
    <2>2. SessionAck(c)' = SessionAck(c)
      BY <1>1, <1>11, <1>17 DEF SessionAck
    <2>3. <<k.last_get_batch_id, k.last_get_end_pos>> \in t.ends
      BY <1>11, <1>14
    <2>4. QED
      BY <1>3, <1>11, <1>14, <1>17, <1>18, <2>1, <2>2, <2>3 DEF AcksNamed
  <1>23. CursorsAreEnds(c)'
    BY <1>11, <1>17, <1>18, <1>19 DEF CursorsAreEnds
  <1>24. EndsCover(c)'
    <2>1. EndsCover(c)
      BY <1>2 DEF ConnInv
    <2>2. UNCHANGED <<log, Dropped>>
      BY <1>1 DEF Dropped
    <2>3. \A p \in EndPositions(c) \cup {end} : \E i \in 1 .. Len(log) : log[i].pos = p
      BY <2>1 DEF EndsCover, end
    <2>4. ASSUME ~ trace.timed, NEW p \in EndPositions(c) \cup {end},
                 NEW i \in Dropped + 1 .. Len(log), PosLeq(log[i].pos, p)
          PROVE  i \in t.served \/ log[i].pos \in EndPositions(c) \cup {end}
      <3>1. CASE p \in EndPositions(c)
        <4>1. Covered(c, i)
          BY <2>1, <2>4, <3>1 DEF EndsCover
        <4>2. QED
          BY <1>14, <4>1 DEF Covered
      <3>2. CASE p = end
        <4>1. PICK q \in EndPositions(c) \cup {DefaultStart} : call[c].cursor = AtPosition(q)
          BY <1>1, <1>2, <2>4 DEF ConnInv, CursorsAreEnds
        <4>2. q \in Position
          <5>1. EndPositions(c) \subseteq Position
            BY <1>2 DEF EndPositions, Trace
          <5>2. QED
            BY <5>1, DefaultStartAssumption
        <4>3. PosLeq(log[i].pos, q) \/ i \in lo .. hi \/ log[i].pos = end
          BY <1>2, <1>4, <2>4, <3>2, <4>1, <4>2, DeliveryCovers DEF end
        <4>4. CASE PosLeq(log[i].pos, q) /\ q \in EndPositions(c)
          <5>1. Covered(c, i)
            BY <2>1, <2>4, <4>4 DEF EndsCover
          <5>2. QED
            BY <1>14, <5>1 DEF Covered
        <4>5. CASE PosLeq(log[i].pos, q) /\ q = DefaultStart
          <5>1. i \in 1 .. Len(log)
            BY <1>2 DEF StoreInv, BufferInv, BufferIsNewestEvents, StoreTypeOK, Dropped
          <5>2. log[i].pos \in Positions /\ log[i].pos \in Position
            BY <5>1, EventsAssumption DEF ServerInv
          <5>3. PosLess(DefaultStart, log[i].pos)
            BY <5>2 DEF StartIsFirst
          <5>4. QED
            BY <4>2, <4>5, <5>2, <5>3, LeqOrder
        <4>6. QED
          BY <1>14, <4>3, <4>4, <4>5
      <3>3. QED
        BY <2>4, <3>1, <3>2
    <2>5. QED
      BY <1>14, <1>17, <1>18, <2>2, <2>3, <2>4 DEF EndsCover, Covered
  <1>25. CursorIsAhead(c)'
    <2>1. AtPosition(end) # None /\ AtPosition(end).timestamp = 0 /\ AtPosition(end).pos = end
      BY <1>5, CursorType, NoneAssumption DEF AtPosition
    <2>2. ASSUME ~ trace.rolled, NEW i \in t.served
          PROVE  i \in 1 .. Len(log) /\ PosLeq(log[i].pos, end)
      <3>1. CASE i \in lo .. hi
        <4>1. i \in 1 .. Len(log) /\ i <= hi
          BY <1>12, <3>1
        <4>2. QED
          BY <1>2, <4>1, LogOrder DEF end
      <3>2. CASE i \in trace.served
        <4>1. CursorIsAhead(c)
          BY <1>2 DEF ConnInv
        <4>2. /\ conn[c].current_pos # None /\ conn[c].current_pos.timestamp = 0
              /\ i \in 1 .. Len(log) /\ PosLeq(log[i].pos, conn[c].current_pos.pos)
          BY <2>2, <3>2, <4>1 DEF CursorIsAhead
        <4>3. call[c].cursor = conn[c].current_pos
          BY <1>1, <4>1, <4>2 DEF CursorIsAhead
        <4>4. call[c].cursor.timestamp = 0 /\ call[c].cursor.pos \in Position
          BY <1>2, <4>2, <4>3, PositionCursor
        <4>5. hi \in lo .. hi
          BY <1>4 DEF IsServed
        <4>6. PosLess(call[c].cursor.pos, end)
          BY <1>2, <1>4, <4>4, <4>5, DeliveryAfterCursor DEF end
        <4>7. log[i].pos \in Position
          BY <1>2, <4>2, LogOrder
        <4>8. PosLeq(call[c].cursor.pos, end)
          BY <4>6 DEF PosLeq
        <4>9. QED
          BY <1>5, <4>2, <4>3, <4>4, <4>7, <4>8, LeqOrder
      <3>3. QED
        BY <1>14, <2>2, <3>1, <3>2
    <2>3. QED
      BY <1>1, <1>11, <1>14, <1>17, <1>19, <2>1, <2>2 DEF CursorIsAhead
  <1>26. StoreInv'
    BY <1>1, <1>2, ReaderPreserves DEF ReaderStep
  <1>27. \A d \in Readers : ConnInv(d)'
    BY <1>17, <1>20, <1>21, <1>22, <1>23, <1>24, <1>25 DEF ConnInv
  <1>28. QED
    BY <1>1, <1>16, <1>17, <1>26, <1>27 DEF ServerInv, ServerTypeOK, OwnOnly, StoreInv, BufferInv

(* The rest of get_batch while a Get waits: no connection is affected.     *)
LEMMA WaitKeeps ==
    ASSUME ServerInv, NEW c \in Readers,
           GetMiss(c) \/ GetWait(c) \/ GetWoken(c) \/ GetTimeout(c),
           UNCHANGED serverVars
    PROVE  ServerInv'
  <1>1. UNCHANGED <<buffer, log, conn, sessions, phase, hist>>
    BY DEF GetMiss, GetWait, GetWoken, GetTimeout, serverVars
  <1>2. StoreInv'
    BY ReaderPreserves DEF ReaderStep, ServerInv
  <1>3. ASSUME NEW d \in Readers
        PROVE  ConnInv(d)'
    <2>1. ConnInv(d) /\ Len(log) \in Nat /\ call \in [Readers -> CallState] /\ call[d] \in CallState
      BY Typed
    <2>2. call'[d].pc # "idle" => call[d].pc # "idle" /\ call'[d].cursor = call[d].cursor
      <3>1. CASE d # c
        BY <2>1, <3>1 DEF GetMiss, GetWait, GetWoken, GetTimeout, GetReturn
      <3>2. CASE d = c
        BY <2>1, <3>2 DEF GetMiss, GetWait, GetWoken, GetTimeout, GetReturn, Idle, CallState
      <3>3. QED
        BY <3>1, <3>2
    <2>3. Undisturbed(d)
      BY <1>1, <2>2 DEF Undisturbed
    <2>4. QED
      BY <1>1, <2>1, <2>3, UndisturbedInv
  <1>4. QED
    BY <1>1, <1>2, <1>3 DEF ServerInv, ServerTypeOK, StoreInv, BufferInv

(* A put adds events at the positions the environment offers.              *)
LEMMA PutPositions ==
    ASSUME ServerInv, Put
    PROVE  /\ LogExtends
           /\ \A i \in 1 .. Len(log') : log'[i].pos \in Positions
           /\ \A d \in Readers : /\ call'[d].pc = call[d].pc
                                 /\ call'[d].cursor = call[d].cursor
           /\ Dropped \in Nat /\ Dropped' \in Nat /\ Dropped <= Dropped'
  <1>1. log \in Seq(Event) /\ Len(log) \in Nat /\ StoreInv
        /\ \A d \in Readers : call[d] \in CallState
    BY DEF ServerInv, ServerTypeOK, StoreTypeOK
  <1>2. PICK n \in 1 .. MaxBatch : \E headers \in [1 .. n -> Header] :
           PutBatch(Numbered(headers))
    BY DEF Put
  <1>3. PICK headers \in [1 .. n -> Header] : PutBatch(Numbered(headers))
    BY <1>2
  <1>4. PICK events : events = Numbered(headers)
    OBVIOUS
  <1>5. /\ events \in Seq(Event) /\ Len(events) = n /\ n \in Nat
        /\ \A i \in 1 .. n : events[i].pos \in Positions
    <2>1. /\ events \in Seq(Event) /\ Len(events) = n
          /\ \A i \in 1 .. n : events[i].pos = headers[i].pos
      BY <1>1, <1>4, NumberedType
    <2>2. \A i \in 1 .. n : headers[i].pos \in Positions
      BY DEF Header
    <2>3. QED
      BY <2>1, <2>2
  <1>6. /\ log' = log \o events
        /\ call' = [r \in Readers |-> [call[r] EXCEPT !.woken = call[r].pc # "idle"]]
    BY <1>3, <1>4 DEF PutBatch, NotifyWaiters
  <1>7. /\ Len(log \o events) = Len(log) + Len(events)
        /\ \A i \in 1 .. Len(log) : (log \o events)[i] = log[i]
        /\ \A i \in 1 .. Len(events) : (log \o events)[Len(log) + i] = events[i]
    <2>1. log \in Seq(Event) /\ events \in Seq(Event)
      BY <1>1, <1>5
    <2>2. QED
      BY <2>1, Joined
  <1>8. LogExtends
    BY <1>1, <1>5, <1>6, <1>7 DEF LogExtends
  <1>9. ASSUME NEW i \in 1 .. Len(log')
        PROVE  log'[i].pos \in Positions
    <2>1. CASE i <= Len(log)
      <3>1. i \in 1 .. Len(log) /\ log'[i] = log[i]
        BY <1>1, <1>6, <1>7, <2>1
      <3>2. QED
        BY <3>1 DEF ServerInv
    <2>2. CASE ~ (i <= Len(log))
      <3>1. i - Len(log) \in 1 .. n /\ Len(log) + (i - Len(log)) = i
        BY <1>1, <1>5, <1>6, <1>7, <2>2
      <3>2. log'[i] = events[i - Len(log)]
        BY <1>5, <1>6, <1>7, <3>1
      <3>3. QED
        BY <1>5, <3>1, <3>2
    <2>3. QED
      BY <2>1, <2>2
  <1>10. ASSUME NEW d \in Readers
         PROVE  call'[d].pc = call[d].pc /\ call'[d].cursor = call[d].cursor
    BY <1>1, <1>6 DEF CallState
  <1>11. Dropped \in Nat /\ Dropped' \in Nat /\ Dropped <= Dropped'
    <2>1. StoreTypeOK /\ BufferIsNewestEvents /\ PutBatch(events)
      BY <1>1, <1>3, <1>4 DEF StoreInv, BufferInv, StoreTypeOK
    <2>2. Dropped' = Dropped + DrainCount(Len(events)) + SkipCount(Len(events))
      BY <1>5, <2>1, PutKeepsNewest
    <2>3. Len(buffer) \in Nat /\ Len(log) \in Nat /\ Len(buffer) <= Capacity
          /\ Len(buffer) <= Len(log) /\ Len(events) \in Nat \ {0}
      BY <1>5, <2>1 DEF StoreTypeOK, BufferIsNewestEvents, PutBatch
    <2>4. DrainCount(Len(events)) \in Nat /\ SkipCount(Len(events)) \in Nat
      BY <2>3, Cuts
    <2>5. Dropped \in Nat
      BY <2>3 DEF Dropped
    <2>6. QED
      BY <2>2, <2>4, <2>5
  <1>12. QED
    BY <1>8, <1>9, <1>10, <1>11

(* What is left of an interval when both ends of it can only move inwards. *)
LEMMA Narrower ==
    ASSUME NEW m \in Nat, NEW n \in Nat, NEW k \in Nat, NEW l \in Nat, m <= n,
           NEW i \in n + 1 .. l, i <= k
    PROVE  i \in m + 1 .. k /\ i \in 1 .. k
  OBVIOUS

(* The sink appends: what is new lies at or after everything a connection  *)
(* has been given, so it is covered or still ahead.                        *)
LEMMA FeedKeeps == ASSUME ServerInv, Feed PROVE ServerInv'
  <1>1. Put /\ UNCHANGED <<conn, sessions, phase, hist>>
    BY DEF Feed, serverVars
  <1>2. /\ LogExtends
        /\ \A i \in 1 .. Len(log') : log'[i].pos \in Positions
        /\ \A d \in Readers : call'[d].pc = call[d].pc /\ call'[d].cursor = call[d].cursor
    BY <1>1, PutPositions
  <1>3. StoreInv /\ StoreInv'
    BY <1>1, PutPreserves DEF ServerInv
  <1>4. Dropped \in Nat /\ Dropped' \in Nat /\ Dropped <= Dropped'
    BY <1>1, PutPositions
  <1>5. ASSUME NEW d \in Readers
        PROVE  ConnInv(d)'
    <2>1. ConnInv(d)
      BY Typed
    <2>2. Undisturbed(d)
      BY <1>1, <1>2 DEF Undisturbed
    <2>3. EndPositions(d)' = EndPositions(d)
      BY <1>1 DEF EndPositions
    <2>4. EndsCover(d)'
      <3>1. ASSUME NEW p \in EndPositions(d)
            PROVE  \E i \in 1 .. Len(log') : log'[i].pos = p
        <4>1. PICK i \in 1 .. Len(log) : log[i].pos = p
          BY <2>1 DEF ConnInv, EndsCover
        <4>2. i \in 1 .. Len(log') /\ log'[i] = log[i]
          BY <1>2 DEF LogExtends
        <4>3. QED
          BY <4>1, <4>2
      <3>2. ASSUME ~ hist.trace[d].timed, NEW p \in EndPositions(d),
                   NEW i \in Dropped' + 1 .. Len(log'), PosLeq(log'[i].pos, p)
            PROVE  i \in hist.trace[d].served \/ log'[i].pos \in EndPositions(d)
        <4>1. CASE i <= Len(log)
          <5>1. i \in Dropped + 1 .. Len(log) /\ i \in 1 .. Len(log)
            <6>1. /\ Len(log) \in Nat /\ Len(log') \in Nat
                  /\ Dropped \in Nat /\ Dropped' \in Nat /\ Dropped <= Dropped'
              BY <1>2, <1>4 DEF LogExtends
            <6>2. QED
              BY <3>2, <4>1, <6>1, Narrower
          <5>2. log'[i] = log[i]
            BY <1>2, <5>1 DEF LogExtends
          <5>3. Covered(d, i)
            BY <2>1, <3>2, <5>1, <5>2 DEF ConnInv, EndsCover
          <5>4. QED
            BY <5>2, <5>3 DEF Covered
        <4>2. CASE i > Len(log)
          <5>1. PICK j \in 1 .. Len(log') : log'[j].pos = p /\ j <= Len(log)
            <6>1. PICK j \in 1 .. Len(log) : log[j].pos = p
              BY <2>1 DEF ConnInv, EndsCover
            <6>2. j \in 1 .. Len(log') /\ log'[j] = log[j] /\ j <= Len(log)
              BY <1>2 DEF LogExtends
            <6>3. QED
              BY <6>1, <6>2
          <5>2. i \in 1 .. Len(log') /\ j <= i
            BY <1>2, <1>4, <4>2, <5>1 DEF LogExtends
          <5>3. /\ log'[j].pos \in Position /\ log'[i].pos \in Position
                /\ PosLeq(log'[j].pos, log'[i].pos)
            <6>1. log' \in Seq(Event) /\ InOrder(log')
              BY <1>3 DEF StoreInv, BufferInv, StoreTypeOK, LogInv
            <6>2. PICK l \in Seq(Event) : l = log' /\ InOrder(l)
              BY <6>1
            <6>3. QED
              BY <5>1, <5>2, <6>2, OrderOf
          <5>4. log'[i].pos = p
            BY <3>2, <5>1, <5>3, LeqOrder
          <5>5. QED
            BY <5>4
        <4>3. QED
          BY <1>2, <1>4, <4>1, <4>2 DEF LogExtends
      <3>3. QED
        BY <1>1, <2>3, <3>1, <3>2 DEF EndsCover, Covered
    <2>5. QED
      BY <1>2, <2>1, <2>2, <2>4, UndisturbedParts DEF ConnInv
  <1>6. QED
    BY <1>1, <1>2, <1>3, <1>5 DEF ServerInv, ServerTypeOK, StoreInv, BufferInv

-----------------------------------------------------------------------------
(* Every step, and the invariant.                                          *)

LEMMA ServerInit == ASSUME Init PROVE ServerInv
  <1>1. StoreInv /\ Len(log) = 0
    BY InitEstablishes DEF Init, StoreInit
  <1>2. /\ conn \in [Readers -> ClientState]
        /\ hist.trace \in [Readers -> Trace]
        /\ \A c \in Readers : conn[c] = NewClient /\ hist.trace[c] = NewTrace
                              /\ call[c].pc = "idle"
    BY NewTyped DEF Init, StoreInit, Idle
  <1>3. hist \in History /\ sessions \in [ClientIds -> Session \cup {None}]
    <2>1. /\ hist.trace = [c \in Readers |-> NewTrace]
          /\ hist.filter = [cid \in ClientIds |-> None]
          /\ hist.acked = [cid \in ClientIds |-> None]
          /\ hist = [trace |-> hist.trace, filter |-> hist.filter, acked |-> hist.acked]
      BY DEF Init
    <2>2. hist.filter \in [ClientIds -> (SUBSET Tables) \cup {None}]
      BY <2>1
    <2>3. hist.acked \in [ClientIds -> OptPos]
      BY <2>1 DEF OptPos
    <2>4. hist \in History
      <3>1. hist.trace \in [Readers -> Trace]
        BY <1>2
      <3>2. PICK t, f, a : t = hist.trace /\ f = hist.filter /\ a = hist.acked
        OBVIOUS
      <3>3. [trace |-> t, filter |-> f, acked |-> a] \in History
        BY <2>2, <2>3, <3>1, <3>2 DEF History
      <3>4. QED
        BY <2>1, <3>2, <3>3
    <2>5. QED
      BY <2>4 DEF Init
  <1>4. ASSUME NEW c \in Readers
        PROVE  ConnInv(c)
    <2>1. EndPositions(c) = {}
      <3>1. hist.trace[c].ends = {}
        BY <1>2 DEF NewTrace
      <3>2. QED
        BY <3>1 DEF EndPositions
    <2>2. /\ ~ conn[c].authenticated /\ conn[c].client_id = None
          /\ conn[c].current_pos = None /\ conn[c].last_ack_pos = None
          /\ conn[c].last_get_end_pos = None
      BY <1>2 DEF NewClient
    <2>3. Identified(c) /\ HasSession(c) /\ SentFiltered(c)
      <3>1. Identified(c) /\ HasSession(c)
        BY <1>2, <2>2 DEF Identified, HasSession
      <3>2. hist.trace[c].sent = {}
        BY <1>2 DEF NewTrace
      <3>3. QED
        BY <3>1, <3>2 DEF SentFiltered
    <2>4. AcksNamed(c) /\ CursorsAreEnds(c) /\ EndsCover(c) /\ CursorIsAhead(c)
      BY <1>2, <2>1, <2>2 DEF AcksNamed, CursorsAreEnds, EndsCover, CursorIsAhead, NewTrace
    <2>5. QED
      BY <2>3, <2>4 DEF ConnInv
  <1>5. QED
    BY <1>1, <1>2, <1>3, <1>4 DEF ServerInv, ServerTypeOK, StoreInv, BufferInv, Init

(* One packet of one peer.                                                 *)
LEMMA PacketKeeps ==
    ASSUME IdsDisjoint, ServerInv, NEW c \in Readers, Packet(c)
    PROVE  ServerInv'
  <1>1. CASE \E cid \in IdsOf[c], filter \in Filters, ts \in StartTimes :
                Auth(c, cid, filter, ts)
    BY <1>1, AuthKeeps, LimitsAssumption
  <1>2. CASE AuthFailed(c)
    BY <1>2, AuthFailedKeeps
  <1>3. CASE \E cid \in ClientIds, filter \in Filters : Sub(c, cid, filter)
    BY <1>3, SubKeeps
  <1>4. CASE Refused(c) \/ GetLost(c)
    BY <1>4, RefusedKeeps DEF GetLost
  <1>5. CASE Unknown(c)
    BY <1>5, UnknownKeeps
  <1>6. CASE \E fetch \in FetchSizes : batch_id_seq < MaxIds /\ Get(c, fetch)
    <2>1. PICK fetch \in Int : Get(c, fetch)
      BY <1>6, LimitsAssumption
    <2>2. QED
      BY <2>1, GetKeeps
  <1>7. CASE \E id \in 0 .. batch_id_seq : ClientAck(c, id)
    <2>1. PICK id \in Nat : ClientAck(c, id)
      BY <1>7
    <2>2. QED
      BY <2>1, AckKeeps
  <1>8. CASE ClientRollback(c)
    BY <1>8, RollbackKeeps
  <1>9. QED
    BY <1>1, <1>2, <1>3, <1>4, <1>5, <1>6, <1>7, <1>8 DEF Packet

LEMMA ServerStutter == ASSUME ServerInv, UNCHANGED vars PROVE ServerInv'
  <1>1. UNCHANGED <<storeVars, conn, sessions, phase, hist, buffer, log, call>>
    BY DEF vars, serverVars, storeVars
  <1>2. ASSUME NEW d \in Readers
        PROVE  ConnInv(d)'
    <2>1. ConnInv(d) /\ Len(log) \in Nat
      BY Typed
    <2>2. Undisturbed(d)
      BY <1>1 DEF Undisturbed
    <2>3. QED
      BY <1>1, <2>1, <2>2, UndisturbedInv
  <1>3. QED
    BY <1>1, <1>2, ServerParts DEF ServerInv, ServerTypeOK

LEMMA ServerNext ==
    ASSUME IdsDisjoint, StartIsFirst, ServerInv, [Next]_vars
    PROVE  ServerInv'
  <1>1. CASE Feed
    BY <1>1, FeedKeeps
  <1>2. CASE Serve \/ Shutdown \/ Drained \/ DrainTimeout
    BY <1>2, PhaseKeeps
  <1>3. ASSUME NEW c \in Readers, Accept(c)
        PROVE  ServerInv'
    BY <1>3, AcceptKeeps
  <1>4. ASSUME NEW c \in Readers, Close(c) \/ ErrorExit(c)
        PROVE  ServerInv'
    BY <1>4, ForgetKeeps DEF Close, ErrorExit
  <1>5. ASSUME NEW c \in Readers, Packet(c)
        PROVE  ServerInv'
    BY <1>5, PacketKeeps
  <1>6. ASSUME NEW c \in Readers, GetStep(c)
        PROVE  ServerInv'
    BY <1>6, DeliverKeeps, WaitKeeps DEF GetStep
  <1>7. CASE UNCHANGED vars
    BY <1>7, ServerStutter
  <1>8. QED
    BY <1>1, <1>2, <1>3, <1>4, <1>5, <1>6, <1>7 DEF Next

(* ServerInv holds in every reachable state of the server.                 *)
THEOREM ServerInvariant ==
    ASSUME IdsDisjoint, StartIsFirst
    PROVE  Spec => []ServerInv
  <1>1. Init => ServerInv
    BY ServerInit
  <1>2. ServerInv /\ [Next]_vars => ServerInv'
    BY ServerNext
  <1>3. QED
    BY <1>1, <1>2, PTL DEF Spec

-----------------------------------------------------------------------------
(* What the properties of CanalServer say, from the invariant.             *)

(* States and tables are what the handlers expect them to be (session.rs). *)
THEOREM ServerTypeCorrect ==
    ASSUME IdsDisjoint, StartIsFirst
    PROVE  Spec => []ServerTypeOK
  <1>1. ServerInv => ServerTypeOK
    BY DEF ServerInv
  <1>2. QED
    BY <1>1, ServerInvariant, PTL

(* A connection continues from the end of one of its batches only.         *)
LEMMA ResumableAreEnds ==
    ASSUME ServerInv, NEW c \in Readers, conn[c].authenticated, ~ hist.trace[c].timed
    PROVE  Resumable(c) \subseteq EndPositions(c)
  <1>1. ConnInv(c)
    BY Typed
  <1>2. conn[c].current_pos # None => conn[c].current_pos.pos \in EndPositions(c)
    <2>1. ASSUME conn[c].current_pos # None
          PROVE  conn[c].current_pos.pos \in EndPositions(c)
      <3>1. PICK p \in EndPositions(c) : conn[c].current_pos = AtPosition(p)
        BY <1>1, <2>1 DEF ConnInv, CursorsAreEnds
      <3>2. QED
        BY <3>1 DEF AtPosition
    <2>2. QED
      BY <2>1
  <1>3. conn[c].last_ack_pos # None => conn[c].last_ack_pos \in EndPositions(c)
    BY <1>1 DEF ConnInv, AcksNamed
  <1>4. SessionAck(c) # None => SessionAck(c) \in EndPositions(c)
    BY <1>1 DEF ConnInv, AcksNamed
  <1>5. ASSUME NEW p \in Resumable(c)
        PROVE  p \in EndPositions(c)
    <2>1. p # None
      BY DEF Resumable
    <2>2. CASE p = conn[c].last_ack_pos \/ p = SessionAck(c)
      BY <1>3, <1>4, <2>1, <2>2
    <2>3. CASE conn[c].current_pos # None /\ p = conn[c].current_pos.pos
      BY <1>2, <2>3
    <2>4. QED
      BY <2>1, <2>2, <2>3 DEF Resumable
  <1>6. QED
    BY <1>5

(* handle_get, handle_client_ack and handle_client_rollback never let a    *)
(* connection continue past an event it was not given.                     *)
THEOREM NothingSkippedCorrect ==
    ASSUME IdsDisjoint, StartIsFirst
    PROVE  Spec => []NothingSkipped
  <1>1. ASSUME ServerInv
        PROVE  NothingSkipped
    <2>1. SUFFICES ASSUME NEW c \in Readers, conn[c].authenticated, ~ hist.trace[c].timed,
                          NEW p \in Resumable(c), NEW i \in 1 .. Len(buffer),
                          PosLeq(buffer[i].pos, p)
                   PROVE  \/ buffer[i].row \in hist.trace[c].served
                          \/ \E q \in hist.trace[c].ends : q[2] = buffer[i].pos
      BY DEF NothingSkipped, Open
    <2>2. p \in EndPositions(c) /\ ConnInv(c)
      BY <1>1, <2>1, ResumableAreEnds, Typed
    <2>3. /\ Len(buffer) \in Nat /\ Len(log) \in Nat /\ Len(buffer) <= Len(log)
          /\ Dropped = Len(log) - Len(buffer) /\ buffer[i] = log[Dropped + i]
      BY <1>1 DEF ServerInv, StoreInv, BufferInv, BufferIsNewestEvents, StoreTypeOK, Dropped
    <2>4. PICK j : j = Dropped + i
      OBVIOUS
    <2>5. j \in Dropped + 1 .. Len(log) /\ j \in 1 .. Len(log) /\ buffer[i] = log[j]
      BY <2>3, <2>4
    <2>6. log[j].row = j
      BY <1>1, <2>5 DEF ServerInv, StoreInv, BufferInv, LogInv, RowsAreIndices
    <2>7. Covered(c, j)
      BY <2>1, <2>2, <2>5 DEF ConnInv, EndsCover
    <2>8. QED
      BY <2>5, <2>6, <2>7 DEF Covered, EndPositions
  <1>2. QED
    BY <1>1, ServerInvariant, PTL

(* handle_client_ack stores the end of a batch the peer named, and no      *)
(* other handler puts an ack into a session a live client reads.           *)
THEOREM AckCorrect ==
    ASSUME IdsDisjoint, StartIsFirst
    PROVE  Spec => []AckWasConfirmed
  <1>1. ASSUME ServerInv
        PROVE  AckWasConfirmed
    <2>1. \A c \in Readers : AcksNamed(c)
      BY <1>1 DEF ServerInv, ConnInv
    <2>2. QED
      BY <2>1 DEF AckWasConfirmed, AcksNamed, Open
  <1>2. QED
    BY <1>1, ServerInvariant, PTL

(* handle_get filters by the session it looks up after the await, which is *)
(* there and has the filter of the last handle_auth or handle_sub.         *)
THEOREM FilterCorrect ==
    ASSUME IdsDisjoint, StartIsFirst
    PROVE  Spec => []FilterRespected
  <1>1. ASSUME ServerInv
        PROVE  FilterRespected
    <2>1. \A c \in Readers : SentFiltered(c)
      BY <1>1 DEF ServerInv, ConnInv
    <2>2. QED
      BY <2>1 DEF FilterRespected, SentFiltered, Open
  <1>2. QED
    BY <1>1, ServerInvariant, PTL

(* handle_client's clean-up only takes the session of its own client.      *)
THEOREM SessionCorrect ==
    ASSUME IdsDisjoint, StartIsFirst
    PROVE  Spec => []LiveClientHasSession
  <1>1. ASSUME ServerInv
        PROVE  LiveClientHasSession
    <2>1. \A c \in Readers : HasSession(c)
      BY <1>1 DEF ServerInv, ConnInv
    <2>2. QED
      BY <2>1 DEF LiveClientHasSession, HasSession, Open
  <1>2. QED
    BY <1>1, ServerInvariant, PTL

-----------------------------------------------------------------------------
(* Nothing is returned twice.                                              *)

(* Only an answer with events adds an end of a batch.                      *)
EndsStay(d) == hist'.trace[d].ends \in {hist.trace[d].ends, {}}

(* A handler that rewrites one connection's history.                       *)
LEMMA EndsStayAt ==
    ASSUME ServerInv, NEW c \in Readers, NEW d \in Readers, NEW t,
           hist'.trace = [hist.trace EXCEPT ![c] = t],
           t.ends \in {hist.trace[c].ends, {}}
    PROVE  EndsStay(d)
  BY Typed DEF EndsStay

LEMMA ForgetEnds ==
    ASSUME ServerInv, NEW c \in Readers, Forget(c)
    PROVE  \A d \in Readers : EndsStay(d)
  <1>1. hist'.trace = [hist.trace EXCEPT ![c] = NewTrace]
    BY Typed DEF Forget
  <1>2. NewTrace.ends = {}
    BY DEF NewTrace
  <1>3. QED
    BY <1>1, <1>2, EndsStayAt

LEMMA FilterEnds ==
    ASSUME ServerInv, NEW c \in Readers, NEW cid, NEW filter, NEW ts,
           FilterSet(c, cid, filter, ts)
    PROVE  \A d \in Readers : EndsStay(d)
  <1>1. hist'.trace = [d \in Readers |-> Refiltered(d, c, cid, ts)]
    BY Typed DEF FilterSet
  <1>2. ASSUME NEW d \in Readers
        PROVE  EndsStay(d)
    <2>1. Refiltered(d, c, cid, ts).ends = hist.trace[d].ends
      BY Typed DEF Refiltered, Trace
    <2>2. QED
      BY <1>1, <2>1 DEF EndsStay
  <1>3. QED
    BY <1>2

LEMMA PacketEnds ==
    ASSUME ServerInv, NEW c \in Readers, Packet(c)
    PROVE  \A d \in Readers : EndsStay(d)
  <1>1. hist.trace \in [Readers -> Trace] /\ hist.trace[c] \in Trace
    BY Typed
  <1>2. CASE UNCHANGED hist
    BY <1>2 DEF EndsStay
  <1>3. CASE Forget(c)
    BY <1>3, ForgetEnds
  <1>4. CASE \E cid, filter, ts : FilterSet(c, cid, filter, ts)
    BY <1>4, FilterEnds
  <1>5. CASE \E fetch \in FetchSizes : Get(c, fetch)
    <2>1. PICK own : hist' = [hist EXCEPT !.trace[c].own = own]
      BY <1>5 DEF Get
    <2>2. PICK t : t = [hist.trace[c] EXCEPT !.own = own]
      OBVIOUS
    <2>3. hist'.trace = [hist.trace EXCEPT ![c] = t] /\ t.ends = hist.trace[c].ends
      BY <1>1, <2>1, <2>2, Typed DEF Trace
    <2>4. QED
      BY <2>3, EndsStayAt
  <1>6. CASE \E id \in 0 .. batch_id_seq : ClientAck(c, id)
    <2>1. PICK id \in 0 .. batch_id_seq : ClientAck(c, id)
      BY <1>6
    <2>2. PICK t : t = [hist.trace[c] EXCEPT
                          !.confirmed = hist.trace[c].confirmed \cup
                             {p[2] : p \in {q \in hist.trace[c].ends : q[1] = id}}]
      OBVIOUS
    <2>3. hist'.trace = [hist.trace EXCEPT ![c] = t]
      BY <1>1, <2>1, <2>2, Typed DEF ClientAck
    <2>4. t.ends = hist.trace[c].ends
      BY <1>1, <2>2 DEF Trace
    <2>5. QED
      BY <2>3, <2>4, EndsStayAt
  <1>7. CASE ClientRollback(c)
    <2>1. PICK t : t = [hist.trace[c] EXCEPT !.rolled = TRUE]
      OBVIOUS
    <2>2. hist'.trace = [hist.trace EXCEPT ![c] = t] /\ t.ends = hist.trace[c].ends
      BY <1>1, <1>7, <2>1, Typed DEF ClientRollback, Trace
    <2>3. QED
      BY <2>2, EndsStayAt
  <1>8. QED
    BY <1>2, <1>3, <1>4, <1>5, <1>6, <1>7
       DEF Packet, Auth, AuthFailed, Sub, Refused, Unknown, GetLost

LEMMA EndsStayOrServe ==
    ASSUME ServerInv, [Next]_vars, NEW d \in Readers
    PROVE  EndsStay(d) \/ Deliver(d)
  <1>1. CASE UNCHANGED hist
    BY <1>1 DEF EndsStay
  <1>2. ASSUME NEW c \in Readers, Close(c) \/ ErrorExit(c)
        PROVE  EndsStay(d)
    BY <1>2, ForgetEnds DEF Close, ErrorExit
  <1>3. ASSUME NEW c \in Readers, Packet(c)
        PROVE  EndsStay(d)
    BY <1>3, PacketEnds
  <1>4. ASSUME NEW c \in Readers, Deliver(c), c # d
        PROVE  EndsStay(d)
    <2>1. PICK served, sent, ends :
             hist' = [hist EXCEPT !.trace[c].served = served, !.trace[c].sent = sent,
                                  !.trace[c].ends = ends]
      BY <1>4 DEF Deliver
    <2>2. hist'.trace[d] = hist.trace[d]
      BY <1>4, <2>1, Typed
    <2>3. QED
      BY <2>2 DEF EndsStay
  <1>5. CASE UNCHANGED vars
    BY <1>1, <1>5 DEF vars, serverVars
  <1>6. CASE Feed \/ Serve \/ Shutdown \/ Drained \/ DrainTimeout
    BY <1>1, <1>6 DEF Feed, Serve, Shutdown, Drained, DrainTimeout, serverVars
  <1>7. ASSUME NEW c \in Readers, Accept(c)
        PROVE  EndsStay(d) \/ Deliver(d)
    BY <1>1, <1>7 DEF Accept, storeVars
  <1>8. ASSUME NEW c \in Readers, GetStep(c)
        PROVE  EndsStay(d) \/ Deliver(d)
    <2>1. CASE Deliver(c)
      BY <1>4, <2>1
    <2>2. CASE UNCHANGED serverVars
      BY <1>1, <2>2 DEF serverVars
    <2>3. QED
      BY <1>8, <2>1, <2>2 DEF GetStep
  <1>9. QED
    BY <1>2, <1>3, <1>5, <1>6, <1>7, <1>8 DEF Next

(* What handle_get returns lies after the connection's own cursor, which   *)
(* is at the end of all it returned before.                                *)
LEMMA StepServesOnce ==
    ASSUME ServerInv, [Next]_vars, NEW c \in Readers
    PROVE  ServesOnce(c)
  <1>1. SUFFICES ASSUME ~ EndsStay(c), ~ hist.trace[c].rolled
                 PROVE  Rows(reply'[c].events) \cap hist.trace[c].served = {}
    BY DEF ServesOnce, EndsStay
  <1>2. GetServe(c) /\ call[c].pc # "idle"
    BY <1>1, EndsStayOrServe DEF Deliver, GetServe
  <1>3. StoreInv /\ CursorIsAhead(c) /\ conn[c] \in ClientState
    BY Typed DEF ServerInv, ConnInv
  <1>4. PICK lo \in 1 .. Len(log), hi \in 1 .. Len(log) : IsServed(c, lo, hi)
    BY <1>2, <1>3, ServedPlaces
  <1>5. Rows(reply'[c].events) = lo .. hi
    BY <1>4 DEF IsServed
  <1>6. CASE conn[c].current_pos = None \/ conn[c].current_pos.timestamp # 0
    <2>1. hist.trace[c].served = {}
      BY <1>1, <1>3, <1>6 DEF CursorIsAhead
    <2>2. QED
      BY <2>1
  <1>7. CASE ~ (conn[c].current_pos = None \/ conn[c].current_pos.timestamp # 0)
    <2>1. /\ call[c].cursor = conn[c].current_pos /\ call[c].cursor.timestamp = 0
          /\ call[c].cursor \in Cursor
      BY <1>2, <1>3, <1>7 DEF CursorIsAhead, ClientState
    <2>2. call[c].cursor.pos \in Position
      BY <2>1, PositionCursor
    <2>3. ASSUME NEW i \in lo .. hi, i \in hist.trace[c].served
          PROVE  FALSE
      <3>1. PosLess(call[c].cursor.pos, log[i].pos)
        BY <1>3, <1>4, <2>1, <2>2, DeliveryAfterCursor
      <3>2. i \in 1 .. Len(log) /\ PosLeq(log[i].pos, call[c].cursor.pos)
        BY <1>1, <1>3, <1>7, <2>1, <2>3 DEF CursorIsAhead
      <3>3. log[i].pos \in Position
        BY <1>3, <3>2, LogOrder
      <3>4. QED
        BY <2>2, <3>1, <3>2, <3>3, LeqOrder
    <2>4. QED
      BY <1>5, <2>3
  <1>8. QED
    BY <1>6, <1>7

(* Without a rollback a connection gets every event once, however its Gets *)
(* interleave with puts and with what other connections do.                *)
THEOREM OnceCorrect ==
    ASSUME IdsDisjoint, StartIsFirst
    PROVE  Spec => OnceWithoutRollback
  <1>1. ServerInv /\ [Next]_vars => [\A c \in Readers : ServesOnce(c)]_vars
    BY StepServesOnce
  <1>2. QED
    BY <1>1, ServerInvariant, PTL DEF Spec, OnceWithoutRollback
=============================================================================
