---------------------------- MODULE EventStore -----------------------------
(***************************************************************************)
(* MemoryEventStore (canal-store/src/memory.rs): the bounded buffer        *)
(* between the sink, which appends batches, and the client connections,    *)
(* which read from a cursor and wait when there is nothing for them.       *)
(*                                                                         *)
(* put_batch holds the buffer lock from the eviction to the notification,  *)
(* and get_batch never reads the three position fields, so a put is one    *)
(* step.  get_batch is several: the Notified future is created, the buffer *)
(* is searched under the lock, and only then does the reader wait; a put   *)
(* may fall between any two of them.                                       *)
(***************************************************************************)
EXTENDS LogPosition, Integers, Sequences

CONSTANTS
    Readers,      \* callers of get_batch
    Capacity,     \* the buffer's capacity
    Positions,    \* positions events may carry
    Times,        \* execute times events may carry
    Tables,       \* tables events may belong to
    Sizes,        \* batch sizes asked for
    MaxBatch,     \* bound: events in one put
    MaxLog,       \* bound: events put in a behaviour
    MaxIds        \* bound: batch ids handed out before no new call starts

ASSUME CapacityAssumption == Capacity \in Nat \ {0}  \* assert! in new()

ASSUME EventsAssumption == Positions \subseteq Position /\ Times \subseteq Nat

ASSUME SizesAssumption == Sizes \subseteq Nat

ASSUME BoundsAssumption == MaxBatch \in Nat /\ MaxLog \in Nat /\ MaxIds \in Nat

VARIABLES
    buffer,              \* the events held, oldest first
    batch_id_seq,        \* the next batch id, of puts and of gets
    latest_position,
    first_position,
    evicted_watermark,   \* highest position dropped by eviction, or None
    running,
    call,                \* the get_batch call each reader is in
    reply,               \* what each reader's last call returned
    log                  \* history: every event ever put, in order

storeVars == <<buffer, batch_id_seq, latest_position, first_position,
               evicted_watermark, running, call, reply, log>>

-----------------------------------------------------------------------------
(* A CanalEvent, as far as the store tells events apart.  The row number   *)
(* stands for the payload: it is the event's place in the binlog stream.   *)
Event == [pos : Position, time : Nat, table : Tables, row : Nat]

Header == [pos : Positions, time : Times, table : Tables]

CallState == [pc : {"idle", "check", "missed", "wait"},
              cursor : Cursor, size : Nat, woken : BOOLEAN]

(* Events: the batch get_batch returns.  The last three fields record, for *)
(* the properties, from which cursor it was served, how much had been put  *)
(* and what the watermark was at that moment.                              *)
Reply == [batch_id : Nat, events : Seq(Event), cursor : Cursor,
          seen : Nat, watermark : Position \cup {None}]

NoReply ==   \* Events::new(0)
    [batch_id |-> 0, events |-> <<>>, cursor |-> AtTimestamp(1),
     seen |-> 0, watermark |-> None]

Idle == [pc |-> "idle", cursor |-> AtTimestamp(1), size |-> 0, woken |-> FALSE]

EndOf(events) == events[Len(events)].pos   \* Events.position_range.end

-----------------------------------------------------------------------------
Least(m, n) == IF m <= n THEN m ELSE n

(* put_batch.  drain_count: how many of the oldest events make room for n  *)
(* new ones.                                                               *)
DrainCount(n) ==
    IF Len(buffer) + n > Capacity
    THEN Least(Len(buffer) + n - Capacity, Len(buffer))
    ELSE 0

(* Fault: an oversized batch is not cut.                                   *)
SkipNothing(n) == 0

(* skip: how many events of an oversized batch are dropped from its front. *)
SkipCount(n) == IF n > Capacity THEN n - Capacity ELSE 0

(* Fault: what an oversized batch loses is not recorded.                   *)
EvictedFromBuffer(events) ==
    LET drain == DrainCount(Len(events))
    IN  IF drain > 0 THEN buffer[drain].pos ELSE None

(* The highest position this put drops, from the buffer or from the batch. *)
Evicted(events) ==
    LET drain == DrainCount(Len(events))
        skip  == SkipCount(Len(events))
        old   == IF drain > 0 THEN buffer[drain].pos ELSE None
    IN  IF skip > 0 /\ (old = None \/ PosLess(old, events[skip].pos))
        THEN events[skip].pos
        ELSE old

RaisedWatermark(pos) ==
    IF pos # None /\ (evicted_watermark = None \/ PosLess(evicted_watermark, pos))
    THEN pos
    ELSE evicted_watermark

(* Fault: the new batch's front, although older events stay.               *)
FirstOfBatch(kept, tail) == tail[1].pos

(* first_position: the front of what stays, else of the (cut) batch.       *)
NewFirst(kept, tail) == IF kept # <<>> THEN kept[1].pos ELSE tail[1].pos

(* Fault: a load instead of a fetch_add.                                   *)
ReadId == UNCHANGED batch_id_seq

TakeId == batch_id_seq' = batch_id_seq + 1   \* fetch_add

(* Fault: only readers that already wait are woken, as when the Notified   *)
(* future were created after the search.                                   *)
NotifyWaiting ==
    call' = [r \in Readers |->
               [call[r] EXCEPT !.woken = @ \/ call[r].pc = "wait"]]

(* Every reader's Notified future created before this moment completes,    *)
(* whether or not it has been polled yet (tokio's notify_waiters).         *)
NotifyWaiters ==
    call' = [r \in Readers |-> [call[r] EXCEPT !.woken = call[r].pc # "idle"]]

PutBatch(events) ==
    /\ events # <<>>
    /\ LET kept == SubSeq(buffer, DrainCount(Len(events)) + 1, Len(buffer))
           tail == SubSeq(events, SkipCount(Len(events)) + 1, Len(events))
       IN  /\ evicted_watermark' = RaisedWatermark(Evicted(events))
           /\ first_position' = NewFirst(kept, tail)
           /\ latest_position' = EndOf(tail)
           /\ buffer' = kept \o tail
    /\ TakeId
    /\ NotifyWaiters
    /\ log' = log \o events
    /\ UNCHANGED <<running, reply>>

(* The stream the sink feeds is in binlog order: the debug_assert in       *)
(* put_batch states it of the buffer's tail and the batch's head.          *)
InOrder(events) ==
    \A i, j \in 1 .. Len(events) : i < j => PosLeq(events[i].pos, events[j].pos)

Numbered(headers) ==
    [i \in 1 .. Len(headers) |->
        [pos |-> headers[i].pos, time |-> headers[i].time,
         table |-> headers[i].table, row |-> Len(log) + i]]

(* The rows of one binlog event share its position, and the feeder may cut *)
(* its batches anywhere, so a position may continue into the next put.     *)
Put ==
    \E n \in 1 .. MaxBatch : \E headers \in [1 .. n -> Header] :
        /\ Len(log) + n <= MaxLog
        /\ InOrder(log \o headers)
        /\ PutBatch(Numbered(headers))

-----------------------------------------------------------------------------
(* Fault: an inclusive cursor.                                             *)
WantedFrom(e, cursor) ==
    IF cursor.timestamp # 0
    THEN e.time >= cursor.timestamp
    ELSE PosLeq(cursor.pos, e.pos)

(* Fault: events of the very timestamp are passed over.                    *)
WantedAfterTime(e, cursor) ==
    IF cursor.timestamp # 0
    THEN e.time > cursor.timestamp
    ELSE PosLess(cursor.pos, e.pos)

(* get_batch.  A position is an exclusive start; a timestamp selects by    *)
(* execute time and ignores the position.                                  *)
Wanted(e, cursor) ==
    IF cursor.timestamp # 0
    THEN e.time >= cursor.timestamp
    ELSE PosLess(cursor.pos, e.pos)

NothingWanted(cursor) ==
    \A i \in 1 .. Len(buffer) : ~ Wanted(buffer[i], cursor)

IsStart(s, cursor) ==
    /\ Wanted(buffer[s], cursor)
    /\ \A i \in 1 .. s - 1 : ~ Wanted(buffer[i], cursor)

(* base_end, and the end after the last event's position group.            *)
BaseEnd(s, size) ==
    Least(s + (IF size = 0 THEN 1 ELSE size) - 1, Len(buffer))

(* Fault: the batch ends at its size, in the middle of a group.            *)
EndsAtSize(e, s, size) ==
    e = Least(s + (IF size = 0 THEN 1 ELSE size) - 1, Len(buffer))

IsEnd(e, s, size) ==
    /\ BaseEnd(s, size) <= e
    /\ \A i \in BaseEnd(s, size) .. e : buffer[i].pos = buffer[BaseEnd(s, size)].pos
    /\ e < Len(buffer) => buffer[e + 1].pos # buffer[e].pos

(* The call begins: the Notified future is created before the search.      *)
GetBatch(r, cursor, size) ==
    /\ call[r].pc = "idle"
    /\ call' = [call EXCEPT ![r] = [pc |-> "check", cursor |-> cursor,
                                    size |-> size, woken |-> FALSE]]
    /\ UNCHANGED <<buffer, batch_id_seq, latest_position, first_position,
                   evicted_watermark, running, reply, log>>

GetReturn(r, answer) ==
    /\ reply' = [reply EXCEPT ![r] = answer]
    /\ call' = [call EXCEPT ![r] = Idle]

(* The search finds something: slice[start_idx..end] with a fresh id.      *)
GetServe(r) ==
    /\ call[r].pc = "check"
    /\ \E s, e \in 1 .. Len(buffer) :
         /\ IsStart(s, call[r].cursor)
         /\ IsEnd(e, s, call[r].size)
         /\ GetReturn(r, [batch_id |-> batch_id_seq, events |-> SubSeq(buffer, s, e),
                          cursor |-> call[r].cursor, seen |-> Len(log),
                          watermark |-> evicted_watermark])
    /\ TakeId
    /\ UNCHANGED <<buffer, latest_position, first_position,
                   evicted_watermark, running, log>>

(* The search finds nothing; the lock is released.                         *)
GetMiss(r) ==
    /\ call[r].pc = "check"
    /\ NothingWanted(call[r].cursor)
    /\ call' = [call EXCEPT ![r].pc = "missed"]
    /\ UNCHANGED <<buffer, batch_id_seq, latest_position, first_position,
                   evicted_watermark, running, reply, log>>

(* The select polls the Notified future for the first time.                *)
GetWait(r) ==
    /\ call[r].pc = "missed"
    /\ call' = [call EXCEPT ![r].pc = "wait"]
    /\ UNCHANGED <<buffer, batch_id_seq, latest_position, first_position,
                   evicted_watermark, running, reply, log>>

(* Woken: back to the head of the loop, with a new Notified future.        *)
GetWoken(r) ==
    /\ call[r].pc = "wait"
    /\ call[r].woken
    /\ call' = [call EXCEPT ![r].pc = "check", ![r].woken = FALSE]
    /\ UNCHANGED <<buffer, batch_id_seq, latest_position, first_position,
                   evicted_watermark, running, reply, log>>

(* Fault: the wait has no timeout.                                         *)
NoTimeout(r) == GetWoken(r)

(* The sleep of the select wins, also over a notification that is ready.   *)
GetTimeout(r) ==
    /\ call[r].pc = "wait"
    /\ GetReturn(r, NoReply)
    /\ UNCHANGED <<buffer, batch_id_seq, latest_position, first_position,
                   evicted_watermark, running, log>>

-----------------------------------------------------------------------------
(* CanalLifecycle: the flag is kept for is_running and guards nothing.     *)
SetRunning(b) ==
    /\ running' = b
    /\ UNCHANGED <<buffer, batch_id_seq, latest_position, first_position,
                   evicted_watermark, call, reply, log>>

StoreInit ==
    /\ buffer = <<>>
    /\ batch_id_seq = 0
    /\ latest_position = None
    /\ first_position = None
    /\ evicted_watermark = None
    /\ running = FALSE
    /\ log = <<>>
    /\ call = [r \in Readers |-> Idle]
    /\ reply = [r \in Readers |-> NoReply]

ReaderStep(r) ==
    \/ GetServe(r) \/ GetMiss(r) \/ GetWait(r) \/ GetWoken(r) \/ GetTimeout(r)

(* On its own the store is called with any cursor a caller can hold.       *)
CallAny(r) ==
    /\ batch_id_seq < MaxIds
    /\ \E size \in Sizes :
        \/ \E p \in Positions : GetBatch(r, AtPosition(p), size)
        \/ \E ts \in Times \ {0} : GetBatch(r, AtTimestamp(ts), size)

StoreNext ==
    \/ Put
    \/ \E b \in BOOLEAN : SetRunning(b)
    \/ \E r \in Readers : CallAny(r) \/ ReaderStep(r)

StoreSpec == StoreInit /\ [][StoreNext]_storeVars

(* A reader's task is polled whenever it can move; the 5 s sleep of the    *)
(* select always ends.  Puts and calls are up to the environment.          *)
StoreFairness == \A r \in Readers : WF_storeVars(ReaderStep(r))

FairStoreSpec == StoreSpec /\ StoreFairness
-----------------------------------------------------------------------------
(* Properties.                                                             *)

StoreTypeOK ==
    /\ buffer \in Seq(Event) /\ log \in Seq(Event)
    /\ batch_id_seq \in Nat
    /\ {latest_position, first_position, evicted_watermark} \subseteq Position \cup {None}
    /\ running \in BOOLEAN
    /\ call \in [Readers -> CallState]
    /\ reply \in [Readers -> Reply]

Dropped == Len(log) - Len(buffer)   \* how many events eviction has taken

(* put_batch's eviction (memory.rs:53-80) keeps the newest events and      *)
(* nothing else: however drains of the buffer and truncations of oversized *)
(* batches mix, what is buffered is exactly the last Len(buffer) events    *)
(* ever put, within the capacity and never emptied again.                  *)
BufferIsNewestEvents ==
    /\ Len(buffer) <= Capacity
    /\ Len(buffer) <= Len(log)
    /\ \A i \in 1 .. Len(buffer) : buffer[i] = log[Dropped + i]
    /\ log # <<>> => buffer # <<>>

(* evicted_watermark (memory.rs:18, 82-87) is exactly the position of the  *)
(* last event that is gone, and None while nothing is: a lower value would *)
(* hide a loss from handle_get, a higher one report a loss that never was. *)
WatermarkIsLastDropped ==
    evicted_watermark = IF Dropped = 0 THEN None ELSE log[Dropped].pos

(* first_position and latest_position (memory.rs:89-112), computed before  *)
(* the buffer is extended, describe the buffer after it.                   *)
EndsDescribeBuffer ==
    log # <<>> => /\ first_position = buffer[1].pos
                  /\ latest_position = EndOf(buffer)

(* get_batch creates its Notified future before it searches (memory.rs:    *)
(* 125): no reader is left waiting for a put that has already happened     *)
(* while the buffer holds something for it.                                *)
NoLostWakeup ==
    \A r \in Readers :
        call[r].pc \in {"missed", "wait"} /\ ~ call[r].woken
        => NothingWanted(call[r].cursor)

Rows(events) == {events[i].row : i \in 1 .. Len(events)}

AboveWatermark(answer) ==
    answer.watermark = None \/ PosLeq(answer.watermark, answer.cursor.pos)

(* A batch read from a position at or above the watermark (memory.rs:      *)
(* 197-198) is complete: it has every event put so far after the cursor up *)
(* to the batch's end, duplicate positions and whole groups included, and  *)
(* nothing else.                                                           *)
ServedBatchIsComplete ==
    \A r \in Readers :
        LET answer == reply[r] IN
        answer.events # <<>> /\ answer.cursor.timestamp = 0 /\ AboveWatermark(answer)
        => Rows(answer.events) =
             {i \in 1 .. answer.seen :
                /\ PosLess(answer.cursor.pos, log[i].pos)
                /\ PosLeq(log[i].pos, EndOf(answer.events))}

(* A batch read by timestamp (memory.rs:131-139) starts at the first event *)
(* still held that is late enough and leaves no hole up to its end.        *)
TimestampBatchHasNoHole ==
    \A r \in Readers :
        LET answer == reply[r]
            first == answer.events[1].row
        IN  answer.events # <<>> /\ answer.cursor.timestamp # 0
            => /\ \A i \in 1 .. Len(answer.events) :
                    answer.events[i] = log[first + i - 1]
               /\ log[first].time >= answer.cursor.timestamp
               /\ \A i \in 1 .. first - 1 :
                    \/ log[i].time < answer.cursor.timestamp
                    \/ answer.watermark # None /\ PosLeq(log[i].pos, answer.watermark)

(* The id of the empty answer is 0 (Events::new(0), memory.rs:181), and    *)
(* clients ack it (canal-client/src/lib.rs:185-202).  No batch that        *)
(* carries events has it, because the put it reads took an id first.       *)
ServedIdIsNotEmptyId ==
    \A r \in Readers : reply[r].events # <<>> => reply[r].batch_id > 0

(* get_batch returns: a notification that brings nothing sends the reader  *)
(* round the loop, but the wait is bounded by GET_BATCH_TIMEOUT_MS         *)
(* (memory.rs:24, 178-183).                                                *)
EveryCallReturns ==
    \A r \in Readers : call[r].pc # "idle" ~> call[r].pc = "idle"

(* "a single position-group (multi-row binlog event) is never split"       *)
(* (memory.rs:151-153): once a batch has been served up to a position, the *)
(* reader, whose next cursor is that position, has all of its events.      *)
GroupNeverSplit ==
    \A r \in Readers :
        LET answer == reply[r] IN
        answer.events # <<>> /\ answer.cursor.timestamp = 0 /\ AboveWatermark(answer)
        => \A i \in 1 .. Len(log) :
              log[i].pos = EndOf(answer.events) => i \in Rows(answer.events)
=============================================================================
