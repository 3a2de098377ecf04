---------------------------- MODULE EventStream ----------------------------
(***************************************************************************)
(* What subscribers are promised, whatever server, wire and client do: a   *)
(* stream has the published rows in binlog order, each of them once, and   *)
(* skips only rows its subscriber is excused from: rows of tables it did   *)
(* not ask for, rows evicted before they were served, and rows that were   *)
(* published at a position it had already been served.  As long as the     *)
(* stream is open, what is due comes.                                      *)
(***************************************************************************)
EXTENDS Naturals, Sequences, SequencesExt, FiniteSetsExt

CONSTANTS
    Subscribers,
    MaxRows      \* bound: rows published

VARIABLES
    published,   \* how many rows there are; row numbers are 1 .. published
    excused,     \* rows each subscriber need not get
    received,    \* the rows each got, in order
    status       \* of each stream: "none", "open", "ended"

vars == <<published, excused, received, status>>

Due(s) == (1 .. published) \ (excused[s] \cup ToSet(received[s]))

Init ==
    /\ published = 0
    /\ excused = [s \in Subscribers |-> {}]
    /\ received = [s \in Subscribers |-> <<>>]
    /\ status = [s \in Subscribers |-> "none"]

(* The log moves on: rows appear at its end, others are lost or unwanted.  *)
Publish ==
    /\ published' >= published
    /\ \A s \in Subscribers : /\ excused[s] \subseteq excused'[s]
                              /\ excused'[s] \cap ToSet(received[s]) = {}
    /\ UNCHANGED <<received, status>>

Start(s) ==
    /\ status[s] = "none"
    /\ status' = [status EXCEPT ![s] = "open"]
    /\ UNCHANGED <<published, excused, received>>

(* The next row due, and no other.                                         *)
Receive(s) ==
    /\ status[s] = "open"
    /\ Due(s) # {}
    /\ received' = [received EXCEPT ![s] = Append(@, Min(Due(s)))]
    /\ UNCHANGED <<published, excused, status>>

End(s) ==
    /\ status[s] = "open"
    /\ status' = [status EXCEPT ![s] = "ended"]
    /\ UNCHANGED <<published, excused, received>>

Next == Publish \/ \E s \in Subscribers : Start(s) \/ Receive(s) \/ End(s)

Progress ==
    \A s \in Subscribers, r \in 1 .. MaxRows :
        status[s] = "open" /\ r \in Due(s) ~> status[s] = "ended" \/ r \notin Due(s)

Spec == Init /\ [][Next]_vars /\ Progress
=============================================================================
