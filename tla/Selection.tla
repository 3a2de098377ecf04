------------------------------ MODULE Selection ------------------------------
(***************************************************************************)
(* Iterator::filter, by which the sink, the feeder and handle_get choose   *)
(* what goes on.                                                           *)
(***************************************************************************)
EXTENDS Naturals, Sequences

(* The elements of s that are in wanted, in their order.                   *)
Kept(s, wanted) ==
    LET upto[n \in 0 .. Len(s)] ==
          IF n = 0 THEN <<>>
          ELSE IF s[n] \in wanted THEN Append(upto[n - 1], s[n]) ELSE upto[n - 1]
    IN  upto[Len(s)]
=============================================================================
