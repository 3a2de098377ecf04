--------------------------- MODULE MCCanalServer ---------------------------
(***************************************************************************)
(* Instances of CanalServer for TLC.                                       *)
(***************************************************************************)
EXTENDS CanalServer, TLC

CONSTANTS c1, c2, a, b, t1, t2

MCDefaultStart == [suffix |-> 1, position |-> 4]

MCPositions == {[suffix |-> 1, position |-> 300],
                [suffix |-> 2, position |-> 120],
                [suffix |-> 2, position |-> 200]}

TwoPositions == {[suffix |-> 1, position |-> 300],
                 [suffix |-> 2, position |-> 120]}

OnePosition == {[suffix |-> 1, position |-> 300]}

OneConnection == [c \in {c1} |-> {a}]

OwnIds == (c1 :> {a}) @@ (c2 :> {b})

JustT1 == {{t1}}

OneOrAll == {{t1}, {t1, t2}}

FetchOne == {1}

FetchOneOrAny == {1, -1}
=============================================================================
