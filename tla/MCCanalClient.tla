--------------------------- MODULE MCCanalClient ---------------------------
(***************************************************************************)
(* Instance of CanalClient for TLC.                                        *)
(***************************************************************************)
EXTENDS CanalClient

CONSTANTS c1, a, t1, t2

MCDefaultStart == [suffix |-> 1, position |-> 4]

TwoPositions == {[suffix |-> 1, position |-> 300],
                 [suffix |-> 2, position |-> 120]}

MCIdsOf == [c \in {c1} |-> {a}]

MCIdOf == [c \in {c1} |-> a]

MCFilterOf == [c \in {c1} |-> {t1}]

MCFilters == {{t1}}
=============================================================================
