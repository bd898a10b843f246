--------------------------- MODULE MCDecisionLog ---------------------------
(* An instance of DecisionLog for TLC. *)
EXTENDS DecisionLog

NoSchedule == <<>>
OneLater   == [c \in Cases |-> IF c = 1 THEN 0 ELSE 1320]

\* Midnight, 10:00, 20:00 and 22:00; messages are due on the next day too.
FourLooks == {0, 600, 1200, 1320}

\* A merchant without quiet hours, and one who is quiet longer.
AlwaysOrLate == {<<0, 0>>, <<18, 12>>}

\* Worth a message; worth it by less than the rounding; not worth it.
ThreeDraws == {<<20400, 10000>>, <<20004, 10000>>, <<10000, 10000>>}
=============================================================================
