-------------------------------- MODULE Feed --------------------------------
(***************************************************************************)
(* The decision lines of the dashboard feed: _decisions                    *)
(* (app/services/feed.py) walks the stored decisions of a window from the  *)
(* newest backwards, folds the equal ones of a case into a run, and stops  *)
(* once enough runs are closed.  A decision's id is its place in the       *)
(* table, which is also the order of the dates.  The query orders by       *)
(* decided_at alone: of equal dates the newest row comes first because     *)
(* sqlite walks the index ix_dec_live backwards, which is how the order of *)
(* the ids is read here.  The fold across cases and the cut to a page are  *)
(* left out.                                                               *)
(***************************************************************************)
EXTENDS Integers, Sequences

KeyOf(row) == <<row.action, row.reason>>

NewRun(row, id) == [case |-> row.case, key |-> KeyOf(row), id |-> id, at |-> row.at,
                    heldUntil |-> row.at, repeats |-> 1]

\* Mutant: the run keeps the date and the id of its newest decision.
EarlierUndated(run, row, id) == [run EXCEPT !.repeats = @ + 1]

Earlier(run, row, id) == [run EXCEPT !.at = row.at, !.id = id, !.repeats = @ + 1]

NothingSeen == [stopped |-> FALSE, closed |-> <<>>, open |-> <<>>]

Look(walk, row, id, budget) ==
  LET c       == row.case
      known   == c \in DOMAIN walk.open
      same    == known /\ walk.open[c].key = KeyOf(row)
      closing == IF known /\ ~same THEN <<walk.open[c]>> ELSE <<>>
      closed  == walk.closed \o closing
      stops   == closing # <<>> /\ Len(closed) >= budget
      run     == IF same THEN Earlier(walk.open[c], row, id) ELSE NewRun(row, id)
  IN  IF walk.stopped THEN walk
      ELSE [stopped |-> stops, closed |-> closed,
            open |-> IF stops THEN walk.open
                     ELSE [d \in DOMAIN walk.open \cup {c} |->
                             IF d = c THEN run ELSE walk.open[d]]]

(* The walk over the n newest rows; those decided before `since` are not   *)
(* read.                                                                   *)
Step(rows, since, budget, walk, n) ==
  LET id == Len(rows) - n + 1
  IN  IF n = 0 THEN NothingSeen
      ELSE IF rows[id].at < since THEN walk[n - 1]
      ELSE Look(walk[n - 1], rows[id], id, budget)

Walk(rows, since, budget) ==
  LET walk[n \in 0..Len(rows)] == Step(rows, since, budget, walk, n) IN walk

Listed(seq) == {seq[i] : i \in DOMAIN seq}

\* The runs of the rows, oldest first, that were decided at `since` or later.
Runs(rows, since, budget) ==
  LET last == Walk(rows, since, budget)[Len(rows)]
  IN  Listed(last.closed) \cup (IF last.stopped THEN {} ELSE Listed(last.open))
=============================================================================
