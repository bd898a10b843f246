--------------------------- MODULE ContactWindow ---------------------------
(***************************************************************************)
(* The clock arithmetic of the contact window: in_quiet_hours and          *)
(* next_contact_window (app/domain/gates.py) and the instant timing.when   *)
(* gives a message (app/domain/timing.py).  Instants are minutes since a   *)
(* midnight; seconds and time zones are left out.                          *)
(***************************************************************************)
EXTENDS Integers

Day == 1440
HourOf(t) == (t % Day) \div 60

InQuietHours(t, start, end) ==
  IF start = end THEN FALSE
  ELSE IF start > end THEN HourOf(t) >= start \/ HourOf(t) < end
  ELSE start <= HourOf(t) /\ HourOf(t) < end

\* Mutant: a window that opened earlier today is not moved to tomorrow.
NextContactWindowToday(t, start, end) ==
  IF InQuietHours(t, start, end) THEN t - (t % Day) + 60 * end ELSE t

NextContactWindow(t, start, end) ==
  LET candidate == t - (t % Day) + 60 * end
  IN  IF ~InQuietHours(t, start, end) THEN t
      ELSE IF candidate <= t THEN candidate + Day
      ELSE candidate

\* Mutant: the window is applied before the delay.
ContactAtWindowFirst(now, delay, start, end) == NextContactWindow(now, start, end) + delay

\* timing.when for an action that contacts somebody, `delay` after `now`.
\* decide() has returned WAIT already when a gate holds beyond `now`.
ContactAt(now, delay, start, end) == NextContactWindow(now + delay, start, end)

(* The next window opens at the first instant at which contact is legal    *)
(* again, across midnight and on the boundary itself: it is outside the    *)
(* quiet hours and every instant before it is inside.                      *)
FirstLegal(t, start, end) ==
  LET n == NextContactWindow(t, start, end)
  IN  /\ t <= n /\ ~InQuietHours(n, start, end)
      /\ \A u \in t..(n - 1) : InQuietHours(u, start, end)
=============================================================================
