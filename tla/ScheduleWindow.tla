--------------------------- MODULE ScheduleWindow ---------------------------
(* The window of the week in which downloads may start                     *)
(* (core/schedule_window.py).  A moment is a day and a slot of the day.    *)
EXTENDS Integers

CONSTANT Slots      \* slots of a day

ASSUME ADayHasSlots == Slots \in Nat \ {0}

Days    == 0..6
Moments == 0..(7 * Slots - 1)

Day(t)  == t \div Slots
Slot(t) == t % Slots

(* No valid day configured: every day.                                     *)
AllowedDays(w) == IF w.days = {} THEN Days ELSE w.days

SpansMidnight(w) == w.end <= w.start

InWindowSameDay(w, t) ==
  /\ Day(t) \in AllowedDays(w)
  /\ IF SpansMidnight(w) THEN Slot(t) >= w.start \/ Slot(t) < w.end
                         ELSE w.start <= Slot(t) /\ Slot(t) < w.end

(* After midnight the day that counts is the one the window began on.      *)
InWindow(w, t) ==
  LET yesterday == (Day(t) + 6) % 7 IN
  IF ~SpansMidnight(w)
  THEN w.start <= Slot(t) /\ Slot(t) < w.end /\ Day(t) \in AllowedDays(w)
  ELSE IF Slot(t) >= w.start THEN Day(t) \in AllowedDays(w)
  ELSE Slot(t) < w.end /\ yesterday \in AllowedDays(w)
=============================================================================
