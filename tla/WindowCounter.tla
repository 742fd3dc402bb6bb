--------------------------- MODULE WindowCounter ---------------------------
(***************************************************************************)
(* The transfer counter the two exchange-limit modules keep per exchange   *)
(* and investor: an encrypted count and the time its window ends.  The     *)
(* window opens with the first counted transfer and the counter is reset   *)
(* lazily, by the first counted transfer after it has closed.              *)
(*                                                                         *)
(* wrapped is history: what the open window has really counted no longer   *)
(* fits a word, so that count is less than it.                             *)
(***************************************************************************)
EXTENDS FHEUint

NewCounter == [count |-> 0, timer |-> 0, wrapped |-> FALSE]

\* _isExchangeMonthFinished, _isExchangeCounterFinished
Finished(c, now) == c.timer <= now

\* Mutant of WithinWindow: the running count is ignored.
WithinWindowOnce(c, units, limit, now) == units <= limit

\* moduleCheck: the amount fits the limit, alone and with what the running
\* window has counted.
WithinWindow(c, units, limit, now) ==
  /\ units <= limit
  /\ Finished(c, now) \/ Add(c.count, units) <= limit

\* Mutant of Counted: the new window starts with the old count.
CountedWithoutReset(c, units, window, now) ==
  [count |-> Add(c.count, units),
   timer |-> IF Finished(c, now) THEN now + window ELSE c.timer,
   wrapped |-> c.wrapped \/ c.count + units >= Word]

\* Mutant of Counted: the count does not wrap.
CountedUnbounded(c, units, window, now) ==
  IF Finished(c, now)
  THEN [count |-> units, timer |-> now + window, wrapped |-> FALSE]
  ELSE [c EXCEPT !.count = @ + units]

\* _increaseExchangeCounters, after _resetExchange...Cooldown
Counted(c, units, window, now) ==
  IF Finished(c, now)
  THEN [count |-> units, timer |-> now + window, wrapped |-> FALSE]
  ELSE [c EXCEPT !.count = Add(@, units),
                 !.wrapped = @ \/ c.count + units >= Word]
=============================================================================
