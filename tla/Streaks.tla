------------------------------ MODULE Streaks ------------------------------
(***************************************************************************)
(* CalcStreaks: the current and the longest streak of contribution days.   *)
(*                                                                         *)
(* The days of all years come newest year first and are sorted by date;    *)
(* GitHub's calendar has every date from the first January to the moment   *)
(* it was asked, so the sorted slice is a row of consecutive dates and is  *)
(* modelled by the numbers 1 .. n of its dates.  A count matters only in   *)
(* whether it is positive.  "today" is the date of the server's clock in   *)
(* its own time zone, while the calendar ends with a date of GitHub's: the *)
(* slice may end a day before or after today.                              *)
(***************************************************************************)
EXTENDS Integers

CONSTANT MaxDays   \* bound on the number of days

ASSUME StreaksAssumption == MaxDays \in Nat

VARIABLES n,        \* len(days)
          active,   \* days[i].Count > 0, by date
          today,    \* todayDate
          phase,    \* "scan": first loop, "back": second loop, "done"
          i, streak, longest, start, current

input == <<n, active, today>>
vars  == <<input, phase, i, streak, longest, start, current>>

Init ==
  /\ n \in 0 .. MaxDays
  /\ active \in [1 .. n -> BOOLEAN]
  /\ today \in {n - 1, n, n + 1}
  /\ phase = IF n = 0 THEN "done" ELSE "scan"
  /\ i = 1 /\ streak = 0 /\ longest = 0 /\ start = today /\ current = 0

----------------------------------------------------------------------------
\* Faulty variant of Lengthened: a day without contributions does not end it.
NeverEnded(s, day) == IF active[day] THEN s + 1 ELSE s

Lengthened(s, day) == IF active[day] THEN s + 1 ELSE 0

\* Faulty variant of Best: the longest is compared when a streak ends.
BestAtEnd(s, best, day) == IF ~active[day] /\ streak > best THEN streak ELSE best

Best(s, best, day) == IF active[day] /\ s > best THEN s ELSE best

\* The first loop.
ScanDay ==
  /\ phase = "scan" /\ i <= n
  /\ streak' = Lengthened(streak, i)
  /\ longest' = Best(streak', longest, i)
  /\ i' = i + 1
  /\ UNCHANGED <<input, phase, start, current>>

\* Faulty variant of FirstCounted: a day that is not over ends the streak.
Today == today

\* The date the current streak is counted back from: a last day that is today
\* and still empty is passed over.
FirstCounted == IF n = today /\ ~active[n] THEN today - 1 ELSE today

\* Faulty variant of Turn: the second loop starts at len(days).
TurnAtLen ==
  /\ phase = "scan" /\ i > n
  /\ phase' = "back"
  /\ start' = FirstCounted
  /\ i' = n + 1
  /\ UNCHANGED <<input, streak, longest, current>>

Turn ==
  /\ phase = "scan" /\ i > n
  /\ phase' = "back"
  /\ start' = FirstCounted
  /\ i' = n
  /\ UNCHANGED <<input, streak, longest, current>>

\* The second loop, newest day first: days after start are skipped ..
SkipDay ==
  /\ phase = "back" /\ i > 0 /\ i > start
  /\ i' = i - 1
  /\ UNCHANGED <<input, phase, streak, longest, start, current>>

\* .. active days on start are counted ..
CountDay ==
  /\ phase = "back" /\ i > 0 /\ i = start /\ active[i]
  /\ current' = current + 1
  /\ start' = start - 1
  /\ i' = i - 1
  /\ UNCHANGED <<input, phase, streak, longest>>

\* .. and the first other one ends the count.
Return ==
  /\ phase = "back"
  /\ \/ i = 0
     \/ i > 0 /\ i = start /\ ~active[i]
     \/ i > 0 /\ i < start
  /\ phase' = "done"
  /\ UNCHANGED <<input, i, streak, longest, start, current>>

Next == ScanDay \/ Turn \/ SkipDay \/ CountDay \/ Return

Spec == Init /\ [][Next]_vars

----------------------------------------------------------------------------
\* The type invariant.  The indices of both loops stay within the slice.
TypeOK ==
  /\ n \in Nat
  /\ active \in [1 .. n -> BOOLEAN]
  /\ today \in {n - 1, n, n + 1}
  /\ phase \in {"scan", "back", "done"}
  /\ i \in Int
  /\ phase = "scan" => i \in 1 .. n + 1
  /\ phase = "back" => i \in 0 .. n
  /\ streak \in Nat /\ longest \in Nat /\ current \in Nat
  /\ start \in Int

Active(d) == d \in 1 .. n /\ active[d]

\* The days a .. b are a run of active days.
Run(a, b) == a <= b /\ \A d \in a .. b : Active(d)

\* The run of active days that ends with day d has k days.
EndsRunOf(d, k) ==
  /\ \A e \in d - k + 1 .. d : Active(e)
  /\ ~Active(d - k)

\* longest is the length of the longest run of consecutive active days, the
\* last one included, however the years were put together.
LongestIsLongest ==
  phase = "done" =>
    /\ \A a, b \in 1 .. n : Run(a, b) => b - a + 1 <= longest
    /\ longest > 0 => \E a, b \in 1 .. n : Run(a, b) /\ b - a + 1 = longest

\* current is the length of the run that ends today, or yesterday while today
\* has no contributions yet: a streak is not reported lost before its day is
\* over.  (Of a calendar that does not end with today, only a run that ends
\* exactly today counts.)
CurrentEndsToday ==
  phase = "done" =>
    EndsRunOf(IF n = today /\ ~Active(today) THEN today - 1 ELSE today, current)

\* The two loops agree: the current streak is one of those the first loop saw.
CurrentIsNoLonger == phase = "done" => current <= longest
=============================================================================
