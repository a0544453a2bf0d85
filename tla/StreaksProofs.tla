---------------------------- MODULE StreaksProofs ----------------------------
(***************************************************************************)
(* CalcStreaks is right for calendars of every length.                     *)
(*                                                                         *)
(* The invariants of its two loops: the first has, before day i, the       *)
(* length of the run that ends at i - 1 and that of the longest run so     *)
(* far; the second has counted active days from FirstDay down to start.    *)
(***************************************************************************)
EXTENDS Streaks, TLAPS

\* The day a current streak has to reach.
FirstDay == IF n = today /\ ~Active(today) THEN today - 1 ELSE today

\* longest is right for the days 1 .. m.
LongestUpTo(m) ==
  /\ \A a, b \in 1 .. m : Run(a, b) => b - a + 1 <= longest
  /\ longest > 0 => \E a, b \in 1 .. m : Run(a, b) /\ b - a + 1 = longest

\* The first loop.
ScanInv ==
  phase = "scan" =>
    /\ n > 0
    /\ streak <= i - 1
    /\ \A d \in i - streak .. i - 1 : Active(d)
    /\ ~Active(i - 1 - streak)
    /\ streak <= longest
    /\ LongestUpTo(i - 1)
    /\ current = 0

\* The second loop.
BackInv ==
  phase = "back" =>
    /\ LongestUpTo(n)
    /\ current = FirstDay - start
    /\ \A d \in start + 1 .. FirstDay : Active(d)
    /\ current = 0 \/ i = start
    /\ start <= i \/ start > n

DoneInv ==
  phase = "done" => LongestUpTo(n) /\ EndsRunOf(FirstDay, current)

StreaksInv == TypeOK /\ ScanInv /\ BackInv /\ DoneInv

LEMMA StreaksInit ==
  ASSUME Init
  PROVE  StreaksInv
<1> USE StreaksAssumption
<1>1. TypeOK
  BY DEF Init, TypeOK
<1>2. ScanInv
  BY DEF Init, ScanInv, LongestUpTo, Active
<1>3. BackInv
  BY DEF Init, BackInv
<1>4. DoneInv
  <2>1. SUFFICES ASSUME n = 0
                 PROVE  LongestUpTo(n) /\ EndsRunOf(FirstDay, current)
    BY DEF Init, DoneInv
  <2>2. LongestUpTo(n)
    BY <2>1 DEF Init, LongestUpTo
  <2>3. EndsRunOf(FirstDay, current)
    <3>1. current = 0 /\ FirstDay \in Int
      BY <2>1 DEF Init, FirstDay
    <3>2. \A d \in Int : ~Active(d)
      BY <2>1 DEF Active
    <3> QED BY <3>1, <3>2 DEF EndsRunOf
  <2> QED BY <2>2, <2>3
<1> QED BY <1>1, <1>2, <1>3, <1>4 DEF StreaksInv

\* No step changes what the days say.
LEMMA SameDays ==
  ASSUME UNCHANGED input
  PROVE  /\ \A d : Active(d)' = Active(d)
         /\ \A a, b : Run(a, b)' = Run(a, b)
         /\ FirstDay' = FirstDay
BY DEF input, Active, Run, FirstDay

LEMMA ScanDayStep ==
  ASSUME StreaksInv, ScanDay
  PROVE  StreaksInv'
<1>1. /\ phase = "scan" /\ i \in 1 .. n /\ n \in Nat /\ streak \in Nat /\ longest \in Nat
      /\ active \in [1 .. n -> BOOLEAN]
      /\ UNCHANGED <<n, active, today, phase, start, current>> /\ i' = i + 1
      /\ streak' = Lengthened(streak, i) /\ longest' = Best(streak', longest, i)
  BY DEF ScanDay, input, StreaksInv, TypeOK
<1>2. /\ n > 0
      /\ streak <= i - 1
      /\ \A d \in i - streak .. i - 1 : Active(d)
      /\ ~Active(i - 1 - streak)
      /\ streak <= longest
      /\ LongestUpTo(i - 1)
      /\ current = 0
  BY <1>1 DEF StreaksInv, ScanInv
<1>3. /\ streak' \in Nat /\ longest' \in Nat /\ streak' <= i
      /\ longest' >= longest /\ longest' >= streak'
      /\ longest' = longest \/ longest' = streak'
  BY <1>1, <1>2 DEF Lengthened, Best
<1>4. TypeOK'
  BY <1>1, <1>3 DEF StreaksInv, TypeOK
<1>5. /\ \A d \in i + 1 - streak' .. i : Active(d)
      /\ ~Active(i - streak')
  <2>1. CASE active[i]
    <3>1. streak' = streak + 1
      BY <1>1, <2>1 DEF Lengthened
    <3>2. Active(i)
      BY <1>1, <2>1 DEF Active
    <3>3. i - streak' = i - 1 - streak /\ i + 1 - streak' = i - streak
      BY <1>1, <3>1
    <3> QED BY <1>1, <1>2, <3>2, <3>3
  <2>2. CASE ~active[i]
    <3>1. streak' = 0
      BY <1>1, <2>2 DEF Lengthened
    <3>2. ~Active(i)
      BY <2>2 DEF Active
    <3> QED BY <1>1, <3>1, <3>2
  <2> QED BY <2>1, <2>2
<1>6. \A a, b \in 1 .. i : Run(a, b) => b - a + 1 <= longest'
  <2> SUFFICES ASSUME NEW a \in 1 .. i, NEW b \in 1 .. i, Run(a, b)
               PROVE  b - a + 1 <= longest'
    OBVIOUS
  <2>1. CASE b < i
    <3>1. a \in 1 .. i - 1 /\ b \in 1 .. i - 1
      BY <1>1, <2>1 DEF Run
    <3>2. b - a + 1 <= longest
      BY <1>2, <3>1 DEF LongestUpTo
    <3>3. b - a + 1 \in Int /\ longest \in Int /\ longest' \in Int /\ longest <= longest'
      BY <1>1, <1>3
    <3> QED BY <3>2, <3>3
  <2>2. CASE b = i
    <3>1. ~(i - streak' \in a .. b)
      BY <1>5 DEF Run
    <3>2. i - streak' \in Int /\ i - streak' <= i /\ i \in Int /\ a \in Int
      BY <1>1, <1>3
    <3>3. i - streak' < a
      BY <2>2, <3>1, <3>2
    <3> QED BY <1>1, <1>3, <2>2, <3>2, <3>3
  <2>3. b < i \/ b = i
    <3>1. i \in Int /\ b \in 1 .. i
      BY <1>1
    <3> QED BY <3>1
  <2> QED BY <2>1, <2>2, <2>3
<1>7. longest' > 0 => \E a, b \in 1 .. i : Run(a, b) /\ b - a + 1 = longest'
  <2>1. CASE longest' = longest
    <3> SUFFICES ASSUME longest > 0
                 PROVE  \E a, b \in 1 .. i : Run(a, b) /\ b - a + 1 = longest
      BY <2>1
    <3>1. PICK a \in 1 .. i - 1, b \in 1 .. i - 1 : Run(a, b) /\ b - a + 1 = longest
      BY <1>2 DEF LongestUpTo
    <3> QED BY <1>1, <3>1
  <2>2. CASE longest' = streak'
    <3> SUFFICES ASSUME streak' > 0
                 PROVE  \E a, b \in 1 .. i : Run(a, b) /\ b - a + 1 = streak'
      BY <2>2
    <3>1. i + 1 - streak' \in 1 .. i
      BY <1>1, <1>3
    <3>2. Run(i + 1 - streak', i)
      BY <1>5, <3>1 DEF Run
    <3>3. i - (i + 1 - streak') + 1 = streak' /\ i \in 1 .. i
      BY <1>1, <1>3
    <3> QED BY <3>1, <3>2, <3>3
  <2> QED BY <1>3, <2>1, <2>2
<1>8. /\ \A d : Active(d)' = Active(d)
      /\ \A a, b : Run(a, b)' = Run(a, b)
  BY <1>1, SameDays DEF input
<1>9. ScanInv'
  BY <1>1, <1>2, <1>3, <1>5, <1>6, <1>7, <1>8 DEF ScanInv, LongestUpTo
<1> QED BY <1>1, <1>4, <1>9 DEF StreaksInv, BackInv, DoneInv

LEMMA TurnStep ==
  ASSUME StreaksInv, Turn
  PROVE  StreaksInv'
<1>1. /\ phase = "scan" /\ i = n + 1 /\ n \in Nat /\ today \in Int
      /\ UNCHANGED <<n, active, today, streak, longest, current>>
      /\ i' = n /\ phase' = "back" /\ start' = FirstCounted
  BY DEF Turn, input, StreaksInv, TypeOK
<1>2. LongestUpTo(n) /\ current = 0
  <2>1. LongestUpTo(i - 1) /\ current = 0
    BY <1>1 DEF StreaksInv, ScanInv
  <2>2. i - 1 = n
    BY <1>1
  <2> QED BY <2>1, <2>2
<1>3. FirstCounted = FirstDay /\ FirstDay \in Int
  <2>1. n = today => (Active(today) <=> n > 0 /\ active[n])
    BY <1>1 DEF Active
  <2>2. n > 0
    BY <1>1 DEF StreaksInv, ScanInv
  <2> QED BY <1>1, <2>1, <2>2 DEF FirstCounted, FirstDay
<1>4. TypeOK'
  BY <1>1, <1>3 DEF StreaksInv, TypeOK
<1>5. FirstDay' = FirstDay
  BY <1>1, SameDays DEF input
<1>6. LongestUpTo(n)'
  BY <1>1, <1>2 DEF LongestUpTo, Run, Active
<1>7. start' = FirstDay /\ current' = 0
  BY <1>1, <1>2, <1>3
<1>8. FirstDay <= n \/ FirstDay > n
  BY <1>1, <1>3
<1>9. BackInv'
  <2>1. current' = FirstDay' - start'
    BY <1>3, <1>5, <1>7
  <2>2. \A d \in start' + 1 .. FirstDay' : Active(d)'
    BY <1>3, <1>5, <1>7
  <2> QED BY <1>1, <1>6, <1>7, <1>8, <2>1, <2>2 DEF BackInv
<1> QED BY <1>1, <1>4, <1>9 DEF StreaksInv, ScanInv, DoneInv

LEMMA SkipDayStep ==
  ASSUME StreaksInv, SkipDay
  PROVE  StreaksInv'
<1>1. /\ phase = "back" /\ i \in 1 .. n /\ n \in Nat /\ start \in Int /\ i > start
      /\ UNCHANGED <<n, active, today, phase, streak, longest, start, current>>
      /\ i' = i - 1
  BY DEF SkipDay, input, StreaksInv, TypeOK
<1>2. TypeOK'
  BY <1>1 DEF StreaksInv, TypeOK
<1>3. /\ LongestUpTo(n)
      /\ current = FirstDay - start
      /\ \A d \in start + 1 .. FirstDay : Active(d)
      /\ current = 0
  BY <1>1 DEF StreaksInv, BackInv
<1>4. /\ \A d : Active(d)' = Active(d)
      /\ FirstDay' = FirstDay
  BY <1>1, SameDays DEF input
<1>5. LongestUpTo(n)'
  BY <1>1, <1>3 DEF LongestUpTo, Run, Active
<1>6. start' <= i'
  BY <1>1
<1>7. BackInv'
  BY <1>1, <1>3, <1>4, <1>5, <1>6 DEF BackInv
<1> QED BY <1>1, <1>2, <1>7 DEF StreaksInv, ScanInv, DoneInv

LEMMA CountDayStep ==
  ASSUME StreaksInv, CountDay
  PROVE  StreaksInv'
<1>1. /\ phase = "back" /\ i \in 1 .. n /\ n \in Nat /\ i = start /\ active[i]
      /\ UNCHANGED <<n, active, today, phase, streak, longest>>
      /\ i' = i - 1 /\ start' = start - 1 /\ current' = current + 1
      /\ current \in Nat
  BY DEF CountDay, input, StreaksInv, TypeOK
<1>2. TypeOK'
  BY <1>1 DEF StreaksInv, TypeOK
<1>3. /\ LongestUpTo(n)
      /\ current = FirstDay - start
      /\ \A d \in start + 1 .. FirstDay : Active(d)
  BY <1>1 DEF StreaksInv, BackInv
<1>4. /\ \A d : Active(d)' = Active(d)
      /\ FirstDay' = FirstDay
  BY <1>1, SameDays DEF input
<1>5. LongestUpTo(n)'
  BY <1>1, <1>3 DEF LongestUpTo, Run, Active
<1>6. FirstDay \in Int
  BY DEF FirstDay, StreaksInv, TypeOK
<1>7. current' = FirstDay' - start'
  BY <1>1, <1>3, <1>4, <1>6
<1>8. \A d \in start' + 1 .. FirstDay' : Active(d)'
  <2>1. Active(start)
    BY <1>1 DEF Active
  <2> QED BY <1>1, <1>3, <1>4, <1>6, <2>1
<1>9. BackInv'
  BY <1>1, <1>5, <1>7, <1>8 DEF BackInv
<1> QED BY <1>1, <1>2, <1>9 DEF StreaksInv, ScanInv, DoneInv

LEMMA ReturnStep ==
  ASSUME StreaksInv, Return
  PROVE  StreaksInv'
<1>1. /\ phase = "back" /\ phase' = "done" /\ i \in 0 .. n /\ n \in Nat
      /\ start \in Int /\ current \in Nat
      /\ UNCHANGED <<n, active, today, i, streak, longest, start, current>>
  BY DEF Return, input, StreaksInv, TypeOK
<1>2. TypeOK'
  BY <1>1 DEF StreaksInv, TypeOK
<1>3. /\ LongestUpTo(n)
      /\ current = FirstDay - start
      /\ \A d \in start + 1 .. FirstDay : Active(d)
      /\ start <= i \/ start > n
  BY <1>1 DEF StreaksInv, BackInv
<1>4. /\ \A d : Active(d)' = Active(d)
      /\ FirstDay' = FirstDay
  BY <1>1, SameDays DEF input
<1>5. LongestUpTo(n)'
  BY <1>1, <1>3 DEF LongestUpTo, Run, Active
<1>6. ~Active(start)
  BY <1>1, <1>3 DEF Return, Active
<1>7. FirstDay \in Int
  BY DEF FirstDay, StreaksInv, TypeOK
<1>8. FirstDay - current = start /\ FirstDay - current + 1 = start + 1
  BY <1>1, <1>3, <1>7
<1>9. EndsRunOf(FirstDay, current)
  BY <1>3, <1>6, <1>8 DEF EndsRunOf
<1>10. EndsRunOf(FirstDay, current)'
  BY <1>1, <1>4, <1>9 DEF EndsRunOf
<1>11. DoneInv'
  BY <1>1, <1>5, <1>10 DEF DoneInv
<1> QED BY <1>1, <1>2, <1>11 DEF StreaksInv, ScanInv, BackInv

LEMMA StreaksStep ==
  ASSUME StreaksInv, [Next]_vars
  PROVE  StreaksInv'
<1>1. CASE UNCHANGED vars
  <2>1. UNCHANGED <<n, active, today, phase, i, streak, longest, start, current>>
    BY <1>1 DEF vars, input
  <2>2. TypeOK' /\ FirstDay' = FirstDay
    BY <2>1, SameDays DEF StreaksInv, TypeOK, input
  <2>3. ScanInv'
    BY <2>1 DEF StreaksInv, ScanInv, LongestUpTo, Run, Active
  <2>4. BackInv'
    BY <2>1, <2>2 DEF StreaksInv, BackInv, LongestUpTo, Run, Active
  <2>5. DoneInv'
    BY <2>1, <2>2 DEF StreaksInv, DoneInv, LongestUpTo, Run, Active, EndsRunOf
  <2> QED BY <2>2, <2>3, <2>4, <2>5 DEF StreaksInv
<1> QED BY <1>1, ScanDayStep, TurnStep, SkipDayStep, CountDayStep, ReturnStep DEF Next

\* A current streak that ends at FirstDay is one of the runs.
LEMMA CurrentIsARun ==
  ASSUME StreaksInv
  PROVE  CurrentIsNoLonger
<1> SUFFICES ASSUME phase = "done"
             PROVE  current <= longest
  BY DEF CurrentIsNoLonger
<1>1. LongestUpTo(n) /\ EndsRunOf(FirstDay, current)
  BY DEF StreaksInv, DoneInv
<1>2. current \in Nat /\ longest \in Nat /\ FirstDay \in Int
  BY DEF StreaksInv, TypeOK, FirstDay
<1>3. CASE current = 0
  BY <1>2, <1>3
<1>4. CASE current > 0
  <2> DEFINE a == FirstDay - current + 1
  <2>1. a \in Int /\ a <= FirstDay /\ FirstDay - a + 1 = current
    BY <1>2, <1>4
  <2>2. \A d \in a .. FirstDay : Active(d)
    BY <1>1 DEF EndsRunOf
  <2>3. a \in 1 .. n /\ FirstDay \in 1 .. n
    <3> HIDE DEF a
    <3>1. a \in a .. FirstDay /\ FirstDay \in a .. FirstDay
      BY <1>2, <2>1
    <3> QED BY <2>2, <3>1 DEF Active
  <2>4. Run(a, FirstDay)
    BY <2>1, <2>2 DEF Run
  <2> HIDE DEF a
  <2> QED BY <1>1, <2>1, <2>3, <2>4 DEF LongestUpTo
<1> QED BY <1>2, <1>3, <1>4

\* CalcStreaks returns the length of the longest run of active days and that
\* of the run that reaches today (or yesterday, while today is empty), and the
\* second is at most the first.
THEOREM StreaksAreRight ==
  Spec => [](TypeOK /\ LongestIsLongest /\ CurrentEndsToday /\ CurrentIsNoLonger)
<1>1. Init => StreaksInv
  BY StreaksInit
<1>2. StreaksInv /\ [Next]_vars => StreaksInv'
  BY StreaksStep
<1>3. StreaksInv => TypeOK /\ LongestIsLongest /\ CurrentEndsToday /\ CurrentIsNoLonger
  BY CurrentIsARun DEF StreaksInv, DoneInv, LongestUpTo, FirstDay, LongestIsLongest,
     CurrentEndsToday
<1> QED BY <1>1, <1>2, <1>3, PTL DEF Spec
=============================================================================
