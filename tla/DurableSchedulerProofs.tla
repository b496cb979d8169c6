----------------------- MODULE DurableSchedulerProofs ------------------------
(***************************************************************************)
(* The safety properties of the durable scheduler, for any reminders, any  *)
(* bounds of the clock and of the crashes, and whatever the main loop does.*)
(***************************************************************************)
EXTENDS DurableScheduler, TLAPS

(* No row yet, and none that was cancelled. *)
Fresh(r) == row[r] = "absent" /\ cancelled[r] = "no"

(* No row that check_and_fire could select, though there was one. *)
Spent(r) == row[r] = "fired" \/ (row[r] = "absent" /\ cancelled[r] # "no")

(* run_loop is past _calc_next for r, or will never get there. *)
Passed(r) == Spent(r) /\ r \notin batch /\ ~(fpc = "repeating" /\ firing = r)

Repeats(r) == NextOf[r] # Nothing

(* What was not marked was not sent. *)
UnmarkedUnsent ==
    \A r \in Reminder : row[r] = "pending" \/ Fresh(r) \/ r \in batch => rings[r] = 0

(* A batch loses a reminder to a cancellation only, and it says so. *)
BatchListed == \A r \in batch : row[r] = "pending" \/ (Spent(r) /\ cancelled[r] = "listed")

(* What is being fired is marked and was not sent before. *)
FiringMarked ==
    \A r \in Reminder :
        firing = r => Spent(r) /\ r \notin batch /\ rings[r] = 0 /\ cancelled[r] # "unlisted"

(* A next occurrence is there only after its predecessor was passed. *)
NextFollows == \A r \in Reminder : Repeats(r) /\ ~Fresh(NextOf[r]) => Passed(r)

(* It is there before the text is sent. *)
NextFirst ==
    \A r \in Reminder :
        Repeats(r) /\ (rings[r] > 0 \/ (firing = r /\ fpc # "repeating")) => ~Fresh(NextOf[r])

(* A reminder cancelled in time is out of run_loop's reach. *)
UnlistedQuiet ==
    \A r \in Reminder :
        cancelled[r] = "unlisted"
          => /\ row[r] = "absent" /\ r \notin batch /\ rings[r] = 0
             /\ Repeats(r) => Fresh(NextOf[r])

TableInv ==
    /\ SchedulerTypeOK
    /\ RingsOnce
    /\ UnmarkedUnsent
    /\ BatchListed
    /\ FiringMarked
    /\ NextFollows
    /\ NextFirst
    /\ UnlistedQuiet

-----------------------------------------------------------------------------
(* The constants, in the form the steps use them. *)
LEMMA Rows ==
    /\ Nothing \notin Reminder /\ MaxNow \in Nat /\ MaxCrashes \in Nat
    /\ \A r \in Reminder : Repeats(r) => NextOf[r] \in Reminder /\ NextOf[r] # r
    /\ \A r, q \in Reminder : Repeats(r) /\ NextOf[r] = NextOf[q] => r = q
<1>1. \A r \in Reminder : Repeats(r) =>
          NextOf[r] \in Reminder /\ DueOf[NextOf[r]] > DueOf[r] /\ DueOf[r] \in Nat
  BY ReminderConstants DEF Repeats
<1>2. \A r \in Reminder : Repeats(r) => NextOf[r] # r
  BY <1>1
<1>3. QED
  BY <1>1, <1>2, ReminderConstants DEF Repeats

-----------------------------------------------------------------------------
(* What turns of the brain do to the table. *)
LEMMA ScheduleKeeps ==
    ASSUME TableInv, NEW r \in Reminder, Schedule(r)
    PROVE  TableInv'
<1>0. /\ SchedulerTypeOK /\ RingsOnce /\ UnmarkedUnsent /\ BatchListed
      /\ FiringMarked /\ NextFollows /\ NextFirst /\ UnlistedQuiet
  BY DEF TableInv
<1>1. SchedulerTypeOK'
  BY <1>0 DEF Schedule, fireVars, SchedulerTypeOK
<1>2. RingsOnce'
  BY <1>0 DEF Schedule, fireVars, RingsOnce
<1>3. UnmarkedUnsent'
  BY <1>0 DEF Schedule, fireVars, UnmarkedUnsent, Fresh
<1>4. BatchListed'
  BY <1>0 DEF Schedule, fireVars, BatchListed, Spent
<1>5. FiringMarked'
  BY <1>0 DEF Schedule, fireVars, FiringMarked, Spent
<1>6. NextFollows'
  BY <1>0 DEF Schedule, First, fireVars, NextFollows, Fresh, Spent, Passed
<1>7. NextFirst'
  BY <1>0 DEF Schedule, fireVars, NextFirst, Fresh
<1>8. UnlistedQuiet'
  BY <1>0 DEF Schedule, First, fireVars, UnlistedQuiet, Fresh
<1>9. QED
  BY <1>1, <1>2, <1>3, <1>4, <1>5, <1>6, <1>7, <1>8 DEF TableInv

LEMMA CancelKeeps ==
    ASSUME TableInv, NEW r \in Reminder, CancelReminder(r)
    PROVE  TableInv'
<1>0. /\ SchedulerTypeOK /\ RingsOnce /\ UnmarkedUnsent /\ BatchListed
      /\ FiringMarked /\ NextFollows /\ NextFirst /\ UnlistedQuiet
  BY DEF TableInv
<1>1. SchedulerTypeOK'
  BY <1>0 DEF CancelReminder, fireVars, SchedulerTypeOK
<1>2. RingsOnce'
  BY <1>0 DEF CancelReminder, fireVars, RingsOnce
<1>3. UnmarkedUnsent'
  BY <1>0 DEF CancelReminder, fireVars, UnmarkedUnsent, Fresh
<1>4. BatchListed'
  BY <1>0 DEF CancelReminder, fireVars, SchedulerTypeOK, BatchListed, Spent
<1>5. FiringMarked'
  BY <1>0 DEF CancelReminder, fireVars, FiringMarked, Spent
<1>6. NextFollows'
  BY <1>0 DEF CancelReminder, fireVars, NextFollows, Fresh, Spent, Passed
<1>7. NextFirst'
  BY <1>0 DEF CancelReminder, fireVars, SchedulerTypeOK, NextFirst, Fresh
<1>8. UnlistedQuiet'
  BY <1>0
     DEF CancelReminder, fireVars, SchedulerTypeOK, UnlistedQuiet, NextFollows,
         UnmarkedUnsent, Fresh, Spent, Passed
<1>9. QED
  BY <1>1, <1>2, <1>3, <1>4, <1>5, <1>6, <1>7, <1>8 DEF TableInv

LEMMA TickKeeps ==
    ASSUME TableInv, Tick
    PROVE  TableInv'
<1>0. /\ SchedulerTypeOK /\ RingsOnce /\ UnmarkedUnsent /\ BatchListed
      /\ FiringMarked /\ NextFollows /\ NextFirst /\ UnlistedQuiet
  BY DEF TableInv
<1>1. SchedulerTypeOK'
  BY <1>0, Rows DEF Tick, tableVars, fireVars, SchedulerTypeOK
<1>2. RingsOnce'
  BY <1>0 DEF Tick, fireVars, RingsOnce
<1>3. UnmarkedUnsent'
  BY <1>0 DEF Tick, tableVars, fireVars, UnmarkedUnsent, Fresh
<1>4. BatchListed'
  BY <1>0 DEF Tick, tableVars, fireVars, BatchListed, Spent
<1>5. FiringMarked'
  BY <1>0 DEF Tick, tableVars, fireVars, FiringMarked, Spent
<1>6. NextFollows'
  BY <1>0 DEF Tick, tableVars, fireVars, NextFollows, Fresh, Spent, Passed
<1>7. NextFirst'
  BY <1>0 DEF Tick, tableVars, fireVars, NextFirst, Fresh
<1>8. UnlistedQuiet'
  BY <1>0 DEF Tick, tableVars, fireVars, UnlistedQuiet, Fresh
<1>9. QED
  BY <1>1, <1>2, <1>3, <1>4, <1>5, <1>6, <1>7, <1>8 DEF TableInv

-----------------------------------------------------------------------------
(* run_loop, await by await. *)
LEMMA CheckKeeps ==
    ASSUME TableInv, Check
    PROVE  TableInv'
<1>0. /\ SchedulerTypeOK /\ RingsOnce /\ UnmarkedUnsent /\ BatchListed
      /\ FiringMarked /\ NextFollows /\ NextFirst /\ UnlistedQuiet
  BY DEF TableInv
<1>1. SchedulerTypeOK'
  BY <1>0 DEF Check, Overdue, tableVars, SchedulerTypeOK
<1>2. RingsOnce'
  BY <1>0 DEF Check, RingsOnce
<1>3. UnmarkedUnsent'
  BY <1>0 DEF Check, Overdue, tableVars, UnmarkedUnsent, Fresh
<1>4. BatchListed'
  BY <1>0 DEF Check, Overdue, tableVars, BatchListed
<1>5. FiringMarked'
  BY <1>0 DEF Check, Overdue, tableVars, FiringMarked, Spent
<1>6. NextFollows'
  BY <1>0 DEF Check, Overdue, tableVars, NextFollows, Fresh, Spent, Passed
<1>7. NextFirst'
  BY <1>0 DEF Check, tableVars, NextFirst, Fresh
<1>8. UnlistedQuiet'
  BY <1>0 DEF Check, Overdue, tableVars, UnlistedQuiet, Fresh
<1>9. QED
  BY <1>1, <1>2, <1>3, <1>4, <1>5, <1>6, <1>7, <1>8 DEF TableInv

LEMMA MarkKeeps ==
    ASSUME TableInv, Mark
    PROVE  TableInv'
<1>0. /\ SchedulerTypeOK /\ RingsOnce /\ UnmarkedUnsent /\ BatchListed
      /\ FiringMarked /\ NextFollows /\ NextFirst /\ UnlistedQuiet
  BY DEF TableInv
<1>1. SchedulerTypeOK'
  BY <1>0, Rows DEF Mark, SchedulerTypeOK
<1>2. RingsOnce'
  BY <1>0 DEF Mark, RingsOnce
<1>3. UnmarkedUnsent'
  BY <1>0 DEF Mark, UnmarkedUnsent, Fresh
<1>4. BatchListed'
  BY <1>0 DEF Mark, BatchListed, Spent
<1>5. FiringMarked'
  BY <1>0
     DEF Mark, SchedulerTypeOK, FiringMarked, BatchListed, UnmarkedUnsent, UnlistedQuiet,
         Spent
<1>6. NextFollows'
  BY <1>0 DEF Mark, NextFollows, Fresh, Spent, Passed
<1>7. NextFirst'
  BY <1>0 DEF Mark, NextFirst, Fresh
<1>8. UnlistedQuiet'
  BY <1>0 DEF Mark, UnlistedQuiet, Fresh
<1>9. QED
  BY <1>1, <1>2, <1>3, <1>4, <1>5, <1>6, <1>7, <1>8 DEF TableInv

LEMMA RepeatKeeps ==
    ASSUME TableInv, Repeat
    PROVE  TableInv'
<1>0. /\ SchedulerTypeOK /\ RingsOnce /\ UnmarkedUnsent /\ BatchListed
      /\ FiringMarked /\ NextFollows /\ NextFirst /\ UnlistedQuiet
  BY DEF TableInv
<1>1. SchedulerTypeOK'
  BY <1>0 DEF Repeat, SchedulerTypeOK
<1>2. RingsOnce'
  BY <1>0 DEF Repeat, RingsOnce
<1>3. UnmarkedUnsent'
  BY <1>0 DEF Repeat, SchedulerTypeOK, UnmarkedUnsent, NextFollows, Passed, Fresh, Repeats
<1>4. BatchListed'
  BY <1>0 DEF Repeat, BatchListed, Spent
<1>5. FiringMarked'
  BY <1>0, Rows DEF Repeat, FiringMarked, Spent, Repeats
<1>6. NextFollows'
  BY <1>0, Rows
     DEF Repeat, SchedulerTypeOK, NextFollows, FiringMarked, Fresh, Spent, Passed,
         Repeats
<1>7. NextFirst'
  BY <1>0, Rows DEF Repeat, SchedulerTypeOK, NextFirst, Fresh
<1>8. UnlistedQuiet'
  BY <1>0, Rows
     DEF Repeat, SchedulerTypeOK, UnlistedQuiet, NextFollows, FiringMarked, Fresh,
         Passed, Repeats
<1>9. QED
  BY <1>1, <1>2, <1>3, <1>4, <1>5, <1>6, <1>7, <1>8 DEF TableInv

LEMMA AskKeeps ==
    ASSUME TableInv, Ask
    PROVE  TableInv'
<1>0. /\ SchedulerTypeOK /\ RingsOnce /\ UnmarkedUnsent /\ BatchListed
      /\ FiringMarked /\ NextFollows /\ NextFirst /\ UnlistedQuiet
  BY DEF TableInv
<1>1. SchedulerTypeOK'
  BY <1>0 DEF Ask, tableVars, SchedulerTypeOK
<1>2. RingsOnce'
  BY <1>0 DEF Ask, RingsOnce
<1>3. UnmarkedUnsent'
  BY <1>0 DEF Ask, tableVars, UnmarkedUnsent, Fresh
<1>4. BatchListed'
  BY <1>0 DEF Ask, tableVars, BatchListed, Spent
<1>5. FiringMarked'
  BY <1>0 DEF Ask, tableVars, FiringMarked, Spent
<1>6. NextFollows'
  BY <1>0 DEF Ask, tableVars, NextFollows, Fresh, Spent, Passed
<1>7. NextFirst'
  BY <1>0 DEF Ask, tableVars, NextFirst, Fresh
<1>8. UnlistedQuiet'
  BY <1>0 DEF Ask, tableVars, UnlistedQuiet, Fresh
<1>9. QED
  BY <1>1, <1>2, <1>3, <1>4, <1>5, <1>6, <1>7, <1>8 DEF TableInv

LEMMA AnsweredKeeps ==
    ASSUME TableInv, Answered
    PROVE  TableInv'
<1>0. /\ SchedulerTypeOK /\ RingsOnce /\ UnmarkedUnsent /\ BatchListed
      /\ FiringMarked /\ NextFollows /\ NextFirst /\ UnlistedQuiet
  BY DEF TableInv
<1>1. SchedulerTypeOK'
  BY <1>0 DEF Answered, Fired, tableVars, SchedulerTypeOK
<1>2. RingsOnce'
  BY <1>0 DEF Answered, RingsOnce
<1>3. UnmarkedUnsent'
  BY <1>0 DEF Answered, tableVars, UnmarkedUnsent, Fresh
<1>4. BatchListed'
  BY <1>0 DEF Answered, tableVars, BatchListed, Spent
<1>5. FiringMarked'
  BY <1>0, Rows DEF Answered, Fired, tableVars, FiringMarked, Spent
<1>6. NextFollows'
  BY <1>0 DEF Answered, Fired, tableVars, NextFollows, Fresh, Spent, Passed
<1>7. NextFirst'
  BY <1>0, Rows DEF Answered, Fired, tableVars, NextFirst, Fresh
<1>8. UnlistedQuiet'
  BY <1>0 DEF Answered, tableVars, UnlistedQuiet, Fresh
<1>9. QED
  BY <1>1, <1>2, <1>3, <1>4, <1>5, <1>6, <1>7, <1>8 DEF TableInv

LEMMA DiesKeeps ==
    ASSUME TableInv, Dies
    PROVE  TableInv'
<1>0. /\ SchedulerTypeOK /\ RingsOnce /\ UnmarkedUnsent /\ BatchListed
      /\ FiringMarked /\ NextFollows /\ NextFirst /\ UnlistedQuiet
  BY DEF TableInv
<1>1. SchedulerTypeOK'
  BY <1>0 DEF Dies, tableVars, SchedulerTypeOK
<1>2. RingsOnce'
  BY <1>0 DEF Dies, RingsOnce
<1>3. UnmarkedUnsent'
  BY <1>0 DEF Dies, tableVars, UnmarkedUnsent, Fresh
<1>4. BatchListed'
  BY <1>0 DEF Dies, BatchListed
<1>5. FiringMarked'
  BY <1>0, Rows DEF Dies, FiringMarked
<1>6. NextFollows'
  BY <1>0 DEF Dies, tableVars, NextFollows, Fresh, Spent, Passed
<1>7. NextFirst'
  BY <1>0, Rows DEF Dies, tableVars, NextFirst, Fresh
<1>8. UnlistedQuiet'
  BY <1>0 DEF Dies, tableVars, UnlistedQuiet, Fresh
<1>9. QED
  BY <1>1, <1>2, <1>3, <1>4, <1>5, <1>6, <1>7, <1>8 DEF TableInv

LEMMA SendKeeps ==
    ASSUME TableInv, Send
    PROVE  TableInv'
<1>0. /\ SchedulerTypeOK /\ RingsOnce /\ UnmarkedUnsent /\ BatchListed
      /\ FiringMarked /\ NextFollows /\ NextFirst /\ UnlistedQuiet
  BY DEF TableInv
<1>1. SchedulerTypeOK'
  BY <1>0 DEF Send, Fired, tableVars, SchedulerTypeOK
<1>2. RingsOnce'
  BY <1>0 DEF Send, RingsOnce, FiringMarked
<1>3. UnmarkedUnsent'
  BY <1>0 DEF Send, tableVars, UnmarkedUnsent, FiringMarked, Fresh, Spent
<1>4. BatchListed'
  BY <1>0 DEF Send, tableVars, BatchListed, Spent
<1>5. FiringMarked'
  BY <1>0, Rows DEF Send, Fired, FiringMarked
<1>6. NextFollows'
  BY <1>0 DEF Send, Fired, tableVars, NextFollows, Fresh, Spent, Passed
<1>7. NextFirst'
  BY <1>0, Rows DEF Send, Fired, tableVars, NextFirst, Fresh
<1>8. UnlistedQuiet'
  BY <1>0 DEF Send, tableVars, UnlistedQuiet, FiringMarked, Fresh
<1>9. QED
  BY <1>1, <1>2, <1>3, <1>4, <1>5, <1>6, <1>7, <1>8 DEF TableInv

-----------------------------------------------------------------------------
(* What was selected is selected again, what was marked is not. *)
LEMMA CrashKeeps ==
    ASSUME TableInv, Crash
    PROVE  TableInv'
<1>0. /\ SchedulerTypeOK /\ RingsOnce /\ UnmarkedUnsent /\ BatchListed
      /\ FiringMarked /\ NextFollows /\ NextFirst /\ UnlistedQuiet
  BY DEF TableInv
<1>1. SchedulerTypeOK'
  BY <1>0, Rows DEF Crash, tableVars, SchedulerTypeOK
<1>2. RingsOnce'
  BY <1>0 DEF Crash, RingsOnce
<1>3. UnmarkedUnsent'
  BY <1>0 DEF Crash, tableVars, UnmarkedUnsent, Fresh
<1>4. BatchListed'
  BY <1>0 DEF Crash, BatchListed
<1>5. FiringMarked'
  BY <1>0, Rows DEF Crash, FiringMarked
<1>6. NextFollows'
  BY <1>0 DEF Crash, tableVars, NextFollows, Fresh, Spent, Passed
<1>7. NextFirst'
  BY <1>0, Rows DEF Crash, tableVars, NextFirst, Fresh
<1>8. UnlistedQuiet'
  BY <1>0 DEF Crash, tableVars, UnlistedQuiet, Fresh
<1>9. QED
  BY <1>1, <1>2, <1>3, <1>4, <1>5, <1>6, <1>7, <1>8 DEF TableInv

(* The main loop never touches the table. *)
LEMMA BesideTable ==
    ASSUME TableInv, UNCHANGED reminderVars
    PROVE  TableInv'
  BY DEF TableInv, SchedulerTypeOK, RingsOnce, UnmarkedUnsent, BatchListed, FiringMarked,
     NextFollows, NextFirst, UnlistedQuiet, Fresh, Spent, Passed, Repeats,
     reminderVars, tableVars, fireVars

-----------------------------------------------------------------------------
LEMMA TableInitInv == Init => TableInv
  BY Rows DEF Init, TableInv, SchedulerTypeOK, RingsOnce, UnmarkedUnsent, BatchListed,
     FiringMarked, NextFollows, NextFirst, UnlistedQuiet, Fresh, Spent, Passed, Repeats

LEMMA TableStepInv == TableInv /\ [Next]_vars => TableInv'
<1> SUFFICES ASSUME TableInv, [Next]_vars PROVE TableInv'
  OBVIOUS
<1>1. CASE UNCHANGED reminderVars
  BY <1>1, BesideTable
<1>2. ASSUME NEW r \in Reminder, Schedule(r) \/ CancelReminder(r) PROVE TableInv'
  BY <1>2, ScheduleKeeps, CancelKeeps
<1>3. CASE Tick
  BY <1>3, TickKeeps
<1>4. CASE Firing
  BY <1>4, CheckKeeps, MarkKeeps, RepeatKeeps, AskKeeps, AnsweredKeeps, DiesKeeps, SendKeeps
     DEF Firing
<1>5. CASE Crash
  BY <1>5, CrashKeeps
<1>6. QED
  BY <1>1, <1>2, <1>3, <1>4, <1>5 DEF Next, Rest, vars

LEMMA TableInvariant == Spec => []TableInv
  BY TableInitInv, TableStepInv, PTL DEF Spec

(* Type correctness of the durable scheduler: run_loop selects nothing     *)
(* while it has a batch, and fires one reminder at a time.                 *)
THEOREM SchedulerTypeCorrect == Spec => []SchedulerTypeOK
<1>1. TableInv => SchedulerTypeOK
  BY DEF TableInv
<1>2. QED
  BY <1>1, TableInvariant, PTL

(* No reminder is sent twice, however often and wherever the process       *)
(* crashes and whatever is cancelled.                                      *)
THEOREM NeverRingsTwice == Spec => []RingsOnce
<1>1. TableInv => RingsOnce
  BY DEF TableInv
<1>2. QED
  BY <1>1, TableInvariant, PTL

(* A repeating reminder that was sent has its next occurrence. *)
THEOREM SeriesContinues == Spec => []SeriesGoesOn
<1>1. TableInv => SeriesGoesOn
  BY Rows DEF TableInv, SchedulerTypeOK, NextFirst, Fresh, Repeats, SeriesGoesOn
<1>2. QED
  BY <1>1, TableInvariant, PTL

(* A reminder cancelled before it was selected is never sent or repeated. *)
THEOREM CancelSilences == Spec => []QuietAfterCancel
<1>1. TableInv => QuietAfterCancel
  BY DEF TableInv, UnlistedQuiet, Fresh, Repeats, QuietAfterCancel
<1>2. QED
  BY <1>1, TableInvariant, PTL
=============================================================================
