-------------------------- MODULE DurableScheduler ---------------------------
(***************************************************************************)
(* core/durable_scheduler.py beside the main loop: reminders in a table    *)
(* that survives the process, the coroutine run_loop() that rings them,    *)
(* the tools that set and cancel them, and crashes.  An agent reminder is  *)
(* a MessageEvent of its own, answered through its done_future.            *)
(*                                                                         *)
(* A reminder stands for one row: the next occurrence of a repeating one   *)
(* is another reminder.  A statement of SQLite is one step; sends do not   *)
(* raise (system_send.py swallows what they raise).                        *)
(***************************************************************************)
EXTENDS MainLoop

CONSTANTS
    Reminder,
    DueOf,       \* due_time
    NextOf,      \* the row _calc_next leads to, Nothing if there is none
    AskOf,       \* the event of an agent reminder, Nothing for a notify one
    MaxNow,      \* bound of the clock
    MaxCrashes   \* bound of the crashes

ASSUME ReminderConstants ==
    /\ Nothing \notin Reminder
    /\ DueOf \in [Reminder -> Nat]
    /\ NextOf \in [Reminder -> Reminder \cup {Nothing}]
    /\ AskOf \in [Reminder -> Event \cup {Nothing}]
    /\ MaxNow \in Nat /\ MaxCrashes \in Nat
    \* _calc_next never goes back
    /\ \A r \in Reminder : NextOf[r] # Nothing => DueOf[NextOf[r]] > DueOf[r]
    \* an agent reminder is a USER message of its own chat
    /\ \A r \in Reminder : AskOf[r] # Nothing => KindOf[AskOf[r]] = "user"
    /\ \A r \in Reminder : NextOf[r] # Nothing =>
          (AskOf[r] = Nothing <=> AskOf[NextOf[r]] = Nothing)
    /\ \A r, q \in Reminder : AskOf[r] = AskOf[q] => r = q \/ AskOf[r] = Nothing
    \* every occurrence is a row of its own
    /\ \A r, q \in Reminder : NextOf[r] = NextOf[q] => r = q \/ NextOf[r] = Nothing

VARIABLES
    row,        \* reminders_v2: no row, fired = 0, fired = 1
    now,        \* the clock
    fpc,        \* where run_loop is suspended
    batch,      \* what check_and_fire selected and has not fired yet
    firing,     \* the reminder _fire_reminder is about
    rings,      \* how often its text or its result was sent
    cancelled,  \* what cancel() deleted: before or after it was selected
    crashes

tableVars == <<row, cancelled>>
fireVars == <<fpc, batch, firing, rings>>
reminderVars == <<tableVars, now, fireVars, crashes>>
vars == <<loopVars, reminderVars>>

SchedulerTypeOK ==
    /\ row \in [Reminder -> {"absent", "pending", "fired"}]
    /\ now \in 0 .. MaxNow
    /\ fpc \in {"sleeping", "marking", "repeating", "handing", "asking", "sending", "dead"}
    /\ batch \subseteq Reminder
    /\ fpc = "marking" <=> batch # {} /\ firing = Nothing
    /\ firing \in IF fpc \in {"sleeping", "marking", "dead"} THEN {Nothing} ELSE Reminder
    /\ rings \in [Reminder -> Nat]
    /\ cancelled \in [Reminder -> {"no", "unlisted", "listed"}]
    /\ crashes \in 0 .. MaxCrashes

Init ==
    /\ LoopInit
    /\ row = [r \in Reminder |-> "absent"]
    /\ now = 0
    /\ fpc = "sleeping"
    /\ batch = {}
    /\ firing = Nothing
    /\ rings = [r \in Reminder |-> 0]
    /\ cancelled = [r \in Reminder |-> "no"]
    /\ crashes = 0

-----------------------------------------------------------------------------
(* What turns of the brain do to the table, between any two steps. *)

First(r) == \A q \in Reminder : NextOf[q] # r

Schedule(r) ==
    /\ First(r) /\ row[r] = "absent" /\ cancelled[r] = "no"
    /\ row' = [row EXCEPT ![r] = "pending"]
    /\ UNCHANGED <<cancelled, now, fireVars, crashes>>

(* Mutant of CancelReminder: "AND fired = 0" is missing. *)
CancelAnyReminder(r) ==
    /\ row[r] # "absent"
    /\ row' = [row EXCEPT ![r] = "absent"]
    /\ cancelled' = [cancelled EXCEPT ![r] = IF r \in batch THEN "listed" ELSE "unlisted"]
    /\ UNCHANGED <<now, fireVars, crashes>>

(* DELETE ... AND fired = 0, and the caller hears that there was a row. *)
CancelReminder(r) ==
    /\ row[r] = "pending"
    /\ row' = [row EXCEPT ![r] = "absent"]
    /\ cancelled' = [cancelled EXCEPT ![r] = IF r \in batch THEN "listed" ELSE "unlisted"]
    /\ UNCHANGED <<now, fireVars, crashes>>

Tick ==
    /\ now < MaxNow
    /\ now' = now + 1
    /\ UNCHANGED <<tableVars, fireVars, crashes>>

-----------------------------------------------------------------------------
(* run_loop. *)

Overdue == {r \in Reminder : row[r] = "pending" /\ DueOf[r] <= now}

Check ==
    /\ fpc = "sleeping" /\ Overdue # {}
    /\ batch' = Overdue
    /\ fpc' = "marking"
    /\ UNCHANGED <<tableVars, now, firing, rings, crashes, loopVars>>

(* Mutant of Mark: only what rings once is marked. *)
MarkOneShots ==
    /\ fpc = "marking"
    /\ \E r \in batch :
          /\ \A q \in batch : DueOf[r] <= DueOf[q]
          /\ firing' = r
          /\ batch' = batch \ {r}
          /\ row' = IF row[r] = "pending" /\ NextOf[r] = Nothing
                    THEN [row EXCEPT ![r] = "fired"] ELSE row
    /\ fpc' = "repeating"
    /\ UNCHANGED <<cancelled, now, rings, crashes, loopVars>>

(* UPDATE ... AND fired = 0; how many rows that were is not looked at. *)
Mark ==
    /\ fpc = "marking"
    /\ \E r \in batch :
          /\ \A q \in batch : DueOf[r] <= DueOf[q]
          /\ firing' = r
          /\ batch' = batch \ {r}
          /\ row' = IF row[r] = "pending" THEN [row EXCEPT ![r] = "fired"] ELSE row
    /\ fpc' = "repeating"
    /\ UNCHANGED <<cancelled, now, rings, crashes, loopVars>>

(* Mutant of Repeat: an occurrence that was missed is not created. *)
RepeatInTheFuture ==
    /\ fpc = "repeating"
    /\ row' = IF NextOf[firing] = Nothing \/ DueOf[NextOf[firing]] <= now THEN row
              ELSE [row EXCEPT ![NextOf[firing]] = "pending"]
    /\ fpc' = "handing"
    /\ UNCHANGED <<cancelled, now, batch, firing, rings, crashes, loopVars>>

Repeat ==
    /\ fpc = "repeating"
    /\ row' = IF NextOf[firing] = Nothing THEN row
              ELSE [row EXCEPT ![NextOf[firing]] = "pending"]
    /\ fpc' = "handing"
    /\ UNCHANGED <<cancelled, now, batch, firing, rings, crashes, loopVars>>

(* _fire_agent: put the event, await done. *)
Ask ==
    /\ fpc = "handing" /\ AskOf[firing] # Nothing
    /\ Arrive(AskOf[firing])
    /\ fpc' = "asking"
    /\ UNCHANGED <<tableVars, now, batch, firing, rings, crashes>>

Fired ==
    /\ firing' = Nothing
    /\ fpc' = IF batch = {} THEN "sleeping" ELSE "marking"

(* Mutant of Answered: an exception of the brain is not caught. *)
AnsweredUncaught ==
    /\ fpc = "asking"
    /\ future[AskOf[firing]] \in {"reply", "notice", "empty", "error"}
    /\ CASE future[AskOf[firing]] = "empty" -> Fired /\ UNCHANGED batch
         [] future[AskOf[firing]] = "error" -> fpc' = "dead" /\ firing' = Nothing /\ batch' = {}
         [] OTHER -> fpc' = "sending" /\ UNCHANGED <<firing, batch>>
    /\ UNCHANGED <<tableVars, now, rings, crashes, loopVars>>

(* A result is sent, an error makes the text go out as it is, an empty     *)
(* result is not sent.                                                     *)
Answered ==
    /\ fpc = "asking"
    /\ future[AskOf[firing]] \in {"reply", "notice", "empty", "error"}
    /\ IF future[AskOf[firing]] = "empty" THEN Fired
       ELSE fpc' = "sending" /\ UNCHANGED firing
    /\ UNCHANGED <<tableVars, now, batch, rings, crashes, loopVars>>

(* CancelledError is no Exception: neither _fire_agent nor run_loop        *)
(* catches what a cancelled done_future raises, and the task ends.         *)
Dies ==
    /\ fpc = "asking"
    /\ future[AskOf[firing]] = "cancelled"
    /\ fpc' = "dead"
    /\ firing' = Nothing
    /\ batch' = {}
    /\ UNCHANGED <<tableVars, now, rings, crashes, loopVars>>

Send ==
    /\ fpc = "sending" \/ (fpc = "handing" /\ AskOf[firing] = Nothing)
    /\ rings' = [rings EXCEPT ![firing] = @ + 1]
    /\ Fired
    /\ UNCHANGED <<tableVars, now, batch, crashes, loopVars>>

Firing == Check \/ Mark \/ Repeat \/ Ask \/ Answered \/ Dies \/ Send

-----------------------------------------------------------------------------
(* The process ends anywhere and is started again: the table is all that   *)
(* is left, and everything in the queue is lost.                           *)
Crash ==
    /\ crashes < MaxCrashes
    /\ crashes' = crashes + 1
    /\ fpc' = "sleeping" /\ batch' = {} /\ firing' = Nothing
    /\ queue' = {}
    /\ dpc' = "next" /\ handling' = Nothing /\ merged' = {}
    /\ expired' = FALSE /\ handlingOwner' = FALSE
    /\ current' = Nothing /\ currentMessage' = Nothing /\ notice' = FALSE
    /\ turn' = [e \in Event |-> IF turn[e] \in {"running", "cancelling"}
                                THEN "cancelled" ELSE turn[e]]
    /\ wpc' = "polling" /\ told' = Nothing /\ target' = Nothing
    /\ spc' = "idle" /\ doomed' = Nothing /\ alive' = TRUE
    /\ UNCHANGED <<stamp, future, tableVars, now, rings>>

Asked(e) == \E r \in Reminder : AskOf[r] = e

Rest ==
    /\ Idle
    /\ fpc \in {"sleeping", "dead"}
    /\ UNCHANGED reminderVars

Next ==
    \/ LoopStep /\ UNCHANGED reminderVars
    \/ \E e \in Event : ~Asked(e) /\ Arrive(e) /\ UNCHANGED reminderVars
    \/ \E r \in Reminder : (Schedule(r) \/ CancelReminder(r)) /\ UNCHANGED loopVars
    \/ Tick /\ UNCHANGED loopVars
    \/ Firing
    \/ Crash
    \/ Rest

Spec == Init /\ [][Next]_vars

(* As in LoopFairness: only what ends a turn by force is needed. *)
Fairness ==
    /\ WF_vars(Dispatcher /\ UNCHANGED reminderVars)
    /\ WF_vars(Watcher /\ UNCHANGED reminderVars)
    /\ WF_vars(Expire /\ UNCHANGED reminderVars)
    /\ \A e \in Event : WF_vars(turn[e] = "cancelling" /\ TurnEnds(e) /\ UNCHANGED reminderVars)
    /\ WF_vars(Firing)

FairSpec == Spec /\ Fairness

-----------------------------------------------------------------------------
(* "Mark as fired first, to prevent firing twice": no reminder is sent     *)
(* twice, wherever the process crashes.                                    *)
RingsOnce == \A r \in Reminder : rings[r] <= 1

(* A repeating reminder that was sent has its next occurrence in the       *)
(* table, unless that one was cancelled.                                   *)
SeriesGoesOn ==
    \A r \in Reminder :
        rings[r] > 0 /\ NextOf[r] # Nothing
          => row[NextOf[r]] # "absent" \/ cancelled[NextOf[r]] # "no"

(* A reminder cancelled in time is never sent, and with it ends its        *)
(* series.  One that check_and_fire has selected by then is sent although  *)
(* cancel() reports success.                                               *)
QuietAfterCancel ==
    \A r \in Reminder :
        cancelled[r] = "unlisted"
          => /\ rings[r] = 0
             /\ NextOf[r] # Nothing => row[NextOf[r]] = "absent"

(* A reminder that is due is fired in the end, by a later run if the       *)
(* process crashes, unless the owner preempted an agent reminder.          *)
DueRemindersFire ==
    \A r \in Reminder :
        r \in Overdue ~> \/ row[r] # "pending"
                         \/ \E q \in Reminder :
                               AskOf[q] # Nothing /\ future[AskOf[q]] = "cancelled"

(* run_loop catches what a check raises and goes on: it outlives "MainLoop's *)
(* preempt rules (OWNER interruption)", which it wants for agent reminders. *)
SchedulerLives == fpc # "dead"
=============================================================================
