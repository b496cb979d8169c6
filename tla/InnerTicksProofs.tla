-------------------------- MODULE InnerTicksProofs ---------------------------
(***************************************************************************)
(* The loop beside the scheduler is the main loop of its own module, no    *)
(* urgent item loses its tick, and no tick is put into a conversation, for *)
(* any set of events and of items.                                         *)
(***************************************************************************)
EXTENDS InnerTicks, MainLoopProofs

(* A message that is inside think_conversational has a brain task. *)
TalksInTurn == \A m \in InTurn : Active(m)

(* From the beginning of a turn to the end scheduled after it the pause    *)
(* stands, and nobody has been released from it.                           *)
PauseStands ==
    (InTurn # {} \/ ending) /\ slip # "overtaken" => conversing /\ tpc # "resuming"

TickInv == TickTypeOK /\ UrgencyHasATick /\ TalksInTurn /\ PauseStands

-----------------------------------------------------------------------------
(* The composition lets the main loop do nothing it does not do alone. *)

LEMMA NextTickIsFresh == Fresh # {} => NextTick \in Fresh
  BY DEF NextTick

LEMMA FiresInLoop == Fires => tpc' = "sleeping" /\ (UNCHANGED loopVars
                              \/ \E e \in Tick : Arrive(e) /\ Tick \cap queue' # {})
<1>1. ASSUME Fresh # {}, Arrive(NextTick)
      PROVE  \E e \in Tick : Arrive(e) /\ Tick \cap queue' # {}
  <2>1. NextTick \in Tick /\ NextTick \in queue'
    BY <1>1, NextTickIsFresh DEF Fresh, Arrive, Put
  <2>2. QED
    BY <1>1, <2>1
<1>2. QED
  BY <1>1 DEF Fires

LEMMA StepOfLoop == [Next]_vars => [LoopNext]_loopVars
<1> SUFFICES ASSUME [Next]_vars PROVE [LoopNext]_loopVars
  OBVIOUS
<1>1. CASE Dispatches \/ Looks \/ Stops
  BY <1>1 DEF Dispatches, Looks, Stops, LoopNext, LoopStep
<1>2. CASE \E e \in Event \ Message : Thinks(e)
  BY <1>2 DEF Thinks, LoopNext, LoopStep
<1>3. CASE \E e \in Event \ Tick : Comes(e)
  BY <1>3 DEF Comes, LoopNext
<1>4. CASE \E m \in Message : TalkBegins(m) \/ Prepared(m) \/ TalkEnds(m)
  BY <1>4, MessageIsEvent DEF TalkBegins, Prepared, TalkEnds, LoopNext, LoopStep
<1>5. CASE (\E i \in Item : Push(i)) \/ TickStop \/ ConversationEnds
  BY <1>5 DEF Push, TickStop, ConversationEnds
<1>6. CASE Wakes \/ Resumes
  BY <1>6, FiresInLoop DEF Wakes, Resumes, Tick, LoopNext
<1>7. CASE Idle /\ UNCHANGED tickVars
  BY <1>7 DEF LoopNext
<1>8. CASE UNCHANGED vars
  BY <1>8 DEF vars
<1>9. QED
  BY <1>1, <1>2, <1>3, <1>4, <1>5, <1>6, <1>7, <1>8 DEF Next

(* The tick scheduler and the conversations beside it are within what the  *)
(* main loop's module allows its producers and its brain tasks: whatever   *)
(* is proved of the loop holds beside them.                                *)
THEOREM LoopBeside == Spec => LoopSpec
<1>1. Init => LoopInit
  BY DEF Init
<1>2. QED
  BY <1>1, StepOfLoop, PTL DEF Spec, LoopSpec

-----------------------------------------------------------------------------
(* A step of the loop ends no brain task of a message but by TurnEnds. *)
LEMMA DispatcherSparesTurns ==
    ASSUME LoopInv, Dispatcher, NEW m \in Message, Active(m)
    PROVE  Active(m)'
<1> m \in Event /\ turn \in [Event -> TurnState]
  BY MessageIsEvent DEF LoopInv, LoopTypeOK
<1>1. ASSUME NEW e, turn' = [turn EXCEPT ![e] = "running"] PROVE Active(m)'
  BY <1>1 DEF Active
<1>2. CASE Serve
  BY <1>1, <1>2 DEF Serve, Dispatch, BeginTurn, BeginThink, Active
<1>3. CASE Wait \/ Leave \/ Handled
  BY <1>3 DEF Wait, Leave, Handled, Active
<1>4. CASE Coalesce \/ Recorded
  BY <1>1, <1>4 DEF Coalesce, Recorded, BeginTurn, Active
<1>5. QED
  BY <1>2, <1>3, <1>4 DEF Dispatcher

LEMMA KillSparesTurns ==
    ASSUME LoopInv, Kill, NEW m \in Message, Active(m)
    PROVE  Active(m)'
<1> m \in Event /\ turn \in [Event -> TurnState]
  BY MessageIsEvent DEF LoopInv, LoopTypeOK
<1>1. ~Over(m)
  BY DEF Active, Over
<1>2. QED
  BY <1>1 DEF Kill, Active

LEMMA RestSparesTurns ==
    ASSUME LoopInv, Watcher \/ Expire \/ StopResumes \/ StopCall,
           NEW m \in Message, Active(m)
    PROVE  Active(m)'
<1> m \in Event /\ turn \in [Event -> TurnState]
  BY MessageIsEvent DEF LoopInv, LoopTypeOK
<1>1. ASSUME NEW e, Cancel(e) PROVE Active(m)'
  BY <1>1 DEF Cancel, Active
<1>2. CASE Watcher
  BY <1>1, <1>2 DEF Watcher, Watch, Preempt, Interrupt, Probed, Told, TargetEnded, Active
<1>3. CASE Expire
  BY <1>1, <1>3 DEF Expire
<1>4. CASE StopResumes \/ StopCall
  BY <1>1, <1>4, KillSparesTurns DEF StopResumes, StopCall
<1>5. QED
  BY <1>2, <1>3, <1>4

(* A tick leaves the queue for a turn that takes the items, or with a loop *)
(* that has stopped: coalescing and interrupting take the owner's messages.*)
LEMMA DispatcherTakesTicks ==
    ASSUME LoopInv, Dispatcher
    PROVE  \/ Tick \cap queue' = Tick \cap queue /\ alive' = alive
           \/ TickServed
           \/ ~alive'
<1>1. ASSUME alive, dpc \in {"next", "waiting"}, NEW e \in Heads, Dispatch(e)
      PROVE  \/ Tick \cap queue' = Tick \cap queue /\ alive' = alive
             \/ TickServed
             \/ ~alive'
  <2>1. e \in Event /\ queue' = queue \ {e} /\ handling' = e
    BY <1>1 DEF Heads, Dispatch, LoopInv, LoopTypeOK, QueueTypeOK
  <2>2. CASE KindOf[e] = "tick"
    BY <1>1, <2>1, <2>2 DEF Dispatch, BeginThink, TickServed, Tick
  <2>3. CASE KindOf[e] # "tick"
    <3>1. Tick \cap queue' = Tick \cap queue
      BY <2>1, <2>3 DEF Tick
    <3>2. alive' = alive \/ ~alive'
      BY <1>1 DEF Dispatch
    <3>3. QED
      BY <3>1, <3>2
  <2>4. QED
    BY <2>2, <2>3
<1>2. CASE Serve
  BY <1>1, <1>2 DEF Serve
<1>3. CASE Wait \/ Recorded \/ Handled
  BY <1>3 DEF Wait, Recorded, Handled, queueVars
<1>4. CASE Leave
  BY <1>4 DEF Leave
<1>5. CASE Coalesce
  BY <1>5 DEF Coalesce, Companions, Tick
<1>6. QED
  BY <1>2, <1>3, <1>4, <1>5 DEF Dispatcher

LEMMA RestSparesTicks ==
    ASSUME Watcher \/ Expire \/ StopResumes \/ StopCall
    PROVE  (Tick \cap queue' = Tick \cap queue /\ alive' = alive) \/ ~alive'
<1>1. CASE Watcher
  BY <1>1 DEF Watcher, Watch, Preempt, Interrupt, Companions, Probed, Told, TargetEnded, Tick
<1>2. CASE Expire \/ StopResumes \/ StopCall
  BY <1>2 DEF Expire, StopResumes, StopCall, queueVars
<1>3. QED
  BY <1>1, <1>2

-----------------------------------------------------------------------------
(* The steps of the loop. *)

LEMMA DispatchesKeeps == LoopInv /\ TickInv /\ Dispatches => TickInv'
<1> SUFFICES ASSUME LoopInv, TickInv, Dispatches PROVE TickInv'
  OBVIOUS
<1>1. Dispatcher /\ UNCHANGED <<wake, tpc, talkVars>>
  BY DEF Dispatches
<1>2. urgency' \in [Item -> {"unborn", "queued", "given"}]
  BY DEF Dispatches, TickInv, TickTypeOK, Queued
<1>3. Queued' \subseteq Queued /\ (TickServed => Queued' = {})
  BY DEF Dispatches, Queued
<1>4. TickTypeOK' /\ PauseStands'
  BY <1>1, <1>2 DEF TickInv, TickTypeOK, PauseStands, InTurn, talkVars
<1>5. TalksInTurn'
  BY <1>1, DispatcherSparesTurns DEF TickInv, TalksInTurn, InTurn, talkVars
<1>6. UrgencyHasATick'
  BY <1>1, <1>3, DispatcherTakesTicks DEF TickInv, UrgencyHasATick
<1>7. QED
  BY <1>4, <1>5, <1>6 DEF TickInv

LEMMA BesideKeeps ==
    ASSUME LoopInv, TickInv, UNCHANGED tickVars,
           Watcher \/ Expire \/ StopResumes \/ StopCall
    PROVE  TickInv'
<1>1. TickTypeOK' /\ PauseStands' /\ Queued' = Queued /\ UNCHANGED <<wake, tpc>>
  BY DEF TickInv, TickTypeOK, PauseStands, InTurn, Queued, tickVars, talkVars
<1>2. TalksInTurn'
  BY RestSparesTurns DEF TickInv, TalksInTurn, InTurn, tickVars, talkVars
<1>3. UrgencyHasATick'
  BY <1>1, RestSparesTicks DEF TickInv, UrgencyHasATick
<1>4. QED
  BY <1>1, <1>2, <1>3 DEF TickInv

LEMMA ThinksKeeps == \A e \in Event \ Message : LoopInv /\ TickInv /\ Thinks(e) => TickInv'
<1> SUFFICES ASSUME NEW e \in Event \ Message, LoopInv, TickInv, Thinks(e) PROVE TickInv'
  OBVIOUS
<1>1. UNCHANGED <<queueVars, alive, tickVars>> /\ turn \in [Event -> TurnState]
  BY DEF Thinks, TurnEnds, LoopInv, LoopTypeOK
<1>2. TickTypeOK' /\ PauseStands' /\ UrgencyHasATick'
  BY <1>1 DEF TickInv, TickTypeOK, PauseStands, UrgencyHasATick, InTurn, Queued, queueVars,
     tickVars, talkVars
<1>3. \A m \in Message : Active(m) => Active(m)'
  BY <1>1, MessageIsEvent DEF Thinks, TurnEnds, Active
<1>4. TalksInTurn'
  BY <1>1, <1>3 DEF TickInv, TalksInTurn, InTurn, tickVars, talkVars
<1>5. QED
  BY <1>2, <1>4 DEF TickInv

LEMMA ComesKeeps == \A e \in Event : LoopInv /\ TickInv /\ Comes(e) => TickInv'
  BY DEF Comes, Arrive, Put, TickInv, TickTypeOK, PauseStands, UrgencyHasATick, TalksInTurn,
     Active, InTurn, Queued, tickVars, talkVars

-----------------------------------------------------------------------------
(* The scheduler. *)

LEMMA PushKeeps == \A i \in Item : TickInv /\ Push(i) => TickInv'
  BY DEF Push, TickInv, TickTypeOK, PauseStands, UrgencyHasATick, TalksInTurn, Active,
     InTurn, Queued, loopVars, talkVars

LEMMA RunKeeps == TickInv /\ (Wakes \/ Resumes) => TickInv'
<1> SUFFICES ASSUME TickInv, Wakes \/ Resumes PROVE TickInv'
  OBVIOUS
<1>1. /\ UNCHANGED <<urgency, talkVars>>
      /\ wake' \in BOOLEAN
      /\ \/ conversing /\ tpc' = "paused" /\ UNCHANGED loopVars
         \/ Fires
  BY DEF Wakes, Resumes, TickInv, TickTypeOK
<1>2. tpc' \in {"paused", "sleeping"} /\ turn' = turn
  BY <1>1, FiresInLoop DEF loopVars, Arrive
<1>3. TickTypeOK' /\ PauseStands' /\ TalksInTurn'
  BY <1>1, <1>2 DEF TickInv, TickTypeOK, PauseStands, TalksInTurn, Active, InTurn, talkVars,
     Fires
<1>4. UrgencyHasATick'
  <2>1. CASE tpc' = "paused"
    BY <2>1 DEF UrgencyHasATick
  <2>2. CASE Fires /\ Queued = {}
    BY <1>1, <2>2 DEF UrgencyHasATick, Queued
  <2>3. CASE Fires /\ Fresh # {} /\ Arrive(NextTick)
    BY <2>3, NextTickIsFresh DEF UrgencyHasATick, Arrive, Put, Fresh
  <2>4. QED
    BY <1>1, <2>1, <2>2, <2>3 DEF Fires
<1>5. QED
  BY <1>3, <1>4 DEF TickInv

LEMMA TickStopKeeps == TickInv /\ TickStop => TickInv'
  BY DEF TickStop, TickInv, TickTypeOK, PauseStands, UrgencyHasATick, TalksInTurn, Active,
     InTurn, Queued, loopVars, talkVars

-----------------------------------------------------------------------------
(* The conversation. *)

LEMMA TalkBeginsKeeps == \A m \in Message : TickInv /\ TalkBegins(m) => TickInv'
<1> SUFFICES ASSUME NEW m \in Message, TickInv, TalkBegins(m) PROVE TickInv'
  OBVIOUS
<1>1. TickTypeOK' /\ PauseStands'
  BY DEF TalkBegins, TickInv, TickTypeOK, PauseStands
<1>2. TalksInTurn'
  BY DEF TalkBegins, TickInv, TickTypeOK, TalksInTurn, InTurn, Active, loopVars
<1>3. UrgencyHasATick'
  BY DEF TalkBegins, TickInv, UrgencyHasATick, Queued, loopVars, queueVars
<1>4. QED
  BY <1>1, <1>2, <1>3 DEF TickInv

LEMMA PreparedKeeps == \A m \in Message : TickInv /\ Prepared(m) => TickInv'
<1> SUFFICES ASSUME NEW m \in Message, TickInv, Prepared(m) PROVE TickInv'
  OBVIOUS
<1>1. InTurn' = InTurn /\ m \in InTurn
  BY DEF Prepared, TickInv, TickTypeOK, InTurn
<1>2. TickTypeOK' /\ PauseStands'
  BY <1>1 DEF Prepared, TickInv, TickTypeOK, PauseStands
<1>3. TalksInTurn'
  BY <1>1 DEF Prepared, TickInv, TalksInTurn, Active, loopVars
<1>4. UrgencyHasATick'
  BY DEF Prepared, TickInv, UrgencyHasATick, Queued, loopVars, queueVars
<1>5. QED
  BY <1>2, <1>3, <1>4 DEF TickInv

(* The turn that ends is the only one there was. *)
LEMMA TalkEndsKeeps == \A m \in Message : LoopInv /\ TickInv /\ TalkEnds(m) => TickInv'
<1> SUFFICES ASSUME NEW m \in Message, LoopInv, TickInv, TalkEnds(m) PROVE TickInv'
  OBVIOUS
<1>1. /\ m \in Event /\ turn \in [Event -> TurnState] /\ Active(m)
      /\ UNCHANGED <<queueVars, alive, urgency, wake, tpc, conversing>>
      /\ TurnEnds(m)
  BY MessageIsEvent DEF TalkEnds, TurnEnds, LoopInv, LoopTypeOK, Active
<1>2. InTurn \subseteq {m}
  BY <1>1, MessageIsEvent DEF TickInv, TalksInTurn, LoopInv, ActiveIsHandled, InTurn
<1>3. InTurn' = {}
  BY <1>2 DEF TalkEnds, TickInv, TickTypeOK, InTurn
<1>4. ending' \in BOOLEAN
  BY DEF TalkEnds, TickInv, TickTypeOK, EndIsDue
<1>5. TickTypeOK'
  BY <1>1, <1>4 DEF TalkEnds, TickInv, TickTypeOK
<1>6. PauseStands'
  <2>1. stage[m] = "outside" => ~EndIsDue(m)
    BY DEF TalkEnds, EndIsDue
  <2>2. ending' => ending \/ InTurn # {}
    BY <2>1 DEF TalkEnds, InTurn
  <2>3. ending' => slip' = slip
    BY DEF TalkEnds, EndIsDue
  <2>4. QED
    BY <1>1, <1>3, <2>2, <2>3 DEF TickInv, PauseStands
<1>7. TalksInTurn' /\ UrgencyHasATick'
  BY <1>1, <1>3 DEF TickInv, TalksInTurn, UrgencyHasATick, Queued, queueVars
<1>8. QED
  BY <1>5, <1>6, <1>7 DEF TickInv

LEMMA ConversationEndsKeeps == TickInv /\ ConversationEnds => TickInv'
  BY DEF ConversationEnds, TickInv, TickTypeOK, PauseStands, UrgencyHasATick, TalksInTurn,
     Active, InTurn, Queued, loopVars

-----------------------------------------------------------------------------
LEMMA TickInitInv == Init => TickInv
  BY DEF Init, TickInv, TickTypeOK, UrgencyHasATick, TalksInTurn, PauseStands, InTurn, Queued

LEMMA TickStepInv == LoopInv /\ TickInv /\ [Next]_vars => TickInv'
<1> SUFFICES ASSUME LoopInv, TickInv, [Next]_vars PROVE TickInv'
  OBVIOUS
<1>1. CASE Dispatches
  BY <1>1, DispatchesKeeps
<1>2. CASE Looks \/ Stops
  BY <1>2, BesideKeeps DEF Looks, Stops
<1>3. CASE \E e \in Event \ Message : Thinks(e)
  BY <1>3, ThinksKeeps
<1>4. CASE \E e \in Event \ Tick : Comes(e)
  BY <1>4, ComesKeeps
<1>5. CASE \E m \in Message : TalkBegins(m) \/ Prepared(m) \/ TalkEnds(m)
  BY <1>5, TalkBeginsKeeps, PreparedKeeps, TalkEndsKeeps
<1>6. CASE (\E i \in Item : Push(i)) \/ Wakes \/ Resumes \/ TickStop \/ ConversationEnds
  BY <1>6, PushKeeps, RunKeeps, TickStopKeeps, ConversationEndsKeeps
<1>7. CASE UNCHANGED vars
  BY <1>7 DEF TickInv, TickTypeOK, PauseStands, UrgencyHasATick, TalksInTurn, Active, InTurn,
     Queued, vars, loopVars, queueVars, tickVars, talkVars
<1>8. CASE Idle /\ UNCHANGED tickVars
  BY <1>7, <1>8 DEF Idle, vars
<1>9. QED
  BY <1>1, <1>2, <1>3, <1>4, <1>5, <1>6, <1>7, <1>8 DEF Next

LEMMA TickInvariant == Spec => [](LoopInv /\ TickInv)
<1>1. Init => LoopInit
  BY DEF Init
<1>2. QED
  BY <1>1, LoopInitInv, LoopStepInv, TickInitInv, TickStepInv, StepOfLoop, PTL DEF Spec

(* Type correctness of the scheduler; and _run never waits for the end of  *)
(* a conversation that is over.                                            *)
THEOREM TickTypes == Spec => []TickTypeOK
<1>1. TickInv => TickTypeOK
  BY DEF TickInv
<1>2. QED
  BY <1>1, TickInvariant, PTL

(* No wake-up is lost: an urgent item has its tick to come, for any number *)
(* of items, ticks and turns.                                              *)
THEOREM UrgencyKeepsATick == Spec => []UrgencyHasATick
<1>1. TickInv => UrgencyHasATick
  BY DEF TickInv
<1>2. QED
  BY <1>1, TickInvariant, PTL

(* No tick is put into a conversation, unless the end an earlier turn      *)
(* scheduled fell into it.                                                 *)
THEOREM PausedInConversation == Spec => SilentInConversation
<1> DEFINE Put1 == \E e \in Tick : stamp[e] = 0 /\ stamp'[e] > 0
           Fine == slip = "overtaken" \/ (InTurn = {} /\ ~ending)
<1>1. LoopInv /\ TickInv /\ [Next]_vars => [Put1 => Fine]_vars
  <2> SUFFICES ASSUME LoopInv, TickInv, [Next]_vars, Put1 PROVE Fine
    OBVIOUS
  <2>1. PICK e \in Tick : stamp[e] = 0 /\ stamp'[e] > 0
    OBVIOUS
  <2>2. stamp' # stamp
    BY <2>1
  <2>3. CASE Wakes \/ Resumes
    <3>1. CASE conversing /\ Wakes
      BY <2>2, <3>1 DEF Wakes, loopVars, queueVars
    <3>2. CASE ~conversing \/ Resumes
      BY <2>3, <3>2 DEF TickInv, PauseStands, Resumes
    <3>3. QED
      BY <2>3, <3>1, <3>2
  <2>4. ASSUME NEW f \in Event \ Tick, Comes(f) PROVE Fine
    BY <2>1, <2>4 DEF Comes, Arrive, Put, Tick, LoopInv, LoopTypeOK, QueueTypeOK
  <2>5. CASE Dispatches
    BY <2>2, <2>5 DEF Dispatches, Dispatcher, Serve, Dispatch, Wait, Leave, Coalesce, Recorded,
       Handled, queueVars
  <2>6. CASE Looks \/ Stops
    BY <2>2, <2>6 DEF Looks, Stops, Watcher, Expire, StopResumes, StopCall, queueVars
  <2>7. CASE UNCHANGED loopVars
    BY <2>2, <2>7 DEF loopVars, queueVars
  <2>8. CASE \E f \in Event : TurnEnds(f)
    BY <2>2, <2>8 DEF TurnEnds, queueVars
  <2>9. QED
    BY <2>3, <2>4, <2>5, <2>6, <2>7, <2>8, MessageIsEvent
       DEF Next, Thinks, TalkBegins, Prepared, TalkEnds, Push, TickStop, ConversationEnds,
           Idle, vars
<1>2. QED
  BY <1>1, TickInvariant, PTL DEF Spec, SilentInConversation
=============================================================================
