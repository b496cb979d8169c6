------------------------------ MODULE InnerTicks -----------------------------
(***************************************************************************)
(* core/inner_tick_scheduler.py beside the main loop: the coroutine _run() *)
(* that puts InnerTickEvents, the items that should wake it, and the pause *)
(* while somebody talks, which core/brain.py begins when a turn begins and *)
(* ends with a task that sleeps for CONVERSATION_END_DELAY after it.       *)
(*                                                                         *)
(* Intervals are abstracted to a wait that may be over at any time.        *)
(***************************************************************************)
EXTENDS MainLoop

CONSTANT Item    \* what push_urgency is called with

VARIABLES
    urgency,     \* each item: not pushed, in the queue, given to think_inner
    wake,        \* _wake_event
    tpc,         \* where _run is suspended
    conversing,  \* _in_conversation; _conversation_event is its complement
    stage,       \* where think_conversational is, for each message
    ending,      \* is a _delayed_end asleep
    slip         \* history: what went wrong with the pause since it began

talkVars == <<conversing, stage, ending, slip>>
tickVars == <<urgency, wake, tpc, talkVars>>
vars == <<loopVars, tickVars>>

Tick == {e \in Event : KindOf[e] = "tick"}
Fresh == {e \in Tick : stamp[e] = 0}
Queued == {i \in Item : urgency[i] = "queued"}
InTurn == {m \in Message : stage[m] # "outside"}

(* Types; and that _run waits for no conversation that is over. *)
TickTypeOK ==
    /\ urgency \in [Item -> {"unborn", "queued", "given"}]
    /\ wake \in BOOLEAN
    /\ tpc \in {"sleeping", "paused", "resuming", "off"}
    /\ conversing \in BOOLEAN
    /\ stage \in [Message -> {"outside", "preparing", "talking"}]
    /\ ending \in BOOLEAN
    /\ slip \in {"none", "overtaken", "abandoned"}
    /\ tpc = "paused" => conversing

Init ==
    /\ LoopInit
    /\ urgency = [i \in Item |-> "unborn"]
    /\ wake = FALSE
    /\ tpc = "sleeping"
    /\ conversing = FALSE
    /\ stage = [m \in Message |-> "outside"]
    /\ ending = FALSE
    /\ slip = "none"

-----------------------------------------------------------------------------
(* push_urgency, called by reminders, the circuit breaker and the          *)
(* correction manager.                                                     *)
Push(i) ==
    /\ Quiet
    /\ urgency[i] = "unborn"
    /\ urgency' = [urgency EXCEPT ![i] = "queued"]
    /\ wake' = TRUE
    /\ UNCHANGED <<loopVars, tpc, talkVars>>

-----------------------------------------------------------------------------
(* _run. *)

(* InnerTickEvent.make: one event is as good as another. *)
NextTick == CHOOSE e \in Fresh : TRUE

(* Mutant of Fires: at night ticks are skipped, urgent or not. *)
FiresByDay ==
    /\ tpc' = "sleeping"
    /\ \/ UNCHANGED loopVars
       \/ Fresh # {} /\ Arrive(NextTick)

(* Between 23:00 and 8:00 a tick is skipped, unless something is urgent. *)
Fires ==
    /\ tpc' = "sleeping"
    /\ \/ Queued = {} /\ UNCHANGED loopVars
       \/ Fresh # {} /\ Arrive(NextTick)

(* Mutant of Wakes: the pause is not looked at. *)
WakesRegardless ==
    /\ Quiet
    /\ tpc = "sleeping"
    /\ wake' = FALSE
    /\ Fires
    /\ UNCHANGED <<urgency, talkVars>>

(* Woken, or the interval is over. *)
Wakes ==
    /\ Quiet
    /\ tpc = "sleeping"
    /\ wake' = FALSE
    /\ IF conversing THEN tpc' = "paused" /\ UNCHANGED loopVars ELSE Fires
    /\ UNCHANGED <<urgency, talkVars>>

(* Released from _conversation_event.wait(): whether somebody has begun to *)
(* talk since then is not looked at again.                                 *)
Resumes ==
    /\ Quiet
    /\ tpc = "resuming"
    /\ Fires
    /\ UNCHANGED <<urgency, wake, talkVars>>

TickStop ==
    /\ Quiet
    /\ tpc # "off"
    /\ tpc' = "off"
    /\ wake' = TRUE
    /\ UNCHANGED <<loopVars, urgency, talkVars>>

-----------------------------------------------------------------------------
(* The conversation, around and inside think_conversational. *)

(* note_conversation_start.  An end of the conversation before, asleep,    *)
(* is left to come.                                                        *)
TalkBegins(m) ==
    /\ Quiet
    /\ turn[m] = "running" /\ stage[m] = "outside"
    /\ stage' = [stage EXCEPT ![m] = "preparing"]
    /\ conversing' = TRUE
    /\ slip' = IF tpc = "resuming" THEN "overtaken" ELSE "none"
    /\ UNCHANGED <<loopVars, urgency, wake, tpc, ending>>

(* _prepare_think has returned: the try begins whose finally schedules the *)
(* end of the conversation.                                                *)
Prepared(m) ==
    /\ Quiet
    /\ turn[m] = "running" /\ stage[m] = "preparing"
    /\ stage' = [stage EXCEPT ![m] = "talking"]
    /\ UNCHANGED <<loopVars, urgency, wake, tpc, conversing, ending, slip>>

(* Mutant of EndIsDue: only a turn that has its reply ends a conversation. *)
EndIsDueOnReply(m) == turn'[m] = "replied"

(* _schedule_conversation_end is reached: from the finally, or with an     *)
(* early reply.                                                            *)
EndIsDue(m) == stage[m] = "talking" \/ turn'[m] = "replied"

(* A task that is cancelled before its first step never takes it.  A turn  *)
(* cut short in its preparation schedules no end.                          *)
TalkEnds(m) ==
    /\ TurnEnds(m)
    /\ stage[m] = "outside" => turn'[m] = "cancelled"
    /\ stage' = [stage EXCEPT ![m] = "outside"]
    /\ ending' = (ending \/ EndIsDue(m))
    /\ slip' = IF conversing /\ ~ending /\ stage[m] = "preparing" /\ turn'[m] # "replied"
               THEN "abandoned" ELSE slip
    /\ UNCHANGED <<urgency, wake, tpc, conversing>>

(* _delayed_end: note_conversation_end, even if a turn is under way that   *)
(* has begun since the end was scheduled.                                  *)
ConversationEnds ==
    /\ Quiet
    /\ ending
    /\ ending' = FALSE
    /\ conversing' = FALSE
    /\ wake' = TRUE
    /\ tpc' = IF tpc = "paused" THEN "resuming" ELSE tpc
    /\ slip' = IF InTurn = {} THEN slip ELSE "overtaken"
    /\ UNCHANGED <<loopVars, urgency, stage>>

-----------------------------------------------------------------------------
(* The steps of the main loop. *)

(* _handle_inner_tick drains the urgency queue for the turn it begins. *)
TickServed == dpc # "thinking" /\ dpc' = "thinking" /\ handling' \in Tick

Dispatches ==
    /\ Dispatcher
    /\ urgency' = [i \in Item |-> IF TickServed /\ i \in Queued THEN "given" ELSE urgency[i]]
    /\ UNCHANGED <<wake, tpc, talkVars>>

Looks ==
    /\ Watcher \/ Expire \/ StopResumes
    /\ UNCHANGED tickVars

Thinks(e) == TurnEnds(e) /\ UNCHANGED tickVars

(* AppContainer.shutdown stops the scheduler before the main loop. *)
Stops == tpc = "off" /\ StopCall /\ UNCHANGED tickVars

Comes(e) == Arrive(e) /\ UNCHANGED tickVars

Next ==
    \/ Dispatches \/ Looks \/ Stops
    \/ \E e \in Event \ Message : Thinks(e)
    \/ \E e \in Event \ Tick : Comes(e)
    \/ \E m \in Message : TalkBegins(m) \/ Prepared(m) \/ TalkEnds(m)
    \/ \E i \in Item : Push(i)
    \/ Wakes \/ Resumes \/ TickStop \/ ConversationEnds
    \/ Idle /\ UNCHANGED tickVars

Spec == Init /\ [][Next]_vars

(* As in LoopFairness and InnerFairness; and timers run out. *)
Fairness ==
    /\ WF_vars(Dispatches)
    /\ WF_vars(Looks)
    /\ WF_vars(\/ \E m \in Message : turn[m] = "cancelling" /\ TalkEnds(m)
               \/ \E e \in Event \ Message : Thinks(e))
    /\ WF_vars(Wakes \/ Resumes)
    /\ WF_vars(ConversationEnds)

FairSpec == Spec /\ Fairness

-----------------------------------------------------------------------------
(* Properties. *)

(* "Drop an item that should fire a tick ASAP": while an item waits, _run  *)
(* is about to put a tick, or a tick is in the queue that will take the    *)
(* item with it.  No wake-up is lost between clearing the event, the       *)
(* pause, the quiet hours and a tick that is served meanwhile.             *)
UrgencyHasATick ==
    Queued # {} => \/ wake
                   \/ tpc \in {"paused", "resuming", "off"}
                   \/ Tick \cap queue # {}
                   \/ ~alive

(* "Pause inner ticks until they finish": no tick is put from the moment a *)
(* turn begins until the end of the conversation scheduled after it,       *)
(* unless the end scheduled by an earlier turn fell into it.               *)
SilentInConversation ==
    [][ (\E e \in Tick : stamp[e] = 0 /\ stamp'[e] > 0)
          => slip = "overtaken" \/ (InTurn = {} /\ ~ending) ]_vars

(* An item is given to a turn in the end, whatever talk, preemption and    *)
(* deadline come first, unless a turn that was cut short in its            *)
(* preparation has left the pause behind, the program stops, or the        *)
(* instance has no tick left.                                              *)
UrgencyIsSeen ==
    \A i \in Item :
        urgency[i] = "queued" ~> \/ urgency[i] = "given"
                                 \/ slip = "abandoned"
                                 \/ tpc = "off" \/ ~alive
                                 \/ Fresh \cup (Tick \cap queue) = {}
=============================================================================
