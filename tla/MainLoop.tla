------------------------------- MODULE MainLoop ------------------------------
(***************************************************************************)
(* core/main_loop.py: the dispatcher coroutine run(), the coroutine        *)
(* _owner_preempt_watcher beside it, the brain task of the turn in flight, *)
(* and the shutdown of the container (stop(), then cancel()).              *)
(*                                                                         *)
(* A step runs one coroutine from one suspension to the next.  A task is   *)
(* named by the event it was created for.  Two tests of the code can never *)
(* be true and are left out: the preemption in _dispatch (the dispatcher   *)
(* that would find a task in flight is the one awaiting it) and the        *)
(* self-yield of _handle_inner_tick (an OWNER message is served first).    *)
(***************************************************************************)
EXTENDS EventQueue

VARIABLES
    dpc,             \* where the dispatcher is suspended
    handling,        \* the event it handles
    merged,          \* coalesced messages whose futures it holds
    expired,         \* wait_for's deadline has passed
    handlingOwner,   \* _handling_owner
    current,         \* _current_task
    currentMessage,  \* _current_message_event
    notice,          \* is _cancel_user_visible_status set
    turn,            \* state of the brain task of each event
    future,          \* done_future of each message
    wpc,             \* where the watcher is suspended
    told,            \* the message the watcher popped
    target,          \* the task the watcher awaits in _cancel_in_flight
    spc,             \* where the container's shutdown is
    doomed,          \* the task stop() awaits in _cancel_in_flight
    alive            \* _alive

dispatchVars == <<dpc, handling, merged, expired, handlingOwner>>
bookVars == <<current, currentMessage, notice>>
watchVars == <<wpc, told, target>>
stopVars == <<spc, doomed>>
loopVars == <<queueVars, dispatchVars, bookVars, turn, future, watchVars,
              stopVars, alive>>

TurnState == {"none", "running", "cancelling", "replied", "failed", "cancelled"}
Over(e) == turn[e] \in {"replied", "failed", "cancelled"}

LoopTypeOK ==
    /\ QueueTypeOK
    /\ dpc \in {"next", "waiting", "coalescing", "recording", "turn", "excusing",
                "thinking", "delivering", "ended"}
    /\ handling \in Event \cup {Nothing}
    /\ merged \subseteq Message
    /\ expired \in BOOLEAN /\ handlingOwner \in BOOLEAN
    /\ current \in Event \cup {Nothing}
    /\ currentMessage \in Message \cup {Nothing}
    /\ notice \in BOOLEAN
    /\ turn \in [Event -> TurnState]
    /\ future \in [Event -> {"pending", "reply", "notice", "empty", "error", "cancelled"}]
    /\ wpc \in {"polling", "probing", "telling", "cancelling", "off"}
    /\ told \in Message \cup {Nothing}
    /\ target \in Event \cup {Nothing}
    /\ spc \in {"idle", "cancelling", "killed"}
    /\ doomed \in Event \cup {Nothing}
    /\ alive \in BOOLEAN

LoopInit ==
    /\ QueueInit
    /\ dpc = "next"
    /\ handling = Nothing
    /\ merged = {}
    /\ expired = FALSE
    /\ handlingOwner = FALSE
    /\ current = Nothing
    /\ currentMessage = Nothing
    /\ notice = FALSE
    /\ turn = [e \in Event |-> "none"]
    /\ future = [e \in Event |-> "pending"]
    /\ wpc = "polling"
    /\ told = Nothing
    /\ target = Nothing
    /\ spc = "idle"
    /\ doomed = Nothing
    /\ alive = TRUE

-----------------------------------------------------------------------------
(* A task that ends wakes those who await it in the order in which they    *)
(* began to: first the dispatcher, which runs on to its next suspension,   *)
(* and directly after it the watcher or stop(), still in _cancel_in_flight.*)

Awaiting(e) == dpc \in {"turn", "thinking"} /\ handling = e
WatcherDue == wpc = "cancelling" /\ Over(target) /\ ~Awaiting(target)
StopDue == spc = "cancelling" /\ Over(doomed) /\ ~Awaiting(doomed)
Quiet == dpc # "next" /\ ~WatcherDue /\ ~StopDue

Cancel(e) == turn' = [turn EXCEPT ![e] = "cancelling"]
InFlight == current # Nothing /\ ~Over(current)
Settled(S, value) ==
    [m \in Event |-> IF m \in S /\ future[m] = "pending" THEN value ELSE future[m]]

-----------------------------------------------------------------------------
(* The dispatcher. *)

(* create_task(_drive()) and the bookkeeping around it. *)
BeginTurn(e) ==
    /\ turn' = [turn EXCEPT ![e] = "running"]
    /\ current' = e
    /\ currentMessage' = e
    /\ notice' = FALSE
    /\ expired' = FALSE
    /\ dpc' = "turn"

(* Mutant of BeginThink: the task is not published. *)
ThinkUnpublished(e) ==
    /\ turn' = [turn EXCEPT ![e] = "running"]
    /\ dpc' = "thinking"
    /\ UNCHANGED <<current, currentMessage, notice, expired>>

(* _current_task is set, _current_message_event is not. *)
BeginThink(e) ==
    /\ turn' = [turn EXCEPT ![e] = "running"]
    /\ current' = e
    /\ dpc' = "thinking"
    /\ UNCHANGED <<currentMessage, notice, expired>>

(* _dispatch of the event at the head, up to the first suspension. *)
Dispatch(e) ==
    /\ queue' = queue \ {e}
    /\ handling' = e
    /\ handlingOwner' = (KindOf[e] = "owner")
    /\ merged' = {}
    /\ \/ /\ KindOf[e] = "owner"
          /\ dpc' = "coalescing"
          /\ UNCHANGED <<expired, bookVars, turn, alive>>
       \/ /\ KindOf[e] = "user"
          /\ dpc' = "recording"
          /\ UNCHANGED <<expired, bookVars, turn, alive>>
       \/ KindOf[e] = "user" /\ BeginTurn(e) /\ UNCHANGED alive
       \/ KindOf[e] \in {"tick", "agent"} /\ BeginThink(e) /\ UNCHANGED alive
       \/ /\ KindOf[e] = "status"
          /\ dpc' = "delivering"
          /\ UNCHANGED <<expired, bookVars, turn, alive>>
       \/ /\ KindOf[e] = "shutdown"
          /\ alive' = FALSE
          /\ dpc' = "next"
          /\ UNCHANGED <<expired, bookVars, turn>>
    /\ UNCHANGED <<stamp, future, watchVars, stopVars>>

Serve ==
    /\ alive
    /\ dpc = "next" \/ (dpc = "waiting" /\ Quiet)
    /\ \E e \in Heads : Dispatch(e)

Wait ==
    /\ dpc = "next" /\ alive /\ queue = {}
    /\ dpc' = "waiting"
    /\ UNCHANGED <<queueVars, handling, merged, expired, handlingOwner, bookVars,
                   turn, future, watchVars, stopVars, alive>>

(* Mutant of Returns: the watcher is left to itself. *)
ReturnsWatching ==
    /\ dpc' = "ended"
    /\ handling' = Nothing
    /\ merged' = {}
    /\ handlingOwner' = FALSE
    /\ current' = IF current = handling THEN Nothing ELSE current
    /\ currentMessage' = IF currentMessage = handling THEN Nothing ELSE currentMessage
    /\ UNCHANGED <<expired, notice, wpc>>

(* run() returns: it cancels the watcher and awaits its end. *)
Returns ==
    /\ dpc' = "ended"
    /\ handling' = Nothing
    /\ merged' = {}
    /\ handlingOwner' = FALSE
    /\ current' = IF current = handling THEN Nothing ELSE current
    /\ currentMessage' = IF currentMessage = handling THEN Nothing ELSE currentMessage
    /\ wpc' = "off"
    /\ UNCHANGED <<expired, notice>>

(* _alive is read after an event was got: that event is dropped. *)
Leave ==
    /\ ~alive
    /\ \/ dpc = "next" /\ UNCHANGED queue
       \/ dpc = "waiting" /\ Quiet /\ \E e \in Heads : queue' = queue \ {e}
    /\ Returns
    /\ UNCHANGED <<stamp, turn, future, told, target, stopVars, alive>>

Companions(m) == {x \in queue : KindOf[x] = "owner" /\ ChatOf[x] = ChatOf[m]}

(* Mutant of Coalesce: the newest message is answered, what it drained     *)
(* besides is put back.                                                    *)
CoalesceNewest ==
    /\ dpc = "coalescing" /\ Quiet
    /\ handling' = CHOOSE m \in Companions(handling) \cup {handling} :
                       \A x \in Companions(handling) : stamp[x] <= stamp[m]
    /\ merged' = {}
    /\ queue' = (queue \cup {handling}) \ {handling'}
    /\ BeginTurn(handling')
    /\ UNCHANGED <<stamp, handlingOwner, future, watchVars, stopVars, alive>>

(* OWNER_COALESCE_SECONDS are over: the whole queue is drained, and what   *)
(* is not for this turn is put back with its timestamp.  Recording a topic *)
(* stop may then suspend the dispatcher, or not.                           *)
Coalesce ==
    /\ dpc = "coalescing" /\ Quiet
    /\ merged' = Companions(handling)
    /\ queue' = queue \ Companions(handling)
    /\ \/ BeginTurn(handling)
       \/ dpc' = "recording" /\ UNCHANGED <<turn, bookVars, expired>>
    /\ UNCHANGED <<stamp, handling, handlingOwner, future, watchVars, stopVars, alive>>

Recorded ==
    /\ dpc = "recording" /\ Quiet
    /\ BeginTurn(handling)
    /\ UNCHANGED <<queueVars, handling, merged, handlingOwner, future, watchVars,
                   stopVars, alive>>

Mine == merged \cup {handling}

(* The handler's finally, and that of _dispatch. *)
Finish ==
    /\ dpc' = "next"
    /\ handling' = Nothing
    /\ merged' = {}
    /\ handlingOwner' = FALSE
    /\ current' = IF current = handling THEN Nothing ELSE current
    /\ currentMessage' = IF currentMessage = handling THEN Nothing ELSE currentMessage
    /\ notice' = (notice /\ currentMessage # handling)
    /\ UNCHANGED expired

(* foreground_turn_timeout_seconds: wait_for cancels the task and awaits   *)
(* its end.                                                                *)
Expire ==
    /\ Quiet
    /\ dpc = "turn" /\ ~expired /\ ~Over(handling)
    /\ expired' = TRUE
    /\ Cancel(handling)
    /\ UNCHANGED <<queueVars, dpc, handling, merged, handlingOwner, bookVars, future,
                   watchVars, stopVars, alive>>

TurnReplied ==
    /\ dpc = "turn" /\ turn[handling] = "replied"
    /\ future' = Settled(Mine, "reply")
    /\ Finish

(* Mutant of TurnCancelled: the futures are left to the caller. *)
TurnCancelledMute ==
    /\ dpc = "turn" /\ turn[handling] = "cancelled" /\ ~expired
    /\ UNCHANGED future
    /\ Finish

TurnCancelled ==
    /\ dpc = "turn" /\ turn[handling] = "cancelled" /\ ~expired
    /\ future' = Settled(Mine, IF notice THEN "notice" ELSE "cancelled")
    /\ Finish

(* Mutant of Apologise: the end of the cancelled task is not awaited. *)
ApologiseAtOnce ==
    /\ dpc = "turn"
    /\ turn[handling] = "failed" \/ expired
    /\ dpc' = "excusing"
    /\ UNCHANGED <<handling, merged, expired, handlingOwner, bookVars, future>>

(* Timed out, or the brain raised: the user is told first. *)
Apologise ==
    /\ dpc = "turn"
    /\ turn[handling] = "failed" \/ (turn[handling] = "cancelled" /\ expired)
    /\ dpc' = "excusing"
    /\ UNCHANGED <<handling, merged, expired, handlingOwner, bookVars, future>>

(* Mutant of Apologised: the coalesced futures are forgotten. *)
ApologisedToOne ==
    /\ dpc = "excusing" /\ Quiet
    /\ future' = Settled({handling}, "notice")
    /\ Finish

(* Every future the turn holds is settled, with what was sent. *)
Apologised ==
    /\ dpc = "excusing" /\ Quiet
    /\ \E delivered \in BOOLEAN :
          future' = Settled(Mine, IF delivered THEN "notice"
                                  ELSE IF turn[handling] = "failed" THEN "error"
                                  ELSE "empty")
    /\ Finish

ThoughtOver ==
    /\ dpc = "thinking" /\ Over(handling)
    /\ UNCHANGED future
    /\ Finish

(* _deliver_agent_status_event: sent, refused or skipped, nobody waits for it. *)
Delivered ==
    /\ dpc = "delivering" /\ Quiet
    /\ UNCHANGED future
    /\ Finish

Handled ==
    /\ TurnReplied \/ TurnCancelled \/ Apologise \/ Apologised \/ ThoughtOver \/ Delivered
    /\ UNCHANGED <<queueVars, turn, watchVars, stopVars, alive>>

Dispatcher == Serve \/ Wait \/ Leave \/ Coalesce \/ Recorded \/ Handled

-----------------------------------------------------------------------------
(* The brain task of a turn: think_conversational or think_inner, external *)
(* but for its end.  Both handle a cancellation with awaits of their own   *)
(* and raise it again.                                                     *)
TurnEnds(e) ==
    /\ Quiet
    /\ \/ turn[e] = "running" /\ \E s \in {"replied", "failed"} : turn' = [turn EXCEPT ![e] = s]
       \/ /\ turn[e] = "cancelling"
          /\ \E s \in {"cancelled", "failed"} : turn' = [turn EXCEPT ![e] = s]
    /\ UNCHANGED <<queueVars, dispatchVars, bookVars, future, watchVars, stopVars, alive>>

-----------------------------------------------------------------------------
(* The watcher: every OWNER_WATCHER_POLL_SECONDS. *)

Preempt ==
    /\ ~handlingOwner
    /\ OwnerQueued
    /\ Cancel(current)
    /\ wpc' = "cancelling"
    /\ target' = current
    /\ UNCHANGED <<queue, told>>

(* pop_matching takes the first match of the heap's array, which is not in *)
(* order: any of them.  A status probe cancels once the turn is older than *)
(* owner_status_probe_grace_seconds.                                       *)
Interrupt(m) ==
    /\ handlingOwner
    /\ currentMessage # Nothing
    /\ m \in Companions(currentMessage) /\ TextOf[m] # "ordinary"
    /\ queue' = queue \ {m}
    /\ told' = m
    /\ \/ wpc' = "telling"
       \/ TextOf[m] = "probe" /\ wpc' = "probing"
    /\ UNCHANGED <<turn, target>>

Watch ==
    /\ Quiet
    /\ wpc = "polling" /\ alive /\ InFlight
    /\ Preempt \/ \E m \in queue : Interrupt(m)
    /\ UNCHANGED <<future, bookVars>>

Probed ==
    /\ wpc = "probing" /\ Quiet
    /\ \E delivered \in BOOLEAN :
          future' = Settled({told}, IF delivered THEN "notice" ELSE "empty")
    /\ wpc' = "polling"
    /\ told' = Nothing
    /\ UNCHANGED <<queue, bookVars, turn, target>>

(* The message answered, whatever is in flight by now is cancelled. *)
Told ==
    /\ wpc = "telling" /\ Quiet
    /\ \E delivered \in BOOLEAN :
          /\ future' = Settled({told}, IF delivered THEN "notice" ELSE "empty")
          /\ notice' = (notice \/ delivered)
    /\ told' = Nothing
    /\ IF InFlight
       THEN Cancel(current) /\ wpc' = "cancelling" /\ target' = current
       ELSE wpc' = "polling" /\ UNCHANGED <<turn, target>>
    /\ UNCHANGED <<queue, current, currentMessage>>

(* _cancel_in_flight's finally: there is no current task any more. *)
TargetEnded ==
    /\ dpc # "next" /\ WatcherDue
    /\ current' = Nothing
    /\ wpc' = "polling"
    /\ target' = Nothing
    /\ UNCHANGED <<queue, currentMessage, notice, turn, future, told>>

Watcher ==
    /\ Watch \/ Probed \/ Told \/ TargetEnded
    /\ UNCHANGED <<stamp, dispatchVars, stopVars, alive>>

-----------------------------------------------------------------------------
(* AppContainer.shutdown: await stop(), then cancel the dispatcher. *)

(* Mutant of Kill: the dispatcher is left to find _alive false by itself. *)
KillByFlag ==
    /\ spc' = "killed"
    /\ UNCHANGED <<dispatchVars, bookVars, turn, wpc>>

(* _dispatch swallows the cancellation of its handler; run() then finds    *)
(* _alive false.  The futures the handler held stay pending, unless it was *)
(* awaiting its task: it takes that for a cancellation of the turn.        *)
Kill ==
    /\ spc' = "killed"
    /\ IF dpc \in {"turn", "thinking"}
       THEN /\ turn' = [turn EXCEPT ![handling] =
                           IF Over(handling) THEN "cancelled" ELSE "cancelling"]
            /\ expired' = FALSE
            /\ UNCHANGED <<dpc, handling, merged, handlingOwner, bookVars, wpc>>
       ELSE Returns /\ UNCHANGED turn

StopCall ==
    /\ Quiet
    /\ spc = "idle"
    /\ alive' = FALSE
    /\ IF InFlight
       THEN /\ Cancel(current)
            /\ spc' = "cancelling"
            /\ doomed' = current
            /\ UNCHANGED <<dispatchVars, bookVars, wpc>>
       ELSE Kill /\ UNCHANGED doomed
    /\ UNCHANGED <<queueVars, future, told, target>>

StopResumes ==
    /\ dpc # "next" /\ StopDue /\ ~WatcherDue
    /\ doomed' = Nothing
    /\ Kill
    /\ UNCHANGED <<queueVars, future, told, target, alive>>

-----------------------------------------------------------------------------
Arrive(e) ==
    /\ Quiet
    /\ Put(e)
    /\ UNCHANGED <<dispatchVars, bookVars, turn, future, watchVars, stopVars, alive>>

LoopStep == Dispatcher \/ Watcher \/ (\E e \in Event : TurnEnds(e)) \/ Expire \/ StopResumes

(* There is nothing to do, and may never be again. *)
Idle ==
    /\ dpc = "ended" \/ (dpc = "waiting" /\ queue = {})
    /\ UNCHANGED loopVars

LoopNext == LoopStep \/ (\E e \in Event : Arrive(e)) \/ StopCall \/ Idle

LoopSpec == LoopInit /\ [][LoopNext]_loopVars

(* The event loop serves its coroutines; a send returns; the brain lets go *)
(* of a turn that was cancelled.  It need never end one by itself.         *)
LoopFairness ==
    /\ WF_loopVars(Dispatcher)
    /\ WF_loopVars(Watcher)
    /\ WF_loopVars(Expire)
    /\ WF_loopVars(StopResumes)
    /\ \A e \in Event : WF_loopVars(turn[e] = "cancelling" /\ TurnEnds(e))

(* think_inner gives up by itself, after timeout_seconds. *)
InnerFairness ==
    \A e \in {x \in Event : KindOf[x] \in {"tick", "agent"}} : WF_loopVars(TurnEnds(e))

FairLoop == LoopSpec /\ LoopFairness

-----------------------------------------------------------------------------
(* Only one brain task runs, whatever expires, preempts and interrupts:    *)
(* the next turn waits until a cancelled one has let go.                   *)
OneTurnAtATime ==
    \A e, f \in Event :
        turn[e] \in {"running", "cancelling"} /\ turn[f] \in {"running", "cancelling"} => e = f

(* While the loop lives, a message whose sender still waits is in the      *)
(* queue or in the hands of the dispatcher or of the watcher: draining,    *)
(* merging, putting back and popping lose none.                            *)
NoMessageLost ==
    alive => \A m \in Message :
        stamp[m] > 0 /\ future[m] = "pending"
          => \/ m \in queue \cup Mine
             \/ wpc \in {"probing", "telling"} /\ told = m

(* The running brain task is the one _current_task names, so that the      *)
(* watcher and stop() can reach it: "it never races with the dispatcher's  *)
(* own bookkeeping".                                                       *)
CurrentTaskIsTheTurn ==
    dpc \in {"turn", "thinking"} /\ turn[handling] = "running" => current = handling

(* When run() has returned nothing is left behind. *)
StopIsClean ==
    dpc = "ended" => /\ wpc = "off"
                     /\ \A e \in Event : turn[e] \notin {"running", "cancelling"}

(* The messages of a chat are given to the brain in the order they came.   *)
ServedInOrder ==
    [][\A m \in Message :
          turn[m] = "none" /\ turn'[m] = "running"
            => \A x \in queue' \cap Message :
                  ChatOf[x] = ChatOf[m] /\ KindOf[x] = KindOf[m] => stamp[x] > stamp[m]]_loopVars

(* The owner is answered although no brain call ever returns by itself. *)
OwnerIsAnswered ==
    \A m \in Message :
        (KindOf[m] = "owner" /\ stamp[m] > 0) ~> (future[m] # "pending" \/ ~alive)

(* Everybody else is answered when inner turns end. *)
UserIsAnswered ==
    InnerFairness => \A m \in Message : stamp[m] > 0 ~> (future[m] # "pending" \/ ~alive)

(* Shutdown comes to an end. *)
StopEnds == spc # "idle" ~> (dpc = "ended" /\ spc = "killed")
=============================================================================
