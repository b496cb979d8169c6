--------------------------- MODULE MainLoopProofs ----------------------------
(***************************************************************************)
(* Turns never overlap, and a loop that has returned leaves nothing behind,*)
(* for any set of events.                                                  *)
(***************************************************************************)
EXTENDS MainLoop, FiniteSetTheorems, TLAPS

Active(e) == turn[e] \in {"running", "cancelling"}

(* The dispatcher is awaiting the one brain task there is. *)
ActiveIsHandled == \A e \in Event : Active(e) => dpc \in {"turn", "thinking"} /\ handling = e

(* Where the dispatcher is, there is an event it handles. *)
HandlesEvent ==
    /\ dpc \in {"coalescing", "recording", "turn", "excusing", "thinking", "delivering"}
          => handling \in Event
    /\ dpc \in {"coalescing", "recording", "turn", "excusing"} => handling \in Message

(* The task the dispatcher awaits, _current_task, and what the watcher and *)
(* stop() wait for: each was created.                                      *)
NamesTask ==
    /\ dpc \in {"turn", "thinking"} => turn[handling] # "none"
    /\ current # Nothing => turn[current] # "none"
    /\ wpc = "cancelling" => target \in Event
    /\ spc = "cancelling" => doomed \in Event

WatcherEnds == dpc = "ended" => wpc = "off"

LoopInv ==
    /\ LoopTypeOK
    /\ ActiveIsHandled
    /\ HandlesEvent
    /\ NamesTask
    /\ WatcherEnds

-----------------------------------------------------------------------------
LEMMA MessageIsEvent == Message \subseteq Event
  BY DEF Message

(* A future that is settled keeps its type. *)
LEMMA SettledTyped ==
    ASSUME LoopTypeOK, NEW S, NEW value \in {"reply", "notice", "empty", "error", "cancelled"}
    PROVE  Settled(S, value) \in
              [Event -> {"pending", "reply", "notice", "empty", "error", "cancelled"}]
  BY DEF LoopTypeOK, Settled

(* The rank of a new event: there is one more than before, and Event has   *)
(* room for it.                                                            *)
LEMMA PutTyped ==
    ASSUME QueueTypeOK, NEW e \in Event, Put(e)
    PROVE  QueueTypeOK'
<1> DEFINE old == {f \in Event : stamp[f] > 0}
<1>1. IsFiniteSet(Event) /\ stamp \in [Event -> 0 .. Cardinality(Event)]
  BY EventConstants DEF QueueTypeOK
<1>2. old \subseteq Event /\ e \notin old
  BY DEF Put
<1>3. IsFiniteSet(old) /\ Cardinality(old) \in Nat
  BY <1>1, <1>2, FS_Subset, FS_CardinalityType
<1>4. Cardinality(old \cup {e}) = Cardinality(old) + 1
  BY <1>2, <1>3, FS_AddElement
<1>5. Cardinality(old \cup {e}) <= Cardinality(Event) /\ Cardinality(Event) \in Nat
  BY <1>1, <1>2, FS_Subset, FS_CardinalityType
<1>6. Cardinality(old) + 1 \in 0 .. Cardinality(Event)
  BY <1>3, <1>4, <1>5
<1>7. queue' \subseteq Event
  BY DEF QueueTypeOK, Put
<1>8. stamp' = [stamp EXCEPT ![e] = Cardinality(old) + 1]
  BY DEF Put
<1>9. stamp' \in [Event -> 0 .. Cardinality(Event)]
  BY <1>1, <1>6, <1>8
<1>10. QED
  BY <1>7, <1>9 DEF QueueTypeOK

-----------------------------------------------------------------------------
(* The dispatcher. *)
LEMMA BeginTurnKeeps ==
    ASSUME LoopInv, NEW e \in Message, \A f \in Event : ~Active(f),
           BeginTurn(e), handling' = e, QueueTypeOK',
           merged' \subseteq Message, handlingOwner' \in BOOLEAN,
           UNCHANGED <<future, watchVars, stopVars, alive>>
    PROVE  LoopInv'
<1> e \in Event /\ e # Nothing
  BY EventConstants, MessageIsEvent
<1>1. turn' = [turn EXCEPT ![e] = "running"] /\ turn \in [Event -> TurnState]
  BY DEF BeginTurn, LoopInv, LoopTypeOK
<1>2. LoopTypeOK'
  BY <1>1 DEF LoopInv, LoopTypeOK, BeginTurn, watchVars, stopVars, TurnState
<1>3. ActiveIsHandled'
  BY <1>1 DEF ActiveIsHandled, Active, BeginTurn
<1>4. HandlesEvent'
  BY DEF HandlesEvent, BeginTurn
<1>5. NamesTask'
  BY <1>1 DEF LoopInv, NamesTask, BeginTurn, watchVars, stopVars
<1>6. WatcherEnds'
  BY DEF WatcherEnds, BeginTurn
<1>7. QED
  BY <1>2, <1>3, <1>4, <1>5, <1>6 DEF LoopInv

LEMMA BeginThinkKeeps ==
    ASSUME LoopInv, NEW e \in Event, \A f \in Event : ~Active(f),
           BeginThink(e), handling' = e, QueueTypeOK',
           merged' \subseteq Message, handlingOwner' \in BOOLEAN,
           UNCHANGED <<future, watchVars, stopVars, alive>>
    PROVE  LoopInv'
<1>1. turn' = [turn EXCEPT ![e] = "running"] /\ turn \in [Event -> TurnState]
  BY DEF BeginThink, LoopInv, LoopTypeOK
<1>2. LoopTypeOK'
  BY <1>1 DEF LoopInv, LoopTypeOK, BeginThink, watchVars, stopVars, TurnState
<1>3. ActiveIsHandled'
  BY <1>1 DEF ActiveIsHandled, Active, BeginThink
<1>4. HandlesEvent'
  BY DEF HandlesEvent, BeginThink
<1>5. NamesTask'
  BY <1>1 DEF LoopInv, NamesTask, BeginThink, watchVars, stopVars
<1>6. WatcherEnds'
  BY DEF WatcherEnds, BeginThink
<1>7. QED
  BY <1>2, <1>3, <1>4, <1>5, <1>6 DEF LoopInv

(* A dispatcher that awaits no brain task: there is none. *)
LEMMA NoneActive ==
    ASSUME LoopInv, dpc \notin {"turn", "thinking"}
    PROVE  \A f \in Event : ~Active(f)
  BY DEF LoopInv, ActiveIsHandled

(* The dispatcher suspends without a brain task. *)
LEMMA PausesKeep ==
    ASSUME LoopInv, dpc \notin {"turn", "thinking"},
           dpc' \in {"next", "coalescing", "recording", "delivering"},
           dpc' \in {"coalescing", "recording", "delivering"} => handling' \in Event,
           dpc' \in {"coalescing", "recording"} => handling' \in Message,
           handling' \in Event \cup {Nothing}, QueueTypeOK',
           merged' \subseteq Message, handlingOwner' \in BOOLEAN, alive' \in BOOLEAN,
           UNCHANGED <<expired, bookVars, turn, future, watchVars, stopVars>>
    PROVE  LoopInv'
<1>1. LoopTypeOK'
  BY DEF LoopInv, LoopTypeOK, bookVars, watchVars, stopVars
<1>2. ActiveIsHandled'
  BY NoneActive DEF ActiveIsHandled, Active
<1>3. HandlesEvent'
  BY DEF HandlesEvent
<1>4. NamesTask' /\ WatcherEnds'
  BY DEF LoopInv, NamesTask, WatcherEnds, bookVars, watchVars, stopVars
<1>5. QED
  BY <1>1, <1>2, <1>3, <1>4 DEF LoopInv

LEMMA ServeKeeps == LoopInv /\ Serve => LoopInv'
<1> SUFFICES ASSUME LoopInv, alive, dpc \in {"next", "waiting"},
                    NEW e \in Heads, Dispatch(e)
             PROVE  LoopInv'
  BY DEF Serve
<1>1. e \in Event /\ QueueTypeOK' /\ handling' = e /\ merged' = {}
      /\ handlingOwner' \in BOOLEAN /\ UNCHANGED <<future, watchVars, stopVars>>
  BY DEF Dispatch, Heads, LoopInv, LoopTypeOK, QueueTypeOK
<1>2. \A f \in Event : ~Active(f)
  BY NoneActive
<1>3. CASE KindOf[e] \in {"owner", "user"} /\ dpc' \in {"coalescing", "recording"}
           /\ UNCHANGED <<expired, bookVars, turn, alive>>
  BY <1>1, <1>3, PausesKeep DEF Message, LoopInv, LoopTypeOK
<1>4. CASE KindOf[e] = "user" /\ BeginTurn(e) /\ UNCHANGED alive
  BY <1>1, <1>2, <1>4, BeginTurnKeeps DEF Message
<1>5. CASE BeginThink(e) /\ UNCHANGED alive
  BY <1>1, <1>2, <1>5, BeginThinkKeeps
<1>6. CASE dpc' = "delivering" /\ UNCHANGED <<expired, bookVars, turn, alive>>
  BY <1>1, <1>6, PausesKeep DEF LoopInv, LoopTypeOK
<1>7. CASE alive' = FALSE /\ dpc' = "next" /\ UNCHANGED <<expired, bookVars, turn>>
  BY <1>1, <1>7, PausesKeep
<1>8. QED
  BY <1>3, <1>4, <1>5, <1>6, <1>7 DEF Dispatch

LEMMA WaitKeeps == LoopInv /\ Wait => LoopInv'
  BY EventConstants
     DEF LoopInv, LoopTypeOK, QueueTypeOK, ActiveIsHandled, HandlesEvent, NamesTask,
         WatcherEnds, Active, TurnState, loopVars, queueVars, dispatchVars, bookVars,
         watchVars, stopVars, Wait

LEMMA LeaveKeeps == LoopInv /\ Leave => LoopInv'
  BY EventConstants
     DEF LoopInv, LoopTypeOK, QueueTypeOK, ActiveIsHandled, HandlesEvent, NamesTask,
         WatcherEnds, Active, TurnState, loopVars, queueVars, dispatchVars, bookVars,
         watchVars, stopVars, Leave, Returns, Quiet

LEMMA CoalesceKeeps == LoopInv /\ Coalesce => LoopInv'
<1> SUFFICES ASSUME LoopInv, Coalesce PROVE LoopInv'
  OBVIOUS
<1>1. /\ dpc = "coalescing" /\ handling \in Message /\ handling' = handling
      /\ merged' \subseteq Message /\ QueueTypeOK' /\ handlingOwner' \in BOOLEAN
      /\ UNCHANGED <<future, watchVars, stopVars, alive>>
  BY DEF Coalesce, Companions, Message, LoopInv, LoopTypeOK, QueueTypeOK, HandlesEvent
<1>2. CASE BeginTurn(handling)
  BY <1>1, <1>2, NoneActive, BeginTurnKeeps
<1>3. CASE dpc' = "recording" /\ UNCHANGED <<turn, bookVars, expired>>
  BY <1>1, <1>3, PausesKeep, MessageIsEvent DEF LoopInv, LoopTypeOK
<1>4. QED
  BY <1>2, <1>3 DEF Coalesce

LEMMA RecordedKeeps == LoopInv /\ Recorded => LoopInv'
<1> SUFFICES ASSUME LoopInv, Recorded PROVE LoopInv'
  OBVIOUS
<1>1. /\ dpc = "recording" /\ handling \in Message /\ handling' = handling
      /\ merged' \subseteq Message /\ QueueTypeOK' /\ handlingOwner' \in BOOLEAN
      /\ UNCHANGED <<future, watchVars, stopVars, alive>>
  BY DEF Recorded, LoopInv, LoopTypeOK, QueueTypeOK, queueVars, HandlesEvent
<1>2. QED
  BY <1>1, NoneActive, BeginTurnKeeps DEF Recorded

-----------------------------------------------------------------------------
(* The end of a handler: its brain task is over, or it never had one. *)
LEMMA FinishKeeps ==
    ASSUME LoopInv, \A f \in Event : ~Active(f), Finish,
           future' \in [Event -> {"pending", "reply", "notice", "empty", "error", "cancelled"}],
           UNCHANGED <<queueVars, turn, watchVars, stopVars, alive>>
    PROVE  LoopInv'
<1>1. LoopTypeOK'
  BY DEF LoopInv, LoopTypeOK, QueueTypeOK, Finish, queueVars, watchVars, stopVars
<1>2. ActiveIsHandled'
  BY DEF ActiveIsHandled, Active
<1>3. HandlesEvent' /\ WatcherEnds'
  BY DEF HandlesEvent, WatcherEnds, Finish
<1>4. NamesTask'
  BY DEF LoopInv, NamesTask, Finish, watchVars, stopVars
<1>5. QED
  BY <1>1, <1>2, <1>3, <1>4 DEF LoopInv

(* A dispatcher whose brain task is over: no other one runs. *)
LEMMA OverLeavesNone ==
    ASSUME LoopInv, dpc \in {"turn", "thinking"}, Over(handling)
    PROVE  \A f \in Event : ~Active(f)
  BY DEF LoopInv, ActiveIsHandled, Active, Over

LEMMA HandledKeeps == LoopInv /\ Handled => LoopInv'
<1> SUFFICES ASSUME LoopInv, Handled PROVE LoopInv'
  OBVIOUS
<1>1. UNCHANGED <<queueVars, turn, watchVars, stopVars, alive>>
  BY DEF Handled
<1>2. LoopTypeOK
  BY DEF LoopInv
<1>3. CASE TurnReplied
  <2>1. future' \in [Event -> {"pending", "reply", "notice", "empty", "error", "cancelled"}]
    BY <1>2, <1>3, SettledTyped DEF TurnReplied
  <2>2. \A f \in Event : ~Active(f)
    BY <1>3, OverLeavesNone DEF TurnReplied, Over
  <2>3. QED
    BY <1>1, <1>3, <2>1, <2>2, FinishKeeps DEF TurnReplied
<1>4. CASE TurnCancelled
  <2>1. future' \in [Event -> {"pending", "reply", "notice", "empty", "error", "cancelled"}]
    BY <1>2, <1>4, SettledTyped DEF TurnCancelled
  <2>2. \A f \in Event : ~Active(f)
    BY <1>4, OverLeavesNone DEF TurnCancelled, Over
  <2>3. QED
    BY <1>1, <1>4, <2>1, <2>2, FinishKeeps DEF TurnCancelled
<1>5. CASE Apologise
  <2>1. \A f \in Event : ~Active(f)
    BY <1>5, OverLeavesNone DEF Apologise, Over
  <2>2. LoopTypeOK' /\ NamesTask' /\ WatcherEnds' /\ HandlesEvent'
    BY <1>1, <1>5 DEF Apologise, LoopInv, LoopTypeOK, QueueTypeOK, NamesTask, WatcherEnds,
       HandlesEvent, queueVars, bookVars, watchVars, stopVars
  <2>3. ActiveIsHandled'
    BY <1>1, <2>1 DEF ActiveIsHandled, Active
  <2>4. QED
    BY <2>2, <2>3 DEF LoopInv
<1>6. CASE Apologised
  <2>1. future' \in [Event -> {"pending", "reply", "notice", "empty", "error", "cancelled"}]
    BY <1>2, <1>6, SettledTyped DEF Apologised
  <2>2. \A f \in Event : ~Active(f)
    BY <1>6, NoneActive DEF Apologised
  <2>3. QED
    BY <1>1, <1>6, <2>1, <2>2, FinishKeeps DEF Apologised
<1>7. CASE ThoughtOver
  BY <1>1, <1>2, <1>7, OverLeavesNone, FinishKeeps DEF ThoughtOver, LoopTypeOK
<1>8. CASE Delivered
  BY <1>1, <1>2, <1>8, NoneActive, FinishKeeps DEF Delivered, LoopTypeOK
<1>9. QED
  BY <1>3, <1>4, <1>5, <1>6, <1>7, <1>8 DEF Handled

LEMMA DispatcherKeeps == LoopInv /\ Dispatcher => LoopInv'
  BY ServeKeeps, WaitKeeps, LeaveKeeps, CoalesceKeeps, RecordedKeeps, HandledKeeps
     DEF Dispatcher

-----------------------------------------------------------------------------
(* A brain task is cancelled: it stays the one that runs. *)
LEMMA CancelKeepsTurns ==
    ASSUME LoopInv, NEW e \in Event, turn[e] # "none", ~Over(e), Cancel(e),
           UNCHANGED <<dpc, handling>>
    PROVE  /\ turn' \in [Event -> TurnState]
           /\ ActiveIsHandled'
           /\ \A f \in Event : turn'[f] = "none" <=> turn[f] = "none"
<1>1. turn \in [Event -> TurnState] /\ turn' = [turn EXCEPT ![e] = "cancelling"]
  BY DEF LoopInv, LoopTypeOK, Cancel
<1>2. Active(e)
  BY <1>1 DEF Active, Over, TurnState
<1>3. QED
  BY <1>1, <1>2 DEF LoopInv, ActiveIsHandled, Active, TurnState

(* What is in flight was created and is not over. *)
LEMMA InFlightIsTask ==
    ASSUME LoopInv, InFlight
    PROVE  current \in Event /\ turn[current] # "none" /\ ~Over(current)
  BY DEF LoopInv, LoopTypeOK, NamesTask, InFlight

(* What the steps of the watcher and of the shutdown have to keep. *)
LEMMA BesideDispatcher ==
    ASSUME LoopInv, LoopTypeOK', ActiveIsHandled', UNCHANGED <<dpc, handling, current>>,
           \A f \in Event : turn'[f] = "none" => turn[f] = "none",
           wpc' = "cancelling" => target' \in Event,
           spc' = "cancelling" => doomed' \in Event,
           wpc = "off" => wpc' = "off"
    PROVE  LoopInv'
<1>1. HandlesEvent' /\ WatcherEnds'
  BY DEF LoopInv, HandlesEvent, WatcherEnds
<1>2. NamesTask'
  BY DEF LoopInv, LoopTypeOK, HandlesEvent, NamesTask
<1>3. QED
  BY <1>1, <1>2 DEF LoopInv

LEMMA WatchKeeps ==
    ASSUME LoopInv, Watch, UNCHANGED <<stamp, dispatchVars, stopVars, alive>>
    PROVE  LoopInv'
<1>1. wpc = "polling" /\ InFlight /\ UNCHANGED <<future, bookVars>>
  BY DEF Watch
<1>2. CASE Preempt
  <2>1. /\ turn' \in [Event -> TurnState] /\ ActiveIsHandled'
        /\ \A f \in Event : turn'[f] = "none" <=> turn[f] = "none"
    BY <1>1, <1>2, InFlightIsTask, CancelKeepsTurns DEF Preempt, dispatchVars
  <2>2. LoopTypeOK'
    BY <1>1, <1>2, <2>1, InFlightIsTask
       DEF LoopInv, LoopTypeOK, QueueTypeOK, Preempt, dispatchVars, bookVars, stopVars
  <2>3. QED
    BY <1>1, <1>2, <2>1, <2>2, InFlightIsTask, BesideDispatcher
       DEF LoopInv, NamesTask, Preempt, dispatchVars, bookVars, stopVars
<1>3. ASSUME NEW m \in queue, Interrupt(m)
      PROVE  LoopInv'
  <2>1. m \in Message /\ wpc' \in {"telling", "probing"}
    BY <1>3 DEF Interrupt, Companions, Message, LoopInv, LoopTypeOK, QueueTypeOK
  <2>2. LoopTypeOK'
    BY <1>1, <1>3, <2>1
       DEF LoopInv, LoopTypeOK, QueueTypeOK, Interrupt, dispatchVars, bookVars, stopVars
  <2>3. ActiveIsHandled'
    BY <1>3 DEF LoopInv, ActiveIsHandled, Active, Interrupt, dispatchVars
  <2>4. QED
    BY <1>1, <1>3, <2>1, <2>2, <2>3, BesideDispatcher
       DEF LoopInv, NamesTask, Interrupt, dispatchVars, bookVars, stopVars
<1>4. QED
  BY <1>2, <1>3 DEF Watch

LEMMA WatcherKeeps == LoopInv /\ Watcher => LoopInv'
<1> SUFFICES ASSUME LoopInv, Watcher PROVE LoopInv'
  OBVIOUS
<1>1. UNCHANGED <<stamp, dispatchVars, stopVars, alive>>
  BY DEF Watcher
<1>2. LoopTypeOK
  BY DEF LoopInv
<1>3. CASE Watch
  BY <1>1, <1>3, WatchKeeps
<1>4. CASE Probed
  <2>1. future' \in [Event -> {"pending", "reply", "notice", "empty", "error", "cancelled"}]
    BY <1>2, <1>4, SettledTyped DEF Probed
  <2>2. LoopTypeOK' /\ ActiveIsHandled'
    BY <1>1, <1>4, <2>1
       DEF LoopInv, LoopTypeOK, QueueTypeOK, ActiveIsHandled, Active, Probed, dispatchVars,
           bookVars, stopVars
  <2>3. QED
    BY <1>1, <1>4, <2>2, BesideDispatcher
       DEF LoopInv, NamesTask, Probed, dispatchVars, bookVars, stopVars
<1>5. CASE Told
  <2>1. /\ future' \in [Event -> {"pending", "reply", "notice", "empty", "error", "cancelled"}]
        /\ notice' \in BOOLEAN
    BY <1>2, <1>5, SettledTyped DEF Told, LoopTypeOK
  <2>2. CASE InFlight
    <3>1. Cancel(current) /\ wpc' = "cancelling" /\ target' = current
      BY <1>5, <2>2 DEF Told
    <3>2. /\ turn' \in [Event -> TurnState] /\ ActiveIsHandled'
          /\ \A f \in Event : turn'[f] = "none" <=> turn[f] = "none"
      BY <1>1, <2>2, <3>1, InFlightIsTask, CancelKeepsTurns DEF dispatchVars
    <3>3. LoopTypeOK'
      BY <1>1, <1>2, <1>5, <2>1, <2>2, <3>1, <3>2, InFlightIsTask
         DEF LoopTypeOK, QueueTypeOK, Told, dispatchVars, stopVars
    <3>4. QED
      BY <1>1, <1>5, <2>2, <3>1, <3>2, <3>3, InFlightIsTask, BesideDispatcher
         DEF LoopInv, NamesTask, Told, dispatchVars, stopVars
  <2>3. CASE ~InFlight
    <3>1. wpc' = "polling" /\ UNCHANGED <<turn, target>>
      BY <1>5, <2>3 DEF Told
    <3>2. LoopTypeOK' /\ ActiveIsHandled'
      BY <1>1, <1>2, <1>5, <2>1, <3>1
         DEF LoopInv, LoopTypeOK, QueueTypeOK, ActiveIsHandled, Active, Told,
             dispatchVars, stopVars
    <3>3. QED
      BY <1>1, <1>5, <3>1, <3>2, BesideDispatcher
         DEF LoopInv, NamesTask, Told, dispatchVars, stopVars
  <2>4. QED
    BY <2>2, <2>3
<1>6. CASE TargetEnded
  <2>1. wpc = "cancelling" /\ wpc' = "polling" /\ current' = Nothing
    BY <1>6 DEF TargetEnded, WatcherDue
  <2>2. LoopTypeOK' /\ ActiveIsHandled'
    BY <1>1, <1>2, <1>6
       DEF LoopInv, LoopTypeOK, QueueTypeOK, ActiveIsHandled, Active, TargetEnded, dispatchVars,
           stopVars
  <2>3. HandlesEvent' /\ NamesTask' /\ WatcherEnds'
    BY <1>1, <1>6, <2>1
       DEF LoopInv, HandlesEvent, NamesTask, WatcherEnds, TargetEnded, dispatchVars, stopVars
  <2>4. QED
    BY <2>2, <2>3 DEF LoopInv
<1>7. QED
  BY <1>3, <1>4, <1>5, <1>6 DEF Watcher

-----------------------------------------------------------------------------
(* Brain tasks, the deadline, producers. *)
LEMMA TurnEndsKeeps == \A e \in Event : LoopInv /\ TurnEnds(e) => LoopInv'
<1> SUFFICES ASSUME LoopInv, NEW e \in Event, TurnEnds(e) PROVE LoopInv'
  OBVIOUS
<1>1. PICK s \in {"replied", "failed", "cancelled"} :
         turn[e] \in {"running", "cancelling"} /\ turn' = [turn EXCEPT ![e] = s]
  BY DEF TurnEnds
<1>2. turn \in [Event -> TurnState] /\ UNCHANGED <<queueVars, dispatchVars, bookVars, future,
                                                    watchVars, stopVars, alive>>
  BY DEF TurnEnds, LoopInv, LoopTypeOK
<1>3. LoopTypeOK' /\ ActiveIsHandled'
  BY <1>1, <1>2 DEF LoopInv, LoopTypeOK, QueueTypeOK, ActiveIsHandled, Active, TurnState,
     queueVars, dispatchVars, bookVars, watchVars, stopVars
<1>4. QED
  BY <1>1, <1>2, <1>3, BesideDispatcher
     DEF LoopInv, NamesTask, dispatchVars, bookVars, watchVars, stopVars

LEMMA ExpireKeeps == LoopInv /\ Expire => LoopInv'
<1> SUFFICES ASSUME LoopInv, Expire PROVE LoopInv'
  OBVIOUS
<1>1. handling \in Event /\ turn[handling] # "none" /\ ~Over(handling)
  BY DEF Expire, LoopInv, HandlesEvent, NamesTask
<1>2. /\ turn' \in [Event -> TurnState] /\ ActiveIsHandled'
      /\ \A f \in Event : turn'[f] = "none" <=> turn[f] = "none"
  BY <1>1, CancelKeepsTurns DEF Expire
<1>3. LoopTypeOK'
  BY <1>2 DEF LoopInv, LoopTypeOK, QueueTypeOK, Expire, queueVars, bookVars, watchVars, stopVars
<1>4. QED
  BY <1>2, <1>3, BesideDispatcher
     DEF LoopInv, NamesTask, Expire, bookVars, watchVars, stopVars

LEMMA ArriveKeeps == \A e \in Event : LoopInv /\ Arrive(e) => LoopInv'
<1> SUFFICES ASSUME LoopInv, NEW e \in Event, Arrive(e) PROVE LoopInv'
  OBVIOUS
<1>1. QueueTypeOK'
  BY PutTyped DEF Arrive, LoopInv, LoopTypeOK
<1>2. UNCHANGED <<dispatchVars, bookVars, turn, future, watchVars, stopVars, alive>>
  BY DEF Arrive
<1>3. LoopTypeOK'
  BY <1>1, <1>2 DEF LoopInv, LoopTypeOK, dispatchVars, bookVars, watchVars, stopVars
<1>4. ActiveIsHandled' /\ HandlesEvent' /\ NamesTask' /\ WatcherEnds'
  BY <1>2 DEF LoopInv, ActiveIsHandled, Active, HandlesEvent, NamesTask, WatcherEnds,
     dispatchVars, bookVars, watchVars, stopVars
<1>5. QED
  BY <1>3, <1>4 DEF LoopInv

-----------------------------------------------------------------------------
(* The shutdown. *)
LEMMA KillKeeps ==
    ASSUME LoopInv, Kill, UNCHANGED <<queueVars, future, told, target>>,
           doomed' \in Event \cup {Nothing}, alive' \in BOOLEAN
    PROVE  LoopInv'
<1>1. spc' = "killed"
  BY DEF Kill
<1>2. CASE dpc \in {"turn", "thinking"}
  <2>1. /\ turn' = [turn EXCEPT ![handling] =
                       IF Over(handling) THEN "cancelled" ELSE "cancelling"]
        /\ expired' = FALSE
        /\ UNCHANGED <<dpc, handling, merged, handlingOwner, bookVars, wpc>>
    BY <1>2 DEF Kill
  <2>2. handling \in Event /\ turn \in [Event -> TurnState]
    BY <1>2 DEF LoopInv, LoopTypeOK, HandlesEvent
  <2>3. LoopTypeOK'
    <3>1. turn' \in [Event -> TurnState] /\ QueueTypeOK'
      BY <2>1, <2>2 DEF LoopInv, LoopTypeOK, QueueTypeOK, TurnState, queueVars
    <3>2. /\ dpc' \in {"next", "waiting", "coalescing", "recording", "turn", "excusing",
                     "thinking", "delivering", "ended"}
          /\ handling' \in Event \cup {Nothing} /\ merged' \subseteq Message
          /\ expired' \in BOOLEAN /\ handlingOwner' \in BOOLEAN
      BY <2>1 DEF LoopInv, LoopTypeOK, bookVars
    <3>3. /\ current' \in Event \cup {Nothing} /\ currentMessage' \in Message \cup {Nothing}
          /\ notice' \in BOOLEAN
      BY <2>1 DEF LoopInv, LoopTypeOK, bookVars
    <3>4. /\ future' \in
               [Event -> {"pending", "reply", "notice", "empty", "error", "cancelled"}]
          /\ wpc' \in {"polling", "probing", "telling", "cancelling", "off"}
          /\ told' \in Message \cup {Nothing} /\ target' \in Event \cup {Nothing}
      BY <1>1, <2>1 DEF LoopInv, LoopTypeOK, bookVars
    <3>5. /\ spc' \in {"idle", "cancelling", "killed"}
          /\ doomed' \in Event \cup {Nothing} /\ alive' \in BOOLEAN
      BY <1>1, <2>1, <3>1
    <3>6. QED
      BY <3>1, <3>2, <3>3, <3>4, <3>5 DEF LoopTypeOK
  <2>4. ActiveIsHandled'
    BY <1>2, <2>1, <2>2 DEF LoopInv, ActiveIsHandled, Active
  <2>5. QED
    BY <1>1, <2>1, <2>2, <2>3, <2>4, BesideDispatcher DEF LoopInv, NamesTask, bookVars
<1>3. CASE dpc \notin {"turn", "thinking"}
  <2>1. Returns /\ UNCHANGED turn
    BY <1>3 DEF Kill
  <2>2. LoopTypeOK'
    BY <1>1, <2>1 DEF LoopInv, LoopTypeOK, QueueTypeOK, Returns, queueVars
  <2>3. ActiveIsHandled'
    BY <1>3, <2>1, NoneActive DEF ActiveIsHandled, Active
  <2>4. HandlesEvent' /\ NamesTask' /\ WatcherEnds'
    BY <1>1, <2>1 DEF LoopInv, HandlesEvent, NamesTask, WatcherEnds, Returns
  <2>5. QED
    BY <2>2, <2>3, <2>4 DEF LoopInv
<1>4. QED
  BY <1>2, <1>3

LEMMA StopCallKeeps == LoopInv /\ StopCall => LoopInv'
<1> SUFFICES ASSUME LoopInv, StopCall PROVE LoopInv'
  OBVIOUS
<1>1. alive' = FALSE /\ UNCHANGED <<queueVars, future, told, target>>
  BY DEF StopCall
<1>2. CASE InFlight
  <2>1. /\ Cancel(current) /\ spc' = "cancelling" /\ doomed' = current
        /\ UNCHANGED <<dispatchVars, bookVars, wpc>>
    BY <1>2 DEF StopCall
  <2>2. /\ turn' \in [Event -> TurnState] /\ ActiveIsHandled'
        /\ \A f \in Event : turn'[f] = "none" <=> turn[f] = "none"
    BY <1>2, <2>1, InFlightIsTask, CancelKeepsTurns DEF dispatchVars
  <2>3. LoopTypeOK'
    <3>1. QueueTypeOK' /\ doomed' \in Event
      BY <1>1, <1>2, <2>1, InFlightIsTask DEF LoopInv, LoopTypeOK, QueueTypeOK, queueVars
    <3>2. /\ dpc' \in {"next", "waiting", "coalescing", "recording", "turn", "excusing",
                     "thinking", "delivering", "ended"}
          /\ handling' \in Event \cup {Nothing} /\ merged' \subseteq Message
          /\ expired' \in BOOLEAN /\ handlingOwner' \in BOOLEAN
      BY <2>1 DEF LoopInv, LoopTypeOK, dispatchVars, bookVars
    <3>3. /\ current' \in Event \cup {Nothing} /\ currentMessage' \in Message \cup {Nothing}
          /\ notice' \in BOOLEAN
      BY <2>1 DEF LoopInv, LoopTypeOK, dispatchVars, bookVars
    <3>4. /\ future' \in
               [Event -> {"pending", "reply", "notice", "empty", "error", "cancelled"}]
          /\ wpc' \in {"polling", "probing", "telling", "cancelling", "off"}
          /\ told' \in Message \cup {Nothing} /\ target' \in Event \cup {Nothing}
      BY <1>1, <2>1 DEF LoopInv, LoopTypeOK, dispatchVars, bookVars
    <3>5. /\ spc' \in {"idle", "cancelling", "killed"}
          /\ doomed' \in Event \cup {Nothing} /\ alive' \in BOOLEAN
      BY <1>1, <2>1, <3>1
    <3>6. QED
      BY <2>2, <3>1, <3>2, <3>3, <3>4, <3>5 DEF LoopTypeOK
  <2>4. QED
    BY <1>1, <1>2, <2>1, <2>2, <2>3, InFlightIsTask, BesideDispatcher
       DEF LoopInv, NamesTask, dispatchVars, bookVars
<1>3. CASE ~InFlight
  BY <1>1, <1>3, KillKeeps DEF StopCall, LoopInv, LoopTypeOK
<1>4. QED
  BY <1>2, <1>3

LEMMA StopResumesKeeps == LoopInv /\ StopResumes => LoopInv'
  BY KillKeeps DEF StopResumes, LoopInv, LoopTypeOK

-----------------------------------------------------------------------------
LEMMA LoopInitInv == LoopInit => LoopInv
<1> SUFFICES ASSUME LoopInit PROVE LoopInv
  OBVIOUS
<1>1. Cardinality(Event) \in Nat
  BY EventConstants, FS_CardinalityType
<1>2. LoopTypeOK
  <2>1. QueueTypeOK
    BY <1>1 DEF LoopInit, QueueInit, QueueTypeOK
  <2>2. QED
    BY <2>1 DEF LoopInit, LoopTypeOK, TurnState
<1>3. ActiveIsHandled /\ HandlesEvent /\ NamesTask /\ WatcherEnds
  BY DEF LoopInit, ActiveIsHandled, Active, HandlesEvent, NamesTask, WatcherEnds
<1>4. QED
  BY <1>2, <1>3 DEF LoopInv

LEMMA LoopStepInv == LoopInv /\ [LoopNext]_loopVars => LoopInv'
<1> SUFFICES ASSUME LoopInv, [LoopNext]_loopVars PROVE LoopInv'
  OBVIOUS
<1>1. CASE LoopStep
  BY <1>1, DispatcherKeeps, WatcherKeeps, TurnEndsKeeps, ExpireKeeps, StopResumesKeeps
     DEF LoopStep
<1>2. CASE \E e \in Event : Arrive(e)
  BY <1>2, ArriveKeeps
<1>3. CASE StopCall
  BY <1>3, StopCallKeeps
<1>4. CASE UNCHANGED loopVars
  BY <1>4 DEF LoopInv, LoopTypeOK, QueueTypeOK, ActiveIsHandled, Active, HandlesEvent,
     NamesTask, WatcherEnds, loopVars, queueVars, dispatchVars, bookVars, watchVars, stopVars
<1>5. QED
  BY <1>1, <1>2, <1>3, <1>4 DEF LoopNext, Idle

LEMMA LoopInvariant == LoopSpec => []LoopInv
  BY LoopInitInv, LoopStepInv, PTL DEF LoopSpec

(* Type correctness of the main loop. *)
THEOREM LoopTypeCorrect == LoopSpec => []LoopTypeOK
<1>1. LoopInv => LoopTypeOK
  BY DEF LoopInv
<1>2. QED
  BY <1>1, LoopInvariant, PTL

(* Whatever expires, preempts, interrupts and stops, in whatever order: a  *)
(* brain call begins only when the one before has let go.                  *)
THEOREM TurnsNeverOverlap == LoopSpec => []OneTurnAtATime
<1>1. LoopInv => OneTurnAtATime
  BY DEF LoopInv, ActiveIsHandled, Active, OneTurnAtATime
<1>2. QED
  BY <1>1, LoopInvariant, PTL

(* After run() has returned neither the watcher nor a brain call is left. *)
THEOREM StopLeavesNothing == LoopSpec => []StopIsClean
<1>1. LoopInv => StopIsClean
  BY DEF LoopInv, ActiveIsHandled, Active, WatcherEnds, StopIsClean
<1>2. QED
  BY <1>1, LoopInvariant, PTL

-----------------------------------------------------------------------------
(* No message is lost.  What the dispatcher holds is empty when it awaits  *)
(* the queue, and no message when it thinks or delivers; stop() has        *)
(* cleared _alive before it awaits a task.                                 *)

HandsEmpty == alive /\ dpc \in {"next", "waiting"} => handling = Nothing /\ merged = {}
HoldsNoMessage == dpc \in {"thinking", "delivering"} => handling \notin Message /\ merged = {}
MergesLater == dpc = "coalescing" => merged = {}
StopClears == spc = "cancelling" => ~alive

KeptInv == NoMessageLost /\ HandsEmpty /\ HoldsNoMessage /\ MergesLater /\ StopClears

(* Whoever is settled waits no longer, and nobody else's future changes. *)
LEMMA SettledWaitsNot ==
    ASSUME NEW S, NEW m \in Event, NEW value \in {"reply", "notice", "empty", "error", "cancelled"},
           future' = Settled(S, value), future'[m] = "pending"
    PROVE  m \notin S /\ future[m] = "pending"
  BY DEF Settled

LEMMA ServeKeepsAll == LoopInv /\ KeptInv /\ Serve => KeptInv'
<1> SUFFICES ASSUME LoopInv, KeptInv, alive, dpc \in {"next", "waiting"},
                    NEW e \in Heads, Dispatch(e)
             PROVE  KeptInv'
  BY DEF Serve
<1>1. /\ e \in queue /\ queue' = queue \ {e} /\ handling' = e /\ merged' = {}
      /\ UNCHANGED <<stamp, future, watchVars, stopVars>> /\ (alive' = alive \/ ~alive')
  BY DEF Dispatch, Heads
<1>2. NoMessageLost'
  <2>1. Mine = {Nothing} /\ Nothing \notin Message
    BY EventConstants, MessageIsEvent DEF KeptInv, HandsEmpty, Mine
  <2>2. e \in Mine'
    BY <1>1 DEF Mine
  <2>3. UNCHANGED <<stamp, future, wpc, told>>
    BY <1>1 DEF watchVars
  <2>4. QED
    BY <1>1, <2>1, <2>2, <2>3 DEF KeptInv, NoMessageLost
<1>3. HandsEmpty' /\ HoldsNoMessage' /\ MergesLater'
  <2>1. CASE KindOf[e] \in {"owner", "user"}
    BY <1>1, <2>1 DEF Dispatch, BeginTurn, HandsEmpty, HoldsNoMessage, MergesLater
  <2>2. CASE KindOf[e] \in {"tick", "agent"}
    BY <1>1, <2>2 DEF Dispatch, BeginThink, HandsEmpty, HoldsNoMessage, MergesLater, Message
  <2>3. CASE KindOf[e] = "status"
    BY <1>1, <2>3 DEF Dispatch, HandsEmpty, HoldsNoMessage, MergesLater, Message
  <2>4. CASE KindOf[e] = "shutdown"
    BY <1>1, <2>4 DEF Dispatch, HandsEmpty, HoldsNoMessage, MergesLater
  <2>5. QED
    BY <2>1, <2>2, <2>3, <2>4 DEF Dispatch
<1>4. StopClears'
  BY <1>1 DEF KeptInv, StopClears, stopVars
<1>5. QED
  BY <1>2, <1>3, <1>4 DEF KeptInv

LEMMA FinishKeepsAll ==
    ASSUME KeptInv, Finish, UNCHANGED <<queueVars, watchVars, stopVars, alive>>,
           \A m \in Message : future'[m] = "pending" => future[m] = "pending" /\ m \notin Mine
    PROVE  KeptInv'
  BY DEF KeptInv, NoMessageLost, HandsEmpty, HoldsNoMessage, MergesLater, StopClears, Finish,
     Mine, queueVars, watchVars, stopVars

LEMMA HandledKeepsAll == LoopInv /\ KeptInv /\ Handled => KeptInv'
<1> SUFFICES ASSUME LoopInv, KeptInv, Handled PROVE KeptInv'
  OBVIOUS
<1>1. UNCHANGED <<queueVars, watchVars, stopVars, alive>> /\ Message \subseteq Event
  BY MessageIsEvent DEF Handled
<1>2. ASSUME NEW value \in {"reply", "notice", "empty", "error", "cancelled"},
             future' = Settled(Mine, value), Finish
      PROVE  KeptInv'
  BY <1>1, <1>2, SettledWaitsNot, FinishKeepsAll
<1>3. CASE TurnReplied
  BY <1>2, <1>3 DEF TurnReplied
<1>4. CASE TurnCancelled
  BY <1>2, <1>4 DEF TurnCancelled
<1>5. CASE Apologise
  BY <1>1, <1>5 DEF Apologise, KeptInv, NoMessageLost, HandsEmpty, HoldsNoMessage,
     MergesLater, StopClears, Mine, queueVars, watchVars, stopVars
<1>6. CASE Apologised
  BY <1>2, <1>6 DEF Apologised
<1>7. CASE ThoughtOver \/ Delivered
  BY <1>1, <1>7, FinishKeepsAll DEF ThoughtOver, Delivered, KeptInv, HoldsNoMessage, Mine
<1>8. QED
  BY <1>3, <1>4, <1>5, <1>6, <1>7 DEF Handled

LEMMA DispatcherKeepsAll == LoopInv /\ KeptInv /\ Dispatcher => KeptInv'
<1> SUFFICES ASSUME LoopInv, KeptInv, Dispatcher PROVE KeptInv'
  OBVIOUS
<1>1. CASE Wait \/ Recorded
  BY <1>1 DEF Wait, Recorded, BeginTurn, KeptInv, NoMessageLost, HandsEmpty, HoldsNoMessage,
     MergesLater, StopClears, Mine, queueVars, watchVars, stopVars
<1>2. CASE Leave
  BY <1>2 DEF Leave, Returns, KeptInv, NoMessageLost, HandsEmpty, HoldsNoMessage,
     MergesLater, StopClears, stopVars
<1>3. CASE Coalesce
  BY <1>3 DEF Coalesce, BeginTurn, KeptInv, NoMessageLost, HandsEmpty, HoldsNoMessage,
     MergesLater, StopClears, Mine, watchVars, stopVars
<1>4. QED
  BY <1>1, <1>2, <1>3, ServeKeepsAll, HandledKeepsAll DEF Dispatcher

LEMMA WatcherKeepsAll == LoopInv /\ KeptInv /\ Watcher => KeptInv'
<1> SUFFICES ASSUME LoopInv, KeptInv, Watcher PROVE KeptInv'
  OBVIOUS
<1>1. UNCHANGED <<stamp, dispatchVars, stopVars, alive>> /\ Message \subseteq Event
  BY MessageIsEvent DEF Watcher
<1>2. HandsEmpty' /\ HoldsNoMessage' /\ MergesLater' /\ StopClears'
  BY <1>1 DEF KeptInv, HandsEmpty, HoldsNoMessage, MergesLater, StopClears, dispatchVars,
     stopVars
<1>3. CASE Watch \/ TargetEnded
  BY <1>1, <1>2, <1>3 DEF Watch, Preempt, Interrupt, TargetEnded, WatcherDue, KeptInv,
     NoMessageLost, Mine, dispatchVars
<1>4. ASSUME NEW value \in {"notice", "empty"}, future' = Settled({told}, value),
             queue' = queue, wpc \in {"probing", "telling"}
      PROVE  NoMessageLost'
  BY <1>1, <1>4, SettledWaitsNot DEF KeptInv, NoMessageLost, Mine, dispatchVars
<1>5. CASE Probed \/ Told
  BY <1>2, <1>4, <1>5 DEF Probed, Told, KeptInv
<1>6. QED
  BY <1>3, <1>5 DEF Watcher

LEMMA KeptInitInv == LoopInit => KeptInv
  BY DEF LoopInit, QueueInit, KeptInv, NoMessageLost, HandsEmpty, HoldsNoMessage, MergesLater,
     StopClears, Message

LEMMA KeptStepInv == LoopInv /\ KeptInv /\ [LoopNext]_loopVars => KeptInv'
<1> SUFFICES ASSUME LoopInv, KeptInv, [LoopNext]_loopVars PROVE KeptInv'
  OBVIOUS
<1> USE DEF KeptInv, NoMessageLost, HandsEmpty, HoldsNoMessage, MergesLater, StopClears, Mine
<1>1. CASE \E e \in Event : TurnEnds(e)
  BY <1>1 DEF TurnEnds, queueVars, dispatchVars, watchVars, stopVars
<1>2. CASE \E e \in Event : Arrive(e)
  BY <1>2 DEF Arrive, Put, LoopInv, LoopTypeOK, QueueTypeOK, dispatchVars, watchVars, stopVars
<1>3. CASE Expire
  BY <1>3 DEF Expire, queueVars, watchVars, stopVars
<1>4. CASE StopCall \/ StopResumes
  BY <1>4 DEF StopCall, StopResumes, StopDue, Kill, Returns, dispatchVars
<1>5. CASE UNCHANGED loopVars
  BY <1>5 DEF loopVars, queueVars, dispatchVars, watchVars, stopVars
<1>6. QED
  BY <1>1, <1>2, <1>3, <1>4, <1>5, DispatcherKeepsAll, WatcherKeepsAll
     DEF LoopNext, LoopStep, Idle

(* Draining, merging, putting back, popping and every end of a turn: while *)
(* the loop lives, each message that is unanswered is in somebody's hands. *)
THEOREM MessagesKept == LoopSpec => []NoMessageLost
<1>1. KeptInv => NoMessageLost
  BY DEF KeptInv
<1>2. QED
  BY <1>1, LoopInitInv, LoopStepInv, KeptInitInv, KeptStepInv, PTL DEF LoopSpec

-----------------------------------------------------------------------------
(* Messages of a chat are served in the order they came: a new event is    *)
(* later than all before, and the message the dispatcher holds, waiting    *)
(* for companions or for a topic stop, came before those of its kind that  *)
(* are queued.                                                             *)

Constructed == {f \in Event : stamp[f] > 0}
StampsCounted == \A e \in Event : stamp[e] <= Cardinality(Constructed)
QueuedConstructed == \A x \in queue : stamp[x] > 0
HeldIsFirst ==
    dpc \in {"coalescing", "recording"} =>
        /\ stamp[handling] > 0
        /\ \A x \in queue \cap Message : KindOf[x] = KindOf[handling] => stamp[x] > stamp[handling]

OrderInv == StampsCounted /\ QueuedConstructed /\ HeldIsFirst

LEMMA PutIsLatest ==
    ASSUME LoopInv, StampsCounted, NEW e \in Event, Put(e)
    PROVE  /\ StampsCounted'
           /\ \A f \in Event : stamp[f] > 0 => stamp'[f] = stamp[f] /\ stamp'[e] > stamp[f]
           /\ \A f \in Event \ {e} : stamp'[f] = stamp[f]
           /\ stamp'[e] > 0
<1>1. stamp \in [Event -> 0 .. Cardinality(Event)] /\ Cardinality(Event) \in Nat
  BY EventConstants, FS_CardinalityType DEF LoopInv, LoopTypeOK, QueueTypeOK
<1>2. Constructed \subseteq Event /\ e \notin Constructed
  BY DEF Put, Constructed
<1>3. IsFiniteSet(Constructed) /\ Cardinality(Constructed) \in Nat
  BY <1>2, EventConstants, FS_Subset, FS_CardinalityType
<1>4. stamp' = [stamp EXCEPT ![e] = Cardinality(Constructed) + 1] /\ stamp[e] = 0
  BY DEF Put, Constructed
<1>5. Constructed' = Constructed \cup {e}
  BY <1>1, <1>3, <1>4 DEF Constructed
<1>6. Cardinality(Constructed') = Cardinality(Constructed) + 1
  BY <1>2, <1>3, <1>5, FS_AddElement
<1>7. \A f \in Event : stamp[f] \in Nat /\ stamp[f] <= Cardinality(Constructed)
  BY <1>1 DEF StampsCounted
<1>8. \A f \in Event : stamp'[f] <= Cardinality(Constructed')
  BY <1>1, <1>3, <1>4, <1>6, <1>7
<1>9. QED
  BY <1>1, <1>3, <1>4, <1>7, <1>8 DEF StampsCounted

(* The head of the queue came before everything of its kind. *)
LEMMA HeadIsFirst ==
    ASSUME LoopInv, NEW e \in Heads, NEW x \in queue \ {e}, KindOf[x] = KindOf[e], e \in Message
    PROVE  stamp[x] > stamp[e]
<1>1. e \in Event /\ x \in Event /\ stamp[e] \in Int /\ stamp[x] \in Int
  BY EventConstants, FS_CardinalityType DEF Heads, LoopInv, LoopTypeOK, QueueTypeOK
<1>2. Before(e, x)
  BY DEF Heads
<1>3. Priority(e) = Priority(x) /\ Priority(e) \in {0, 1}
  BY DEF Priority, Message
<1>4. QED
  BY <1>1, <1>2, <1>3 DEF Before

(* Only the dispatcher begins turns; it begins that of the head of the     *)
(* queue or of the message it holds, when nothing older of its chat and    *)
(* kind is queued.                                                         *)
LEMMA DispatcherInOrder ==
    ASSUME LoopInv, HeldIsFirst, Dispatcher, NEW m \in Message, turn[m] = "none", turn'[m] = "running",
           NEW x \in queue' \cap Message, ChatOf[x] = ChatOf[m], KindOf[x] = KindOf[m]
    PROVE  stamp[x] > stamp[m]
<1> m \in Event /\ turn \in [Event -> TurnState]
  BY MessageIsEvent DEF LoopInv, LoopTypeOK
<1>1. ASSUME NEW e \in Heads, Dispatch(e) PROVE stamp[x] > stamp[m]
  <2>1. m = e
    BY <1>1 DEF Dispatch, BeginTurn, BeginThink, bookVars
  <2>2. x \in queue \ {e}
    BY <1>1 DEF Dispatch
  <2>3. QED
    BY <2>1, <2>2, HeadIsFirst
<1>2. ASSUME dpc \in {"coalescing", "recording"}, BeginTurn(handling), queue' \subseteq queue
      PROVE  stamp[x] > stamp[m]
  <2>1. m = handling
    BY <1>2 DEF BeginTurn
  <2>2. QED
    BY <1>2, <2>1 DEF HeldIsFirst
<1>3. CASE Serve
  BY <1>1, <1>3 DEF Serve
<1>4. CASE Coalesce \/ Recorded
  BY <1>2, <1>4 DEF Coalesce, Recorded, queueVars
<1>5. CASE Wait \/ Leave \/ Handled
  BY <1>5 DEF Wait, Leave, Handled
<1>6. QED
  BY <1>3, <1>4, <1>5 DEF Dispatcher

LEMMA DispatcherKeepsOrder == LoopInv /\ OrderInv /\ Dispatcher => OrderInv'
<1> SUFFICES ASSUME LoopInv, OrderInv, Dispatcher PROVE OrderInv'
  OBVIOUS
<1>1. stamp' = stamp
  BY DEF Dispatcher, Serve, Dispatch, Wait, Leave, Coalesce, Recorded, Handled, queueVars
<1>2. StampsCounted' /\ QueuedConstructed'
  <2>1. queue' \subseteq queue
    BY DEF Dispatcher, Serve, Dispatch, Wait, Leave, Coalesce, Recorded, Handled, queueVars
  <2>2. QED
    BY <1>1, <2>1 DEF OrderInv, StampsCounted, QueuedConstructed, Constructed
<1>3. ASSUME NEW e \in Heads, Dispatch(e) PROVE HeldIsFirst'
  <2>1. /\ e \in queue /\ queue' = queue \ {e} /\ handling' = e
        /\ dpc' \in {"coalescing", "recording"} => e \in Message
    BY <1>3 DEF Dispatch, BeginTurn, BeginThink, Message, Heads, LoopInv, LoopTypeOK, QueueTypeOK
  <2>2. QED
    BY <1>1, <2>1, HeadIsFirst DEF OrderInv, QueuedConstructed, HeldIsFirst
<1>4. Coalesce => HeldIsFirst'
  BY <1>1 DEF Coalesce, BeginTurn, OrderInv, HeldIsFirst
<1>5. Wait \/ Leave \/ Recorded => HeldIsFirst'
  BY DEF Wait, Leave, Returns, Recorded, BeginTurn, HeldIsFirst
<1>6. Handled => HeldIsFirst'
  BY DEF Handled, TurnReplied, TurnCancelled, Apologise, Apologised, ThoughtOver,
     Delivered, Finish, HeldIsFirst
<1>7. HeldIsFirst'
  BY <1>3, <1>4, <1>5, <1>6 DEF Dispatcher, Serve
<1>8. QED
  BY <1>2, <1>7 DEF OrderInv

LEMMA OrderStepInv == LoopInv /\ OrderInv /\ [LoopNext]_loopVars => OrderInv'
<1> SUFFICES ASSUME LoopInv, OrderInv, [LoopNext]_loopVars PROVE OrderInv'
  OBVIOUS
<1>1. ASSUME stamp' = stamp, queue' \subseteq queue, UNCHANGED <<dpc, handling>> \/ dpc' = "ended"
      PROVE  OrderInv'
  BY <1>1 DEF OrderInv, StampsCounted, QueuedConstructed, Constructed, HeldIsFirst
<1>2. CASE Watcher
  BY <1>1, <1>2 DEF Watcher, Watch, Preempt, Interrupt, Probed, Told, TargetEnded, dispatchVars
<1>3. CASE (\E e \in Event : TurnEnds(e)) \/ Expire
  BY <1>1, <1>3 DEF TurnEnds, Expire, queueVars, dispatchVars
<1>4. CASE StopCall \/ StopResumes
  BY <1>1, <1>4 DEF StopCall, StopResumes, Kill, Returns, queueVars, dispatchVars
<1>5. ASSUME NEW e \in Event, Arrive(e) PROVE OrderInv'
  <2>1. Put(e) /\ UNCHANGED <<dpc, handling>> /\ queue' = queue \cup {e} /\ stamp[e] = 0
    BY <1>5 DEF Arrive, Put, dispatchVars
  <2>2. StampsCounted'
    BY <2>1, PutIsLatest DEF OrderInv
  <2>3. ASSUME dpc \in {"coalescing", "recording"}, NEW x \in queue' \cap Message,
               KindOf[x] = KindOf[handling]
        PROVE  stamp'[x] > stamp'[handling]
    <3>1. handling \in Event /\ x \in Event
      BY <2>3, MessageIsEvent DEF LoopInv, HandlesEvent
    <3>2. stamp[handling] > 0 /\ stamp'[handling] = stamp[handling]
      BY <2>1, <2>3, <3>1, PutIsLatest DEF OrderInv, HeldIsFirst, LoopInv, HandlesEvent
    <3>3. CASE x = e
      BY <2>1, <3>1, <3>2, <3>3, PutIsLatest DEF OrderInv
    <3>4. CASE x # e
      BY <2>1, <2>3, <3>1, <3>2, <3>4, PutIsLatest DEF OrderInv, HeldIsFirst
    <3>5. QED
      BY <3>3, <3>4
  <2>4. stamp'[handling] > 0 \/ dpc \notin {"coalescing", "recording"}
    BY <2>1, MessageIsEvent, PutIsLatest DEF OrderInv, HeldIsFirst, LoopInv, HandlesEvent
  <2>5. QueuedConstructed'
    BY <2>1, PutIsLatest DEF OrderInv, QueuedConstructed, LoopInv, LoopTypeOK, QueueTypeOK
  <2>6. HeldIsFirst'
    BY <2>1, <2>3, <2>4 DEF HeldIsFirst
  <2>7. QED
    BY <2>2, <2>5, <2>6 DEF OrderInv
<1>6. CASE UNCHANGED loopVars
  BY <1>1, <1>6 DEF loopVars, queueVars, dispatchVars
<1>7. QED
  BY <1>2, <1>3, <1>4, <1>5, <1>6, DispatcherKeepsOrder DEF LoopNext, LoopStep, Idle

LEMMA OrderInitInv == LoopInit => OrderInv
<1> SUFFICES ASSUME LoopInit PROVE OrderInv
  OBVIOUS
<1>1. \A f \in Event : stamp[f] = 0
  BY DEF LoopInit, QueueInit
<1>2. Constructed = {}
  BY <1>1 DEF Constructed
<1>3. Cardinality(Constructed) = 0
  BY <1>2, FS_EmptySet
<1>4. QED
  BY <1>1, <1>3 DEF LoopInit, QueueInit, OrderInv, StampsCounted, QueuedConstructed, HeldIsFirst

(* The messages of a chat are given to the brain in the order they came,   *)
(* whatever is merged, put back, interrupted or recorded in between.       *)
THEOREM ChatsInOrder == LoopSpec => ServedInOrder
<1> DEFINE InOrder ==
       \A m \in Message :
          turn[m] = "none" /\ turn'[m] = "running"
            => \A x \in queue' \cap Message :
                  ChatOf[x] = ChatOf[m] /\ KindOf[x] = KindOf[m] => stamp[x] > stamp[m]
<1>1. LoopInv /\ OrderInv /\ [LoopNext]_loopVars => [InOrder]_loopVars
  <2> SUFFICES ASSUME LoopInv, OrderInv, LoopNext, NEW m \in Message, turn[m] = "none",
                      turn'[m] = "running"
               PROVE  Dispatcher
    BY DispatcherInOrder DEF OrderInv
  <2> m \in Event /\ turn \in [Event -> TurnState]
    BY MessageIsEvent DEF LoopInv, LoopTypeOK
  <2>1. ASSUME NEW e, Cancel(e) PROVE FALSE
    BY <2>1 DEF Cancel
  <2>2. CASE Watcher
    BY <2>1, <2>2 DEF Watcher, Watch, Preempt, Interrupt, Probed, Told, TargetEnded
  <2>3. CASE Expire
    BY <2>1, <2>3 DEF Expire
  <2>4. CASE StopCall \/ StopResumes
    BY <2>1, <2>4 DEF StopCall, StopResumes, Kill
  <2>5. CASE \E e \in Event : TurnEnds(e)
    BY <2>5 DEF TurnEnds
  <2>6. CASE (\E e \in Event : Arrive(e)) \/ Idle
    BY <2>6 DEF Arrive, Idle, loopVars
  <2>7. QED
    BY <2>2, <2>3, <2>4, <2>5, <2>6 DEF LoopNext, LoopStep
<1>2. QED
  BY <1>1, LoopInitInv, LoopStepInv, OrderInitInv, OrderStepInv, PTL DEF LoopSpec, ServedInOrder
=============================================================================
