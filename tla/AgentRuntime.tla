---------------------------- MODULE AgentRuntime ----------------------------
(***************************************************************************)
(* One run of a background agent (concurrent_bg_work/runtime.py), the      *)
(* events it emits through the event bus (event_bus.py) and those the      *)
(* agent itself emits while it executes (agents/base.py).                  *)
(*                                                                         *)
(* A task has at most two runs: the one its start spawned and the one an   *)
(* answer to its checkpoint spawned.  A step of a run is the code from one *)
(* await to the next; "pc" names the await it is suspended at.             *)
(***************************************************************************)
EXTENDS AgentTaskStore

VARIABLES
    pc,         \* the await a client or run is suspended at
    outcome,    \* what a run came to: the result of execute(), or "uncaught"
    emitting,   \* type of the event a run is emitting
    tokenSet,   \* runs whose CancellationToken is set
    registered, \* TaskSupervisor._runtime_tasks: the run a task id points to
    token,      \* TaskSupervisor._tokens: the run whose token a task id points to
    reports     \* history: the results pushed to the main loop, per task

runtimeVars == <<pc, outcome, emitting, tokenSet, registered, token, reports>>
runLocals == <<outcome, emitting, tokenSet>>
directory == <<registered, token>>

Run(t)    == <<"run", t>>
Resume(t) == <<"resume", t>>
Runs      == {"run", "resume"} \X Task
TaskOf(r) == r[2]

ASSUME RunsAreClients == Runs \subseteq Client

RunLabel == {"idle", "running", "started", "announced", "instantiating",
             "executing", "agent_emit", "agent_push", "terminal_check",
             "report", "checkpointing", "closing", "push", "ended"}
Result == {"done", "failed", "needs_input", "raised"}  \* of execute()
Outcome == Result \cup {"uncaught"}

(* Event types emit() hands to the main loop as an AgentTaskResultEvent. *)
ResultType == TerminalStatus \cup {"budget_exhausted"}

Live(r) == pc[r] \notin {"idle", "ended"}

RuntimeTypeOK ==
    /\ \A r \in Runs : pc[r] \in RunLabel
    /\ outcome \in [Runs -> Outcome]
    /\ emitting \in [Runs -> EventType]
    /\ tokenSet \subseteq Runs
    /\ registered \in [Task -> {"none", "run", "resume"}]
    /\ token \in [Task -> {"none", "run", "resume"}]
    /\ reports \in [Task -> Seq(ResultType)]

RuntimeInit ==
    /\ outcome = [r \in Runs |-> "done"]
    /\ emitting = [r \in Runs |-> "started"]
    /\ tokenSet = {}
    /\ registered = [t \in Task |-> "none"]
    /\ token = [t \in Task |-> "none"]
    /\ reports = [t \in Task |-> <<>>]

-----------------------------------------------------------------------------
Goto(c, label) == pc' = [pc EXCEPT ![c] = label]

(* The client suspended at an await is resumed with r. *)
Wake(c, label, r) ==
    /\ pc[c] = label
    /\ reply[c] = r
    /\ reply' = [reply EXCEPT ![c] = "none"]

(* _spawn_runtime, with the first step of the new asyncio task, which runs *)
(* before any I/O completes: token and task are registered under the id,   *)
(* whatever was there before, and update_status(RUNNING) is submitted.     *)
Spawn(r) ==
    /\ registered' = [registered EXCEPT ![TaskOf(r)] = r[1]]
    /\ token' = [token EXCEPT ![TaskOf(r)] = r[1]]
    /\ Submit(StatusOp(r, TaskOf(r), "running"))

(* The done callback pops the task id, whichever run it points to. *)
Finished(r) ==
    /\ Goto(r, "ended")
    /\ registered' = [registered EXCEPT ![TaskOf(r)] = "none"]
    /\ UNCHANGED token

(* AgentEventBus.emit begins with append_event; the run waits at "label".  *)
Emit(r, type, id, label) ==
    /\ Submit(EventOp(r, TaskOf(r), type, id))
    /\ emitting' = [emitting EXCEPT ![r] = type]
    /\ Goto(r, label)
    /\ UNCHANGED <<tokenSet, directory>>

(* The rest of emit: a result, and the notice of an exhausted budget is    *)
(* one too, reaches the main loop's queue, unless the task has no parent   *)
(* turn or was created more than 30 minutes ago.                           *)
Push(t, type) ==
    \/ /\ type \in ResultType
       /\ reports' = [reports EXCEPT ![t] = Append(@, type)]
    \/ UNCHANGED reports

-----------------------------------------------------------------------------
(* AgentRuntime.run, await by await. *)

BecomeRunning(r) ==
    /\ Wake(r, "running", "ok")
    /\ Emit(r, "started", "1", "started")
    /\ UNCHANGED <<outcome, reports>>

StartLogged(r) ==
    /\ Wake(r, "started", "ok")
    /\ Goto(r, "announced")
    /\ UNCHANGED <<queue, runLocals, directory, reports>>

(* append_event raised: nothing in run() catches it. *)
StartRefused(r) ==
    /\ Wake(r, "started", "error")
    /\ Finished(r)
    /\ UNCHANGED <<queue, runLocals, reports>>

(* The read, mutation record and desktop send of the first emit are over;  *)
(* the token is looked at outside any try.                                 *)
Announce(r) ==
    /\ pc[r] = "announced"
    /\ \/ r \in tokenSet /\ Finished(r)
       \/ r \notin tokenSet /\ Goto(r, "instantiating") /\ UNCHANGED directory
    /\ UNCHANGED <<queue, reply, runLocals, reports>>

(* get_or_create_instance: an instance; AgentSpawnError or None, which are *)
(* reported; or another exception (a corrupt catalog row, a spec the       *)
(* factory does not know, a workspace it cannot create), which nothing     *)
(* catches: the run is over, its row says "running".                       *)
Instantiate(r) ==
    /\ pc[r] = "instantiating"
    /\ Goto(r, "executing")
    /\ UNCHANGED <<queue, reply, runLocals, directory, reports>>

(* Mutant of InstantiateFails: returns without an event. *)
InstantiateFailsSilently(r) ==
    /\ pc[r] = "instantiating"
    /\ Finished(r)
    /\ UNCHANGED <<queue, reply, runLocals, reports>>

InstantiateFails(r) ==
    /\ pc[r] = "instantiating"
    /\ Emit(r, "failed", "2", "closing")
    /\ UNCHANGED <<reply, outcome, reports>>

InstantiateRaises(r) ==
    /\ pc[r] = "instantiating"
    /\ Finished(r)
    /\ outcome' = [outcome EXCEPT ![r] = "uncaught"]
    /\ UNCHANGED <<queue, reply, emitting, tokenSet, reports>>

(* BaseAgent._finalize_*: the agent emits its own last event, then returns *)
(* "done" (also when the budget is exhausted) or "failed".                 *)
AgentEmits(r) ==
    /\ pc[r] = "executing"
    /\ \E type \in {"completed", "failed", "budget_exhausted"} :
          /\ Submit(EventOp(r, TaskOf(r), type, "own"))
          /\ emitting' = [emitting EXCEPT ![r] = type]
          /\ outcome' = [outcome EXCEPT ![r] =
                            IF type = "failed" THEN "failed" ELSE "done"]
    /\ Goto(r, "agent_emit")
    /\ UNCHANGED <<reply, tokenSet, directory, reports>>

AgentLogged(r) ==
    /\ Wake(r, "agent_emit", "ok")
    /\ Goto(r, "agent_push")
    /\ UNCHANGED <<queue, runLocals, directory, reports>>

(* Behind execute(), with no await in between: the token, the exception    *)
(* handlers and the branch on the result's status.                         *)
AfterExecute(r, result) ==
    /\ outcome' = [outcome EXCEPT ![r] = result]
    /\ \/ /\ result = "raised"
          /\ Emit(r, "failed", "3", "closing")
       \/ /\ result # "raised" /\ r \in tokenSet
          /\ Emit(r, "cancelled", "3", "closing")
       \/ /\ result = "needs_input" /\ r \notin tokenSet
          /\ Submit(MakeOp(r, "checkpoint", TaskOf(r)))
          /\ Goto(r, "checkpointing")
          /\ UNCHANGED <<emitting, tokenSet, directory>>
       \/ /\ result \in {"done", "failed"} /\ r \notin tokenSet
          /\ Goto(r, "terminal_check")
          /\ UNCHANGED <<queue, emitting, tokenSet, directory>>

AgentPushes(r) ==
    /\ pc[r] = "agent_push"
    /\ Push(TaskOf(r), emitting[r])
    /\ AfterExecute(r, outcome[r])
    /\ UNCHANGED reply

(* execute() returns or raises without an event of the agent's own: an     *)
(* agent asking for input, or one whose emit failed and was swallowed.     *)
AgentReturns(r) ==
    /\ pc[r] = "executing"
    /\ \E result \in Result : AfterExecute(r, result)
    /\ UNCHANGED <<reply, reports>>

(* _checkpoint_needs_input: the question is announced once it is saved. *)
Checkpointed(r) ==
    /\ Wake(r, "checkpointing", "ok")
    /\ Emit(r, "needs_input", "3", "closing")
    /\ UNCHANGED <<outcome, reports>>

(* Mutants of CheckTerminal: the row is not looked at; the event is always *)
(* left to the agent.                                                      *)
ReportAnyway(r) ==
    /\ pc[r] = "terminal_check"
    /\ Goto(r, "report")
    /\ UNCHANGED <<queue, reply, runLocals, directory, reports>>

NeverReport(r) ==
    /\ pc[r] = "terminal_check"
    /\ Finished(r)
    /\ UNCHANGED <<queue, reply, runLocals, reports>>

(* _task_is_terminal, then the event unless the row already ended. *)
CheckTerminal(r) ==
    /\ pc[r] = "terminal_check"
    /\ IF status[TaskOf(r)] \in TerminalStatus \cup {"waiting_input"}
       THEN Finished(r)
       ELSE Goto(r, "report") /\ UNCHANGED directory
    /\ UNCHANGED <<queue, reply, runLocals, reports>>

Report(r) ==
    /\ pc[r] = "report"
    /\ Emit(r, IF outcome[r] = "done" THEN "completed" ELSE "failed", "3",
            "closing")
    /\ UNCHANGED <<reply, outcome, reports>>

(* Logged, or refused: append_event raised, and the push is not reached.   *)
LastEventLogged(r) ==
    /\ \E result \in {"ok", "error"} :
          /\ Wake(r, "closing", result)
          /\ IF result = "ok" THEN Goto(r, "push") /\ UNCHANGED directory
                              ELSE Finished(r)
    /\ UNCHANGED <<queue, runLocals, reports>>

LastPush(r) ==
    /\ pc[r] = "push"
    /\ Push(TaskOf(r), emitting[r])
    /\ Finished(r)
    /\ UNCHANGED <<queue, reply, runLocals>>

(* CancelledError arrives at the await.  Inside the try around execute()   *)
(* it is reported and raised again; anywhere else it ends the run.         *)
InExecute == {"executing", "agent_emit", "agent_push"}

CancelledInExecute(r) ==
    /\ pc[r] \in InExecute
    /\ Wake(r, pc[r], "cancelled")
    /\ Emit(r, "cancelled", "3", "closing")
    /\ UNCHANGED <<outcome, reports>>

CancelledElsewhere(r) ==
    /\ pc[r] \notin InExecute
    /\ Wake(r, pc[r], "cancelled")
    /\ Finished(r)
    /\ UNCHANGED <<queue, runLocals, reports>>

-----------------------------------------------------------------------------
(* A run resumed by the store or by a cancellation ... *)
ResumeRun(r) ==
    /\ \/ BecomeRunning(r)
       \/ StartLogged(r) \/ StartRefused(r)
       \/ AgentLogged(r)
       \/ Checkpointed(r)
       \/ LastEventLogged(r)
       \/ CancelledInExecute(r) \/ CancelledElsewhere(r)
    /\ UNCHANGED <<tables, allotted>>

(* ... and by the completion of anything else it waits for. *)
StepRun(r) ==
    /\ Quiet
    /\ \/ Announce(r)
       \/ Instantiate(r) \/ InstantiateFails(r) \/ InstantiateRaises(r)
       \/ AgentEmits(r) \/ AgentPushes(r) \/ AgentReturns(r)
       \/ CheckTerminal(r) \/ Report(r)
       \/ LastPush(r)
    /\ UNCHANGED <<tables, allotted>>
=============================================================================
