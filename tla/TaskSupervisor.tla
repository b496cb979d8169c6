--------------------------- MODULE TaskSupervisor ---------------------------
(***************************************************************************)
(* TaskSupervisor (concurrent_bg_work/supervisor.py) with its admission    *)
(* gate (policy.py) over the store and the runtime: the start, cancel and  *)
(* answer calls of tool callers, the stop marker of the main loop, the     *)
(* recovery the program runs before it serves anyone (store.py,            *)
(* app/container.py), and the crash of the process.                        *)
(*                                                                         *)
(* Each call is made once: a task id stands for the start call that drew   *)
(* it.  A caller may be cancelled at any await when PreemptibleCallers     *)
(* (the main loop cancels the turn a tool call belongs to).                *)
(***************************************************************************)
EXTENDS AgentRuntime

CONSTANTS
    NoTask,
    Canceller, Responder, Stopper,   \* callers of the other operations
    ChatOf, OwnerOf, SpecOf,         \* columns of the task a start creates
    ReplacesOf,                      \* its replaces_task_id, or NoTask
    GivenOf,                         \* the generation its caller gave, 0 if none
    Policy,                          \* ConcurrencyPolicy
    RuntimeEnabled,                  \* flag p2c_agent_runtime_async
    PreemptibleCallers,
    MaxCrashes                       \* bound on the crashes explored

Start(t) == <<"start", t>>
Boot     == <<"boot", "boot">>
Starts   == {"start"} \X Task
Cancels  == {"cancel"} \X Canceller
Responds == {"respond"} \X Responder
Stops    == {"stop"} \X Stopper
Callers  == Starts \cup Cancels \cup Responds
AnyTask  == CHOOSE t \in Task : TRUE   \* for operations that name no task

ASSUME SupervisorConstants ==
    /\ Client = Runs \cup Starts \cup Cancels \cup Responds \cup Stops \cup {Boot}
    /\ Task # {}
    /\ NoTask \notin Task
    /\ ReplacesOf \in [Task -> Task \cup {NoTask}]
    /\ GivenOf \in [Task -> Nat]
    /\ RuntimeEnabled \in BOOLEAN
    /\ PreemptibleCallers \in BOOLEAN
    /\ MaxCrashes \in Nat

\* GatePolicy.global_max_tasks is an int, six unless configured
ASSUME PolicyAssumption == Policy.global_max_tasks \in Nat

VARIABLES
    decision,   \* target status the gate chose for a start
    handle,     \* task id in the AgentTaskHandle a start returned
    targets,    \* task ids a cancellation still has to treat
    subject,    \* task a cancellation, answer or recovery is treating
    confirmed,  \* tasks some cancellation confirmed to have cancelled
    todo,       \* rows startup_recovery still has to treat
    crashes,
    \* history, for the properties only
    orphans,    \* tasks that were not terminal when the process crashed
    late        \* starts let through while another admission was in flight

callVars == <<decision, handle, targets, subject, confirmed>>
bootVars == <<todo, crashes, orphans>>
supervisorVars == <<callVars, bootVars, late>>
vars == <<storeVars, runtimeVars, supervisorVars>>

CallLabel == {"idle", "read_old", "read_key", "gate", "admit", "generation",
              "create", "reread", "next", "submit", "marking", "announcing",
              "push", "consuming", "resuming", "missing", "stopping",
              "returned", "rejected", "failed", "gone"}
EndLabel  == {"returned", "rejected", "failed", "gone"}
BootLabel == {"read", "next", "marking", "logging", "sealing", "serving",
              "stuck"}

Serving == pc[Boot] = "serving"

TypeOK ==
    /\ StoreTypeOK
    /\ RuntimeTypeOK
    /\ pc \in [Client -> RunLabel \cup CallLabel \cup BootLabel]
    /\ decision \in [Task -> {"pending", "waiting_resource"}]
    /\ handle \in [Task -> Task \cup {NoTask}]
    /\ targets \in [Cancels -> SUBSET Task]
    /\ subject \in [Cancels \cup Responds \cup {Boot} -> Task \cup {NoTask}]
    /\ confirmed \subseteq Task
    /\ todo \subseteq Task
    /\ crashes \in Nat
    /\ orphans \subseteq Task
    /\ late \subseteq Task

Init ==
    /\ StoreInit
    /\ RuntimeInit
    /\ pc = [c \in Client |-> IF c = Boot THEN "read" ELSE "idle"]
    /\ decision = [t \in Task |-> "pending"]
    /\ handle = [t \in Task |-> NoTask]
    /\ targets = [c \in Cancels |-> {}]
    /\ subject = [c \in Cancels \cup Responds \cup {Boot} |-> NoTask]
    /\ confirmed = {}
    /\ todo = {}
    /\ crashes = 0
    /\ orphans = {}
    /\ late = {}

-----------------------------------------------------------------------------
(* ConcurrencyGate.check over count_for_policy. *)

Active(S)  == Cardinality({t \in S : status[t] \in ActiveStatus})
Backlog(S) == Cardinality({t \in S : status[t] = "waiting_resource"})
SameOwner(t) == {u \in Task : OwnerOf[u] = OwnerOf[t]}
SameChat(t)  == {u \in Task : ChatOf[u] = ChatOf[t]}
SameSpec(t)  == {u \in Task : SpecOf[u] = SpecOf[t]}

(* Mutant of HasRoom: off by one. *)
HasOneMore(t) ==
    /\ Active(Task) <= Policy.global_max_tasks
    /\ Active(SameOwner(t)) <= Policy.per_owner_max_tasks
    /\ Active(SameChat(t)) <= Policy.per_chat_max_tasks
    /\ Active(SameSpec(t)) <= Policy.per_spec_max_tasks[SpecOf[t]]

HasRoom(t) ==
    /\ Active(Task) < Policy.global_max_tasks
    /\ Active(SameOwner(t)) < Policy.per_owner_max_tasks
    /\ Active(SameChat(t)) < Policy.per_chat_max_tasks
    /\ Active(SameSpec(t)) < Policy.per_spec_max_tasks[SpecOf[t]]

MayQueue(t) ==
    /\ Backlog(Task) < Policy.backlog_max_global
    /\ Backlog(SameOwner(t)) < Policy.backlog_max_per_owner
    /\ Backlog(SameChat(t)) < Policy.backlog_max_per_chat

(* Starts the gate let through whose row is not inserted yet. *)
InAdmission ==
    {t \in Task : /\ pc[Start(t)] \in {"admit", "generation", "create"}
                  /\ decision[t] = "pending"}
    \cup {queue[i].task : i \in {j \in DOMAIN queue :
              queue[j].kind = "create" /\ queue[j].status = "pending"}}
-----------------------------------------------------------------------------
(* start_agent_task. *)

StartCall(t) ==
    /\ Serving
    /\ pc[Start(t)] = "idle"
    /\ Goto(Start(t), IF ReplacesOf[t] = NoTask THEN "read_key" ELSE "read_old")
    /\ UNCHANGED <<queue, reply, decision, handle, late, directory>>

(* replaces_task_id must name a terminal task. *)
ReadReplaced(t) ==
    /\ pc[Start(t)] = "read_old"
    /\ Goto(Start(t), IF status[ReplacesOf[t]] \in TerminalStatus
                      THEN "read_key" ELSE "rejected")
    /\ UNCHANGED <<queue, reply, decision, handle, late, directory>>

ReturnHandle(t, u) ==
    /\ handle' = [handle EXCEPT ![t] = u]
    /\ Goto(Start(t), "returned")

ReadKey(t) ==
    /\ pc[Start(t)] = "read_key"
    /\ \/ \E u \in RowsUnder(KeyOf[t]) : ReturnHandle(t, u)
       \/ /\ RowsUnder(KeyOf[t]) = {}
          /\ Goto(Start(t), "gate")
          /\ UNCHANGED handle
    /\ UNCHANGED <<queue, reply, decision, late, directory>>

Decide(t, s) ==
    /\ decision' = [decision EXCEPT ![t] = s]
    /\ late' = IF s = "pending" /\ InAdmission # {} THEN late \cup {t} ELSE late
    /\ Goto(Start(t), "admit")

PassGate(t) ==
    /\ pc[Start(t)] = "gate"
    /\ \/ HasRoom(t) /\ Decide(t, "pending")
       \/ ~HasRoom(t) /\ MayQueue(t) /\ Decide(t, "waiting_resource")
       \/ /\ ~HasRoom(t) /\ ~MayQueue(t)
          /\ Goto(Start(t), "rejected")
          /\ UNCHANGED <<decision, late>>
    /\ UNCHANGED <<queue, reply, handle, directory>>

(* The generation of the row: the one the caller gave, if any. *)
GenerationOf(t) == IF GivenOf[t] # 0 THEN GivenOf[t] ELSE allotted[t]

SubmitRow(t) ==
    /\ Submit(CreateOp(Start(t), t, decision[t], GenerationOf(t)))
    /\ Goto(Start(t), "create")

Admit(t) ==
    /\ pc[Start(t)] = "admit"
    /\ IF TopicOf[t] = NoTopic \/ GivenOf[t] # 0
       THEN SubmitRow(t)
       ELSE /\ Submit(MakeOp(Start(t), "generation", t))
            /\ Goto(Start(t), "generation")
    /\ UNCHANGED <<reply, decision, handle, late, directory>>

GenerationAllotted(t) ==
    /\ Wake(Start(t), "generation", "ok")
    /\ SubmitRow(t)
    /\ UNCHANGED <<decision, handle, late, directory>>

(* Inserted: the run is spawned before the handle is returned. *)
RowCreated(t) ==
    /\ Wake(Start(t), "create", "ok")
    /\ handle' = [handle EXCEPT ![t] = t]
    /\ IF decision[t] = "pending" /\ RuntimeEnabled
       THEN /\ Spawn(Run(t))
            /\ pc' = [pc EXCEPT ![Start(t)] = "returned", ![Run(t)] = "running"]
       ELSE /\ Goto(Start(t), "returned")
            /\ UNCHANGED <<queue, directory>>
    /\ UNCHANGED <<decision, late>>

RowRefused(t) ==
    /\ Wake(Start(t), "create", "error")
    /\ Goto(Start(t), "reread")
    /\ UNCHANGED <<queue, decision, handle, late, directory>>

(* DuplicateTaskError: the row that took the key is the answer. *)
Reread(t) ==
    /\ pc[Start(t)] = "reread"
    /\ \E u \in RowsUnder(KeyOf[t]) : ReturnHandle(t, u)
    /\ UNCHANGED <<queue, reply, decision, late, directory>>

StartResumes(t) == GenerationAllotted(t) \/ RowCreated(t) \/ RowRefused(t)
StartSteps(t) ==
    \/ StartCall(t) \/ ReadReplaced(t) \/ ReadKey(t) \/ PassGate(t)
    \/ Admit(t) \/ Reread(t)

StartStep(t) ==
    /\ StartResumes(t) \/ (Quiet /\ StartSteps(t))
    /\ UNCHANGED <<tables, allotted, runLocals, reports, targets, subject,
                   confirmed, bootVars>>

-----------------------------------------------------------------------------
(* cancel_agent_task.  The list of a scope is read once; semantic_match     *)
(* gives at most one task, and none when the match is ambiguous.           *)

Unfinished(S) == {t \in S : status[t] \in RecoverableStatus}

CancelCall(c) ==
    /\ Serving
    /\ pc[c] = "idle"
    /\ \E list \in {{t} : t \in Task}
                   \cup {Unfinished({u \in Task : ChatOf[u] = ChatOf[t]}) : t \in Task}
                   \cup {Unfinished({u \in Task : OwnerOf[u] = OwnerOf[t]}) : t \in Task}
                   \cup {{}} :
          targets' = [targets EXCEPT ![c] = list]
    /\ Goto(c, "next")
    /\ UNCHANGED <<queue, reply, subject, confirmed, tokenSet, reports>>

CancelRead(c) ==
    /\ pc[c] = "next"
    /\ \E t \in targets[c] :
          /\ targets' = [targets EXCEPT ![c] = @ \ {t}]
          /\ IF status[t] \in TerminalStatus \cup {"absent"}
             THEN UNCHANGED <<pc, subject>>
             ELSE /\ subject' = [subject EXCEPT ![c] = t]
                  /\ Goto(c, "submit")
    /\ UNCHANGED <<queue, reply, confirmed, tokenSet, reports>>

CancelSubmit(c) ==
    /\ pc[c] = "submit"
    /\ Submit(StatusOp(c, subject[c], "cancelled"))
    /\ Goto(c, "marking")
    /\ UNCHANGED <<reply, targets, subject, confirmed, tokenSet, reports>>

(* Mutant of CancelMarked: the row is marked, the run is left alone. *)
CancelMarksOnly(c) ==
    /\ Wake(c, "marking", "ok")
    /\ Submit(EventOp(c, subject[c], "cancelled", "999998"))
    /\ Goto(c, "announcing")
    /\ UNCHANGED <<targets, subject, confirmed, tokenSet, reports>>

(* The row says cancelled: the token is set, the run is interrupted at its *)
(* await (the write it may wait for stays queued), and emit begins.        *)
CancelMarked(c) ==
    LET t == subject[c]
        event == EventOp(c, t, "cancelled", "999998")
    IN
    /\ pc[c] = "marking"
    /\ reply[c] = "ok"
    /\ tokenSet' = IF token[t] = "none" THEN tokenSet
                   ELSE tokenSet \cup {<<token[t], t>>}
    /\ IF registered[t] = "none"
       THEN /\ reply' = [reply EXCEPT ![c] = "none"]
            /\ Submit(event)
       ELSE LET r == <<registered[t], t>> IN
            /\ reply' = [reply EXCEPT ![c] = "none", ![r] = "cancelled"]
            /\ queue' = Append(Disowned(r), event)
    /\ Goto(c, "announcing")
    /\ UNCHANGED <<targets, subject, confirmed, reports>>

CancelLogged(c) ==
    /\ Wake(c, "announcing", "ok")
    /\ Goto(c, "push")
    /\ UNCHANGED <<queue, targets, subject, confirmed, tokenSet, reports>>

(* A second cancellation of one task reuses its event id: emit raises and  *)
(* the targets that are left are not treated.                              *)
CancelFails(c) ==
    /\ Wake(c, "announcing", "error")
    /\ Goto(c, "failed")
    /\ UNCHANGED <<queue, targets, subject, confirmed, tokenSet, reports>>

CancelPush(c) ==
    /\ pc[c] = "push"
    /\ Push(subject[c], "cancelled")
    /\ confirmed' = confirmed \cup {subject[c]}
    /\ Goto(c, "next")
    /\ UNCHANGED <<queue, reply, targets, subject, tokenSet>>

CancelReturn(c) ==
    /\ pc[c] = "next"
    /\ targets[c] = {}
    /\ Goto(c, "returned")
    /\ UNCHANGED <<queue, reply, targets, subject, confirmed, tokenSet, reports>>

CancelResumes(c) == CancelMarked(c) \/ CancelLogged(c) \/ CancelFails(c)
CancelSteps(c) ==
    CancelCall(c) \/ CancelRead(c) \/ CancelSubmit(c) \/ CancelPush(c) \/ CancelReturn(c)

CancelStep(c) ==
    /\ CancelResumes(c) \/ (Quiet /\ CancelSteps(c))
    /\ UNCHANGED <<tables, allotted, outcome, emitting, directory, decision,
                   handle, bootVars, late>>

-----------------------------------------------------------------------------
(* respond_to_agent_input. *)

RespondRead(p) ==
    /\ Serving
    /\ pc[p] = "idle"
    /\ \E t \in Task :
          IF status[t] = "waiting_input"
          THEN Goto(p, "submit") /\ subject' = [subject EXCEPT ![p] = t]
          ELSE Goto(p, "rejected") /\ UNCHANGED subject
    /\ UNCHANGED <<queue, reply, directory>>

RespondConsume(p) ==
    /\ pc[p] = "submit"
    /\ Submit(MakeOp(p, "consume", subject[p]))
    /\ Goto(p, "consuming")
    /\ UNCHANGED <<reply, subject, directory>>

RespondConsumed(p) ==
    /\ Wake(p, "consuming", "ok")
    /\ Submit(StatusOp(p, subject[p], "resuming"))
    /\ Goto(p, "resuming")
    /\ UNCHANGED <<subject, directory>>

RespondMissing(p) ==
    /\ Wake(p, "consuming", "none_found")
    /\ Submit(StatusOp(p, subject[p], "failed"))
    /\ Goto(p, "missing")
    /\ UNCHANGED <<subject, directory>>

RespondRejected(p) ==
    /\ Wake(p, "missing", "ok")
    /\ Goto(p, "rejected")
    /\ UNCHANGED <<queue, subject, directory>>

RespondResuming(p) ==
    /\ Wake(p, "resuming", "ok")
    /\ Goto(p, IF RuntimeEnabled THEN "reread" ELSE "returned")
    /\ UNCHANGED <<queue, subject, directory>>

(* The row is read again and a run is spawned, whatever its status is now. *)
RespondSpawn(p) ==
    /\ pc[p] = "reread"
    /\ Spawn(Resume(subject[p]))
    /\ pc' = [pc EXCEPT ![p] = "returned", ![Resume(subject[p])] = "running"]
    /\ UNCHANGED <<reply, subject>>

RespondResumes(p) ==
    RespondConsumed(p) \/ RespondMissing(p) \/ RespondRejected(p) \/ RespondResuming(p)
RespondSteps(p) == RespondRead(p) \/ RespondConsume(p) \/ RespondSpawn(p)

RespondStep(p) ==
    /\ RespondResumes(p) \/ (Quiet /\ RespondSteps(p))
    /\ UNCHANGED <<tables, allotted, runLocals, reports, decision, handle,
                   targets, confirmed, bootVars, late>>

-----------------------------------------------------------------------------
(* The main loop's stop marker: one store operation on the whole prefix. *)

StopSubmit(s) ==
    /\ Serving
    /\ Quiet
    /\ pc[s] = "idle"
    /\ Submit(MakeOp(s, "stop", AnyTask))
    /\ Goto(s, "stopping")
    /\ UNCHANGED reply

StopReturn(s) ==
    /\ Wake(s, "stopping", "ok")
    /\ Goto(s, "returned")
    /\ UNCHANGED queue

StopStep(s) ==
    /\ StopSubmit(s) \/ StopReturn(s)
    /\ UNCHANGED <<tables, allotted, runLocals, directory, reports,
                   supervisorVars>>

-----------------------------------------------------------------------------
(* A caller is cancelled at the await it is suspended at. *)

CallerCancelled(c) ==
    /\ PreemptibleCallers
    /\ Quiet
    /\ pc[c] \notin EndLabel \cup {"idle"}
    /\ Goto(c, "gone")
    /\ queue' = Disowned(c)
    /\ UNCHANGED <<tables, reply, allotted, runLocals, directory, reports,
                   supervisorVars>>

-----------------------------------------------------------------------------
(* startup_recovery, and a crash at any moment. *)

(* Mutant of RecoverableRows: only tasks that were running. *)
ActiveRows == TasksIn(ActiveStatus)

RecoverableRows == TasksIn(RecoverableStatus)

BootRead ==
    /\ pc[Boot] = "read"
    /\ todo' = RecoverableRows
    /\ Goto(Boot, "next")
    /\ UNCHANGED <<queue, reply, subject>>

BootMark ==
    /\ pc[Boot] = "next"
    /\ \E t \in todo :
          /\ subject' = [subject EXCEPT ![Boot] = t]
          /\ Submit(StatusOp(Boot, t, "failed"))
    /\ Goto(Boot, "marking")
    /\ UNCHANGED <<reply, todo>>

BootMarked ==
    /\ Wake(Boot, "marking", "ok")
    /\ Submit(EventOp(Boot, subject[Boot], "failed", "recovery"))
    /\ Goto(Boot, "logging")
    /\ UNCHANGED <<subject, todo>>

(* Logged; or append_event raised, and startup fails with it. *)
BootLogged ==
    /\ \E result \in {"ok", "error"} :
          /\ Wake(Boot, "logging", result)
          /\ Goto(Boot, IF result = "ok" THEN "next" ELSE "stuck")
    /\ todo' = todo \ {subject[Boot]}
    /\ UNCHANGED <<queue, subject>>

BootSeal ==
    /\ pc[Boot] = "next"
    /\ todo = {}
    /\ Submit(MakeOp(Boot, "lifecycle", AnyTask))
    /\ Goto(Boot, "sealing")
    /\ UNCHANGED <<reply, subject, todo>>

BootServe ==
    /\ Wake(Boot, "sealing", "ok")
    /\ Goto(Boot, "serving")
    /\ UNCHANGED <<queue, subject, todo>>

BootStep ==
    /\ \/ BootMarked \/ BootLogged \/ BootServe
       \/ Quiet /\ (BootRead \/ BootMark \/ BootSeal)
    /\ UNCHANGED <<tables, allotted, runLocals, directory, reports, decision,
                   handle, targets, confirmed, crashes, orphans, late>>

(* Everything in memory is lost; what is committed stays. *)
Crash ==
    /\ crashes < MaxCrashes
    /\ crashes' = crashes + 1
    /\ orphans' = orphans \cup {t \in Task : Row(t) /\ status[t] \notin TerminalStatus}
    /\ pc' = [c \in Client |->
                  CASE c = Boot      -> "read"
                    [] c \in Runs    -> IF pc[c] = "idle" THEN "idle" ELSE "ended"
                    [] OTHER         -> IF pc[c] \in EndLabel \cup {"idle"}
                                        THEN pc[c] ELSE "gone"]
    /\ queue' = <<>>
    /\ reply' = [c \in Client |-> "none"]
    /\ tokenSet' = {}
    /\ registered' = [t \in Task |-> "none"]
    /\ token' = [t \in Task |-> "none"]
    /\ todo' = {}
    /\ UNCHANGED <<tables, allotted, outcome, emitting, reports, callVars, late>>

-----------------------------------------------------------------------------
(* Nothing is left to do: every call ended or was never made. *)
AllSettled ==
    /\ Serving
    /\ queue = <<>>
    /\ Quiet
    /\ \A r \in Runs : ~Live(r)
    /\ \A c \in Callers \cup Stops : pc[c] \in EndLabel
    /\ UNCHANGED vars

WriterTurn == WriterStep /\ UNCHANGED <<runtimeVars, supervisorVars>>
RunStep(r) == (ResumeRun(r) \/ StepRun(r)) /\ UNCHANGED supervisorVars

Next ==
    \/ WriterTurn
    \/ \E r \in Runs : RunStep(r)
    \/ \E t \in Task : StartStep(t)
    \/ \E c \in Cancels : CancelStep(c)
    \/ \E p \in Responds : RespondStep(p)
    \/ \E s \in Stops : StopStep(s)
    \/ \E c \in Callers : CallerCancelled(c)
    \/ BootStep
    \/ Crash
    \/ AllSettled

Spec == Init /\ [][Next]_vars

(* Callbacks and queued writes are served by the event loop.  Nothing      *)
(* bounds execute(): a tool call has no timeout and a resident operator    *)
(* waits for its owner, so a run that executes may do so for ever.  No     *)
(* fairness for a call being made, for a cancellation or for a crash.      *)
Proceeds(r) == (pc[r] # "executing" \/ reply[r] = "cancelled") /\ RunStep(r)

Fairness ==
    /\ WF_vars(WriterTurn)
    /\ WF_vars(BootStep)
    /\ \A r \in Runs : WF_vars(Proceeds(r))
    /\ \A t \in Task : WF_vars(pc[Start(t)] # "idle" /\ StartStep(t))
    /\ \A c \in Cancels : WF_vars(pc[c] # "idle" /\ CancelStep(c))
    /\ \A p \in Responds : WF_vars(pc[p] # "idle" /\ RespondStep(p))

FairSpec == Spec /\ Fairness

-----------------------------------------------------------------------------
(* Properties. *)

(* T-INV-18: starts under one idempotency key (a retried tool call, a      *)
(* repeated turn) are all answered with one task, over preempted callers   *)
(* whose insert is still queued, racing inserts and crashes.               *)
ClaimOf(k) == IF RowsUnder(k) = {} THEN NoTask ELSE CHOOSE t \in RowsUnder(k) : TRUE
Idempotent == INSTANCE IdempotentStart WITH
    claim <- [k \in Key |-> ClaimOf(k)],
    given <- handle
RefinesIdempotentStart == Idempotent!Spec

(* T-INV-13: once the program serves, every task a crash caught unfinished *)
(* is failed and stays so, also when recovery itself was interrupted; and  *)
(* recovery never trips over an event id it wrote before.                  *)
OrphansStayFailed ==
    /\ Serving => \A t \in orphans : status[t] = "failed"
    /\ pc[Boot] # "stuck"

(* The gate counts, and the row is inserted several awaits later.  Only a  *)
(* start let through while another admission was in flight, or an answered *)
(* task that comes back without passing the gate, can exceed the limit.    *)
PassedAlone(t) == t \notin late /\ status[t] # "resuming" /\ pc[Resume(t)] = "idle"
LimitHoldsWithoutRaces ==
    Active({t \in Task : PassedAlone(t)}) <= Policy.global_max_tasks

(* Two tasks of a topic whose generations were allotted never share one,   *)
(* and a stop marker suppresses no generation that is not allotted yet, so *)
(* that a task started after the stop is heard: unless a caller gave a     *)
(* generation that is as high, which the row takes unchecked.              *)
Draws(t) == TopicOf[t] # NoTopic /\ GivenOf[t] = 0
GivenAbove(k, g) == \E t \in Task : Row(t) /\ TopicOf[t] = k /\ g \in 1 .. GivenOf[t]
StopSparesLaterStarts ==
    /\ \A t, u \in Task :
          t # u /\ Row(t) /\ Row(u) /\ TopicOf[t] = TopicOf[u] /\ Draws(t) /\ Draws(u)
             => rowGeneration[t] # rowGeneration[u]
    /\ \A k \in Topic : \A g \in suppressed[k] :
          g \in 1 .. generation[k] \/ GivenAbove(k, g)

(* While nobody answers its question, no late write of a run brings an     *)
(* ended task back to an active status: append_event and update_status     *)
(* overwrite what they find, so only the order of the queue keeps this.    *)
Unanswered(t) == \A p \in Responds : subject[p] # t
EndedStaysEnded ==
    [][\A t \in Task : status[t] \in TerminalStatus /\ Unanswered(t)
                          => status'[t] \notin ActiveStatus]_vars

(* A cancellation that was confirmed to its caller is what the row says,   *)
(* whatever the interrupted run had already queued, unless the task was    *)
(* being answered meanwhile.                                               *)
ConfirmedCancelSticks ==
    \A t \in confirmed : Unanswered(t) => status[t] = "cancelled"

(* A row that counts against the quota has a run that will end it.  The    *)
(* exceptions are a start preempted between the insert and the spawn, an   *)
(* answered task, and a run whose agent could not be built for a reason    *)
(* run() does not catch.                                                   *)
Attended(t) == Live(Run(t)) \/ pc[Start(t)] \in {"create", "gone"}
Uncaught(r) == outcome[r] = "uncaught"
ActiveRowHasRun ==
    Serving => \A t \in Task :
        status[t] \in ActiveStatus /\ Unanswered(t)
            => Attended(t) \/ Uncaught(Run(t))

(* A task that waits for input can be answered: its checkpoint is there.   *)
(* The question is saved before it is announced, and the announcement,     *)
(* which sets the status again, is queued before any answer can be.        *)
WaitingHasCheckpoint ==
    \A t \in Task : status[t] = "waiting_input" => checkpoint[t]

(* One answer per question: of two callers that saw the task waiting, only *)
(* the one that consumed the checkpoint is told it was accepted.           *)
AcceptedBy(t) ==
    {p \in Responds : subject[p] = t /\ pc[p] \in {"resuming", "reread", "returned"}}
OneAnswerAccepted == \A t \in Task : Cardinality(AcceptedBy(t)) <= 1

(* While nobody cancels, the main loop is told of a task's end once: the   *)
(* agent reports it and the runtime, which reports it too, looks at the    *)
(* row first.  Only an exhausted budget is told twice, because its notice  *)
(* leaves the row open: as itself, then as the completion the runtime adds.*)
OneTerminalReport ==
    \A t \in Task : \/ Len(reports[t]) <= 1
                     \/ reports[t] = <<"budget_exhausted", "completed">>

(* A task that was handed out with a run ends or asks, if nobody answers:  *)
(* no path through the runtime leaves the row active, but for the agent    *)
(* that never comes back and the one that could not be built.              *)
HandedOutTaskSettles ==
    \A t \in Task :
        \/ <>[](pc[Run(t)] = "executing")
        \/ (handle[t] = t /\ decision[t] = "pending")
               ~> (\/ status[t] \in TerminalStatus \cup {"waiting_input"}
                   \/ Uncaught(Run(t)))

(* T-INV-7, "AGENT_NEEDS_INPUT checkpoints and resumes": an answered task  *)
(* runs to an end or to another question, unless its agent executes for    *)
(* ever or could not be built.                                             *)
AnsweredTaskSettles ==
    \A t \in Task :
        \/ <>[](pc[Resume(t)] = "executing")
        \/ status[t] = "resuming"
               ~> (\/ status[t] \in TerminalStatus \cup {"waiting_input"}
                   \/ Uncaught(Resume(t)))
=============================================================================
