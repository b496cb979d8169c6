------------------------ MODULE TaskSupervisorProofs ------------------------
(* Theorems about TaskSupervisor, for every value of its constants. *)
EXTENDS TaskSupervisor, TLAPS

(* What the callers know about the task they are treating, and what the    *)
(* store knows about an operation it has queued: TypeOK is not inductive   *)
(* without it.                                                             *)
SubjectKnown ==
    /\ \A c \in Cancels :
          pc[c] \in {"submit", "marking", "announcing", "push"} => subject[c] \in Task
    /\ \A p \in Responds :
          pc[p] \in {"submit", "consuming", "resuming", "missing", "reread"}
             => subject[p] \in Task
    /\ pc[Boot] \in {"marking", "logging"} => subject[Boot] \in Task

HasTopic(op) == op.kind = "generation" => TopicOf[op.task] # NoTopic
GenerationHasTopic == \A i \in 1 .. Len(queue) : HasTopic(queue[i])

TypeInv == TypeOK /\ SubjectKnown /\ GenerationHasTopic

-----------------------------------------------------------------------------
(* The clients of the store: who they are, and that no two kinds overlap. *)
LEMMA ClientKinds ==
    /\ \A r \in Runs : r[1] \in {"run", "resume"} /\ r[2] \in Task /\ r = <<r[1], r[2]>>
    /\ \A t \in Task : Start(t)[1] = "start" /\ Start(t)[2] = t
    /\ \A c \in Starts : c[1] = "start" /\ c[2] \in Task /\ c = Start(c[2])
    /\ \A c \in Cancels : c[1] = "cancel"
    /\ \A c \in Responds : c[1] = "respond"
    /\ \A c \in Stops : c[1] = "stop"
    /\ Boot[1] = "boot"
  BY DEF Runs, Starts, Start, Cancels, Responds, Stops, Boot

LEMMA ClientMembers ==
    /\ Runs \subseteq Client /\ Starts \subseteq Client /\ Cancels \subseteq Client
    /\ Responds \subseteq Client /\ Stops \subseteq Client /\ Boot \in Client
    /\ \A t \in Task : Start(t) \in Client /\ Start(t) \in Starts
    /\ \A t \in Task : Run(t) \in Runs /\ Resume(t) \in Runs
    /\ \A t \in Task, k \in {"run", "resume"} : <<k, t>> \in Runs
    /\ \A r \in Runs : TaskOf(r) \in Task
    /\ AnyTask \in Task
  BY SupervisorConstants DEF Runs, Starts, Start, Run, Resume, TaskOf, AnyTask

(* Which clients are which, and the two runs of a task.                    *)
LEMMA ClientsApart ==
    /\ \A r \in Runs : /\ r \in Client /\ TaskOf(r) \in Task
                       /\ r = Run(TaskOf(r)) \/ r = Resume(TaskOf(r))
                       /\ r \notin Starts \cup Cancels \cup Responds \cup Stops \cup {Boot}
    /\ \A t \in Task : /\ Run(t) \in Runs /\ Resume(t) \in Runs /\ Run(t) # Resume(t)
                       /\ TaskOf(Run(t)) = t /\ TaskOf(Resume(t)) = t
                       /\ Start(t) \in Starts /\ Start(t) \in Client
                       /\ \A u \in Task : /\ Run(t) = Run(u) => t = u
                                          /\ Resume(t) = Resume(u) => t = u
                                          /\ Start(t) = Start(u) => t = u
                                          /\ Run(t) # Resume(u)
    /\ \A c \in Starts : c \notin Cancels \cup Responds \cup Stops \cup {Boot}
    /\ \A p \in Responds : /\ p \in Client
                           /\ p \notin Starts \cup Cancels \cup Stops \cup {Boot} \cup Runs
    /\ \A c \in Cancels \cup Stops \cup {Boot} :
          c \in Client /\ c \notin Starts \cup Responds \cup Runs
    /\ Nobody \notin Client
<1>1. /\ \A t, u \in Task : /\ Run(t) = Run(u) => t = u
                            /\ Resume(t) = Resume(u) => t = u
                            /\ Start(t) = Start(u) => t = u
                            /\ Run(t) # Resume(u)
      /\ \A t \in Task : TaskOf(Run(t)) = t /\ TaskOf(Resume(t)) = t
      /\ \A r \in Runs : r = Run(TaskOf(r)) \/ r = Resume(TaskOf(r))
  BY ClientKinds DEF Run, Resume, Start, TaskOf
<1>2. /\ \A r \in Runs : r \notin Starts \cup Cancels \cup Responds \cup Stops \cup {Boot}
      /\ \A c \in Starts : c \notin Cancels \cup Responds \cup Stops \cup {Boot}
      /\ \A p \in Responds : p \notin Starts \cup Cancels \cup Stops \cup {Boot} \cup Runs
      /\ \A c \in Cancels \cup Stops \cup {Boot} : c \notin Starts \cup Responds \cup Runs
  BY ClientKinds
<1>3. QED
  BY <1>1, <1>2, ClientMembers, StoreConstants

LEMMA OpTyped ==
    ASSUME NEW c \in Client \cup {Nobody}, NEW t \in Task
    PROVE  /\ \A k \in OpKind :
                 /\ MakeOp(c, k, t) \in Op
                 /\ MakeOp(c, k, t).kind = k /\ MakeOp(c, k, t).by = c
           /\ \A s \in Status, g \in Nat :
                 /\ CreateOp(c, t, s, g) \in Op /\ CreateOp(c, t, s, g).kind = "create"
                 /\ CreateOp(c, t, s, g).by = c /\ CreateOp(c, t, s, g).task = t
           /\ \A s \in Status :
                 /\ StatusOp(c, t, s) \in Op /\ StatusOp(c, t, s).kind = "status"
                 /\ StatusOp(c, t, s).by = c
           /\ \A type \in EventType, i \in EventId :
                 /\ EventOp(c, t, type, i) \in Op /\ EventOp(c, t, type, i).kind = "event"
                 /\ EventOp(c, t, type, i).by = c
<1>1. /\ "pending" \in Status /\ "progress" \in EventType /\ "own" \in EventId
      /\ {"create", "status", "event"} \subseteq OpKind
  BY DEF Status, RecoverableStatus, ActiveStatus, EventType, EventId, OpKind
<1>2. ASSUME NEW k \in OpKind
      PROVE  /\ MakeOp(c, k, t) \in Op
             /\ MakeOp(c, k, t).kind = k /\ MakeOp(c, k, t).by = c
  BY <1>1 DEF MakeOp, Op
<1>3. ASSUME NEW s \in Status, NEW g \in Nat
      PROVE  /\ CreateOp(c, t, s, g) \in Op /\ CreateOp(c, t, s, g).kind = "create"
             /\ CreateOp(c, t, s, g).by = c /\ CreateOp(c, t, s, g).task = t
  BY <1>1 DEF CreateOp, MakeOp, Op
<1>4. ASSUME NEW s \in Status
      PROVE  /\ StatusOp(c, t, s) \in Op /\ StatusOp(c, t, s).kind = "status"
             /\ StatusOp(c, t, s).by = c
  BY <1>1 DEF StatusOp, MakeOp, Op
<1>5. ASSUME NEW type \in EventType, NEW i \in EventId
      PROVE  /\ EventOp(c, t, type, i) \in Op /\ EventOp(c, t, type, i).kind = "event"
             /\ EventOp(c, t, type, i).by = c
  BY <1>1 DEF EventOp, MakeOp, Op
<1>6. QED
  BY <1>2, <1>3, <1>4, <1>5

LEMMA MarkedTyped ==
    ASSUME status \in [Task -> Status \cup {"absent"}], NEW t \in Task, NEW s \in Status
    PROVE  Marked(t, s) \in [Task -> Status \cup {"absent"}]
BY DEF Marked

(* What an event makes of a row's status is a status again; it does not     *)
(* matter what it makes of a missing row.                                  *)
LEMMA AppendTyped ==
    ASSUME TypeInv, NEW op \in Op, AppendEvent(op)
    PROVE  status' \in [Task -> Status \cup {"absent"}] /\ events' \subseteq Task \X EventId
<1>1. /\ op.task \in Task /\ op.id \in EventId
      /\ status \in [Task -> Status \cup {"absent"}] /\ events \subseteq Task \X EventId
  BY DEF Op, TypeInv, TypeOK, StoreTypeOK
<1>2. events' \subseteq Task \X EventId
  BY <1>1 DEF AppendEvent
<1>3. EventStatus(op.type, status[op.task]) \in Status \cup {status[op.task]}
  BY DEF EventStatus, Status, RecoverableStatus, ActiveStatus, TerminalStatus
<1>4. CASE EventStatus(op.type, status[op.task]) \in Status
  BY <1>1, <1>2, <1>4, MarkedTyped DEF AppendEvent
<1>5. CASE EventStatus(op.type, status[op.task]) = status[op.task]
  BY <1>1, <1>2, <1>5 DEF AppendEvent, Marked
<1>6. QED
  BY <1>3, <1>4, <1>5

LEMMA WriterTyped ==
    ASSUME TypeInv, WriterTurn
    PROVE  TypeInv'
<1> DEFINE op == Head(queue)
<1>1. op \in Op /\ queue # <<>> /\ queue' = Tail(queue) /\ Apply(op)
  BY DEF TypeInv, TypeOK, StoreTypeOK, WriterTurn, WriterStep
<1>2. (op.kind = "generation" => TopicOf[op.task] \in Topic) /\ op.task \in Task
  BY <1>1, StoreConstants DEF TypeInv, TypeOK, StoreTypeOK, GenerationHasTopic, HasTopic, Op
<1>3. GenerationHasTopic' /\ queue' \in Seq(Op)
  BY <1>1 DEF TypeInv, TypeOK, StoreTypeOK, GenerationHasTopic, HasTopic
<1>4. reply' \in [Client -> Reply]
  BY <1>1
     DEF TypeInv, TypeOK, StoreTypeOK, Apply, Answer, InsertTask, RefuseDuplicate,
         UpdateStatus, AppendEvent, RefuseEvent, SaveCheckpoint, ConsumeCheckpoint,
         MissCheckpoint, NextGeneration, StopTopicPrefix, LifecycleLog, Op, Reply
<1>5. StoreTypeOK'
  <2> USE <1>1, <1>2, <1>3, <1>4
  <2> HIDE DEF op
  <2>1. CASE InsertTask(op)
    BY <2>1 DEF TypeInv, TypeOK, StoreTypeOK, InsertTask, Op
  <2>2. CASE RefuseDuplicate(op)
    BY <2>2 DEF TypeInv, TypeOK, StoreTypeOK, RefuseDuplicate, tables
  <2>3. CASE UpdateStatus(op)
    BY <2>3, MarkedTyped DEF TypeInv, TypeOK, StoreTypeOK, UpdateStatus, Op
  <2>4. CASE AppendEvent(op)
    BY <2>4, AppendTyped DEF TypeInv, TypeOK, StoreTypeOK, AppendEvent
  <2>5. CASE RefuseEvent(op)
    BY <2>5 DEF TypeInv, TypeOK, StoreTypeOK, RefuseEvent, tables
  <2>6. CASE SaveCheckpoint(op)
    BY <2>6, MarkedTyped
       DEF TypeInv, TypeOK, StoreTypeOK, SaveCheckpoint, Op, Status, RecoverableStatus
  <2>7. CASE ConsumeCheckpoint(op)
    BY <2>7, MarkedTyped
       DEF TypeInv, TypeOK, StoreTypeOK, ConsumeCheckpoint, Op, Status, RecoverableStatus,
           ActiveStatus
  <2>8. CASE MissCheckpoint(op)
    BY <2>8 DEF TypeInv, TypeOK, StoreTypeOK, MissCheckpoint, tables
  <2>9. CASE NextGeneration(op)
    BY <2>9 DEF TypeInv, TypeOK, StoreTypeOK, NextGeneration
  <2>10. CASE StopTopicPrefix(op)
    BY <2>10 DEF TypeInv, TypeOK, StoreTypeOK, StopTopicPrefix
  <2>11. CASE LifecycleLog(op)
    BY <2>11 DEF TypeInv, TypeOK, StoreTypeOK, LifecycleLog, tables
  <2> QED
    BY <2>1, <2>2, <2>3, <2>4, <2>5, <2>6, <2>7, <2>8, <2>9, <2>10, <2>11 DEF Apply
<1>6. UNCHANGED <<runtimeVars, supervisorVars>>
  BY DEF WriterTurn
<1>7. QED
  BY <1>3, <1>5, <1>6 DEF TypeInv, TypeOK, RuntimeTypeOK, SubjectKnown, runtimeVars,
     supervisorVars, callVars, bootVars

-----------------------------------------------------------------------------
(* A step of a run: it moves its own program counter only, and appends at  *)
(* most one operation, which neither allots a generation nor inserts a row.*)
LEMMA QueueSteps ==
    ASSUME NEW q \in Seq(Op), \A i \in 1 .. Len(q) : HasTopic(q[i]),
           NEW op \in Op, HasTopic(op)
    PROVE  /\ Append(q, op) \in Seq(Op)
           /\ \A i \in 1 .. Len(Append(q, op)) : HasTopic(Append(q, op)[i])
  BY DEF HasTopic

(* The operations of a caller that is gone lose their waiter, nothing else. *)
LEMMA DisownedKeeps ==
    ASSUME queue \in Seq(Op), NEW c \in Client
    PROVE  /\ Disowned(c) \in Seq(Op) /\ Len(Disowned(c)) = Len(queue)
           /\ \A i \in 1 .. Len(queue) :
                 /\ Disowned(c)[i].kind = queue[i].kind
                 /\ Disowned(c)[i].task = queue[i].task
                 /\ Disowned(c)[i].gen = queue[i].gen
                 /\ Disowned(c)[i].id = queue[i].id
                 /\ Disowned(c)[i].by # c
                 /\ queue[i].by # c => Disowned(c)[i].by = queue[i].by
                 /\ Disowned(c)[i].by # Nobody => Disowned(c)[i] = queue[i]
<1> DEFINE n == Len(queue)
<1>1. n \in Nat /\ DOMAIN queue = 1 .. n /\ \A i \in 1 .. n : queue[i] \in Op
  OBVIOUS
<1>2. \A i \in 1 .. n : [queue[i] EXCEPT !.by = Nobody] \in Op
  BY <1>1 DEF Op
<1>3. Disowned(c) \in [1 .. n -> Op]
  BY <1>1, <1>2 DEF Disowned
<1>4. \A i \in 1 .. n :
          /\ Disowned(c)[i].kind = queue[i].kind
          /\ Disowned(c)[i].task = queue[i].task
          /\ Disowned(c)[i].gen = queue[i].gen
          /\ Disowned(c)[i].id = queue[i].id
          /\ Disowned(c)[i].by # c
          /\ queue[i].by # c => Disowned(c)[i].by = queue[i].by
          /\ Disowned(c)[i].by # Nobody => Disowned(c)[i] = queue[i]
  BY <1>1, StoreConstants DEF Disowned, Op
<1>5. Disowned(c) \in Seq(Op) /\ Len(Disowned(c)) = n
  <2> HIDE DEF n
  <2> QED
    BY <1>1, <1>3
<1>6. QED
  BY <1>4, <1>5

LEMMA DisownedTyped ==
    ASSUME queue \in Seq(Op), GenerationHasTopic, NEW c \in Client
    PROVE  /\ Disowned(c) \in Seq(Op)
           /\ \A i \in 1 .. Len(Disowned(c)) : HasTopic(Disowned(c)[i])
  BY DisownedKeeps DEF HasTopic, GenerationHasTopic

(* The operations only a start submits. *)
StartOp(op) == op.kind \in {"generation", "create"}

(* What any other client does to the queue and to the futures in one step, *)
(* unless it interrupts a run.                                             *)
Grows(c) ==
    \/ UNCHANGED queue
    \/ \E op \in Op : op.by = c /\ ~StartOp(op) /\ Submit(op)
Consumes(c) == reply' = reply \/ reply' = [reply EXCEPT ![c] = "none"]

LEMMA Exchanged ==
    ASSUME TypeInv, NEW c \in Client, NEW d \in Client, Grows(c), Consumes(d)
    PROVE  queue' \in Seq(Op) /\ GenerationHasTopic' /\ reply' \in [Client -> Reply]
<1>1. queue \in Seq(Op) /\ reply \in [Client -> Reply] /\ GenerationHasTopic
  BY DEF TypeInv, TypeOK, StoreTypeOK
<1>2. reply' \in [Client -> Reply]
  BY <1>1 DEF Consumes, Reply
<1>3. CASE UNCHANGED queue
  BY <1>1, <1>2, <1>3 DEF GenerationHasTopic
<1>4. ASSUME NEW op \in Op, ~StartOp(op), Submit(op)
      PROVE  queue' \in Seq(Op) /\ GenerationHasTopic'
  BY <1>1, <1>4, QueueSteps DEF GenerationHasTopic, HasTopic, Submit, StartOp
<1>5. QED
  BY <1>2, <1>3, <1>4 DEF Grows, StartOp

(* What a step of run r may change, and to what. *)
RunMoves(r) ==
    /\ Grows(r) /\ Consumes(r)
    /\ \E label \in RunLabel : pc' = [pc EXCEPT ![r] = label]
    /\ outcome' \in [Runs -> Outcome]
    /\ emitting' \in [Runs -> EventType]
    /\ tokenSet' = tokenSet
    /\ registered' \in [Task -> {"none", "run", "resume"}]
    /\ token' = token
    /\ reports' \in [Task -> Seq(ResultType)]

LEMMA PushTyped ==
    ASSUME reports \in [Task -> Seq(ResultType)], NEW t \in Task, NEW type, Push(t, type)
    PROVE  reports' \in [Task -> Seq(ResultType)]
<1>1. CASE UNCHANGED reports
  BY <1>1
<1>2. CASE type \in ResultType /\ reports' = [reports EXCEPT ![t] = Append(@, type)]
  <2>1. Append(reports[t], type) \in Seq(ResultType)
    BY <1>2
  <2>2. QED
    BY <1>2, <2>1
<1>3. QED
  BY <1>1, <1>2 DEF Push

LEMMA RunTypes ==
    ASSUME TypeInv, NEW r \in Runs, ResumeRun(r) \/ StepRun(r)
    PROVE  RunMoves(r)
<1>1. /\ r \in Client /\ TaskOf(r) \in Task
      /\ outcome \in [Runs -> Outcome] /\ emitting \in [Runs -> EventType]
      /\ registered \in [Task -> {"none", "run", "resume"}]
      /\ reports \in [Task -> Seq(ResultType)]
  BY ClientMembers DEF TypeInv, TypeOK, StoreTypeOK, RuntimeTypeOK
<1>2. /\ \A type \in EventType, i \in EventId :
             /\ EventOp(r, TaskOf(r), type, i) \in Op
             /\ EventOp(r, TaskOf(r), type, i).kind = "event"
             /\ EventOp(r, TaskOf(r), type, i).by = r
      /\ MakeOp(r, "checkpoint", TaskOf(r)) \in Op
      /\ MakeOp(r, "checkpoint", TaskOf(r)).kind = "checkpoint"
      /\ MakeOp(r, "checkpoint", TaskOf(r)).by = r
  BY <1>1, OpTyped DEF OpKind
<1>3. ASSUME NEW type \in EventType, NEW i \in EventId, NEW label \in RunLabel,
             Emit(r, type, i, label)
      PROVE  /\ Grows(r)
             /\ emitting' \in [Runs -> EventType]
             /\ pc' = [pc EXCEPT ![r] = label]
             /\ UNCHANGED <<tokenSet, registered, token>>
  BY <1>1, <1>2, <1>3 DEF Emit, Goto, directory, Grows, StartOp
<1>4. ASSUME Finished(r)
      PROVE  /\ pc' = [pc EXCEPT ![r] = "ended"]
             /\ registered' \in [Task -> {"none", "run", "resume"}]
             /\ token' = token
  BY <1>1, <1>4 DEF Finished, Goto
<1>5. \A label, a : Wake(r, label, a) => Consumes(r)
  BY DEF Wake, Consumes
<1>6. \A t \in Task, type \in EventType : Push(t, type) => reports' \in [Task -> Seq(ResultType)]
  BY <1>1, PushTyped
<1>7. \A result \in Outcome : AfterExecute(r, result)
        => /\ Grows(r)
           /\ emitting' \in [Runs -> EventType]
           /\ outcome' \in [Runs -> Outcome]
           /\ \E label \in RunLabel : pc' = [pc EXCEPT ![r] = label]
           /\ UNCHANGED <<tokenSet, registered, token>>
  <2> SUFFICES ASSUME NEW result \in Outcome, AfterExecute(r, result)
               PROVE  /\ Grows(r) /\ emitting' \in [Runs -> EventType]
                      /\ outcome' \in [Runs -> Outcome]
                      /\ \E label \in RunLabel : pc' = [pc EXCEPT ![r] = label]
                      /\ UNCHANGED <<tokenSet, registered, token>>
    OBVIOUS
  <2>1. outcome' \in [Runs -> Outcome]
    BY <1>1 DEF AfterExecute
  <2>2. {"closing", "checkpointing", "terminal_check"} \subseteq RunLabel
    BY DEF RunLabel
  <2>3. CASE \E type \in {"failed", "cancelled"} : Emit(r, type, "3", "closing")
    BY <1>3, <2>1, <2>2, <2>3 DEF EventType, EventId
  <2>4. CASE /\ Submit(MakeOp(r, "checkpoint", TaskOf(r))) /\ Goto(r, "checkpointing")
             /\ UNCHANGED <<emitting, tokenSet, directory>>
    BY <1>1, <1>2, <2>1, <2>2, <2>4 DEF Grows, StartOp, Goto, directory
  <2>5. CASE /\ Goto(r, "terminal_check")
             /\ UNCHANGED <<queue, emitting, tokenSet, directory>>
    BY <1>1, <2>1, <2>2, <2>5 DEF Grows, Goto, directory
  <2>6. QED
    BY <2>3, <2>4, <2>5 DEF AfterExecute
<1>8. (UNCHANGED queue => Grows(r)) /\ (UNCHANGED reply => Consumes(r))
  BY DEF Grows, Consumes
<1> USE <1>1, <1>8
<1>11. CASE BecomeRunning(r)
  BY <1>11, <1>3, <1>5 DEF BecomeRunning, RunMoves, EventType, EventId, RunLabel
<1>12. CASE StartLogged(r)
  BY <1>12, <1>5 DEF StartLogged, RunMoves, RunLabel, Goto, runLocals, directory
<1>13. CASE StartRefused(r)
  BY <1>13, <1>4, <1>5 DEF StartRefused, RunMoves, RunLabel, runLocals
<1>14. CASE AgentLogged(r)
  BY <1>14, <1>5 DEF AgentLogged, RunMoves, RunLabel, Goto, runLocals, directory
<1>15. CASE Checkpointed(r)
  BY <1>15, <1>3, <1>5 DEF Checkpointed, RunMoves, EventType, EventId, RunLabel
<1>16. CASE LastEventLogged(r)
  BY <1>16, <1>4, <1>5 DEF LastEventLogged, RunMoves, RunLabel, Goto, runLocals, directory
<1>17. CASE CancelledInExecute(r)
  BY <1>17, <1>3, <1>5 DEF CancelledInExecute, RunMoves, EventType, EventId, RunLabel
<1>18. CASE CancelledElsewhere(r)
  BY <1>18, <1>4, <1>5 DEF CancelledElsewhere, RunMoves, RunLabel, runLocals
<1>21. CASE Announce(r)
  BY <1>21, <1>4 DEF Announce, RunMoves, RunLabel, Goto, runLocals, directory
<1>22. CASE Instantiate(r)
  BY <1>22 DEF Instantiate, RunMoves, RunLabel, Goto, runLocals, directory
<1>23. CASE InstantiateFails(r)
  BY <1>23, <1>3 DEF InstantiateFails, RunMoves, EventType, EventId, RunLabel
<1>31. CASE InstantiateRaises(r)
  BY <1>31, <1>4 DEF InstantiateRaises, RunMoves, RunLabel, Outcome
<1>24. CASE AgentEmits(r)
  BY <1>24, <1>2
     DEF Grows, StartOp, AgentEmits, RunMoves, EventType, EventId, RunLabel, Outcome, Result,
         Goto, directory
<1>25. CASE AgentPushes(r)
  BY <1>25, <1>6, <1>7 DEF AgentPushes, RunMoves
<1>26. CASE AgentReturns(r)
  BY <1>26, <1>7 DEF AgentReturns, RunMoves, Outcome
<1>27. CASE CheckTerminal(r)
  BY <1>27, <1>4 DEF CheckTerminal, RunMoves, RunLabel, Goto, runLocals, directory
<1>28. CASE Report(r)
  BY <1>28, <1>3 DEF Report, RunMoves, EventType, EventId, RunLabel
<1>29. CASE LastPush(r)
  BY <1>29, <1>4, <1>6 DEF LastPush, RunMoves, RunLabel, runLocals
<1>30. QED
  BY <1>11, <1>12, <1>13, <1>14, <1>15, <1>16, <1>17, <1>18, <1>21, <1>22, <1>23,
     <1>24, <1>25, <1>26, <1>27, <1>28, <1>29, <1>31 DEF ResumeRun, StepRun

LEMMA RunTyped ==
    ASSUME TypeInv, NEW r \in Runs, RunStep(r)
    PROVE  TypeInv'
<1>1. RunMoves(r) /\ UNCHANGED <<tables, allotted>> /\ UNCHANGED supervisorVars
  BY RunTypes DEF RunStep, ResumeRun, StepRun
<1>2. PICK label \in RunLabel : pc' = [pc EXCEPT ![r] = label]
  BY <1>1 DEF RunMoves
<1>3. /\ r \in Client /\ r \notin Cancels /\ r \notin Responds /\ r # Boot
      /\ pc \in [Client -> RunLabel \cup CallLabel \cup BootLabel]
  BY ClientKinds, ClientMembers DEF TypeInv, TypeOK
<1>4. SubjectKnown'
  BY <1>1, <1>2, <1>3, ClientMembers DEF SubjectKnown, TypeInv, supervisorVars, callVars
<1>5. StoreTypeOK'
  BY <1>1, <1>3, Exchanged DEF StoreTypeOK, TypeInv, TypeOK, RunMoves, tables
<1>6. RuntimeTypeOK'
  BY <1>1, <1>2, <1>3 DEF RuntimeTypeOK, TypeInv, TypeOK, RunMoves
<1>7. GenerationHasTopic'
  BY <1>1, <1>3, Exchanged DEF RunMoves
<1>8. QED
  BY <1>1, <1>2, <1>3, <1>4, <1>5, <1>6, <1>7
     DEF TypeInv, TypeOK, supervisorVars, callVars, bootVars

-----------------------------------------------------------------------------
(* The callers, the recovery and the crash.  Each may move its own program *)
(* counter, and that of the run it spawns, to one of its labels.           *)

LEMMA StatusKinds ==
    /\ "pending" \in Status /\ "waiting_resource" \in Status /\ "running" \in Status
    /\ "resuming" \in Status /\ "failed" \in Status /\ "cancelled" \in Status
  BY DEF Status, RecoverableStatus, ActiveStatus, TerminalStatus

LEMMA SpawnMoves ==
    ASSUME TypeInv, NEW r \in Runs, Spawn(r)
    PROVE  /\ Grows(r)
           /\ registered' \in [Task -> {"none", "run", "resume"}]
           /\ token' \in [Task -> {"none", "run", "resume"}]
<1>1. r \in Client /\ TaskOf(r) \in Task /\ r[1] \in {"run", "resume"}
  BY ClientMembers, ClientKinds
<1>2. /\ StatusOp(r, TaskOf(r), "running") \in Op
      /\ StatusOp(r, TaskOf(r), "running").kind = "status"
      /\ StatusOp(r, TaskOf(r), "running").by = r
  BY <1>1, OpTyped, StatusKinds
<1>3. QED
  BY <1>1, <1>2 DEF Spawn, Grows, StartOp, TypeInv, TypeOK, RuntimeTypeOK

LEMMA GenerationTyped ==
    ASSUME NEW t \in Task, allotted \in [Task -> Nat]
    PROVE  /\ GenerationOf(t) \in Nat
           /\ Draws(t) => GenerationOf(t) = allotted[t]
           /\ TopicOf[t] # NoTopic /\ ~Draws(t) => GenerationOf(t) = GivenOf[t]
<1>1. GivenOf[t] \in Nat
  BY SupervisorConstants
<1>2. QED
  BY <1>1 DEF GenerationOf, Draws

LEMMA StartTyped ==
    ASSUME TypeInv, NEW t \in Task, StartStep(t)
    PROVE  TypeInv'
<1> DEFINE c == Start(t)
<1>1. /\ c \in Client /\ c \notin Cancels /\ c \notin Responds /\ c # Boot /\ c \notin Runs
      /\ Run(t) \in Runs /\ Run(t) \in Client
      /\ Run(t) \notin Cancels /\ Run(t) \notin Responds /\ Run(t) # Boot
  BY ClientKinds, ClientMembers
<1>2. /\ queue \in Seq(Op) /\ reply \in [Client -> Reply] /\ allotted \in [Task -> Nat]
      /\ pc \in [Client -> RunLabel \cup CallLabel \cup BootLabel]
      /\ \A r \in Runs : pc[r] \in RunLabel
      /\ decision \in [Task -> {"pending", "waiting_resource"}]
      /\ handle \in [Task -> Task \cup {NoTask}]
      /\ late \subseteq Task
      /\ registered \in [Task -> {"none", "run", "resume"}]
      /\ token \in [Task -> {"none", "run", "resume"}]
  BY DEF TypeInv, TypeOK, StoreTypeOK, RuntimeTypeOK
<1>3. \A g \in Nat : /\ CreateOp(c, t, decision[t], g) \in Op
                     /\ CreateOp(c, t, decision[t], g).kind = "create"
  <2>1. decision[t] \in Status
    BY <1>2, StatusKinds
  <2>2. QED
    BY <1>1, <2>1, OpTyped
<1>4. TopicOf[t] # NoTopic
         => MakeOp(c, "generation", t) \in Op /\ HasTopic(MakeOp(c, "generation", t))
  <2>1. "generation" \in OpKind
    BY DEF OpKind
  <2>2. MakeOp(c, "generation", t) \in Op /\ MakeOp(c, "generation", t).task = t
    BY <1>1, <2>1, OpTyped DEF MakeOp
  <2>3. QED
    BY <2>2 DEF HasTopic
<1>5. SubmitRow(t) => /\ queue' \in Seq(Op) /\ GenerationHasTopic'
                      /\ pc' = [pc EXCEPT ![c] = "create"]
  <2>1. GenerationOf(t) \in Nat
    BY <1>2, GenerationTyped
  <2>2. QED
    BY <1>2, <1>3, <2>1, QueueSteps
       DEF SubmitRow, Submit, Goto, GenerationHasTopic, HasTopic, TypeInv
<1>6. UNCHANGED queue => queue' \in Seq(Op) /\ GenerationHasTopic'
  BY <1>2 DEF GenerationHasTopic, TypeInv
<1> DEFINE Moves ==
        /\ queue' \in Seq(Op) /\ GenerationHasTopic'
        /\ reply' \in [Client -> Reply]
        /\ \E label \in CallLabel :
              \/ pc' = [pc EXCEPT ![c] = label]
              \/ pc' = [pc EXCEPT ![c] = label, ![Run(t)] = "running"]
        /\ decision' \in [Task -> {"pending", "waiting_resource"}]
        /\ handle' \in [Task -> Task \cup {NoTask}]
        /\ late' \subseteq Task
        /\ registered' \in [Task -> {"none", "run", "resume"}]
        /\ token' \in [Task -> {"none", "run", "resume"}]
<1>7. Moves
  <2> USE <1>1, <1>2, <1>6 DEF CallLabel
  <2> HIDE DEF c
  <2>1. CASE StartCall(t)
    BY <2>1 DEF StartCall, Goto, directory, c
  <2>2. CASE ReadReplaced(t)
    BY <2>2 DEF ReadReplaced, Goto, directory, c
  <2>3. CASE ReadKey(t)
    <3>1. UNCHANGED <<queue, reply, decision, late, registered, token>>
      BY <2>3 DEF ReadKey, directory
    <3>2. \/ \E u \in Task : ReturnHandle(t, u)
          \/ Goto(c, "gate") /\ UNCHANGED handle
      BY <2>3 DEF ReadKey, RowsUnder, c
    <3>3. ASSUME NEW u \in Task, ReturnHandle(t, u)
          PROVE  /\ handle' \in [Task -> Task \cup {NoTask}]
                 /\ pc' = [pc EXCEPT ![c] = "returned"]
      BY <3>3 DEF ReturnHandle, Goto, c
    <3>4. QED
      BY <3>1, <3>2, <3>3 DEF Goto
  <2>4. CASE PassGate(t)
    <3>1. UNCHANGED <<queue, reply, handle, registered, token>>
      BY <2>4 DEF PassGate, directory
    <3>2. \A s \in {"pending", "waiting_resource"} : Decide(t, s)
            => /\ decision' \in [Task -> {"pending", "waiting_resource"}]
               /\ late' \subseteq Task
               /\ pc' = [pc EXCEPT ![c] = "admit"]
      BY DEF Decide, Goto, c
    <3>3. \/ Decide(t, "pending") \/ Decide(t, "waiting_resource")
          \/ Goto(c, "rejected") /\ UNCHANGED <<decision, late>>
      BY <2>4 DEF PassGate, c
    <3>4. QED
      BY <3>1, <3>2, <3>3 DEF Goto
  <2>5. CASE Admit(t)
    <3>1. CASE ~Draws(t)
      BY <2>5, <3>1, <1>5 DEF Admit, Draws, directory
    <3>2. CASE Draws(t)
      <4>1. queue' = Append(queue, MakeOp(c, "generation", t))
        BY <2>5, <3>2 DEF Admit, Draws, Submit, c
      <4>2. queue' \in Seq(Op) /\ GenerationHasTopic'
        BY <3>2, <4>1, <1>4, QueueSteps DEF GenerationHasTopic, TypeInv, Draws
      <4>3. QED
        BY <2>5, <3>2, <4>2 DEF Admit, Draws, Goto, directory, c
    <3>3. QED
      BY <3>1, <3>2
  <2>6. CASE Reread(t)
    BY <2>6 DEF Reread, ReturnHandle, RowsUnder, Goto, directory, c
  <2>7. CASE GenerationAllotted(t)
    BY <2>7, <1>5 DEF GenerationAllotted, Wake, Reply, directory
  <2>8. CASE RowCreated(t)
    <3>1. CASE decision[t] = "pending" /\ RuntimeEnabled
      <4>1. Spawn(Run(t)) /\ Consumes(c)
        BY <2>8, <3>1 DEF RowCreated, Wake, Consumes, c
      <4>2. QED
        BY <2>8, <3>1, <4>1, SpawnMoves, Exchanged DEF RowCreated, c
    <3>2. CASE ~(decision[t] = "pending" /\ RuntimeEnabled)
      BY <2>8, <3>2 DEF RowCreated, Wake, Reply, Goto, directory, c
    <3>3. QED
      BY <3>1, <3>2
  <2>9. CASE RowRefused(t)
    BY <2>9 DEF RowRefused, Wake, Reply, Goto, directory, c
  <2>10. QED
    BY <2>1, <2>2, <2>3, <2>4, <2>5, <2>6, <2>7, <2>8, <2>9
       DEF StartStep, StartResumes, StartSteps
<1>8. UNCHANGED <<tables, allotted, runLocals, reports, targets, subject, confirmed, bootVars>>
  BY DEF StartStep
<1> HIDE DEF c
<1>9. PICK label \in CallLabel :
          \/ pc' = [pc EXCEPT ![c] = label]
          \/ pc' = [pc EXCEPT ![c] = label, ![Run(t)] = "running"]
  BY <1>7
<1>10. SubjectKnown'
  BY <1>1, <1>2, <1>8, <1>9, ClientMembers DEF SubjectKnown, TypeInv
<1>11. StoreTypeOK'
  BY <1>7, <1>8 DEF StoreTypeOK, TypeInv, TypeOK, tables
<1>12. RuntimeTypeOK'
  <2>1. \A r \in Runs : pc'[r] \in RunLabel
    BY <1>1, <1>2, <1>9, ClientMembers DEF RunLabel
  <2>2. QED
    BY <1>7, <1>8, <2>1 DEF RuntimeTypeOK, TypeInv, TypeOK, runLocals
<1>13. pc' \in [Client -> RunLabel \cup CallLabel \cup BootLabel]
  BY <1>2, <1>9 DEF RunLabel
<1>14. QED
  BY <1>7, <1>8, <1>10, <1>11, <1>12, <1>13 DEF TypeInv, TypeOK, bootVars

(* A cancellation interrupts the run its task id points to. *)
Interrupts(c) ==
    \E r \in Runs, op \in Op :
        /\ op.by = c /\ ~StartOp(op)
        /\ reply' = [reply EXCEPT ![c] = "none", ![r] = "cancelled"]
        /\ queue' = Append(Disowned(r), op)

CancelMoves(c) ==
    /\ (Grows(c) /\ Consumes(c)) \/ Interrupts(c)
    /\ tokenSet' \subseteq Runs
    /\ reports' \in [Task -> Seq(ResultType)]
    /\ targets' \in [Cancels -> SUBSET Task]
    /\ subject' \in [Cancels \cup Responds \cup {Boot} -> Task \cup {NoTask}]
    /\ \A d \in Cancels \cup Responds \cup {Boot} : d # c => subject'[d] = subject[d]
    /\ confirmed' \subseteq Task
    /\ \E label \in CallLabel :
          /\ pc' = [pc EXCEPT ![c] = label]
          /\ label \in {"submit", "marking", "announcing", "push"} => subject'[c] \in Task

LEMMA CancelSteppedMoves ==
    ASSUME TypeInv, NEW c \in Cancels, CancelStep(c)
    PROVE  CancelMoves(c)
<1>1. /\ c \in Client /\ c \notin Responds /\ c # Boot /\ c \notin Runs
      /\ pc \in [Client -> RunLabel \cup CallLabel \cup BootLabel]
      /\ queue \in Seq(Op) /\ reply \in [Client -> Reply] /\ tokenSet \subseteq Runs
      /\ token \in [Task -> {"none", "run", "resume"}]
      /\ registered \in [Task -> {"none", "run", "resume"}]
      /\ reports \in [Task -> Seq(ResultType)] /\ confirmed \subseteq Task
      /\ targets \in [Cancels -> SUBSET Task]
      /\ subject \in [Cancels \cup Responds \cup {Boot} -> Task \cup {NoTask}]
  BY ClientKinds, ClientMembers DEF TypeInv, TypeOK, StoreTypeOK, RuntimeTypeOK
<1>2. pc[c] \in {"submit", "marking", "announcing", "push"} => subject[c] \in Task
  BY DEF TypeInv, SubjectKnown
<1>3. \A t \in Task :
          /\ StatusOp(c, t, "cancelled") \in Op
          /\ StatusOp(c, t, "cancelled").kind = "status"
          /\ StatusOp(c, t, "cancelled").by = c
          /\ EventOp(c, t, "cancelled", "999998") \in Op
          /\ EventOp(c, t, "cancelled", "999998").kind = "event"
          /\ EventOp(c, t, "cancelled", "999998").by = c
  BY <1>1, OpTyped, StatusKinds DEF EventType, EventId
<1>4. UNCHANGED <<queue, reply>> => Grows(c) /\ Consumes(c)
  BY DEF Grows, Consumes
<1>5. \A label, a : Wake(c, label, a) => pc[c] = label /\ Consumes(c)
  BY DEF Wake, Consumes
<1>6. CancelMoves(c)
  <2> USE <1>1, <1>2, <1>4 DEF CancelMoves, CallLabel
  <2>1. CASE CancelCall(c)
    BY <2>1 DEF CancelCall, Goto, Unfinished
  <2>2. CASE CancelRead(c)
    <3>1. PICK t \in targets[c] :
              /\ targets' = [targets EXCEPT ![c] = @ \ {t}]
              /\ \/ UNCHANGED <<pc, subject>>
                 \/ subject' = [subject EXCEPT ![c] = t] /\ Goto(c, "submit")
      BY <2>2 DEF CancelRead
    <3>2. t \in Task /\ pc[c] = "next" /\ pc = [pc EXCEPT ![c] = "next"]
      BY <2>2 DEF CancelRead
    <3>3. /\ UNCHANGED <<queue, reply, confirmed, tokenSet, reports>>
          /\ targets' \in [Cancels -> SUBSET Task]
      BY <2>2, <3>1 DEF CancelRead
    <3>4. CASE UNCHANGED <<pc, subject>>
      BY <3>2, <3>3, <3>4
    <3>5. CASE subject' = [subject EXCEPT ![c] = t] /\ Goto(c, "submit")
      BY <3>2, <3>3, <3>5 DEF Goto
    <3>6. QED
      BY <3>1, <3>4, <3>5
  <2>3. CASE CancelSubmit(c)
    BY <2>3, <1>3 DEF CancelSubmit, Goto, Grows, StartOp, Consumes
  <2>4. CASE CancelPush(c)
    <3>1. subject[c] \in Task /\ Push(subject[c], "cancelled")
      BY <2>4, <1>2 DEF CancelPush
    <3>2. reports' \in [Task -> Seq(ResultType)]
      BY <3>1, PushTyped
    <3>3. QED
      BY <2>4, <3>1, <3>2 DEF CancelPush, Goto
  <2>5. CASE CancelReturn(c)
    BY <2>5 DEF CancelReturn, Goto
  <2>6. CASE CancelMarked(c)
    <3> DEFINE t == subject[c]
    <3>1. t \in Task /\ pc' = [pc EXCEPT ![c] = "announcing"]
          /\ UNCHANGED <<targets, subject, confirmed, reports>>
      BY <2>6 DEF CancelMarked, Goto
    <3>2. tokenSet' \subseteq Runs
      <4>1. token[t] # "none" => <<token[t], t>> \in Runs
        BY <3>1, ClientMembers
      <4>2. tokenSet' = IF token[t] = "none" THEN tokenSet ELSE tokenSet \cup {<<token[t], t>>}
        BY <2>6 DEF CancelMarked
      <4>3. QED
        BY <4>1, <4>2
    <3>3. (Grows(c) /\ Consumes(c)) \/ Interrupts(c)
      <4>1. CASE registered[t] = "none"
        BY <2>6, <3>1, <4>1, <1>3 DEF CancelMarked, Grows, StartOp, Consumes
      <4>2. CASE registered[t] # "none"
        <5>1. <<registered[t], t>> \in Runs
          BY <3>1, <4>2, ClientMembers
        <5>2. /\ reply' = [reply EXCEPT ![c] = "none", ![<<registered[t], t>>] = "cancelled"]
              /\ queue' = Append(Disowned(<<registered[t], t>>),
                                 EventOp(c, t, "cancelled", "999998"))
          BY <2>6, <4>2 DEF CancelMarked
        <5>3. QED
          BY <3>1, <1>3, <5>1, <5>2 DEF Interrupts, StartOp
      <4>3. QED
        BY <4>1, <4>2
    <3>4. QED
      BY <3>1, <3>2, <3>3
  <2>7. CASE CancelLogged(c)
    BY <2>7, <1>5 DEF CancelLogged, Goto, Grows
  <2>8. CASE CancelFails(c)
    BY <2>8, <1>5 DEF CancelFails, Goto, Grows
  <2>9. QED
    BY <2>1, <2>2, <2>3, <2>4, <2>5, <2>6, <2>7, <2>8
       DEF CancelStep, CancelResumes, CancelSteps
<1>7. QED
  BY <1>6

LEMMA Interrupted ==
    ASSUME TypeInv, NEW c \in Cancels, Interrupts(c)
    PROVE  queue' \in Seq(Op) /\ GenerationHasTopic' /\ reply' \in [Client -> Reply]
<1>1. queue \in Seq(Op) /\ reply \in [Client -> Reply] /\ GenerationHasTopic
  BY DEF TypeInv, TypeOK, StoreTypeOK
<1>2. PICK r \in Runs, op \in Op :
          /\ op.by = c /\ ~StartOp(op)
          /\ reply' = [reply EXCEPT ![c] = "none", ![r] = "cancelled"]
          /\ queue' = Append(Disowned(r), op)
  BY DEF Interrupts
<1>3. r \in Client
  BY ClientMembers
<1>4. Disowned(r) \in Seq(Op) /\ \A i \in 1 .. Len(Disowned(r)) : HasTopic(Disowned(r)[i])
  BY <1>1, <1>3, DisownedTyped
<1>5. HasTopic(op)
  BY <1>2 DEF HasTopic, StartOp
<1>6. queue' \in Seq(Op) /\ GenerationHasTopic'
  BY <1>2, <1>4, <1>5, QueueSteps DEF GenerationHasTopic
<1>7. QED
  BY <1>1, <1>2, <1>6 DEF Reply

LEMMA CancelTyped ==
    ASSUME TypeInv, NEW c \in Cancels, CancelStep(c)
    PROVE  TypeInv'
<1>1. /\ c \in Client /\ c \notin Responds /\ c # Boot /\ c \notin Runs
      /\ pc \in [Client -> RunLabel \cup CallLabel \cup BootLabel]
  BY ClientKinds, ClientMembers DEF TypeInv, TypeOK
<1>5. CancelMoves(c)
  BY CancelSteppedMoves
<1>6. /\ queue' \in Seq(Op) /\ GenerationHasTopic' /\ reply' \in [Client -> Reply]
      /\ tokenSet' \subseteq Runs
      /\ reports' \in [Task -> Seq(ResultType)]
      /\ targets' \in [Cancels -> SUBSET Task]
      /\ subject' \in [Cancels \cup Responds \cup {Boot} -> Task \cup {NoTask}]
      /\ \A d \in Cancels \cup Responds \cup {Boot} : d # c => subject'[d] = subject[d]
      /\ confirmed' \subseteq Task
  BY <1>1, <1>5, Exchanged, Interrupted DEF CancelMoves
<1>7. UNCHANGED <<tables, allotted, outcome, emitting, directory, decision, handle,
                  bootVars, late>>
  BY DEF CancelStep
<1>8. PICK label \in CallLabel :
          /\ pc' = [pc EXCEPT ![c] = label]
          /\ label \in {"submit", "marking", "announcing", "push"} => subject'[c] \in Task
  BY <1>5 DEF CancelMoves
<1>9. SubjectKnown'
  BY <1>1, <1>6, <1>8, ClientMembers DEF SubjectKnown, TypeInv
<1>10. StoreTypeOK'
  BY <1>6, <1>7 DEF StoreTypeOK, TypeInv, TypeOK, tables
<1>11. RuntimeTypeOK'
  BY <1>1, <1>6, <1>7, <1>8, ClientMembers DEF RuntimeTypeOK, TypeInv, TypeOK, directory
<1>12. QED
  BY <1>1, <1>6, <1>7, <1>8, <1>9, <1>10, <1>11 DEF TypeInv, TypeOK, bootVars

RespondMoves(p) ==
    /\ Consumes(p)
    /\ registered' \in [Task -> {"none", "run", "resume"}]
    /\ token' \in [Task -> {"none", "run", "resume"}]
    /\ subject' \in [Cancels \cup Responds \cup {Boot} -> Task \cup {NoTask}]
    /\ \A d \in Cancels \cup Responds \cup {Boot} : d # p => subject'[d] = subject[d]
    /\ \E label \in CallLabel :
          /\ \/ Grows(p) /\ pc' = [pc EXCEPT ![p] = label]
             \/ \E t \in Task : /\ Grows(Resume(t))
                                /\ pc' = [pc EXCEPT ![p] = label, ![Resume(t)] = "running"]
          /\ label \in {"submit", "consuming", "resuming", "missing", "reread"}
                => subject'[p] \in Task

LEMMA RespondSteppedMoves ==
    ASSUME TypeInv, NEW p \in Responds, RespondStep(p)
    PROVE  RespondMoves(p)
<1>1. /\ p \in Client /\ p \notin Cancels /\ p # Boot /\ p \notin Runs
      /\ pc \in [Client -> RunLabel \cup CallLabel \cup BootLabel]
      /\ \A r \in Runs : pc[r] \in RunLabel
      /\ queue \in Seq(Op) /\ reply \in [Client -> Reply]
      /\ token \in [Task -> {"none", "run", "resume"}]
      /\ registered \in [Task -> {"none", "run", "resume"}]
      /\ subject \in [Cancels \cup Responds \cup {Boot} -> Task \cup {NoTask}]
  BY ClientKinds, ClientMembers DEF TypeInv, TypeOK, StoreTypeOK, RuntimeTypeOK
<1>2. pc[p] \in {"submit", "consuming", "resuming", "missing", "reread"} => subject[p] \in Task
  BY DEF TypeInv, SubjectKnown
<1>3. \A t \in Task :
          /\ \A s \in {"resuming", "failed"} :
                /\ StatusOp(p, t, s) \in Op /\ StatusOp(p, t, s).kind = "status"
                /\ StatusOp(p, t, s).by = p
          /\ MakeOp(p, "consume", t) \in Op /\ MakeOp(p, "consume", t).kind = "consume"
          /\ MakeOp(p, "consume", t).by = p
  BY <1>1, OpTyped, StatusKinds DEF OpKind
<1>4. UNCHANGED <<queue, reply>> => Grows(p) /\ Consumes(p)
  BY DEF Grows, Consumes
<1>5. \A label, a : Wake(p, label, a) => pc[p] = label /\ Consumes(p)
  BY DEF Wake, Consumes
<1>6. \A t \in Task : Resume(t) \in Runs /\ Resume(t) \in Client /\ Resume(t) # p
                       /\ Resume(t) \notin Cancels \cup Responds \cup {Boot}
  BY ClientsApart
<1>7. RespondMoves(p)
  <2> USE <1>1, <1>2, <1>4 DEF RespondMoves, CallLabel
  <2>1. CASE RespondRead(p)
    <3>1. UNCHANGED <<queue, reply, registered, token>>
      BY <2>1 DEF RespondRead, directory
    <3>2. \/ \E t \in Task : Goto(p, "submit") /\ subject' = [subject EXCEPT ![p] = t]
          \/ Goto(p, "rejected") /\ UNCHANGED subject
      BY <2>1 DEF RespondRead
    <3>3. QED
      BY <3>1, <3>2 DEF Goto
  <2>2. CASE RespondConsume(p)
    BY <2>2, <1>3 DEF RespondConsume, Goto, Grows, StartOp, Consumes, directory
  <2>3. CASE RespondSpawn(p)
    <3>1. subject[p] \in Task /\ Spawn(Resume(subject[p]))
      BY <2>3 DEF RespondSpawn
    <3>2. /\ Grows(Resume(subject[p])) /\ Consumes(p)
          /\ registered' \in [Task -> {"none", "run", "resume"}]
          /\ token' \in [Task -> {"none", "run", "resume"}]
      BY <2>3, <3>1, <1>6, SpawnMoves DEF RespondSpawn, Consumes
    <3>3. QED
      BY <2>3, <3>1, <3>2 DEF RespondSpawn
  <2>4. CASE RespondConsumed(p)
    BY <2>4, <1>3, <1>5 DEF RespondConsumed, Goto, Grows, StartOp, directory
  <2>5. CASE RespondMissing(p)
    BY <2>5, <1>3, <1>5 DEF RespondMissing, Goto, Grows, StartOp, directory
  <2>6. CASE RespondRejected(p)
    BY <2>6, <1>5 DEF RespondRejected, Goto, Grows, directory
  <2>7. CASE RespondResuming(p)
    BY <2>7, <1>5 DEF RespondResuming, Goto, Grows, directory
  <2>8. QED
    BY <2>1, <2>2, <2>3, <2>4, <2>5, <2>6, <2>7
       DEF RespondStep, RespondResumes, RespondSteps
<1>8. QED
  BY <1>7

LEMMA RespondTyped ==
    ASSUME TypeInv, NEW p \in Responds, RespondStep(p)
    PROVE  TypeInv'
<1>1. /\ p \in Client /\ p \notin Cancels /\ p # Boot /\ p \notin Runs
      /\ pc \in [Client -> RunLabel \cup CallLabel \cup BootLabel]
      /\ \A r \in Runs : pc[r] \in RunLabel
      /\ \A t \in Task : Resume(t) \in Runs /\ Resume(t) \in Client /\ Resume(t) # p
                         /\ Resume(t) \notin Cancels \cup Responds \cup {Boot}
  BY ClientKinds, ClientMembers DEF TypeInv, TypeOK, RuntimeTypeOK
<1>6. RespondMoves(p)
  BY RespondSteppedMoves
<1>7. /\ queue' \in Seq(Op) /\ GenerationHasTopic' /\ reply' \in [Client -> Reply]
      /\ registered' \in [Task -> {"none", "run", "resume"}]
      /\ token' \in [Task -> {"none", "run", "resume"}]
      /\ subject' \in [Cancels \cup Responds \cup {Boot} -> Task \cup {NoTask}]
      /\ \A d \in Cancels \cup Responds \cup {Boot} : d # p => subject'[d] = subject[d]
  BY <1>1, <1>6, Exchanged DEF RespondMoves
<1>8. UNCHANGED <<tables, allotted, runLocals, reports, decision, handle, targets,
                  confirmed, bootVars, late>>
  BY DEF RespondStep
<1>9. PICK label \in CallLabel :
          /\ \/ pc' = [pc EXCEPT ![p] = label]
             \/ \E t \in Task : pc' = [pc EXCEPT ![p] = label, ![Resume(t)] = "running"]
          /\ label \in {"submit", "consuming", "resuming", "missing", "reread"}
                => subject'[p] \in Task
  BY <1>6 DEF RespondMoves
<1>10. SubjectKnown'
  <2>1. \A d \in Cancels \cup Responds \cup {Boot} : d # p => pc'[d] = pc[d]
    BY <1>1, <1>9, ClientMembers
  <2>2. pc'[p] = label
    BY <1>1, <1>9
  <2>3. QED
    BY <1>1, <1>7, <1>9, <2>1, <2>2 DEF SubjectKnown, TypeInv
<1>11. \A r \in Runs : pc'[r] \in RunLabel
  BY <1>1, <1>9, ClientMembers DEF RunLabel
<1>12. pc' \in [Client -> RunLabel \cup CallLabel \cup BootLabel]
  BY <1>1, <1>9 DEF RunLabel
<1>13. StoreTypeOK'
  BY <1>7, <1>8 DEF StoreTypeOK, TypeInv, TypeOK, tables
<1>14. RuntimeTypeOK'
  BY <1>7, <1>8, <1>11 DEF RuntimeTypeOK, TypeInv, TypeOK, runLocals
<1>15. QED
  BY <1>7, <1>8, <1>10, <1>12, <1>13, <1>14 DEF TypeInv, TypeOK, bootVars

BootMoves ==
    /\ Grows(Boot) /\ Consumes(Boot)
    /\ todo' \subseteq Task
    /\ subject' \in [Cancels \cup Responds \cup {Boot} -> Task \cup {NoTask}]
    /\ \A d \in Cancels \cup Responds : subject'[d] = subject[d]
    /\ \E label \in BootLabel :
          /\ pc' = [pc EXCEPT ![Boot] = label]
          /\ label \in {"marking", "logging"} => subject'[Boot] \in Task

LEMMA BootSteppedMoves ==
    ASSUME TypeInv, BootStep
    PROVE  BootMoves
<1>1. /\ Boot \in Client /\ Boot \notin Cancels \cup Responds /\ Boot \notin Runs
      /\ AnyTask \in Task
      /\ pc \in [Client -> RunLabel \cup CallLabel \cup BootLabel]
      /\ queue \in Seq(Op) /\ reply \in [Client -> Reply] /\ todo \subseteq Task
      /\ subject \in [Cancels \cup Responds \cup {Boot} -> Task \cup {NoTask}]
  BY ClientKinds, ClientMembers DEF TypeInv, TypeOK, StoreTypeOK
<1>2. pc[Boot] \in {"marking", "logging"} => subject[Boot] \in Task
  BY DEF TypeInv, SubjectKnown
<1>3. /\ \A t \in Task :
             /\ StatusOp(Boot, t, "failed") \in Op
             /\ StatusOp(Boot, t, "failed").kind = "status"
             /\ StatusOp(Boot, t, "failed").by = Boot
             /\ EventOp(Boot, t, "failed", "recovery") \in Op
             /\ EventOp(Boot, t, "failed", "recovery").kind = "event"
             /\ EventOp(Boot, t, "failed", "recovery").by = Boot
      /\ MakeOp(Boot, "lifecycle", AnyTask) \in Op
      /\ MakeOp(Boot, "lifecycle", AnyTask).kind = "lifecycle"
      /\ MakeOp(Boot, "lifecycle", AnyTask).by = Boot
  BY <1>1, OpTyped, StatusKinds DEF OpKind, EventType, EventId
<1>4. UNCHANGED <<queue, reply>> => Grows(Boot) /\ Consumes(Boot)
  BY DEF Grows, Consumes
<1>5. \A label, a : Wake(Boot, label, a) => pc[Boot] = label /\ Consumes(Boot)
  BY DEF Wake, Consumes
<1>6. BootMoves
  <2> USE <1>1, <1>2, <1>4 DEF BootMoves, BootLabel
  <2>1. CASE BootRead
    BY <2>1 DEF BootRead, Goto, RecoverableRows, TasksIn
  <2>2. CASE BootMark
    <3>1. PICK t \in todo : /\ subject' = [subject EXCEPT ![Boot] = t]
                            /\ Submit(StatusOp(Boot, t, "failed"))
      BY <2>2 DEF BootMark
    <3>2. Grows(Boot)
      BY <3>1, <1>3 DEF Grows, StartOp
    <3>3. QED
      BY <2>2, <3>1, <3>2 DEF BootMark, Goto, Consumes
  <2>3. CASE BootSeal
    BY <2>3, <1>3 DEF BootSeal, Goto, Grows, StartOp, Consumes
  <2>4. CASE BootMarked
    BY <2>4, <1>3, <1>5 DEF BootMarked, Goto, Grows, StartOp
  <2>5. CASE BootLogged
    BY <2>5, <1>5 DEF BootLogged, Goto, Grows
  <2>6. CASE BootServe
    BY <2>6, <1>5 DEF BootServe, Goto, Grows
  <2>7. QED
    BY <2>1, <2>2, <2>3, <2>4, <2>5, <2>6 DEF BootStep
<1>7. QED
  BY <1>6

LEMMA BootTyped ==
    ASSUME TypeInv, BootStep
    PROVE  TypeInv'
<1>1. /\ Boot \in Client /\ Boot \notin Cancels \cup Responds /\ Boot \notin Runs
      /\ pc \in [Client -> RunLabel \cup CallLabel \cup BootLabel]
  BY ClientKinds, ClientMembers DEF TypeInv, TypeOK
<1>5. BootMoves
  BY BootSteppedMoves
<1>6. queue' \in Seq(Op) /\ GenerationHasTopic' /\ reply' \in [Client -> Reply]
  BY <1>1, <1>5, Exchanged DEF BootMoves
<1>7. UNCHANGED <<tables, allotted, runLocals, directory, reports, decision,
                  handle, targets, confirmed, crashes, orphans, late>>
  BY DEF BootStep
<1>8. SubjectKnown'
  BY <1>1, <1>5, ClientMembers DEF SubjectKnown, TypeInv, BootMoves
<1>9. StoreTypeOK'
  BY <1>6, <1>7 DEF StoreTypeOK, TypeInv, TypeOK, tables
<1>10. RuntimeTypeOK'
  BY <1>1, <1>5, <1>7, ClientMembers
     DEF BootMoves, RuntimeTypeOK, TypeInv, TypeOK, runLocals, directory
<1>11. QED
  BY <1>1, <1>5, <1>6, <1>7, <1>8, <1>9, <1>10 DEF BootMoves, TypeInv, TypeOK

StopMoves(s) ==
    /\ Grows(s) /\ Consumes(s)
    /\ \E label \in CallLabel : pc' = [pc EXCEPT ![s] = label]

LEMMA StopSteppedMoves ==
    ASSUME TypeInv, NEW s \in Stops, StopStep(s)
    PROVE  StopMoves(s)
<1>1. /\ MakeOp(s, "stop", AnyTask) \in Op /\ MakeOp(s, "stop", AnyTask).kind = "stop"
      /\ MakeOp(s, "stop", AnyTask).by = s
  BY ClientMembers, OpTyped DEF OpKind
<1>2. CASE StopSubmit(s)
  BY <1>1, <1>2 DEF StopSubmit, StopMoves, Goto, Grows, StartOp, Consumes, CallLabel
<1>3. CASE StopReturn(s)
  BY <1>3 DEF StopReturn, StopMoves, Wake, Goto, Grows, Consumes, CallLabel
<1>4. QED
  BY <1>2, <1>3 DEF StopStep

LEMMA OtherTyped ==
    ASSUME TypeInv,
           \/ \E s \in Stops : StopStep(s)
           \/ \E c \in Callers : CallerCancelled(c)
           \/ Crash
           \/ UNCHANGED vars
    PROVE  TypeInv'
<1>1. ASSUME NEW s \in Stops, StopStep(s)
      PROVE  TypeInv'
  <2>1. /\ s \in Client /\ s \notin Cancels \cup Responds \cup {Boot} \cup Runs
        /\ reply \in [Client -> Reply]
        /\ pc \in [Client -> RunLabel \cup CallLabel \cup BootLabel]
    BY ClientKinds, ClientMembers DEF TypeInv, TypeOK, StoreTypeOK
  <2>2. StopMoves(s)
    BY <1>1, StopSteppedMoves
  <2>3. /\ queue' \in Seq(Op) /\ GenerationHasTopic'
        /\ reply' \in [Client -> Reply]
        /\ \E label \in CallLabel : pc' = [pc EXCEPT ![s] = label]
    BY <2>1, <2>2, Exchanged DEF StopMoves
  <2>4. UNCHANGED <<tables, allotted, runLocals, directory, reports, supervisorVars>>
    BY <1>1 DEF StopStep
  <2>5. /\ \A c \in Client : c # s => pc'[c] = pc[c]
        /\ pc' \in [Client -> RunLabel \cup CallLabel \cup BootLabel]
    BY <2>1, <2>3
  <2>6. SubjectKnown'
    BY <2>1, <2>4, <2>5, ClientMembers
       DEF SubjectKnown, TypeInv, supervisorVars, callVars
  <2>7. StoreTypeOK'
    BY <2>3, <2>4 DEF StoreTypeOK, TypeInv, TypeOK, tables
  <2>8. RuntimeTypeOK'
    BY <2>1, <2>4, <2>5, ClientMembers
       DEF RuntimeTypeOK, TypeInv, TypeOK, runLocals, directory
  <2>9. QED
    BY <2>3, <2>4, <2>5, <2>6, <2>7, <2>8
       DEF TypeInv, TypeOK, supervisorVars, callVars, bootVars
<1>2. ASSUME NEW c \in Callers, CallerCancelled(c)
      PROVE  TypeInv'
  <2>1. /\ c \in Client /\ c \notin Runs /\ c # Boot
        /\ pc' = [pc EXCEPT ![c] = "gone"]
        /\ pc \in [Client -> RunLabel \cup CallLabel \cup BootLabel]
    BY <1>2, ClientKinds, ClientMembers
       DEF CallerCancelled, Goto, Callers, TypeInv, TypeOK
  <2>2. queue' \in Seq(Op) /\ GenerationHasTopic'
    BY <1>2, <2>1, DisownedTyped
       DEF CallerCancelled, GenerationHasTopic, TypeInv, TypeOK, StoreTypeOK
  <2>3. UNCHANGED <<tables, reply, allotted, runLocals, directory, reports, supervisorVars>>
    BY <1>2 DEF CallerCancelled
  <2>4. SubjectKnown'
    BY <2>1, <2>3, ClientMembers
       DEF SubjectKnown, TypeInv, supervisorVars, callVars
  <2>5. StoreTypeOK'
    BY <2>2, <2>3 DEF StoreTypeOK, TypeInv, TypeOK, tables
  <2>6. RuntimeTypeOK'
    BY <2>1, <2>3, ClientMembers DEF RuntimeTypeOK, TypeInv, TypeOK, runLocals, directory
  <2>7. QED
    BY <2>1, <2>2, <2>3, <2>4, <2>5, <2>6
       DEF TypeInv, TypeOK, supervisorVars, callVars, bootVars, CallLabel
<1>3. CASE Crash
  <2>1. /\ queue' = <<>> /\ queue' \in Seq(Op) /\ GenerationHasTopic'
        /\ reply' \in [Client -> Reply]
        /\ tokenSet' \subseteq Runs /\ todo' \subseteq Task
        /\ registered' \in [Task -> {"none", "run", "resume"}]
        /\ token' \in [Task -> {"none", "run", "resume"}]
    BY <1>3 DEF Crash, GenerationHasTopic, Reply
  <2>2. crashes' \in Nat /\ orphans' \subseteq Task
    <3>1. crashes \in Nat /\ orphans \subseteq Task
      BY DEF TypeInv, TypeOK
    <3>2. crashes' = crashes + 1
      BY <1>3 DEF Crash
    <3>3. orphans' \subseteq orphans \cup Task
      BY <1>3 DEF Crash
    <3>4. QED
      BY <3>1, <3>2, <3>3
  <2>3. UNCHANGED <<tables, allotted, outcome, emitting, reports, callVars, late>>
    BY <1>3 DEF Crash
  <2>4. /\ pc'[Boot] = "read"
        /\ \A r \in Runs : pc'[r] = IF pc[r] = "idle" THEN "idle" ELSE "ended"
        /\ \A c \in Cancels \cup Responds :
              pc'[c] = IF pc[c] \in EndLabel \cup {"idle"} THEN pc[c] ELSE "gone"
    BY <1>3, ClientKinds, ClientMembers DEF Crash
  <2>5. SubjectKnown'
    BY <2>3, <2>4 DEF SubjectKnown, callVars, EndLabel
  <2>6. pc' \in [Client -> RunLabel \cup CallLabel \cup BootLabel]
    <3>1. pc \in [Client -> RunLabel \cup CallLabel \cup BootLabel]
      BY DEF TypeInv, TypeOK
    <3>2. QED
      BY <1>3, <3>1 DEF Crash, RunLabel, CallLabel, BootLabel
  <2>7. StoreTypeOK'
    BY <2>1, <2>3 DEF StoreTypeOK, TypeInv, TypeOK, tables
  <2>8. RuntimeTypeOK'
    BY <2>1, <2>3, <2>4 DEF RuntimeTypeOK, TypeInv, TypeOK, RunLabel
  <2>9. QED
    BY <2>1, <2>2, <2>3, <2>5, <2>6, <2>7, <2>8 DEF TypeInv, TypeOK, callVars
<1>4. CASE UNCHANGED vars
  BY <1>4 DEF vars, storeVars, runtimeVars, supervisorVars, callVars, bootVars,
     TypeInv, TypeOK, StoreTypeOK, RuntimeTypeOK, SubjectKnown, GenerationHasTopic
<1>5. QED
  BY <1>1, <1>2, <1>3, <1>4

-----------------------------------------------------------------------------
LEMMA TypeInit == Init => TypeInv
<1> SUFFICES ASSUME Init PROVE TypeInv
  OBVIOUS
<1>1. /\ pc = [c \in Client |-> IF c = Boot THEN "read" ELSE "idle"]
      /\ pc[Boot] = "read" /\ \A c \in Client : c # Boot => pc[c] = "idle"
  BY ClientMembers DEF Init
<1>2. SubjectKnown
  BY <1>1, ClientMembers, ClientKinds DEF SubjectKnown
<1>3. StoreTypeOK /\ GenerationHasTopic
  BY DEF Init, StoreInit, StoreTypeOK, GenerationHasTopic, Status, Reply
<1>4. RuntimeTypeOK
  <2>1. reports = [t \in Task |-> <<>>] /\ <<>> \in Seq(ResultType)
    BY DEF Init, RuntimeInit
  <2>2. reports \in [Task -> Seq(ResultType)]
    BY <2>1
  <2>3. QED
    BY <1>1, <2>2, ClientMembers, ClientKinds
       DEF Init, RuntimeInit, RuntimeTypeOK, RunLabel, Outcome, Result, EventType
<1>5. pc \in [Client -> RunLabel \cup CallLabel \cup BootLabel]
  BY <1>1 DEF CallLabel, BootLabel
<1>6. QED
  BY <1>2, <1>3, <1>4, <1>5 DEF Init, TypeInv, TypeOK

LEMMA TypeStep == TypeInv /\ [Next]_vars => TypeInv'
<1> SUFFICES ASSUME TypeInv, [Next]_vars PROVE TypeInv'
  OBVIOUS
<1>1. CASE AllSettled
  BY <1>1, OtherTyped DEF AllSettled
<1>2. QED
  BY <1>1, WriterTyped, RunTyped, StartTyped, CancelTyped, RespondTyped, BootTyped,
     OtherTyped DEF Next

(* Every reachable state is well typed: in particular a caller that waits  *)
(* for a write knows the task it treats, and a generation is only allotted *)
(* to a start that has a topic.                                            *)
THEOREM TypeCorrect == Spec => []TypeOK
<1>1. TypeInv => TypeOK
  BY DEF TypeInv
<1>2. QED
  BY <1>1, TypeInit, TypeStep, PTL DEF Spec

-----------------------------------------------------------------------------
(***************************************************************************)
(* Starting background tasks: TaskSupervisor implements IdempotentStart,   *)
(* and a stop marker of a topic never reaches a start that comes after it. *)
(* Then recovery: what a crash left unfinished is failed once and for all. *)
(***************************************************************************)

(* A start has at most one write in the queue, the one it waits for, and   *)
(* its future is not resolved yet.                                         *)
StartWaits ==
    \A i \in 1 .. Len(queue), t \in Task :
        queue[i].by = Start(t) =>
            /\ pc[Start(t)] = queue[i].kind
            /\ queue[i].kind \in {"generation", "create"}
            /\ queue[i].task = t
            /\ reply[Start(t)] = "none"
OneWrite ==
    \A i, j \in 1 .. Len(queue), t \in Task :
        queue[i].by = Start(t) /\ queue[j].by = Start(t) => i = j

(* Told that its row is created, a start has a row ...  *)
CreatedHasRow ==
    \A t \in Task : pc[Start(t)] = "create" /\ reply[Start(t)] = "ok" => Row(t)

(* ... the only one under its key ... *)
OneRowPerKey ==
    \A t, u \in Task : Row(t) /\ Row(u) /\ KeyOf[t] = KeyOf[u] => t = u

(* ... and it is answered once. *)
AnsweredAtEnd ==
    \A t \in Task : handle[t] # NoTask => pc[Start(t)] \in EndLabel

KeyInv ==
    /\ TypeInv
    /\ StartWaits
    /\ OneWrite
    /\ CreatedHasRow
    /\ OneRowPerKey
    /\ AnsweredAtEnd

-----------------------------------------------------------------------------
(* Steps that leave the starts alone: those of every other client. *)
StartOpsStay ==
    \A i \in 1 .. Len(queue') : StartOp(queue'[i]) =>
        /\ i \in 1 .. Len(queue)
        /\ queue'[i].kind = queue[i].kind
        /\ queue'[i].task = queue[i].task
        /\ queue'[i].gen = queue[i].gen
        /\ queue[i].by \in Starts => queue'[i].by = queue[i].by
StartsUntouched ==
    /\ \A i \in 1 .. Len(queue'), t \in Task :
          queue'[i].by = Start(t) => i \in 1 .. Len(queue) /\ queue'[i] = queue[i]
    /\ \A t \in Task : /\ reply'[Start(t)] = reply[Start(t)]
                       /\ pc'[Start(t)] = pc[Start(t)]
    /\ StartOpsStay

LEMMA UntouchedKeeps ==
    ASSUME KeyInv, TypeInv', StartsUntouched, status' = status, handle' = handle
    PROVE  KeyInv'
<1>1. StartWaits' /\ OneWrite'
  BY DEF KeyInv, StartsUntouched, StartWaits, OneWrite
<1>2. CreatedHasRow' /\ OneRowPerKey' /\ AnsweredAtEnd'
  BY DEF KeyInv, StartsUntouched, CreatedHasRow, OneRowPerKey, AnsweredAtEnd, Row
<1>3. QED
  BY <1>1, <1>2 DEF KeyInv

LEMMA GrowsSparesStarts ==
    ASSUME TypeInv, NEW c \in Client, NEW d \in Client, c \notin Starts, d \notin Starts,
           Grows(c), Consumes(d)
    PROVE  /\ \A i \in 1 .. Len(queue'), t \in Task :
                 queue'[i].by = Start(t) => i \in 1 .. Len(queue) /\ queue'[i] = queue[i]
           /\ \A t \in Task : reply'[Start(t)] = reply[Start(t)]
           /\ StartOpsStay
<1>1. queue \in Seq(Op) /\ reply \in [Client -> Reply]
  BY DEF TypeInv, TypeOK, StoreTypeOK
<1>2. \A t \in Task : Start(t) \in Client /\ Start(t) # c /\ Start(t) # d
  BY ClientMembers
<1>3. \A t \in Task : reply'[Start(t)] = reply[Start(t)]
  BY <1>1, <1>2 DEF Consumes
<1>4. ASSUME NEW op \in Op, op.by = c, ~StartOp(op), queue' = Append(queue, op)
      PROVE  /\ \A i \in 1 .. Len(queue'), t \in Task :
                   queue'[i].by = Start(t) => i \in 1 .. Len(queue) /\ queue'[i] = queue[i]
             /\ StartOpsStay
  <2>1. /\ Len(queue') = Len(queue) + 1 /\ queue'[Len(queue) + 1] = op
        /\ \A i \in 1 .. Len(queue) : queue'[i] = queue[i]
    BY <1>1, <1>4
  <2>2. QED
    BY <1>1, <1>2, <1>4, <2>1 DEF StartOpsStay
<1>5. QED
  BY <1>3, <1>4 DEF Grows, Submit, StartOpsStay

LEMMA RunSparesStarts ==
    ASSUME TypeInv, NEW r \in Runs, RunStep(r)
    PROVE  StartsUntouched /\ status' = status /\ handle' = handle
<1>1. RunMoves(r) /\ UNCHANGED <<tables, allotted>> /\ UNCHANGED supervisorVars
  BY RunTypes DEF RunStep, ResumeRun, StepRun
<1>2. r \in Client /\ r \notin Starts
  BY ClientKinds, ClientMembers
<1>3. \A t \in Task : pc'[Start(t)] = pc[Start(t)]
  BY <1>1, <1>2, ClientMembers DEF RunMoves, TypeInv, TypeOK
<1>4. QED
  BY <1>1, <1>2, <1>3, GrowsSparesStarts
     DEF RunMoves, StartsUntouched, tables, supervisorVars, callVars

LEMMA CancelSparesStarts ==
    ASSUME TypeInv, NEW c \in Cancels, CancelStep(c)
    PROVE  StartsUntouched /\ status' = status /\ handle' = handle
<1>1. CancelMoves(c) /\ c \in Client /\ c \notin Starts
  BY CancelSteppedMoves, ClientKinds, ClientMembers
<1>2. \A t \in Task : pc'[Start(t)] = pc[Start(t)]
  BY <1>1, ClientMembers DEF CancelMoves, TypeInv, TypeOK
<1>3. status' = status /\ handle' = handle
  BY DEF CancelStep, tables
<1>4. CASE Grows(c) /\ Consumes(c)
  BY <1>1, <1>2, <1>3, <1>4, GrowsSparesStarts DEF StartsUntouched
<1>5. CASE Interrupts(c)
  <2>1. PICK r \in Runs, op \in Op :
            /\ op.by = c /\ ~StartOp(op)
            /\ reply' = [reply EXCEPT ![c] = "none", ![r] = "cancelled"]
            /\ queue' = Append(Disowned(r), op)
    BY <1>5 DEF Interrupts
  <2>2. /\ queue \in Seq(Op) /\ reply \in [Client -> Reply]
        /\ \A t \in Task : Start(t) # c /\ Start(t) # r /\ Start(t) # Nobody
    <3>1. queue \in Seq(Op) /\ reply \in [Client -> Reply]
      BY DEF TypeInv, TypeOK, StoreTypeOK
    <3>2. \A t \in Task : Start(t) \in Client /\ Start(t) \in Starts
      BY ClientMembers
    <3>3. r \notin Starts
      BY ClientKinds
    <3>4. QED
      BY <1>1, <3>1, <3>2, <3>3, StoreConstants
  <2>3. /\ Disowned(r) \in Seq(Op) /\ Len(Disowned(r)) = Len(queue)
        /\ \A i \in 1 .. Len(queue) :
              /\ Disowned(r)[i].by # Nobody => Disowned(r)[i] = queue[i]
              /\ Disowned(r)[i].kind = queue[i].kind
              /\ Disowned(r)[i].task = queue[i].task
              /\ Disowned(r)[i].gen = queue[i].gen
              /\ queue[i].by # r => Disowned(r)[i].by = queue[i].by
    BY <2>2, ClientMembers, DisownedKeeps
  <2>4. /\ Len(queue') = Len(queue) + 1 /\ queue'[Len(queue) + 1] = op
        /\ \A i \in 1 .. Len(queue) : queue'[i] = Disowned(r)[i]
    BY <2>1, <2>2, <2>3
  <2>5. \A i \in 1 .. Len(queue'), t \in Task :
            queue'[i].by = Start(t) => i \in 1 .. Len(queue) /\ queue'[i] = queue[i]
    BY <2>1, <2>2, <2>3, <2>4
  <2>6. \A t \in Task : reply'[Start(t)] = reply[Start(t)]
    BY <2>1, <2>2, ClientMembers
  <2>7. r \notin Starts
    BY ClientKinds
  <2>8. StartOpsStay
    BY <2>1, <2>2, <2>3, <2>4, <2>7 DEF StartOpsStay, StartOp
  <2>9. QED
    BY <1>2, <1>3, <2>5, <2>6, <2>8 DEF StartsUntouched
<1>6. QED
  BY <1>1, <1>4, <1>5 DEF CancelMoves

LEMMA RespondSparesStarts ==
    ASSUME TypeInv, NEW p \in Responds, RespondStep(p)
    PROVE  StartsUntouched /\ status' = status /\ handle' = handle
<1>1. RespondMoves(p) /\ p \in Client /\ p \notin Starts
  BY RespondSteppedMoves, ClientKinds, ClientMembers
<1>2. \A t \in Task : Resume(t) \in Client /\ Resume(t) \notin Starts
  BY ClientKinds, ClientMembers
<1>3. status' = status /\ handle' = handle
  BY DEF RespondStep, tables
<1>4. /\ \E c \in Client : c \notin Starts /\ Grows(c)
      /\ \A t \in Task : pc'[Start(t)] = pc[Start(t)]
  <2>1. pc \in [Client -> RunLabel \cup CallLabel \cup BootLabel]
    BY DEF TypeInv, TypeOK
  <2>2. \A t \in Task : Start(t) \in Client /\ Start(t) \in Starts
    BY ClientMembers
  <2>3. PICK label \in CallLabel :
            \/ Grows(p) /\ pc' = [pc EXCEPT ![p] = label]
            \/ \E t \in Task : /\ Grows(Resume(t))
                               /\ pc' = [pc EXCEPT ![p] = label, ![Resume(t)] = "running"]
    BY <1>1 DEF RespondMoves
  <2>4. CASE Grows(p) /\ pc' = [pc EXCEPT ![p] = label]
    BY <1>1, <2>1, <2>2, <2>4
  <2>5. ASSUME NEW t \in Task, Grows(Resume(t)),
               pc' = [pc EXCEPT ![p] = label, ![Resume(t)] = "running"]
        PROVE  /\ \E c \in Client : c \notin Starts /\ Grows(c)
               /\ \A u \in Task : pc'[Start(u)] = pc[Start(u)]
    BY <1>1, <1>2, <2>1, <2>2, <2>5
  <2>6. QED
    BY <2>3, <2>4, <2>5
<1>5. QED
  BY <1>1, <1>3, <1>4, GrowsSparesStarts DEF RespondMoves, StartsUntouched

LEMMA OthersSpareStarts ==
    ASSUME TypeInv, BootStep \/ (\E s \in Stops : StopStep(s)) \/ UNCHANGED vars
    PROVE  StartsUntouched /\ status' = status /\ handle' = handle
<1>1. CASE BootStep
  <2>1. BootMoves /\ Boot \in Client /\ Boot \notin Starts
    BY <1>1, BootSteppedMoves, ClientKinds, ClientMembers
  <2>2. \A t \in Task : pc'[Start(t)] = pc[Start(t)]
    BY <2>1, ClientMembers DEF BootMoves, TypeInv, TypeOK
  <2>3. QED
    BY <1>1, <2>1, <2>2, GrowsSparesStarts DEF BootMoves, BootStep, StartsUntouched, tables
<1>2. ASSUME NEW s \in Stops, StopStep(s)
      PROVE  StartsUntouched /\ status' = status /\ handle' = handle
  <2>1. StopMoves(s) /\ s \in Client /\ s \notin Starts
    BY <1>2, StopSteppedMoves, ClientKinds, ClientMembers
  <2>2. \A t \in Task : pc'[Start(t)] = pc[Start(t)]
    BY <2>1, ClientMembers DEF StopMoves, TypeInv, TypeOK
  <2>3. status' = status /\ handle' = handle
    BY <1>2 DEF StopStep, tables, supervisorVars, callVars
  <2>4. QED
    BY <2>1, <2>2, <2>3, GrowsSparesStarts DEF StopMoves, StartsUntouched
<1>3. CASE UNCHANGED vars
  BY <1>3 DEF vars, storeVars, runtimeVars, supervisorVars, callVars, StartsUntouched,
     StartOpsStay
<1>4. QED
  BY <1>1, <1>2, <1>3

-----------------------------------------------------------------------------
(* A step of the writer: only an insert adds a row, and it adds the first  *)
(* one under its key.                                                      *)
LEMMA WriterRows ==
    ASSUME TypeInv, WriterTurn
    PROVE  LET op == Head(queue) IN
           /\ op \in Op /\ queue # <<>> /\ queue' = Tail(queue)
           /\ UNCHANGED <<pc, handle>>
           /\ \/ \A t \in Task : Row(t)' <=> Row(t)
              \/ /\ InsertTask(op)
                 /\ \A t \in Task : Row(t)' <=> (Row(t) \/ t = op.task)
           /\ reply' = reply \/ \E a \in Reply :
                 /\ reply' = [reply EXCEPT ![op.by] = a]
                 /\ op.by \in Client
                 /\ op.kind = "create" /\ a = "ok" => InsertTask(op)
<1> DEFINE op == Head(queue)
<1>1. /\ op \in Op /\ queue # <<>> /\ queue' = Tail(queue) /\ Apply(op)
      /\ UNCHANGED <<pc, handle>>
      /\ status \in [Task -> Status \cup {"absent"}]
      /\ op.task \in Task /\ op.by \in Client \cup {Nobody} /\ op.status \in Status
  <2>1. queue # <<>> /\ queue' = Tail(queue) /\ Apply(op)
    BY DEF WriterTurn, WriterStep
  <2>2. UNCHANGED <<pc, handle>>
    BY DEF WriterTurn, runtimeVars, supervisorVars, callVars
  <2>3. queue \in Seq(Op) /\ status \in [Task -> Status \cup {"absent"}]
    BY DEF TypeInv, TypeOK, StoreTypeOK
  <2>4. op \in Op
    BY <2>1, <2>3
  <2>5. QED
    BY <2>1, <2>2, <2>3, <2>4 DEF Op
<1> HIDE DEF op
<1>2. "absent" \notin Status
  BY DEF Status, RecoverableStatus, ActiveStatus, TerminalStatus
<1>3. /\ {"waiting_input", "resuming"} \subseteq Status
      /\ Row(op.task) => EventStatus(op.type, status[op.task]) \in Status
  BY <1>1 DEF EventStatus, Status, RecoverableStatus, ActiveStatus, TerminalStatus, Row
<1>4. ASSUME NEW s, Row(op.task) => s \in Status, status' = Marked(op.task, s)
      PROVE  \A t \in Task : Row(t)' <=> Row(t)
  BY <1>1, <1>2, <1>4 DEF Marked, Row
<1>5. UNCHANGED status => \A t \in Task : Row(t)' <=> Row(t)
  BY DEF Row
<1>6. \A a \in Reply : Answer(op, a) /\ (op.kind = "create" /\ a = "ok" => InsertTask(op))
         => reply' = reply \/ \E b \in Reply :
               /\ reply' = [reply EXCEPT ![op.by] = b]
               /\ op.by \in Client
               /\ op.kind = "create" /\ b = "ok" => InsertTask(op)
  BY <1>1 DEF Answer
<1> DEFINE Goal ==
       /\ \/ \A t \in Task : Row(t)' <=> Row(t)
          \/ /\ InsertTask(op)
             /\ \A t \in Task : Row(t)' <=> (Row(t) \/ t = op.task)
       /\ \E a \in Reply :
             /\ Answer(op, a)
             /\ op.kind = "create" /\ a = "ok" => InsertTask(op)
<1>7. Goal
  <2> USE <1>1, <1>5 DEF Reply
  <2>1. CASE InsertTask(op)
    BY <1>2, <2>1 DEF InsertTask, Row
  <2>2. CASE RefuseDuplicate(op)
    BY <2>2 DEF RefuseDuplicate, tables
  <2>3. CASE UpdateStatus(op)
    BY <1>4, <2>3 DEF UpdateStatus
  <2>4. CASE AppendEvent(op)
    BY <1>3, <1>4, <2>4 DEF AppendEvent
  <2>5. CASE RefuseEvent(op)
    BY <2>5 DEF RefuseEvent, tables
  <2>6. CASE SaveCheckpoint(op)
    BY <1>3, <1>4, <2>6 DEF SaveCheckpoint
  <2>7. CASE ConsumeCheckpoint(op)
    BY <1>3, <1>4, <2>7 DEF ConsumeCheckpoint
  <2>8. CASE MissCheckpoint(op)
    BY <2>8 DEF MissCheckpoint, tables
  <2>9. CASE NextGeneration(op)
    BY <2>9 DEF NextGeneration
  <2>10. CASE StopTopicPrefix(op)
    BY <2>10 DEF StopTopicPrefix
  <2>11. CASE LifecycleLog(op)
    BY <2>11 DEF LifecycleLog, tables
  <2>12. QED
    BY <2>1, <2>2, <2>3, <2>4, <2>5, <2>6, <2>7, <2>8, <2>9, <2>10, <2>11 DEF Apply
<1>8. reply' = reply \/ \E b \in Reply :
          /\ reply' = [reply EXCEPT ![op.by] = b]
          /\ op.by \in Client
          /\ op.kind = "create" /\ b = "ok" => InsertTask(op)
  BY <1>6, <1>7
<1>9. QED
  BY <1>1, <1>7, <1>8 DEF op

LEMMA WriterKeeps ==
    ASSUME KeyInv, TypeInv', WriterTurn
    PROVE  KeyInv'
<1> DEFINE op == Head(queue)
<1>1. /\ op \in Op /\ queue # <<>> /\ queue' = Tail(queue) /\ op = queue[1]
      /\ queue \in Seq(Op)
      /\ UNCHANGED <<pc, handle>>
      /\ reply \in [Client -> Reply]
  BY WriterRows DEF KeyInv, TypeInv, TypeOK, StoreTypeOK
<1>2. \/ \A t \in Task : Row(t)' <=> Row(t)
      \/ InsertTask(op) /\ \A t \in Task : Row(t)' <=> (Row(t) \/ t = op.task)
  BY WriterRows DEF KeyInv
<1>3. reply' = reply \/ \E a \in Reply :
          /\ reply' = [reply EXCEPT ![op.by] = a]
          /\ op.by \in Client
          /\ op.kind = "create" /\ a = "ok" => InsertTask(op)
  BY WriterRows DEF KeyInv
<1> HIDE DEF op
<1>4. /\ Len(queue') = Len(queue) - 1
      /\ \A i \in 1 .. Len(queue') : /\ i + 1 \in 1 .. Len(queue) /\ i + 1 # 1
                                     /\ queue'[i] = queue[i + 1]
      /\ 1 \in 1 .. Len(queue)
  BY <1>1
<1>5. ASSUME NEW i \in 1 .. Len(queue'), NEW t \in Task, queue'[i].by = Start(t)
      PROVE  /\ pc'[Start(t)] = queue'[i].kind
             /\ queue'[i].kind \in {"generation", "create"}
             /\ queue'[i].task = t
             /\ reply'[Start(t)] = "none"
  <2>1. queue[i + 1].by = Start(t) /\ op.by # Start(t)
    BY <1>1, <1>4, <1>5 DEF KeyInv, OneWrite
  <2>2. reply[Start(t)] = "none" /\ pc[Start(t)] = queue[i + 1].kind
        /\ queue[i + 1].kind \in {"generation", "create"} /\ queue[i + 1].task = t
    BY <1>4, <2>1 DEF KeyInv, StartWaits
  <2>3. reply'[Start(t)] = "none"
    BY <1>1, <1>3, <2>1, <2>2, ClientMembers
  <2>4. QED
    BY <1>1, <1>4, <2>2, <2>3
<1>6. StartWaits'
  BY <1>5 DEF StartWaits
<1>7. OneWrite'
  BY <1>1, <1>4 DEF KeyInv, OneWrite
<1>8. ASSUME NEW t \in Task, pc'[Start(t)] = "create", reply'[Start(t)] = "ok"
      PROVE  Row(t)'
  <2>1. pc[Start(t)] = "create" /\ Start(t) \in Client
    BY <1>1, <1>8, ClientMembers
  <2>2. CASE reply[Start(t)] = "ok"
    BY <1>2, <2>1, <2>2 DEF KeyInv, CreatedHasRow
  <2>3. CASE reply[Start(t)] # "ok"
    <3>1. PICK a \in Reply :
              /\ reply' = [reply EXCEPT ![op.by] = a]
              /\ op.by \in Client
              /\ op.kind = "create" /\ a = "ok" => InsertTask(op)
      BY <1>3, <1>8, <2>3
    <3>2. op.by = Start(t) /\ a = "ok"
      BY <1>1, <1>8, <2>1, <2>3, <3>1
    <3>3. op.kind = "create" /\ op.task = t
      BY <1>1, <1>4, <2>1, <3>2 DEF KeyInv, StartWaits
    <3>4. InsertTask(op)
      BY <3>1, <3>2, <3>3
    <3>5. status \in [Task -> Status \cup {"absent"}] /\ op.status \in Status
          /\ status' = [status EXCEPT ![t] = op.status]
      BY <1>1, <3>3, <3>4 DEF KeyInv, TypeInv, TypeOK, StoreTypeOK, Op, InsertTask
    <3>6. QED
      BY <3>5 DEF Row, Status, RecoverableStatus, ActiveStatus, TerminalStatus
  <2>4. QED
    BY <2>2, <2>3
<1>9. OneRowPerKey'
  <2>1. CASE \A t \in Task : Row(t)' <=> Row(t)
    BY <2>1 DEF KeyInv, OneRowPerKey
  <2>2. CASE InsertTask(op) /\ \A t \in Task : Row(t)' <=> (Row(t) \/ t = op.task)
    <3>1. op.task \in Task /\ \A t \in Task : Row(t) => KeyOf[t] # KeyOf[op.task]
      BY <1>1, <2>2 DEF InsertTask, RowsUnder, Op
    <3>2. QED
      BY <2>2, <3>1 DEF KeyInv, OneRowPerKey
  <2>3. QED
    BY <1>2, <2>1, <2>2
<1>10. CreatedHasRow' /\ AnsweredAtEnd'
  BY <1>1, <1>8 DEF KeyInv, CreatedHasRow, AnsweredAtEnd
<1>11. QED
  BY <1>6, <1>7, <1>9, <1>10 DEF KeyInv

LEMMA GoneKeeps ==
    ASSUME KeyInv, TypeInv', NEW c \in Callers, CallerCancelled(c)
    PROVE  KeyInv'
<1>1. /\ c \in Client /\ pc' = [pc EXCEPT ![c] = "gone"]
      /\ queue' = Disowned(c) /\ UNCHANGED <<status, reply, handle>>
  BY ClientMembers DEF CallerCancelled, Goto, Callers, tables, supervisorVars, callVars
<1>2. queue \in Seq(Op) /\ pc \in [Client -> RunLabel \cup CallLabel \cup BootLabel]
      /\ Nobody \notin Client
  BY StoreConstants DEF KeyInv, TypeInv, TypeOK, StoreTypeOK
<1>3. /\ Len(queue') = Len(queue)
      /\ \A i \in 1 .. Len(queue) :
            /\ queue'[i].by # c
            /\ queue'[i].by # Nobody => queue'[i] = queue[i]
  BY <1>1, <1>2, DisownedKeeps
<1>4. \A t \in Task :
          /\ Start(t) \in Client /\ Start(t) # Nobody
          /\ Start(t) # c => pc'[Start(t)] = pc[Start(t)]
          /\ Start(t) = c => pc'[Start(t)] = "gone"
  BY <1>1, <1>2, ClientMembers
<1>5. StartWaits' /\ OneWrite'
  BY <1>1, <1>3, <1>4 DEF KeyInv, StartWaits, OneWrite
<1>6. CreatedHasRow' /\ OneRowPerKey' /\ AnsweredAtEnd'
  BY <1>1, <1>4 DEF KeyInv, CreatedHasRow, OneRowPerKey, AnsweredAtEnd, Row, EndLabel
<1>7. QED
  BY <1>5, <1>6 DEF KeyInv

LEMMA CrashKeeps ==
    ASSUME KeyInv, TypeInv', Crash
    PROVE  KeyInv'
<1>1. /\ Len(queue') = 0 /\ \A c \in Client : reply'[c] = "none"
      /\ UNCHANGED <<status, handle>>
  BY DEF Crash, tables, callVars
<1>2. \A t \in Task :
          /\ Start(t) \in Client
          /\ pc[Start(t)] \in EndLabel => pc'[Start(t)] \in EndLabel
  BY ClientMembers, ClientKinds DEF Crash, EndLabel
<1>3. StartWaits' /\ OneWrite'
  BY <1>1 DEF StartWaits, OneWrite
<1>4. CreatedHasRow' /\ OneRowPerKey' /\ AnsweredAtEnd'
  BY <1>1, <1>2 DEF KeyInv, CreatedHasRow, OneRowPerKey, AnsweredAtEnd, Row
<1>5. QED
  BY <1>3, <1>4 DEF KeyInv

-----------------------------------------------------------------------------
(* What a step of the start t may do: nothing of its own is queued before, *)
(* it queues at most the write it then waits for (or the first one of the  *)
(* run it spawned), and it is answered with a row under its key.           *)
StartForm(t) ==
    /\ \A i \in 1 .. Len(queue) : queue[i].by # Start(t)
    /\ pc[Start(t)] \notin EndLabel
    /\ reply'[Start(t)] = "none"
    /\ \A u \in Task \ {t} :
          reply'[Start(u)] = reply[Start(u)] /\ pc'[Start(u)] = pc[Start(u)]
    /\ \/ queue' = queue
       \/ \E op \in Op :
             /\ queue' = Append(queue, op)
             /\ op.task = t /\ op.id = "own"
             /\ \/ op.by \in Runs /\ ~StartOp(op)
                \/ /\ op.by = Start(t)
                   /\ op.kind = pc'[Start(t)]
                   /\ op.kind \in {"generation", "create"}
    /\ \/ handle' = handle
       \/ \E u \in RowsUnder(KeyOf[t]) :
             handle' = [handle EXCEPT ![t] = u] /\ pc'[Start(t)] = "returned"

LEMMA StartSteppedForm ==
    ASSUME KeyInv, NEW t \in Task, StartStep(t)
    PROVE  StartForm(t)
<1> DEFINE c == Start(t)
           Alone == \A i \in 1 .. Len(queue) : queue[i].by # c
           Others == \A u \in Task \ {t} : /\ reply'[Start(u)] = reply[Start(u)]
                                           /\ pc'[Start(u)] = pc[Start(u)]
<1>1. /\ queue \in Seq(Op) /\ reply \in [Client -> Reply] /\ allotted \in [Task -> Nat]
      /\ pc \in [Client -> RunLabel \cup CallLabel \cup BootLabel]
      /\ decision \in [Task -> {"pending", "waiting_resource"}]
      /\ c \in Client /\ Run(t) \in Runs /\ Run(t) \in Client /\ Run(t) # c
      /\ \A u \in Task : Start(u) \in Client /\ Start(u) # Run(t)
  <2>1. /\ queue \in Seq(Op) /\ reply \in [Client -> Reply] /\ allotted \in [Task -> Nat]
        /\ pc \in [Client -> RunLabel \cup CallLabel \cup BootLabel]
        /\ decision \in [Task -> {"pending", "waiting_resource"}]
    BY DEF KeyInv, TypeInv, TypeOK, StoreTypeOK
  <2>2. /\ c \in Client /\ Run(t) \in Runs /\ Run(t) \in Client
        /\ \A u \in Task : Start(u) \in Client
    BY ClientMembers
  <2>3. \A u \in Task : Start(u) # Run(t)
    BY DEF Start, Run
  <2>4. QED
    BY <2>1, <2>2, <2>3
<1>2. \A u \in Task : u # t => Start(u) # c
  BY ClientKinds
<1>3. /\ pc[c] \notin {"generation", "create"} => Alone
      /\ reply[c] # "none" => Alone
  BY DEF KeyInv, StartWaits
<1>4. \A label, l, a :
          Wake(c, label, a) /\ a # "none" /\ pc' = [pc EXCEPT ![c] = l]
            => pc[c] = label /\ Alone /\ Others /\ reply'[c] = "none" /\ pc'[c] = l
  BY <1>1, <1>2, <1>3 DEF Wake
<1>5. \A l : Quiet /\ UNCHANGED reply /\ pc' = [pc EXCEPT ![c] = l]
            => Others /\ reply'[c] = "none" /\ pc'[c] = l
  BY <1>1, <1>2 DEF Quiet
<1>6. \A g \in Nat :
          /\ CreateOp(c, t, decision[t], g) \in Op
          /\ CreateOp(c, t, decision[t], g).kind = "create"
          /\ CreateOp(c, t, decision[t], g).by = c
          /\ CreateOp(c, t, decision[t], g).task = t
          /\ CreateOp(c, t, decision[t], g).id = "own"
  <2>1. decision[t] \in Status
    BY <1>1, StatusKinds
  <2>2. QED
    BY <1>1, <2>1, OpTyped DEF CreateOp, MakeOp
<1>7. /\ MakeOp(c, "generation", t) \in Op /\ MakeOp(c, "generation", t).kind = "generation"
      /\ MakeOp(c, "generation", t).by = c /\ MakeOp(c, "generation", t).task = t
      /\ MakeOp(c, "generation", t).id = "own"
  BY <1>1, OpTyped DEF OpKind, MakeOp
<1>8. SubmitRow(t) => /\ pc' = [pc EXCEPT ![c] = "create"]
                      /\ \E op \in Op :
                            /\ queue' = Append(queue, op)
                            /\ op.by = c /\ op.task = t /\ op.kind = "create"
                            /\ op.id = "own"
  BY <1>1, <1>6, GenerationTyped DEF SubmitRow, Submit, Goto
<1> USE <1>1, <1>3 DEF StartForm
<1> HIDE DEF c, Alone, Others
<1>11. CASE Quiet /\ StartCall(t)
  BY <1>5, <1>11 DEF StartCall, Goto, EndLabel, c, Alone, Others
<1>12. CASE Quiet /\ ReadReplaced(t)
  BY <1>5, <1>12 DEF ReadReplaced, Goto, EndLabel, c, Alone, Others
<1>13. CASE Quiet /\ ReadKey(t)
  BY <1>5, <1>13 DEF ReadKey, ReturnHandle, Goto, EndLabel, c, Alone, Others
<1>14. CASE Quiet /\ PassGate(t)
  BY <1>5, <1>14 DEF PassGate, Decide, Goto, EndLabel, c, Alone, Others
<1>15. CASE Quiet /\ Admit(t)
  <2>1. CASE ~Draws(t)
    BY <1>5, <1>8, <1>15, <2>1 DEF Admit, Draws, EndLabel, c, Alone, Others
  <2>2. CASE Draws(t)
    BY <1>5, <1>7, <1>15, <2>2 DEF Admit, Draws, Submit, Goto, EndLabel, c, Alone, Others
  <2>3. QED
    BY <2>1, <2>2
<1>16. CASE Quiet /\ Reread(t)
  BY <1>5, <1>16 DEF Reread, ReturnHandle, Goto, EndLabel, c, Alone, Others
<1>17. CASE GenerationAllotted(t)
  <2>1. Wake(c, "generation", "ok") /\ SubmitRow(t) /\ handle' = handle
    BY <1>17 DEF GenerationAllotted, c
  <2>2. /\ Alone /\ Others /\ reply'[c] = "none"
        /\ pc[c] = "generation" /\ pc'[c] = "create"
    BY <1>4, <1>8, <2>1
  <2>3. QED
    BY <1>8, <2>1, <2>2 DEF EndLabel, c, Alone, Others
<1>18. CASE RowCreated(t)
  <2>1. t \in RowsUnder(KeyOf[t]) /\ handle' = [handle EXCEPT ![t] = t]
    BY <1>18 DEF RowCreated, Wake, KeyInv, CreatedHasRow, RowsUnder
  <2>2. Wake(c, "create", "ok")
    BY <1>18 DEF RowCreated, c
  <2>3. CASE decision[t] = "pending" /\ RuntimeEnabled
    <3>1. Spawn(Run(t)) /\ pc' = [pc EXCEPT ![c] = "returned", ![Run(t)] = "running"]
      BY <1>18, <2>3 DEF RowCreated, c
    <3>2. Alone /\ Others /\ reply'[c] = "none" /\ pc'[c] = "returned" /\ pc[c] = "create"
      BY <1>2, <2>2, <3>1 DEF Wake, Others
    <3>3. StatusOp(Run(t), TaskOf(Run(t)), "running") \in Op
          /\ StatusOp(Run(t), TaskOf(Run(t)), "running").by = Run(t)
          /\ StatusOp(Run(t), TaskOf(Run(t)), "running").kind = "status"
          /\ StatusOp(Run(t), TaskOf(Run(t)), "running").task = t
          /\ StatusOp(Run(t), TaskOf(Run(t)), "running").id = "own"
      BY ClientMembers, OpTyped, StatusKinds DEF StatusOp, MakeOp, TaskOf, Run
    <3>4. QED
      BY <2>1, <3>1, <3>2, <3>3 DEF Spawn, StartOp, Submit, EndLabel, c, Alone, Others
  <2>4. CASE ~(decision[t] = "pending" /\ RuntimeEnabled)
    <3>1. pc' = [pc EXCEPT ![c] = "returned"] /\ queue' = queue
      BY <1>18, <2>4 DEF RowCreated, Goto, c
    <3>2. Alone /\ Others /\ reply'[c] = "none" /\ pc'[c] = "returned" /\ pc[c] = "create"
      BY <1>4, <2>2, <3>1
    <3>3. QED
      BY <2>1, <3>1, <3>2 DEF EndLabel, c, Alone, Others
  <2>5. QED
    BY <2>3, <2>4
<1>19. CASE RowRefused(t)
  BY <1>4, <1>19 DEF RowRefused, Goto, EndLabel, c, Alone, Others
<1>20. QED
  BY <1>11, <1>12, <1>13, <1>14, <1>15, <1>16, <1>17, <1>18, <1>19
     DEF StartStep, StartSteps, StartResumes

LEMMA StartKeeps ==
    ASSUME KeyInv, TypeInv', NEW t \in Task, StartStep(t)
    PROVE  KeyInv'
<1>1. StartForm(t) /\ status' = status
  BY StartSteppedForm DEF StartStep, tables
<1>2. /\ queue \in Seq(Op) /\ handle \in [Task -> Task \cup {NoTask}]
      /\ \A u \in Task : Start(u) \notin Runs /\ (u # t => Start(u) # Start(t))
  <2>1. queue \in Seq(Op) /\ handle \in [Task -> Task \cup {NoTask}]
    BY DEF KeyInv, TypeInv, TypeOK, StoreTypeOK
  <2>2. \A u \in Task : Start(u) \notin Runs
    BY ClientKinds
  <2>3. \A u \in Task : u # t => Start(u) # Start(t)
    BY DEF Start
  <2>4. QED
    BY <2>1, <2>2, <2>3
<1>3. CreatedHasRow' /\ OneRowPerKey'
  BY <1>1 DEF KeyInv, StartForm, CreatedHasRow, OneRowPerKey, Row
<1>4. AnsweredAtEnd'
  <2>1. \A u \in Task : u # t => handle'[u] = handle[u]
    BY <1>1, <1>2 DEF StartForm
  <2>2. handle'[t] # NoTask => pc'[Start(t)] \in EndLabel
    BY <1>1, <1>2 DEF StartForm, KeyInv, AnsweredAtEnd, EndLabel
  <2>3. QED
    BY <1>1, <2>1, <2>2 DEF StartForm, KeyInv, AnsweredAtEnd
<1>5. CASE queue' = queue
  BY <1>1, <1>3, <1>4, <1>5 DEF KeyInv, StartForm, StartWaits, OneWrite
<1>6. ASSUME NEW op \in Op, queue' = Append(queue, op),
             \/ op.by \in Runs
             \/ /\ op.by = Start(t) /\ op.task = t
                /\ op.kind = pc'[Start(t)]
                /\ op.kind \in {"generation", "create"}
      PROVE  KeyInv'
  <2>1. /\ Len(queue') = Len(queue) + 1 /\ queue'[Len(queue) + 1] = op
        /\ \A i \in 1 .. Len(queue) : queue'[i] = queue[i]
        /\ \A i \in 1 .. Len(queue') : i \in 1 .. Len(queue) \/ i = Len(queue) + 1
    BY <1>2, <1>6
  <2>2. ASSUME NEW i \in 1 .. Len(queue'), NEW u \in Task, queue'[i].by = Start(u)
        PROVE  /\ pc'[Start(u)] = queue'[i].kind
               /\ queue'[i].kind \in {"generation", "create"}
               /\ queue'[i].task = u
               /\ reply'[Start(u)] = "none"
    <3>1. CASE i \in 1 .. Len(queue)
      BY <1>1, <2>1, <2>2, <3>1 DEF KeyInv, StartForm, StartWaits
    <3>2. CASE i = Len(queue) + 1
      BY <1>1, <1>2, <1>6, <2>1, <2>2, <3>2 DEF StartForm
    <3>3. QED
      BY <2>1, <3>1, <3>2
  <2>3. ASSUME NEW i \in 1 .. Len(queue'), NEW j \in 1 .. Len(queue'), NEW u \in Task,
               queue'[i].by = Start(u), queue'[j].by = Start(u)
        PROVE  i = j
    <3>1. i \in 1 .. Len(queue) /\ j \in 1 .. Len(queue) => i = j
      BY <2>1, <2>3 DEF KeyInv, OneWrite
    <3>2. op.by = Start(u) => i \notin 1 .. Len(queue) /\ j \notin 1 .. Len(queue)
      BY <1>1, <1>2, <1>6, <2>1, <2>3 DEF StartForm
    <3>3. QED
      BY <2>1, <2>3, <3>1, <3>2
  <2>4. StartWaits' /\ OneWrite'
    BY <2>2, <2>3 DEF StartWaits, OneWrite
  <2>5. QED
    BY <1>3, <1>4, <2>4 DEF KeyInv
<1>7. QED
  BY <1>1, <1>5, <1>6 DEF StartForm

-----------------------------------------------------------------------------
LEMMA KeyInit == Init => KeyInv
<1> SUFFICES ASSUME Init PROVE KeyInv
  OBVIOUS
<1>1. /\ queue = <<>> /\ \A t \in Task : ~Row(t) /\ handle[t] = NoTask
      /\ \A c \in Client : reply[c] = "none"
  BY DEF Init, StoreInit, Row
<1>2. QED
  BY <1>1, TypeInit, ClientMembers
     DEF KeyInv, StartWaits, OneWrite, CreatedHasRow, OneRowPerKey, AnsweredAtEnd

LEMMA KeyStep == KeyInv /\ [Next]_vars => KeyInv'
<1> SUFFICES ASSUME KeyInv, [Next]_vars PROVE KeyInv'
  OBVIOUS
<1>1. TypeInv /\ TypeInv'
  BY TypeStep DEF KeyInv
<1>2. CASE AllSettled \/ UNCHANGED vars
  BY <1>1, <1>2, OthersSpareStarts, UntouchedKeeps DEF AllSettled
<1>3. QED
  BY <1>1, <1>2, WriterKeeps, StartKeeps, GoneKeeps, CrashKeeps, UntouchedKeeps,
     RunSparesStarts, CancelSparesStarts, RespondSparesStarts, OthersSpareStarts DEF Next

-----------------------------------------------------------------------------
(* The refinement.  With one row per key, CHOOSE has no choice.            *)
LEMMA TheOnly ==
    ASSUME NEW S, NEW t \in S, \A u \in S : u = t
    PROVE  S # {} /\ (CHOOSE u \in S : TRUE) = t
OBVIOUS

LEMMA ClaimIs ==
    ASSUME OneRowPerKey
    PROVE  /\ \A t \in Task : Row(t) => ClaimOf(KeyOf[t]) = t
           /\ \A k \in Key : (\A t \in Task : Row(t) => KeyOf[t] # k) => ClaimOf(k) = NoTask
<1>1. ASSUME NEW t \in Task, Row(t)
      PROVE  ClaimOf(KeyOf[t]) = t
  <2>1. t \in RowsUnder(KeyOf[t]) /\ \A u \in RowsUnder(KeyOf[t]) : u = t
    BY <1>1 DEF RowsUnder, OneRowPerKey
  <2>2. QED
    BY <2>1, TheOnly DEF ClaimOf
<1>2. QED
  BY <1>1 DEF ClaimOf, RowsUnder

LEMMA ClaimBecomes ==
    ASSUME OneRowPerKey'
    PROVE  /\ \A t \in Task : Row(t)' => ClaimOf(KeyOf[t])' = t
           /\ \A k \in Key : (\A t \in Task : Row(t)' => KeyOf[t] # k) => ClaimOf(k)' = NoTask
<1>1. ASSUME NEW t \in Task, Row(t)'
      PROVE  ClaimOf(KeyOf[t])' = t
  <2>1. t \in RowsUnder(KeyOf[t])' /\ \A u \in RowsUnder(KeyOf[t])' : u = t
    BY <1>1 DEF RowsUnder, OneRowPerKey
  <2>2. QED
    BY <2>1, TheOnly DEF ClaimOf
<1>2. QED
  BY <1>1 DEF ClaimOf, RowsUnder

LEMMA ClaimsStay ==
    ASSUME OneRowPerKey, OneRowPerKey', \A t \in Task : Row(t)' <=> Row(t)
    PROVE  [k \in Key |-> ClaimOf(k)]' = [k \in Key |-> ClaimOf(k)]
<1>1. ASSUME NEW k \in Key
      PROVE  ClaimOf(k)' = ClaimOf(k)
  <2>1. CASE \A t \in Task : Row(t) => KeyOf[t] # k
    BY <2>1, ClaimIs, ClaimBecomes
  <2>2. CASE \E t \in Task : Row(t) /\ KeyOf[t] = k
    BY <2>2, ClaimIs, ClaimBecomes
  <2>3. QED
    BY <2>1, <2>2
<1>2. QED
  BY <1>1

(* An insert that succeeds is the claim of its key. *)
LEMMA InsertClaims ==
    ASSUME KeyInv, OneRowPerKey', NEW op \in Op, InsertTask(op), UNCHANGED handle,
           \A t \in Task : Row(t)' <=> (Row(t) \/ t = op.task)
    PROVE  Idempotent!Claim(op.task)
<1> DEFINE t == op.task
           claim == [k \in Key |-> ClaimOf(k)]
<1>1. t \in Task /\ KeyOf[t] \in Key /\ \A u \in Task : Row(u) => KeyOf[u] # KeyOf[t]
  BY StoreConstants DEF Op, InsertTask, RowsUnder
<1>2. claim[KeyOf[t]] = NoTask
  BY <1>1, ClaimIs DEF KeyInv
<1>3. ASSUME NEW k \in Key
      PROVE  ClaimOf(k)' = IF k = KeyOf[t] THEN t ELSE ClaimOf(k)
  <2>1. CASE k = KeyOf[t]
    BY <1>1, <2>1, ClaimBecomes
  <2>2. CASE k # KeyOf[t] /\ \A u \in Task : Row(u) => KeyOf[u] # k
    BY <1>1, <2>2, ClaimIs, ClaimBecomes DEF KeyInv
  <2>3. CASE k # KeyOf[t] /\ \E u \in Task : Row(u) /\ KeyOf[u] = k
    BY <2>3, ClaimIs, ClaimBecomes DEF KeyInv
  <2>4. QED
    BY <2>1, <2>2, <2>3
<1>4. claim' = [claim EXCEPT ![KeyOf[t]] = t]
  BY <1>3
<1>5. QED
  BY <1>1, <1>2, <1>4 DEF Idempotent!Claim

(* A start is answered with the task its key stands for. *)
LEMMA StartAnswers ==
    ASSUME KeyInv, OneRowPerKey', NEW t \in Task, StartStep(t)
    PROVE  \/ Idempotent!Answer(t)
           \/ UNCHANGED <<[k \in Key |-> ClaimOf(k)], handle>>
<1>1. StartForm(t) /\ UNCHANGED status
  BY StartSteppedForm DEF StartStep, tables
<1>2. UNCHANGED [k \in Key |-> ClaimOf(k)]
  BY <1>1, ClaimsStay DEF KeyInv, Row
<1>3. CASE handle' = handle
  BY <1>2, <1>3
<1>4. ASSUME NEW u \in RowsUnder(KeyOf[t]), handle' = [handle EXCEPT ![t] = u],
             pc[Start(t)] \notin EndLabel
      PROVE  Idempotent!Answer(t)
  <2>1. KeyOf[t] \in Key /\ u \in Task /\ Row(u) /\ KeyOf[u] = KeyOf[t] /\ u # NoTask
    BY StoreConstants, SupervisorConstants DEF RowsUnder
  <2>2. [k \in Key |-> ClaimOf(k)][KeyOf[t]] = u
    BY <2>1, ClaimIs DEF KeyInv
  <2>3. handle[t] = NoTask
    BY <1>4 DEF KeyInv, AnsweredAtEnd
  <2>4. QED
    BY <1>2, <1>4, <2>1, <2>2, <2>3 DEF Idempotent!Answer
<1>5. QED
  BY <1>1, <1>3, <1>4 DEF StartForm

LEMMA ClaimInit == Init => Idempotent!Init
<1> SUFFICES ASSUME Init PROVE Idempotent!Init
  OBVIOUS
<1>1. \A k \in Key : RowsUnder(k) = {}
  BY DEF Init, StoreInit, RowsUnder, Row
<1>2. QED
  BY <1>1 DEF Init, Idempotent!Init, ClaimOf

LEMMA ClaimStep == KeyInv /\ KeyInv' /\ [Next]_vars => [Idempotent!Next]_(Idempotent!claimVars)
<1> SUFFICES ASSUME KeyInv, KeyInv', [Next]_vars
             PROVE  [Idempotent!Next]_(Idempotent!claimVars)
  OBVIOUS
<1>1. TypeInv /\ OneRowPerKey /\ OneRowPerKey'
  BY DEF KeyInv
<1>2. ASSUME UNCHANGED <<status, handle>>
      PROVE  UNCHANGED Idempotent!claimVars
  BY <1>1, <1>2, ClaimsStay DEF Idempotent!claimVars, Row
<1>3. CASE WriterTurn
  <2>1. CASE \A t \in Task : Row(t)' <=> Row(t)
    BY <1>1, <1>3, <2>1, WriterRows, ClaimsStay DEF Idempotent!claimVars
  <2>2. CASE ~ \A t \in Task : Row(t)' <=> Row(t)
    <3>1. /\ Head(queue) \in Op /\ InsertTask(Head(queue)) /\ UNCHANGED handle
          /\ \A t \in Task : Row(t)' <=> (Row(t) \/ t = Head(queue).task)
      BY <1>1, <1>3, <2>2, WriterRows
    <3>2. Idempotent!Claim(Head(queue).task) /\ Head(queue).task \in Task
      BY <1>1, <3>1, InsertClaims DEF Op
    <3>3. QED
      BY <3>2 DEF Idempotent!Next
  <2>3. QED
    BY <2>1, <2>2
<1>4. ASSUME NEW t \in Task, StartStep(t)
      PROVE  [Idempotent!Next]_(Idempotent!claimVars)
  BY <1>1, <1>4, StartAnswers DEF Idempotent!Next, Idempotent!claimVars
<1>5. CASE (\E c \in Callers : CallerCancelled(c)) \/ Crash
  BY <1>2, <1>5 DEF CallerCancelled, Crash, tables, supervisorVars, callVars
<1>6. CASE AllSettled \/ UNCHANGED vars
  BY <1>1, <1>2, <1>6, OthersSpareStarts DEF AllSettled
<1>7. QED
  BY <1>1, <1>2, <1>3, <1>4, <1>5, <1>6, RunSparesStarts, CancelSparesStarts,
     RespondSparesStarts, OthersSpareStarts DEF Next

(* Every caller that starts a task under one idempotency key is answered   *)
(* with the one task that key stands for, for any number of starts, keys,  *)
(* topics and callers: SqliteAgentTaskStore.create, its unique index and   *)
(* the DuplicateTaskError path of start_agent_task.                        *)
THEOREM StartIsIdempotent == Spec => RefinesIdempotentStart
<1>1. Init => KeyInv /\ Idempotent!Init
  BY KeyInit, ClaimInit
<1>2. KeyInv /\ [Next]_vars => KeyInv'
  BY KeyStep
<1>3. KeyInv /\ KeyInv' /\ [Next]_vars => [Idempotent!Next]_(Idempotent!claimVars)
  BY ClaimStep
<1>4. QED
  BY <1>1, <1>2, <1>3, PTL DEF Spec, RefinesIdempotentStart, Idempotent!Spec

-----------------------------------------------------------------------------
(***************************************************************************)
(* Generations of a topic are unique, and a stop marker never reaches one  *)
(* that is not allotted yet, unless a caller gave one that is as high.     *)
(***************************************************************************)

(* An allotment or an insert is waited for by its start, or its start was  *)
(* cancelled.                                                              *)
SubmittedByStart ==
    \A i \in 1 .. Len(queue) : StartOp(queue[i]) =>
        queue[i].by = Start(queue[i].task) \/ pc[Start(queue[i].task)] = "gone"

(* The generation of a task is settled before its row is submitted: it     *)
(* cannot change under an insert that carries it.                          *)
AllotsFirst ==
    \A i \in 1 .. Len(queue) : queue[i].kind = "generation" =>
        /\ ~Row(queue[i].task)
        /\ \A j \in 1 .. Len(queue) :
              queue[j].kind = "create" => queue[j].task # queue[i].task

Early == {"idle", "read_old", "read_key", "gate", "admit", "generation"}
EarlyHasNoRow == \A t \in Task : pc[Start(t)] \in Early => ~Row(t)

ToldIsAllotted ==
    \A t \in Task :
        pc[Start(t)] = "generation" /\ reply[Start(t)] = "ok" => allotted[t] # 0

(* Insert and row carry the generation the caller gave, or the one that    *)
(* was allotted to the start.                                              *)
Stamped(t, g) ==
    /\ Draws(t) => g = allotted[t] /\ g # 0
    /\ TopicOf[t] # NoTopic /\ ~Draws(t) => g = GivenOf[t]
InsertStamped ==
    \A i \in 1 .. Len(queue) :
        queue[i].kind = "create" => Stamped(queue[i].task, queue[i].gen)
RowStamped == \A t \in Task : Row(t) => Stamped(t, rowGeneration[t])

(* The counter of a topic is ahead of all it has allotted, each once ...   *)
AllottedOnce ==
    \A t \in Task : TopicOf[t] # NoTopic =>
        /\ allotted[t] <= generation[TopicOf[t]]
        /\ \A u \in Task : u # t /\ TopicOf[u] = TopicOf[t] /\ allotted[u] = allotted[t]
               => allotted[t] = 0

(* ... and of its stop marker, but for the generations callers gave. *)
StopsBelow ==
    \A k \in Topic : \A g \in suppressed[k] :
        g \in 1 .. generation[k] \/ GivenAbove(k, g)

TopicInv ==
    /\ KeyInv
    /\ SubmittedByStart
    /\ AllotsFirst
    /\ EarlyHasNoRow
    /\ ToldIsAllotted
    /\ InsertStamped
    /\ RowStamped
    /\ AllottedOnce
    /\ StopsBelow

Topics == <<status, rowGeneration, generation, suppressed, allotted>>

-----------------------------------------------------------------------------
LEMMA QueuedTasks ==
    ASSUME TypeInv
    PROVE  queue \in Seq(Op) /\ \A i \in 1 .. Len(queue) : queue[i].task \in Task
<1>1. queue \in Seq(Op)
  BY DEF TypeInv, TypeOK, StoreTypeOK
<1>2. \A i \in 1 .. Len(queue) : queue[i] \in Op
  BY <1>1
<1>3. \A op \in Op : op.task \in Task
  BY DEF Op
<1>4. QED
  BY <1>1, <1>2, <1>3

LEMMA SparedTopics ==
    ASSUME TopicInv, KeyInv', StartsUntouched, UNCHANGED Topics
    PROVE  TopicInv'
<1>1. \A i \in 1 .. Len(queue') : StartOp(queue'[i]) =>
          /\ i \in 1 .. Len(queue) /\ StartOp(queue[i])
          /\ queue'[i].kind = queue[i].kind
          /\ queue'[i].task = queue[i].task /\ queue'[i].gen = queue[i].gen
          /\ queue[i].by \in Starts => queue'[i].by = queue[i].by
          /\ queue[i].task \in Task
  BY QueuedTasks DEF TopicInv, KeyInv, StartsUntouched, StartOpsStay, StartOp
<1>2. /\ \A t \in Task : /\ Start(t) \in Starts
                         /\ reply'[Start(t)] = reply[Start(t)]
                         /\ pc'[Start(t)] = pc[Start(t)]
      /\ UNCHANGED <<status, rowGeneration, generation, suppressed, allotted>>
  BY ClientMembers DEF StartsUntouched, Topics
<1>3. SubmittedByStart'
  BY <1>1, <1>2 DEF TopicInv, SubmittedByStart
<1>4. AllotsFirst' /\ InsertStamped'
  BY <1>1, <1>2 DEF TopicInv, AllotsFirst, InsertStamped, Stamped, StartOp, Row
<1>5. EarlyHasNoRow' /\ ToldIsAllotted' /\ RowStamped' /\ AllottedOnce' /\ StopsBelow'
  BY <1>2 DEF TopicInv, EarlyHasNoRow, ToldIsAllotted, RowStamped, Stamped, AllottedOnce,
              StopsBelow, GivenAbove, Row
<1>6. QED
  BY <1>3, <1>4, <1>5 DEF TopicInv

LEMMA GoneSparesTopics ==
    ASSUME TopicInv, KeyInv', NEW c \in Callers, CallerCancelled(c)
    PROVE  TopicInv'
<1>1. /\ c \in Client /\ pc' = [pc EXCEPT ![c] = "gone"]
      /\ queue' = Disowned(c) /\ UNCHANGED reply /\ UNCHANGED Topics
  BY ClientMembers DEF CallerCancelled, Goto, Callers, tables, Topics
<1>2. queue \in Seq(Op) /\ pc \in [Client -> RunLabel \cup CallLabel \cup BootLabel]
      /\ \A i \in 1 .. Len(queue) : queue[i].task \in Task
  BY QueuedTasks DEF TopicInv, KeyInv, TypeInv, TypeOK
<1>3. /\ Len(queue') = Len(queue)
      /\ \A i \in 1 .. Len(queue) :
            /\ queue'[i].kind = queue[i].kind
            /\ queue'[i].task = queue[i].task /\ queue'[i].gen = queue[i].gen
            /\ queue[i].by # c => queue'[i].by = queue[i].by
  BY <1>1, <1>2, DisownedKeeps
<1>4. \A t \in Task :
          /\ Start(t) \in Client
          /\ Start(t) # c => pc'[Start(t)] = pc[Start(t)]
          /\ Start(t) = c => pc'[Start(t)] = "gone"
  BY <1>1, <1>2, ClientMembers
<1>5. UNCHANGED <<status, rowGeneration, generation, suppressed, allotted>>
  BY <1>1 DEF Topics
<1>6. SubmittedByStart'
  BY <1>2, <1>3, <1>4 DEF TopicInv, SubmittedByStart, StartOp
<1>7. AllotsFirst' /\ InsertStamped'
  BY <1>3, <1>5 DEF TopicInv, AllotsFirst, InsertStamped, Stamped, Row
<1>8. EarlyHasNoRow' /\ ToldIsAllotted' /\ RowStamped' /\ AllottedOnce' /\ StopsBelow'
  BY <1>1, <1>4, <1>5
     DEF TopicInv, EarlyHasNoRow, Early, ToldIsAllotted, RowStamped, Stamped,
         AllottedOnce, StopsBelow, GivenAbove, Row
<1>9. QED
  BY <1>6, <1>7, <1>8 DEF TopicInv

(* A crash loses the queue; calls that were under way are over. *)
LEMMA CrashSparesTopics ==
    ASSUME TopicInv, KeyInv', Crash
    PROVE  TopicInv'
<1>1. /\ Len(queue') = 0 /\ \A c \in Client : reply'[c] = "none"
      /\ UNCHANGED <<status, rowGeneration, generation, suppressed, allotted>>
  BY DEF Crash, tables
<1>2. \A t \in Task : Start(t) \in Client /\ pc'[Start(t)] \in Early => pc[Start(t)] \in Early
  BY ClientMembers, ClientKinds DEF Crash, EndLabel, Early
<1>3. SubmittedByStart' /\ AllotsFirst' /\ InsertStamped'
  BY <1>1 DEF SubmittedByStart, AllotsFirst, InsertStamped
<1>4. EarlyHasNoRow' /\ ToldIsAllotted' /\ RowStamped' /\ AllottedOnce' /\ StopsBelow'
  BY <1>1, <1>2, ClientMembers
     DEF TopicInv, EarlyHasNoRow, ToldIsAllotted, RowStamped, Stamped, AllottedOnce,
         StopsBelow, GivenAbove, Row
<1>5. QED
  BY <1>3, <1>4 DEF TopicInv
-----------------------------------------------------------------------------
(* The writer. *)
LEMMA WriterCases ==
    ASSUME TopicInv, WriterTurn
    PROVE  LET op == Head(queue) IN
           /\ op = queue[1] /\ op \in Op /\ op.task \in Task
           /\ Len(queue') = Len(queue) - 1 /\ 1 \in 1 .. Len(queue)
           /\ \A i \in 1 .. Len(queue') : /\ i + 1 \in 1 .. Len(queue) /\ i + 1 # 1
                                          /\ queue'[i] = queue[i + 1]
                                          /\ queue[i + 1].task \in Task
           /\ UNCHANGED pc
           /\ \A t \in Task :
                 Row(t)' => \/ Row(t)
                            \/ t = op.task /\ InsertTask(op)
           /\ \/ InsertTask(op) \/ NextGeneration(op) \/ StopTopicPrefix(op)
              \/ /\ op.kind # "generation"
                 /\ UNCHANGED <<rowGeneration, generation, suppressed, allotted>>
<1> DEFINE op == Head(queue)
<1>1. op \in Op /\ queue # <<>> /\ queue' = Tail(queue) /\ UNCHANGED <<pc, handle>>
      /\ (\/ \A t \in Task : Row(t)' <=> Row(t)
          \/ InsertTask(op) /\ \A t \in Task : Row(t)' <=> (Row(t) \/ t = op.task))
  BY WriterRows DEF TopicInv, KeyInv
<1>2. Apply(op)
  BY DEF WriterTurn, WriterStep
<1>3. queue \in Seq(Op) /\ \A i \in 1 .. Len(queue) : queue[i].task \in Task
  BY QueuedTasks DEF TopicInv, KeyInv
<1>4. /\ op = queue[1] /\ Len(queue') = Len(queue) - 1 /\ 1 \in 1 .. Len(queue)
      /\ \A i \in 1 .. Len(queue') : /\ i + 1 \in 1 .. Len(queue) /\ i + 1 # 1
                                     /\ queue'[i] = queue[i + 1]
  BY <1>1, <1>3
<1> HIDE DEF op
<1>5. \/ InsertTask(op) \/ NextGeneration(op) \/ StopTopicPrefix(op)
      \/ /\ op.kind # "generation"
         /\ UNCHANGED <<rowGeneration, generation, suppressed, allotted>>
  BY <1>2 DEF Apply, RefuseDuplicate, UpdateStatus, AppendEvent, RefuseEvent,
     SaveCheckpoint, ConsumeCheckpoint, MissCheckpoint, LifecycleLog, tables
<1>6. QED
  BY <1>1, <1>3, <1>4, <1>5 DEF op

LEMMA WriterSparesTopics ==
    ASSUME TopicInv, KeyInv', WriterTurn
    PROVE  TopicInv'
<1> DEFINE op == Head(queue)
<1>1. /\ op = queue[1] /\ op \in Op /\ op.task \in Task
      /\ Len(queue') = Len(queue) - 1 /\ 1 \in 1 .. Len(queue)
      /\ \A i \in 1 .. Len(queue') : /\ i + 1 \in 1 .. Len(queue) /\ i + 1 # 1
                                     /\ queue'[i] = queue[i + 1]
                                     /\ queue[i + 1].task \in Task
      /\ UNCHANGED pc
      /\ \A t \in Task : Row(t)' => Row(t) \/ (t = op.task /\ InsertTask(op))
  BY WriterCases
<1>2. \/ InsertTask(op) \/ NextGeneration(op) \/ StopTopicPrefix(op)
      \/ /\ op.kind # "generation"
         /\ UNCHANGED <<rowGeneration, generation, suppressed, allotted>>
  BY WriterCases
<1>3. reply' = reply \/ \E a \in Reply : reply' = [reply EXCEPT ![op.by] = a] /\ op.by \in Client
  BY WriterRows DEF TopicInv, KeyInv
<1>4. /\ status \in [Task -> Status \cup {"absent"}] /\ rowGeneration \in [Task -> Nat]
      /\ generation \in [Topic -> Nat] /\ suppressed \in [Topic -> SUBSET Nat]
      /\ allotted \in [Task -> Nat] /\ reply \in [Client -> Reply]
  BY DEF TopicInv, KeyInv, TypeInv, TypeOK, StoreTypeOK
<1>5. TopicOf \in [Task -> Topic \cup {NoTopic}] /\ NoTopic \notin Topic
  BY StoreConstants
<1> HIDE DEF op
<1>6. SubmittedByStart'
  BY <1>1 DEF TopicInv, SubmittedByStart
(* What is executed allots, or inserts, or does neither. *)
<1>7. StartOp(op) => op.by = Start(op.task) \/ pc[Start(op.task)] = "gone"
  BY <1>1 DEF TopicInv, SubmittedByStart
(* No row goes away. *)
<1>19. \A t \in Task : Row(t) => Row(t)'
  BY WriterRows DEF TopicInv, KeyInv
<1>8. EarlyHasNoRow'
  <2>1. ASSUME NEW t \in Task, pc[Start(t)] \in Early, t = op.task, InsertTask(op)
        PROVE  FALSE
    <3>1. op.kind = "create" /\ StartOp(op)
      BY <2>1 DEF InsertTask, StartOp
    <3>2. op.by = Start(t) /\ pc[Start(t)] = "create"
      BY <1>1, <1>7, <2>1, <3>1 DEF TopicInv, KeyInv, StartWaits, Early
    <3>3. QED
      BY <2>1, <3>2 DEF Early
  <2>2. QED
    BY <1>1, <2>1 DEF TopicInv, EarlyHasNoRow
<1>9. op.kind = "generation" => NextGeneration(op)
  BY <1>2 DEF InsertTask, StopTopicPrefix
<1>10. NextGeneration(op) =>
          /\ op.kind = "generation" /\ ~Row(op.task) /\ TopicOf[op.task] \in Topic
          /\ \A j \in 1 .. Len(queue) :
                queue[j].kind = "create" => queue[j].task # op.task
  <2>1. op.kind = "generation" => TopicOf[op.task] # NoTopic
    BY <1>1 DEF TopicInv, KeyInv, TypeInv, GenerationHasTopic, HasTopic
  <2>2. QED
    BY <1>1, <1>5, <2>1 DEF NextGeneration, TopicInv, AllotsFirst
<1>11. AllotsFirst'
  <2>1. ASSUME NEW i \in 1 .. Len(queue'), queue'[i].kind = "generation"
        PROVE  /\ status'[queue'[i].task] = "absent"
               /\ \A j \in 1 .. Len(queue') :
                     queue'[j].kind = "create" => queue'[j].task # queue'[i].task
    <3>1. /\ ~Row(queue[i + 1].task)
          /\ \A j \in 1 .. Len(queue) :
                queue[j].kind = "create" => queue[j].task # queue[i + 1].task
      BY <1>1, <2>1 DEF TopicInv, AllotsFirst
    <3>2. InsertTask(op) => queue[i + 1].task # op.task
      BY <1>1, <3>1 DEF InsertTask
    <3>3. status'[queue[i + 1].task] = "absent"
      BY <1>1, <3>1, <3>2 DEF Row
    <3>4. QED
      BY <1>1, <2>1, <3>1, <3>3
  <2>2. \A i \in 1 .. Len(queue') : queue'[i].kind = "generation" =>
            /\ status'[queue'[i].task] = "absent"
            /\ \A j \in 1 .. Len(queue') :
                  queue'[j].kind = "create" => queue'[j].task # queue'[i].task
    BY <2>1
  <2>3. QED
    BY <2>2 DEF AllotsFirst, Row
<1>12. /\ NextGeneration(op) =>
             /\ UNCHANGED <<status, rowGeneration, suppressed>>
             /\ generation' = [generation EXCEPT ![TopicOf[op.task]] = @ + 1]
             /\ allotted' = [allotted EXCEPT ![op.task] = generation[TopicOf[op.task]] + 1]
       /\ ~NextGeneration(op) => UNCHANGED <<generation, allotted>>
  BY <1>2 DEF NextGeneration, InsertTask, StopTopicPrefix
<1>13. ToldIsAllotted'
  <2>1. ASSUME NEW t \in Task, pc'[Start(t)] = "generation", reply'[Start(t)] = "ok"
        PROVE  allotted'[t] # 0
    <3>1. CASE reply[Start(t)] = "ok"
      BY <1>1, <1>4, <1>10, <1>12, <2>1, <3>1 DEF TopicInv, ToldIsAllotted
    <3>2. CASE reply[Start(t)] # "ok"
      <4>1. op.by = Start(t)
        BY <1>3, <1>4, <2>1, <3>2, ClientMembers
      <4>2. op.kind = "generation" /\ op.task = t
        BY <1>1, <2>1, <4>1 DEF TopicInv, KeyInv, StartWaits
      <4>3. QED
        BY <1>4, <1>9, <1>10, <1>12, <4>2
    <3>3. QED
      BY <3>1, <3>2
  <2>2. QED
    BY <2>1 DEF ToldIsAllotted
<1>14. InsertStamped'
  <2>1. ASSUME NEW i \in 1 .. Len(queue'), queue'[i].kind = "create"
        PROVE  /\ Draws(queue'[i].task)
                     => queue'[i].gen = allotted'[queue'[i].task] /\ queue'[i].gen # 0
               /\ TopicOf[queue'[i].task] # NoTopic /\ ~Draws(queue'[i].task)
                     => queue'[i].gen = GivenOf[queue'[i].task]
    <3>1. /\ queue'[i] = queue[i + 1] /\ i + 1 \in 1 .. Len(queue)
          /\ queue[i + 1].task \in Task
      BY <1>1
    <3>2. Stamped(queue[i + 1].task, queue[i + 1].gen)
      BY <2>1, <3>1 DEF TopicInv, InsertStamped
    <3>3. NextGeneration(op) => queue[i + 1].task # op.task
      BY <1>10, <2>1, <3>1
    <3>4. allotted'[queue[i + 1].task] = allotted[queue[i + 1].task]
      BY <1>1, <1>4, <1>12, <3>1, <3>3
    <3>5. QED
      BY <3>1, <3>2, <3>4 DEF Stamped
  <2>2. QED
    BY <2>1 DEF InsertStamped, Stamped
<1>15. RowStamped'
  <2>1. ASSUME NEW t \in Task, Row(t)'
        PROVE  /\ Draws(t) => rowGeneration'[t] = allotted'[t] /\ rowGeneration'[t] # 0
               /\ TopicOf[t] # NoTopic /\ ~Draws(t) => rowGeneration'[t] = GivenOf[t]
    <3>1. CASE InsertTask(op) /\ t = op.task
      <4>1. op.kind = "create" /\ rowGeneration'[t] = op.gen /\ ~NextGeneration(op)
        BY <1>1, <1>4, <3>1 DEF InsertTask, NextGeneration
      <4>2. Stamped(t, op.gen)
        BY <1>1, <2>1, <3>1, <4>1 DEF TopicInv, InsertStamped
      <4>3. QED
        BY <1>12, <4>1, <4>2 DEF Stamped
    <3>2. CASE ~(InsertTask(op) /\ t = op.task)
      <4>1. Row(t) /\ Stamped(t, rowGeneration[t])
        BY <1>1, <2>1, <3>2 DEF TopicInv, RowStamped
      <4>2. allotted'[t] = allotted[t]
        BY <1>1, <1>4, <1>10, <1>12, <4>1
      <4>3. rowGeneration'[t] = rowGeneration[t]
        BY <1>1, <1>2, <1>4, <1>12, <3>2 DEF InsertTask, StopTopicPrefix
      <4>4. QED
        BY <4>1, <4>2, <4>3 DEF Stamped
    <3>3. QED
      BY <3>1, <3>2
  <2>2. QED
    BY <2>1 DEF RowStamped, Stamped
<1>16. AllottedOnce'
  <2>1. CASE ~NextGeneration(op)
    BY <1>12, <2>1 DEF TopicInv, AllottedOnce
  <2>2. CASE NextGeneration(op)
    <3> DEFINE k == TopicOf[op.task]
    <3>1. /\ k \in Topic /\ generation'[k] = generation[k] + 1
          /\ \A j \in Topic : j # k => generation'[j] = generation[j]
          /\ allotted'[op.task] = generation[k] + 1
          /\ \A t \in Task : t # op.task => allotted'[t] = allotted[t]
      BY <1>1, <1>4, <1>10, <1>12, <2>2
    <3>2. \A t \in Task : /\ TopicOf[t] # NoTopic => TopicOf[t] \in Topic
                          /\ TopicOf[t] = k => allotted[t] <= generation[k]
      BY <1>5, <3>1 DEF TopicInv, AllottedOnce
    <3>3. ASSUME NEW t \in Task, TopicOf[t] # NoTopic
          PROVE  allotted'[t] <= generation'[TopicOf[t]]
      BY <1>4, <3>1, <3>2, <3>3 DEF TopicInv, AllottedOnce
    <3>4. ASSUME NEW t \in Task, TopicOf[t] # NoTopic, NEW u \in Task, u # t,
                 TopicOf[u] = TopicOf[t], allotted'[u] = allotted'[t]
          PROVE  allotted'[t] = 0
      <4>1. CASE t # op.task /\ u # op.task
        BY <3>1, <3>4, <4>1 DEF TopicInv, AllottedOnce
      <4>2. CASE t = op.task \/ u = op.task
        BY <1>1, <1>4, <3>1, <3>2, <3>4, <4>2
      <4>3. QED
        BY <4>1, <4>2
    <3>5. QED
      BY <3>3, <3>4 DEF AllottedOnce
  <2>3. QED
    BY <2>1, <2>2
<1>17. StopsBelow'
  <2>1. CASE StopTopicPrefix(op)
    <3>1. UNCHANGED generation /\ \A k \in Topic :
              suppressed'[k] = suppressed[k] \cup
                  UNION {1 .. rowGeneration[t] : t \in {u \in Task : Row(u) /\ TopicOf[u] = k}}
      BY <2>1 DEF StopTopicPrefix
    <3>2. ASSUME NEW k \in Topic, NEW t \in Task, Row(t), TopicOf[t] = k,
                 NEW g \in 1 .. rowGeneration[t]
          PROVE  g \in 1 .. generation[k] \/ GivenAbove(k, g)
      <4>1. Stamped(t, rowGeneration[t]) /\ allotted[t] <= generation[k] /\ TopicOf[t] # NoTopic
        BY <1>5, <3>2 DEF TopicInv, RowStamped, AllottedOnce
      <4>2. rowGeneration[t] \in Nat /\ generation[k] \in Nat /\ allotted[t] \in Nat
        BY <1>4
      <4>3. CASE Draws(t)
        BY <3>2, <4>1, <4>2, <4>3 DEF Stamped
      <4>4. CASE ~Draws(t)
        BY <3>2, <4>1, <4>4 DEF Stamped, GivenAbove
      <4>5. QED
        BY <4>3, <4>4
    <3>3. ASSUME NEW k \in Topic, NEW g \in suppressed'[k]
          PROVE  g \in 1 .. generation'[k] \/ GivenAbove(k, g)
      <4>1. CASE g \in suppressed[k]
        BY <3>1, <4>1 DEF TopicInv, StopsBelow
      <4>2. CASE \E t \in Task : Row(t) /\ TopicOf[t] = k /\ g \in 1 .. rowGeneration[t]
        BY <3>1, <3>2, <4>2
      <4>3. QED
        BY <3>1, <3>3, <4>1, <4>2
    <3>4. QED
      BY <1>19, <3>3 DEF StopsBelow, GivenAbove
  <2>2. CASE ~StopTopicPrefix(op)
    <3>1. suppressed' = suppressed
      BY <1>2, <1>12, <2>2 DEF InsertTask
    <3>2. ASSUME NEW k \in Topic
          PROVE  generation'[k] \in {generation[k], generation[k] + 1}
      BY <1>4, <1>10, <1>12
    <3>3. ASSUME NEW k \in Topic PROVE 1 .. generation[k] \subseteq 1 .. generation'[k]
      <4>1. generation[k] \in Nat
        BY <1>4
      <4>2. QED
        BY <3>2, <4>1
    <3>4. ASSUME NEW k \in Topic, NEW g \in suppressed[k]
          PROVE  g \in 1 .. generation'[k] \/ GivenAbove(k, g)'
      <4>1. g \in 1 .. generation[k] \/ GivenAbove(k, g)
        BY DEF TopicInv, StopsBelow
      <4>2. GivenAbove(k, g) => GivenAbove(k, g)'
        BY <1>19 DEF GivenAbove
      <4>3. QED
        BY <3>3, <4>1, <4>2
    <3>5. QED
      BY <3>1, <3>4 DEF StopsBelow
  <2>3. QED
    BY <2>1, <2>2
<1>18. QED
  BY <1>6, <1>8, <1>11, <1>13, <1>14, <1>15, <1>16, <1>17 DEF TopicInv
-----------------------------------------------------------------------------
(* A step of the start t.  What it queues for itself is the allotment, once *)
(* it was admitted, or the insert, with what it was allotted.              *)
Allots(t) ==
    /\ pc[Start(t)] = "admit"
    /\ \E op \in Op : /\ queue' = Append(queue, op)
                      /\ op.kind = "generation" /\ op.task = t /\ op.by = Start(t)
Inserts(t) ==
    /\ pc'[Start(t)] \notin Early
    /\ Draws(t) => allotted[t] # 0
    /\ \E op \in Op : /\ queue' = Append(queue, op)
                      /\ op.kind = "create" /\ op.task = t /\ op.by = Start(t)
                      /\ op.gen = GenerationOf(t)

LEMMA StartQueues ==
    ASSUME TopicInv, NEW t \in Task, StartStep(t)
    PROVE  /\ Allots(t) \/ Inserts(t) \/ StartOpsStay
           /\ pc'[Start(t)] \in Early => pc[Start(t)] \in Early
<1> DEFINE c == Start(t)
<1>1. /\ queue \in Seq(Op) /\ allotted \in [Task -> Nat]
      /\ pc \in [Client -> RunLabel \cup CallLabel \cup BootLabel]
      /\ decision[t] \in Status
      /\ c \in Client /\ Run(t) \in Runs /\ Run(t) \in Client /\ Run(t) # c
  <2>1. c \in Client /\ Run(t) \in Runs /\ Run(t) \in Client /\ Run(t) # c
    BY ClientMembers, ClientKinds
  <2>2. /\ queue \in Seq(Op) /\ allotted \in [Task -> Nat]
        /\ pc \in [Client -> RunLabel \cup CallLabel \cup BootLabel]
        /\ decision[t] \in {"pending", "waiting_resource"}
    BY DEF TopicInv, KeyInv, TypeInv, TypeOK, StoreTypeOK
  <2>3. QED
    BY <2>1, <2>2, StatusKinds
<1>2. CreateOp(c, t, decision[t], GenerationOf(t)).gen = GenerationOf(t)
      /\ MakeOp(c, "generation", t).task = t
  BY DEF CreateOp, MakeOp
<1>3. SubmitRow(t) /\ (Draws(t) => allotted[t] # 0) => Inserts(t)
  BY <1>1, <1>2, GenerationTyped, OpTyped DEF SubmitRow, Submit, Goto, Inserts, Early
<1>4. UNCHANGED queue => StartOpsStay
  BY DEF StartOpsStay
<1>5. ASSUME NEW op \in Op, ~StartOp(op), queue' = Append(queue, op)
      PROVE  StartOpsStay
  BY <1>1, <1>5 DEF StartOpsStay
<1> DEFINE Goal == /\ Allots(t) \/ Inserts(t) \/ StartOpsStay
                   /\ pc'[c] \in Early => pc[c] \in Early
<1> HIDE DEF c
<1>6. ASSUME NEW l, pc' = [pc EXCEPT ![c] = l]
      PROVE  pc'[c] = l
  BY <1>1, <1>6
<1>11. CASE StartCall(t) \/ ReadReplaced(t) \/ ReadKey(t) \/ PassGate(t) \/ Reread(t) \/ RowRefused(t)
  BY <1>4, <1>6, <1>11
     DEF StartCall, ReadReplaced, ReadKey, ReturnHandle, PassGate, Decide, Reread, RowRefused,
         Wake, Goto, Early, c
<1>12. CASE Admit(t)
  <2>1. CASE ~Draws(t)
    BY <1>3, <1>12, <2>1 DEF Admit, Draws, Inserts, c
  <2>2. CASE Draws(t)
    BY <1>1, <1>2, <1>12, <2>2, OpTyped DEF Admit, Draws, Submit, Allots, OpKind, Early, c
  <2>3. QED
    BY <2>1, <2>2
<1>13. CASE GenerationAllotted(t)
  <2>1. allotted[t] # 0
    BY <1>13 DEF GenerationAllotted, Wake, TopicInv, ToldIsAllotted
  <2>2. QED
    BY <1>3, <1>13, <2>1 DEF GenerationAllotted, Inserts, c
<1>14. CASE RowCreated(t)
  <2>1. CASE decision[t] = "pending" /\ RuntimeEnabled
    <3>1. /\ StatusOp(Run(t), TaskOf(Run(t)), "running") \in Op
          /\ StatusOp(Run(t), TaskOf(Run(t)), "running").kind = "status"
      BY <1>1, ClientMembers, OpTyped, StatusKinds
    <3>2. queue' = Append(queue, StatusOp(Run(t), TaskOf(Run(t)), "running"))
          /\ pc' = [pc EXCEPT ![c] = "returned", ![Run(t)] = "running"]
      BY <1>14, <2>1 DEF RowCreated, Spawn, Submit, c
    <3>3. pc'[c] = "returned"
      BY <1>1, <3>2
    <3>4. QED
      BY <1>5, <3>1, <3>2, <3>3 DEF StartOp, Early, c
  <2>2. CASE ~(decision[t] = "pending" /\ RuntimeEnabled)
    BY <1>4, <1>6, <1>14, <2>2 DEF RowCreated, Goto, Early, c
  <2>3. QED
    BY <2>1, <2>2
<1>15. QED
  BY <1>11, <1>12, <1>13, <1>14 DEF StartStep, StartSteps, StartResumes, c

LEMMA StartSparesTopics ==
    ASSUME TopicInv, KeyInv', NEW t \in Task, StartStep(t)
    PROVE  TopicInv'
<1>1. StartForm(t) /\ UNCHANGED <<status, rowGeneration, generation, suppressed, allotted>>
  BY StartSteppedForm DEF TopicInv, StartStep, tables
<1>2. queue \in Seq(Op) /\ \A i \in 1 .. Len(queue) : queue[i].task \in Task
  BY QueuedTasks DEF TopicInv, KeyInv
<1>3. /\ Allots(t) \/ Inserts(t) \/ StartOpsStay
      /\ pc'[Start(t)] \in Early => pc[Start(t)] \in Early
  BY StartQueues
<1>4. EarlyHasNoRow' /\ ToldIsAllotted' /\ RowStamped' /\ AllottedOnce' /\ StopsBelow'
  BY <1>1, <1>3
     DEF StartForm, TopicInv, EarlyHasNoRow, ToldIsAllotted, RowStamped, Stamped,
         AllottedOnce, StopsBelow, GivenAbove, Row
(* None of its writes is in the queue. *)
<1>5. \A i \in 1 .. Len(queue) : StartOp(queue[i]) => queue[i].task # t
  BY <1>1 DEF StartForm, EndLabel, TopicInv, SubmittedByStart
<1>6. \A i \in 1 .. Len(queue) : StartOp(queue[i]) =>
          queue[i].by = Start(queue[i].task) \/ pc'[Start(queue[i].task)] = "gone"
  BY <1>1, <1>2, <1>5 DEF StartForm, TopicInv, SubmittedByStart
<1>7. CASE StartOpsStay
  <2>1. \A i \in 1 .. Len(queue') : StartOp(queue'[i]) =>
            /\ i \in 1 .. Len(queue) /\ StartOp(queue[i])
            /\ queue'[i].kind = queue[i].kind
            /\ queue'[i].task = queue[i].task /\ queue'[i].gen = queue[i].gen
            /\ queue[i].by \in Starts => queue'[i].by = queue[i].by
            /\ queue[i].task \in Task
    BY <1>2, <1>7 DEF StartOpsStay, StartOp
  <2>2. SubmittedByStart'
    BY <1>6, <2>1, ClientMembers DEF SubmittedByStart
  <2>3. AllotsFirst' /\ InsertStamped'
    BY <1>1, <2>1 DEF TopicInv, AllotsFirst, InsertStamped, Stamped, StartOp, Row
  <2>4. QED
    BY <1>4, <2>2, <2>3 DEF TopicInv
<1>8. ASSUME NEW op \in Op, queue' = Append(queue, op), op.task = t, op.by = Start(t),
             StartOp(op),
             op.kind = "generation" => ~Row(t),
             op.kind = "create" => Stamped(t, op.gen)
      PROVE  TopicInv'
  <2>1. /\ Len(queue') = Len(queue) + 1 /\ queue'[Len(queue) + 1] = op
        /\ \A i \in 1 .. Len(queue) : queue'[i] = queue[i]
        /\ \A i \in 1 .. Len(queue') : i \in 1 .. Len(queue) \/ i = Len(queue) + 1
    BY <1>2, <1>8
  <2>2. SubmittedByStart'
    BY <1>6, <1>8, <2>1 DEF SubmittedByStart
  <2>3. AllotsFirst'
    <3>1. ASSUME NEW i \in 1 .. Len(queue'), queue'[i].kind = "generation"
          PROVE  ~Row(queue'[i].task)
      BY <1>8, <2>1, <3>1 DEF TopicInv, AllotsFirst
    <3>2. ASSUME NEW i \in 1 .. Len(queue'), queue'[i].kind = "generation",
                 NEW j \in 1 .. Len(queue'), queue'[j].kind = "create"
          PROVE  queue'[j].task # queue'[i].task
      <4>1. CASE i \in 1 .. Len(queue) /\ j \in 1 .. Len(queue)
        BY <2>1, <3>2, <4>1 DEF TopicInv, AllotsFirst
      <4>2. CASE i = Len(queue) + 1 \/ j = Len(queue) + 1
        BY <1>5, <1>8, <2>1, <3>2, <4>2 DEF StartOp
      <4>3. QED
        BY <2>1, <4>1, <4>2
    <3>3. QED
      BY <1>1, <3>1, <3>2 DEF AllotsFirst, Row
  <2>4. InsertStamped'
    BY <1>1, <1>8, <2>1 DEF TopicInv, InsertStamped, Stamped
  <2>5. QED
    BY <1>4, <2>2, <2>3, <2>4 DEF TopicInv
<1>9. CASE Allots(t)
  BY <1>8, <1>9 DEF Allots, StartOp, TopicInv, EarlyHasNoRow, Early
<1>10. CASE Inserts(t)
  BY <1>8, <1>10, GenerationTyped DEF Inserts, StartOp, Stamped, TopicInv, KeyInv, TypeInv, TypeOK,
     StoreTypeOK
<1>11. QED
  BY <1>3, <1>7, <1>9, <1>10

-----------------------------------------------------------------------------
LEMMA TopicInit == Init => TopicInv
<1> SUFFICES ASSUME Init PROVE TopicInv
  OBVIOUS
<1>1. /\ queue = <<>> /\ \A t \in Task : ~Row(t) /\ allotted[t] = 0
      /\ \A k \in Topic : generation[k] = 0 /\ suppressed[k] = {}
      /\ \A c \in Client : reply[c] = "none"
  BY DEF Init, StoreInit, Row
<1>2. \A t \in Task : TopicOf[t] # NoTopic => TopicOf[t] \in Topic
  BY StoreConstants
<1>3. QED
  BY <1>1, <1>2, KeyInit, ClientMembers
     DEF TopicInv, SubmittedByStart, AllotsFirst, EarlyHasNoRow, ToldIsAllotted,
         InsertStamped, RowStamped, AllottedOnce, StopsBelow

LEMMA TopicStep == TopicInv /\ [Next]_vars => TopicInv'
<1> SUFFICES ASSUME TopicInv, [Next]_vars PROVE TopicInv'
  OBVIOUS
<1>1. KeyInv /\ KeyInv' /\ TypeInv
  BY KeyStep DEF TopicInv, KeyInv
<1>2. CASE AllSettled \/ UNCHANGED vars
  <2>1. StartsUntouched /\ UNCHANGED vars
    BY <1>1, <1>2, OthersSpareStarts DEF AllSettled
  <2>2. UNCHANGED Topics
    BY <2>1 DEF vars, storeVars, Topics
  <2>3. QED
    BY <1>1, <2>1, <2>2, SparedTopics
<1>3. ASSUME NEW r \in Runs, RunStep(r) PROVE TopicInv'
  BY <1>1, <1>3, RunSparesStarts, SparedTopics DEF RunStep, ResumeRun, StepRun, tables, Topics
<1>4. ASSUME NEW c \in Cancels, CancelStep(c) PROVE TopicInv'
  BY <1>1, <1>4, CancelSparesStarts, SparedTopics DEF CancelStep, tables, Topics
<1>5. ASSUME NEW p \in Responds, RespondStep(p) PROVE TopicInv'
  BY <1>1, <1>5, RespondSparesStarts, SparedTopics DEF RespondStep, tables, Topics
<1>6. ASSUME NEW s \in Stops, StopStep(s) PROVE TopicInv'
  BY <1>1, <1>6, OthersSpareStarts, SparedTopics DEF StopStep, tables, Topics
<1>7. CASE BootStep
  BY <1>1, <1>7, OthersSpareStarts, SparedTopics DEF BootStep, tables, Topics
<1>8. QED
  BY <1>1, <1>2, <1>3, <1>4, <1>5, <1>6, <1>7, WriterSparesTopics, StartSparesTopics,
     GoneSparesTopics, CrashSparesTopics DEF Next

(* Two tasks of a topic never share an allotted generation, and a stop     *)
(* marker covers one that is not allotted yet only up to a generation that *)
(* a caller gave itself, for any number of starts, topics and stops,       *)
(* cancelled callers and crashes: next_generation, the insert that carries *)
(* it several awaits later, and stop_topic_prefix.                         *)
THEOREM LaterStartsAreHeard == Spec => []StopSparesLaterStarts
<1>1. TopicInv => StopSparesLaterStarts
  <2> SUFFICES ASSUME TopicInv PROVE StopSparesLaterStarts
    OBVIOUS
  <2>1. ASSUME NEW t \in Task, NEW u \in Task, t # u, Row(t), Row(u),
               TopicOf[t] = TopicOf[u], Draws(t), Draws(u)
        PROVE  rowGeneration[t] # rowGeneration[u]
    <3>1. TopicOf[t] # NoTopic /\ TopicOf[u] # NoTopic
      BY <2>1 DEF Draws
    <3>2. /\ rowGeneration[t] = allotted[t] /\ rowGeneration[t] # 0
          /\ rowGeneration[u] = allotted[u]
      BY <2>1 DEF TopicInv, RowStamped, Stamped
    <3>3. QED
      BY <2>1, <3>1, <3>2 DEF TopicInv, AllottedOnce
  <2>2. QED
    BY <2>1 DEF StopSparesLaterStarts, TopicInv, StopsBelow
<1>2. QED
  BY <1>1, TopicInit, TopicStep, PTL DEF Spec

-----------------------------------------------------------------------------
(* Recovery. *)

(* The operations that touch a row, its events or its checkpoint. *)
Writes(op) == op.kind \in {"create", "status", "event", "checkpoint", "consume"}
AtRest(c) == pc[c] \in EndLabel \cup {"idle"}
Treats(c) == ~AtRest(c) /\ pc[c] # "next"

(* Nobody works on a task a crash left behind ... *)
OrphanIsLeft ==
    \A t \in orphans :
        /\ ~Live(Run(t)) /\ ~Live(Resume(t))
        /\ pc[Start(t)] \in EndLabel
        /\ \A c \in Cancels \cup Responds : Treats(c) => subject[c] # t

(* ... nor writes to it, and only recovery uses the id of its event. *)
Harmless(op) == Writes(op) => op.task \notin orphans /\ op.id # "recovery"
OrphanUnwritten ==
    \A i \in 1 .. Len(queue) : queue[i].by = Boot \/ Harmless(queue[i])

(* Before the program serves, recovery is alone ... *)
AloneAtBoot ==
    ~Serving => /\ \A r \in Runs : ~Live(r)
                /\ \A c \in Callers \cup Stops : AtRest(c)

(* ... and has at most one write in the queue, the one it waits for.       *)
BootWrite(op) ==
    \/ /\ pc[Boot] = "marking"
       /\ op.kind = "status" /\ op.status = "failed" /\ op.task = subject[Boot]
    \/ /\ pc[Boot] = "logging"
       /\ op.kind = "event" /\ op.type = "failed" /\ op.id = "recovery"
       /\ op.task = subject[Boot]
    \/ pc[Boot] = "sealing" /\ op.kind = "lifecycle"
BootQueue ==
    /\ Serving => \A i \in 1 .. Len(queue) : queue[i].by # Boot
    /\ ~Serving => \A i \in 1 .. Len(queue) :
          /\ i = 1 /\ Len(queue) = 1
          /\ queue[i].by = Boot /\ BootWrite(queue[i]) /\ reply[Boot] = "none"
BootHears == reply[Boot] \in {"none", "ok"} /\ pc[Boot] # "stuck"

(* Recovery treats the tasks a crash left behind, all of them: one that is *)
(* not failed yet is still to be read or still in the list.                *)
TodoLeft ==
    /\ todo \subseteq orphans
    /\ pc[Boot] \in {"marking", "logging"} => subject[Boot] \in todo
    /\ pc[Boot] \in {"read", "sealing", "serving"} => todo = {}
    /\ pc[Boot] = "read" => TasksIn(RecoverableStatus) \subseteq orphans
OrphanFails ==
    \A t \in orphans :
        \/ status[t] = "failed"
        \/ status[t] \in RecoverableStatus /\ (pc[Boot] = "read" \/ t \in todo)
SubjectFailed ==
    pc[Boot] = "logging" \/ (pc[Boot] = "marking" /\ reply[Boot] = "ok")
        => status[subject[Boot]] = "failed"

(* The event of a task's recovery is written once: its row has failed, and *)
(* recovery is done with it or just told so.                               *)
LoggedOnce ==
    \A t \in Task : <<t, "recovery">> \in events =>
        /\ t \in orphans /\ status[t] = "failed"
        /\ t \in todo => pc[Boot] = "logging" /\ subject[Boot] = t /\ reply[Boot] = "ok"

OrphanInv ==
    /\ TopicInv
    /\ OrphanIsLeft
    /\ OrphanUnwritten
    /\ AloneAtBoot
    /\ BootQueue
    /\ BootHears
    /\ TodoLeft
    /\ OrphanFails
    /\ SubjectFailed
    /\ LoggedOnce

-----------------------------------------------------------------------------
(* What every step but those of the writer, of recovery and of a crash     *)
(* does: it leaves recovery alone, takes nobody to an orphan, and queues   *)
(* at most one more write, while the program serves, to another task.      *)
QueueSpared ==
    \A i \in 1 .. Len(queue') :
        \/ /\ i \in 1 .. Len(queue)
           /\ queue'[i].kind = queue[i].kind /\ queue'[i].task = queue[i].task
           /\ queue'[i].id = queue[i].id
           /\ queue'[i].by = Boot <=> queue[i].by = Boot
        \/ Serving /\ queue'[i].by # Boot /\ Harmless(queue'[i])
NobodyTurns ==
    /\ \A r \in Runs : Live(r)' => Live(r) \/ (Serving /\ TaskOf(r) \notin orphans)
    /\ \A t \in Task : pc[Start(t)] \in EndLabel => pc'[Start(t)] \in EndLabel
    /\ \A c \in Cancels \cup Responds :
          Treats(c)' => \/ Treats(c) /\ subject'[c] = subject[c]
                        \/ subject'[c] \notin orphans
    /\ ~Serving => /\ queue' = queue
                   /\ \A c \in Callers \cup Stops : AtRest(c)'
BootAlone ==
    /\ UNCHANGED <<status, events, orphans, todo>>
    /\ pc'[Boot] = pc[Boot] /\ reply'[Boot] = reply[Boot] /\ subject'[Boot] = subject[Boot]
OrphansSpared == QueueSpared /\ NobodyTurns /\ BootAlone

LEMMA SparedKeeps ==
    ASSUME OrphanInv, TopicInv', OrphansSpared
    PROVE  OrphanInv'
<1>1. UNCHANGED <<Serving, orphans, todo, status, events>>
  BY DEF OrphansSpared, BootAlone, Serving
<1>2. OrphanIsLeft'
  <2>1. orphans \subseteq Task
    BY DEF OrphanInv, TopicInv, KeyInv, TypeInv, TypeOK
  <2>2. \A t \in Task : /\ Run(t) \in Runs /\ TaskOf(Run(t)) = t
                        /\ Resume(t) \in Runs /\ TaskOf(Resume(t)) = t
    BY ClientMembers DEF Run, Resume, TaskOf
  <2>3. ASSUME NEW t \in orphans
        PROVE  /\ ~Live(Run(t))' /\ ~Live(Resume(t))'
               /\ pc'[Start(t)] \in EndLabel
               /\ \A c \in Cancels \cup Responds : Treats(c)' => subject'[c] # t
    BY <2>1, <2>2 DEF OrphanInv, OrphanIsLeft, OrphansSpared, NobodyTurns
  <2>4. QED
    BY <1>1, <2>3 DEF OrphanIsLeft
<1>3. OrphanUnwritten'
  BY <1>1 DEF OrphanInv, OrphanUnwritten, OrphansSpared, QueueSpared, Harmless, Writes
<1>4. AloneAtBoot'
  BY <1>1 DEF OrphanInv, AloneAtBoot, OrphansSpared, NobodyTurns
<1>5. BootQueue'
  <2>1. CASE Serving
    BY <1>1, <2>1 DEF OrphanInv, BootQueue, OrphansSpared, QueueSpared
  <2>2. CASE ~Serving
    BY <1>1, <2>2
       DEF OrphanInv, BootQueue, BootWrite, OrphansSpared, NobodyTurns, BootAlone
  <2>3. QED
    BY <2>1, <2>2
<1>6. BootHears' /\ TodoLeft' /\ OrphanFails' /\ SubjectFailed' /\ LoggedOnce'
  BY <1>1
     DEF OrphanInv, BootHears, TodoLeft, TasksIn, OrphanFails, SubjectFailed, LoggedOnce,
         OrphansSpared, BootAlone
<1>7. QED
  BY <1>2, <1>3, <1>4, <1>5, <1>6 DEF OrphanInv

LEMMA CrashLeaves ==
    ASSUME OrphanInv, TopicInv', Crash
    PROVE  OrphanInv'
<1>1. /\ orphans' = orphans \cup {t \in Task : Row(t) /\ status[t] \notin TerminalStatus}
      /\ Len(queue') = 0 /\ todo' = {} /\ UNCHANGED <<status, events>>
      /\ reply'[Boot] = "none" /\ pc'[Boot] = "read" /\ ~Serving'
  <2>1. pc'[Boot] = "read"
    BY ClientMembers, ClientKinds DEF Crash
  <2>2. reply'[Boot] = "none"
    BY ClientMembers DEF Crash
  <2>3. QED
    BY <2>1, <2>2 DEF Crash, tables, Serving
<1>2. /\ \A r \in Runs : ~Live(r)'
      /\ \A c \in Callers \cup Stops :
            /\ AtRest(c)'
            /\ pc[c] # "idle" => pc'[c] \in EndLabel
  BY ClientMembers, ClientKinds DEF Crash, Callers, AtRest, EndLabel, Live
<1>3. /\ \A t \in Task : Start(t) \in Callers /\ Run(t) \in Runs /\ Resume(t) \in Runs
      /\ Cancels \cup Responds \subseteq Callers
  BY ClientMembers DEF Callers
<1>4. orphans \subseteq Task /\ status \in [Task -> Status \cup {"absent"}]
  BY DEF OrphanInv, TopicInv, KeyInv, TypeInv, TypeOK, StoreTypeOK
<1>5. \A t \in orphans' : t \in Task /\ pc[Start(t)] # "idle"
  BY <1>1, <1>4
     DEF OrphanInv, OrphanIsLeft, EndLabel, TopicInv, EarlyHasNoRow, Early
<1>6. OrphanIsLeft'
  BY <1>2, <1>3, <1>5 DEF OrphanIsLeft, Treats
<1>7. OrphanUnwritten' /\ BootQueue' /\ BootHears'
  BY <1>1 DEF OrphanUnwritten, BootQueue, BootHears
<1>8. AloneAtBoot'
  BY <1>2 DEF AloneAtBoot
<1>9. TodoLeft' /\ SubjectFailed' /\ LoggedOnce'
  BY <1>1
     DEF TodoLeft, TasksIn, SubjectFailed, OrphanInv, LoggedOnce, Row,
         Status, RecoverableStatus, ActiveStatus, TerminalStatus
<1>10. OrphanFails'
  BY <1>1, <1>4 DEF OrphanInv, OrphanFails, Row, Status
<1>11. QED
  BY <1>6, <1>7, <1>8, <1>9, <1>10 DEF OrphanInv
-----------------------------------------------------------------------------
(* Runs write to their own task, and one that is over does nothing. *)
RunSpares(r) ==
    /\ Live(r)' => Live(r)
    /\ \/ queue' = queue
       \/ /\ Live(r)
          /\ \E op \in Op : /\ queue' = Append(queue, op)
                            /\ op.by = r /\ op.task = TaskOf(r) /\ op.id # "recovery"

LEMMA RunQueues ==
    ASSUME TypeInv, NEW r \in Runs, ResumeRun(r) \/ StepRun(r)
    PROVE  RunSpares(r)
<1>1. r \in Client /\ pc \in [Client -> RunLabel \cup CallLabel \cup BootLabel]
  BY ClientMembers DEF TypeInv, TypeOK
<1>2. \A l : Goto(r, l) => pc'[r] = l
  BY <1>1 DEF Goto
<1>3. ASSUME NEW type \in EventType, NEW i \in {"1", "2", "3", "own"}
      PROVE  /\ EventOp(r, TaskOf(r), type, i) \in Op
             /\ EventOp(r, TaskOf(r), type, i).by = r
             /\ EventOp(r, TaskOf(r), type, i).task = TaskOf(r)
             /\ EventOp(r, TaskOf(r), type, i).id # "recovery"
  <2>1. i \in EventId /\ r \in Client \cup {Nobody} /\ TaskOf(r) \in Task
    BY <1>1, ClientMembers DEF EventId
  <2>2. EventOp(r, TaskOf(r), type, i) \in Op /\ EventOp(r, TaskOf(r), type, i).by = r
    BY <2>1, OpTyped
  <2>3. EventOp(r, TaskOf(r), type, i).task = TaskOf(r) /\ EventOp(r, TaskOf(r), type, i).id = i
    BY DEF EventOp, MakeOp
  <2>4. QED
    BY <2>2, <2>3
<1>4. /\ MakeOp(r, "checkpoint", TaskOf(r)) \in Op
      /\ MakeOp(r, "checkpoint", TaskOf(r)).by = r
      /\ MakeOp(r, "checkpoint", TaskOf(r)).task = TaskOf(r)
      /\ MakeOp(r, "checkpoint", TaskOf(r)).id = "own"
  BY <1>1, ClientMembers, OpTyped DEF OpKind, MakeOp
<1>5. \A l : \A type \in EventType, i \in {"1", "2", "3"} :
          Live(r) /\ Emit(r, type, i, l) => RunSpares(r)
  BY <1>3 DEF Emit, Submit, RunSpares
<1>6. Finished(r) /\ queue' = queue => RunSpares(r)
  BY <1>2 DEF Finished, RunSpares, Live
<1>7. Live(r) /\ queue' = queue => RunSpares(r)
  BY DEF RunSpares
<1>8. \A result \in Outcome : Live(r) /\ AfterExecute(r, result) => RunSpares(r)
  BY <1>4, <1>5, <1>7 DEF AfterExecute, EventType, Submit, RunSpares
<1>9. \A label \in RunLabel \ {"idle", "ended"} : pc[r] = label => Live(r)
  BY DEF Live
<1>11. CASE \/ StartLogged(r) \/ AgentLogged(r) \/ LastEventLogged(r) \/ Announce(r)
            \/ Instantiate(r) \/ CheckTerminal(r) \/ LastPush(r)
  BY <1>7, <1>9, <1>11
     DEF StartLogged, AgentLogged, LastEventLogged, Announce, Instantiate, CheckTerminal,
         LastPush, Wake, RunLabel
<1>12. CASE StartRefused(r) \/ CancelledElsewhere(r) \/ InstantiateRaises(r)
  BY <1>6, <1>12 DEF StartRefused, CancelledElsewhere, InstantiateRaises
<1>13. CASE BecomeRunning(r) \/ Checkpointed(r) \/ InstantiateFails(r)
  BY <1>5, <1>9, <1>13
     DEF BecomeRunning, Checkpointed, InstantiateFails, Wake, RunLabel, EventType
<1>14. CASE CancelledInExecute(r)
  BY <1>5, <1>9, <1>14 DEF CancelledInExecute, InExecute, RunLabel, EventType
<1>15. CASE Report(r)
  BY <1>5, <1>9, <1>15 DEF Report, RunLabel, EventType
<1>16. CASE AgentEmits(r)
  <2>1. PICK type \in EventType : queue' = Append(queue, EventOp(r, TaskOf(r), type, "own"))
    BY <1>16 DEF AgentEmits, Submit, EventType
  <2>2. Live(r)
    BY <1>16 DEF AgentEmits, Live
  <2>3. QED
    BY <1>3, <2>1, <2>2 DEF RunSpares
<1>17. CASE AgentPushes(r)
  <2>1. Live(r) /\ outcome[r] \in Outcome
    BY <1>17 DEF AgentPushes, Live, TypeInv, TypeOK, RuntimeTypeOK
  <2>2. QED
    BY <1>8, <1>17, <2>1 DEF AgentPushes
<1>18. CASE AgentReturns(r)
  BY <1>8, <1>18 DEF AgentReturns, Live, Outcome
<1>19. QED
  BY <1>11, <1>12, <1>13, <1>14, <1>15, <1>16, <1>17, <1>18 DEF ResumeRun, StepRun

(* A write that is appended while the program serves, to a task no crash left. *)
LEMMA AppendSpares ==
    ASSUME TypeInv, NEW op \in Op, queue' = Append(queue, op), Serving,
           op.by # Boot, Harmless(op)
    PROVE  QueueSpared
<1>1. queue \in Seq(Op)
  BY DEF TypeInv, TypeOK, StoreTypeOK
<1>2. /\ Len(queue') = Len(queue) + 1 /\ queue'[Len(queue) + 1] = op
      /\ \A i \in 1 .. Len(queue) : queue'[i] = queue[i]
      /\ \A i \in 1 .. Len(queue') : i \in 1 .. Len(queue) \/ i = Len(queue) + 1
  BY <1>1
<1>3. QED
  BY <1>2 DEF QueueSpared

LEMMA RunSparesOrphans ==
    ASSUME OrphanInv, NEW r \in Runs, RunStep(r)
    PROVE  OrphansSpared
<1>1. /\ TypeInv /\ RunSpares(r) /\ RunMoves(r)
      /\ UNCHANGED <<status, events, orphans, todo, subject>>
  BY RunQueues, RunTypes
     DEF OrphanInv, TopicInv, KeyInv, RunStep, ResumeRun, StepRun, tables, supervisorVars,
         callVars, bootVars
<1>2. \A c \in Client : c # r => pc'[c] = pc[c] /\ reply'[c] = reply[c]
  BY <1>1, ClientMembers DEF RunMoves, Consumes, TypeInv, TypeOK, StoreTypeOK
<1>3. /\ Boot \in Client /\ Boot # r
      /\ \A t \in Task : Start(t) \in Client /\ Start(t) # r
      /\ \A c \in Callers \cup Stops : c \in Client /\ c # r
      /\ Cancels \cup Responds \subseteq Callers
      /\ Runs \subseteq Client
  BY ClientMembers, ClientKinds DEF Callers
<1>4. BootAlone
  BY <1>1, <1>2, <1>3 DEF BootAlone
<1>5. ~Serving => queue' = queue
  BY <1>1 DEF RunSpares, OrphanInv, AloneAtBoot
<1>6. QueueSpared
  <2>1. CASE queue' = queue
    BY <2>1 DEF QueueSpared
  <2>2. CASE queue' # queue
    <3>1. Serving /\ Live(r)
      BY <1>1, <1>5, <2>2 DEF RunSpares
    <3>2. TaskOf(r) \notin orphans
      <4>1. r = Run(TaskOf(r)) \/ r = Resume(TaskOf(r))
        BY ClientKinds DEF Run, Resume, TaskOf
      <4>2. QED
        BY <3>1, <4>1 DEF OrphanInv, OrphanIsLeft
    <3>3. QED
      BY <1>1, <1>3, <2>2, <3>1, <3>2, AppendSpares DEF RunSpares, Harmless
  <2>3. QED
    BY <2>1, <2>2
<1>7. NobodyTurns
  <2>1. \A q \in Runs : Live(q)' => Live(q)
    BY <1>1, <1>2, <1>3 DEF RunSpares, Live
  <2>2. \A c \in Callers \cup Stops : AtRest(c)' <=> AtRest(c)
    BY <1>2, <1>3 DEF AtRest
  <2>3. \A c \in Cancels \cup Responds : Treats(c)' <=> Treats(c)
    BY <1>2, <1>3, <2>2 DEF Treats
  <2>4. QED
    BY <1>1, <1>2, <1>3, <1>5, <2>1, <2>2, <2>3 DEF NobodyTurns, OrphanInv, AloneAtBoot
<1>8. QED
  BY <1>4, <1>6, <1>7 DEF OrphansSpared
-----------------------------------------------------------------------------
(* Calls are made and served while the program serves; then every task a   *)
(* crash left behind has failed.                                           *)
LEMMA FailedWhenServing ==
    ASSUME OrphanInv, Serving
    PROVE  \A t \in orphans : status[t] = "failed"
  BY DEF OrphanInv, OrphanFails, TodoLeft, Serving

LEMMA UnderWay ==
    ASSUME OrphanInv, NEW c \in Callers \cup Stops, ~AtRest(c)
    PROVE  Serving
  BY DEF OrphanInv, AloneAtBoot

(* The step of one call: what is left to show of it. *)
LEMMA CallSpares ==
    ASSUME NEW c \in Callers \cup Stops, Serving, QueueSpared, BootAlone,
           \A d \in Callers : d # c => pc'[d] = pc[d] /\ (d \notin Starts => subject'[d] = subject[d]),
           \A r \in Runs : Live(r)' => Live(r) \/ TaskOf(r) \notin orphans,
           c \in Starts => pc[c] \notin EndLabel,
           c \in Cancels \cup Responds /\ Treats(c)' =>
               (Treats(c) /\ subject'[c] = subject[c]) \/ subject'[c] \notin orphans
    PROVE  OrphansSpared
<1>1. \A t \in Task : Start(t) \in Starts /\ Start(t) \in Callers
  BY ClientMembers DEF Callers
<1>2. \A d \in Cancels \cup Responds : d \in Callers /\ d \notin Starts
  BY ClientKinds DEF Callers
<1>3. \A d \in Cancels \cup Responds : d # c => (Treats(d)' <=> Treats(d))
  BY <1>2 DEF Treats, AtRest
<1>4. NobodyTurns
  BY <1>1, <1>2, <1>3 DEF NobodyTurns
<1>5. QED
  BY <1>4 DEF OrphansSpared

LEMMA StartMoves ==
    ASSUME NEW t \in Task, StartStep(t)
    PROVE  /\ Consumes(Start(t))
           /\ pc[Start(t)] # "idle" \/ Serving
           /\ \E l : \/ pc' = [pc EXCEPT ![Start(t)] = l]
                     \/ pc' = [pc EXCEPT ![Start(t)] = l, ![Run(t)] = "running"]
<1> DEFINE c == Start(t)
           Moved == \E l : \/ pc' = [pc EXCEPT ![c] = l]
                           \/ pc' = [pc EXCEPT ![c] = l, ![Run(t)] = "running"]
           Made == pc[c] # "idle" \/ Serving
<1>1. \A l : Goto(c, l) => Moved
  BY DEF Goto
<1>2. \A l, a : Wake(c, l, a) => Consumes(c)
  BY DEF Wake, Consumes
<1>3. UNCHANGED reply => Consumes(c)
  BY DEF Consumes
<1> HIDE DEF c, Moved
<1>4. CASE StartCall(t) \/ ReadReplaced(t) \/ ReadKey(t) \/ PassGate(t) \/ Admit(t) \/ Reread(t)
  <2>1. Consumes(c)
    BY <1>3, <1>4 DEF StartCall, ReadReplaced, ReadKey, PassGate, Admit, Reread
  <2>2. Made
    BY <1>4 DEF StartCall, ReadReplaced, ReadKey, PassGate, Admit, Reread, c
  <2>3. Moved
    BY <1>1, <1>4
       DEF StartCall, ReadReplaced, ReadKey, ReturnHandle, PassGate, Decide, Admit,
           SubmitRow, Reread, c
  <2>4. QED
    BY <2>1, <2>2, <2>3 DEF c, Moved
<1>5. CASE GenerationAllotted(t) \/ RowRefused(t)
  BY <1>1, <1>2, <1>5 DEF GenerationAllotted, SubmitRow, RowRefused, Wake, c, Moved
<1>6. CASE RowCreated(t)
  <2>1. Consumes(c) /\ Made
    BY <1>2, <1>6 DEF RowCreated, Wake, c
  <2>2. Moved
    BY <1>1, <1>6 DEF RowCreated, c, Moved
  <2>3. QED
    BY <2>1, <2>2 DEF c, Moved
<1>7. QED
  BY <1>4, <1>5, <1>6 DEF StartStep, StartSteps, StartResumes

LEMMA StartSparesOrphans ==
    ASSUME OrphanInv, NEW t \in Task, StartStep(t)
    PROVE  OrphansSpared
<1>1. /\ TypeInv /\ StartForm(t)
      /\ UNCHANGED <<status, events, orphans, todo, subject>>
  BY StartSteppedForm DEF OrphanInv, TopicInv, KeyInv, StartStep, tables, bootVars
<1>2. /\ Start(t) \in Starts /\ Start(t) \in Callers /\ Start(t) \in Client
      /\ Start(t) # Boot /\ Run(t) # Boot /\ Run(t) \in Runs /\ TaskOf(Run(t)) = t
      /\ \A r \in Runs : r \in Client /\ r # Start(t) /\ r # Boot
      /\ \A d \in Callers : d \in Client /\ d \notin Runs /\ d # Boot
      /\ Boot \in Client
  BY ClientMembers, ClientKinds DEF Callers, TaskOf, Run
<1>3. PICK l : \/ pc' = [pc EXCEPT ![Start(t)] = l]
               \/ pc' = [pc EXCEPT ![Start(t)] = l, ![Run(t)] = "running"]
  BY StartMoves
<1>4. pc \in [Client -> RunLabel \cup CallLabel \cup BootLabel] /\ reply \in [Client -> Reply]
  BY <1>1 DEF TypeInv, TypeOK, StoreTypeOK
<1>5. Serving /\ t \notin orphans
  BY <1>1, <1>2, StartMoves, UnderWay DEF StartForm, AtRest, OrphanInv, OrphanIsLeft
<1>6. reply'[Boot] = reply[Boot]
  BY <1>2, <1>4, StartMoves DEF Consumes
<1>7. BootAlone
  BY <1>1, <1>2, <1>3, <1>4, <1>6 DEF BootAlone
<1>8. QueueSpared
  <2>1. CASE queue' = queue
    BY <2>1 DEF QueueSpared
  <2>2. ASSUME NEW op \in Op, queue' = Append(queue, op), op.task = t, op.id = "own",
               op.by \in Runs \/ op.by = Start(t)
        PROVE  QueueSpared
    BY <1>1, <1>2, <1>5, <2>2, AppendSpares DEF Harmless
  <2>3. QED
    BY <1>1, <2>1, <2>2 DEF StartForm
<1>9. \A r \in Runs : Live(r)' => Live(r) \/ TaskOf(r) \notin orphans
  BY <1>2, <1>3, <1>4, <1>5 DEF Live
<1>10. \A d \in Callers : d # Start(t) => pc'[d] = pc[d] /\ subject'[d] = subject[d]
  BY <1>1, <1>2, <1>3, <1>4
<1>11. Start(t) \notin Cancels \cup Responds
  BY <1>2, ClientKinds
<1>12. QED
  BY <1>1, <1>2, <1>5, <1>7, <1>8, <1>9, <1>10, <1>11, CallSpares DEF StartForm

LEMMA CancelSparesOrphans ==
    ASSUME OrphanInv, NEW c \in Cancels, CancelStep(c)
    PROVE  OrphansSpared
<1>1. /\ TypeInv /\ CancelMoves(c)
      /\ UNCHANGED <<status, events, orphans, todo>>
  BY CancelSteppedMoves DEF OrphanInv, TopicInv, KeyInv, CancelStep, tables, bootVars
<1>2. /\ c \in Callers /\ c \in Client /\ c # Boot /\ c \notin Starts /\ c \notin Runs
      /\ Boot \in Client /\ Boot # Nobody
      /\ \A r \in Runs : r \in Client /\ r # c /\ r # Boot
      /\ \A d \in Callers : d \in Client /\ d # Boot
      /\ \A d \in Callers : d \notin Starts => d \in Cancels \cup Responds
  BY ClientMembers, ClientKinds, StoreConstants DEF Callers
<1>3. /\ pc \in [Client -> RunLabel \cup CallLabel \cup BootLabel]
      /\ reply \in [Client -> Reply] /\ queue \in Seq(Op)
      /\ subject \in [Cancels \cup Responds \cup {Boot} -> Task \cup {NoTask}]
      /\ pc[c] \in {"submit", "marking", "announcing", "push"} => subject[c] \in Task
  BY <1>1 DEF TypeInv, TypeOK, StoreTypeOK, SubjectKnown
<1>4. PICK l : pc' = [pc EXCEPT ![c] = l]
  BY <1>1 DEF CancelMoves
<1>5. /\ pc[c] = "idle" => CancelCall(c)
      /\ pc[c] \notin EndLabel
  BY DEF CancelStep, CancelResumes, CancelSteps, CancelRead, CancelSubmit, CancelPush,
         CancelReturn, CancelCall, CancelMarked, CancelLogged, CancelFails, Wake, EndLabel
<1>6. Serving
  BY <1>2, <1>5, UnderWay DEF CancelCall, AtRest
<1>7. pc[c] \in {"submit", "marking", "announcing", "push"} =>
          Treats(c) /\ subject[c] \in Task /\ subject[c] \notin orphans
  BY <1>2, <1>3 DEF OrphanInv, OrphanIsLeft, Treats, AtRest, EndLabel
<1>8. reply'[Boot] = reply[Boot]
  BY <1>1, <1>2, <1>3 DEF CancelMoves, Consumes, Interrupts
<1>9. BootAlone
  BY <1>1, <1>2, <1>3, <1>4, <1>8 DEF BootAlone, CancelMoves
<1>10. ASSUME NEW t \in Task
       PROVE  /\ StatusOp(c, t, "cancelled") \in Op
              /\ StatusOp(c, t, "cancelled").by = c
              /\ StatusOp(c, t, "cancelled").task = t
              /\ StatusOp(c, t, "cancelled").id = "own"
              /\ EventOp(c, t, "cancelled", "999998") \in Op
              /\ EventOp(c, t, "cancelled", "999998").by = c
              /\ EventOp(c, t, "cancelled", "999998").task = t
              /\ EventOp(c, t, "cancelled", "999998").id = "999998"
  <2>1. StatusOp(c, t, "cancelled").task = t /\ StatusOp(c, t, "cancelled").id = "own"
    BY DEF StatusOp, MakeOp
  <2>2. /\ EventOp(c, t, "cancelled", "999998").task = t
        /\ EventOp(c, t, "cancelled", "999998").id = "999998"
    BY DEF EventOp, MakeOp
  <2>3. QED
    BY <1>2, <2>1, <2>2, OpTyped, StatusKinds DEF EventType, EventId
<1>11. QueueSpared
  <2>1. CASE queue' = queue
    BY <2>1 DEF QueueSpared
  <2>2. ASSUME NEW op \in Op, queue' = Append(queue, op), op.by = c,
               op.task = subject[c], op.id \in {"own", "999998"}, subject[c] \notin orphans
        PROVE  QueueSpared
    BY <1>1, <1>2, <1>6, <2>2, AppendSpares DEF Harmless
  <2>3. CASE CancelSubmit(c)
    BY <1>7, <1>10, <2>2, <2>3 DEF CancelSubmit, Submit
  <2>4. CASE CancelMarked(c)
    <3> DEFINE op == EventOp(c, subject[c], "cancelled", "999998")
    <3>1. /\ op \in Op /\ op.by = c /\ op.task = subject[c] /\ op.id = "999998"
          /\ subject[c] \in Task /\ subject[c] \notin orphans
      BY <1>7, <1>10, <2>4 DEF CancelMarked
    <3> HIDE DEF op
    <3>2. CASE queue' = Append(queue, op)
      BY <2>2, <3>1, <3>2
    <3>3. ASSUME NEW r \in Runs, queue' = Append(Disowned(r), op)
          PROVE  QueueSpared
      <4>1. /\ Disowned(r) \in Seq(Op) /\ Len(Disowned(r)) = Len(queue)
            /\ \A i \in 1 .. Len(queue) :
                  /\ Disowned(r)[i].kind = queue[i].kind
                  /\ Disowned(r)[i].task = queue[i].task
                  /\ Disowned(r)[i].id = queue[i].id
                  /\ Disowned(r)[i].by = Boot <=> queue[i].by = Boot
        BY <1>2, <1>3, DisownedKeeps
      <4>2. /\ Len(queue') = Len(queue) + 1 /\ queue'[Len(queue) + 1] = op
            /\ \A i \in 1 .. Len(queue) : queue'[i] = Disowned(r)[i]
            /\ \A i \in 1 .. Len(queue') : i \in 1 .. Len(queue) \/ i = Len(queue) + 1
        BY <1>3, <3>1, <3>3, <4>1
      <4>3. QED
        BY <1>2, <1>6, <3>1, <4>1, <4>2 DEF QueueSpared, Harmless
    <3>4. registered[subject[c]] # "none" => <<registered[subject[c]], subject[c]>> \in Runs
      BY <1>1, <3>1, ClientMembers DEF TypeInv, TypeOK, RuntimeTypeOK
    <3>5. QED
      BY <2>4, <3>2, <3>3, <3>4 DEF CancelMarked, Submit, op
  <2>5. QED
    BY <2>1, <2>3, <2>4
       DEF CancelStep, CancelResumes, CancelSteps, CancelCall, CancelRead, CancelPush,
           CancelReturn, CancelLogged, CancelFails
<1>12. Treats(c)' => (Treats(c) /\ subject'[c] = subject[c]) \/ subject'[c] \notin orphans
  <2>1. \A m \in EndLabel \cup {"next"} : Goto(c, m) => ~Treats(c)'
    BY <1>2, <1>3 DEF Goto, Treats, AtRest
  <2>2. CASE CancelRead(c)
    <3>1. CASE UNCHANGED <<pc, subject>>
      BY <3>1 DEF Treats, AtRest
    <3>2. CASE ~UNCHANGED <<pc, subject>>
      <4>1. PICK t \in targets[c] : /\ status[t] # "failed"
                                    /\ subject' = [subject EXCEPT ![c] = t]
        BY <2>2, <3>2 DEF CancelRead, TerminalStatus
      <4>2. QED
        BY <1>2, <1>3, <1>6, <4>1, FailedWhenServing
    <3>3. QED
      BY <3>1, <3>2
  <2>3. CASE CancelSubmit(c) \/ CancelMarked(c) \/ CancelLogged(c)
    BY <1>7, <2>3 DEF CancelSubmit, CancelMarked, CancelLogged, Wake
  <2>4. QED
    BY <2>1, <2>2, <2>3
       DEF CancelStep, CancelResumes, CancelSteps, CancelCall, CancelPush, CancelReturn,
           CancelFails, EndLabel
<1>13. \A r \in Runs : Live(r)' => Live(r)
  BY <1>2, <1>3, <1>4 DEF Live
<1>14. \A d \in Callers : d # c => pc'[d] = pc[d] /\ (d \notin Starts => subject'[d] = subject[d])
  BY <1>1, <1>2, <1>3, <1>4 DEF CancelMoves
<1>15. QED
  BY <1>2, <1>6, <1>9, <1>11, <1>12, <1>13, <1>14, CallSpares

LEMMA RespondSparesOrphans ==
    ASSUME OrphanInv, NEW p \in Responds, RespondStep(p)
    PROVE  OrphansSpared
<1>1. /\ TypeInv /\ RespondMoves(p)
      /\ UNCHANGED <<status, events, orphans, todo>>
  BY RespondSteppedMoves DEF OrphanInv, TopicInv, KeyInv, RespondStep, tables, bootVars
<1>2. /\ p \in Callers /\ p \in Client /\ p # Boot /\ p \notin Starts /\ p \notin Runs
      /\ Boot \in Client
      /\ \A r \in Runs : r \in Client /\ r # p /\ r # Boot
      /\ \A d \in Callers : d \in Client /\ d # Boot /\ d \notin Runs
      /\ \A d \in Callers : d \notin Starts => d \in Cancels \cup Responds
  BY ClientMembers, ClientKinds DEF Callers
<1>3. /\ pc \in [Client -> RunLabel \cup CallLabel \cup BootLabel]
      /\ reply \in [Client -> Reply] /\ queue \in Seq(Op)
      /\ subject \in [Cancels \cup Responds \cup {Boot} -> Task \cup {NoTask}]
      /\ pc[p] \in {"submit", "consuming", "resuming", "missing", "reread"}
            => subject[p] \in Task
  BY <1>1 DEF TypeInv, TypeOK, StoreTypeOK, SubjectKnown
<1>4. /\ pc[p] = "idle" => RespondRead(p)
      /\ pc[p] \notin EndLabel
  BY DEF RespondStep, RespondResumes, RespondSteps, RespondRead, RespondConsume,
         RespondSpawn, RespondConsumed, RespondMissing, RespondRejected, RespondResuming,
         Wake, EndLabel
<1>5. Serving
  BY <1>2, <1>4, UnderWay DEF RespondRead, AtRest
<1>6. pc[p] \in {"submit", "consuming", "resuming", "missing", "reread"} =>
          Treats(p) /\ subject[p] \in Task /\ subject[p] \notin orphans
  BY <1>2, <1>3 DEF OrphanInv, OrphanIsLeft, Treats, AtRest, EndLabel
<1>7. /\ Consumes(p)
      /\ \E l : \/ pc' = [pc EXCEPT ![p] = l]
                \/ /\ Treats(p)
                   /\ pc' = [pc EXCEPT ![p] = l, ![Resume(subject[p])] = "running"]
  BY <1>6
     DEF RespondStep, RespondResumes, RespondSteps, RespondRead, RespondConsume,
         RespondSpawn, RespondConsumed, RespondMissing, RespondRejected, RespondResuming,
         Wake, Goto, Consumes
<1>8. PICK l : \/ pc' = [pc EXCEPT ![p] = l]
               \/ /\ Treats(p)
                  /\ pc' = [pc EXCEPT ![p] = l, ![Resume(subject[p])] = "running"]
  BY <1>7
<1>9. Treats(p) => pc[p] \in {"submit", "consuming", "resuming", "missing", "reread"}
  BY <1>4
     DEF Treats, AtRest, RespondStep, RespondResumes, RespondSteps, RespondRead,
         RespondConsume, RespondSpawn, RespondConsumed, RespondMissing, RespondRejected,
         RespondResuming, Wake
<1>10. \A t \in Task : Resume(t) \in Runs /\ TaskOf(Resume(t)) = t
  BY ClientMembers DEF Resume, TaskOf
<1>11. BootAlone
  BY <1>1, <1>2, <1>3, <1>6, <1>7, <1>8, <1>9, <1>10 DEF BootAlone, Consumes, RespondMoves
<1>12. QueueSpared
  <2>1. CASE queue' = queue
    BY <2>1 DEF QueueSpared
  <2>2. ASSUME NEW op \in Op, queue' = Append(queue, op), op.by \in Runs \/ op.by = p,
               op.task = subject[p], op.id = "own", subject[p] \notin orphans
        PROVE  QueueSpared
    BY <1>1, <1>2, <1>5, <2>2, AppendSpares DEF Harmless
  <2>3. ASSUME NEW c \in Client, NEW t \in Task, NEW s \in Status
        PROVE  /\ StatusOp(c, t, s) \in Op /\ StatusOp(c, t, s).by = c
               /\ StatusOp(c, t, s).task = t /\ StatusOp(c, t, s).id = "own"
    BY OpTyped DEF StatusOp, MakeOp
  <2>4. ASSUME NEW t \in Task
        PROVE  /\ MakeOp(p, "consume", t) \in Op /\ MakeOp(p, "consume", t).by = p
               /\ MakeOp(p, "consume", t).task = t /\ MakeOp(p, "consume", t).id = "own"
    BY <1>2, OpTyped DEF OpKind, MakeOp
  <2>5. CASE RespondConsume(p)
    BY <1>6, <2>2, <2>4, <2>5 DEF RespondConsume, Submit
  <2>6. CASE RespondConsumed(p) \/ RespondMissing(p)
    BY <1>2, <1>6, <2>2, <2>3, <2>6, StatusKinds
       DEF RespondConsumed, RespondMissing, Submit, Wake
  <2>7. CASE RespondSpawn(p)
    <3>1. /\ subject[p] \in Task /\ subject[p] \notin orphans
          /\ queue' = Append(queue, StatusOp(Resume(subject[p]), subject[p], "running"))
      BY <1>6, <1>10, <2>7 DEF RespondSpawn, Spawn, Submit
    <3>2. QED
      BY <1>2, <1>10, <2>2, <2>3, <3>1, StatusKinds
  <2>8. QED
    BY <2>1, <2>5, <2>6, <2>7
       DEF RespondStep, RespondResumes, RespondSteps, RespondRead, RespondRejected,
           RespondResuming
<1>13. Treats(p)' => (Treats(p) /\ subject'[p] = subject[p]) \/ subject'[p] \notin orphans
  <2>1. CASE RespondRead(p)
    <3>1. PICK t \in Task :
              \/ status[t] = "waiting_input" /\ subject' = [subject EXCEPT ![p] = t]
              \/ Goto(p, "rejected")
      BY <2>1 DEF RespondRead
    <3>2. CASE Goto(p, "rejected")
      BY <1>2, <1>3, <3>2 DEF Goto, Treats, AtRest, EndLabel
    <3>3. CASE status[t] = "waiting_input" /\ subject' = [subject EXCEPT ![p] = t]
      BY <1>2, <1>3, <1>5, <3>3, FailedWhenServing
    <3>4. QED
      BY <3>1, <3>2, <3>3
  <2>2. CASE ~RespondRead(p)
    BY <1>6, <2>2
       DEF RespondStep, RespondResumes, RespondSteps, RespondConsume, RespondSpawn,
           RespondConsumed, RespondMissing, RespondRejected, RespondResuming, Wake
  <2>3. QED
    BY <2>1, <2>2
<1>14. \A r \in Runs : Live(r)' => Live(r) \/ TaskOf(r) \notin orphans
  BY <1>2, <1>3, <1>6, <1>8, <1>9, <1>10 DEF Live
<1>15. \A d \in Callers : d # p => pc'[d] = pc[d] /\ (d \notin Starts => subject'[d] = subject[d])
  BY <1>1, <1>2, <1>3, <1>6, <1>8, <1>9, <1>10 DEF RespondMoves
<1>16. QED
  BY <1>2, <1>5, <1>11, <1>12, <1>13, <1>14, <1>15, CallSpares

LEMMA StopSparesOrphans ==
    ASSUME OrphanInv, NEW s \in Stops, StopStep(s)
    PROVE  OrphansSpared
<1>1. /\ TypeInv /\ StopMoves(s)
      /\ UNCHANGED <<status, events, orphans, todo, subject>>
  BY StopSteppedMoves
     DEF OrphanInv, TopicInv, KeyInv, StopStep, tables, supervisorVars, callVars, bootVars
<1>2. /\ s \in Client /\ s # Boot /\ s \notin Callers /\ s \notin Runs
      /\ Boot \in Client /\ \A d \in Callers \cup Runs : d \in Client /\ d # Boot
  BY ClientMembers, ClientKinds DEF Callers
<1>3. /\ pc \in [Client -> RunLabel \cup CallLabel \cup BootLabel]
      /\ reply \in [Client -> Reply] /\ queue \in Seq(Op)
  BY <1>1 DEF TypeInv, TypeOK, StoreTypeOK
<1>4. PICK l : pc' = [pc EXCEPT ![s] = l]
  BY <1>1 DEF StopMoves
<1>5. Serving
  BY UnderWay DEF StopStep, StopSubmit, StopReturn, Wake, AtRest, EndLabel
<1>6. BootAlone
  BY <1>1, <1>2, <1>3, <1>4 DEF BootAlone, StopMoves, Consumes
<1>7. QueueSpared
  <2>1. CASE queue' = queue
    BY <2>1 DEF QueueSpared
  <2>2. CASE StopSubmit(s)
    <3>1. /\ MakeOp(s, "stop", AnyTask) \in Op /\ MakeOp(s, "stop", AnyTask).by = s
          /\ MakeOp(s, "stop", AnyTask).kind = "stop"
      BY <1>2, ClientMembers, OpTyped DEF OpKind
    <3>2. QED
      BY <1>1, <1>2, <1>5, <2>2, <3>1, AppendSpares DEF StopSubmit, Submit, Harmless, Writes
  <2>3. QED
    BY <2>1, <2>2 DEF StopStep, StopReturn
<1>8. QED
  BY <1>1, <1>2, <1>3, <1>4, <1>5, <1>6, <1>7, CallSpares DEF Callers, Live

LEMMA GoneSparesOrphans ==
    ASSUME OrphanInv, NEW c \in Callers, CallerCancelled(c)
    PROVE  OrphansSpared
<1>1. /\ TypeInv /\ pc' = [pc EXCEPT ![c] = "gone"] /\ queue' = Disowned(c)
      /\ UNCHANGED <<status, events, orphans, todo, subject, reply>>
  BY DEF OrphanInv, TopicInv, KeyInv, CallerCancelled, Goto, tables, supervisorVars,
         callVars, bootVars
<1>2. /\ c \in Client /\ c # Boot /\ c \notin Runs /\ Boot \in Client /\ Boot # Nobody
      /\ \A d \in Callers \cup Runs : d \in Client /\ d # Boot
  BY ClientMembers, ClientKinds, StoreConstants DEF Callers
<1>3. /\ pc \in [Client -> RunLabel \cup CallLabel \cup BootLabel] /\ queue \in Seq(Op)
      /\ pc[c] \notin EndLabel /\ pc'[c] = "gone"
  BY <1>1, <1>2 DEF TypeInv, TypeOK, StoreTypeOK, CallerCancelled
<1>4. Serving
  BY UnderWay DEF CallerCancelled, AtRest
<1>5. BootAlone
  BY <1>1, <1>2, <1>3 DEF BootAlone
<1>6. QueueSpared
  BY <1>1, <1>2, <1>3, DisownedKeeps DEF QueueSpared
<1>7. ~Treats(c)'
  BY <1>3 DEF Treats, AtRest, EndLabel
<1>8. QED
  BY <1>1, <1>2, <1>3, <1>4, <1>5, <1>6, <1>7, CallSpares DEF Live

-----------------------------------------------------------------------------
(* Recovery itself.  It waits for the one write it has queued.             *)
LEMMA BootTreatsAll ==
    ASSUME OrphanInv, TopicInv', BootStep
    PROVE  OrphanInv'
<1>1. /\ TypeInv /\ BootMoves
      /\ UNCHANGED <<status, events, orphans>>
  BY BootSteppedMoves DEF OrphanInv, TopicInv, KeyInv, BootStep, tables
<1>2. /\ Boot \in Client
      /\ \A c \in Callers \cup Stops \cup Runs : c \in Client /\ c # Boot
      /\ \A t \in Task : Start(t) \in Callers
      /\ Cancels \cup Responds \subseteq Callers
      /\ \A t \in Task : Run(t) \in Runs /\ Resume(t) \in Runs
  BY ClientMembers, ClientKinds DEF Callers
<1>3. /\ pc \in [Client -> RunLabel \cup CallLabel \cup BootLabel]
      /\ reply \in [Client -> Reply] /\ queue \in Seq(Op)
      /\ subject \in [Cancels \cup Responds \cup {Boot} -> Task \cup {NoTask}]
      /\ orphans \subseteq Task
  BY <1>1 DEF TypeInv, TypeOK, StoreTypeOK
<1>4. \A c \in Callers \cup Stops \cup Runs : pc'[c] = pc[c]
  BY <1>1, <1>2, <1>3 DEF BootMoves
<1>5. OrphanIsLeft' /\ AloneAtBoot'
  <2>1. ~Serving
    BY DEF BootStep, BootRead, BootMark, BootSeal, BootMarked, BootLogged, BootServe, Wake,
           Serving
  <2>2. AloneAtBoot'
    BY <1>4, <2>1 DEF OrphanInv, AloneAtBoot, AtRest, Live
  <2>3. OrphanIsLeft'
    BY <1>1, <1>2, <1>3, <1>4, <2>1 DEF OrphanInv, OrphanIsLeft, AloneAtBoot, AtRest, Treats, Live
  <2>4. QED
    BY <2>2, <2>3
(* Between two writes the queue is empty. *)
<1>6. /\ Len(queue) = 0
      /\ pc[Boot] \in {"marking", "logging", "sealing"} => reply[Boot] = "ok"
  <2>1. \/ pc[Boot] \in {"read", "next"}
        \/ pc[Boot] \in {"marking", "logging", "sealing"} /\ reply[Boot] # "none"
    BY DEF BootStep, BootRead, BootMark, BootSeal, BootMarked, BootLogged, BootServe, Wake
  <2>2. \A i \in 1 .. Len(queue) : FALSE
    BY <2>1 DEF OrphanInv, BootQueue, BootWrite, Serving
  <2>3. Len(queue) \in Nat
    BY <1>3
  <2>4. QED
    BY <2>1, <2>2, <2>3 DEF OrphanInv, BootHears
<1>7. ASSUME NEW op \in Op, queue' = Append(queue, op)
      PROVE  Len(queue') = 1 /\ queue'[1] = op
  BY <1>3, <1>6, <1>7
<1>8. \A l : Goto(Boot, l) => pc'[Boot] = l
  BY <1>2, <1>3 DEF Goto
<1>9. \A l, a : Wake(Boot, l, a) => pc[Boot] = l /\ reply[Boot] = a /\ reply'[Boot] = "none"
  BY <1>2, <1>3 DEF Wake
<1>10. Quiet => reply[Boot] = "none"
  BY <1>2 DEF Quiet
<1>11. \A t \in Task :
          /\ StatusOp(Boot, t, "failed") \in Op /\ StatusOp(Boot, t, "failed").by = Boot
          /\ StatusOp(Boot, t, "failed").kind = "status"
          /\ StatusOp(Boot, t, "failed").status = "failed"
          /\ StatusOp(Boot, t, "failed").task = t
          /\ EventOp(Boot, t, "failed", "recovery") \in Op
          /\ EventOp(Boot, t, "failed", "recovery").by = Boot
          /\ EventOp(Boot, t, "failed", "recovery").kind = "event"
          /\ EventOp(Boot, t, "failed", "recovery").type = "failed"
          /\ EventOp(Boot, t, "failed", "recovery").id = "recovery"
          /\ EventOp(Boot, t, "failed", "recovery").task = t
  <2>1. ASSUME NEW t \in Task
        PROVE  /\ StatusOp(Boot, t, "failed").status = "failed"
               /\ StatusOp(Boot, t, "failed").task = t
               /\ EventOp(Boot, t, "failed", "recovery").type = "failed"
               /\ EventOp(Boot, t, "failed", "recovery").id = "recovery"
               /\ EventOp(Boot, t, "failed", "recovery").task = t
    BY DEF StatusOp, EventOp, MakeOp
  <2>2. QED
    BY <1>2, <2>1, OpTyped, StatusKinds DEF EventType, EventId
<1>12. /\ MakeOp(Boot, "lifecycle", AnyTask) \in Op
       /\ MakeOp(Boot, "lifecycle", AnyTask).by = Boot
       /\ MakeOp(Boot, "lifecycle", AnyTask).kind = "lifecycle"
  BY <1>2, ClientMembers, OpTyped DEF OpKind
<1> DEFINE Waits == OrphanUnwritten' /\ BootQueue' /\ BootHears'
           Left  == TodoLeft' /\ OrphanFails' /\ SubjectFailed' /\ LoggedOnce'
<1>13. UNCHANGED queue /\ reply'[Boot] = "none" /\ pc'[Boot] # "stuck" => Waits
  BY <1>6 DEF OrphanUnwritten, BootQueue, BootHears
<1>14. ASSUME NEW op \in Op, queue' = Append(queue, op), op.by = Boot, BootWrite(op)',
              reply'[Boot] = "none", pc'[Boot] \notin {"stuck", "serving"}
       PROVE  Waits
  BY <1>7, <1>14 DEF OrphanUnwritten, BootQueue, BootHears, Serving
<1>15. CASE Quiet /\ BootRead
  <2>1. /\ pc[Boot] = "read" /\ pc'[Boot] = "next" /\ todo' = TasksIn(RecoverableStatus)
        /\ UNCHANGED queue /\ reply'[Boot] = "none"
    BY <1>8, <1>10, <1>15 DEF BootRead, RecoverableRows
  <2>2. "failed" \notin RecoverableStatus
    BY DEF RecoverableStatus, ActiveStatus
  <2>3. Left
    BY <1>1, <1>3, <2>1, <2>2
       DEF OrphanInv, TodoLeft, OrphanFails, SubjectFailed, LoggedOnce, TasksIn
  <2>4. QED
    BY <1>5, <1>13, <2>1, <2>3 DEF OrphanInv
<1>16. CASE Quiet /\ BootMark
  <2>1. PICK t \in todo : /\ subject' = [subject EXCEPT ![Boot] = t]
                          /\ queue' = Append(queue, StatusOp(Boot, t, "failed"))
    BY <1>16 DEF BootMark, Submit
  <2>2. /\ pc[Boot] = "next" /\ pc'[Boot] = "marking" /\ todo' = todo
        /\ reply'[Boot] = "none" /\ t \in Task /\ subject'[Boot] = t
    BY <1>3, <1>8, <1>10, <1>16, <2>1 DEF BootMark, OrphanInv, TodoLeft
  <2>3. Waits
    BY <1>11, <1>14, <2>1, <2>2 DEF BootWrite
  <2>4. Left
    BY <1>1, <2>1, <2>2
       DEF OrphanInv, TodoLeft, OrphanFails, SubjectFailed, LoggedOnce, TasksIn
  <2>5. QED
    BY <1>5, <2>3, <2>4 DEF OrphanInv
<1>17. CASE BootMarked
  <2>1. /\ pc[Boot] = "marking" /\ reply[Boot] = "ok" /\ pc'[Boot] = "logging"
        /\ reply'[Boot] = "none" /\ UNCHANGED <<todo, subject>>
        /\ queue' = Append(queue, EventOp(Boot, subject[Boot], "failed", "recovery"))
    BY <1>8, <1>9, <1>17 DEF BootMarked, Submit
  <2>2. subject[Boot] \in Task
    BY <1>3, <2>1 DEF OrphanInv, TodoLeft
  <2>3. Waits
    BY <1>11, <1>14, <2>1, <2>2 DEF BootWrite
  <2>4. Left
    BY <1>1, <2>1
       DEF OrphanInv, TodoLeft, OrphanFails, SubjectFailed, LoggedOnce, TasksIn
  <2>5. QED
    BY <1>5, <2>3, <2>4 DEF OrphanInv
<1>18. CASE BootLogged
  <2>1. /\ pc[Boot] = "logging" /\ reply'[Boot] = "none" /\ pc'[Boot] = "next"
        /\ UNCHANGED <<queue, subject>> /\ todo' = todo \ {subject[Boot]}
    BY <1>8, <1>9, <1>18 DEF BootLogged, OrphanInv, BootHears
  <2>2. Left
    BY <1>1, <2>1
       DEF OrphanInv, TodoLeft, OrphanFails, SubjectFailed, LoggedOnce, TasksIn
  <2>3. QED
    BY <1>5, <1>13, <2>1, <2>2 DEF OrphanInv
<1>19. CASE Quiet /\ BootSeal
  <2>1. /\ pc[Boot] = "next" /\ pc'[Boot] = "sealing" /\ todo = {} /\ UNCHANGED <<todo, subject>>
        /\ reply'[Boot] = "none"
        /\ queue' = Append(queue, MakeOp(Boot, "lifecycle", AnyTask))
    BY <1>8, <1>10, <1>19 DEF BootSeal, Submit
  <2>2. Waits
    BY <1>12, <1>14, <2>1 DEF BootWrite
  <2>3. Left
    BY <1>1, <2>1
       DEF OrphanInv, TodoLeft, OrphanFails, SubjectFailed, LoggedOnce, TasksIn
  <2>4. QED
    BY <1>5, <2>2, <2>3 DEF OrphanInv
<1>20. CASE BootServe
  <2>1. /\ pc[Boot] = "sealing" /\ pc'[Boot] = "serving" /\ reply'[Boot] = "none"
        /\ UNCHANGED <<queue, todo, subject>>
    BY <1>8, <1>9, <1>20 DEF BootServe
  <2>2. Left
    BY <1>1, <2>1
       DEF OrphanInv, TodoLeft, OrphanFails, SubjectFailed, LoggedOnce, TasksIn
  <2>3. QED
    BY <1>5, <1>13, <2>1, <2>2 DEF OrphanInv
<1>21. QED
  BY <1>15, <1>16, <1>17, <1>18, <1>19, <1>20 DEF BootStep

(* The writer leaves the orphans alone while the program serves ...        *)
LEMMA HarmlessKeeps ==
    ASSUME OrphanInv, NEW op \in Op, Apply(op), Harmless(op), op.by # Boot
    PROVE  /\ \A t \in orphans : status'[t] = status[t]
           /\ \A t \in Task : <<t, "recovery">> \in events' => <<t, "recovery">> \in events
           /\ reply'[Boot] = reply[Boot]
<1>1. /\ status \in [Task -> Status \cup {"absent"}] /\ op.task \in Task
      /\ reply \in [Client -> Reply] /\ Boot \in Client /\ orphans \subseteq Task
  BY ClientMembers DEF OrphanInv, TopicInv, KeyInv, TypeInv, TypeOK, StoreTypeOK, Op
<1>2. \E a \in Reply : Answer(op, a)
  BY DEF Apply, InsertTask, RefuseDuplicate, UpdateStatus, AppendEvent, RefuseEvent,
         SaveCheckpoint, ConsumeCheckpoint, MissCheckpoint, NextGeneration,
         StopTopicPrefix, LifecycleLog, Reply
<1>3. reply'[Boot] = reply[Boot]
  BY <1>1, <1>2 DEF Answer
<1>4. status' = status \/ (Writes(op) /\ \E s : status' = [status EXCEPT ![op.task] = s])
  BY DEF Apply, InsertTask, RefuseDuplicate, UpdateStatus, AppendEvent, RefuseEvent,
         SaveCheckpoint, ConsumeCheckpoint, MissCheckpoint, NextGeneration,
         StopTopicPrefix, LifecycleLog, Marked, Writes, tables
<1>5. events' = events \/ (Writes(op) /\ events' = events \cup {<<op.task, op.id>>})
  BY DEF Apply, InsertTask, RefuseDuplicate, UpdateStatus, AppendEvent, RefuseEvent,
         SaveCheckpoint, ConsumeCheckpoint, MissCheckpoint, NextGeneration,
         StopTopicPrefix, LifecycleLog, Writes, tables
<1>6. \A t \in orphans : status'[t] = status[t]
  BY <1>1, <1>4 DEF Harmless
<1>7. QED
  BY <1>3, <1>5, <1>6 DEF Harmless

(* ... and does what recovery waits for before. *)
LEMMA WriterSparesOrphans ==
    ASSUME OrphanInv, TopicInv', WriterTurn
    PROVE  OrphanInv'
<1> DEFINE op == Head(queue)
<1>1. /\ op = queue[1] /\ op \in Op /\ op.task \in Task
      /\ Len(queue') = Len(queue) - 1 /\ 1 \in 1 .. Len(queue)
      /\ \A i \in 1 .. Len(queue') : i + 1 \in 1 .. Len(queue) /\ queue'[i] = queue[i + 1]
  BY WriterCases DEF OrphanInv
<1>2. Apply(op) /\ UNCHANGED <<pc, subject, orphans, todo>>
  BY DEF WriterTurn, WriterStep, runtimeVars, supervisorVars, callVars, bootVars
<1>3. /\ status \in [Task -> Status \cup {"absent"}] /\ orphans \subseteq Task
      /\ reply \in [Client -> Reply] /\ Boot \in Client /\ Boot # Nobody
  BY ClientMembers, StoreConstants
     DEF OrphanInv, TopicInv, KeyInv, TypeInv, TypeOK, StoreTypeOK
<1> HIDE DEF op
<1>4. OrphanIsLeft' /\ OrphanUnwritten' /\ AloneAtBoot'
  <2>1. OrphanIsLeft' /\ AloneAtBoot'
    BY <1>2
       DEF OrphanInv, OrphanIsLeft, AloneAtBoot, Live, Treats, AtRest, Serving
  <2>2. OrphanUnwritten'
    BY <1>1, <1>2 DEF OrphanInv, OrphanUnwritten, Harmless, Writes
  <2>3. QED
    BY <2>1, <2>2
<1>5. CASE Serving
  <2>1. /\ \A t \in orphans : status'[t] = status[t]
        /\ \A t \in Task : <<t, "recovery">> \in events' => <<t, "recovery">> \in events
        /\ reply'[Boot] = reply[Boot]
    BY <1>1, <1>2, <1>5, HarmlessKeeps DEF OrphanInv, OrphanUnwritten, BootQueue
  <2>2. BootQueue' /\ BootHears'
    BY <1>1, <1>2, <1>5, <2>1 DEF OrphanInv, BootQueue, BootHears, Serving
  <2>3. TodoLeft' /\ OrphanFails' /\ SubjectFailed' /\ LoggedOnce'
    BY <1>2, <1>5, <2>1
       DEF OrphanInv, TodoLeft, OrphanFails, SubjectFailed, LoggedOnce, Serving
  <2>4. QED
    BY <1>4, <2>2, <2>3 DEF OrphanInv
<1>6. CASE ~Serving
  <2>1. Len(queue') = 0 /\ op.by = Boot /\ BootWrite(op) /\ reply[Boot] = "none"
    BY <1>1, <1>6 DEF OrphanInv, BootQueue
  <2>2. BootQueue'
    BY <1>2, <1>6, <2>1 DEF BootQueue, Serving
  <2>3. /\ pc[Boot] \in {"marking", "logging"} =>
             /\ subject[Boot] \in Task /\ subject[Boot] \in todo
             /\ Row(subject[Boot])
             /\ <<subject[Boot], "recovery">> \notin events
    <3>1. pc[Boot] \in {"marking", "logging"} =>
              subject[Boot] \in todo /\ subject[Boot] \in orphans
      BY DEF OrphanInv, TodoLeft
    <3>2. \A t \in orphans : Row(t)
      BY DEF OrphanInv, OrphanFails, Row, RecoverableStatus, ActiveStatus
    <3>3. QED
      BY <1>3, <2>1, <3>1, <3>2 DEF OrphanInv, LoggedOnce
  <2>4. Answer(op, "ok") => reply'[Boot] = "ok"
    BY <1>3, <2>1 DEF Answer
  <2>5. CASE op.kind = "status"
    <3>1. /\ pc[Boot] = "marking" /\ op.status = "failed" /\ op.task = subject[Boot]
          /\ status' = [status EXCEPT ![subject[Boot]] = "failed"]
          /\ UNCHANGED events /\ reply'[Boot] = "ok"
      BY <1>2, <2>1, <2>3, <2>4, <2>5
         DEF BootWrite, Apply, InsertTask, RefuseDuplicate, UpdateStatus, AppendEvent,
             RefuseEvent, SaveCheckpoint, ConsumeCheckpoint, MissCheckpoint,
             NextGeneration, StopTopicPrefix, LifecycleLog, Marked
    <3>2. status'[subject[Boot]] = "failed"
          /\ \A t \in Task : t # subject[Boot] => status'[t] = status[t]
      BY <1>3, <2>3, <3>1
    <3>3. BootHears' /\ TodoLeft' /\ OrphanFails' /\ SubjectFailed' /\ LoggedOnce'
      BY <1>2, <1>3, <3>1, <3>2
         DEF OrphanInv, BootHears, TodoLeft, OrphanFails, SubjectFailed, LoggedOnce
    <3>4. QED
      BY <1>4, <2>2, <3>3 DEF OrphanInv
  <2>6. CASE op.kind = "event"
    <3>1. /\ pc[Boot] = "logging" /\ op.type = "failed" /\ op.id = "recovery"
          /\ op.task = subject[Boot]
      BY <2>1, <2>6 DEF BootWrite
    <3>2. EventIdFree(op) /\ EventStatus(op.type, status[op.task]) = "failed"
      BY <2>3, <3>1 DEF EventIdFree, EventStatus
    <3>3. AppendEvent(op)
      BY <1>2, <2>6, <3>2
         DEF Apply, InsertTask, RefuseDuplicate, UpdateStatus, RefuseEvent,
             SaveCheckpoint, ConsumeCheckpoint, MissCheckpoint, NextGeneration,
             StopTopicPrefix, LifecycleLog
    <3>4. /\ status' = [status EXCEPT ![subject[Boot]] = "failed"]
          /\ events' = events \cup {<<subject[Boot], "recovery">>}
          /\ reply'[Boot] = "ok"
      BY <2>3, <2>4, <3>1, <3>2, <3>3 DEF AppendEvent, Marked
    <3>5. status'[subject[Boot]] = "failed"
          /\ \A t \in Task : t # subject[Boot] => status'[t] = status[t]
      BY <1>3, <2>3, <3>1, <3>4
    <3>6. LoggedOnce'
      BY <1>2, <1>3, <2>3, <3>1, <3>4, <3>5 DEF OrphanInv, LoggedOnce, TodoLeft
    <3>7. BootHears' /\ TodoLeft' /\ OrphanFails' /\ SubjectFailed'
      BY <1>2, <1>3, <3>1, <3>4, <3>5
         DEF OrphanInv, BootHears, TodoLeft, OrphanFails, SubjectFailed
    <3>8. QED
      BY <1>4, <2>2, <3>6, <3>7 DEF OrphanInv
  <2>7. CASE op.kind = "lifecycle"
    <3>1. /\ pc[Boot] = "sealing" /\ UNCHANGED <<status, events>> /\ reply'[Boot] = "ok"
      BY <1>2, <2>1, <2>4, <2>7
         DEF BootWrite, Apply, InsertTask, RefuseDuplicate, UpdateStatus, AppendEvent,
             RefuseEvent, SaveCheckpoint, ConsumeCheckpoint, MissCheckpoint,
             NextGeneration, StopTopicPrefix, LifecycleLog, tables
    <3>2. BootHears' /\ TodoLeft' /\ OrphanFails' /\ SubjectFailed' /\ LoggedOnce'
      BY <1>2, <3>1
         DEF OrphanInv, BootHears, TodoLeft, OrphanFails, SubjectFailed, LoggedOnce
    <3>3. QED
      BY <1>4, <2>2, <3>2 DEF OrphanInv
  <2>8. QED
    BY <2>1, <2>5, <2>6, <2>7 DEF BootWrite
<1>7. QED
  BY <1>5, <1>6

-----------------------------------------------------------------------------
LEMMA OrphanInit == Init => OrphanInv
<1> SUFFICES ASSUME Init PROVE OrphanInv
  OBVIOUS
<1>1. /\ Len(queue) = 0 /\ orphans = {} /\ todo = {} /\ events = {}
      /\ \A t \in Task : status[t] = "absent"
      /\ \A c \in Client : reply[c] = "none"
      /\ pc = [c \in Client |-> IF c = Boot THEN "read" ELSE "idle"]
  BY DEF Init, StoreInit
<1>2. /\ Boot \in Client /\ pc[Boot] = "read" /\ reply[Boot] = "none"
      /\ \A c \in Callers \cup Stops \cup Runs : pc[c] = "idle"
  <2>1. Boot \in Client
    BY ClientMembers
  <2>2. \A c \in Callers \cup Stops \cup Runs : c \in Client /\ c # Boot
    <3>1. \A c \in Starts \cup Runs \cup Responds : c \in Client /\ c # Boot
      BY ClientsApart, ClientMembers
    <3>2. \A c \in Cancels \cup Stops : c \in Client /\ c # Boot
      BY ClientMembers DEF Cancels, Stops, Boot
    <3>3. QED
      BY <3>1, <3>2 DEF Callers
  <2>3. \A c \in Client : pc[c] = IF c = Boot THEN "read" ELSE "idle"
    BY <1>1
  <2>4. QED
    BY <1>1, <2>1, <2>2, <2>3
<1>3. AloneAtBoot
  BY <1>2 DEF AloneAtBoot, AtRest, Live
<1>4. TasksIn(RecoverableStatus) = {}
  BY <1>1 DEF TasksIn, RecoverableStatus, ActiveStatus
<1>5. QED
  BY <1>1, <1>2, <1>3, <1>4, TopicInit
     DEF OrphanInv, OrphanIsLeft, OrphanUnwritten, BootQueue, BootHears, TodoLeft,
         OrphanFails, SubjectFailed, LoggedOnce

LEMMA OrphanStep == OrphanInv /\ [Next]_vars => OrphanInv'
<1> SUFFICES ASSUME OrphanInv, [Next]_vars PROVE OrphanInv'
  OBVIOUS
<1>1. TopicInv'
  BY TopicStep DEF OrphanInv
<1>2. CASE AllSettled \/ UNCHANGED vars
  <2>1. UNCHANGED vars
    BY <1>2 DEF AllSettled
  <2>2. UNCHANGED <<queue, pc, subject, status, events, orphans, todo, reply>>
    BY <2>1 DEF vars, storeVars, runtimeVars, supervisorVars, callVars, bootVars
  <2>3. OrphansSpared
    BY <2>2
       DEF OrphanInv, AloneAtBoot, OrphansSpared, QueueSpared, NobodyTurns, BootAlone,
           Treats, AtRest, Live
  <2>4. QED
    BY <1>1, <2>3, SparedKeeps
<1>3. QED
  BY <1>1, <1>2, WriterSparesOrphans, BootTreatsAll, CrashLeaves, SparedKeeps,
     RunSparesOrphans, StartSparesOrphans, CancelSparesOrphans, RespondSparesOrphans,
     StopSparesOrphans, GoneSparesOrphans DEF Next

(* Once the program serves, whatever a crash left unfinished has failed    *)
(* and stays so, for any number of tasks, callers and crashes, also those  *)
(* that hit recovery itself; and recovery never meets the id of an event   *)
(* it wrote before: startup_recovery, list_recoverable and the writer.     *)
THEOREM RecoveryIsFinal == Spec => []OrphansStayFailed
<1>1. OrphanInv => OrphansStayFailed
  BY FailedWhenServing DEF OrphansStayFailed, OrphanInv, BootHears
<1>2. QED
  BY <1>1, OrphanInit, OrphanStep, PTL DEF Spec
=============================================================================
