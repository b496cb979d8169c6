-------------------------- MODULE TaskAnswerProofs --------------------------
(***************************************************************************)
(* Questions, answers and ends of background tasks, for every value of the *)
(* constants: a task that waits can be answered, one answer is accepted, a *)
(* task that ended does not come back, a confirmed cancellation sticks, an *)
(* end is reported once, the limit on active tasks is exceeded by racing   *)
(* admissions only, and an active row has a run.                           *)
(***************************************************************************)
EXTENDS TaskSupervisorProofs, FiniteSetTheorems, SequenceTheorems

(* Who may have been answered; a row whose start is not about to spawn its *)
(* run; a task whose first event is logged.                                *)
Asked(t) == \E p \in Responds : subject[p] = t
Told(t) == pc[Start(t)] = "create" /\ reply[Start(t)] = "ok"
Settled(t) == Row(t) /\ ~Told(t)
Logged(t) == <<t, "1">> \in events
Closing == {"closing", "push", "ended"}
Opening == {"idle", "running", "started", "ended"}
Updates(op) == op.kind \in {"status", "event", "checkpoint", "consume"}
Activates(op) == op.kind = "status" /\ op.status \in ActiveStatus
Asks(op) == op.kind = "event" /\ op.type = "needs_input"

(* The write a run, or an answer, is waiting for. *)
RunAwaits(r, op) ==
    /\ op.task = TaskOf(r)
    /\ \/ pc[r] = "running" /\ op.kind = "status"
       \/ pc[r] = "started" /\ op.kind = "event" /\ op.id = "1"
       \/ pc[r] \in {"agent_emit", "closing"} /\ op.kind = "event"
       \/ pc[r] = "checkpointing" /\ op.kind = "checkpoint"
AnswerAwaits(p, op) ==
    /\ op.task = subject[p]
    /\ \/ pc[p] = "consuming" /\ op.kind = "consume"
       \/ pc[p] \in {"resuming", "missing"} /\ op.kind = "status"

(* A checkpoint of t that is queued by c is its first and only one.        *)
Unsaved(t, c) ==
    /\ \/ pc[Run(t)] = "ended"
       \/ pc[Run(t)] = "checkpointing" /\ reply[Run(t)] = "none" /\ c = Run(t)
       \/ pc[Run(t)] = "checkpointing" /\ reply[Run(t)] = "cancelled"
    /\ Logged(t) /\ ~checkpoint[t] /\ ~Asked(t)

(* What is known of a write that is queued ... *)
OpOK(op) ==
    /\ op.by \in Runs => RunAwaits(op.by, op) /\ reply[op.by] = "none"
    /\ op.by \in Responds => AnswerAwaits(op.by, op) /\ reply[op.by] = "none"
    /\ op.kind = "create" =>
          /\ op.status # "waiting_input"
          /\ \/ pc[Start(op.task)] = "gone"
             \/ op.by = Start(op.task) /\ op.status = decision[op.task]
    /\ Updates(op) => Settled(op.task)
    /\ op.kind = "status" => op.status # "waiting_input"
    /\ Activates(op) => status[op.task] = "pending" \/ Asked(op.task)
    /\ op.kind = "checkpoint" => Unsaved(op.task, op.by)
    /\ op.kind = "consume" => Asked(op.task)
    /\ Asks(op) => checkpoint[op.task]

(* ... and of two of them, a before b: the announcement of a question is   *)
(* ahead of the answer that consumes it, and what makes an unanswered task *)
(* active is ahead of all else that is written to it.                      *)
PairOK(a, b) ==
    /\ a.by \in Runs \cup Responds => a.by # b.by
    /\ a.task = b.task =>
          /\ ~(a.kind = "checkpoint" /\ b.kind = "checkpoint")
          /\ ~(a.kind = "consume" /\ Asks(b))
          /\ (Updates(a) \/ a.kind = "create") /\ Activates(b) => Asked(b.task)

OpsOK == \A i \in 1 .. Len(queue) : OpOK(queue[i])
PairsOK == \A i, j \in 1 .. Len(queue) : i < j => PairOK(queue[i], queue[j])

RunsKnown ==
    /\ \A t \in Task : registered[t] # "none" => Live(<<registered[t], t>>)
    /\ \A r \in Runs : ~Live(r) => reply[r] = "none"
    /\ \A t \in Task : pc[Run(t)] # "idle" => pc[Start(t)] = "returned" /\ Row(t)

SubjectsSettled ==
    /\ \A c \in Cancels \cup Responds \cup {Boot} : subject[c] # NoTask => Settled(subject[c])
    /\ \A t \in todo : Settled(t)
    /\ \A t \in Task : Told(t) => status[t] = decision[t]
    /\ \A p \in Responds : pc[p] = "idle" => subject[p] = NoTask

StartsLogged ==
    \A r \in Runs :
        pc[r] \notin Opening \/ (pc[r] = "started" /\ reply[r] = "ok") => Logged(TaskOf(r))

(* A resumed run reuses the id of the first event: it is refused, and the  *)
(* run never gets further.                                                 *)
ResumeRefused ==
    \A t \in Task :
        /\ pc[Resume(t)] \in Opening
        /\ ~(pc[Resume(t)] = "started" /\ reply[Resume(t)] = "ok")
        /\ pc[Resume(t)] # "idle" => \E p \in Responds : subject[p] = t /\ pc[p] = "returned"

QuestionPut ==
    \A p \in Responds : subject[p] # NoTask =>
        Logged(subject[p]) /\ pc[Run(subject[p])] \in Closing
QuestionSaved ==
    \A t \in Task :
        /\ checkpoint[t] => /\ Logged(t)
                            /\ \/ pc[Run(t)] \in Closing
                               \/ pc[Run(t)] = "checkpointing" /\ reply[Run(t)] # "none"
        /\ pc[Run(t)] = "checkpointing" /\ reply[Run(t)] = "ok" => checkpoint[t]

(* An answer that was accepted has used up the checkpoint. *)
Spent(p) ==
    \/ pc[p] \in {"resuming", "reread", "returned"}
    \/ pc[p] = "consuming" /\ reply[p] = "ok"
SpentOnce ==
    \A p \in Responds : Spent(p) =>
        /\ subject[p] \in Task
        /\ ~checkpoint[subject[p]]
        /\ \A q \in Responds : Spent(q) /\ subject[q] = subject[p] => q = p

AnswerInv ==
    /\ OrphanInv
    /\ OpsOK
    /\ PairsOK
    /\ RunsKnown
    /\ SubjectsSettled
    /\ StartsLogged
    /\ ResumeRefused
    /\ QuestionPut
    /\ QuestionSaved
    /\ SpentOnce
    /\ WaitingHasCheckpoint

-----------------------------------------------------------------------------
(* What is left of the queue, and one write at most behind it. *)
LEMMA QueueBecomes ==
    ASSUME NEW q \in Seq(Op),
           \A i \in 1 .. Len(q) : \A o \in Op : o = q[i] => OpOK(o)',
           \A i, j \in 1 .. Len(q) : \A a, b \in Op :
               i < j /\ a = q[i] /\ b = q[j] => PairOK(a, b)',
           \/ queue' = q
           \/ \E op \in Op :
                 /\ queue' = Append(q, op) /\ OpOK(op)'
                 /\ \A i \in 1 .. Len(q) : \A o \in Op : o = q[i] => PairOK(o, op)'
    PROVE  OpsOK' /\ PairsOK'
<1> DEFINE n == Len(q)
<1>1. n \in Nat /\ \A i \in 1 .. n : q[i] \in Op
  OBVIOUS
<1>4. CASE queue' = q
  <2>1. ASSUME NEW i \in 1 .. n PROVE OpOK(queue[i])'
    BY <1>1, <1>4 DEF OpOK, Activates, Asks, Updates, Unsaved, RunAwaits, AnswerAwaits
  <2>2. ASSUME NEW i \in 1 .. n, NEW j \in 1 .. n, i < j PROVE PairOK(queue[i], queue[j])'
    BY <1>1, <1>4, <2>2 DEF PairOK, Activates, Asks, Updates
  <2>3. QED
    BY <1>4, <2>1, <2>2 DEF OpsOK, PairsOK
<1>5. ASSUME NEW op \in Op, queue' = Append(q, op), OpOK(op)',
             \A i \in 1 .. n : \A o \in Op : o = q[i] => PairOK(o, op)'
      PROVE  OpsOK' /\ PairsOK'
  <2>1. /\ Len(queue') = n + 1 /\ queue'[n + 1] = op
        /\ \A i \in 1 .. n : queue'[i] = q[i]
        /\ \A i \in 1 .. n + 1 : i \in 1 .. n \/ i = n + 1
    BY <1>5
  <2>8. /\ \A i \in 1 .. n : \A o \in Op : o = q[i] => OpOK(o)'
        /\ \A i, j \in 1 .. n : \A a, b \in Op :
              i < j /\ a = q[i] /\ b = q[j] => PairOK(a, b)'
    OBVIOUS
  <2> HIDE DEF n
  <2>2. ASSUME NEW i \in 1 .. n + 1
        PROVE  \A o \in Op : o = queue'[i] => OpOK(o)'
    BY <1>1, <1>5, <2>1, <2>8
  <2>3. ASSUME NEW i \in 1 .. n + 1, NEW j \in 1 .. n + 1, i < j
        PROVE  \A a, b \in Op : a = queue'[i] /\ b = queue'[j] => PairOK(a, b)'
    <3>1. i \in 1 .. n
      BY <1>1, <2>1, <2>3
    <3>2. CASE j \in 1 .. n
      BY <1>1, <2>1, <2>3, <2>8, <3>1, <3>2
    <3>3. CASE j = n + 1
      BY <1>1, <1>5, <2>1, <3>1, <3>3
    <3>4. QED
      BY <2>1, <3>2, <3>3
  <2>4. \A i \in 1 .. n + 1 : queue'[i] \in Op
    BY <1>1, <1>5, <2>1
  <2>5. OpsOK'
    BY <2>1, <2>2, <2>4 DEF OpsOK, OpOK, Activates, Asks, Updates, Unsaved, RunAwaits, AnswerAwaits
  <2>6. PairsOK'
    BY <2>1, <2>3, <2>4 DEF PairsOK, PairOK, Activates, Asks, Updates
  <2>7. QED
    BY <2>5, <2>6
<1>6. QED
  BY <1>4, <1>5

Queued(op) == \E i \in 1 .. Len(queue) : queue[i] = op

LEMMA QueueKept ==
    ASSUME queue \in Seq(Op), OpsOK, PairsOK,
           \A o \in Op : Queued(o) /\ OpOK(o) => OpOK(o)',
           \A a, b \in Op : PairOK(a, b) => PairOK(a, b)',
           \/ queue' = queue
           \/ \E op \in Op : /\ queue' = Append(queue, op) /\ OpOK(op)'
                             /\ \A o \in Op : Queued(o) /\ OpOK(o) => PairOK(o, op)'
    PROVE  OpsOK' /\ PairsOK'
<1>1. \A i \in 1 .. Len(queue) : queue[i] \in Op /\ Queued(queue[i]) /\ OpOK(queue[i])
  BY DEF Queued, OpsOK
<1>2. \A i \in 1 .. Len(queue) : \A o \in Op : o = queue[i] => OpOK(o)'
  BY <1>1
<1>3. \A i, j \in 1 .. Len(queue) : \A a, b \in Op :
          i < j /\ a = queue[i] /\ b = queue[j] => PairOK(a, b)'
  BY <1>1 DEF PairsOK
<1>4. \/ queue' = queue
      \/ \E op \in Op :
            /\ queue' = Append(queue, op) /\ OpOK(op)'
            /\ \A i \in 1 .. Len(queue) : \A o \in Op : o = queue[i] => PairOK(o, op)'
  BY <1>1
<1>5. QED
  BY <1>2, <1>3, <1>4, QueueBecomes

-----------------------------------------------------------------------------
(* What a step of run r does: it takes its own answer, goes on one label,  *)
(* and queues at most the write it then waits for.                         *)
RunQueues1(r, op) ==
    /\ queue' = Append(queue, op)
    /\ op.by = r /\ op.task = TaskOf(r)
    /\ \/ pc'[r] = "checkpointing" /\ op.kind = "checkpoint" /\ pc[r] \in {"executing", "agent_push"}
       \/ op.kind = "event" /\ pc'[r] = "started" /\ op.id = "1"
       \/ op.kind = "event" /\ pc'[r] \in {"agent_emit", "closing"}
    /\ Asks(op) => pc[r] = "checkpointing" /\ reply[r] = "ok"
RunActs(r) ==
    /\ Live(r) /\ pc'[r] \notin {"idle", "running"} /\ reply'[r] = "none"
    /\ \A c \in Client : c # r => pc'[c] = pc[c] /\ reply'[c] = reply[c]
    /\ \A i \in 1 .. Len(queue) : queue[i].by # r
    /\ \/ pc'[r] = "ended" /\ registered' = [registered EXCEPT ![TaskOf(r)] = "none"]
       \/ pc'[r] # "ended" /\ UNCHANGED registered
    /\ pc[r] \in Closing => pc'[r] \in Closing
    /\ pc[r] = "checkpointing" =>
          pc'[r] \in Closing /\ (reply[r] = "cancelled" => pc'[r] = "ended")
    /\ pc'[r] \notin Opening => pc[r] \notin Opening \/ (pc[r] = "started" /\ reply[r] = "ok")
    /\ queue' = queue \/ \E op \in Op : RunQueues1(r, op)

LEMMA RunSteppedActs ==
    ASSUME AnswerInv, NEW r \in Runs, ResumeRun(r) \/ StepRun(r)
    PROVE  RunActs(r)
<1>1. /\ r \in Client /\ pc \in [Client -> RunLabel \cup CallLabel \cup BootLabel]
      /\ reply \in [Client -> Reply] /\ queue \in Seq(Op) /\ pc[r] \in RunLabel
      /\ outcome[r] \in Outcome /\ TaskOf(r) \in Task
  BY ClientMembers
     DEF AnswerInv, OrphanInv, TopicInv, KeyInv, TypeInv, TypeOK, StoreTypeOK, RuntimeTypeOK
<1> DEFINE Own(label) == /\ pc' = [pc EXCEPT ![r] = label]
                         /\ \/ label = "ended" /\ registered' = [registered EXCEPT ![TaskOf(r)] = "none"]
                            \/ label # "ended" /\ UNCHANGED registered
           Alone == \A i \in 1 .. Len(queue) : queue[i].by # r
           Event(op, label) == /\ queue' = Append(queue, op) /\ op \in Op
                               /\ op.by = r /\ op.task = TaskOf(r) /\ op.kind = "event"
                               /\ label = "started" => op.id = "1"
                               /\ Asks(op) => pc[r] = "checkpointing" /\ reply[r] = "ok"
<1>2. \A i \in 1 .. Len(queue) : queue[i] \in Op /\ OpOK(queue[i])
  BY <1>1 DEF AnswerInv, OpsOK
<1>3. reply[r] # "none" \/ pc[r] \notin {"running", "started", "agent_emit", "checkpointing", "closing"}
         => Alone
  BY <1>2 DEF OpOK, RunAwaits
<1>4. /\ \A label, a : Wake(r, label, a) /\ a # "none"
            => /\ pc[r] = label /\ reply[r] = a /\ Alone /\ reply'[r] = "none"
               /\ \A c \in Client : c # r => reply'[c] = reply[c]
      /\ \A l : pc' = [pc EXCEPT ![r] = l]
            => pc'[r] = l /\ \A c \in Client : c # r => pc'[c] = pc[c]
  BY <1>1, <1>3 DEF Wake
<1>5. Quiet /\ UNCHANGED reply
         => /\ reply[r] = "none" /\ reply'[r] = "none"
            /\ \A c \in Client : c # r => reply'[c] = reply[c]
  BY <1>1 DEF Quiet
<1>6. \A type \in EventType, i \in EventId :
          /\ EventOp(r, TaskOf(r), type, i) \in Op
          /\ EventOp(r, TaskOf(r), type, i).by = r
          /\ EventOp(r, TaskOf(r), type, i).task = TaskOf(r)
          /\ EventOp(r, TaskOf(r), type, i).kind = "event"
          /\ EventOp(r, TaskOf(r), type, i).type = type
          /\ EventOp(r, TaskOf(r), type, i).id = i
  BY <1>1, OpTyped DEF EventOp, MakeOp
<1>7. /\ MakeOp(r, "checkpoint", TaskOf(r)) \in Op
      /\ MakeOp(r, "checkpoint", TaskOf(r)).by = r
      /\ MakeOp(r, "checkpoint", TaskOf(r)).task = TaskOf(r)
      /\ MakeOp(r, "checkpoint", TaskOf(r)).kind = "checkpoint"
  BY <1>1, OpTyped DEF OpKind, MakeOp
<1>8. \A l : \A type \in EventType, i \in EventId :
          /\ Emit(r, type, i, l) /\ l \in {"started", "closing"} /\ (l = "started" => i = "1")
          /\ type = "needs_input" => pc[r] = "checkpointing" /\ reply[r] = "ok"
          => /\ pc' = [pc EXCEPT ![r] = l] /\ UNCHANGED registered
             /\ \E op \in Op : Event(op, l)
  BY <1>6 DEF Emit, Submit, Goto, directory, Asks
<1>9. Finished(r) => pc' = [pc EXCEPT ![r] = "ended"]
                     /\ registered' = [registered EXCEPT ![TaskOf(r)] = "none"]
  BY DEF Finished, Goto
<1> HIDE DEF Own, Alone, Event
<1>10. CASE BecomeRunning(r)
  <2>1. /\ Wake(r, "running", "ok") /\ pc' = [pc EXCEPT ![r] = "started"] /\ UNCHANGED registered
        /\ \E op \in Op : Event(op, "started")
    BY <1>8, <1>10 DEF BecomeRunning, EventType, EventId
  <2>2. /\ pc[r] = "running" /\ Alone /\ reply'[r] = "none"
        /\ \A c \in Client : c # r => reply'[c] = reply[c]
    BY <1>4, <2>1
  <2>3. QED
    BY <1>4, <2>1, <2>2 DEF RunActs, RunQueues1, Event, Alone, Live, Closing, Opening
<1>11. CASE StartLogged(r) \/ StartRefused(r) \/ AgentLogged(r)
  <2>1. /\ queue' = queue
        /\ \/ Wake(r, "started", "ok") /\ pc' = [pc EXCEPT ![r] = "announced"] /\ UNCHANGED registered
           \/ Wake(r, "agent_emit", "ok") /\ pc' = [pc EXCEPT ![r] = "agent_push"]
              /\ UNCHANGED registered
           \/ /\ Wake(r, "started", "error") /\ pc' = [pc EXCEPT ![r] = "ended"]
              /\ registered' = [registered EXCEPT ![TaskOf(r)] = "none"]
    BY <1>9, <1>11 DEF StartLogged, StartRefused, AgentLogged, Goto, directory
  <2>2. /\ Alone /\ reply'[r] = "none" /\ \A c \in Client : c # r => reply'[c] = reply[c]
        /\ \/ pc[r] = "started" /\ reply[r] = "ok" /\ pc' = [pc EXCEPT ![r] = "announced"]
              /\ UNCHANGED registered
           \/ pc[r] = "agent_emit" /\ pc' = [pc EXCEPT ![r] = "agent_push"] /\ UNCHANGED registered
           \/ /\ pc[r] = "started" /\ pc' = [pc EXCEPT ![r] = "ended"]
              /\ registered' = [registered EXCEPT ![TaskOf(r)] = "none"]
    BY <1>4, <2>1
  <2>3. QED
    BY <1>4, <2>1, <2>2 DEF RunActs, Alone, Live, Closing, Opening
<1>12. CASE Checkpointed(r)
  <2>1. /\ Wake(r, "checkpointing", "ok") /\ pc' = [pc EXCEPT ![r] = "closing"] /\ UNCHANGED registered
        /\ \E op \in Op : Event(op, "closing")
    BY <1>8, <1>12 DEF Checkpointed, EventType, EventId, Wake
  <2>2. /\ pc[r] = "checkpointing" /\ reply[r] = "ok" /\ Alone /\ reply'[r] = "none"
        /\ \A c \in Client : c # r => reply'[c] = reply[c]
    BY <1>4, <2>1
  <2>3. QED
    BY <1>4, <2>1, <2>2 DEF RunActs, RunQueues1, Event, Alone, Live, Closing, Opening
<1>13. CASE LastEventLogged(r)
  <2>1. /\ queue' = queue
        /\ \E a \in {"ok", "error"} : Wake(r, "closing", a)
        /\ \/ pc' = [pc EXCEPT ![r] = "push"] /\ UNCHANGED registered
           \/ /\ pc' = [pc EXCEPT ![r] = "ended"]
              /\ registered' = [registered EXCEPT ![TaskOf(r)] = "none"]
    BY <1>9, <1>13 DEF LastEventLogged, Goto, directory
  <2>2. /\ pc[r] = "closing" /\ Alone /\ reply'[r] = "none"
        /\ \A c \in Client : c # r => reply'[c] = reply[c]
    BY <1>4, <2>1
  <2>3. \/ pc'[r] = "push" /\ UNCHANGED registered
        \/ pc'[r] = "ended" /\ registered' = [registered EXCEPT ![TaskOf(r)] = "none"]
    BY <1>4, <2>1
  <2>4. \A c \in Client : c # r => pc'[c] = pc[c]
    BY <1>4, <2>1
  <2>5. QED
    BY <2>1, <2>2, <2>3, <2>4 DEF RunActs, Alone, Live, Closing, Opening
<1>14. CASE CancelledInExecute(r)
  <2>1. /\ Wake(r, pc[r], "cancelled") /\ pc' = [pc EXCEPT ![r] = "closing"] /\ UNCHANGED registered
        /\ \E op \in Op : Event(op, "closing")
        /\ pc[r] \in {"executing", "agent_emit", "agent_push"}
    BY <1>8, <1>14 DEF CancelledInExecute, EventType, EventId, InExecute
  <2>2. QED
    BY <1>4, <2>1 DEF RunActs, RunQueues1, Event, Alone, Live, Closing, Opening
<1>15. CASE CancelledElsewhere(r)
  <2>1. /\ Wake(r, pc[r], "cancelled") /\ pc' = [pc EXCEPT ![r] = "ended"] /\ queue' = queue
        /\ registered' = [registered EXCEPT ![TaskOf(r)] = "none"]
    BY <1>9, <1>15 DEF CancelledElsewhere
  <2>2. Live(r)
    BY <2>1 DEF AnswerInv, RunsKnown, Wake
  <2>3. QED
    BY <1>4, <2>1, <2>2 DEF RunActs, Alone, Closing, Opening
<1>20. ASSUME NEW result \in Outcome, AfterExecute(r, result), pc[r] \in {"executing", "agent_push"},
              Quiet, UNCHANGED reply
       PROVE  RunActs(r)
  <2>1. \/ /\ pc' = [pc EXCEPT ![r] = "closing"] /\ UNCHANGED registered
           /\ \E op \in Op : Event(op, "closing")
        \/ /\ pc' = [pc EXCEPT ![r] = "checkpointing"] /\ UNCHANGED registered
           /\ queue' = Append(queue, MakeOp(r, "checkpoint", TaskOf(r)))
        \/ pc' = [pc EXCEPT ![r] = "terminal_check"] /\ UNCHANGED <<registered, queue>>
    BY <1>8, <1>20 DEF AfterExecute, EventType, EventId, Submit, Goto, directory
  <2>2. Alone
    BY <1>3, <1>20
  <2>3. MakeOp(r, "checkpoint", TaskOf(r)) \in Op /\ ~Asks(MakeOp(r, "checkpoint", TaskOf(r)))
    BY <1>7 DEF Asks
  <2>4. QED
    BY <1>4, <1>5, <1>7, <1>20, <2>1, <2>2, <2>3
       DEF RunActs, RunQueues1, Event, Alone, Live, Closing, Opening
<1>21. CASE Quiet /\ (Announce(r) \/ Instantiate(r) \/ InstantiateRaises(r) \/ CheckTerminal(r)
                       \/ LastPush(r))
  BY <1>3, <1>4, <1>5, <1>9, <1>21
     DEF Announce, Instantiate, InstantiateRaises, CheckTerminal, LastPush, Goto, directory,
         RunActs, Alone, Live, Closing, Opening
<1>22. CASE Quiet /\ (InstantiateFails(r) \/ Report(r))
  <2>1. /\ pc[r] \in {"instantiating", "report"}
        /\ pc' = [pc EXCEPT ![r] = "closing"] /\ UNCHANGED <<registered, reply>>
        /\ \E op \in Op : Event(op, "closing")
    BY <1>8, <1>22 DEF InstantiateFails, Report, EventType, EventId
  <2>2. QED
    BY <1>3, <1>4, <1>5, <1>22, <2>1 DEF RunActs, RunQueues1, Event, Alone, Live, Closing, Opening
<1>23. CASE Quiet /\ AgentEmits(r)
  <2>1. /\ pc[r] = "executing"
        /\ pc' = [pc EXCEPT ![r] = "agent_emit"] /\ UNCHANGED <<registered, reply>>
        /\ \E op \in Op : Event(op, "agent_emit")
    BY <1>6, <1>23 DEF AgentEmits, Event, EventType, EventId, Submit, Goto, directory, Asks
  <2>2. QED
    BY <1>3, <1>4, <1>5, <1>23, <2>1 DEF RunActs, RunQueues1, Event, Alone, Live, Closing, Opening
<1>24. CASE Quiet /\ (AgentPushes(r) \/ AgentReturns(r))
  BY <1>1, <1>20, <1>24 DEF AgentPushes, AgentReturns, Outcome
<1>30. QED
  BY <1>10, <1>11, <1>12, <1>13, <1>14, <1>15, <1>21, <1>22, <1>23, <1>24 DEF ResumeRun, StepRun

(* The types the steps below need. *)
LEMMA AnswerTypes ==
    ASSUME AnswerInv
    PROVE  /\ TypeInv /\ queue \in Seq(Op) /\ reply \in [Client -> Reply]
           /\ pc \in [Client -> RunLabel \cup CallLabel \cup BootLabel]
           /\ registered \in [Task -> {"none", "run", "resume"}]
           /\ status \in [Task -> Status \cup {"absent"}]
           /\ checkpoint \in [Task -> BOOLEAN]
           /\ decision \in [Task -> {"pending", "waiting_resource"}]
           /\ subject \in [Cancels \cup Responds \cup {Boot} -> Task \cup {NoTask}]
           /\ todo \subseteq Task
  BY DEF AnswerInv, OrphanInv, TopicInv, KeyInv, TypeInv, TypeOK, StoreTypeOK, RuntimeTypeOK

(* Steps after which the same tasks are asked keep the order of the queue. *)
LEMMA PairsStay ==
    ASSUME \A p \in Responds : subject[p] # NoTask => subject'[p] = subject[p]
    PROVE  \A a, b \in Op : PairOK(a, b) => PairOK(a, b)'
<1>1. ASSUME NEW t \in Task, Asked(t) PROVE Asked(t)'
  BY <1>1, SupervisorConstants DEF Asked
<1>2. QED
  BY <1>1 DEF PairOK, Op, Asks, Activates, Updates

LEMMA RunKeepsAnswers ==
    ASSUME AnswerInv, OrphanInv', NEW r \in Runs, RunStep(r)
    PROVE  AnswerInv'
<1> DEFINE t == TaskOf(r)
<1>1. /\ RunActs(r) /\ UNCHANGED <<tables, supervisorVars>>
  BY RunSteppedActs DEF RunStep, ResumeRun, StepRun
<1>2. UNCHANGED <<status, checkpoint, events, decision, subject, todo>>
  BY <1>1 DEF tables, supervisorVars, callVars, bootVars
<1>3. /\ r \in Client /\ t \in Task /\ (r = Run(t) \/ r = Resume(t))
      /\ registered \in [Task -> {"none", "run", "resume"}]
      /\ queue \in Seq(Op)
      /\ subject \in [Cancels \cup Responds \cup {Boot} -> Task \cup {NoTask}]
  BY AnswerTypes, ClientsApart
<1> HIDE DEF t
<1>4. /\ \A q \in Runs : q # r => pc'[q] = pc[q] /\ reply'[q] = reply[q]
      /\ \A p \in Responds : pc'[p] = pc[p] /\ reply'[p] = reply[p]
      /\ \A u \in Task : pc'[Start(u)] = pc[Start(u)] /\ reply'[Start(u)] = reply[Start(u)]
      /\ \A u \in Task : u # t => r # Run(u) /\ r # Resume(u)
  BY <1>1, <1>3, ClientsApart DEF RunActs
<1>5. \A u \in Task : (Asked(u)' <=> Asked(u)) /\ (Told(u)' <=> Told(u))
                      /\ (Settled(u)' <=> Settled(u)) /\ (Logged(u)' <=> Logged(u))
  BY <1>2, <1>4 DEF Asked, Told, Settled, Logged, Row
<1>6. /\ Live(r) /\ pc'[r] \notin {"idle", "running"} /\ reply'[r] = "none"
      /\ \A i \in 1 .. Len(queue) : queue[i].by # r
      /\ pc[r] \in Closing => pc'[r] \in Closing
      /\ pc[r] = "checkpointing" =>
            pc'[r] \in Closing /\ (reply[r] = "cancelled" => pc'[r] = "ended")
      /\ pc'[r] \notin Opening => pc[r] \notin Opening \/ (pc[r] = "started" /\ reply[r] = "ok")
  BY <1>1 DEF RunActs
<1>7. RunsKnown'
  <2>1. ASSUME NEW u \in Task, registered'[u] # "none"
        PROVE  pc'[<<registered'[u], u>>] \notin {"idle", "ended"}
    <3>1. CASE u = t /\ pc'[r] = "ended"
      BY <1>1, <1>3, <2>1, <3>1 DEF RunActs, t
    <3>2. CASE ~(u = t /\ pc'[r] = "ended")
      <4>1. registered'[u] = registered[u] /\ <<registered[u], u>> \in Runs
        BY <1>1, <1>3, <2>1, <3>2 DEF RunActs, t, Runs
      <4>2. Live(<<registered[u], u>>)
        BY <2>1, <4>1 DEF AnswerInv, RunsKnown
      <4>3. <<registered[u], u>> = r => u = t
        BY DEF t, TaskOf
      <4>4. QED
        BY <1>4, <1>6, <3>2, <4>1, <4>2, <4>3 DEF Live
    <3>3. QED
      BY <3>1, <3>2
  <2>2. ASSUME NEW q \in Runs, ~Live(q)' PROVE reply'[q] = "none"
    BY <1>4, <1>6, <2>2 DEF AnswerInv, RunsKnown, Live
  <2>3. ASSUME NEW u \in Task, pc'[Run(u)] # "idle"
        PROVE  pc'[Start(u)] = "returned" /\ Row(u)'
    BY <1>2, <1>4, <1>6, <2>3, ClientsApart DEF AnswerInv, RunsKnown, Live, Row
  <2>4. QED
    BY <2>1, <2>2, <2>3 DEF RunsKnown, Live
<1>8. SubjectsSettled'
  <2>1. \A u \in Task : (Settled(u) => Settled(u)') /\ (Told(u)' => Told(u))
    BY <1>5
  <2>2. /\ \A c \in Cancels \cup Responds \cup {Boot} : subject[c] # NoTask => Settled(subject[c])
        /\ \A u \in todo : Settled(u)
        /\ \A u \in Task : Told(u) => status[u] = decision[u]
        /\ \A p \in Responds : pc[p] = "idle" => subject[p] = NoTask
    BY DEF AnswerInv, SubjectsSettled
  <2>3. \A u \in Task : Settled(u) => Row(u) /\ ~(pc'[Start(u)] = "create" /\ reply'[Start(u)] = "ok")
    BY <1>4 DEF Settled, Told
  <2>4. \A c \in Cancels \cup Responds \cup {Boot} : subject[c] # NoTask => subject[c] \in Task
    BY <1>3
  <2>5. todo \subseteq Task
    BY AnswerTypes
  <2>6. QED
    BY <1>2, <1>4, <2>1, <2>2, <2>3, <2>4, <2>5 DEF SubjectsSettled, Settled, Row, Told
<1>9. StartsLogged'
  <2>1. ASSUME NEW q \in Runs, pc'[q] \notin Opening \/ (pc'[q] = "started" /\ reply'[q] = "ok")
        PROVE  Logged(TaskOf(q))
    BY <1>4, <1>6, <2>1 DEF AnswerInv, StartsLogged
  <2>2. QED
    BY <1>2, <2>1 DEF StartsLogged, Logged
<1>10. ResumeRefused'
  <2>1. ASSUME NEW u \in Task
        PROVE  /\ pc'[Resume(u)] \in Opening
               /\ ~(pc'[Resume(u)] = "started" /\ reply'[Resume(u)] = "ok")
               /\ pc'[Resume(u)] # "idle" =>
                     \E p \in Responds : subject[p] = u /\ pc[p] = "returned"
    BY <1>4, <1>6, <2>1, ClientsApart DEF AnswerInv, ResumeRefused, Live
  <2>2. QED
    BY <1>2, <1>4, <2>1 DEF ResumeRefused
<1>11. QuestionPut'
  <2>1. ASSUME NEW u \in Task, pc[Run(u)] \in Closing PROVE pc'[Run(u)] \in Closing
    BY <1>4, <1>6, <2>1, ClientsApart
  <2>2. ASSUME NEW p \in Responds, subject[p] # NoTask
        PROVE  Logged(subject[p]) /\ pc'[Run(subject[p])] \in Closing
    <3>1. subject[p] \in Task
      BY <1>3, <2>2
    <3>2. QED
      BY <2>1, <2>2, <3>1 DEF AnswerInv, QuestionPut
  <2>3. QED
    BY <1>2, <2>2 DEF QuestionPut, Closing, Logged
<1>12. QuestionSaved'
  <2>1. ASSUME NEW u \in Task, checkpoint[u]
        PROVE  /\ Logged(u)
               /\ \/ pc'[Run(u)] \in Closing
                  \/ pc'[Run(u)] = "checkpointing" /\ reply'[Run(u)] # "none"
    <3>1. /\ Logged(u)
          /\ pc[Run(u)] \in Closing \/ (pc[Run(u)] = "checkpointing" /\ reply[Run(u)] # "none")
      BY <2>1 DEF AnswerInv, QuestionSaved
    <3>2. Run(u) \in Runs
      BY ClientsApart
    <3>3. QED
      BY <1>4, <1>6, <3>1, <3>2
  <2>2. ASSUME NEW u \in Task, pc'[Run(u)] = "checkpointing", reply'[Run(u)] = "ok"
        PROVE  checkpoint[u]
    <3>1. Run(u) \in Runs /\ Run(u) # r
      BY <1>6, <2>2, ClientsApart
    <3>2. QED
      BY <1>4, <2>2, <3>1 DEF AnswerInv, QuestionSaved
  <2>3. QED
    BY <1>2, <1>5, <2>1, <2>2 DEF QuestionSaved, Closing
<1>13. SpentOnce' /\ WaitingHasCheckpoint'
  BY <1>2, <1>4 DEF AnswerInv, SpentOnce, Spent, WaitingHasCheckpoint
<1>14. ASSUME NEW o \in Op, o.by # r, OpOK(o) PROVE OpOK(o)'
  <2>1. o.task \in Task
    BY DEF Op
  <2>2. /\ o.by \in Runs => RunAwaits(o.by, o)' /\ reply'[o.by] = "none"
        /\ o.by \in Responds => AnswerAwaits(o.by, o)' /\ reply'[o.by] = "none"
    BY <1>2, <1>4, <1>14 DEF OpOK, RunAwaits, AnswerAwaits
  <2>3. Unsaved(o.task, o.by) => Unsaved(o.task, o.by)'
    <3>1. CASE Run(o.task) = r
      BY <1>2, <1>5, <1>6, <1>14, <2>1, <3>1 DEF Unsaved, Live, Closing
    <3>2. CASE Run(o.task) # r
      BY <1>2, <1>4, <1>5, <2>1, <3>2, ClientsApart DEF Unsaved
    <3>3. QED
      BY <3>1, <3>2
  <2>4. QED
    BY <1>2, <1>4, <1>5, <1>14, <2>1, <2>2, <2>3 DEF OpOK, Activates, Asks, Updates
<1>15. ASSUME NEW op \in Op, RunQueues1(r, op)
       PROVE  /\ OpOK(op)'
              /\ \A o \in Op : Queued(o) /\ OpOK(o) => PairOK(o, op)'
  <2>1. /\ op.by = r /\ op.task = t
        /\ \/ pc'[r] = "checkpointing" /\ op.kind = "checkpoint" /\ pc[r] \in {"executing", "agent_push"}
           \/ op.kind = "event" /\ pc'[r] = "started" /\ op.id = "1"
           \/ op.kind = "event" /\ pc'[r] \in {"agent_emit", "closing"}
        /\ Asks(op) => pc[r] = "checkpointing" /\ reply[r] = "ok"
        /\ ~Activates(op) /\ op.kind \in {"event", "checkpoint"}
    BY <1>15 DEF RunQueues1, t, Activates
  <2>2. r \notin Responds /\ RunAwaits(r, op)'
    BY <2>1, ClientsApart DEF RunAwaits, t
  <2>3. Settled(t)
    <3>1. CASE r = Run(t)
      BY <1>3, <1>6, <3>1 DEF AnswerInv, RunsKnown, Settled, Told, Live
    <3>2. CASE r = Resume(t)
      <4>1. PICK p \in Responds : subject[p] = t
        BY <1>3, <1>6, <3>2 DEF AnswerInv, ResumeRefused, Live
      <4>2. QED
        BY <1>3, <4>1, SupervisorConstants DEF AnswerInv, SubjectsSettled
    <3>3. QED
      BY <1>3, <3>1, <3>2
  <2>4. pc[r] \notin Opening => r = Run(t)
    BY <1>3 DEF AnswerInv, ResumeRefused
  <2>5. op.kind = "checkpoint" =>
            Unsaved(t, r)' /\ pc[Run(t)] \notin Closing \cup {"checkpointing"}
    <3> SUFFICES ASSUME op.kind = "checkpoint"
                 PROVE  Unsaved(t, r)' /\ pc[Run(t)] \notin Closing \cup {"checkpointing"}
      OBVIOUS
    <3>1. pc[r] \in {"executing", "agent_push"} /\ pc'[r] = "checkpointing" /\ r = Run(t)
      BY <2>1, <2>4 DEF Opening
    <3>2. Logged(t)
      BY <3>1 DEF AnswerInv, StartsLogged, Opening, t
    <3>3. ~checkpoint[t]
      BY <1>3, <3>1 DEF AnswerInv, QuestionSaved, Closing
    <3>4. ~Asked(t)
      BY <1>3, <3>1, SupervisorConstants DEF AnswerInv, QuestionPut, Closing, Asked
    <3>5. Unsaved(t, r)'
      BY <1>2, <1>3, <1>5, <1>6, <3>1, <3>2, <3>3, <3>4 DEF Unsaved
    <3>6. QED
      BY <3>1, <3>5 DEF Closing
  <2>6. Asks(op) => checkpoint[t] /\ ~Asked(t)
    BY <1>3, <2>1, <2>4, SupervisorConstants
       DEF Opening, Closing, AnswerInv, QuestionSaved, QuestionPut, Asked
  <2>7. OpOK(op)'
    BY <1>2, <1>3, <1>5, <1>6, <2>1, <2>2, <2>3, <2>5, <2>6 DEF OpOK, Updates, Asks, Activates
  <2>8. ASSUME NEW o \in Op, Queued(o), OpOK(o) PROVE PairOK(o, op)'
    <3>1. o.by # r
      BY <1>6, <2>8 DEF Queued
    <3>2. o.kind = "checkpoint" /\ op.kind = "checkpoint" => o.task # t
      BY <2>5, <2>8 DEF OpOK, Unsaved, Closing
    <3>3. o.kind = "consume" /\ Asks(op) => o.task # t
      BY <2>6, <2>8 DEF OpOK
    <3>4. QED
      BY <2>1, <3>1, <3>2, <3>3 DEF PairOK, Asks, Activates
  <2>9. QED
    BY <2>7, <2>8
<1>16. OpsOK' /\ PairsOK'
  <2>1. \A o \in Op : Queued(o) /\ OpOK(o) => OpOK(o)'
    BY <1>6, <1>14 DEF Queued
  <2>2. \A a, b \in Op : PairOK(a, b) => PairOK(a, b)'
    BY <1>2, PairsStay
  <2>3. queue' = queue \/ \E op \in Op : RunQueues1(r, op) /\ queue' = Append(queue, op)
    BY <1>1 DEF RunActs, RunQueues1
  <2>4. QED
    BY <1>3, <1>15, <2>1, <2>2, <2>3, QueueKept DEF AnswerInv
<1>17. QED
  BY <1>7, <1>8, <1>9, <1>10, <1>11, <1>12, <1>13, <1>16 DEF AnswerInv

-----------------------------------------------------------------------------
(* Steps beside the runs, the answers and the writer: they may interrupt a *)
(* run, give up a call, and queue writes that end a settled task.          *)
SideOp(op) ==
    /\ op.by \notin Runs \cup Starts \cup Responds
    /\ \/ op.kind \in {"stop", "lifecycle"}
       \/ /\ Settled(op.task)
          /\ \/ op.kind = "status" /\ op.status \in {"cancelled", "failed"}
             \/ op.kind = "event" /\ op.type \in {"cancelled", "failed"}

(* A queued write a, and what is queued in its place: its waiter may leave. *)
Handed(a, b) ==
    /\ b.kind = a.kind /\ b.task = a.task /\ b.status = a.status
    /\ b.type = a.type /\ b.id = a.id
    /\ \/ b.by = a.by /\ (a.by \in Runs \cup Responds => reply'[a.by] = reply[a.by] /\ pc'[a.by] = pc[a.by])
       \/ /\ b.by = Nobody
          /\ a.by \in Runs => reply'[a.by] = "cancelled"
          /\ a.by \in Starts => pc'[a.by] = "gone"

QueueAside ==
    \E q \in Seq(Op) :
        /\ Len(q) = Len(queue)
        /\ \A i \in 1 .. Len(queue) : Handed(queue[i], q[i])
        /\ queue' = q \/ \E op \in Op : SideOp(op) /\ queue' = Append(q, op)

Aside ==
    /\ UNCHANGED <<status, checkpoint, events, decision, registered>>
    /\ \A r \in Runs : pc'[r] = pc[r] /\ (reply'[r] = reply[r] \/ (Live(r) /\ reply'[r] = "cancelled"))
    /\ \A p \in Responds : subject'[p] = subject[p]
    /\ \A c \in Starts \cup Responds :
          /\ reply'[c] = reply[c]
          /\ pc'[c] = pc[c] \/ (pc'[c] = "gone" /\ pc[c] \notin {"idle", "returned"})
    /\ \A c \in Cancels \cup {Boot} :
          subject'[c] # subject[c] /\ subject'[c] # NoTask => subject'[c] \in Task /\ Settled(subject'[c])
    /\ \A t \in todo' : t \in todo \/ Settled(t)
    /\ QueueAside

LEMMA AsideKeeps ==
    ASSUME AnswerInv, OrphanInv', Aside
    PROVE  AnswerInv'
<1>1. UNCHANGED <<status, checkpoint, events, decision, registered>>
  BY DEF Aside
<1>2. /\ \A r \in Runs : pc'[r] = pc[r] /\ (reply'[r] = reply[r] \/ (Live(r) /\ reply'[r] = "cancelled"))
      /\ \A p \in Responds : subject'[p] = subject[p]
      /\ \A c \in Starts \cup Responds :
            /\ reply'[c] = reply[c]
            /\ pc'[c] = pc[c] \/ (pc'[c] = "gone" /\ pc[c] \notin {"idle", "returned"})
  BY DEF Aside
<1>3. \A t \in Task : /\ Run(t) \in Runs /\ Resume(t) \in Runs /\ Start(t) \in Starts
                      /\ Asked(t)' <=> Asked(t)
                      /\ Told(t)' => Told(t)
                      /\ Settled(t) => Settled(t)'
                      /\ Logged(t)' <=> Logged(t)
                      /\ Row(t)' <=> Row(t)
  BY <1>1, <1>2, ClientsApart DEF Asked, Told, Settled, Logged, Row
<1>4. /\ subject \in [Cancels \cup Responds \cup {Boot} -> Task \cup {NoTask}]
      /\ todo \subseteq Task /\ queue \in Seq(Op)
  BY AnswerTypes
<1>5. \A t \in todo' : t \in Task
  BY DEF OrphanInv, TopicInv, KeyInv, TypeInv, TypeOK
<1>7. RunsKnown'
  <2>1. \A t \in Task : registered[t] # "none" => Live(<<registered[t], t>>)
    BY DEF AnswerInv, RunsKnown
  <2>2. \A t \in Task : registered[t] # "none" => <<registered[t], t>> \in Runs
    BY AnswerTypes DEF Runs
  <2>3. \A r \in Runs : Live(r)' <=> Live(r)
    BY <1>2 DEF Live
  <2>4. \A r \in Runs : ~Live(r) => reply'[r] = "none"
    BY <1>2 DEF AnswerInv, RunsKnown
  <2>5. \A t \in Task : pc[Run(t)] # "idle" => pc'[Start(t)] = "returned" /\ Row(t)
    BY <1>2, <1>3 DEF AnswerInv, RunsKnown
  <2>6. QED
    BY <1>1, <1>2, <1>3, <2>1, <2>2, <2>3, <2>4, <2>5 DEF RunsKnown, Live, Row
<1>8. SubjectsSettled'
  <2>1. \A c \in Cancels \cup Responds \cup {Boot} :
            subject'[c] # NoTask => subject'[c] \in Task /\ Settled(subject'[c])
    BY <1>2, <1>4 DEF Aside, AnswerInv, SubjectsSettled
  <2>2. \A t \in todo' : t \in Task /\ Settled(t)
    BY <1>5 DEF Aside, AnswerInv, SubjectsSettled
  <2>3. \A t \in Task : Told(t)' => status[t] = decision[t]
    BY <1>3 DEF AnswerInv, SubjectsSettled
  <2>4. \A p \in Responds : pc'[p] = "idle" => subject[p] = NoTask
    BY <1>2 DEF AnswerInv, SubjectsSettled
  <2>5. \A t \in Task : Settled(t) => /\ status'[t] # "absent"
                                      /\ ~(pc'[Start(t)] = "create" /\ reply'[Start(t)] = "ok")
    BY <1>3 DEF Settled, Row, Told
  <2>6. QED
    BY <1>1, <1>2, <2>1, <2>2, <2>3, <2>4, <2>5 DEF SubjectsSettled, Settled, Row, Told
<1>9. StartsLogged'
  BY <1>1, <1>2 DEF AnswerInv, StartsLogged, Logged
<1>10. ResumeRefused'
  <2>1. \A t \in Task :
            /\ pc'[Resume(t)] \in Opening
            /\ ~(pc'[Resume(t)] = "started" /\ reply'[Resume(t)] = "ok")
            /\ pc'[Resume(t)] # "idle" => \E p \in Responds : subject'[p] = t /\ pc'[p] = "returned"
    BY <1>2, <1>3 DEF AnswerInv, ResumeRefused
  <2>2. QED
    BY <2>1 DEF ResumeRefused
<1>11. QuestionPut'
  <2>1. \A p \in Responds : subject[p] # NoTask =>
            subject[p] \in Task /\ Logged(subject[p]) /\ pc[Run(subject[p])] \in Closing
    BY <1>4 DEF AnswerInv, QuestionPut
  <2>2. QED
    BY <1>1, <1>2, <1>3, <2>1 DEF QuestionPut, Logged
<1>12. QuestionSaved'
  BY <1>1, <1>2, <1>3 DEF AnswerInv, QuestionSaved, Logged
<1>13. SpentOnce'
  <2>1. \A p \in Responds : Spent(p)' => Spent(p)
    BY <1>2 DEF Spent
  <2>2. \A p \in Responds : Spent(p)' =>
            /\ subject[p] \in Task
            /\ ~checkpoint[subject[p]]
            /\ \A q \in Responds : Spent(q)' /\ subject[q] = subject[p] => q = p
    BY <2>1 DEF AnswerInv, SpentOnce
  <2>3. QED
    BY <1>1, <1>2, <2>2 DEF SpentOnce, Spent
<1>14. WaitingHasCheckpoint'
  BY <1>1 DEF AnswerInv, WaitingHasCheckpoint
<1>15. ASSUME NEW a \in Op, NEW b \in Op, Handed(a, b), OpOK(a) PROVE OpOK(b)'
  <2>1. a.task \in Task /\ b.task = a.task /\ b.kind = a.kind /\ b.status = a.status
        /\ b.type = a.type /\ b.id = a.id
    BY <1>15 DEF Op, Handed
  <2>2. b.by = a.by \/ b.by = Nobody
    BY <1>15 DEF Handed
  <2>3. b.by \in Runs \cup Responds =>
            b.by = a.by /\ reply'[b.by] = reply[b.by] /\ pc'[b.by] = pc[b.by]
    BY <1>15, ClientsApart DEF Handed
  <2>4. /\ b.by \in Runs => RunAwaits(b.by, b)' /\ reply'[b.by] = "none"
        /\ b.by \in Responds => AnswerAwaits(b.by, b)' /\ reply'[b.by] = "none"
    BY <1>2, <1>15, <2>1, <2>3 DEF OpOK, RunAwaits, AnswerAwaits
  <2>5. Unsaved(a.task, a.by) => Unsaved(a.task, b.by)'
    BY <1>1, <1>2, <1>3, <1>15, <2>1, ClientsApart DEF Unsaved, Handed
  <2>6. a.kind = "create" => \/ pc'[Start(a.task)] = "gone"
                             \/ b.by = Start(a.task) /\ a.status = decision[a.task]
    BY <1>2, <1>3, <1>15, <2>1 DEF OpOK, Handed
  <2>7. QED
    BY <1>1, <1>3, <1>15, <2>1, <2>4, <2>5, <2>6 DEF OpOK, Activates, Asks, Updates
<1>16. ASSUME NEW a \in Op, NEW b \in Op, NEW aa \in Op, NEW bb \in Op,
              Handed(a, aa), Handed(b, bb), PairOK(a, b)
       PROVE  PairOK(aa, bb)'
  <2>1. b.task \in Task /\ (Asked(b.task)' <=> Asked(b.task))
    BY <1>3 DEF Op
  <2>2. /\ aa.task = a.task /\ aa.kind = a.kind /\ aa.status = a.status /\ aa.type = a.type
        /\ bb.task = b.task /\ bb.kind = b.kind /\ bb.status = b.status /\ bb.type = b.type
        /\ aa.by = a.by \/ aa.by = Nobody
        /\ bb.by = b.by \/ bb.by = Nobody
    BY <1>16 DEF Handed
  <2>3. aa.by \in Runs \cup Responds => aa.by # bb.by
    BY <1>16, <2>2, ClientsApart DEF PairOK
  <2>4. QED
    BY <1>16, <2>1, <2>2, <2>3 DEF PairOK, Activates, Asks, Updates
<1>17. ASSUME NEW op \in Op, SideOp(op)
       PROVE  OpOK(op)' /\ \A o \in Op : PairOK(o, op)'
  <2>1. op.task \in Task
    BY DEF Op
  <2>2. /\ op.by \notin Runs \cup Starts \cup Responds
        /\ op.kind \in {"stop", "lifecycle", "status", "event"}
        /\ Updates(op) => Settled(op.task)
        /\ op.kind = "status" => op.status \in {"cancelled", "failed"}
        /\ op.kind = "event" => op.type \in {"cancelled", "failed"}
    BY <1>17 DEF SideOp, Updates
  <2>3. ~Activates(op) /\ ~Asks(op)
    BY <2>2 DEF Activates, Asks, ActiveStatus
  <2>4. QED
    BY <1>3, <2>1, <2>2, <2>3 DEF OpOK, PairOK, Activates, Asks, Updates
<1>18. OpsOK' /\ PairsOK'
  <2>1. PICK q \in Seq(Op) :
            /\ Len(q) = Len(queue)
            /\ \A i \in 1 .. Len(queue) : Handed(queue[i], q[i])
            /\ queue' = q \/ \E op \in Op : SideOp(op) /\ queue' = Append(q, op)
    BY DEF Aside, QueueAside
  <2>2. \A i \in 1 .. Len(q) : queue[i] \in Op /\ q[i] \in Op /\ OpOK(queue[i])
    BY <1>4, <2>1 DEF AnswerInv, OpsOK
  <2>3. \A i \in 1 .. Len(q) : \A o \in Op : o = q[i] => OpOK(o)'
    BY <1>15, <2>1, <2>2
  <2>4. \A i, j \in 1 .. Len(q) : \A a, b \in Op :
            i < j /\ a = q[i] /\ b = q[j] => PairOK(a, b)'
    <3>1. \A i, j \in 1 .. Len(q) : i < j => PairOK(queue[i], queue[j])
      BY <2>1 DEF AnswerInv, PairsOK
    <3>2. QED
      BY <1>16, <2>1, <2>2, <3>1
  <2>5. \/ queue' = q
        \/ \E op \in Op :
              /\ queue' = Append(q, op) /\ OpOK(op)'
              /\ \A i \in 1 .. Len(q) : \A o \in Op : o = q[i] => PairOK(o, op)'
    BY <1>17, <2>1
  <2>6. QED
    BY <2>3, <2>4, <2>5, QueueBecomes
<1>19. QED
  BY <1>7, <1>8, <1>9, <1>10, <1>11, <1>12, <1>13, <1>14, <1>18 DEF AnswerInv

(* Which queue a step of this kind leaves: the same with one write more,   *)
(* or one that client d has left.                                          *)
LEMMA Alongside ==
    ASSUME queue \in Seq(Op),
           \A c \in Runs \cup Responds : pc'[c] = pc[c] /\ reply'[c] = reply[c],
           queue' = queue \/ \E op \in Op : SideOp(op) /\ queue' = Append(queue, op)
    PROVE  QueueAside
<1>1. \A i \in 1 .. Len(queue) : Handed(queue[i], queue[i])
  BY DEF Handed
<1>2. QED
  BY <1>1 DEF QueueAside

LEMMA LeftBehind ==
    ASSUME queue \in Seq(Op), NEW d \in Client,
           \A c \in Runs \cup Responds : c # d => pc'[c] = pc[c] /\ reply'[c] = reply[c],
           d \in Runs => reply'[d] = "cancelled",
           d \in Starts => pc'[d] = "gone",
           \/ queue' = Disowned(d)
           \/ \E op \in Op : SideOp(op) /\ queue' = Append(Disowned(d), op)
    PROVE  QueueAside
<1>1. /\ Disowned(d) \in Seq(Op) /\ Len(Disowned(d)) = Len(queue)
      /\ DOMAIN queue = 1 .. Len(queue)
  BY DisownedKeeps
<1>2. \A i \in 1 .. Len(queue) : Handed(queue[i], Disowned(d)[i])
  <2> SUFFICES ASSUME NEW i \in 1 .. Len(queue) PROVE Handed(queue[i], Disowned(d)[i])
    OBVIOUS
  <2>1. queue[i] \in Op /\ Disowned(d)[i] =
            (IF queue[i].by = d THEN [queue[i] EXCEPT !.by = Nobody] ELSE queue[i])
    BY <1>1 DEF Disowned
  <2>2. CASE queue[i].by = d
    BY <2>1, <2>2 DEF Op, Handed
  <2>3. CASE queue[i].by # d
    BY <2>1, <2>3 DEF Handed
  <2>4. QED
    BY <2>2, <2>3
<1>3. QED
  BY <1>1, <1>2 DEF QueueAside

LEMMA CancelAside ==
    ASSUME AnswerInv, NEW c \in Cancels, CancelStep(c)
    PROVE  Aside
<1>1. /\ TypeInv /\ CancelMoves(c)
      /\ UNCHANGED <<status, checkpoint, events, decision, registered, todo>>
  BY CancelSteppedMoves, AnswerTypes DEF CancelStep, tables, directory, bootVars
<1>2. /\ c \in Client /\ queue \in Seq(Op) /\ reply \in [Client -> Reply]
      /\ pc \in [Client -> RunLabel \cup CallLabel \cup BootLabel]
      /\ registered \in [Task -> {"none", "run", "resume"}]
      /\ targets \in [Cancels -> SUBSET Task]
      /\ subject \in [Cancels \cup Responds \cup {Boot} -> Task \cup {NoTask}]
      /\ c \notin Runs \cup Starts \cup Responds /\ c # Boot
  BY <1>1, AnswerTypes, ClientsApart, ClientKinds DEF TypeInv, TypeOK
<1>3. \A d \in Runs \cup Starts \cup Responds \cup {Boot} : d \in Client /\ d # c
  BY <1>2, ClientsApart, ClientMembers
<1>4. /\ \A d \in Runs \cup Starts \cup Responds : pc'[d] = pc[d]
      /\ \A d \in Cancels \cup Responds \cup {Boot} : d # c => subject'[d] = subject[d]
  BY <1>1, <1>2, <1>3 DEF CancelMoves
<1>5. subject'[c] # subject[c] => subject'[c] \in Task /\ Settled(subject'[c])
  <2>1. CASE CancelRead(c) /\ Quiet
    <3>1. PICK t \in targets[c] : \/ UNCHANGED subject
                                  \/ /\ subject' = [subject EXCEPT ![c] = t]
                                     /\ status[t] # "absent"
      BY <2>1 DEF CancelRead
    <3>2. t \in Task /\ reply[Start(t)] = "none"
      BY <1>2, <2>1, ClientsApart DEF Quiet
    <3>3. QED
      BY <1>2, <3>1, <3>2 DEF Settled, Told, Row
  <2>2. CASE ~(CancelRead(c) /\ Quiet)
    BY <2>2 DEF CancelStep, CancelResumes, CancelSteps, CancelCall, CancelSubmit, CancelMarked,
                CancelLogged, CancelFails, CancelPush, CancelReturn
  <2>3. QED
    BY <2>1, <2>2
<1>6. subject[c] \in Task =>
          /\ Settled(subject[c])
          /\ SideOp(StatusOp(c, subject[c], "cancelled"))
          /\ StatusOp(c, subject[c], "cancelled") \in Op
          /\ SideOp(EventOp(c, subject[c], "cancelled", "999998"))
          /\ EventOp(c, subject[c], "cancelled", "999998") \in Op
  <2> HAVE subject[c] \in Task
  <2>1. Settled(subject[c])
    BY SupervisorConstants DEF AnswerInv, SubjectsSettled
  <2>2. /\ StatusOp(c, subject[c], "cancelled") \in Op
        /\ EventOp(c, subject[c], "cancelled", "999998") \in Op
    BY <1>2, OpTyped, StatusKinds DEF EventType, EventId
  <2>3. /\ SideOp(StatusOp(c, subject[c], "cancelled"))
        /\ SideOp(EventOp(c, subject[c], "cancelled", "999998"))
    BY <1>2, <2>1 DEF SideOp, StatusOp, EventOp, MakeOp
  <2>4. QED
    BY <2>1, <2>2, <2>3
<1>7. pc[c] \in {"submit", "marking"} => subject[c] \in Task
  BY <1>1 DEF TypeInv, SubjectKnown
<1> DEFINE Plain == /\ \A d \in Client : d # c => reply'[d] = reply[d]
                    /\ queue' = queue \/ \E op \in Op : SideOp(op) /\ queue' = Append(queue, op)
<1>8. CASE Plain
  <2>1. QueueAside
    BY <1>2, <1>3, <1>4, <1>8, Alongside
  <2>2. QED
    BY <1>1, <1>3, <1>4, <1>5, <1>8, <2>1 DEF Aside
<1>9. (\E label, a : Wake(c, label, a)) => \A d \in Client : d # c => reply'[d] = reply[d]
  BY <1>2 DEF Wake
<1>10. CASE Quiet /\ CancelSteps(c)
  <2>1. UNCHANGED reply
    BY <1>10 DEF CancelSteps, CancelCall, CancelRead, CancelSubmit, CancelPush, CancelReturn
  <2>2. queue' = queue \/ \E op \in Op : SideOp(op) /\ queue' = Append(queue, op)
    BY <1>6, <1>7, <1>10
       DEF CancelSteps, CancelCall, CancelRead, CancelSubmit, CancelPush, CancelReturn, Submit
  <2>3. QED
    BY <1>8, <2>1, <2>2
<1>11. CASE CancelLogged(c) \/ CancelFails(c)
  BY <1>8, <1>9, <1>11 DEF CancelLogged, CancelFails
<1>12. CASE CancelMarked(c)
  <2> DEFINE t == subject[c]
             r == <<registered[t], t>>
  <2>1. t \in Task
    BY <1>7, <1>12 DEF CancelMarked
  <2>2. CASE registered[t] = "none"
    <3>1. reply' = [reply EXCEPT ![c] = "none"]
          /\ queue' = Append(queue, EventOp(c, t, "cancelled", "999998"))
      BY <1>12, <2>2 DEF CancelMarked, Submit
    <3>2. QED
      BY <1>2, <1>6, <1>8, <2>1, <3>1
  <2>3. CASE registered[t] # "none"
    <3>1. reply' = [reply EXCEPT ![c] = "none", ![r] = "cancelled"]
          /\ queue' = Append(Disowned(r), EventOp(c, t, "cancelled", "999998"))
      BY <1>12, <2>3 DEF CancelMarked
    <3>2. r \in Runs /\ Live(r)
      BY <1>2, <2>1, <2>3 DEF Runs, AnswerInv, RunsKnown
    <3>3. /\ r \in Client /\ r \notin Starts \cup Responds
          /\ reply'[r] = "cancelled"
          /\ \A d \in Client : d # c /\ d # r => reply'[d] = reply[d]
      <4> HIDE DEF r, t
      <4>1. r \in Client /\ r \notin Starts \cup Responds
        BY <3>2, ClientsApart
      <4>2. QED
        BY <1>2, <3>1, <4>1
    <3>4. QueueAside
      <4> HIDE DEF r, t
      <4>1. \E op \in Op : SideOp(op) /\ queue' = Append(Disowned(r), op)
        BY <1>6, <2>1, <3>1 DEF t
      <4>2. \A d \in Runs \cup Responds : d # r => pc'[d] = pc[d] /\ reply'[d] = reply[d]
        BY <1>3, <1>4, <3>3
      <4>3. QED
        BY <1>2, <3>2, <3>3, <4>1, <4>2, LeftBehind
    <3>5. QED
      BY <1>1, <1>3, <1>4, <1>5, <3>2, <3>3, <3>4 DEF Aside
  <2>4. QED
    BY <2>2, <2>3
<1>13. QED
  BY <1>10, <1>11, <1>12 DEF CancelStep, CancelResumes

LEMMA StopAside ==
    ASSUME AnswerInv, NEW s \in Stops, StopStep(s)
    PROVE  Aside
<1>1. /\ s \in Client /\ queue \in Seq(Op) /\ reply \in [Client -> Reply]
      /\ pc \in [Client -> RunLabel \cup CallLabel \cup BootLabel]
      /\ s \notin Runs \cup Starts \cup Responds /\ AnyTask \in Task
  BY AnswerTypes, ClientsApart, ClientMembers
<1>2. UNCHANGED <<status, checkpoint, events, decision, registered, todo, subject>>
  BY DEF StopStep, tables, directory, supervisorVars, callVars, bootVars
<1>3. /\ MakeOp(s, "stop", AnyTask) \in Op /\ SideOp(MakeOp(s, "stop", AnyTask))
  BY <1>1, OpTyped DEF SideOp, MakeOp, OpKind
<1>4. /\ \A d \in Client : d # s => pc'[d] = pc[d] /\ reply'[d] = reply[d]
      /\ queue' = queue \/ \E op \in Op : SideOp(op) /\ queue' = Append(queue, op)
  BY <1>1, <1>3 DEF StopStep, StopSubmit, StopReturn, Wake, Goto, Submit
<1>5. \A d \in Runs \cup Starts \cup Responds : d \in Client /\ d # s
  BY <1>1, ClientsApart, ClientMembers
<1>6. QueueAside
  BY <1>1, <1>4, <1>5, Alongside
<1>7. QED
  BY <1>2, <1>4, <1>5, <1>6 DEF Aside

LEMMA GoneAside ==
    ASSUME AnswerInv, NEW c \in Callers, CallerCancelled(c)
    PROVE  Aside
<1>1. /\ c \in Client /\ c \notin Runs /\ queue \in Seq(Op)
      /\ pc \in [Client -> RunLabel \cup CallLabel \cup BootLabel]
  BY AnswerTypes, ClientMembers, ClientKinds DEF Callers
<1>2. /\ pc' = [pc EXCEPT ![c] = "gone"] /\ queue' = Disowned(c)
      /\ UNCHANGED <<status, checkpoint, events, decision, registered, todo, subject, reply>>
      /\ pc[c] \notin {"idle", "returned"}
  BY DEF CallerCancelled, Goto, tables, directory, supervisorVars, callVars, bootVars, EndLabel
<1>3. \A d \in Client : /\ d # c => pc'[d] = pc[d]
                        /\ d = c => pc'[d] = "gone"
  BY <1>1, <1>2
<1>4. \A d \in Runs \cup Starts \cup Responds : d \in Client
  BY ClientMembers
<1>5. QueueAside
  BY <1>1, <1>2, <1>3, <1>4, LeftBehind, ClientMembers
<1>6. QED
  BY <1>1, <1>2, <1>3, <1>4, <1>5 DEF Aside

LEMMA BootAside ==
    ASSUME AnswerInv, BootStep
    PROVE  Aside
<1>1. /\ TypeInv /\ BootMoves
      /\ UNCHANGED <<status, checkpoint, events, decision, registered>>
  BY BootSteppedMoves, AnswerTypes DEF BootStep, tables, directory
<1>2. /\ Boot \in Client /\ AnyTask \in Task /\ queue \in Seq(Op)
      /\ pc \in [Client -> RunLabel \cup CallLabel \cup BootLabel]
      /\ reply \in [Client -> Reply]
      /\ subject \in [Cancels \cup Responds \cup {Boot} -> Task \cup {NoTask}]
      /\ \A d \in Runs \cup Starts \cup Responds : d \in Client /\ d # Boot
      /\ Boot \notin Runs \cup Starts \cup Responds
  BY AnswerTypes, ClientsApart, ClientMembers
<1>3. \A d \in Runs \cup Starts \cup Responds : pc'[d] = pc[d] /\ reply'[d] = reply[d]
  BY <1>1, <1>2 DEF BootMoves, Consumes
<1>4. ~Serving
  BY DEF BootStep, BootRead, BootMark, BootSeal, BootMarked, BootLogged, BootServe, Wake, Serving
<1>5. \A t \in Task : Row(t) => Settled(t)
  <2>1. \A t \in Task : Start(t) \in Callers /\ pc[Start(t)] # "create"
    BY <1>4, ClientMembers DEF AnswerInv, OrphanInv, AloneAtBoot, AtRest, EndLabel, Callers
  <2>2. QED
    BY <2>1 DEF Settled, Told
<1>6. \A t \in todo : t \in Task /\ Settled(t)
  BY AnswerTypes DEF AnswerInv, SubjectsSettled
<1>7. \A t \in todo' : t \in todo \/ Settled(t)
  BY <1>5 DEF BootStep, BootRead, BootMark, BootSeal, BootMarked, BootLogged, BootServe,
              RecoverableRows, TasksIn, Row, RecoverableStatus, ActiveStatus
<1>8. /\ \A d \in Cancels \cup Responds : subject'[d] = subject[d]
      /\ subject'[Boot] # subject[Boot] => subject'[Boot] \in Task /\ Settled(subject'[Boot])
  BY <1>1, <1>2, <1>6
     DEF BootMoves, BootStep, BootRead, BootMark, BootSeal, BootMarked, BootLogged, BootServe
<1>9. pc[Boot] = "marking" => subject[Boot] \in Task /\ Settled(subject[Boot])
  BY <1>1, SupervisorConstants DEF TypeInv, SubjectKnown, AnswerInv, SubjectsSettled
<1>10. \A t \in Task : Settled(t) =>
          /\ StatusOp(Boot, t, "failed") \in Op /\ SideOp(StatusOp(Boot, t, "failed"))
          /\ EventOp(Boot, t, "failed", "recovery") \in Op
          /\ SideOp(EventOp(Boot, t, "failed", "recovery"))
  <2> SUFFICES ASSUME NEW t \in Task, Settled(t)
               PROVE  /\ StatusOp(Boot, t, "failed") \in Op /\ SideOp(StatusOp(Boot, t, "failed"))
                      /\ EventOp(Boot, t, "failed", "recovery") \in Op
                      /\ SideOp(EventOp(Boot, t, "failed", "recovery"))
    OBVIOUS
  <2>1. StatusOp(Boot, t, "failed") \in Op /\ EventOp(Boot, t, "failed", "recovery") \in Op
    BY <1>2, OpTyped, StatusKinds DEF EventType, EventId
  <2>2. QED
    BY <1>2, <2>1 DEF SideOp, StatusOp, EventOp, MakeOp
<1>11. MakeOp(Boot, "lifecycle", AnyTask) \in Op /\ SideOp(MakeOp(Boot, "lifecycle", AnyTask))
  BY <1>2, OpTyped DEF SideOp, MakeOp, OpKind
<1>12. queue' = queue \/ \E op \in Op : SideOp(op) /\ queue' = Append(queue, op)
  <2>1. CASE BootMark
    <3>1. PICK t \in todo : queue' = Append(queue, StatusOp(Boot, t, "failed"))
      BY <2>1 DEF BootMark, Submit
    <3>2. QED
      BY <1>6, <1>10, <3>1
  <2>2. CASE BootMarked
    BY <1>9, <1>10, <2>2 DEF BootMarked, Wake, Submit
  <2>3. CASE BootSeal
    BY <1>11, <2>3 DEF BootSeal, Submit
  <2>4. CASE BootRead \/ BootLogged \/ BootServe
    BY <2>4 DEF BootRead, BootLogged, BootServe
  <2>5. QED
    BY <2>1, <2>2, <2>3, <2>4 DEF BootStep
<1>13. QueueAside
  BY <1>2, <1>3, <1>12, Alongside
<1>14. QED
  BY <1>1, <1>2, <1>3, <1>7, <1>8, <1>13 DEF Aside

-----------------------------------------------------------------------------
(* A step of the start t: alone, up to the step that spawns the run.       *)
StartQueues1(t) ==
    \/ queue' = queue
    \/ \E op \in Op : /\ queue' = Append(queue, op)
                      /\ op.by = Start(t) /\ op.task = t
                      /\ \/ op.kind = "generation"
                         \/ op.kind = "create" /\ op.status = decision'[t]
StartSpawns(t) ==
    /\ Told(t) /\ decision[t] = "pending"
    /\ pc'[Start(t)] = "returned" /\ pc'[Run(t)] = "running"
    /\ registered' = [registered EXCEPT ![t] = "run"]
    /\ \E op \in Op : /\ queue' = Append(queue, op)
                      /\ op.by = Run(t) /\ op.task = t
                      /\ op.kind = "status" /\ op.status = "running"
StartActs(t) ==
    /\ UNCHANGED <<status, checkpoint, events, subject, todo>>
    /\ \A i \in 1 .. Len(queue) : queue[i].by # Start(t)
    /\ pc[Start(t)] \notin EndLabel /\ reply'[Start(t)] = "none"
    /\ \A u \in Task : u # t => decision'[u] = decision[u]
    /\ decision'[t] \in {"pending", "waiting_resource"}
    /\ \A c \in Client : c # Start(t) => /\ reply'[c] = reply[c]
                                         /\ c # Run(t) => pc'[c] = pc[c]
    /\ \/ StartQueues1(t) /\ pc'[Run(t)] = pc[Run(t)] /\ UNCHANGED registered
       \/ StartSpawns(t) /\ UNCHANGED decision

LEMMA StartSteppedActs ==
    ASSUME AnswerInv, NEW t \in Task, StartStep(t)
    PROVE  StartActs(t)
<1> DEFINE c == Start(t)
<1>1. /\ queue \in Seq(Op) /\ reply \in [Client -> Reply] /\ allotted \in [Task -> Nat]
      /\ pc \in [Client -> RunLabel \cup CallLabel \cup BootLabel]
      /\ decision \in [Task -> {"pending", "waiting_resource"}]
      /\ c \in Client /\ Run(t) \in Runs /\ Run(t) \in Client /\ Run(t) # c
  <2>1. /\ queue \in Seq(Op) /\ reply \in [Client -> Reply] /\ allotted \in [Task -> Nat]
        /\ pc \in [Client -> RunLabel \cup CallLabel \cup BootLabel]
        /\ decision \in [Task -> {"pending", "waiting_resource"}]
    BY AnswerTypes DEF TypeInv, TypeOK, StoreTypeOK
  <2>2. c \in Client /\ Run(t) \in Runs /\ Run(t) \in Client
    BY ClientMembers
  <2>3. Run(t) # c
    BY DEF Start, Run
  <2>4. QED
    BY <2>1, <2>2, <2>3
<1>2. /\ UNCHANGED <<status, checkpoint, events, subject, todo>>
      /\ StartForm(t)
  BY StartSteppedForm DEF StartStep, tables, bootVars, AnswerInv, OrphanInv, TopicInv
<1>3. /\ \A i \in 1 .. Len(queue) : queue[i].by # c
      /\ pc[c] \notin EndLabel /\ reply'[c] = "none"
  BY <1>2 DEF StartForm
<1>4. Consumes(c)
  BY StartMoves
<1>5. \A d \in Client : d # c => reply'[d] = reply[d]
  BY <1>1, <1>4 DEF Consumes
<1>6. SubmitRow(t) => \E op \in Op : /\ queue' = Append(queue, op)
                                     /\ op.by = c /\ op.task = t
                                     /\ op.kind = "create" /\ op.status = decision[t]
  <2>1. decision[t] \in Status /\ GenerationOf(t) \in Nat
    BY <1>1, StatusKinds, GenerationTyped
  <2>2. CreateOp(c, t, decision[t], GenerationOf(t)) \in Op
    BY <1>1, <2>1, OpTyped
  <2>3. LET op == CreateOp(c, t, decision[t], GenerationOf(t)) IN
            op.by = c /\ op.task = t /\ op.kind = "create" /\ op.status = decision[t]
    BY DEF CreateOp, MakeOp
  <2>4. QED
    BY <2>2, <2>3 DEF SubmitRow, Submit
<1>7. /\ MakeOp(c, "generation", t) \in Op /\ MakeOp(c, "generation", t).kind = "generation"
      /\ MakeOp(c, "generation", t).by = c /\ MakeOp(c, "generation", t).task = t
  BY <1>1, OpTyped DEF OpKind, MakeOp
<1> HIDE DEF c
<1>8. ASSUME (\E l : pc' = [pc EXCEPT ![c] = l]), UNCHANGED registered, StartQueues1(t),
             \A u \in Task : u # t => decision'[u] = decision[u],
             decision'[t] \in {"pending", "waiting_resource"}
      PROVE  StartActs(t)
  BY <1>1, <1>2, <1>3, <1>5, <1>8 DEF StartActs, c
<1>11. CASE StartCall(t) \/ ReadReplaced(t) \/ ReadKey(t) \/ Reread(t) \/ RowRefused(t)
  <2>1. (\E l : pc' = [pc EXCEPT ![c] = l]) /\ UNCHANGED <<queue, decision, registered>>
    BY <1>11 DEF StartCall, ReadReplaced, ReadKey, ReturnHandle, Reread, RowRefused, Goto,
                 directory, c
  <2>2. QED
    BY <1>1, <1>8, <2>1 DEF StartQueues1
<1>12. CASE PassGate(t)
  <2>1. /\ \E l : pc' = [pc EXCEPT ![c] = l]
        /\ UNCHANGED <<queue, registered>>
        /\ decision' = decision \/ \E s \in {"pending", "waiting_resource"} :
                                       decision' = [decision EXCEPT ![t] = s]
    BY <1>12 DEF PassGate, Decide, Goto, directory, c
  <2>2. QED
    BY <1>1, <1>8, <2>1 DEF StartQueues1
<1>13. CASE Admit(t) \/ GenerationAllotted(t)
  <2>1. (\E l : pc' = [pc EXCEPT ![c] = l]) /\ UNCHANGED <<decision, registered>>
    BY <1>13 DEF Admit, GenerationAllotted, SubmitRow, Goto, directory, c
  <2>2. SubmitRow(t) \/ queue' = Append(queue, MakeOp(c, "generation", t))
    BY <1>13 DEF Admit, GenerationAllotted, Submit, c
  <2>3. StartQueues1(t)
    BY <1>6, <1>7, <2>1, <2>2 DEF StartQueues1, c
  <2>4. QED
    BY <1>1, <1>8, <2>1, <2>3
<1>14. CASE RowCreated(t)
  <2>1. Told(t) /\ UNCHANGED decision
    BY <1>14 DEF RowCreated, Wake, Told
  <2>2. CASE decision[t] = "pending" /\ RuntimeEnabled
    <3>1. /\ registered' = [registered EXCEPT ![t] = "run"]
          /\ queue' = Append(queue, StatusOp(Run(t), t, "running"))
          /\ pc' = [pc EXCEPT ![c] = "returned", ![Run(t)] = "running"]
      BY <1>14, <2>2 DEF RowCreated, Spawn, Submit, TaskOf, Run, c
    <3>2. StatusOp(Run(t), t, "running") \in Op
      BY <1>1, OpTyped, StatusKinds
    <3>3. LET op == StatusOp(Run(t), t, "running") IN
              op.by = Run(t) /\ op.task = t /\ op.kind = "status" /\ op.status = "running"
      BY DEF StatusOp, MakeOp
    <3>4. /\ pc'[c] = "returned" /\ pc'[Run(t)] = "running"
          /\ \A d \in Client : d # c /\ d # Run(t) => pc'[d] = pc[d]
      BY <1>1, <3>1
    <3>5. StartSpawns(t)
      BY <2>1, <2>2, <3>1, <3>2, <3>3, <3>4 DEF StartSpawns, c
    <3>6. QED
      BY <1>1, <1>2, <1>3, <1>5, <2>1, <3>4, <3>5 DEF StartActs, c
  <2>3. CASE ~(decision[t] = "pending" /\ RuntimeEnabled)
    <3>1. (\E l : pc' = [pc EXCEPT ![c] = l]) /\ UNCHANGED <<queue, registered>>
      BY <1>14, <2>3 DEF RowCreated, Goto, directory, c
    <3>2. QED
      BY <1>1, <1>8, <2>1, <3>1 DEF StartQueues1
  <2>4. QED
    BY <2>2, <2>3
<1>15. QED
  BY <1>11, <1>12, <1>13, <1>14 DEF StartStep, StartSteps, StartResumes

LEMMA StartKeepsAnswers ==
    ASSUME AnswerInv, OrphanInv', NEW t \in Task, StartStep(t)
    PROVE  AnswerInv'
<1>1. StartActs(t)
  BY StartSteppedActs
<1>2. /\ UNCHANGED <<status, checkpoint, events, subject, todo>>
      /\ \A i \in 1 .. Len(queue) : queue[i].by # Start(t)
      /\ pc[Start(t)] \notin EndLabel /\ reply'[Start(t)] = "none"
      /\ \A u \in Task : u # t => decision'[u] = decision[u]
      /\ decision'[t] \in {"pending", "waiting_resource"}
      /\ \A c \in Client : c # Start(t) => /\ reply'[c] = reply[c]
                                           /\ c # Run(t) => pc'[c] = pc[c]
  BY <1>1 DEF StartActs
<1>3. /\ queue \in Seq(Op) /\ registered \in [Task -> {"none", "run", "resume"}]
      /\ subject \in [Cancels \cup Responds \cup {Boot} -> Task \cup {NoTask}]
      /\ todo \subseteq Task
      /\ Run(t) \in Client /\ Start(t) \in Client /\ Run(t) # Start(t)
      /\ reply \in [Client -> Reply]
  BY AnswerTypes, ClientsApart, ClientMembers, ClientKinds
<1>4. /\ \A r \in Runs : reply'[r] = reply[r] /\ (r # Run(t) => pc'[r] = pc[r])
      /\ \A p \in Responds : pc'[p] = pc[p] /\ reply'[p] = reply[p]
      /\ \A u \in Task : /\ u # t => pc'[Start(u)] = pc[Start(u)] /\ reply'[Start(u)] = reply[Start(u)]
                         /\ pc'[Resume(u)] = pc[Resume(u)]
                         /\ u # t => pc'[Run(u)] = pc[Run(u)]
                         /\ Run(u) \in Runs /\ Resume(u) \in Runs /\ Start(u) \in Starts
  BY <1>2, ClientsApart
<1>5. pc[Run(t)] = "idle" /\ reply[Run(t)] = "none"
  BY <1>2, <1>4 DEF AnswerInv, RunsKnown, EndLabel, Live
<1>6. /\ \/ pc'[Run(t)] = "idle" /\ UNCHANGED registered
         \/ pc'[Run(t)] = "running" /\ StartSpawns(t) /\ UNCHANGED decision
  BY <1>1, <1>5 DEF StartActs, StartSpawns
<1>7. /\ ~Told(t)'
      /\ \A u \in Task : (Told(u)' => Told(u)) /\ (Settled(u) => Settled(u)')
      /\ \A u \in Task : Asked(u)' <=> Asked(u)
      /\ Told(t) => Settled(t)'
  <2>1. ~Told(t)' /\ \A u \in Task : Told(u)' => Told(u)
    BY <1>2, <1>4 DEF Told
  <2>2. Told(t) => Row(t)
    BY DEF Told, AnswerInv, OrphanInv, TopicInv, KeyInv, CreatedHasRow
  <2>3. QED
    BY <1>2, <2>1, <2>2 DEF Settled, Row, Asked
<1>8. RunsKnown'
  <2>1. ASSUME NEW u \in Task, registered'[u] # "none"
        PROVE  pc'[<<registered'[u], u>>] \notin {"idle", "ended"}
    <3>1. CASE registered'[u] = registered[u]
      <4>1. <<registered[u], u>> \in Runs
        BY <1>3, <2>1, <3>1 DEF Runs
      <4>2. Live(<<registered[u], u>>)
        BY <2>1, <3>1 DEF AnswerInv, RunsKnown
      <4>3. <<registered[u], u>> # Run(t)
        BY <1>5, <4>2 DEF Live
      <4>4. QED
        BY <1>4, <3>1, <4>1, <4>2, <4>3 DEF Live
    <3>2. CASE registered'[u] # registered[u]
      <4>1. u = t /\ registered'[u] = "run" /\ pc'[Run(t)] = "running"
        BY <1>3, <1>6, <3>2 DEF StartSpawns
      <4>2. QED
        BY <4>1 DEF Run
    <3>3. QED
      BY <3>1, <3>2
  <2>2. ASSUME NEW r \in Runs, pc'[r] \in {"idle", "ended"} PROVE reply'[r] = "none"
    BY <1>4, <1>5, <2>2 DEF AnswerInv, RunsKnown, Live
  <2>3. ASSUME NEW u \in Task, pc'[Run(u)] # "idle" PROVE pc'[Start(u)] = "returned" /\ Row(u)
    <3>1. CASE u = t
      BY <1>6, <2>3, <3>1
         DEF StartSpawns, Told, AnswerInv, OrphanInv, TopicInv, KeyInv, CreatedHasRow
    <3>2. CASE u # t
      BY <1>4, <2>3, <3>2 DEF AnswerInv, RunsKnown
    <3>3. QED
      BY <3>1, <3>2
  <2>4. QED
    BY <1>2, <2>1, <2>2, <2>3 DEF RunsKnown, Live, Row
<1>9. SubjectsSettled'
  <2>1. /\ \A c \in Cancels \cup Responds \cup {Boot} :
              subject[c] # NoTask => subject[c] \in Task /\ Settled(subject[c])
        /\ \A u \in todo : u \in Task /\ Settled(u)
    BY <1>3 DEF AnswerInv, SubjectsSettled
  <2>2. \A u \in Task : Settled(u) => /\ status'[u] # "absent"
                                      /\ ~(pc'[Start(u)] = "create" /\ reply'[Start(u)] = "ok")
    BY <1>7 DEF Settled, Row, Told
  <2>3. \A u \in Task : Told(u)' => status'[u] = decision'[u]
    BY <1>2, <1>7 DEF AnswerInv, SubjectsSettled
  <2>4. \A p \in Responds : pc'[p] = "idle" => subject[p] = NoTask
    BY <1>4 DEF AnswerInv, SubjectsSettled
  <2>5. QED
    BY <1>2, <2>1, <2>2, <2>3, <2>4 DEF SubjectsSettled, Settled, Row, Told
<1>10. StartsLogged'
  BY <1>2, <1>4, <1>5, <1>6 DEF AnswerInv, StartsLogged, Logged, Opening
<1>11. ResumeRefused'
  <2>1. \A u \in Task :
            /\ pc'[Resume(u)] \in Opening
            /\ ~(pc'[Resume(u)] = "started" /\ reply'[Resume(u)] = "ok")
            /\ pc'[Resume(u)] # "idle" => \E p \in Responds : subject[p] = u /\ pc'[p] = "returned"
    BY <1>4 DEF AnswerInv, ResumeRefused
  <2>2. QED
    BY <1>2, <2>1 DEF ResumeRefused
<1>12. QuestionPut'
  <2>1. \A p \in Responds : subject[p] # NoTask =>
            subject[p] \in Task /\ Logged(subject[p]) /\ pc[Run(subject[p])] \in Closing
    BY <1>3 DEF AnswerInv, QuestionPut
  <2>2. \A p \in Responds : subject[p] # NoTask => pc'[Run(subject[p])] \in Closing
    BY <1>4, <1>5, <2>1 DEF Closing
  <2>3. QED
    BY <1>2, <2>1, <2>2 DEF QuestionPut, Logged, Closing
<1>13. QuestionSaved'
  <2>1. \A u \in Task : pc[Run(u)] # "idle" => pc'[Run(u)] = pc[Run(u)] /\ reply'[Run(u)] = reply[Run(u)]
    BY <1>4, <1>5
  <2>2. \A u \in Task : checkpoint[u] => pc[Run(u)] # "idle"
    BY DEF AnswerInv, QuestionSaved, Closing
  <2>3. \A u \in Task : pc'[Run(u)] = "checkpointing" => pc[Run(u)] = "checkpointing"
    BY <1>4, <1>6
  <2>4. QED
    BY <1>2, <2>1, <2>2, <2>3 DEF AnswerInv, QuestionSaved, Logged
<1>14. SpentOnce' /\ WaitingHasCheckpoint'
  BY <1>2, <1>4 DEF AnswerInv, SpentOnce, Spent, WaitingHasCheckpoint
<1>15. ASSUME NEW o \in Op, Queued(o), OpOK(o) PROVE OpOK(o)'
  <2>1. o.task \in Task /\ o.by # Start(t) /\ o.by # Run(t)
    <3>1. o.by # Run(t)
      BY <1>4, <1>5, <1>15 DEF OpOK, RunAwaits
    <3>2. QED
      BY <1>2, <1>15, <3>1 DEF Op, Queued
  <2>2. /\ o.by \in Runs => RunAwaits(o.by, o)' /\ reply'[o.by] = "none"
        /\ o.by \in Responds => AnswerAwaits(o.by, o)' /\ reply'[o.by] = "none"
    BY <1>2, <1>4, <1>15, <2>1 DEF OpOK, RunAwaits, AnswerAwaits
  <2>3. Unsaved(o.task, o.by) => Unsaved(o.task, o.by)'
    <3>1. CASE o.task = t
      BY <1>5, <3>1 DEF Unsaved
    <3>2. CASE o.task # t
      BY <1>2, <1>4, <1>7, <2>1, <3>2 DEF Unsaved, Logged
    <3>3. QED
      BY <3>1, <3>2
  <2>4. o.kind = "create" => \/ pc'[Start(o.task)] = "gone"
                             \/ o.by = Start(o.task) /\ o.status = decision'[o.task]
    <3>1. CASE o.task = t
      BY <1>2, <1>15, <2>1, <3>1 DEF OpOK, EndLabel
    <3>2. CASE o.task # t
      BY <1>2, <1>4, <1>15, <2>1, <3>2 DEF OpOK
    <3>3. QED
      BY <3>1, <3>2
  <2>5. QED
    BY <1>2, <1>7, <1>15, <2>1, <2>2, <2>3, <2>4 DEF OpOK, Activates, Asks, Updates
<1>16. ASSUME NEW op \in Op, op.by = Start(t), op.task = t,
              \/ op.kind = "generation"
              \/ op.kind = "create" /\ op.status = decision'[t]
       PROVE  OpOK(op)' /\ \A o \in Op : Queued(o) /\ OpOK(o) => PairOK(o, op)'
  <2>1. /\ op.by \notin Runs \cup Responds
        /\ op.kind = "create" => op.status # "waiting_input"
    BY <1>2, <1>16, ClientsApart
  <2>2. ~Updates(op) /\ ~Activates(op) /\ ~Asks(op) /\ op.kind \in {"generation", "create"}
    BY <1>16 DEF Updates, Activates, Asks
  <2>3. OpOK(op)'
    BY <1>16, <2>1, <2>2 DEF OpOK, Activates, Asks, Updates
  <2>4. \A o \in Op : PairOK(o, op)'
    BY <2>1, <2>2 DEF PairOK, Activates, Asks, Updates
  <2>5. QED
    BY <2>3, <2>4
<1>17. ASSUME NEW op \in Op, StartSpawns(t), op.by = Run(t), op.task = t,
              op.kind = "status", op.status = "running"
       PROVE  OpOK(op)' /\ \A o \in Op : Queued(o) /\ OpOK(o) => PairOK(o, op)'
  <2>1. Told(t) /\ decision[t] = "pending" /\ pc'[Run(t)] = "running"
    BY <1>17 DEF StartSpawns
  <2>2. status[t] = "pending"
    BY <2>1 DEF AnswerInv, SubjectsSettled
  <2>3. /\ Run(t) \in Runs /\ Run(t) \notin Responds /\ TaskOf(Run(t)) = t
    BY ClientsApart
  <2>4. OpOK(op)'
    BY <1>2, <1>4, <1>5, <1>7, <1>17, <2>1, <2>2, <2>3
       DEF OpOK, RunAwaits, Updates, Activates, Asks
  <2>5. ASSUME NEW o \in Op, Queued(o), OpOK(o) PROVE PairOK(o, op)'
    <3>1. o.by # Run(t)
      BY <1>4, <1>5, <2>5 DEF OpOK, RunAwaits
    <3>2. o.task = t => ~Updates(o) /\ o.kind # "create"
      BY <1>2, <2>1, <2>5 DEF OpOK, Settled, Queued, EndLabel
    <3>3. QED
      BY <1>17, <3>1, <3>2 DEF PairOK, Activates, Asks, Updates
  <2>6. QED
    BY <2>4, <2>5
<1>18. OpsOK' /\ PairsOK'
  <2>1. \A a, b \in Op : PairOK(a, b) => PairOK(a, b)'
    BY <1>2, PairsStay
  <2>2. \/ queue' = queue
        \/ \E op \in Op : /\ queue' = Append(queue, op) /\ OpOK(op)'
                          /\ \A o \in Op : Queued(o) /\ OpOK(o) => PairOK(o, op)'
    <3>1. CASE StartQueues1(t)
      BY <1>16, <3>1 DEF StartQueues1
    <3>2. CASE StartSpawns(t)
      BY <1>17, <3>2 DEF StartSpawns
    <3>3. QED
      BY <1>1, <3>1, <3>2 DEF StartActs
  <2>3. QED
    BY <1>3, <1>15, <2>1, <2>2, QueueKept DEF AnswerInv
<1>19. QED
  BY <1>8, <1>9, <1>10, <1>11, <1>12, <1>13, <1>14, <1>18 DEF AnswerInv

-----------------------------------------------------------------------------
(* A step of the answer p: it reads the row, goes its way with at most one *)
(* write of its own, and spawns the second run at the end of it.           *)
RespondReads(p) ==
    /\ Quiet /\ pc[p] = "idle"
    /\ pc' = [pc EXCEPT ![p] = "submit"]
    /\ UNCHANGED <<queue, registered>>
    /\ \E t \in Task : status[t] = "waiting_input" /\ subject' = [subject EXCEPT ![p] = t]
RespondGoes(p) ==
    /\ \E l : pc' = [pc EXCEPT ![p] = l]
    /\ UNCHANGED <<subject, registered>>
    /\ Spent(p)' => Spent(p)
    /\ \/ queue' = queue
       \/ \E op \in Op : /\ queue' = Append(queue, op)
                         /\ op.by = p /\ op.task = subject[p] /\ subject[p] \in Task
                         /\ \/ op.kind = "consume" /\ pc'[p] = "consuming"
                            \/ /\ op.kind = "status" /\ pc'[p] \in {"resuming", "missing"}
                               /\ op.status \in {"resuming", "failed"}
RespondSpawns(p) ==
    /\ Quiet /\ pc[p] = "reread" /\ subject[p] \in Task
    /\ pc' = [pc EXCEPT ![p] = "returned", ![Resume(subject[p])] = "running"]
    /\ registered' = [registered EXCEPT ![subject[p]] = "resume"]
    /\ UNCHANGED subject
    /\ \E op \in Op : /\ queue' = Append(queue, op)
                      /\ op.by = Resume(subject[p]) /\ op.task = subject[p]
                      /\ op.kind = "status" /\ op.status = "running"
RespondActs(p) ==
    /\ UNCHANGED <<status, checkpoint, events, decision, todo>>
    /\ pc[p] # "returned" /\ pc'[p] # "idle" /\ reply'[p] = "none"
    /\ \A i \in 1 .. Len(queue) : queue[i].by # p
    /\ \A c \in Client : c # p => reply'[c] = reply[c]
    /\ RespondReads(p) \/ RespondGoes(p) \/ RespondSpawns(p)

LEMMA RespondSteppedActs ==
    ASSUME AnswerInv, NEW p \in Responds, RespondStep(p)
    PROVE  RespondActs(p)
<1>1. /\ p \in Client /\ queue \in Seq(Op) /\ reply \in [Client -> Reply]
      /\ pc \in [Client -> RunLabel \cup CallLabel \cup BootLabel]
      /\ TypeInv
      /\ \A t \in Task : Resume(t) \in Runs /\ Resume(t) \in Client /\ Resume(t) # p
  BY AnswerTypes, ClientMembers, ClientKinds
<1>2. pc[p] \in {"submit", "consuming", "resuming", "missing", "reread"} => subject[p] \in Task
  BY <1>1 DEF TypeInv, SubjectKnown
<1>3. /\ UNCHANGED <<status, checkpoint, events, decision, todo>>
      /\ Consumes(p)
  BY <1>1, RespondSteppedMoves DEF RespondStep, tables, bootVars, RespondMoves
<1>4. \A c \in Client : c # p => reply'[c] = reply[c]
  BY <1>1, <1>3 DEF Consumes
<1> DEFINE Alone == \A i \in 1 .. Len(queue) : queue[i].by # p
<1>5. /\ reply[p] # "none" => Alone
      /\ pc[p] \notin {"consuming", "resuming", "missing"} => Alone
  <2>1. \A i \in 1 .. Len(queue) : OpOK(queue[i])
    BY DEF AnswerInv, OpsOK
  <2>2. QED
    BY <2>1 DEF OpOK, AnswerAwaits
<1>6. \A label, a : Wake(p, label, a) /\ a # "none" =>
          pc[p] = label /\ reply[p] = a /\ Alone /\ reply'[p] = "none"
  BY <1>1, <1>5 DEF Wake
<1>7. Quiet /\ UNCHANGED reply => reply[p] = "none" /\ reply'[p] = "none"
  BY <1>1 DEF Quiet
<1>8. \A l : pc' = [pc EXCEPT ![p] = l] => pc'[p] = l
  BY <1>1
<1>9. \A t \in Task :
          /\ MakeOp(p, "consume", t) \in Op /\ MakeOp(p, "consume", t).by = p
          /\ MakeOp(p, "consume", t).task = t /\ MakeOp(p, "consume", t).kind = "consume"
          /\ \A s \in {"resuming", "failed"} :
                /\ StatusOp(p, t, s) \in Op /\ StatusOp(p, t, s).by = p
                /\ StatusOp(p, t, s).task = t /\ StatusOp(p, t, s).kind = "status"
                /\ StatusOp(p, t, s).status = s
  <2> SUFFICES ASSUME NEW t \in Task
               PROVE  /\ MakeOp(p, "consume", t) \in Op /\ MakeOp(p, "consume", t).by = p
                      /\ MakeOp(p, "consume", t).task = t /\ MakeOp(p, "consume", t).kind = "consume"
                      /\ \A s \in {"resuming", "failed"} :
                            /\ StatusOp(p, t, s) \in Op /\ StatusOp(p, t, s).by = p
                            /\ StatusOp(p, t, s).task = t /\ StatusOp(p, t, s).kind = "status"
                            /\ StatusOp(p, t, s).status = s
    OBVIOUS
  <2>1. /\ MakeOp(p, "consume", t) \in Op
        /\ \A s \in {"resuming", "failed"} : StatusOp(p, t, s) \in Op
    BY <1>1, OpTyped, StatusKinds DEF OpKind
  <2>2. QED
    BY <2>1 DEF StatusOp, MakeOp
<1> HIDE DEF Alone
<1>11. CASE Quiet /\ RespondRead(p)
  <2>1. /\ UNCHANGED <<queue, reply, registered>> /\ pc[p] = "idle"
        /\ \/ pc' = [pc EXCEPT ![p] = "submit"] /\ \E t \in Task : status[t] = "waiting_input" /\ subject' = [subject EXCEPT ![p] = t]
           \/ pc' = [pc EXCEPT ![p] = "rejected"] /\ UNCHANGED subject
    BY <1>11 DEF RespondRead, Goto, directory
  <2>2. RespondReads(p) \/ RespondGoes(p)
    BY <1>8, <1>11, <2>1 DEF RespondReads, RespondGoes, Spent
  <2>3. QED
    BY <1>3, <1>4, <1>5, <1>7, <1>8, <1>11, <2>1, <2>2 DEF RespondActs, Alone
<1>12. CASE Quiet /\ RespondConsume(p)
  <2>1. /\ pc[p] = "submit" /\ pc' = [pc EXCEPT ![p] = "consuming"]
        /\ queue' = Append(queue, MakeOp(p, "consume", subject[p]))
        /\ UNCHANGED <<reply, subject, registered>>
    BY <1>12 DEF RespondConsume, Goto, directory, Submit
  <2>2. pc'[p] = "consuming" /\ reply'[p] = "none" /\ subject[p] \in Task /\ Alone
    BY <1>2, <1>5, <1>7, <1>8, <1>12, <2>1
  <2>3. RespondGoes(p)
    BY <1>9, <2>1, <2>2 DEF RespondGoes, Spent
  <2>4. QED
    BY <1>3, <1>4, <2>1, <2>2, <2>3 DEF RespondActs, Alone
<1>13. CASE RespondConsumed(p)
  <2>1. /\ Wake(p, "consuming", "ok") /\ pc' = [pc EXCEPT ![p] = "resuming"]
        /\ queue' = Append(queue, StatusOp(p, subject[p], "resuming"))
        /\ UNCHANGED <<subject, registered>>
    BY <1>13 DEF RespondConsumed, Goto, directory, Submit
  <2>2. /\ pc[p] = "consuming" /\ reply[p] = "ok" /\ pc'[p] = "resuming" /\ reply'[p] = "none"
        /\ Alone /\ subject[p] \in Task
    BY <1>2, <1>6, <1>8, <2>1
  <2>3. RespondGoes(p)
    BY <1>9, <2>1, <2>2 DEF RespondGoes, Spent
  <2>4. QED
    BY <1>3, <1>4, <2>2, <2>3 DEF RespondActs, Alone
<1>14. CASE RespondMissing(p)
  <2>1. /\ Wake(p, "consuming", "none_found") /\ pc' = [pc EXCEPT ![p] = "missing"]
        /\ queue' = Append(queue, StatusOp(p, subject[p], "failed"))
        /\ UNCHANGED <<subject, registered>>
    BY <1>14 DEF RespondMissing, Goto, directory, Submit
  <2>2. /\ pc[p] = "consuming" /\ pc'[p] = "missing" /\ reply'[p] = "none"
        /\ Alone /\ subject[p] \in Task
    BY <1>2, <1>6, <1>8, <2>1
  <2>3. RespondGoes(p)
    BY <1>9, <2>1, <2>2 DEF RespondGoes, Spent
  <2>4. QED
    BY <1>3, <1>4, <2>2, <2>3 DEF RespondActs, Alone
<1>15. CASE RespondRejected(p) \/ RespondResuming(p)
  <2>1. /\ \/ Wake(p, "missing", "ok") /\ pc' = [pc EXCEPT ![p] = "rejected"]
           \/ Wake(p, "resuming", "ok") /\ pc' = [pc EXCEPT ![p] = "reread"]
           \/ Wake(p, "resuming", "ok") /\ pc' = [pc EXCEPT ![p] = "returned"]
        /\ UNCHANGED <<queue, subject, registered>>
    BY <1>15 DEF RespondRejected, RespondResuming, Goto, directory
  <2>2. /\ pc[p] \in {"missing", "resuming"} /\ reply'[p] = "none" /\ Alone
        /\ \/ pc[p] = "missing" /\ pc'[p] = "rejected"
           \/ pc[p] = "resuming" /\ pc'[p] \in {"reread", "returned"}
    BY <1>6, <1>8, <2>1
  <2>3. RespondGoes(p)
    BY <2>1, <2>2 DEF RespondGoes, Spent
  <2>4. QED
    BY <1>3, <1>4, <2>2, <2>3 DEF RespondActs, Alone
<1>16. CASE Quiet /\ RespondSpawn(p)
  <2>1. /\ pc[p] = "reread" /\ subject[p] \in Task /\ UNCHANGED <<reply, subject>>
        /\ pc' = [pc EXCEPT ![p] = "returned", ![Resume(subject[p])] = "running"]
        /\ registered' = [registered EXCEPT ![subject[p]] = "resume"]
        /\ queue' = Append(queue, StatusOp(Resume(subject[p]), subject[p], "running"))
    BY <1>2, <1>16 DEF RespondSpawn, Spawn, Submit, TaskOf, Resume
  <2>2. pc'[p] = "returned" /\ reply'[p] = "none" /\ Alone
    BY <1>1, <1>5, <1>7, <1>16, <2>1
  <2>3. StatusOp(Resume(subject[p]), subject[p], "running") \in Op
    BY <1>1, <2>1, OpTyped, StatusKinds
  <2>4. LET op == StatusOp(Resume(subject[p]), subject[p], "running") IN
            /\ op.by = Resume(subject[p]) /\ op.task = subject[p]
            /\ op.kind = "status" /\ op.status = "running"
    BY DEF StatusOp, MakeOp
  <2>5. RespondSpawns(p)
    BY <1>16, <2>1, <2>3, <2>4 DEF RespondSpawns
  <2>6. QED
    BY <1>3, <1>4, <2>1, <2>2, <2>5 DEF RespondActs, Alone
<1>17. QED
  BY <1>11, <1>12, <1>13, <1>14, <1>15, <1>16 DEF RespondStep, RespondSteps, RespondResumes

(* What these steps have in common. *)
LEMMA RespondShape ==
    ASSUME AnswerInv, NEW p \in Responds, RespondActs(p)
    PROVE  /\ UNCHANGED <<status, checkpoint, events, decision, todo>>
           /\ pc[p] # "returned" /\ pc'[p] # "idle" /\ reply'[p] = "none"
           /\ \A i \in 1 .. Len(queue) : queue[i].by # p
           /\ \A r \in Runs : reply'[r] = reply[r]
           /\ \A q \in Responds : q # p => /\ reply'[q] = reply[q] /\ pc'[q] = pc[q]
                                           /\ subject'[q] = subject[q]
           /\ \A c \in Cancels \cup {Boot} : subject'[c] = subject[c]
           /\ \A t \in Task : /\ pc'[Start(t)] = pc[Start(t)] /\ reply'[Start(t)] = reply[Start(t)]
                              /\ pc'[Run(t)] = pc[Run(t)]
                              /\ Told(t)' <=> Told(t)
                              /\ Settled(t)' <=> Settled(t)
                              /\ Logged(t)' <=> Logged(t)
                              /\ Asked(t) => Asked(t)'
           /\ SubjectsSettled /\ subject \in [Cancels \cup Responds \cup {Boot} -> Task \cup {NoTask}]
           /\ queue \in Seq(Op)
<1>1. /\ UNCHANGED <<status, checkpoint, events, decision, todo>>
      /\ pc[p] # "returned" /\ pc'[p] # "idle" /\ reply'[p] = "none"
      /\ \A i \in 1 .. Len(queue) : queue[i].by # p
      /\ \A c \in Client : c # p => reply'[c] = reply[c]
      /\ RespondReads(p) \/ RespondGoes(p) \/ RespondSpawns(p)
  BY DEF RespondActs
<1>2. /\ pc \in [Client -> RunLabel \cup CallLabel \cup BootLabel] /\ queue \in Seq(Op)
      /\ subject \in [Cancels \cup Responds \cup {Boot} -> Task \cup {NoTask}]
      /\ SubjectsSettled
  BY AnswerTypes DEF AnswerInv
<1>3. /\ p \in Client /\ p \notin Cancels /\ p # Boot
      /\ \A c \in Runs \cup Responds : c \in Client
      /\ \A r \in Runs : r # p
      /\ \A t \in Task : /\ Resume(t) \in Client /\ Resume(t) # p /\ Resume(t) \notin Responds
                         /\ Start(t) \in Client /\ Start(t) # p /\ Start(t) # Resume(t)
                         /\ Run(t) \in Client /\ Run(t) # p
                         /\ \A u \in Task : Run(t) # Resume(u) /\ Start(t) # Resume(u)
  BY ClientMembers, ClientKinds, ClientsApart
<1>4. \A c \in Cancels \cup Responds \cup {Boot} : c # p => subject'[c] = subject[c]
  BY <1>1, <1>2 DEF RespondReads, RespondGoes, RespondSpawns
<1>5. \A c \in Client : c # p /\ (\A u \in Task : c # Resume(u)) => pc'[c] = pc[c]
  BY <1>1, <1>2, <1>3 DEF RespondReads, RespondGoes, RespondSpawns
<1>6. \A t \in Task : Asked(t) => Asked(t)'
  <2>1. subject[p] # NoTask => subject'[p] = subject[p]
    BY <1>1, <1>2 DEF RespondReads, RespondGoes, RespondSpawns, SubjectsSettled
  <2>2. QED
    BY <1>4, <2>1, SupervisorConstants DEF Asked
<1>7. \A t \in Task : pc'[Start(t)] = pc[Start(t)] /\ reply'[Start(t)] = reply[Start(t)]
                      /\ pc'[Run(t)] = pc[Run(t)]
  BY <1>1, <1>3, <1>5
<1>8. \A t \in Task : /\ Told(t)' <=> Told(t)
                      /\ Settled(t)' <=> Settled(t)
                      /\ Logged(t)' <=> Logged(t)
  BY <1>1, <1>7 DEF Told, Settled, Logged, Row
<1>9. \A q \in Responds : q # p => pc'[q] = pc[q]
  BY <1>3, <1>5
<1>10. QED
  BY <1>1, <1>2, <1>3, <1>4, <1>6, <1>7, <1>8, <1>9

LEMMA RespondKeepsAnswers ==
    ASSUME AnswerInv, OrphanInv', NEW p \in Responds, RespondStep(p)
    PROVE  AnswerInv'
<1>0. PICK t : t = subject'[p]
  OBVIOUS
<1>1. RespondActs(p)
  BY RespondSteppedActs
<1>2. /\ UNCHANGED <<status, checkpoint, events, decision, todo>>
      /\ pc[p] # "returned" /\ pc'[p] # "idle" /\ reply'[p] = "none"
      /\ \A i \in 1 .. Len(queue) : queue[i].by # p
      /\ \A r \in Runs : reply'[r] = reply[r]
      /\ \A q \in Responds : q # p => /\ reply'[q] = reply[q] /\ pc'[q] = pc[q]
                                      /\ subject'[q] = subject[q]
      /\ \A c \in Cancels \cup {Boot} : subject'[c] = subject[c]
      /\ \A u \in Task : /\ pc'[Start(u)] = pc[Start(u)] /\ reply'[Start(u)] = reply[Start(u)]
                         /\ pc'[Run(u)] = pc[Run(u)]
                         /\ Told(u)' <=> Told(u)
                         /\ Settled(u)' <=> Settled(u)
                         /\ Logged(u)' <=> Logged(u)
                         /\ Asked(u) => Asked(u)'
      /\ SubjectsSettled /\ subject \in [Cancels \cup Responds \cup {Boot} -> Task \cup {NoTask}]
      /\ queue \in Seq(Op)
  BY <1>1, RespondShape
<1>3. /\ p \in Client /\ p \notin Runs
      /\ \A u \in Task : /\ Run(u) \in Runs /\ Resume(u) \in Runs /\ Run(u) # Resume(u)
                         /\ \A v \in Task : Run(u) # Resume(v) /\ (Resume(u) = Resume(v) => u = v)
      /\ \A r \in Runs : r \in Client /\ r # p
      /\ pc \in [Client -> RunLabel \cup CallLabel \cup BootLabel]
      /\ registered \in [Task -> {"none", "run", "resume"}]
  BY AnswerTypes, ClientsApart
<1>4. \/ /\ RespondReads(p) /\ pc'[p] = "submit"
         /\ registered' = registered /\ queue' = queue
         /\ \A r \in Runs : pc'[r] = pc[r]
         /\ t \in Task /\ status[t] = "waiting_input"
      \/ /\ RespondGoes(p) /\ subject' = subject /\ registered' = registered
         /\ \A r \in Runs : pc'[r] = pc[r]
      \/ /\ RespondSpawns(p) /\ t \in Task /\ subject' = subject /\ Quiet /\ pc[p] = "reread"
         /\ pc'[Resume(t)] = "running" /\ pc'[p] = "returned"
         /\ \A r \in Runs : r # Resume(t) => pc'[r] = pc[r]
         /\ registered' = [registered EXCEPT ![t] = "resume"]
  <2>1. CASE RespondReads(p)
    BY <1>0, <1>2, <1>3, <2>1 DEF RespondReads
  <2>2. CASE RespondGoes(p)
    BY <1>3, <2>2 DEF RespondGoes
  <2>3. CASE RespondSpawns(p)
    BY <1>0, <1>3, <2>3 DEF RespondSpawns
  <2>4. QED
    BY <1>1, <2>1, <2>2, <2>3 DEF RespondActs
<1>22. (\A i \in 1 .. Len(queue) : queue[i].by # p) /\ reply'[p] = "none"
       /\ subject \in [Cancels \cup Responds \cup {Boot} -> Task \cup {NoTask}]
  BY <1>2
(* An answer is put when the question is, and takes up a run that never was. *)
<1>5. RespondReads(p) => /\ Settled(t) /\ Logged(t) /\ pc[Run(t)] \in Closing
                         /\ checkpoint[t]
  <2> HAVE RespondReads(p)
  <2>1. t \in Task /\ status[t] = "waiting_input" /\ Quiet
    BY <1>0, <1>22 DEF RespondReads
  <2>2. checkpoint[t] /\ Logged(t)
    BY <2>1 DEF AnswerInv, WaitingHasCheckpoint, QuestionSaved
  <2>3. reply[Run(t)] = "none" /\ reply[Start(t)] = "none"
    BY <2>1, ClientsApart DEF Quiet
  <2>4. pc[Run(t)] \in Closing
    BY <2>1, <2>2, <2>3 DEF AnswerInv, QuestionSaved
  <2>5. QED
    BY <2>1, <2>2, <2>3, <2>4 DEF Settled, Row, Told
<1>6. RespondSpawns(p) => pc[Resume(t)] = "idle"
  <2> SUFFICES ASSUME RespondSpawns(p), pc[Resume(t)] # "idle" PROVE FALSE
    OBVIOUS
  <2>1. t \in Task /\ subject[p] = t /\ pc[p] = "reread"
    BY <1>0 DEF RespondSpawns
  <2>2. PICK q \in Responds : subject[q] = t /\ pc[q] = "returned"
    BY <2>1 DEF AnswerInv, ResumeRefused
  <2>3. Spent(p) /\ Spent(q)
    BY <2>1, <2>2 DEF Spent
  <2>4. QED
    BY <2>1, <2>2, <2>3 DEF AnswerInv, SpentOnce
<1>7. RunsKnown'
  <2>1. ASSUME NEW u \in Task, registered'[u] # "none"
        PROVE  pc'[<<registered'[u], u>>] \notin {"idle", "ended"}
    <3>1. CASE registered'[u] = registered[u]
      <4>1. <<registered[u], u>> \in Runs
        BY <1>3, <2>1, <3>1 DEF Runs
      <4>2. Live(<<registered[u], u>>)
        BY <2>1, <3>1 DEF AnswerInv, RunsKnown
      <4>3. QED
        BY <1>4, <3>1, <4>1, <4>2 DEF Live
    <3>2. CASE registered'[u] # registered[u]
      <4>1. u = t /\ registered'[u] = "resume" /\ pc'[Resume(t)] = "running"
        BY <1>3, <1>4, <3>2
      <4>2. QED
        BY <4>1 DEF Resume
    <3>3. QED
      BY <3>1, <3>2
  <2>2. ASSUME NEW r \in Runs, pc'[r] \in {"idle", "ended"} PROVE reply'[r] = "none"
    BY <1>2, <1>4, <2>2 DEF AnswerInv, RunsKnown, Live
  <2>3. ASSUME NEW u \in Task, pc'[Run(u)] # "idle" PROVE pc'[Start(u)] = "returned" /\ Row(u)
    BY <1>2, <2>3 DEF AnswerInv, RunsKnown
  <2>4. QED
    BY <1>2, <2>1, <2>2, <2>3 DEF RunsKnown, Live, Row
<1>8. subject'[p] # NoTask => /\ subject'[p] \in Task /\ Settled(subject'[p])
                              /\ Logged(subject'[p]) /\ pc[Run(subject'[p])] \in Closing
  <2>1. CASE RespondReads(p)
    <3>1. t \in Task
      BY <1>0, <1>22, <2>1 DEF RespondReads
    <3>2. QED
      BY <1>0, <1>5, <2>1, <3>1
  <2>2. CASE subject' = subject
    BY <1>2, <2>2 DEF AnswerInv, SubjectsSettled, QuestionPut
  <2>3. QED
    BY <1>4, <2>1, <2>2
<1>9. SubjectsSettled'
  <2>1. /\ \A c \in Cancels \cup Responds \cup {Boot} :
              subject'[c] # NoTask => subject'[c] \in Task /\ Settled(subject'[c])
        /\ \A u \in todo : u \in Task /\ Settled(u)
    <3>1. todo \subseteq Task
      BY AnswerTypes
    <3>2. QED
      BY <1>2, <1>8, <3>1 DEF SubjectsSettled
  <2>2. \A u \in Task : Settled(u) => /\ status'[u] # "absent"
                                      /\ ~(pc'[Start(u)] = "create" /\ reply'[Start(u)] = "ok")
    BY <1>2 DEF Settled, Row, Told
  <2>3. \A u \in Task : Told(u)' => status'[u] = decision'[u]
    BY <1>2 DEF SubjectsSettled
  <2>4. \A q \in Responds : pc'[q] = "idle" => subject'[q] = NoTask
    BY <1>2 DEF SubjectsSettled
  <2>5. QED
    BY <1>2, <2>1, <2>2, <2>3, <2>4 DEF SubjectsSettled, Settled, Row, Told
<1>10. StartsLogged'
  <2>1. \A r \in Runs : pc'[r] = pc[r] \/ pc'[r] = "running"
    BY <1>4
  <2>2. QED
    BY <1>2, <2>1 DEF AnswerInv, StartsLogged, Logged, Opening
<1>11. ResumeRefused'
  <2>1. ASSUME NEW u \in Task
        PROVE  /\ pc'[Resume(u)] \in Opening
               /\ ~(pc'[Resume(u)] = "started" /\ reply'[Resume(u)] = "ok")
               /\ pc'[Resume(u)] # "idle" =>
                     \E q \in Responds : subject'[q] = u /\ pc'[q] = "returned"
    <3>1. CASE pc'[Resume(u)] = pc[Resume(u)]
      <4>1. \A q \in Responds : pc[q] = "returned" => pc'[q] = "returned" /\ subject'[q] = subject[q]
        BY <1>2
      <4>2. QED
        BY <1>2, <1>3, <3>1, <4>1 DEF AnswerInv, ResumeRefused
    <3>2. CASE pc'[Resume(u)] # pc[Resume(u)]
      <4>1. /\ pc'[Resume(t)] = "running" /\ u = t /\ pc'[p] = "returned"
        BY <1>3, <1>4, <3>2
      <4>2. QED
        BY <1>0, <1>2, <4>1 DEF Opening
    <3>3. QED
      BY <3>1, <3>2
  <2>2. QED
    BY <2>1 DEF ResumeRefused
<1>12. QuestionPut'
  <2>1. \A q \in Responds : subject'[q] # NoTask =>
            subject'[q] \in Task /\ Logged(subject'[q]) /\ pc[Run(subject'[q])] \in Closing
    BY <1>2, <1>8 DEF AnswerInv, QuestionPut
  <2>2. QED
    BY <1>2, <2>1 DEF QuestionPut, Logged, Closing
<1>13. QuestionSaved'
  BY <1>2, <1>3 DEF AnswerInv, QuestionSaved, Logged
<1>14. SpentOnce'
  <2>1. Spent(p)' => Spent(p) /\ subject'[p] = subject[p]
    <3>1. CASE RespondReads(p)
      BY <1>3, <3>1 DEF RespondReads, Spent
    <3>2. CASE RespondGoes(p)
      BY <3>2 DEF RespondGoes
    <3>3. CASE RespondSpawns(p)
      BY <3>3 DEF RespondSpawns, Spent
    <3>4. QED
      BY <1>4, <3>1, <3>2, <3>3
  <2>2. \A q \in Responds : Spent(q)' => Spent(q) /\ subject'[q] = subject[q]
    BY <1>2, <2>1 DEF Spent
  <2>3. \A q \in Responds : Spent(q)' =>
            /\ subject'[q] \in Task
            /\ ~checkpoint[subject'[q]]
            /\ \A s \in Responds : Spent(s)' /\ subject'[s] = subject'[q] => s = q
    BY <2>2 DEF AnswerInv, SpentOnce
  <2>4. QED
    BY <1>2, <2>3 DEF SpentOnce, Spent
<1>15. WaitingHasCheckpoint'
  BY <1>2 DEF AnswerInv, WaitingHasCheckpoint
<1>16. ASSUME NEW o \in Op, Queued(o), OpOK(o) PROVE OpOK(o)'
  <2>1. o.task \in Task /\ o.by # p
    BY <1>22, <1>16 DEF Op, Queued
  <2>2. o.by \in Runs => RunAwaits(o.by, o)' /\ reply'[o.by] = "none"
    <3>1. o.by \in Runs => pc'[o.by] = pc[o.by]
      BY <1>4, <1>6, <1>16 DEF OpOK, RunAwaits
    <3>2. QED
      BY <1>2, <1>16, <3>1 DEF OpOK, RunAwaits
  <2>3. o.by \in Responds => AnswerAwaits(o.by, o)' /\ reply'[o.by] = "none"
    BY <1>2, <1>16, <2>1 DEF OpOK, AnswerAwaits
  <2>4. Unsaved(o.task, o.by) => Unsaved(o.task, o.by)'
    <3>1. ~checkpoint[o.task] /\ Asked(o.task)' => Asked(o.task)
      <4>1. RespondReads(p) => checkpoint[t] /\ \A q \in Responds : q # p => subject'[q] = subject[q]
        BY <1>2, <1>5
      <4>2. subject' = subject \/ RespondReads(p)
        BY <1>4
      <4>3. QED
        BY <1>0, <4>1, <4>2 DEF Asked
    <3>2. QED
      BY <1>2, <1>3, <2>1, <3>1 DEF Unsaved
  <2>5. QED
    BY <1>2, <1>16, <2>1, <2>2, <2>3, <2>4 DEF OpOK, Activates, Asks, Updates
<1>17. ASSUME NEW a \in Op, NEW b \in Op, PairOK(a, b) PROVE PairOK(a, b)'
  BY <1>2, <1>17 DEF PairOK, Op, Activates, Asks, Updates
<1>18. ASSUME NEW op \in Op, subject' = subject, t \in Task, op.task = t, op.by = p,
              \/ op.kind = "consume" /\ pc'[p] = "consuming"
              \/ /\ op.kind = "status" /\ pc'[p] \in {"resuming", "missing"}
                 /\ op.status \in {"resuming", "failed"}
       PROVE  OpOK(op)' /\ \A o \in Op : Queued(o) /\ OpOK(o) => PairOK(o, op)'
  <2>1. Asked(t)' /\ Settled(t)' /\ subject'[p] = t
    BY <1>0, <1>2, <1>8, <1>18, SupervisorConstants DEF Asked
  <2>2. OpOK(op)'
    BY <1>3, <1>18, <1>22, <2>1 DEF OpOK, AnswerAwaits, Updates, Activates, Asks
  <2>3. \A o \in Op : Queued(o) => PairOK(o, op)'
    BY <1>18, <1>22, <2>1 DEF PairOK, Queued, Asks, Activates, Updates
  <2>4. QED
    BY <2>2, <2>3
<1>19. ASSUME NEW op \in Op, RespondSpawns(p), op.by = Resume(t), op.task = t,
              op.kind = "status", op.status = "running"
       PROVE  OpOK(op)' /\ \A o \in Op : Queued(o) /\ OpOK(o) => PairOK(o, op)'
  <2>1. /\ t \in Task /\ pc'[Resume(t)] = "running" /\ subject'[p] = t /\ pc[Resume(t)] = "idle"
        /\ reply'[Resume(t)] = "none"
    <3>1. t \in Task /\ Quiet /\ pc[Resume(t)] = "idle"
      BY <1>0, <1>6, <1>19 DEF RespondSpawns
    <3>2. pc'[Resume(t)] = "running"
      BY <1>0, <1>3, <1>19, <3>1 DEF RespondSpawns
    <3>3. QED
      BY <1>0, <1>2, <1>3, <3>1, <3>2 DEF Quiet
  <2>2. Asked(t)' /\ Settled(t)' /\ Resume(t) \in Runs \ Responds /\ TaskOf(Resume(t)) = t
    <3>1. t # NoTask /\ Asked(t)'
      BY <2>1, SupervisorConstants DEF Asked
    <3>2. Settled(t)'
      BY <1>2, <1>8, <2>1, <3>1
    <3>3. QED
      BY <2>1, <3>1, <3>2, ClientsApart
  <2>3. OpOK(op)'
    BY <1>19, <2>1, <2>2 DEF OpOK, RunAwaits, Updates, Activates, Asks
  <2>4. ASSUME NEW o \in Op, OpOK(o) PROVE PairOK(o, op)'
    <3>1. o.by # Resume(t)
      BY <2>1, <2>2, <2>4 DEF OpOK, RunAwaits
    <3>2. QED
      BY <1>19, <2>2, <3>1 DEF PairOK, Asks, Activates, Updates
  <2>5. QED
    BY <2>3, <2>4
<1>20. OpsOK' /\ PairsOK'
  <2>1. \/ queue' = queue
        \/ \E op \in Op : /\ queue' = Append(queue, op) /\ OpOK(op)'
                          /\ \A o \in Op : Queued(o) /\ OpOK(o) => PairOK(o, op)'
    <3>1. CASE RespondReads(p)
      BY <3>1 DEF RespondReads
    <3>2. CASE RespondGoes(p)
      <4>1. subject' = subject /\ t = subject[p]
        BY <1>0, <3>2 DEF RespondGoes
      <4>2. QED
        BY <1>18, <3>2, <4>1 DEF RespondGoes
    <3>3. CASE RespondSpawns(p)
      <4>1. t = subject[p]
        BY <1>0, <3>3 DEF RespondSpawns
      <4>2. QED
        BY <1>19, <3>3, <4>1 DEF RespondSpawns
    <3>4. QED
      BY <1>4, <3>1, <3>2, <3>3
  <2>2. QED
    BY <1>2, <1>16, <1>17, <2>1, QueueKept DEF AnswerInv
<1>21. QED
  BY <1>7, <1>9, <1>10, <1>11, <1>12, <1>13, <1>14, <1>15, <1>20 DEF AnswerInv

-----------------------------------------------------------------------------
(* What one transaction does to the tables and to whom it answers.         *)
Replied(op, a) ==
    /\ Answer(op, a)
    /\ op.kind = "create" /\ a = "ok" => ~Row(op.task) /\ status'[op.task] = op.status
    /\ op.kind = "event" /\ a = "ok" => EventIdFree(op) /\ <<op.task, op.id>> \in events'
    /\ op.kind = "checkpoint" => a = "ok"
    /\ op.kind = "consume" /\ a = "ok" => checkpoint[op.task]
Effect(op) ==
    /\ \A t \in Task : /\ t # op.task => status'[t] = status[t] /\ checkpoint'[t] = checkpoint[t]
                       /\ Row(t) => Row(t)'
    /\ events \subseteq events'
    /\ op.kind \notin {"checkpoint", "consume"} => checkpoint' = checkpoint
    /\ op.kind = "checkpoint" => checkpoint'[op.task]
    /\ op.kind = "consume" => ~checkpoint'[op.task]
    /\ ~Updates(op) /\ op.kind # "create" => status' = status
    /\ status'[op.task] = "waiting_input" =>
          \/ status[op.task] = "waiting_input" /\ (op.kind = "consume" => ~checkpoint[op.task])
          \/ op.kind = "checkpoint" \/ Asks(op)
          \/ op.kind \in {"create", "status"} /\ op.status = "waiting_input"
    /\ status'[op.task] \in ActiveStatus =>
          \/ status[op.task] \in ActiveStatus \cup {"absent"}
          \/ Activates(op) \/ op.kind = "consume"

LEMMA Applied ==
    ASSUME AnswerInv, NEW op \in Op, Apply(op)
    PROVE  /\ \E a \in {"ok", "error", "none_found"} : Replied(op, a)
           /\ Effect(op)
<1> DEFINE u == op.task
<1>1. /\ status \in [Task -> Status \cup {"absent"}] /\ u \in Task
      /\ checkpoint \in [Task -> BOOLEAN] /\ op.status \in Status /\ op.type \in EventType
  BY AnswerTypes DEF Op
<1>2. "absent" \notin Status /\ "waiting_input" \in Status /\ "resuming" \in Status
  BY DEF Status, RecoverableStatus, ActiveStatus, TerminalStatus
<1> HIDE DEF u
<1>3. \A s : status' = Marked(u, s) =>
          /\ \A t \in Task : t # u => status'[t] = status[t]
          /\ Row(u) => status'[u] = s
          /\ ~Row(u) => status'[u] = "absent"
  BY <1>1 DEF Marked, Row
<1>4. CASE InsertTask(op)
  <2>1. /\ op.kind = "create" /\ ~Row(u) /\ Answer(op, "ok")
        /\ status' = [status EXCEPT ![u] = op.status]
        /\ UNCHANGED <<checkpoint, events>>
    BY <1>4 DEF InsertTask, u
  <2>2. /\ status'[u] = op.status /\ status[u] = "absent"
        /\ \A t \in Task : t # u => status'[t] = status[t]
    BY <1>1, <2>1 DEF Row
  <2>3. Replied(op, "ok")
    BY <2>1, <2>2 DEF Replied, u
  <2>4. Effect(op)
    BY <1>1, <1>2, <2>1, <2>2 DEF Effect, u, Row, Updates
  <2>5. QED
    BY <2>3, <2>4
<1>5. CASE UpdateStatus(op)
  <2>1. /\ op.kind = "status" /\ Answer(op, "ok") /\ UNCHANGED <<checkpoint, events>>
        /\ status' = Marked(u, op.status)
    BY <1>5 DEF UpdateStatus, u
  <2>2. "absent" \notin ActiveStatus
    BY DEF ActiveStatus
  <2>3. Replied(op, "ok")
    BY <2>1 DEF Replied
  <2>4. Effect(op)
    BY <1>1, <1>2, <1>3, <2>1, <2>2 DEF Effect, u, Row, Activates, Updates
  <2>5. QED
    BY <2>3, <2>4
<1>6. CASE AppendEvent(op)
  <2>1. /\ op.kind = "event" /\ EventIdFree(op) /\ <<u, op.id>> \in events'
        /\ events \subseteq events' /\ Answer(op, "ok") /\ checkpoint' = checkpoint
        /\ status' = Marked(u, EventStatus(op.type, status[u]))
    BY <1>6 DEF AppendEvent, u
  <2>2. PICK s : s = EventStatus(op.type, status[u])
    OBVIOUS
  <2>3. /\ s = "waiting_input" => Asks(op) \/ status[u] = "waiting_input"
        /\ s \in ActiveStatus => status[u] \in ActiveStatus
        /\ status[u] # "absent" => s # "absent"
    BY <1>1, <2>1, <2>2 DEF EventStatus, EventType, Asks, ActiveStatus
  <2>4. Replied(op, "ok")
    BY <2>1 DEF Replied, u
  <2>5. "absent" \notin ActiveStatus
    BY DEF ActiveStatus
  <2>6. Effect(op)
    BY <1>1, <1>2, <1>3, <2>1, <2>2, <2>3, <2>5 DEF Effect, u, Row, Updates
  <2>7. QED
    BY <2>4, <2>6
<1>7. CASE SaveCheckpoint(op)
  <2>1. /\ op.kind = "checkpoint" /\ Answer(op, "ok") /\ UNCHANGED events
        /\ status' = Marked(u, "waiting_input")
        /\ checkpoint' = [checkpoint EXCEPT ![u] = TRUE]
    BY <1>7 DEF SaveCheckpoint, u
  <2>2. /\ checkpoint'[u] = TRUE
        /\ \A t \in Task : t # u => checkpoint'[t] = checkpoint[t]
    BY <1>1, <2>1
  <2>3. "absent" \notin ActiveStatus /\ "waiting_input" \notin ActiveStatus
    BY DEF ActiveStatus
  <2>4. Replied(op, "ok")
    BY <2>1 DEF Replied
  <2>5. /\ op.kind = "checkpoint" /\ events' = events
        /\ \A t \in Task : t # u => status'[t] = status[t]
        /\ status[u] # "absent" => status'[u] = "waiting_input"
        /\ status[u] = "absent" => status'[u] = "absent"
    BY <1>3, <2>1 DEF Row
  <2>6. Effect(op)
    BY <1>1, <2>2, <2>3, <2>5 DEF Effect, u, Row, Updates
  <2>7. QED
    BY <2>4, <2>6
<1>8. CASE ConsumeCheckpoint(op)
  <2>1. /\ op.kind = "consume" /\ Answer(op, "ok") /\ UNCHANGED events
        /\ status' = Marked(u, "resuming")
        /\ checkpoint' = [checkpoint EXCEPT ![u] = FALSE] /\ checkpoint[u]
    BY <1>8 DEF ConsumeCheckpoint, u
  <2>2. /\ checkpoint'[u] = FALSE
        /\ \A t \in Task : t # u => checkpoint'[t] = checkpoint[t]
    BY <1>1, <2>1
  <2>3. Replied(op, "ok")
    BY <2>1 DEF Replied, u
  <2>4. /\ op.kind = "consume" /\ events' = events
        /\ \A t \in Task : t # u => status'[t] = status[t]
        /\ status[u] # "absent" => status'[u] = "resuming"
        /\ status[u] = "absent" => status'[u] = "absent"
    BY <1>3, <2>1 DEF Row
  <2>5. Effect(op)
    BY <1>1, <2>2, <2>4 DEF Effect, u, Row, Updates
  <2>6. QED
    BY <2>3, <2>5
<1>9. CASE RefuseDuplicate(op) \/ RefuseEvent(op) \/ MissCheckpoint(op) \/ LifecycleLog(op)
           \/ NextGeneration(op) \/ StopTopicPrefix(op)
  <2>1. /\ UNCHANGED <<status, checkpoint, events>>
        /\ \/ op.kind \in {"create", "event"} /\ Answer(op, "error")
           \/ op.kind = "consume" /\ ~checkpoint[u] /\ Answer(op, "none_found")
           \/ op.kind \in {"lifecycle", "generation", "stop"} /\ Answer(op, "ok")
    BY <1>9 DEF RefuseDuplicate, RefuseEvent, MissCheckpoint, LifecycleLog, NextGeneration,
                StopTopicPrefix, tables, u
  <2>2. \E a \in {"ok", "error", "none_found"} : Replied(op, a)
    BY <2>1 DEF Replied
  <2>3. Effect(op)
    BY <1>1, <2>1 DEF Effect, Row, u
  <2>4. QED
    BY <2>2, <2>3
<1>10. QED
  BY <1>4, <1>5, <1>6, <1>7, <1>8, <1>9 DEF Apply

(* The step of the writer: the head of the queue, whose waiter alone is    *)
(* answered, and what is known of the writes behind it.                    *)
LEMMA WriterHead ==
    ASSUME AnswerInv, WriterTurn
    PROVE  LET op == Head(queue) IN
           /\ op \in Op /\ Apply(op) /\ Quiet /\ OpOK(op) /\ op.task \in Task
           /\ Tail(queue) \in Seq(Op) /\ queue' = Tail(queue)
           /\ \A i \in 1 .. Len(Tail(queue)) :
                 /\ OpOK(Tail(queue)[i]) /\ PairOK(op, Tail(queue)[i])
                 /\ \A j \in 1 .. Len(Tail(queue)) : i < j => PairOK(Tail(queue)[i], Tail(queue)[j])
           /\ UNCHANGED <<pc, subject, decision, registered, todo>>
           /\ \A t \in Task : op.by = Start(t) => /\ pc[Start(t)] = op.kind /\ op.task = t
<1> DEFINE op == Head(queue)
           n == Len(queue)
<1>1. /\ Quiet /\ queue # <<>> /\ queue' = Tail(queue) /\ Apply(op)
      /\ UNCHANGED <<pc, subject, decision, registered, todo>>
  BY DEF WriterTurn, WriterStep, runtimeVars, supervisorVars, callVars, bootVars
<1>2. queue \in Seq(Op)
  BY AnswerTypes
<1>3. /\ n \in Nat /\ n >= 1 /\ op = queue[1] /\ \A i \in 1 .. n : queue[i] \in Op
      /\ Tail(queue) \in Seq(Op) /\ Len(Tail(queue)) = n - 1
      /\ \A i \in 1 .. n - 1 : Tail(queue)[i] = queue[i + 1] /\ i + 1 \in 1 .. n
  BY <1>1, <1>2
<1>4. /\ \A i \in 1 .. n : OpOK(queue[i])
      /\ \A i, j \in 1 .. n : i < j => PairOK(queue[i], queue[j])
  BY DEF AnswerInv, OpsOK, PairsOK
<1>5. \A t \in Task : queue[1].by = Start(t) => /\ pc[Start(t)] = queue[1].kind /\ queue[1].task = t
  BY <1>3 DEF AnswerInv, OrphanInv, TopicInv, KeyInv, StartWaits
<1> HIDE DEF op, n
<1>6. op \in Op /\ OpOK(op) /\ op.task \in Task
  BY <1>3, <1>4 DEF Op
<1>7. \A i \in 1 .. n - 1 : 1 < i + 1 /\ 1 \in 1 .. n /\ \A j \in 1 .. n - 1 : i < j => i + 1 < j + 1
  BY <1>3
<1>8. \A i \in 1 .. n - 1 :
          /\ OpOK(queue[i + 1]) /\ PairOK(queue[1], queue[i + 1])
          /\ \A j \in 1 .. n - 1 : i < j => PairOK(queue[i + 1], queue[j + 1])
  BY <1>3, <1>4, <1>7
<1>9. \A i \in 1 .. Len(Tail(queue)) :
          /\ OpOK(Tail(queue)[i]) /\ PairOK(op, Tail(queue)[i])
          /\ \A j \in 1 .. Len(Tail(queue)) : i < j => PairOK(Tail(queue)[i], Tail(queue)[j])
  BY <1>3, <1>8
<1>10. QED
  BY <1>1, <1>3, <1>5, <1>6, <1>9 DEF op

LEMMA WriterKeepsAnswers ==
    ASSUME AnswerInv, OrphanInv', WriterTurn
    PROVE  AnswerInv'
<1> DEFINE rest == Tail(queue)
<1>0. PICK op : op = Head(queue)
  OBVIOUS
<1>1. /\ op \in Op /\ Apply(op) /\ Quiet /\ OpOK(op) /\ op.task \in Task
      /\ rest \in Seq(Op) /\ queue' = rest
      /\ \A i \in 1 .. Len(rest) :
            /\ OpOK(rest[i]) /\ PairOK(op, rest[i])
            /\ \A j \in 1 .. Len(rest) : i < j => PairOK(rest[i], rest[j])
      /\ UNCHANGED <<pc, subject, decision, registered, todo>>
      /\ \A t \in Task : op.by = Start(t) => /\ pc[Start(t)] = op.kind /\ op.task = t
  BY <1>0, WriterHead
<1> HIDE DEF rest
<1>2. PICK a \in {"ok", "error", "none_found"} :
          /\ Answer(op, a)
          /\ op.kind = "create" /\ a = "ok" => ~Row(op.task) /\ status'[op.task] = op.status
          /\ op.kind = "event" /\ a = "ok" => EventIdFree(op) /\ <<op.task, op.id>> \in events'
          /\ op.kind = "checkpoint" => a = "ok"
          /\ op.kind = "consume" /\ a = "ok" => checkpoint[op.task]
  BY <1>1, Applied DEF Replied
<1>3. /\ \A t \in Task : /\ t # op.task => status'[t] = status[t] /\ checkpoint'[t] = checkpoint[t]
                         /\ Row(t) => Row(t)'
      /\ events \subseteq events'
      /\ op.kind \notin {"checkpoint", "consume"} => checkpoint' = checkpoint
      /\ op.kind = "checkpoint" => checkpoint'[op.task]
      /\ op.kind = "consume" => ~checkpoint'[op.task]
      /\ ~Updates(op) /\ op.kind # "create" => status' = status
      /\ status'[op.task] = "waiting_input" =>
            \/ status[op.task] = "waiting_input" /\ (op.kind = "consume" => ~checkpoint[op.task])
            \/ op.kind = "checkpoint" \/ Asks(op)
            \/ op.kind \in {"create", "status"} /\ op.status = "waiting_input"
  BY <1>1, Applied DEF Effect
<1>4. /\ reply \in [Client -> Reply]
      /\ subject \in [Cancels \cup Responds \cup {Boot} -> Task \cup {NoTask}]
      /\ todo \subseteq Task /\ op.by \in Client \cup {Nobody}
  BY <1>1, AnswerTypes DEF Op
<1>5. \A c \in Client : /\ reply[c] = "none"
                        /\ c # op.by => reply'[c] = "none"
                        /\ c = op.by => reply'[c] = a
  BY <1>1, <1>2, <1>4, StoreConstants DEF Quiet, Answer
<1>6. /\ \A t \in Task : /\ Start(t) \in Client
                         /\ Run(t) \in Runs /\ Resume(t) \in Runs
                         /\ TaskOf(Run(t)) = t /\ TaskOf(Resume(t)) = t
      /\ \A r \in Runs : r \in Client /\ TaskOf(r) \in Task
      /\ \A p \in Responds : p \in Client
  BY ClientsApart
<1>7. /\ op.by \in Runs => RunAwaits(op.by, op)
      /\ op.by \in Responds => AnswerAwaits(op.by, op)
  BY <1>1 DEF OpOK
<1>8. \A t \in Task : Told(t)' => op.kind = "create" /\ a = "ok" /\ op.task = t /\ op.by = Start(t)
                                  /\ pc[Start(t)] = "create"
  BY <1>1, <1>5, <1>6 DEF Told
<1>9. \A t \in Task : /\ Settled(t) => Settled(t)'
                      /\ Logged(t) => Logged(t)'
                      /\ Asked(t)' <=> Asked(t)
  BY <1>1, <1>2, <1>3, <1>8 DEF Settled, Logged, Asked
<1>10. RunsKnown'
  <2>1. \A r \in Runs : ~Live(r) => reply'[r] = "none"
    BY <1>5, <1>6, <1>7 DEF RunAwaits, Live
  <2>2. QED
    BY <1>1, <1>3, <2>1 DEF AnswerInv, RunsKnown, Live
<1>11. SubjectsSettled'
  <2>1. /\ \A c \in Cancels \cup Responds \cup {Boot} :
              subject[c] # NoTask => subject[c] \in Task /\ Settled(subject[c])
        /\ \A u \in todo : u \in Task /\ Settled(u)
    BY <1>4 DEF AnswerInv, SubjectsSettled
  <2>2. \A u \in Task : Settled(u) => /\ status'[u] # "absent"
                                      /\ ~(pc'[Start(u)] = "create" /\ reply'[Start(u)] = "ok")
    BY <1>9 DEF Settled, Row, Told
  <2>3. \A u \in Task : Told(u)' => status'[u] = decision[u]
    BY <1>1, <1>2, <1>8 DEF OpOK
  <2>4. \A p \in Responds : pc[p] = "idle" => subject[p] = NoTask
    BY DEF AnswerInv, SubjectsSettled
  <2>5. QED
    BY <1>1, <2>1, <2>2, <2>3, <2>4 DEF SubjectsSettled, Settled, Row, Told
<1>12. StartsLogged'
  <2>1. ASSUME NEW r \in Runs, pc[r] = "started", reply'[r] = "ok"
        PROVE  <<TaskOf(r), "1">> \in events'
    BY <1>2, <1>5, <1>6, <1>7, <2>1 DEF RunAwaits
  <2>2. \A r \in Runs : pc[r] \notin Opening => <<TaskOf(r), "1">> \in events'
    BY <1>3 DEF AnswerInv, StartsLogged, Logged
  <2>3. QED
    BY <1>1, <2>1, <2>2 DEF StartsLogged, Logged
<1>13. ResumeRefused'
  <2>1. ASSUME NEW t \in Task, pc[Resume(t)] = "started", reply'[Resume(t)] = "ok" PROVE FALSE
    <3>1. PICK p \in Responds : subject[p] = t
      BY <2>1 DEF AnswerInv, ResumeRefused
    <3>2. Logged(t)
      BY <3>1, SupervisorConstants DEF AnswerInv, QuestionPut
    <3>3. op.by = Resume(t) /\ a = "ok"
      BY <1>5, <1>6, <2>1
    <3>4. op.kind = "event" /\ op.id = "1" /\ op.task = t
      BY <1>6, <1>7, <2>1, <3>3 DEF RunAwaits
    <3>5. QED
      BY <1>2, <3>2, <3>3, <3>4 DEF EventIdFree, Logged
  <2>2. QED
    BY <1>1, <2>1 DEF AnswerInv, ResumeRefused
<1>14. QuestionPut'
  <2>1. \A p \in Responds : subject[p] # NoTask =>
            Logged(subject[p]) /\ pc[Run(subject[p])] \in Closing
    BY DEF AnswerInv, QuestionPut
  <2>2. QED
    BY <1>1, <1>3, <2>1 DEF QuestionPut, Logged, Closing
<1>15. QuestionSaved'
  <2>1. ASSUME NEW t \in Task, checkpoint'[t]
        PROVE  /\ <<t, "1">> \in events'
               /\ pc[Run(t)] \in Closing \/ (pc[Run(t)] = "checkpointing" /\ reply'[Run(t)] # "none")
    <3>1. CASE checkpoint[t]
      BY <1>3, <1>5, <1>6, <3>1 DEF AnswerInv, QuestionSaved, Logged
    <3>2. CASE ~checkpoint[t]
      <4>1. op.kind = "checkpoint" /\ op.task = t
        BY <1>3, <2>1, <3>2
      <4>2. Unsaved(t, op.by)
        BY <1>1, <4>1 DEF OpOK
      <4>3. QED
        BY <1>2, <1>3, <1>5, <1>6, <4>1, <4>2 DEF Unsaved, Logged, Closing
    <3>3. QED
      BY <3>1, <3>2
  <2>2. ASSUME NEW t \in Task, pc[Run(t)] = "checkpointing", reply'[Run(t)] = "ok"
        PROVE  checkpoint'[t]
    BY <1>3, <1>5, <1>6, <1>7, <2>2 DEF RunAwaits
  <2>3. QED
    BY <1>1, <2>1, <2>2 DEF QuestionSaved, Logged, Closing
<1>16. SpentOnce'
  <2>1. \A p \in Responds : Spent(p)' =>
            \/ Spent(p)
            \/ op.kind = "consume" /\ op.by = p /\ op.task = subject[p] /\ checkpoint[subject[p]]
    BY <1>1, <1>2, <1>5, <1>6, <1>7 DEF Spent, AnswerAwaits
  <2>2. ASSUME NEW p \in Responds, Spent(p)'
        PROVE  subject[p] \in Task /\ ~checkpoint'[subject[p]]
    <3>1. CASE Spent(p)
      <4>1. subject[p] \in Task /\ ~checkpoint[subject[p]] /\ Asked(subject[p])
        BY <3>1 DEF AnswerInv, SpentOnce, Asked
      <4>2. op.kind = "checkpoint" => op.task # subject[p]
        BY <1>1, <4>1 DEF OpOK, Unsaved
      <4>3. QED
        BY <1>3, <4>1, <4>2
    <3>2. CASE ~Spent(p)
      BY <1>1, <1>3, <2>1, <2>2, <3>2
    <3>3. QED
      BY <3>1, <3>2
  <2>3. ASSUME NEW p \in Responds, NEW q \in Responds, Spent(p)', Spent(q)', subject[q] = subject[p]
        PROVE  q = p
    <3>1. Spent(p) => ~checkpoint[subject[p]]
      BY DEF AnswerInv, SpentOnce
    <3>2. Spent(q) => ~checkpoint[subject[p]]
      BY <2>3 DEF AnswerInv, SpentOnce
    <3>3. CASE Spent(p)
      BY <2>1, <2>3, <3>1, <3>3 DEF AnswerInv, SpentOnce
    <3>4. CASE ~Spent(p)
      BY <2>1, <2>3, <3>2, <3>4
    <3>5. QED
      BY <3>3, <3>4
  <2>4. QED
    BY <1>1, <2>2, <2>3 DEF SpentOnce, Spent
<1>17. WaitingHasCheckpoint'
  <2>1. ASSUME NEW t \in Task, status'[t] = "waiting_input" PROVE checkpoint'[t]
    <3>1. CASE t # op.task
      BY <1>3, <2>1, <3>1 DEF AnswerInv, WaitingHasCheckpoint
    <3>2. CASE t = op.task
      BY <1>1, <1>3, <2>1, <3>2 DEF AnswerInv, WaitingHasCheckpoint, OpOK, Asks
    <3>3. QED
      BY <3>1, <3>2
  <2>2. QED
    BY <2>1 DEF WaitingHasCheckpoint
<1>18. ASSUME NEW o \in Op, OpOK(o), PairOK(op, o) PROVE OpOK(o)'
  <2>1. o.task \in Task
    BY DEF Op
  <2>2. o.by \in Runs \cup Responds => o.by \in Client /\ o.by # op.by
    BY <1>6, <1>18 DEF PairOK
  <2>3. /\ o.by \in Runs => RunAwaits(o.by, o)' /\ reply'[o.by] = "none"
        /\ o.by \in Responds => AnswerAwaits(o.by, o)' /\ reply'[o.by] = "none"
    BY <1>1, <1>5, <1>18, <2>2 DEF OpOK, RunAwaits, AnswerAwaits
  <2>4. o.kind = "checkpoint" => Unsaved(o.task, o.by)'
    <3> HAVE o.kind = "checkpoint"
    <3>1. Unsaved(o.task, o.by) /\ (op.kind = "checkpoint" => op.task # o.task)
      BY <1>18 DEF OpOK, PairOK
    <3>2. ~checkpoint'[o.task]
      BY <1>3, <2>1, <3>1 DEF Unsaved
    <3>3. /\ pc[Run(o.task)] = "ended"
             \/ (pc[Run(o.task)] = "checkpointing" /\ o.by = Run(o.task) /\ reply'[Run(o.task)] = "none")
      BY <1>5, <1>6, <2>1, <2>2, <3>1 DEF Unsaved
    <3>4. QED
      BY <1>1, <1>9, <2>1, <3>1, <3>2, <3>3 DEF Unsaved
  <2>5. Activates(o) => status'[o.task] = "pending" \/ Asked(o.task)
    BY <1>3, <1>18, <2>1 DEF OpOK, PairOK
  <2>6. Asks(o) => checkpoint'[o.task]
    BY <1>3, <1>18, <2>1 DEF OpOK, PairOK
  <2>7. QED
    BY <1>1, <1>9, <1>18, <2>1, <2>3, <2>4, <2>5, <2>6 DEF OpOK, Activates, Asks, Updates
<1>19. OpsOK' /\ PairsOK'
  <2>1. \A x, y \in Op : PairOK(x, y) => PairOK(x, y)'
    BY <1>1, PairsStay
  <2>2. \A i \in 1 .. Len(rest) : rest[i] \in Op
    BY <1>1
  <2>3. \A i \in 1 .. Len(rest) : \A o \in Op : o = rest[i] => OpOK(o)'
    BY <1>1, <1>18
  <2>4. \A i, j \in 1 .. Len(rest) : \A x, y \in Op :
            i < j /\ x = rest[i] /\ y = rest[j] => PairOK(x, y)'
    BY <1>1, <2>1
  <2>5. QED
    BY <1>1, <2>3, <2>4, QueueBecomes
<1>20. QED
  BY <1>10, <1>11, <1>12, <1>13, <1>14, <1>15, <1>16, <1>17, <1>19 DEF AnswerInv

(* A crash loses the queue and ends every run. *)
LEMMA CrashKeepsAnswers ==
    ASSUME AnswerInv, OrphanInv', Crash
    PROVE  AnswerInv'
<1>1. /\ UNCHANGED <<status, checkpoint, events, decision, subject>>
      /\ queue' = <<>> /\ todo' = {}
      /\ registered' = [t \in Task |-> "none"]
      /\ reply' = [c \in Client |-> "none"]
  BY DEF Crash, tables, callVars
<1>2. /\ \A r \in Runs : pc'[r] = IF pc[r] = "idle" THEN "idle" ELSE "ended"
      /\ \A c \in Starts \cup Responds :
            pc'[c] = IF pc[c] \in EndLabel \cup {"idle"} THEN pc[c] ELSE "gone"
  <2>1. \A c \in Runs \cup Starts \cup Responds : c \in Client /\ c # Boot
    BY ClientsApart, ClientMembers
  <2>2. \A c \in Starts \cup Responds : c \notin Runs
    BY ClientsApart
  <2>3. QED
    BY <2>1, <2>2 DEF Crash
<1>3. /\ \A t \in Task : /\ Run(t) \in Runs /\ Resume(t) \in Runs
                         /\ Start(t) \in Starts /\ Start(t) \in Client
      /\ \A r \in Runs : r \in Client
      /\ \A p \in Responds : p \in Client
  BY ClientsApart
<1>4. /\ subject \in [Cancels \cup Responds \cup {Boot} -> Task \cup {NoTask}]
      /\ \A c \in Client : reply'[c] = "none"
  BY <1>1, AnswerTypes
<1>5. \A p \in Responds : pc'[p] = "idle" => pc[p] = "idle"
  BY <1>2
<1>6. \A c \in Starts \cup Responds : pc[c] = "returned" => pc'[c] = "returned"
  BY <1>2 DEF EndLabel
<1>7. OpsOK' /\ PairsOK'
  BY <1>1 DEF OpsOK, PairsOK
<1>8. RunsKnown'
  <2>1. \A t \in Task : pc'[Run(t)] # "idle" => pc'[Start(t)] = "returned" /\ Row(t)
    BY <1>2, <1>3, <1>6 DEF AnswerInv, RunsKnown
  <2>2. QED
    BY <1>1, <1>3, <1>4, <2>1 DEF RunsKnown, Row
<1>9. SubjectsSettled'
  <2>1. \A c \in Cancels \cup Responds \cup {Boot} :
            subject[c] # NoTask => subject[c] \in Task /\ status[subject[c]] # "absent"
    BY <1>4 DEF AnswerInv, SubjectsSettled, Settled, Row
  <2>2. \A t \in Task : reply'[Start(t)] = "none"
    BY <1>3, <1>4
  <2>3. \A p \in Responds : pc'[p] = "idle" => subject[p] = NoTask
    BY <1>5 DEF AnswerInv, SubjectsSettled
  <2>4. QED
    BY <1>1, <2>1, <2>2, <2>3 DEF SubjectsSettled, Settled, Row, Told
<1>10. StartsLogged'
  BY <1>2, <1>3, <1>4 DEF StartsLogged, Opening
<1>11. ResumeRefused'
  <2>1. \A t \in Task :
            pc'[Resume(t)] # "idle" => \E p \in Responds : subject[p] = t /\ pc'[p] = "returned"
    BY <1>2, <1>3, <1>6 DEF AnswerInv, ResumeRefused
  <2>2. \A t \in Task : pc'[Resume(t)] \in Opening /\ reply'[Resume(t)] = "none"
    BY <1>2, <1>3, <1>4 DEF Opening
  <2>3. QED
    BY <1>1, <2>1, <2>2 DEF ResumeRefused
<1>12. QuestionPut'
  <2>1. \A p \in Responds : subject[p] # NoTask =>
            subject[p] \in Task /\ Logged(subject[p]) /\ pc[Run(subject[p])] \in Closing
    BY <1>4 DEF AnswerInv, QuestionPut
  <2>2. \A t \in Task : pc[Run(t)] \in Closing => pc'[Run(t)] = "ended"
    BY <1>2, <1>3 DEF Closing
  <2>3. QED
    BY <1>1, <2>1, <2>2 DEF QuestionPut, Logged, Closing
<1>13. QuestionSaved'
  <2>1. \A t \in Task : checkpoint[t] => Logged(t) /\ pc[Run(t)] # "idle"
    BY DEF AnswerInv, QuestionSaved, Closing
  <2>2. \A t \in Task : pc'[Run(t)] \in {"idle", "ended"} /\ (pc[Run(t)] # "idle" => pc'[Run(t)] = "ended")
    BY <1>2, <1>3
  <2>3. QED
    BY <1>1, <2>1, <2>2 DEF QuestionSaved, Logged, Closing
<1>14. SpentOnce'
  <2>1. \A p \in Responds : Spent(p)' => Spent(p)
    BY <1>2, <1>3, <1>4 DEF Spent, EndLabel
  <2>2. \A p \in Responds : Spent(p)' =>
            /\ subject[p] \in Task
            /\ ~checkpoint[subject[p]]
            /\ \A q \in Responds : Spent(q)' /\ subject[q] = subject[p] => q = p
    BY <2>1 DEF AnswerInv, SpentOnce
  <2>3. QED
    BY <1>1, <2>2 DEF SpentOnce, Spent
<1>15. WaitingHasCheckpoint'
  BY <1>1 DEF AnswerInv, WaitingHasCheckpoint
<1>16. QED
  BY <1>7, <1>8, <1>9, <1>10, <1>11, <1>12, <1>13, <1>14, <1>15 DEF AnswerInv

LEMMA AnswerInit == Init => AnswerInv
<1> SUFFICES ASSUME Init PROVE AnswerInv
  OBVIOUS
<1>1. /\ OrphanInv /\ Len(queue) = 0 /\ todo = {}
      /\ pc = [c \in Client |-> IF c = Boot THEN "read" ELSE "idle"]
      /\ subject = [c \in Cancels \cup Responds \cup {Boot} |-> NoTask]
      /\ registered = [t \in Task |-> "none"]
      /\ checkpoint = [t \in Task |-> FALSE]
      /\ status = [t \in Task |-> "absent"]
      /\ reply = [c \in Client |-> "none"]
  BY OrphanInit DEF Init, StoreInit, RuntimeInit
<1>2. /\ \A c \in Runs \cup Starts \cup Responds : pc[c] = "idle" /\ reply[c] = "none"
      /\ \A c \in Cancels \cup Responds \cup {Boot} : subject[c] = NoTask
  <2>1. \A c \in Runs \cup Starts \cup Responds : c \in Client /\ c # Boot
    BY ClientsApart, ClientMembers
  <2>2. QED
    BY <1>1, <2>1
<1>3. \A t \in Task : Run(t) \in Runs /\ Resume(t) \in Runs /\ Start(t) \in Starts
  BY ClientsApart
<1>4. \A t \in Task : /\ registered[t] = "none" /\ ~checkpoint[t] /\ status[t] = "absent"
                      /\ pc[Run(t)] = "idle" /\ pc[Resume(t)] = "idle" /\ pc[Start(t)] = "idle"
  BY <1>1, <1>2, <1>3
<1>5. OpsOK /\ PairsOK
  BY <1>1 DEF OpsOK, PairsOK
<1>6. RunsKnown /\ StartsLogged /\ ResumeRefused
  BY <1>2, <1>3, <1>4 DEF RunsKnown, StartsLogged, ResumeRefused, Opening
<1>7. SubjectsSettled
  BY <1>1, <1>2, <1>4 DEF SubjectsSettled, Told
<1>8. QuestionPut /\ QuestionSaved
  BY <1>2, <1>4 DEF QuestionPut, QuestionSaved
<1>9. SpentOnce /\ WaitingHasCheckpoint
  BY <1>2, <1>4 DEF SpentOnce, Spent, WaitingHasCheckpoint
<1>10. QED
  BY <1>1, <1>5, <1>6, <1>7, <1>8, <1>9 DEF AnswerInv

LEMMA AnswerStep == AnswerInv /\ [Next]_vars => AnswerInv'
<1> SUFFICES ASSUME AnswerInv, [Next]_vars PROVE AnswerInv'
  OBVIOUS
<1>1. OrphanInv'
  BY OrphanStep DEF AnswerInv
<1>2. CASE AllSettled \/ UNCHANGED vars
  <2>1. UNCHANGED vars
    BY <1>2 DEF AllSettled
  <2>2. UNCHANGED <<queue, pc, subject, status, checkpoint, events, decision, registered, todo, reply>>
    BY <2>1 DEF vars, storeVars, runtimeVars, supervisorVars, callVars, bootVars
  <2>3. QueueAside
    BY <2>2, AnswerTypes, Alongside
  <2>4. Aside
    BY <2>2, <2>3 DEF Aside
  <2>5. QED
    BY <1>1, <2>4, AsideKeeps
<1>3. CASE \/ \E c \in Cancels : CancelStep(c)
           \/ \E s \in Stops : StopStep(s)
           \/ \E c \in Callers : CallerCancelled(c)
           \/ BootStep
  <2>1. Aside
    BY <1>3, CancelAside, StopAside, GoneAside, BootAside
  <2>2. QED
    BY <1>1, <2>1, AsideKeeps
<1>4. QED
  BY <1>1, <1>2, <1>3, WriterKeepsAnswers, RunKeepsAnswers, StartKeepsAnswers,
     RespondKeepsAnswers, CrashKeepsAnswers DEF Next

(* A task that waits for input can be answered, whatever its runs, its     *)
(* callers, recovery and a crash do: the checkpoint is saved before the    *)
(* question is announced, and is gone only once the row says "resuming"    *)
(* (runtime.py, _checkpoint_needs_input; store.py, consume_checkpoint).    *)
THEOREM WaitingIsAnswerable == Spec => []WaitingHasCheckpoint
<1>1. AnswerInv => WaitingHasCheckpoint
  BY DEF AnswerInv
<1>2. QED
  BY <1>1, AnswerInit, AnswerStep, PTL DEF Spec

(* Of any number of callers that saw a task waiting, at most one is told   *)
(* its answer was accepted (supervisor.py, respond_to_agent_input).        *)
THEOREM AnswerIsAcceptedOnce == Spec => []OneAnswerAccepted
<1>1. AnswerInv => OneAnswerAccepted
  <2> SUFFICES ASSUME AnswerInv, NEW t \in Task PROVE Cardinality(AcceptedBy(t)) <= 1
    BY DEF OneAnswerAccepted
  <2>1. \A p, q \in AcceptedBy(t) : p = q
    BY DEF AcceptedBy, Spent, AnswerInv, SpentOnce
  <2>2. CASE AcceptedBy(t) = {}
    BY <2>2, FS_EmptySet
  <2>3. CASE AcceptedBy(t) # {}
    <3>1. PICK p \in AcceptedBy(t) : AcceptedBy(t) = {p}
      BY <2>1, <2>3
    <3>2. Cardinality({p}) = 1
      BY FS_Singleton
    <3>3. QED
      BY <3>1, <3>2
  <2>4. QED
    BY <2>2, <2>3
<1>2. QED
  BY <1>1, AnswerInit, AnswerStep, PTL DEF Spec

(* What makes a task active again comes from its own start, while the row  *)
(* is pending, or from an answer: no write that a run, a cancellation or   *)
(* recovery left in the queue revives a task that ended.                   *)
THEOREM EndedTasksStayEnded == Spec => EndedStaysEnded
<1>1. AnswerInv /\ [Next]_vars =>
          [\A t \in Task : status[t] \in TerminalStatus /\ Unanswered(t)
                              => status'[t] \notin ActiveStatus]_vars
  <2> SUFFICES ASSUME AnswerInv, Next, NEW t \in Task,
                      status[t] \in TerminalStatus, Unanswered(t), status'[t] \in ActiveStatus
               PROVE  FALSE
    OBVIOUS
  <2>1. status[t] \notin ActiveStatus \cup {"absent", "pending"} /\ ~Asked(t)
    BY DEF TerminalStatus, ActiveStatus, Unanswered, Asked
  <2>2. WriterTurn
    <3>1. WriterTurn \/ UNCHANGED status
      BY DEF Next, RunStep, ResumeRun, StepRun, StartStep, CancelStep, RespondStep, StopStep,
             CallerCancelled, BootStep, Crash, AllSettled, tables, vars, storeVars
    <3>2. QED
      BY <2>1, <3>1
  <2>3. PICK op \in Op : Apply(op) /\ OpOK(op)
    BY <2>2, WriterHead
  <2>4. \A u \in Task : u # op.task => status'[u] = status[u]
    BY <2>3, Applied DEF Effect
  <2>5. op.task = t
    BY <2>1, <2>4
  <2>6. \/ status[op.task] \in ActiveStatus \cup {"absent"}
        \/ Activates(op) \/ op.kind = "consume"
    BY <2>3, <2>5, Applied DEF Effect
  <2>7. QED
    BY <2>1, <2>3, <2>5, <2>6 DEF OpOK
<1>2. QED
  BY <1>1, AnswerInit, AnswerStep, PTL DEF Spec, EndedStaysEnded

-----------------------------------------------------------------------------
(* The limit of the gate.  A write that makes a row run is queued while    *)
(* the row is still pending, or by the run of an answer, and nothing else  *)
(* is written to the row ahead of it.                                      *)
Admitting == {"admit", "generation", "create"}
Restarted(t) == pc[Resume(t)] # "idle"
Marks(op) == op.kind = "status" /\ op.status \in {"pending", "running"}
Changes(op) == Updates(op) \/ op.kind = "create"
MarkOK(op) ==
    /\ Marks(op) => status[op.task] = "pending" \/ Restarted(op.task)
    /\ op.kind = "create" => op.status \in {"pending", "waiting_resource"}
MarksOK == \A i \in 1 .. Len(queue) : MarkOK(queue[i])
Precedes(a, b) == a.task = b.task /\ Changes(a) /\ Marks(b) => Restarted(b.task)
MarksFirst ==
    \A i, j \in 1 .. Len(queue) : i < j => Precedes(queue[i], queue[j])

(* The active tasks the limit is about, and the starts, let through alone, *)
(* that will add one each.                                                 *)
Counted ==
    {t \in Task : PassedAlone(t) /\ status[t] \in ActiveStatus} \cup (InAdmission \ late)
FewCounted == IsFiniteSet(Counted) /\ Cardinality(Counted) <= Policy.global_max_tasks
FewRows == IsFiniteSet({t \in Task : Row(t)})

LimitInv ==
    /\ AnswerInv
    /\ MarksOK
    /\ MarksFirst
    /\ FewRows
    /\ FewCounted

LEMMA LimitTypes ==
    ASSUME LimitInv
    PROVE  /\ TypeInv /\ queue \in Seq(Op) /\ reply \in [Client -> Reply]
           /\ pc \in [Client -> RunLabel \cup CallLabel \cup BootLabel]
           /\ status \in [Task -> Status \cup {"absent"}]
           /\ decision \in [Task -> {"pending", "waiting_resource"}]
           /\ subject \in [Cancels \cup Responds \cup {Boot} -> Task \cup {NoTask}]
           /\ late \subseteq Task
  BY AnswerTypes DEF LimitInv, TypeInv, TypeOK

(* A subset of few is few. *)
LEMMA Fewer ==
    ASSUME NEW S, IsFiniteSet(S), Cardinality(S) <= Policy.global_max_tasks, NEW T \in SUBSET S
    PROVE  IsFiniteSet(T) /\ Cardinality(T) <= Policy.global_max_tasks
<1>1. IsFiniteSet(T) /\ Cardinality(T) <= Cardinality(S)
  BY FS_Subset
<1>2. Cardinality(T) \in Nat /\ Cardinality(S) \in Nat
  BY <1>1, FS_CardinalityType
<1>3. QED
  BY <1>1, <1>2, PolicyAssumption

(* Who is in admission. *)
Waiting(t) ==
    \/ pc[Start(t)] \in Admitting /\ decision[t] = "pending"
    \/ \E i \in 1 .. Len(queue) : /\ queue[i].kind = "create" /\ queue[i].status = "pending"
                                  /\ queue[i].task = t
LEMMA AdmissionIs ==
    ASSUME TypeInv
    PROVE  InAdmission = {t \in Task : Waiting(t)}
<1>1. queue \in Seq(Op)
  BY DEF TypeInv, TypeOK, StoreTypeOK
<1>2. \A op \in Op : op.task \in Task
  BY DEF Op
<1>3. DOMAIN queue = 1 .. Len(queue) /\ \A i \in 1 .. Len(queue) : queue[i].task \in Task
  BY <1>1, <1>2
<1>4. QED
  BY <1>3 DEF InAdmission, Waiting, Admitting

LEMMA AdmissionBecomes ==
    ASSUME TypeInv'
    PROVE  InAdmission' = {t \in Task : Waiting(t)'}
<1>1. queue' \in Seq(Op)
  BY DEF TypeInv, TypeOK, StoreTypeOK
<1>2. \A op \in Op : op.task \in Task
  BY DEF Op
<1>3. DOMAIN queue' = 1 .. Len(queue') /\ \A i \in 1 .. Len(queue') : queue'[i].task \in Task
  BY <1>1, <1>2
<1>4. QED
  BY <1>3 DEF InAdmission, Waiting, Admitting

(* The queue with other waiters, and one write at most behind it. *)
SameWrites(q, p) ==
    /\ Len(q) = Len(p)
    /\ \A i \in 1 .. Len(p) : /\ q[i].kind = p[i].kind /\ q[i].task = p[i].task
                              /\ q[i].status = p[i].status
Behind(q, op) ==
    Marks(op) => \/ Restarted(op.task)'
                 \/ /\ status'[op.task] = "pending"
                    /\ \A i \in 1 .. Len(q) : ~(q[i].task = op.task /\ Changes(q[i]))

LEMMA MarksStay ==
    ASSUME LimitInv, NEW q \in Seq(Op), SameWrites(q, queue), status' = status,
           \A t \in Task : Restarted(t) => Restarted(t)',
           \/ queue' = q
           \/ \E op \in Op : /\ queue' = Append(q, op) /\ Behind(q, op)
                             /\ op.kind = "create" => op.status \in {"pending", "waiting_resource"}
    PROVE  MarksOK' /\ MarksFirst'
<1> DEFINE n == Len(q)
<1>0. queue \in Seq(Op) /\ \A op \in Op : op.task \in Task
  BY LimitTypes DEF Op
<1>1. /\ n \in Nat /\ n = Len(queue)
      /\ \A i \in 1 .. n : /\ q[i] \in Op /\ queue[i] \in Op /\ q[i].task \in Task
                           /\ q[i].kind = queue[i].kind /\ q[i].task = queue[i].task
                           /\ q[i].status = queue[i].status
  BY <1>0 DEF SameWrites
<1> HIDE DEF n
<1>2. /\ \A i \in 1 .. n : MarkOK(queue[i])
      /\ \A i, j \in 1 .. n : i < j => Precedes(queue[i], queue[j])
  BY <1>1 DEF LimitInv, MarksOK, MarksFirst
<1>3. \A i \in 1 .. n : \A o \in Op : o = q[i] => MarkOK(o)'
  BY <1>1, <1>2 DEF MarkOK, Marks
<1>4. \A i, j \in 1 .. n : \A a, b \in Op :
          i < j /\ a = q[i] /\ b = q[j] => Precedes(a, b)'
  BY <1>1, <1>2 DEF Precedes, Marks, Changes, Updates
<1>5. CASE queue' = q
  <2>1. ASSUME NEW i \in 1 .. n PROVE MarkOK(queue[i])'
    BY <1>1, <1>3, <1>5 DEF MarkOK, Marks
  <2>2. ASSUME NEW i \in 1 .. n, NEW j \in 1 .. n, i < j PROVE Precedes(queue[i], queue[j])'
    BY <1>1, <1>4, <1>5, <2>2 DEF Precedes, Marks, Changes, Updates
  <2>3. QED
    BY <1>5, <2>1, <2>2 DEF MarksOK, MarksFirst, n
<1>6. ASSUME NEW op \in Op, queue' = Append(q, op), Behind(q, op),
             op.kind = "create" => op.status \in {"pending", "waiting_resource"}
      PROVE  MarksOK' /\ MarksFirst'
  <2>1. /\ Len(queue') = n + 1 /\ queue'[n + 1] = op
        /\ \A i \in 1 .. n : queue'[i] = q[i]
        /\ \A i \in 1 .. n + 1 : i \in 1 .. n \/ i = n + 1
    BY <1>6 DEF n
  <2>2. MarkOK(op)'
    BY <1>6 DEF MarkOK, Behind, Marks
  <2>3. ASSUME NEW i \in 1 .. n + 1
        PROVE  \A o \in Op : o = queue'[i] => MarkOK(o)'
    BY <1>3, <2>1, <2>2
  <2>4. ASSUME NEW i \in 1 .. n
        PROVE  \A a \in Op : a = q[i] => Precedes(a, op)'
    BY <1>6, <2>4 DEF Behind, Precedes, Marks, Changes, Updates, n
  <2>5. ASSUME NEW i \in 1 .. n + 1, NEW j \in 1 .. n + 1, i < j
        PROVE  \A a, b \in Op : a = queue'[i] /\ b = queue'[j] => Precedes(a, b)'
    <3>1. i \in 1 .. n
      BY <1>1, <2>1, <2>5
    <3>2. CASE j \in 1 .. n
      BY <1>4, <2>1, <2>5, <3>1, <3>2
    <3>3. CASE j = n + 1
      BY <2>1, <2>4, <3>1, <3>3
    <3>4. QED
      BY <2>1, <3>2, <3>3
  <2>6. \A i \in 1 .. n + 1 : queue'[i] \in Op
    BY <1>1, <1>6, <2>1
  <2>7. MarksOK'
    BY <2>1, <2>3, <2>6 DEF MarksOK, MarkOK, Marks
  <2>8. MarksFirst'
    BY <2>1, <2>5, <2>6 DEF MarksFirst, Precedes, Changes, Updates, Marks
  <2>9. QED
    BY <2>7, <2>8
<1>7. QED
  BY <1>5, <1>6

(* Steps that let no start in and change no status. *)
Beside ==
    /\ UNCHANGED <<status, decision, late>>
    /\ \A t \in Task : /\ pc'[Start(t)] = pc[Start(t)] \/ pc'[Start(t)] \notin Admitting
                       /\ Restarted(t) => Restarted(t)'
    /\ \E q \in Seq(Op) :
          /\ SameWrites(q, queue)
          /\ \/ queue' = q
             \/ \E op \in Op : queue' = Append(q, op) /\ Behind(q, op) /\ op.kind # "create"

LEMMA FewStay ==
    ASSUME LimitInv, TypeInv', UNCHANGED status, late \subseteq late',
           \A t \in Task : /\ Restarted(t) => Restarted(t)'
                           /\ Waiting(t)' => Waiting(t)
    PROVE  FewRows' /\ FewCounted'
<1>1. InAdmission' \subseteq InAdmission
  <2>1. InAdmission = {t \in Task : Waiting(t)}
    BY AdmissionIs, LimitTypes
  <2>2. InAdmission' = {t \in Task : Waiting(t)'}
    BY AdmissionBecomes
  <2>3. QED
    BY <2>1, <2>2
<1>2. Counted' \subseteq Counted
  BY <1>1 DEF Counted, PassedAlone, Restarted
<1>3. FewCounted'
  BY <1>2, Fewer DEF LimitInv, FewCounted
<1>4. FewRows'
  BY DEF LimitInv, FewRows, Row
<1>5. QED
  BY <1>3, <1>4

LEMMA BesideKeeps ==
    ASSUME LimitInv, AnswerInv', Beside
    PROVE  LimitInv'
<1>1. PICK q \in Seq(Op) :
          /\ SameWrites(q, queue)
          /\ \/ queue' = q
             \/ \E op \in Op : queue' = Append(q, op) /\ Behind(q, op) /\ op.kind # "create"
  BY DEF Beside
<1>2. /\ UNCHANGED <<status, decision, late>>
      /\ \A t \in Task : /\ pc'[Start(t)] = pc[Start(t)] \/ pc'[Start(t)] \notin Admitting
                         /\ Restarted(t) => Restarted(t)'
  BY DEF Beside
<1>3. MarksOK' /\ MarksFirst'
  BY <1>1, <1>2, MarksStay
<1>4. ASSUME NEW t \in Task, NEW i \in 1 .. Len(queue'),
             queue'[i].kind = "create", queue'[i].status = "pending", queue'[i].task = t
      PROVE  \E j \in 1 .. Len(queue) : /\ queue[j].kind = "create" /\ queue[j].status = "pending"
                                        /\ queue[j].task = t
  <2>1. CASE queue' = q
    BY <1>1, <1>4, <2>1 DEF SameWrites
  <2>2. ASSUME NEW op \in Op, queue' = Append(q, op), op.kind # "create"
        PROVE  i \in 1 .. Len(q) /\ queue'[i] = q[i]
    BY <1>4, <2>2
  <2>3. QED
    BY <1>1, <1>4, <2>1, <2>2 DEF SameWrites
<1>5. \A t \in Task : Waiting(t)' => Waiting(t)
  BY <1>2, <1>4 DEF Waiting
<1>6. TypeInv' /\ late \subseteq late'
  BY <1>2 DEF AnswerInv, OrphanInv, TopicInv, KeyInv
<1>7. FewRows' /\ FewCounted'
  BY <1>2, <1>5, <1>6, FewStay
<1>8. QED
  BY <1>3, <1>7 DEF LimitInv

(* The steps of runs, cancellations, stops, recovery and answers. *)
LEMMA RunBeside ==
    ASSUME LimitInv, NEW r \in Runs, RunStep(r)
    PROVE  Beside
<1>1. RunActs(r) /\ UNCHANGED <<status, decision, late>>
  BY RunSteppedActs DEF LimitInv, RunStep, ResumeRun, StepRun, tables, supervisorVars, callVars
<1>2. /\ queue \in Seq(Op)
      /\ \A t \in Task : /\ Start(t) \in Client /\ Start(t) # r
                         /\ Resume(t) \in Client
  BY LimitTypes, ClientsApart
<1>3. /\ \A t \in Task : pc'[Start(t)] = pc[Start(t)]
      /\ \A t \in Task : Restarted(t) => Restarted(t)'
  BY <1>1, <1>2 DEF RunActs, Restarted
<1>4. SameWrites(queue, queue)
  BY DEF SameWrites
<1>5. \/ queue' = queue
      \/ \E op \in Op : queue' = Append(queue, op) /\ Behind(queue, op) /\ op.kind # "create"
  BY <1>1 DEF RunActs, RunQueues1, Behind, Marks
<1>6. QED
  BY <1>1, <1>2, <1>3, <1>4, <1>5 DEF Beside

LEMMA AsideBeside ==
    ASSUME LimitInv, Aside, late' = late
    PROVE  Beside
<1>1. /\ UNCHANGED <<status, decision, late>>
      /\ \A r \in Runs : pc'[r] = pc[r]
      /\ \A c \in Starts : pc'[c] = pc[c] \/ pc'[c] = "gone"
      /\ QueueAside
  BY DEF Aside
<1>2. \A t \in Task : Resume(t) \in Runs /\ Start(t) \in Starts
  BY ClientsApart
<1>3. PICK q \in Seq(Op) :
          /\ Len(q) = Len(queue)
          /\ \A i \in 1 .. Len(queue) : Handed(queue[i], q[i])
          /\ queue' = q \/ \E op \in Op : SideOp(op) /\ queue' = Append(q, op)
  BY <1>1 DEF QueueAside
<1>4. SameWrites(q, queue)
  BY <1>3 DEF SameWrites, Handed
<1>5. \A op \in Op : SideOp(op) => Behind(q, op) /\ op.kind # "create"
  BY DEF SideOp, Behind, Marks
<1>6. QED
  BY <1>1, <1>2, <1>3, <1>4, <1>5 DEF Beside, Restarted, Admitting

LEMMA RespondBeside ==
    ASSUME LimitInv, NEW p \in Responds, RespondStep(p)
    PROVE  Beside
<1>1. /\ RespondActs(p) /\ UNCHANGED <<status, decision, late>>
  BY RespondSteppedActs DEF LimitInv, RespondStep, tables
<1>2. /\ queue \in Seq(Op) /\ pc \in [Client -> RunLabel \cup CallLabel \cup BootLabel]
      /\ p \in Client
      /\ \A t \in Task : /\ Resume(t) \in Client /\ Resume(t) # p
                         /\ Resume(t) = <<"resume", t>>
  BY LimitTypes, ClientsApart DEF Resume
<1>3. \A t \in Task : pc'[Start(t)] = pc[Start(t)]
  BY <1>1, RespondShape DEF LimitInv
<1>4. RespondReads(p) \/ RespondGoes(p) \/ RespondSpawns(p)
  BY <1>1 DEF RespondActs
<1>5. SameWrites(queue, queue)
  BY DEF SameWrites
<1>6. CASE RespondReads(p) \/ RespondGoes(p)
  <2>1. \E l : pc' = [pc EXCEPT ![p] = l]
    BY <1>6 DEF RespondReads, RespondGoes
  <2>2. \A t \in Task : Restarted(t) => Restarted(t)'
    BY <1>2, <2>1 DEF Restarted
  <2>3. \/ queue' = queue
        \/ \E op \in Op : queue' = Append(queue, op) /\ Behind(queue, op) /\ op.kind # "create"
    BY <1>6 DEF RespondReads, RespondGoes, Behind, Marks
  <2>4. QED
    BY <1>1, <1>2, <1>3, <1>5, <2>2, <2>3 DEF Beside
<1>7. CASE RespondSpawns(p)
  <2>1. /\ subject[p] \in Task
        /\ pc' = [pc EXCEPT ![p] = "returned", ![Resume(subject[p])] = "running"]
    BY <1>7 DEF RespondSpawns
  <2>2. \A t \in Task : Restarted(t) => Restarted(t)'
    BY <1>2, <2>1 DEF Restarted
  <2>3. Restarted(subject[p])'
    <3>1. subject'[p] = subject[p]
      BY <1>7 DEF RespondSpawns
    <3>2. pc'[Resume(subject[p])] = "running"
      BY <1>2, <2>1
    <3>3. QED
      BY <3>1, <3>2 DEF Restarted
  <2>4. PICK op \in Op : /\ queue' = Append(queue, op) /\ op.task = subject[p]
                         /\ op.kind = "status"
    BY <1>7 DEF RespondSpawns
  <2>5. Behind(queue, op)
    BY <1>2, <2>1, <2>4 DEF Behind, Restarted
  <2>6. QED
    BY <1>1, <1>2, <1>3, <1>5, <2>2, <2>4, <2>5 DEF Beside
<1>8. QED
  BY <1>4, <1>6, <1>7

-----------------------------------------------------------------------------
(* A step of the start t: at the gate, or with a decision already taken. *)
LEMMA StartGoesOn ==
    ASSUME AnswerInv, NEW t \in Task, StartStep(t)
    PROVE  \/ PassGate(t)
           \/ /\ UNCHANGED <<decision, late>>
              /\ pc'[Start(t)] \in Admitting => pc[Start(t)] \in Admitting
<1>1. pc \in [Client -> RunLabel \cup CallLabel \cup BootLabel] /\ Start(t) \in Client /\ Run(t) # Start(t)
  BY AnswerTypes, ClientsApart
<1>2. CASE StartCall(t) \/ ReadReplaced(t) \/ ReadKey(t) \/ Reread(t) \/ RowRefused(t)
  <2>1. \E l : pc' = [pc EXCEPT ![Start(t)] = l] /\ l \notin Admitting
    BY <1>2 DEF StartCall, ReadReplaced, ReadKey, ReturnHandle, Reread, RowRefused, Goto, Admitting
  <2>2. UNCHANGED <<decision, late>>
    BY <1>2 DEF StartCall, ReadReplaced, ReadKey, ReturnHandle, Reread, RowRefused
  <2>3. QED
    BY <1>1, <2>1, <2>2
<1>3. CASE Admit(t) \/ GenerationAllotted(t)
  BY <1>3 DEF Admit, GenerationAllotted, Wake, Admitting
<1>4. CASE RowCreated(t)
  <2>1. UNCHANGED <<decision, late>> /\ pc[Start(t)] \in Admitting
    BY <1>4 DEF RowCreated, Wake, Admitting
  <2>2. QED
    BY <2>1
<1>5. QED
  BY <1>2, <1>3, <1>4 DEF StartStep, StartSteps, StartResumes

LEMMA StartMarks ==
    ASSUME LimitInv, NEW t \in Task, StartStep(t)
    PROVE  MarksOK' /\ MarksFirst'
<1>1. /\ StartActs(t) /\ queue \in Seq(Op) /\ OpsOK /\ SubjectsSettled
      /\ \A u \in Task : /\ Resume(u) \in Client /\ Resume(u) # Start(t) /\ Resume(u) # Run(t)
                         /\ Run(t) # Start(t)
      /\ Start(t) \in Client /\ Run(t) \in Client
  BY StartSteppedActs, LimitTypes, ClientsApart DEF LimitInv, AnswerInv
<1>2. /\ UNCHANGED status
      /\ \A u \in Task : Restarted(u) => Restarted(u)'
      /\ \A i \in 1 .. Len(queue) : queue[i].by # Start(t)
      /\ decision'[t] \in {"pending", "waiting_resource"}
  BY <1>1 DEF StartActs, Restarted
<1>3. SameWrites(queue, queue)
  BY DEF SameWrites
<1>4. CASE StartQueues1(t)
  <2>1. \A op \in Op : Marks(op) => op.kind = "status"
    BY DEF Marks
  <2>2. \/ queue' = queue
        \/ \E op \in Op : /\ queue' = Append(queue, op) /\ Behind(queue, op)
                          /\ op.kind = "create" => op.status \in {"pending", "waiting_resource"}
    BY <1>2, <1>4, <2>1 DEF StartQueues1, Behind
  <2>3. QED
    BY <1>1, <1>2, <1>3, <2>2, MarksStay
<1>5. CASE StartSpawns(t)
  <2>1. PICK op \in Op : /\ queue' = Append(queue, op) /\ op.task = t
                         /\ op.kind = "status" /\ op.status = "running"
    BY <1>5 DEF StartSpawns
  <2>2. Told(t) /\ decision[t] = "pending"
    BY <1>5 DEF StartSpawns
  <2>3. status[t] = "pending"
    BY <1>1, <2>2 DEF SubjectsSettled
  <2>4. ASSUME NEW i \in 1 .. Len(queue), queue[i].task = t PROVE ~Changes(queue[i])
    <3>1. OpOK(queue[i]) /\ queue[i].by # Start(t)
      BY <1>1, <1>2 DEF OpsOK
    <3>2. ~Settled(t) /\ pc[Start(t)] = "create"
      BY <2>2 DEF Settled, Told
    <3>3. QED
      BY <2>4, <3>1, <3>2 DEF OpOK, Changes
  <2>5. Behind(queue, op)
    BY <1>2, <2>1, <2>3, <2>4 DEF Behind
  <2>6. QED
    BY <1>1, <1>2, <1>3, <2>1, <2>5, MarksStay
<1>6. QED
  BY <1>1, <1>4, <1>5 DEF StartActs

(* Behind the gate. *)
LEMMA StartAdmitted ==
    ASSUME LimitInv, AnswerInv', NEW t \in Task, StartStep(t), ~PassGate(t)
    PROVE  FewRows' /\ FewCounted'
<1>1. /\ StartActs(t) /\ queue \in Seq(Op) /\ TypeInv'
      /\ UNCHANGED <<decision, late>>
      /\ pc'[Start(t)] \in Admitting => pc[Start(t)] \in Admitting
  BY StartSteppedActs, LimitTypes, StartGoesOn
     DEF LimitInv, AnswerInv, OrphanInv, TopicInv, KeyInv
<1>2. /\ UNCHANGED status
      /\ \A c \in Client : c # Start(t) /\ c # Run(t) => pc'[c] = pc[c]
      /\ StartQueues1(t) \/ StartSpawns(t)
  BY <1>1 DEF StartActs
<1>3. \A u \in Task : /\ Start(u) \in Client /\ Start(u) # Run(t)
                      /\ u # t => Start(u) # Start(t)
                      /\ Resume(u) \in Client /\ Resume(u) # Start(t) /\ Resume(u) # Run(t)
  BY ClientsApart
<1>4. StartWaits'
  BY DEF AnswerInv, OrphanInv, TopicInv, KeyInv
<1>5. ASSUME NEW op \in Op, queue' = Append(queue, op), op.kind = "create", op.status = "pending"
      PROVE  op.task = t /\ pc[Start(t)] \in Admitting /\ decision[t] = "pending"
  <2>1. Len(queue') = Len(queue) + 1 /\ queue'[Len(queue) + 1] = op /\ Len(queue) + 1 \in 1 .. Len(queue')
    BY <1>1, <1>5
  <2>2. CASE StartQueues1(t)
    <3>1. op.by = Start(t) /\ op.task = t /\ op.status = decision'[t]
      <4>1. queue' # queue
        BY <1>1, <2>1
      <4>2. PICK o \in Op : /\ queue' = Append(queue, o)
                            /\ o.by = Start(t) /\ o.task = t
                            /\ \/ o.kind = "generation"
                               \/ o.kind = "create" /\ o.status = decision'[t]
        BY <2>2, <4>1 DEF StartQueues1
      <4>3. queue'[Len(queue) + 1] = o
        BY <1>1, <4>2
      <4>4. QED
        BY <1>5, <2>1, <4>2, <4>3
    <3>2. pc'[Start(t)] = "create"
      BY <1>4, <1>5, <2>1, <3>1 DEF StartWaits
    <3>3. QED
      BY <1>1, <1>5, <3>1, <3>2 DEF Admitting
  <2>3. CASE StartSpawns(t)
    <3>1. PICK o \in Op : queue' = Append(queue, o) /\ o.kind = "status"
      BY <2>3 DEF StartSpawns
    <3>2. queue'[Len(queue) + 1] = o
      BY <1>1, <3>1
    <3>3. QED
      BY <1>5, <2>1, <3>1, <3>2
  <2>4. QED
    BY <1>2, <2>2, <2>3
<1>6. queue' = queue \/ \E op \in Op : queue' = Append(queue, op)
  BY <1>2 DEF StartQueues1, StartSpawns
<1>7. ASSUME NEW u \in Task, Waiting(u)' PROVE Waiting(u)
  <2>1. CASE pc'[Start(u)] \in Admitting /\ decision'[u] = "pending"
    BY <1>1, <1>2, <1>3, <2>1 DEF Waiting
  <2>2. ASSUME NEW i \in 1 .. Len(queue'), queue'[i].kind = "create", queue'[i].status = "pending",
               queue'[i].task = u
        PROVE  Waiting(u)
    <3>1. CASE i \in 1 .. Len(queue) /\ queue'[i] = queue[i]
      BY <2>2, <3>1 DEF Waiting
    <3>2. CASE ~(i \in 1 .. Len(queue) /\ queue'[i] = queue[i])
      <4>1. PICK op \in Op : queue' = Append(queue, op)
        BY <1>6, <2>2, <3>2
      <4>2. queue'[i] = op
        BY <1>1, <2>2, <3>2, <4>1
      <4>3. QED
        BY <1>5, <2>2, <4>1, <4>2 DEF Waiting
    <3>3. QED
      BY <3>1, <3>2
  <2>3. QED
    BY <1>7, <2>1, <2>2 DEF Waiting
<1>8. \A u \in Task : Restarted(u) => Restarted(u)'
  BY <1>2, <1>3 DEF Restarted
<1>9. QED
  BY <1>1, <1>2, <1>7, <1>8, FewStay

(* At the gate: a start that finds nobody in admission adds one to the     *)
(* active tasks the gate has just counted; any other is late.              *)
LEMMA GateKeepsLimit ==
    ASSUME LimitInv, AnswerInv', NEW t \in Task, PassGate(t), StartStep(t)
    PROVE  FewRows' /\ FewCounted'
<1>1. /\ UNCHANGED <<status, queue>> /\ pc[Start(t)] = "gate"
      /\ queue \in Seq(Op) /\ TypeInv' /\ TypeInv
      /\ pc \in [Client -> RunLabel \cup CallLabel \cup BootLabel]
      /\ decision \in [Task -> {"pending", "waiting_resource"}] /\ late \subseteq Task
  BY LimitTypes DEF PassGate, StartStep, tables, AnswerInv, OrphanInv, TopicInv, KeyInv
<1>2. \A u \in Task : /\ Start(u) \in Client
                      /\ u # t => Start(u) # Start(t)
                      /\ Resume(u) \in Client /\ Resume(u) # Start(t)
  BY ClientsApart
<1>3. \/ HasRoom(t) /\ Decide(t, "pending")
      \/ Decide(t, "waiting_resource")
      \/ Goto(Start(t), "rejected") /\ UNCHANGED <<decision, late>>
  BY DEF PassGate
<1>4. /\ \A u \in Task : Restarted(u) => Restarted(u)'
      /\ \A u \in Task : u # t => pc'[Start(u)] = pc[Start(u)] /\ decision'[u] = decision[u]
      /\ late \subseteq late'
  BY <1>1, <1>2, <1>3 DEF Restarted, Decide, Goto
<1>5. CASE HasRoom(t) /\ Decide(t, "pending") /\ InAdmission = {}
  <2> DEFINE A == {u \in Task : status[u] \in ActiveStatus}
  <2>1. IsFiniteSet(A)
    <3>1. A \subseteq {u \in Task : Row(u)}
      BY DEF Row, ActiveStatus
    <3>2. QED
      BY <3>1, FS_Subset DEF LimitInv, FewRows
  <2>2. Cardinality(A) < Policy.global_max_tasks /\ Cardinality(A) \in Nat
    BY <1>5, <2>1, FS_CardinalityType DEF HasRoom, Active
  <2>3. IsFiniteSet(A \cup {t}) /\ Cardinality(A \cup {t}) <= Policy.global_max_tasks
    <3>1. /\ IsFiniteSet(A \cup {t})
          /\ Cardinality(A \cup {t}) = Cardinality(A) \/ Cardinality(A \cup {t}) = Cardinality(A) + 1
      BY <2>1, FS_AddElement
    <3>2. QED
      BY <2>2, <3>1, PolicyAssumption
  <2>4. \A u \in Task : Waiting(u)' => u = t
    <3>1. \A u \in Task : ~Waiting(u)
      BY <1>1, <1>5, AdmissionIs
    <3>2. QED
      BY <1>1, <1>4, <3>1 DEF Waiting
  <2>5. InAdmission' = {u \in Task : Waiting(u)'}
    BY <1>1, AdmissionBecomes
  <2>6. Counted' \subseteq A \cup {t}
    BY <1>1, <2>4, <2>5 DEF Counted
  <2> HIDE DEF A
  <2>7. FewCounted'
    BY <2>3, <2>6, Fewer DEF FewCounted
  <2>8. QED
    BY <1>1, <2>7 DEF LimitInv, FewRows, Row
<1>6. CASE ~(HasRoom(t) /\ Decide(t, "pending") /\ InAdmission = {})
  <2>1. \A u \in Task : u \notin late' /\ Waiting(u)' => u \notin late /\ Waiting(u)
    <3>1. ASSUME NEW u \in Task, u \notin late', Waiting(u)' PROVE Waiting(u)
      <4>1. CASE u # t
        BY <1>1, <1>4, <3>1, <4>1 DEF Waiting
      <4>2. CASE u = t
        <5>1. \E i \in 1 .. Len(queue') : /\ queue'[i].kind = "create" /\ queue'[i].status = "pending"
                                          /\ queue'[i].task = u
          <6>1. CASE Goto(Start(t), "rejected")
            BY <1>1, <1>2, <3>1, <4>2, <6>1 DEF Waiting, Goto, Admitting
          <6>2. CASE Decide(t, "waiting_resource")
            BY <1>1, <3>1, <4>2, <6>2 DEF Waiting, Decide
          <6>3. CASE Decide(t, "pending")
            BY <1>1, <1>3, <1>6, <3>1, <4>2, <6>1, <6>2, <6>3 DEF Decide
          <6>4. QED
            BY <1>3, <6>1, <6>2, <6>3
        <5>2. QED
          BY <1>1, <5>1 DEF Waiting
      <4>3. QED
        BY <4>1, <4>2
    <3>2. QED
      BY <1>4, <3>1
  <2>2. InAdmission = {u \in Task : Waiting(u)}
    BY <1>1, AdmissionIs
  <2>3. InAdmission' = {u \in Task : Waiting(u)'}
    BY <1>1, AdmissionBecomes
  <2>4. InAdmission' \ late' \subseteq InAdmission \ late
    BY <2>1, <2>2, <2>3
  <2>5. Counted' \subseteq Counted
    BY <1>1, <1>4, <2>4 DEF Counted, PassedAlone, Restarted
  <2>6. FewCounted'
    BY <2>5, Fewer DEF LimitInv, FewCounted
  <2>7. QED
    BY <1>1, <2>6 DEF LimitInv, FewRows, Row
<1>7. QED
  BY <1>5, <1>6

LEMMA StartKeepsLimit ==
    ASSUME LimitInv, AnswerInv', NEW t \in Task, StartStep(t)
    PROVE  LimitInv'
<1>1. MarksOK' /\ MarksFirst'
  BY StartMarks
<1>2. FewRows' /\ FewCounted'
  BY StartAdmitted, GateKeepsLimit
<1>3. QED
  BY <1>1, <1>2 DEF LimitInv

-----------------------------------------------------------------------------
(* The writer: a row becomes pending or running by its insert, which takes *)
(* the start's place among the counted, or by a write that makes it run.   *)
LEMMA MarkedBy ==
    ASSUME AnswerInv, NEW op \in Op, Apply(op)
    PROVE  status'[op.task] \in ActiveStatus =>
               \/ status'[op.task] = status[op.task] \/ status'[op.task] = "resuming"
               \/ Marks(op)
               \/ op.kind = "create" /\ op.status = status'[op.task]
<1> DEFINE u == op.task
<1>1. status \in [Task -> Status \cup {"absent"}] /\ u \in Task
  BY AnswerTypes DEF Op
<1>2. \A s : /\ Marked(u, s)[u] = s \/ Marked(u, s)[u] = status[u]
             /\ status' = [status EXCEPT ![u] = s] => status'[u] = s
  BY <1>1 DEF Marked
<1>3. CASE InsertTask(op)
  BY <1>2, <1>3 DEF InsertTask
<1>4. CASE UpdateStatus(op)
  BY <1>2, <1>4 DEF UpdateStatus, Marks, ActiveStatus
<1>5. CASE AppendEvent(op)
  <2>1. EventStatus(op.type, status[u]) \in {"completed", "failed", "cancelled", "waiting_input", status[u]}
    BY DEF EventStatus
  <2>2. QED
    BY <1>2, <1>5, <2>1 DEF AppendEvent, ActiveStatus
<1>6. CASE SaveCheckpoint(op)
  BY <1>2, <1>6 DEF SaveCheckpoint, ActiveStatus
<1>7. CASE ConsumeCheckpoint(op)
  BY <1>2, <1>7 DEF ConsumeCheckpoint
<1>8. CASE \/ RefuseDuplicate(op) \/ RefuseEvent(op) \/ MissCheckpoint(op)
           \/ NextGeneration(op) \/ StopTopicPrefix(op) \/ LifecycleLog(op)
  BY <1>8 DEF RefuseDuplicate, RefuseEvent, MissCheckpoint, NextGeneration, StopTopicPrefix,
              LifecycleLog, tables
<1>9. QED
  BY <1>3, <1>4, <1>5, <1>6, <1>7, <1>8 DEF Apply

LEMMA WriterKeepsLimit ==
    ASSUME LimitInv, AnswerInv', WriterTurn
    PROVE  LimitInv'
<1> DEFINE rest == Tail(queue)
<1>0. PICK op : op = Head(queue)
  OBVIOUS
<1>1. /\ op \in Op /\ Apply(op) /\ op.task \in Task
      /\ rest \in Seq(Op) /\ queue' = rest
      /\ UNCHANGED <<pc, subject, decision, registered, todo>>
  BY <1>0, WriterHead DEF LimitInv
<1>2. /\ \A t \in Task : t # op.task => status'[t] = status[t]
      /\ ~Changes(op) => status' = status
      /\ status'[op.task] \in ActiveStatus =>
            \/ status'[op.task] = status[op.task] \/ status'[op.task] = "resuming"
            \/ Marks(op)
            \/ op.kind = "create" /\ op.status = status'[op.task]
  BY <1>1, Applied, MarkedBy DEF LimitInv, Effect, Changes
<1>3. /\ queue \in Seq(Op) /\ queue # <<>> /\ late' = late /\ TypeInv /\ TypeInv'
      /\ \A o \in Op : o.task \in Task
  BY LimitTypes DEF WriterTurn, WriterStep, supervisorVars, AnswerInv, OrphanInv, TopicInv, KeyInv, Op
<1>4. /\ Len(queue) \in Nat /\ Len(queue) >= 1 /\ op = queue[1] /\ Len(rest) = Len(queue) - 1
      /\ \A i \in 1 .. Len(rest) : rest[i] = queue[i + 1] /\ i + 1 \in 1 .. Len(queue) /\ rest[i] \in Op
  BY <1>0, <1>3
<1>5. /\ MarkOK(op)
      /\ \A i \in 1 .. Len(rest) : MarkOK(rest[i]) /\ Precedes(op, rest[i])
      /\ \A i, j \in 1 .. Len(rest) : i < j => Precedes(rest[i], rest[j])
  <2>1. /\ \A i \in 1 .. Len(queue) : MarkOK(queue[i])
        /\ \A i, j \in 1 .. Len(queue) : i < j => Precedes(queue[i], queue[j])
    BY DEF LimitInv, MarksOK, MarksFirst
  <2>2. /\ 1 \in 1 .. Len(queue)
        /\ \A i \in 1 .. Len(rest) : 1 < i + 1
        /\ \A i, j \in 1 .. Len(rest) : i < j => i + 1 < j + 1
    BY <1>4
  <2>3. MarkOK(queue[1])
    BY <2>1, <2>2
  <2>4. ASSUME NEW i \in 1 .. Len(rest)
        PROVE  MarkOK(queue[i + 1]) /\ Precedes(queue[1], queue[i + 1])
    BY <1>4, <2>1, <2>2
  <2>5. ASSUME NEW i \in 1 .. Len(rest), NEW j \in 1 .. Len(rest), i < j
        PROVE  Precedes(queue[i + 1], queue[j + 1])
    BY <1>4, <2>1, <2>2, <2>5
  <2>6. QED
    BY <1>4, <2>3, <2>4, <2>5
<1> HIDE DEF rest
<1>6. \A t \in Task : Restarted(t)' <=> Restarted(t)
  BY <1>1 DEF Restarted
<1>7. ASSUME NEW o \in Op, MarkOK(o), Precedes(op, o) PROVE MarkOK(o)'
  <2>1. o.task # op.task => status'[o.task] = status[o.task]
    BY <1>2, <1>3
  <2>2. o.task = op.task /\ Marks(o) => Restarted(o.task) \/ status' = status
    BY <1>2, <1>7 DEF Precedes
  <2>3. QED
    BY <1>3, <1>6, <1>7, <2>1, <2>2 DEF MarkOK, Marks
<1>8. MarksOK'
  <2>1. ASSUME NEW i \in 1 .. Len(rest) PROVE \A o \in Op : o = rest[i] => MarkOK(o)'
    BY <1>5, <1>7
  <2>2. QED
    BY <1>1, <1>4, <2>1 DEF MarksOK, MarkOK, Marks
<1>9. MarksFirst'
  <2>1. \A i, j \in 1 .. Len(rest) :
            i < j /\ rest[i].task = rest[j].task /\ Changes(rest[i]) /\ Marks(rest[j])
                => pc'[Resume(rest[j].task)] # "idle"
    BY <1>1, <1>5 DEF Precedes, Restarted
  <2>2. QED
    BY <1>1, <2>1 DEF MarksFirst, Precedes, Restarted, Marks, Changes, Updates
<1>10. FewRows'
  <2>1. {t \in Task : Row(t)}' \subseteq {t \in Task : Row(t)} \cup {op.task}
    BY <1>2 DEF Row
  <2>2. IsFiniteSet({t \in Task : Row(t)} \cup {op.task})
    BY FS_AddElement DEF LimitInv, FewRows
  <2>3. QED
    BY <2>1, <2>2, FS_Subset DEF FewRows
<1>11. \A t \in Task : Waiting(t)' => Waiting(t)
  BY <1>1, <1>4 DEF Waiting
<1>12. InAdmission = {t \in Task : Waiting(t)} /\ InAdmission' = {t \in Task : Waiting(t)'}
  BY <1>3, AdmissionIs, AdmissionBecomes
<1>13. ASSUME NEW t \in Task, PassedAlone(t)', status'[t] \in ActiveStatus PROVE t \in Counted
  <2>1. t \notin late /\ ~Restarted(t) /\ status'[t] # "resuming"
    BY <1>3, <1>6, <1>13 DEF PassedAlone, Restarted
  <2>2. CASE status'[t] = status[t]
    BY <1>13, <2>1, <2>2 DEF Counted, PassedAlone, Restarted
  <2>3. CASE status'[t] # status[t] /\ Marks(op)
    <3>1. t = op.task /\ status[t] = "pending"
      BY <1>2, <1>5, <2>1, <2>3 DEF MarkOK
    <3>2. QED
      BY <2>1, <3>1 DEF Counted, PassedAlone, Restarted, ActiveStatus
  <2>4. CASE status'[t] # status[t] /\ ~Marks(op)
    <3>1. t = op.task /\ op.kind = "create" /\ op.status = status'[t]
      BY <1>2, <1>13, <2>1, <2>4
    <3>2. op.status = "pending"
      BY <1>5, <1>13, <3>1 DEF MarkOK, ActiveStatus
    <3>3. Waiting(t)
      BY <1>4, <3>1, <3>2 DEF Waiting
    <3>4. QED
      BY <1>12, <2>1, <3>3 DEF Counted
  <2>5. QED
    BY <2>2, <2>3, <2>4
<1>14. Counted' \subseteq Counted
  BY <1>3, <1>11, <1>12, <1>13 DEF Counted
<1>15. FewCounted'
  BY <1>14, Fewer DEF LimitInv, FewCounted
<1>16. QED
  BY <1>8, <1>9, <1>10, <1>15 DEF LimitInv

LEMMA CrashKeepsLimit ==
    ASSUME LimitInv, AnswerInv', Crash
    PROVE  LimitInv'
<1>1. /\ UNCHANGED <<status, decision, late>> /\ queue' = <<>> /\ TypeInv'
  BY DEF Crash, tables, callVars, AnswerInv, OrphanInv, TopicInv, KeyInv
<1>2. \A t \in Task : /\ pc'[Start(t)] \in {pc[Start(t)], "gone"} /\ pc'[Start(t)] \notin Admitting
                      /\ pc'[Resume(t)] = IF pc[Resume(t)] = "idle" THEN "idle" ELSE "ended"
  <2>1. \A t \in Task : /\ Start(t) \in Client /\ Start(t) # Boot /\ Start(t) \notin Runs
                        /\ Resume(t) \in Client /\ Resume(t) # Boot /\ Resume(t) \in Runs
    BY ClientsApart, ClientMembers
  <2>2. QED
    BY <2>1 DEF Crash, EndLabel, Admitting
<1>3. \A t \in Task : (Restarted(t) => Restarted(t)') /\ ~Waiting(t)'
  BY <1>1, <1>2 DEF Restarted, Waiting
<1>4. FewRows' /\ FewCounted'
  BY <1>1, <1>3, FewStay
<1>5. MarksOK' /\ MarksFirst'
  BY <1>1 DEF MarksOK, MarksFirst
<1>6. QED
  BY <1>4, <1>5 DEF LimitInv

LEMMA LimitInit == Init => LimitInv
<1> SUFFICES ASSUME Init PROVE LimitInv
  OBVIOUS
<1>1. /\ AnswerInv /\ Len(queue) = 0
      /\ status = [t \in Task |-> "absent"]
      /\ \A t \in Task : pc[Start(t)] = "idle"
  <2>1. \A t \in Task : Start(t) \in Client /\ Start(t) # Boot
    BY ClientsApart, ClientMembers
  <2>2. QED
    BY <2>1, AnswerInit DEF Init, StoreInit
<1>2. \A t \in Task : ~Waiting(t)
  BY <1>1 DEF Waiting, Admitting
<1>3. InAdmission = {}
  BY <1>1, <1>2, AdmissionIs, AnswerTypes
<1>4. Counted = {} /\ {t \in Task : Row(t)} = {}
  BY <1>1, <1>3 DEF Counted, Row, ActiveStatus
<1>5. FewRows /\ FewCounted
  BY <1>4, FS_EmptySet, PolicyAssumption DEF FewRows, FewCounted
<1>6. MarksOK /\ MarksFirst
  BY <1>1 DEF MarksOK, MarksFirst
<1>7. QED
  BY <1>1, <1>5, <1>6 DEF LimitInv

LEMMA LimitStep == LimitInv /\ [Next]_vars => LimitInv'
<1> SUFFICES ASSUME LimitInv, [Next]_vars PROVE LimitInv'
  OBVIOUS
<1>1. AnswerInv /\ AnswerInv'
  BY AnswerStep DEF LimitInv
<1>2. CASE \/ \E c \in Cancels : CancelStep(c)
           \/ \E s \in Stops : StopStep(s)
           \/ \E c \in Callers : CallerCancelled(c)
           \/ BootStep
  <2>1. Aside
    BY <1>1, <1>2, CancelAside, StopAside, GoneAside, BootAside
  <2>2. late' = late
    BY <1>2 DEF CancelStep, StopStep, CallerCancelled, BootStep, supervisorVars
  <2>3. QED
    BY <1>1, <2>1, <2>2, AsideBeside, BesideKeeps
<1>3. CASE \/ \E r \in Runs : RunStep(r)
           \/ \E p \in Responds : RespondStep(p)
  BY <1>1, <1>3, RunBeside, RespondBeside, BesideKeeps
<1>4. CASE AllSettled \/ UNCHANGED vars
  <2>1. UNCHANGED <<queue, pc, status, decision, late>>
    BY <1>4 DEF AllSettled, vars, storeVars, runtimeVars, supervisorVars, callVars
  <2>2. queue \in Seq(Op) /\ SameWrites(queue, queue)
    BY LimitTypes DEF SameWrites
  <2>3. Beside
    BY <2>1, <2>2 DEF Beside, Restarted
  <2>4. QED
    BY <1>1, <2>3, BesideKeeps
<1>5. QED
  BY <1>1, <1>2, <1>3, <1>4, WriterKeepsLimit, StartKeepsLimit, CrashKeepsLimit DEF Next

(* The gate reads the count and the row is inserted several awaits later   *)
(* (policy.py; supervisor.py, start_agent_task).  For any number of tasks, *)
(* callers, answers and crashes, those it let through with nobody else in  *)
(* admission never exceed global_max_tasks.                                *)
THEOREM LimitIsKept == Spec => []LimitHoldsWithoutRaces
<1>1. LimitInv => LimitHoldsWithoutRaces
  <2> SUFFICES ASSUME LimitInv PROVE LimitHoldsWithoutRaces
    OBVIOUS
  <2> DEFINE A == {t \in {u \in Task : PassedAlone(u)} : status[t] \in ActiveStatus}
  <2>1. A \in SUBSET Counted
    BY DEF Counted
  <2>2. Cardinality(A) <= Policy.global_max_tasks
    BY <2>1, Fewer DEF LimitInv, FewCounted
  <2>3. QED
    BY <2>2 DEF LimitHoldsWithoutRaces, Active
<1>2. QED
  BY <1>1, LimitInit, LimitStep, PTL DEF Spec

-----------------------------------------------------------------------------
(* One report of a task's end, while nobody cancels.  What is written to a *)
(* task while its run is under way is written by the run itself, so the    *)
(* row it looks at before it reports still says what its agent reported;   *)
(* unless the agent reported a spent budget, which leaves the row open.    *)
Uninterrupted ==
    /\ Canceller = {} /\ tokenSet = {}
    /\ \A r \in Runs : reply[r] # "cancelled"
OwnWrite(op) ==
    Updates(op) /\ pc[Run(op.task)] \notin Closing \cup {"idle"} => op.by = Run(op.task)
EmitWrite(op) == op.by \in Runs /\ pc[op.by] = "agent_emit" => op.type = emitting[op.by]
OwnWrites == \A i \in 1 .. Len(queue) : OwnWrite(queue[i]) /\ EmitWrite(queue[i])

AgentReported(r) ==
    /\ pc[r] = "agent_push" \/ (pc[r] = "agent_emit" /\ reply[r] = "ok")
    /\ emitting[r] \in TerminalStatus
BudgetTold(t) == reports[t] = <<"budget_exhausted">> /\ outcome[Run(t)] = "done"
AgentOutcome(r) ==
    /\ outcome[r] \in {"done", "failed"} /\ emitting[r] \in ResultType
    /\ emitting[r] = "budget_exhausted" => outcome[r] = "done"
ToldOnce(s) == Len(s) <= 1 \/ s = <<"budget_exhausted", "completed">>
Reported(t) ==
    /\ ToldOnce(reports[t])
    /\ pc[Run(t)] \notin {"terminal_check", "report", "closing", "push", "ended"}
          => reports[t] = <<>>
    /\ pc[Run(t)] = "terminal_check"
          => reports[t] = <<>> \/ BudgetTold(t) \/ status[t] \in TerminalStatus
    /\ pc[Run(t)] = "report" => reports[t] = <<>> \/ BudgetTold(t)
    /\ pc[Run(t)] \in {"closing", "push"}
          => reports[t] = <<>> \/ (BudgetTold(t) /\ emitting[Run(t)] = "completed")
    /\ pc[Run(t)] \in {"agent_emit", "agent_push"} => AgentOutcome(Run(t))
    /\ AgentReported(Run(t)) => status[t] \in TerminalStatus

ReportInv ==
    /\ AnswerInv
    /\ Uninterrupted
    /\ OwnWrites
    /\ \A t \in Task : Reported(t)

LEMMA ReportTypes ==
    ASSUME TypeInv
    PROVE  /\ reports \in [Task -> Seq(ResultType)] /\ outcome \in [Runs -> Outcome]
           /\ emitting \in [Runs -> EventType] /\ tokenSet \subseteq Runs
           /\ reply \in [Client -> Reply] /\ queue \in Seq(Op)
           /\ pc \in [Client -> RunLabel \cup CallLabel \cup BootLabel]
           /\ status \in [Task -> Status \cup {"absent"}]
           /\ \A r \in Runs : r \in Client /\ TaskOf(r) \in Task
  BY ClientsApart DEF TypeInv, TypeOK, StoreTypeOK, RuntimeTypeOK

(* The same for the queue as for the other invariants of it. *)
LEMMA OwnWritesStay ==
    ASSUME NEW q \in Seq(Op),
           \A i \in 1 .. Len(q) : \A o \in Op : o = q[i] => OwnWrite(o)' /\ EmitWrite(o)',
           \/ queue' = q
           \/ \E op \in Op : queue' = Append(q, op) /\ OwnWrite(op)' /\ EmitWrite(op)'
    PROVE  OwnWrites'
<1> DEFINE n == Len(q)
<1>1. n \in Nat /\ \A i \in 1 .. n : q[i] \in Op
  OBVIOUS
<1>2. CASE queue' = q
  BY <1>1, <1>2 DEF OwnWrites, OwnWrite, EmitWrite, Updates
<1>3. ASSUME NEW op \in Op, queue' = Append(q, op), OwnWrite(op)', EmitWrite(op)'
      PROVE  OwnWrites'
  <2>1. /\ Len(queue') = n + 1 /\ queue'[n + 1] = op
        /\ \A i \in 1 .. n : queue'[i] = q[i]
        /\ \A i \in 1 .. n + 1 : i \in 1 .. n \/ i = n + 1
    BY <1>3
  <2>2. \A i \in 1 .. n : \A o \in Op : o = q[i] => OwnWrite(o)' /\ EmitWrite(o)'
    OBVIOUS
  <2> HIDE DEF n
  <2>3. \A i \in 1 .. n + 1 : \A o \in Op : o = queue'[i] => OwnWrite(o)' /\ EmitWrite(o)'
    BY <1>1, <1>3, <2>1, <2>2
  <2>4. \A i \in 1 .. n + 1 : queue'[i] \in Op
    BY <1>1, <1>3, <2>1
  <2>5. QED
    BY <2>1, <2>3, <2>4 DEF OwnWrites, OwnWrite, EmitWrite, Updates
<1>4. QED
  BY <1>2, <1>3

(* A step of a run, as far as reports go. *)
ReportActs(r) ==
    /\ UNCHANGED tokenSet
    /\ \A q \in Runs : q # r => emitting'[q] = emitting[q] /\ outcome'[q] = outcome[q]
    /\ \A u \in Task : u # TaskOf(r) => reports'[u] = reports[u]
    /\ \/ UNCHANGED reports
       \/ /\ reports'[TaskOf(r)] = Append(reports[TaskOf(r)], emitting[r])
          /\ pc[r] \in {"agent_push", "push"}
    /\ pc[r] = "agent_push" => pc'[r] = "terminal_check" /\ UNCHANGED outcome
    /\ pc[r] = "terminal_check" =>
          \/ pc'[r] = "ended"
          \/ /\ pc'[r] = "report" /\ status[TaskOf(r)] \notin TerminalStatus
             /\ UNCHANGED outcome
    /\ pc[r] = "report" =>
          /\ pc'[r] = "closing" /\ UNCHANGED outcome
          /\ outcome[r] = "done" => emitting'[r] = "completed"
    /\ pc[r] = "closing" => pc'[r] \in {"push", "ended"} /\ UNCHANGED <<outcome, emitting>>
    /\ pc[r] = "push" => pc'[r] = "ended"
    /\ pc'[r] = "agent_push" =>
          pc[r] = "agent_emit" /\ reply[r] = "ok" /\ UNCHANGED <<outcome, emitting>>
    /\ pc'[r] = "agent_emit" =>
          /\ AgentOutcome(r)'
          /\ \E op \in Op : queue' = Append(queue, op) /\ op.type = emitting'[r]

LEMMA RunSteppedReports ==
    ASSUME ReportInv, NEW r \in Runs, ResumeRun(r) \/ StepRun(r)
    PROVE  ReportActs(r)
<1>1. /\ r \in Client /\ TaskOf(r) \in Task /\ reports \in [Task -> Seq(ResultType)]
      /\ outcome \in [Runs -> Outcome] /\ emitting \in [Runs -> EventType]
      /\ pc \in [Client -> RunLabel \cup CallLabel \cup BootLabel]
      /\ queue \in Seq(Op)
  BY ReportTypes, AnswerTypes DEF ReportInv
<1>2. /\ tokenSet = {} /\ reply[r] # "cancelled"
      /\ \A l : ~Wake(r, l, "cancelled")
  BY DEF ReportInv, Uninterrupted, Wake
<1>3. \A l : pc' = [pc EXCEPT ![r] = l] => pc'[r] = l
  BY <1>1
<1>4. Live(r) /\ pc'[r] \notin {"idle", "running"}
  BY RunSteppedActs DEF ReportInv, RunActs
<1>5. \A type : \A i, l : Emit(r, type, i, l) =>
          /\ pc'[r] = l /\ UNCHANGED tokenSet
          /\ \A q \in Runs : q # r => emitting'[q] = emitting[q]
  BY <1>1 DEF Emit, Goto
<1>6. \A type : Push(TaskOf(r), type) =>
          /\ \A u \in Task : u # TaskOf(r) => reports'[u] = reports[u]
          /\ \/ UNCHANGED reports
             \/ reports'[TaskOf(r)] = Append(reports[TaskOf(r)], type)
  BY <1>1 DEF Push
<1>7. Finished(r) => pc'[r] = "ended"
  BY <1>1 DEF Finished, Goto
<1>10. CASE BecomeRunning(r) \/ Checkpointed(r)
  <2>1. /\ UNCHANGED <<outcome, reports, tokenSet>> /\ pc[r] \in {"running", "checkpointing"}
        /\ pc'[r] \in {"started", "closing"}
        /\ \A q \in Runs : q # r => emitting'[q] = emitting[q]
    BY <1>5, <1>10 DEF BecomeRunning, Checkpointed, Wake
  <2>2. QED
    BY <2>1 DEF ReportActs
<1>11. CASE StartLogged(r) \/ StartRefused(r) \/ AgentLogged(r) \/ LastEventLogged(r)
  <2>1. /\ UNCHANGED <<outcome, emitting, reports, tokenSet>>
        /\ \/ pc[r] = "agent_emit" /\ reply[r] = "ok" /\ pc'[r] = "agent_push"
           \/ pc[r] = "started" /\ pc'[r] \in {"announced", "ended"}
           \/ pc[r] = "closing" /\ pc'[r] \in {"push", "ended"}
    BY <1>1, <1>7, <1>11
       DEF StartLogged, StartRefused, AgentLogged, LastEventLogged, Wake, Goto, runLocals
  <2>2. QED
    BY <2>1 DEF ReportActs
<1>12. CASE CancelledInExecute(r) \/ CancelledElsewhere(r)
  BY <1>2, <1>12 DEF CancelledInExecute, CancelledElsewhere
<1>13. CASE Announce(r) \/ Instantiate(r) \/ CheckTerminal(r)
  <2>1. /\ UNCHANGED <<outcome, emitting, reports, tokenSet>>
        /\ \/ pc[r] \in {"announced", "instantiating"}
              /\ pc'[r] \in {"ended", "instantiating", "executing"}
           \/ /\ pc[r] = "terminal_check"
              /\ \/ pc'[r] = "ended"
                 \/ pc'[r] = "report" /\ status[TaskOf(r)] \notin TerminalStatus
    BY <1>1, <1>7, <1>13 DEF Announce, Instantiate, CheckTerminal, Goto, runLocals
  <2>2. QED
    BY <2>1 DEF ReportActs
<1>14. CASE InstantiateFails(r) \/ Report(r)
  <2>1. /\ UNCHANGED <<outcome, reports, tokenSet>> /\ pc[r] \in {"instantiating", "report"}
        /\ pc'[r] = "closing"
        /\ \A q \in Runs : q # r => emitting'[q] = emitting[q]
    BY <1>5, <1>14 DEF InstantiateFails, Report
  <2>2. pc[r] = "report" /\ outcome[r] = "done" => emitting'[r] = "completed"
    BY <1>1, <1>14 DEF InstantiateFails, Report, Emit
  <2>3. QED
    BY <2>1, <2>2 DEF ReportActs
<1>15. CASE AgentEmits(r)
  <2>1. PICK type \in {"completed", "failed", "budget_exhausted"} :
            /\ queue' = Append(queue, EventOp(r, TaskOf(r), type, "own"))
            /\ emitting' = [emitting EXCEPT ![r] = type]
            /\ outcome' = [outcome EXCEPT ![r] = IF type = "failed" THEN "failed" ELSE "done"]
    BY <1>15 DEF AgentEmits, Submit
  <2>2. /\ EventOp(r, TaskOf(r), type, "own") \in Op
        /\ EventOp(r, TaskOf(r), type, "own").type = type
    <3>1. EventOp(r, TaskOf(r), type, "own") \in Op
      BY <1>1, OpTyped DEF EventType, EventId
    <3>2. EventOp(r, TaskOf(r), type, "own").type = type
      BY DEF EventOp, MakeOp
    <3>3. QED
      BY <3>1, <3>2
  <2>3. /\ pc[r] = "executing" /\ pc'[r] = "agent_emit" /\ UNCHANGED <<tokenSet, reports>>
    BY <1>3, <1>15 DEF AgentEmits, Goto
  <2>4. /\ \A q \in Runs : q # r => emitting'[q] = emitting[q] /\ outcome'[q] = outcome[q]
        /\ emitting'[r] = type /\ AgentOutcome(r)'
    BY <1>1, <2>1 DEF AgentOutcome, ResultType, TerminalStatus
  <2>5. \E op \in Op : queue' = Append(queue, op) /\ op.type = emitting'[r]
    BY <2>1, <2>2, <2>4
  <2>6. QED
    BY <2>3, <2>4, <2>5 DEF ReportActs
<1>16. ASSUME NEW result \in Outcome, AfterExecute(r, result)
       PROVE  /\ UNCHANGED tokenSet
              /\ pc'[r] \in {"closing", "checkpointing", "terminal_check"}
              /\ result \in {"done", "failed"} => pc'[r] = "terminal_check"
              /\ result = outcome[r] => UNCHANGED outcome
              /\ \A q \in Runs : q # r => emitting'[q] = emitting[q] /\ outcome'[q] = outcome[q]
  <2>1. /\ \A q \in Runs : q # r => outcome'[q] = outcome[q]
        /\ result = outcome[r] => UNCHANGED outcome
    BY <1>1, <1>16 DEF AfterExecute
  <2>2. \/ \E type : Emit(r, type, "3", "closing") /\ result \notin {"done", "failed"}
        \/ /\ pc' = [pc EXCEPT ![r] = "checkpointing"] /\ result = "needs_input"
           /\ UNCHANGED <<emitting, tokenSet>>
        \/ /\ pc' = [pc EXCEPT ![r] = "terminal_check"]
           /\ UNCHANGED <<emitting, tokenSet>>
    BY <1>2, <1>16 DEF AfterExecute, Goto
  <2>3. CASE \E type : Emit(r, type, "3", "closing") /\ result \notin {"done", "failed"}
    BY <1>5, <2>1, <2>3
  <2>4. QED
    BY <1>3, <2>1, <2>2, <2>3
<1>17. CASE AgentPushes(r)
  <2>1. /\ pc[r] = "agent_push" /\ Push(TaskOf(r), emitting[r]) /\ AfterExecute(r, outcome[r])
        /\ outcome[r] \in Outcome
    BY <1>1, <1>17 DEF AgentPushes
  <2>2. outcome[r] \in {"done", "failed"}
    <3>1. r = Run(TaskOf(r)) \/ r = Resume(TaskOf(r))
      BY ClientsApart
    <3>2. r # Resume(TaskOf(r))
      BY <1>1, <2>1 DEF ReportInv, AnswerInv, ResumeRefused, Opening
    <3>3. QED
      BY <1>1, <2>1, <3>1, <3>2 DEF ReportInv, Reported, AgentOutcome
  <2>3. QED
    BY <1>6, <1>16, <2>1, <2>2 DEF ReportActs
<1>18. CASE AgentReturns(r)
  <2>1. PICK result \in Outcome : AfterExecute(r, result)
    BY <1>18 DEF AgentReturns, Outcome
  <2>2. pc[r] = "executing" /\ UNCHANGED reports
    BY <1>18 DEF AgentReturns
  <2>3. QED
    BY <1>16, <2>1, <2>2 DEF ReportActs
<1>19. CASE LastPush(r)
  <2>1. /\ pc[r] = "push" /\ pc'[r] = "ended" /\ Push(TaskOf(r), emitting[r])
        /\ UNCHANGED <<outcome, emitting, tokenSet>>
    BY <1>7, <1>19 DEF LastPush, runLocals
  <2>2. QED
    BY <1>6, <2>1 DEF ReportActs
<1>20. CASE InstantiateRaises(r)
  <2>1. /\ pc[r] = "instantiating" /\ pc'[r] = "ended"
        /\ UNCHANGED <<emitting, reports, tokenSet>>
        /\ \A q \in Runs : q # r => outcome'[q] = outcome[q]
    BY <1>1, <1>7, <1>20 DEF InstantiateRaises
  <2>2. QED
    BY <2>1 DEF ReportActs
<1>30. QED
  BY <1>10, <1>11, <1>12, <1>13, <1>14, <1>15, <1>17, <1>18, <1>19, <1>20 DEF ResumeRun, StepRun

(* What a sequence of results grows to. *)
LEMMA FirstTold ==
    ASSUME NEW x \in EventType
    PROVE  /\ ToldOnce(<<>>) /\ ToldOnce(Append(<<>>, x)) /\ Append(<<>>, x) = <<x>>
<1>1. Append(<<>>, x) = <<x>> /\ Len(<<x>>) = 1 /\ Len(<<>>) = 0
  OBVIOUS
<1>2. QED
  BY <1>1 DEF ToldOnce

LEMMA SecondTold == ToldOnce(Append(<<"budget_exhausted">>, "completed"))
<1> DEFINE one == <<"budget_exhausted">>
           two == <<"budget_exhausted", "completed">>
<1>1. "budget_exhausted" \in EventType /\ "completed" \in EventType
  BY DEF EventType
<1>2. one \in Seq(EventType) /\ two \in Seq(EventType) /\ Append(one, "completed") \in Seq(EventType)
  BY <1>1
<1>3. /\ Len(two) = 2 /\ Len(Append(one, "completed")) = 2
      /\ \A i \in 1 .. 2 : Append(one, "completed")[i] = two[i]
  OBVIOUS
<1>4. Append(one, "completed") = two
  BY <1>2, <1>3, SeqEqual
<1>5. QED
  BY <1>4 DEF ToldOnce

LEMMA LastWrite ==
    ASSUME NEW q \in Seq(Op), NEW a \in Op, NEW b \in Op, Append(q, a) = Append(q, b)
    PROVE  a = b
<1>1. Append(q, a)[Len(q) + 1] = a /\ Append(q, b)[Len(q) + 1] = b
  OBVIOUS
<1>2. QED
  BY <1>1

LEMMA RunKeepsReports ==
    ASSUME ReportInv, AnswerInv', NEW r \in Runs, RunStep(r)
    PROVE  ReportInv'
<1> DEFINE t == TaskOf(r)
<1>1. /\ ReportActs(r) /\ RunActs(r) /\ UNCHANGED <<status, subject>> /\ AnswerInv
  BY RunSteppedReports, RunSteppedActs
     DEF ReportInv, RunStep, ResumeRun, StepRun, tables, supervisorVars, callVars
<1>2. /\ t \in Task /\ r \in Client /\ (r = Run(t) \/ r = Resume(t))
      /\ queue \in Seq(Op) /\ reports \in [Task -> Seq(ResultType)]
      /\ \A q \in Runs : q \in Client
      /\ \A u \in Task : Run(u) \in Runs /\ (u # t => Run(u) # r)
      /\ Run(t) # Resume(t)
      /\ \A op \in Op : op.task \in Task
  BY <1>1, ReportTypes, AnswerTypes, ClientsApart DEF Op
<1>3. /\ tokenSet' = tokenSet
      /\ \A q \in Runs : q # r => /\ emitting'[q] = emitting[q] /\ outcome'[q] = outcome[q]
                                  /\ pc'[q] = pc[q] /\ reply'[q] = reply[q]
      /\ \A u \in Task : u # t => reports'[u] = reports[u]
      /\ reply'[r] = "none" /\ pc[r] \notin {"idle", "ended"}
      /\ \A i \in 1 .. Len(queue) : queue[i].by # r
      /\ pc[r] \in Closing => pc'[r] \in Closing
      /\ queue' = queue \/ \E op \in Op : RunQueues1(r, op)
  BY <1>1, <1>2 DEF ReportActs, RunActs, Live
<1>4. /\ \/ UNCHANGED reports
         \/ reports'[t] = Append(reports[t], emitting[r]) /\ pc[r] \in {"agent_push", "push"}
      /\ pc[r] = "agent_push" => pc'[r] = "terminal_check" /\ UNCHANGED outcome
      /\ pc[r] = "terminal_check" =>
            \/ pc'[r] = "ended"
            \/ pc'[r] = "report" /\ status[t] \notin TerminalStatus /\ UNCHANGED outcome
      /\ pc[r] = "report" =>
            /\ pc'[r] = "closing" /\ UNCHANGED outcome
            /\ outcome[r] = "done" => emitting'[r] = "completed"
      /\ pc[r] = "closing" => pc'[r] \in {"push", "ended"} /\ UNCHANGED <<outcome, emitting>>
      /\ pc[r] = "push" => pc'[r] = "ended"
      /\ pc'[r] = "agent_push" =>
            pc[r] = "agent_emit" /\ reply[r] = "ok" /\ UNCHANGED <<outcome, emitting>>
      /\ pc'[r] = "agent_emit" =>
            /\ AgentOutcome(r)'
            /\ \E op \in Op : queue' = Append(queue, op) /\ op.type = emitting'[r]
  BY <1>1 DEF ReportActs
(* Another run of the task is one an answer spawned, after the question.   *)
<1>5. r = Resume(t) => /\ pc[r] \in Opening /\ pc[Run(t)] \in Closing
                       /\ pc'[Run(t)] = pc[Run(t)]
  <2>1. \A p \in Responds : subject[p] = t => pc[Run(t)] \in Closing
    BY <1>1, <1>2, SupervisorConstants DEF AnswerInv, QuestionPut
  <2>2. r = Resume(t) => pc[r] \in Opening /\ \E p \in Responds : subject[p] = t
    BY <1>1, <1>2, <1>3 DEF AnswerInv, ResumeRefused
  <2>3. QED
    BY <1>2, <1>3, <2>1, <2>2
<1> HIDE DEF t
<1>6. Uninterrupted'
  BY <1>3 DEF ReportInv, Uninterrupted
<1>7. OwnWrites'
  <2>1. ASSUME NEW i \in 1 .. Len(queue), NEW o \in Op, o = queue[i]
        PROVE  OwnWrite(o)' /\ EmitWrite(o)'
    <3>1. OwnWrite(o) /\ EmitWrite(o) /\ o.by # r
      BY <1>3, <2>1 DEF ReportInv, OwnWrites
    <3>2. pc'[Run(o.task)] \notin Closing \cup {"idle"}
              => pc[Run(o.task)] \notin Closing \cup {"idle"}
      BY <1>2, <1>3
    <3>3. OwnWrite(o)'
      BY <3>1, <3>2 DEF OwnWrite, Updates
    <3>4. EmitWrite(o)'
      BY <1>3, <3>1 DEF EmitWrite
    <3>5. QED
      BY <3>3, <3>4
  <2>2. ASSUME NEW op \in Op, RunQueues1(r, op)
        PROVE  queue' = Append(queue, op) /\ OwnWrite(op)' /\ EmitWrite(op)'
    <3>1. queue' = Append(queue, op) /\ op.by = r /\ op.task = t
      BY <2>2 DEF RunQueues1, t
    <3>2. OwnWrite(op)'
      BY <1>2, <1>5, <3>1 DEF OwnWrite
    <3>3. ASSUME NEW o \in Op, queue' = Append(queue, o) PROVE o = op
      BY <1>2, <3>1, <3>3, LastWrite
    <3>4. pc'[r] = "agent_emit" => op.type = emitting'[r]
      BY <1>4, <3>3
    <3>5. EmitWrite(op)'
      BY <3>1, <3>4 DEF EmitWrite
    <3>6. QED
      BY <3>1, <3>2, <3>5
  <2>3. QED
    BY <1>2, <1>3, <2>1, <2>2, OwnWritesStay
<1>8. ASSUME NEW u \in Task, u # t PROVE Reported(u)'
  <2>1. Reported(u) /\ Run(u) # r /\ Run(u) \in Runs
    BY <1>2, <1>8 DEF ReportInv
  <2>2. QED
    BY <1>1, <1>3, <1>8, <2>1 DEF Reported, AgentReported, AgentOutcome, BudgetTold
<1>9. CASE r = Resume(t)
  <2>1. UNCHANGED reports /\ Run(t) # r /\ Run(t) \in Runs /\ Reported(t)
    BY <1>2, <1>4, <1>5, <1>9 DEF Opening, ReportInv
  <2>2. Reported(t)'
    BY <1>1, <1>3, <2>1 DEF Reported, AgentReported, AgentOutcome, BudgetTold
  <2>3. QED
    BY <1>6, <1>7, <1>8, <2>2 DEF ReportInv
<1>10. CASE r = Run(t)
  <2>1. Reported(t) /\ Run(t) = r
    BY <1>2, <1>10 DEF ReportInv
  <2>2. pc'[r] \in {"agent_emit", "agent_push"} => AgentOutcome(r)'
    BY <1>4, <2>1 DEF Reported, AgentOutcome
  <2>3. AgentReported(r)' => status[t] \in TerminalStatus
    BY <1>3, <1>4, <2>1 DEF Reported, AgentReported
  <2>4. ASSUME pc[r] = "agent_push" PROVE Reported(t)'
    <3>1. /\ reports[t] = <<>> /\ pc'[r] = "terminal_check" /\ outcome' = outcome
          /\ emitting[r] \in ResultType
          /\ emitting[r] = "budget_exhausted" => outcome[r] = "done"
          /\ emitting[r] \in TerminalStatus => status[t] \in TerminalStatus
      BY <1>4, <2>1, <2>4 DEF Reported, AgentReported, AgentOutcome
    <3>2. emitting[r] \in EventType
      BY ReportTypes, AnswerTypes, <1>1
    <3>3. /\ ToldOnce(reports'[t])
          /\ reports'[t] = <<>> \/ reports'[t] = <<emitting[r]>>
      BY <1>4, <2>1, <3>1, <3>2, FirstTold DEF Reported
    <3>4. \/ reports'[t] = <<>> \/ status[t] \in TerminalStatus
          \/ reports'[t] = <<"budget_exhausted">> /\ outcome'[r] = "done"
      BY <3>1, <3>3 DEF ResultType
    <3>5. QED
      BY <1>1, <2>1, <2>2, <2>3, <3>1, <3>3, <3>4 DEF Reported, BudgetTold
  <2>5. ASSUME pc[r] = "push" PROVE Reported(t)'
    <3>1. /\ pc'[r] = "ended" /\ ToldOnce(reports[t])
          /\ \/ reports[t] = <<>>
             \/ reports[t] = <<"budget_exhausted">> /\ emitting[r] = "completed"
      BY <1>4, <2>1, <2>5 DEF Reported, BudgetTold
    <3>2. emitting[r] \in EventType
      BY ReportTypes, AnswerTypes, <1>1
    <3>3. reports'[t] = reports[t] \/ reports'[t] = Append(reports[t], emitting[r])
      BY <1>4
    <3>4. ToldOnce(reports'[t])
      BY <3>1, <3>2, <3>3, FirstTold, SecondTold
    <3>5. QED
      BY <1>1, <2>1, <2>2, <2>3, <3>1, <3>4 DEF Reported
  <2>6. ASSUME pc[r] \in {"terminal_check", "report", "closing"} PROVE Reported(t)'
    <3>1. /\ reports' = reports /\ ToldOnce(reports[t])
          /\ outcome' = outcome \/ pc'[r] = "ended"
      BY <1>4, <2>1, <2>6 DEF Reported
    <3>2. CASE pc[r] = "terminal_check"
      BY <1>1, <1>4, <2>1, <2>2, <2>3, <3>1, <3>2 DEF Reported, BudgetTold
    <3>3. CASE pc[r] = "report"
      BY <1>1, <1>4, <2>1, <2>2, <2>3, <3>1, <3>3 DEF Reported, BudgetTold
    <3>4. CASE pc[r] = "closing"
      BY <1>1, <1>4, <2>1, <2>2, <2>3, <3>1, <3>4 DEF Reported, BudgetTold
    <3>5. QED
      BY <2>6, <3>2, <3>3, <3>4
  <2>7. ASSUME pc[r] \notin {"agent_push", "push", "terminal_check", "report", "closing"} PROVE Reported(t)'
    <3>1. reports'[t] = <<>>
      BY <1>3, <1>4, <2>1, <2>7 DEF Reported
    <3>2. "started" \in EventType
      BY DEF EventType
    <3>3. ToldOnce(reports'[t])
      BY <3>1, <3>2, FirstTold
    <3>4. QED
      BY <1>1, <1>3, <1>4, <2>1, <2>2, <2>3, <3>1, <3>3 DEF Reported
  <2>8. Reported(t)'
    BY <2>4, <2>5, <2>6, <2>7
  <2>9. QED
    BY <1>6, <1>7, <1>8, <2>8 DEF ReportInv
<1>11. QED
  BY <1>2, <1>9, <1>10

(* A step that ends no task and reports nothing: at most it ends runs, or  *)
(* takes one up.                                                           *)
LEMMA ReportsStay ==
    ASSUME ReportInv, AnswerInv', OwnWrites',
           UNCHANGED <<status, reports, outcome, emitting>>, tokenSet' = {},
           \A r \in Runs : reply'[r] # "cancelled" /\ (reply'[r] = "ok" => reply[r] = "ok"),
           \A t \in Task : \/ pc'[Run(t)] \in {pc[Run(t)], "ended"}
                           \/ pc[Run(t)] = "idle" /\ pc'[Run(t)] = "running"
    PROVE  ReportInv'
<1>1. Uninterrupted'
  BY DEF ReportInv, Uninterrupted
<1>2. ASSUME NEW t \in Task PROVE Reported(t)'
  <2>1. /\ Reported(t) /\ Run(t) \in Runs
        /\ \/ pc'[Run(t)] \in {pc[Run(t)], "ended"}
           \/ pc[Run(t)] = "idle" /\ pc'[Run(t)] = "running"
    BY ClientsApart DEF ReportInv
  <2>2. QED
    BY <2>1 DEF Reported, AgentReported, AgentOutcome, BudgetTold
<1>3. QED
  BY <1>1, <1>2 DEF ReportInv

(* Steps beside the runs, when nobody is cancelled. *)
LEMMA AsideReports ==
    ASSUME ReportInv, AnswerInv', Aside, UNCHANGED <<reports, outcome, emitting, tokenSet>>,
           \A r \in Runs : reply'[r] = reply[r],
           \/ \A r \in Runs : ~Live(r)
           \/ \A i \in 1 .. Len(queue') : i \in 1 .. Len(queue) \/ ~Updates(queue'[i])
    PROVE  ReportInv'
<1>1. /\ UNCHANGED status /\ \A r \in Runs : pc'[r] = pc[r]
      /\ tokenSet' = {} /\ \A r \in Runs : reply[r] # "cancelled"
  BY DEF Aside, ReportInv, Uninterrupted
<1>2. PICK q \in Seq(Op) :
          /\ Len(q) = Len(queue)
          /\ \A i \in 1 .. Len(queue) : Handed(queue[i], q[i])
          /\ queue' = q \/ \E op \in Op : SideOp(op) /\ queue' = Append(q, op)
  BY DEF Aside, QueueAside
<1>3. /\ queue \in Seq(Op) /\ Len(q) \in Nat
      /\ \A op \in Op : op.task \in Task /\ Run(op.task) \in Runs
  BY AnswerTypes, ClientsApart DEF ReportInv, Op
<1>4. ASSUME NEW i \in 1 .. Len(q), NEW o \in Op, o = q[i]
      PROVE  OwnWrite(o)' /\ EmitWrite(o)'
  <2>1. /\ OwnWrite(queue[i]) /\ EmitWrite(queue[i]) /\ Handed(queue[i], o)
        /\ queue[i] \in Op
    BY <1>2, <1>3, <1>4 DEF ReportInv, OwnWrites
  <2>2. \/ o.by = queue[i].by
        \/ o.by = Nobody /\ queue[i].by \notin Runs
    BY <1>1, <2>1 DEF Handed
  <2>3. o.kind = queue[i].kind /\ o.task = queue[i].task /\ o.type = queue[i].type
    BY <2>1 DEF Handed
  <2>4. pc'[Run(o.task)] = pc[Run(o.task)] /\ Run(o.task) \in Runs
    BY <1>1, <1>3
  <2>5. OwnWrite(o)'
    BY <2>1, <2>2, <2>3, <2>4 DEF OwnWrite, Updates
  <2>6. EmitWrite(o)'
    BY <1>1, <2>1, <2>2, <2>3, ClientsApart DEF EmitWrite
  <2>7. QED
    BY <2>5, <2>6
<1>5. ASSUME NEW op \in Op, SideOp(op), queue' = Append(q, op)
      PROVE  OwnWrite(op)' /\ EmitWrite(op)'
  <2>1. op.by \notin Runs
    BY <1>5 DEF SideOp
  <2>2. (\A r \in Runs : ~Live(r)) \/ ~Updates(op)
    <3>1. /\ Len(queue') = Len(q) + 1 /\ queue'[Len(q) + 1] = op
          /\ Len(q) + 1 \in 1 .. Len(queue') /\ Len(q) + 1 \notin 1 .. Len(queue)
      BY <1>2, <1>3, <1>5
    <3>2. QED
      BY <3>1
  <2>3. OwnWrite(op)'
    BY <1>1, <1>3, <2>2 DEF OwnWrite, Updates, Live, Closing
  <2>4. QED
    BY <2>1, <2>3 DEF EmitWrite
<1>6. OwnWrites'
  BY <1>2, <1>4, <1>5, OwnWritesStay
<1>7. \A t \in Task : pc'[Run(t)] = pc[Run(t)]
  BY <1>1, ClientsApart
<1>8. QED
  BY <1>1, <1>6, <1>7, ReportsStay

LEMMA StopReports ==
    ASSUME ReportInv, AnswerInv', NEW s \in Stops, StopStep(s)
    PROVE  ReportInv'
<1>1. /\ AnswerInv /\ Aside /\ UNCHANGED <<reports, outcome, emitting, tokenSet>>
      /\ queue \in Seq(Op)
  BY StopAside, AnswerTypes DEF ReportInv, StopStep, runLocals
<1>2. \A r \in Runs : reply'[r] = reply[r]
  <2>1. reply \in [Client -> Reply] /\ \A r \in Runs : r # s /\ r \in Client
    BY <1>1, AnswerTypes, ClientsApart
  <2>2. QED
    BY <2>1 DEF StopStep, StopSubmit, StopReturn, Wake
<1>3. \A i \in 1 .. Len(queue') : i \in 1 .. Len(queue) \/ ~Updates(queue'[i])
  <2>1. queue' = queue \/ queue' = Append(queue, MakeOp(s, "stop", AnyTask))
    BY DEF StopStep, StopSubmit, StopReturn, Submit
  <2>2. ~Updates(MakeOp(s, "stop", AnyTask))
    BY DEF MakeOp, Updates
  <2>3. MakeOp(s, "stop", AnyTask) \in Op
    BY OpTyped, ClientsApart, ClientMembers DEF OpKind
  <2>4. ASSUME NEW op \in Op, queue' = Append(queue, op), ~Updates(op), NEW i \in 1 .. Len(queue')
        PROVE  i \in 1 .. Len(queue) \/ ~Updates(queue'[i])
    <3>1. i \in 1 .. Len(queue) \/ queue'[i] = op
      BY <1>1, <2>4
    <3>2. QED
      BY <2>4, <3>1 DEF Updates
  <2>5. QED
    BY <2>1, <2>2, <2>3, <2>4
<1>4. QED
  BY <1>1, <1>2, <1>3, AsideReports

LEMMA GoneReports ==
    ASSUME ReportInv, AnswerInv', NEW c \in Callers, CallerCancelled(c)
    PROVE  ReportInv'
<1>1. /\ AnswerInv /\ Aside /\ UNCHANGED <<reports, outcome, emitting, tokenSet, reply>>
      /\ queue \in Seq(Op) /\ queue' = Disowned(c) /\ c \in Client
  BY GoneAside, AnswerTypes, ClientMembers DEF ReportInv, CallerCancelled, runLocals, Callers
<1>2. Len(queue') = Len(queue)
  BY <1>1, DisownedKeeps
<1>3. QED
  BY <1>1, <1>2, AsideReports

LEMMA BootReports ==
    ASSUME ReportInv, AnswerInv', BootStep
    PROVE  ReportInv'
<1>1. /\ AnswerInv /\ Aside /\ UNCHANGED <<reports, outcome, emitting, tokenSet>>
      /\ TypeInv
  BY BootAside, AnswerTypes DEF ReportInv, BootStep, runLocals
<1>2. \A r \in Runs : reply'[r] = reply[r]
  <2>1. BootMoves /\ reply \in [Client -> Reply] /\ \A r \in Runs : r # Boot /\ r \in Client
    BY <1>1, AnswerTypes, BootSteppedMoves, ClientsApart
  <2>2. QED
    BY <2>1 DEF BootMoves, Consumes
<1>3. \A r \in Runs : ~Live(r)
  <2>1. ~Serving
    BY DEF BootStep, BootRead, BootMark, BootSeal, BootMarked, BootLogged, BootServe, Wake, Serving
  <2>2. QED
    BY <1>1, <2>1 DEF AnswerInv, OrphanInv, AloneAtBoot, AtRest
<1>4. QED
  BY <1>1, <1>2, <1>3, AsideReports

LEMMA RespondReports ==
    ASSUME ReportInv, AnswerInv', NEW p \in Responds, RespondStep(p)
    PROVE  ReportInv'
<1>1. /\ AnswerInv /\ RespondActs(p)
      /\ UNCHANGED <<status, reports, outcome, emitting, tokenSet>> /\ tokenSet = {}
      /\ \A r \in Runs : reply'[r] = reply[r] /\ reply[r] # "cancelled"
      /\ \A t \in Task : pc'[Run(t)] = pc[Run(t)]
      /\ queue \in Seq(Op)
  BY RespondSteppedActs, RespondShape DEF ReportInv, RespondStep, tables, runLocals, Uninterrupted
<1>2. /\ p \in Client /\ p \notin Runs
      /\ pc \in [Client -> RunLabel \cup CallLabel \cup BootLabel]
      /\ \A r \in Runs : r \in Client /\ r # p
      /\ \A t \in Task : Resume(t) \in Client /\ Run(t) \in Runs
      /\ \A op \in Op : op.task \in Task
      /\ subject \in [Cancels \cup Responds \cup {Boot} -> Task \cup {NoTask}]
  BY <1>1, AnswerTypes, ClientsApart DEF Op
<1>3. subject[p] \in Task => pc[Run(subject[p])] \in Closing
  BY <1>1, SupervisorConstants DEF AnswerInv, QuestionPut
<1>4. \A r \in Runs : pc'[r] \in {pc[r], "running"}
  <2>1. \/ \E l : pc' = [pc EXCEPT ![p] = l]
        \/ pc' = [pc EXCEPT ![p] = "returned", ![Resume(subject[p])] = "running"]
    BY <1>1 DEF RespondActs, RespondReads, RespondGoes, RespondSpawns
  <2>2. QED
    BY <1>2, <2>1
<1>5. ASSUME NEW i \in 1 .. Len(queue), NEW o \in Op, o = queue[i]
      PROVE  OwnWrite(o)' /\ EmitWrite(o)'
  <2>1. OwnWrite(o) /\ EmitWrite(o) /\ pc'[Run(o.task)] = pc[Run(o.task)]
    BY <1>1, <1>2, <1>5 DEF ReportInv, OwnWrites
  <2>2. OwnWrite(o)'
    BY <2>1 DEF OwnWrite, Updates
  <2>3. EmitWrite(o)'
    BY <1>1, <1>4, <2>1 DEF EmitWrite
  <2>4. QED
    BY <2>2, <2>3
<1>6. ASSUME NEW op \in Op, op.task = subject[p], subject[p] \in Task,
             op.by \in Runs => pc'[op.by] = "running"
      PROVE  OwnWrite(op)' /\ EmitWrite(op)'
  <2>1. pc'[Run(op.task)] \in Closing
    BY <1>1, <1>3, <1>6
  <2>2. OwnWrite(op)'
    BY <2>1 DEF OwnWrite
  <2>3. EmitWrite(op)'
    BY <1>6 DEF EmitWrite
  <2>4. QED
    BY <2>2, <2>3
<1>7. \/ queue' = queue
      \/ \E op \in Op : queue' = Append(queue, op) /\ OwnWrite(op)' /\ EmitWrite(op)'
  <2>1. CASE RespondReads(p)
    BY <2>1 DEF RespondReads
  <2>2. CASE RespondGoes(p)
    <3>1. \/ queue' = queue
          \/ \E op \in Op : /\ queue' = Append(queue, op)
                            /\ op.by = p /\ op.task = subject[p] /\ subject[p] \in Task
      BY <2>2 DEF RespondGoes
    <3>2. QED
      BY <1>2, <1>6, <3>1
  <2>3. CASE RespondSpawns(p)
    <3>1. /\ subject[p] \in Task
          /\ \E op \in Op : /\ queue' = Append(queue, op) /\ op.task = subject[p]
                            /\ op.by = Resume(subject[p])
          /\ pc' = [pc EXCEPT ![p] = "returned", ![Resume(subject[p])] = "running"]
      BY <2>3 DEF RespondSpawns
    <3>2. pc'[Resume(subject[p])] = "running"
      BY <1>2, <3>1
    <3>3. QED
      BY <1>6, <3>1, <3>2
  <2>4. QED
    BY <1>1, <2>1, <2>2, <2>3 DEF RespondActs
<1>8. OwnWrites'
  BY <1>1, <1>5, <1>7, OwnWritesStay
<1>9. QED
  BY <1>1, <1>8, ReportsStay

LEMMA StartReports ==
    ASSUME ReportInv, AnswerInv', NEW t \in Task, StartStep(t)
    PROVE  ReportInv'
<1>1. /\ AnswerInv /\ StartActs(t)
      /\ UNCHANGED <<status, reports, outcome, emitting, tokenSet>> /\ tokenSet = {}
      /\ \A r \in Runs : reply[r] # "cancelled"
      /\ queue \in Seq(Op)
  BY StartSteppedActs, AnswerTypes DEF ReportInv, StartStep, tables, runLocals, Uninterrupted
<1>2. /\ Start(t) \notin Runs /\ Run(t) \in Runs
      /\ \A r \in Runs : r \in Client /\ r # Start(t)
      /\ \A u \in Task : Run(u) \in Runs /\ (Run(u) = Run(t) => u = t)
      /\ \A op \in Op : op.task \in Task
  BY ClientsApart, ClientKinds DEF Op
<1>3. \A r \in Runs : reply'[r] = reply[r] /\ (r # Run(t) => pc'[r] = pc[r])
  BY <1>1, <1>2 DEF StartActs
<1>4. CASE StartQueues1(t) /\ pc'[Run(t)] = pc[Run(t)]
  <2>1. \A r \in Runs : pc'[r] = pc[r]
    BY <1>3, <1>4
  <2>2. ASSUME NEW i \in 1 .. Len(queue), NEW o \in Op, o = queue[i]
        PROVE  OwnWrite(o)' /\ EmitWrite(o)'
    <3>1. OwnWrite(o) /\ EmitWrite(o) /\ pc'[Run(o.task)] = pc[Run(o.task)]
      BY <1>2, <2>1, <2>2 DEF ReportInv, OwnWrites
    <3>2. OwnWrite(o)'
      BY <3>1 DEF OwnWrite, Updates
    <3>3. EmitWrite(o)'
      BY <1>1, <2>1, <3>1 DEF EmitWrite
    <3>4. QED
      BY <3>2, <3>3
  <2>3. ASSUME NEW op \in Op, op.by = Start(t), op.kind \in {"generation", "create"}
        PROVE  OwnWrite(op)' /\ EmitWrite(op)'
    BY <1>2, <2>3 DEF OwnWrite, EmitWrite, Updates
  <2>4. \/ queue' = queue
        \/ \E op \in Op : /\ queue' = Append(queue, op) /\ op.by = Start(t)
                          /\ op.kind \in {"generation", "create"}
    BY <1>4 DEF StartQueues1
  <2>5. OwnWrites'
    BY <1>1, <2>2, <2>3, <2>4, OwnWritesStay
  <2>6. QED
    BY <1>1, <1>2, <1>3, <2>1, <2>5, ReportsStay
<1>5. CASE StartSpawns(t)
  <2>1. /\ Told(t) /\ pc'[Run(t)] = "running"
        /\ \E op \in Op : /\ queue' = Append(queue, op) /\ op.by = Run(t) /\ op.task = t
    BY <1>5 DEF StartSpawns
  <2>2. pc[Run(t)] = "idle"
    BY <1>1, <2>1 DEF Told, AnswerInv, RunsKnown
  <2>3. \A u \in Task : u # t => pc'[Run(u)] = pc[Run(u)]
    BY <1>2, <1>3
  <2>4. ASSUME NEW i \in 1 .. Len(queue), NEW o \in Op, o = queue[i]
        PROVE  OwnWrite(o)' /\ EmitWrite(o)'
    <3>1. OwnWrite(o) /\ EmitWrite(o) /\ OpOK(o)
      BY <1>1, <2>4 DEF ReportInv, OwnWrites, AnswerInv, OpsOK
    <3>2. Updates(o) => o.task # t
      BY <2>1, <3>1 DEF OpOK, Settled
    <3>3. OwnWrite(o)'
      BY <1>2, <2>3, <3>1, <3>2 DEF OwnWrite, Updates
    <3>4. EmitWrite(o)'
      BY <1>1, <1>3, <2>1, <3>1 DEF EmitWrite
    <3>5. QED
      BY <3>3, <3>4
  <2>5. ASSUME NEW op \in Op, op.by = Run(t), op.task = t
        PROVE  OwnWrite(op)' /\ EmitWrite(op)'
    BY <2>1, <2>5 DEF OwnWrite, EmitWrite
  <2>6. OwnWrites'
    BY <1>1, <2>1, <2>4, <2>5, OwnWritesStay
  <2>7. \A u \in Task : \/ pc'[Run(u)] \in {pc[Run(u)], "ended"}
                        \/ pc[Run(u)] = "idle" /\ pc'[Run(u)] = "running"
    BY <2>1, <2>2, <2>3
  <2>8. QED
    BY <1>1, <1>3, <2>6, <2>7, ReportsStay
<1>6. QED
  BY <1>1, <1>4, <1>5 DEF StartActs

(* The writer: what it does to a row whose run is about to look at it is   *)
(* what that run asked for.                                                *)
LEMMA RowWritten ==
    ASSUME TypeInv, NEW op \in Op, Apply(op), Row(op.task)
    PROVE  /\ ~Updates(op) => UNCHANGED status
           /\ op.kind = "event" /\ EventIdFree(op) /\ op.type \in TerminalStatus
                 => status'[op.task] \in TerminalStatus
<1>1. status \in [Task -> Status \cup {"absent"}] /\ op.task \in Task
  BY DEF TypeInv, TypeOK, StoreTypeOK, Op
<1>2. ASSUME ~Updates(op) PROVE UNCHANGED status
  BY <1>2 DEF Updates, Apply, InsertTask, RefuseDuplicate, UpdateStatus, AppendEvent, RefuseEvent,
     SaveCheckpoint, ConsumeCheckpoint, MissCheckpoint, NextGeneration, StopTopicPrefix,
     LifecycleLog, tables
<1>3. ASSUME op.kind = "event", EventIdFree(op), op.type \in TerminalStatus
      PROVE  status'[op.task] \in TerminalStatus
  <2>1. AppendEvent(op)
    BY <1>3 DEF Apply, InsertTask, RefuseDuplicate, UpdateStatus, AppendEvent, RefuseEvent,
       SaveCheckpoint, ConsumeCheckpoint, MissCheckpoint, NextGeneration, StopTopicPrefix,
       LifecycleLog
  <2>2. EventStatus(op.type, status[op.task]) = op.type
    BY <1>3 DEF EventStatus, TerminalStatus
  <2>3. QED
    BY <1>1, <1>3, <2>1, <2>2 DEF AppendEvent, Marked
<1>4. QED
  BY <1>2, <1>3

LEMMA WriterReports ==
    ASSUME ReportInv, AnswerInv', WriterTurn
    PROVE  ReportInv'
<1> DEFINE rest == Tail(queue)
<1>0. PICK op : op = Head(queue)
  OBVIOUS
<1>1. /\ op \in Op /\ Apply(op) /\ Quiet /\ OpOK(op) /\ op.task \in Task
      /\ rest \in Seq(Op) /\ queue' = rest /\ pc' = pc
      /\ AnswerInv /\ TypeInv
  BY <1>0, WriterHead, AnswerTypes DEF ReportInv
<1>2. PICK a \in {"ok", "error", "none_found"} : Replied(op, a)
  BY <1>1, Applied
<1>3. /\ UNCHANGED <<reports, outcome, emitting, tokenSet>>
      /\ queue \in Seq(Op) /\ queue # <<>> /\ reply \in [Client -> Reply]
      /\ \A r \in Runs : r \in Client
      /\ \A t \in Task : Run(t) \in Runs /\ TaskOf(Run(t)) = t
  BY <1>1, AnswerTypes, ClientsApart
     DEF WriterTurn, WriterStep, runtimeVars
<1>4. /\ Len(queue) \in Nat /\ Len(queue) >= 1 /\ op = queue[1] /\ Len(rest) = Len(queue) - 1
      /\ \A i \in 1 .. Len(rest) : rest[i] = queue[i + 1] /\ i + 1 \in 1 .. Len(queue)
  BY <1>0, <1>3
<1> HIDE DEF rest
<1>5. /\ OwnWrite(op) /\ EmitWrite(op)
      /\ \A i \in 1 .. Len(rest) : OwnWrite(rest[i]) /\ EmitWrite(rest[i])
  <2>1. 1 \in 1 .. Len(queue)
    BY <1>4
  <2>2. QED
    BY <1>4, <2>1 DEF ReportInv, OwnWrites
<1>6. OwnWrites'
  <2>1. ASSUME NEW i \in 1 .. Len(rest), NEW o \in Op, o = rest[i]
        PROVE  OwnWrite(o)' /\ EmitWrite(o)'
    BY <1>1, <1>3, <1>5, <2>1 DEF OwnWrite, EmitWrite, Updates
  <2>2. QED
    BY <1>1, <2>1, OwnWritesStay
<1>7. \A r \in Runs : /\ reply[r] = "none"
                      /\ reply'[r] = "none" \/ (op.by = r /\ reply'[r] = a)
  BY <1>1, <1>2, <1>3 DEF Quiet, Replied, Answer
<1>8. Uninterrupted'
  BY <1>3, <1>7 DEF ReportInv, Uninterrupted
(* The row of a run that is to look at it is written by nobody else.       *)
<1>9. ASSUME NEW t \in Task, pc[Run(t)] \in {"agent_push", "terminal_check"},
             status[t] \in TerminalStatus
      PROVE  status'[t] = status[t]
  <2>1. CASE op.task # t
    BY <1>1, <2>1, Applied DEF Effect
  <2>2. CASE op.task = t
    <3>1. Row(t)
      BY <1>9 DEF Row, TerminalStatus
    <3>2. Updates(op) => op.by = Run(t)
      BY <1>5, <1>9, <2>2 DEF OwnWrite, Closing
    <3>3. op.by # Run(t)
      BY <1>1, <1>3, <1>9 DEF OpOK, RunAwaits
    <3>4. QED
      BY <1>1, <2>2, <3>1, <3>2, <3>3, RowWritten
  <2>3. QED
    BY <2>1, <2>2
<1>10. ASSUME NEW t \in Task, pc[Run(t)] = "agent_emit", reply'[Run(t)] = "ok",
              emitting[Run(t)] \in TerminalStatus
       PROVE  status'[t] \in TerminalStatus
  <2>1. op.by = Run(t) /\ a = "ok" /\ Run(t) \in Runs
    BY <1>3, <1>7, <1>10
  <2>2. op.task = t /\ op.kind = "event" /\ op.type = emitting[Run(t)]
    BY <1>1, <1>3, <1>5, <1>10, <2>1 DEF OpOK, RunAwaits, EmitWrite
  <2>3. EventIdFree(op)
    BY <1>2, <2>1, <2>2 DEF Replied
  <2>4. Row(t)
    BY <1>1, <1>10 DEF AnswerInv, RunsKnown
  <2>5. QED
    BY <1>1, <1>10, <2>2, <2>3, <2>4, RowWritten
<1>11. ASSUME NEW t \in Task PROVE Reported(t)'
  <2>1. Reported(t)
    BY DEF ReportInv
  <2>2. AgentReported(Run(t))' => status'[t] \in TerminalStatus
    <3>1. CASE pc[Run(t)] = "agent_push"
      BY <1>1, <1>3, <1>9, <2>1, <3>1 DEF Reported, AgentReported
    <3>2. CASE pc[Run(t)] # "agent_push"
      BY <1>1, <1>3, <1>10, <3>2 DEF AgentReported
    <3>3. QED
      BY <3>1, <3>2
  <2>3. pc'[Run(t)] = "terminal_check"
            => reports[t] = <<>> \/ BudgetTold(t) \/ status'[t] \in TerminalStatus
    BY <1>1, <1>3, <1>9, <2>1 DEF Reported
  <2>4. QED
    BY <1>1, <1>3, <2>1, <2>2, <2>3 DEF Reported, AgentOutcome, BudgetTold
<1>12. QED
  BY <1>6, <1>8, <1>11 DEF ReportInv

LEMMA CrashReports ==
    ASSUME ReportInv, AnswerInv', Crash
    PROVE  ReportInv'
<1>1. /\ UNCHANGED <<status, reports, outcome, emitting>> /\ tokenSet' = {} /\ queue' = <<>>
      /\ reply' = [c \in Client |-> "none"]
  BY DEF Crash, tables
<1>2. /\ \A r \in Runs : reply'[r] = "none"
      /\ \A t \in Task : pc'[Run(t)] \in {pc[Run(t)], "ended"}
  <2>1. \A r \in Runs : r \in Client /\ r # Boot
    BY ClientsApart
  <2>2. \A t \in Task : Run(t) \in Runs
    BY ClientsApart
  <2>3. QED
    BY <1>1, <2>1, <2>2 DEF Crash
<1>3. OwnWrites'
  BY <1>1 DEF OwnWrites
<1>4. QED
  BY <1>1, <1>2, <1>3, ReportsStay

LEMMA ReportInit == Init /\ Canceller = {} => ReportInv
<1> SUFFICES ASSUME Init, Canceller = {} PROVE ReportInv
  OBVIOUS
<1>1. /\ AnswerInv /\ Len(queue) = 0 /\ tokenSet = {}
      /\ reports = [t \in Task |-> <<>>]
      /\ \A r \in Runs : pc[r] = "idle" /\ reply[r] = "none"
  <2>1. \A r \in Runs : r \in Client /\ r # Boot
    BY ClientsApart
  <2>2. QED
    BY <2>1, AnswerInit DEF Init, StoreInit, RuntimeInit
<1>2. OwnWrites /\ Uninterrupted
  BY <1>1 DEF OwnWrites, Uninterrupted
<1>3. \A t \in Task : Reported(t)
  <2>1. "started" \in EventType
    BY DEF EventType
  <2>2. QED
    BY <1>1, <2>1, FirstTold, ClientsApart DEF Reported, AgentReported
<1>4. QED
  BY <1>1, <1>2, <1>3 DEF ReportInv

LEMMA ReportStep == ReportInv /\ [Next]_vars => ReportInv'
<1> SUFFICES ASSUME ReportInv, [Next]_vars PROVE ReportInv'
  OBVIOUS
<1>1. AnswerInv'
  BY AnswerStep DEF ReportInv
<1>2. Cancels = {}
  BY DEF ReportInv, Uninterrupted, Cancels
<1>3. CASE AllSettled \/ UNCHANGED vars
  <2>1. UNCHANGED <<queue, reply, pc, status, reports, outcome, emitting, tokenSet>>
    BY <1>3 DEF AllSettled, vars, storeVars, runtimeVars
  <2>2. OwnWrites'
    BY <2>1 DEF ReportInv, OwnWrites, OwnWrite, EmitWrite, Updates
  <2>3. QED
    BY <1>1, <2>1, <2>2, ReportsStay DEF ReportInv, Uninterrupted
<1>4. QED
  BY <1>1, <1>2, <1>3, WriterReports, RunKeepsReports, StartReports, RespondReports,
     StopReports, GoneReports, BootReports, CrashReports DEF Next

(* While nobody cancels, the main loop hears of a task's end at most once, *)
(* though both the agent and the runtime report it: what the agent wrote   *)
(* is what the runtime reads before it reports (agents/base.py; runtime.py,*)
(* _task_is_terminal), whatever answers, stops, recovery and crashes do.   *)
(* A spent budget is the exception: its notice leaves the row open, so the *)
(* runtime adds one completion to it, and nothing else.                    *)
THEOREM OneEndIsReported ==
    ASSUME Canceller = {}
    PROVE  Spec => []OneTerminalReport
<1>1. ReportInv => OneTerminalReport
  BY DEF ReportInv, Reported, ToldOnce, OneTerminalReport
<1>2. Init => ReportInv
  BY ReportInit
<1>3. QED
  BY <1>1, <1>2, ReportStep, PTL DEF Spec
-----------------------------------------------------------------------------
(* Confirmed cancellations.  What would undo one; what a cancellation      *)
(* still has to hear of.                                                   *)
Harms(op) ==
    \/ op.kind = "status" /\ op.status # "cancelled"
    \/ op.kind = "event" /\ op.type \in {"completed", "failed", "needs_input"}
    \/ op.kind \in {"checkpoint", "consume"}
CancelAwaits(op) ==
    op.by \in Cancels =>
        /\ op.task = subject[op.by] /\ reply[op.by] = "none"
        /\ \/ pc[op.by] = "marking" /\ op.kind = "status" /\ op.status = "cancelled"
           \/ /\ pc[op.by] = "announcing"
              /\ op.kind = "event" /\ op.type = "cancelled" /\ op.id = "999998"

(* A task whose row was marked, and one whose event was logged as well.    *)
Hit(t) ==
    \/ t \in confirmed
    \/ \E c \in Cancels : subject[c] = t /\ pc[c] \in {"announcing", "push"}
Down(t) ==
    \/ t \in confirmed
    \/ \E c \in Cancels : /\ subject[c] = t
                          /\ pc[c] = "push" \/ (pc[c] = "announcing" /\ reply[c] = "ok")

(* A run that will write nothing more, except that it was cancelled. *)
Quelled(t) ==
    ~Live(Run(t)) \/ reply[Run(t)] = "cancelled" \/ pc[Run(t)] \in {"closing", "push"}
SoleRun == \A t \in Task : Live(Run(t)) /\ ~Asked(t) => registered[t] = "run"
Quell == \A t \in Task : Hit(t) /\ ~Asked(t) => Quelled(t) /\ Settled(t)

(* What harms is ahead of the event of the cancellation, and is over when  *)
(* that is logged.                                                         *)
Spared(op) == Down(op.task) /\ ~Asked(op.task) => ~Harms(op)
After(a, b) ==
    a.by \in Cancels => /\ a.by # b.by
                        /\ a.kind = "event" /\ b.task = a.task /\ ~Asked(b.task) => ~Harms(b)
WritesOK == \A i \in 1 .. Len(queue) : CancelAwaits(queue[i]) /\ Spared(queue[i])
AfterOK == \A i, j \in 1 .. Len(queue) : i < j => After(queue[i], queue[j])
RowsDown == \A t \in Task : Down(t) /\ ~Asked(t) => status[t] = "cancelled"

QuellInv ==
    /\ AnswerInv
    /\ SoleRun
    /\ Quell
    /\ WritesOK
    /\ AfterOK
    /\ RowsDown

LEMMA QuellTypes ==
    ASSUME QuellInv
    PROVE  /\ AnswerInv /\ TypeInv /\ queue \in Seq(Op) /\ reply \in [Client -> Reply]
           /\ pc \in [Client -> RunLabel \cup CallLabel \cup BootLabel]
           /\ registered \in [Task -> {"none", "run", "resume"}]
           /\ status \in [Task -> Status \cup {"absent"}]
           /\ subject \in [Cancels \cup Responds \cup {Boot} -> Task \cup {NoTask}]
           /\ confirmed \subseteq Task
           /\ \A op \in Op : op.task \in Task
  BY AnswerTypes DEF QuellInv, TypeInv, TypeOK, Op

(* The same for the queue as for the other invariants of it. *)
LEMMA QuellQueue ==
    ASSUME NEW q \in Seq(Op),
           \A i \in 1 .. Len(q) : \A o \in Op : o = q[i] => CancelAwaits(o)' /\ Spared(o)',
           \A i, j \in 1 .. Len(q) : \A a, b \in Op :
               i < j /\ a = q[i] /\ b = q[j] => After(a, b)',
           \/ queue' = q
           \/ \E op \in Op :
                 /\ queue' = Append(q, op) /\ CancelAwaits(op)' /\ Spared(op)'
                 /\ \A i \in 1 .. Len(q) : \A o \in Op : o = q[i] => After(o, op)'
    PROVE  WritesOK' /\ AfterOK'
<1> DEFINE n == Len(q)
<1>1. n \in Nat /\ \A i \in 1 .. n : q[i] \in Op
  OBVIOUS
<1>2. \A op \in Op : op.task \in Task
  BY DEF Op
<1>4. CASE queue' = q
  <2>1. ASSUME NEW i \in 1 .. n PROVE CancelAwaits(queue[i])' /\ Spared(queue[i])'
    BY <1>1, <1>4 DEF CancelAwaits, Spared, Harms
  <2>2. ASSUME NEW i \in 1 .. n, NEW j \in 1 .. n, i < j PROVE After(queue[i], queue[j])'
    BY <1>1, <1>4, <2>2 DEF After, Harms
  <2>3. QED
    BY <1>4, <2>1, <2>2 DEF WritesOK, AfterOK
<1>5. ASSUME NEW op \in Op, queue' = Append(q, op), CancelAwaits(op)', Spared(op)',
             \A i \in 1 .. n : \A o \in Op : o = q[i] => After(o, op)'
      PROVE  WritesOK' /\ AfterOK'
  <2>1. /\ Len(queue') = n + 1 /\ queue'[n + 1] = op
        /\ \A i \in 1 .. n : queue'[i] = q[i]
        /\ \A i \in 1 .. n + 1 : i \in 1 .. n \/ i = n + 1
    BY <1>5
  <2>8. /\ \A i \in 1 .. n : \A o \in Op : o = q[i] => CancelAwaits(o)' /\ Spared(o)'
        /\ \A i, j \in 1 .. n : \A a, b \in Op :
              i < j /\ a = q[i] /\ b = q[j] => After(a, b)'
    OBVIOUS
  <2> HIDE DEF n
  <2>2. ASSUME NEW i \in 1 .. n + 1
        PROVE  \A o \in Op : o = queue'[i] => CancelAwaits(o)' /\ Spared(o)'
    BY <1>1, <1>5, <2>1, <2>8
  <2>3. ASSUME NEW i \in 1 .. n + 1, NEW j \in 1 .. n + 1, i < j
        PROVE  \A a, b \in Op : a = queue'[i] /\ b = queue'[j] => After(a, b)'
    <3>1. i \in 1 .. n
      BY <1>1, <2>1, <2>3
    <3>2. CASE j \in 1 .. n
      BY <1>1, <2>1, <2>3, <2>8, <3>1, <3>2
    <3>3. CASE j = n + 1
      BY <1>1, <1>5, <2>1, <3>1, <3>3
    <3>4. QED
      BY <2>1, <3>2, <3>3
  <2>4. \A i \in 1 .. n + 1 : queue'[i] \in Op
    BY <1>1, <1>5, <2>1
  <2>5. WritesOK'
    BY <2>1, <2>2, <2>4 DEF WritesOK, CancelAwaits, Spared, Harms
  <2>6. AfterOK'
    BY <2>1, <2>3, <2>4 DEF AfterOK, After, Harms
  <2>7. QED
    BY <2>5, <2>6
<1>6. QED
  BY <1>4, <1>5

(* A queued write, and the same write whose caller may have gone. *)
SameWrite(a, b) ==
    /\ b.kind = a.kind /\ b.task = a.task /\ b.status = a.status
    /\ b.type = a.type /\ b.id = a.id /\ b.by \in {a.by, Nobody}

(* Steps that write no row.  Of the task a new write is for it is known    *)
(* that the write spares it.                                               *)
LEMMA QuellStays ==
    ASSUME QuellInv, AnswerInv', UNCHANGED status, SoleRun',
           \A t \in Task : Asked(t) => Asked(t)',
           \A t \in Task : ~Asked(t)' /\ Hit(t)' => Quelled(t)' /\ Settled(t)',
           \A t \in Task : ~Asked(t)' /\ Down(t)' => Down(t),
           NEW q \in Seq(Op), Len(q) = Len(queue),
           \A i \in 1 .. Len(queue) : SameWrite(queue[i], q[i]),
           \A i \in 1 .. Len(q) : \A o \in Op : o = q[i] => CancelAwaits(o)',
           \/ queue' = q
           \/ \E op \in Op :
                 /\ queue' = Append(q, op) /\ CancelAwaits(op)'
                 /\ Harms(op) /\ Hit(op.task)' => Asked(op.task)'
                 /\ \A i \in 1 .. Len(q) : op.by \in Cancels => q[i].by # op.by
    PROVE  QuellInv'
<1>1. /\ \A op \in Op : op.task \in Task
      /\ queue \in Seq(Op) /\ Len(queue) \in Nat
  BY QuellTypes
<1>2. \A i \in 1 .. Len(q) : /\ q[i] \in Op /\ queue[i] \in Op /\ SameWrite(queue[i], q[i])
                             /\ Spared(queue[i]) /\ CancelAwaits(queue[i])
                             /\ \A j \in 1 .. Len(q) : i < j => After(queue[i], queue[j])
  BY <1>1 DEF QuellInv, WritesOK, AfterOK
<1>3. ASSUME NEW i \in 1 .. Len(q), NEW o \in Op, o = q[i] PROVE CancelAwaits(o)' /\ Spared(o)'
  <2>1. Spared(o)'
    BY <1>1, <1>2, <1>3 DEF SameWrite, Spared, Harms
  <2>2. QED
    BY <1>3, <2>1
<1>4. ASSUME NEW i \in 1 .. Len(q), NEW j \in 1 .. Len(q), i < j,
             NEW a \in Op, NEW b \in Op, a = q[i], b = q[j]
      PROVE  After(a, b)'
  <2>1. /\ After(queue[i], queue[j]) /\ SameWrite(queue[i], a) /\ SameWrite(queue[j], b)
        /\ b.task \in Task
    BY <1>1, <1>2, <1>4
  <2>2. Nobody \notin Cancels
    BY ClientMembers, StoreConstants
  <2>3. QED
    BY <2>1, <2>2 DEF After, SameWrite, Harms
<1>5. ASSUME NEW op \in Op, CancelAwaits(op)', Harms(op) /\ Hit(op.task)' => Asked(op.task)',
             \A i \in 1 .. Len(q) : op.by \in Cancels => q[i].by # op.by
      PROVE  /\ Spared(op)'
             /\ \A i \in 1 .. Len(q) : \A o \in Op : o = q[i] => After(o, op)'
  <2>1. \A t \in Task : Down(t)' => Hit(t)'
    BY DEF Down, Hit
  <2>2. op.task \in Task
    BY <1>1
  <2>3. Spared(op)'
    BY <1>5, <2>1, <2>2 DEF Spared, Harms
  <2>4. ASSUME NEW i \in 1 .. Len(q), NEW o \in Op, o = q[i], o.by \in Cancels
        PROVE  After(o, op)'
    <3>1. CancelAwaits(o)' /\ o.by # op.by
      BY <1>5, <2>4
    <3>2. o.kind = "event" => pc'[o.by] = "announcing" /\ subject'[o.by] = o.task
      BY <2>4, <3>1 DEF CancelAwaits
    <3>3. o.kind = "event" => Hit(o.task)'
      BY <2>4, <3>2 DEF Hit
    <3>4. QED
      BY <1>5, <2>2, <3>1, <3>3 DEF After, Harms
  <2>5. \A i \in 1 .. Len(q) : \A o \in Op : o = q[i] => After(o, op)'
    BY <2>4 DEF After
  <2>6. QED
    BY <2>3, <2>5
<1>6. WritesOK' /\ AfterOK'
  <2>1. \/ queue' = q
        \/ \E op \in Op :
              /\ queue' = Append(q, op) /\ CancelAwaits(op)' /\ Spared(op)'
              /\ \A i \in 1 .. Len(q) : \A o \in Op : o = q[i] => After(o, op)'
    BY <1>5
  <2>2. QED
    BY <1>3, <1>4, <2>1, QuellQueue
<1>7. Quell' /\ RowsDown'
  BY DEF QuellInv, Quell, RowsDown
<1>8. QED
  BY <1>6, <1>7 DEF QuellInv

(* Steps no cancellation takes part in. *)
LEMMA QuellBeside ==
    ASSUME QuellInv, AnswerInv', UNCHANGED <<status, confirmed>>, SoleRun',
           \A c \in Cancels : pc'[c] = pc[c] /\ reply'[c] = reply[c] /\ subject'[c] = subject[c],
           \A t \in Task : Asked(t) => Asked(t)',
           \A t \in Task : Hit(t) /\ Quelled(t) /\ Settled(t) /\ ~Asked(t)'
                               => Quelled(t)' /\ Settled(t)',
           \/ queue' = queue
           \/ \E op \in Op : /\ queue' = Append(queue, op) /\ op.by \notin Cancels
                             /\ Harms(op) /\ Hit(op.task) => Asked(op.task)'
    PROVE  QuellInv'
<1>1. \A t \in Task : /\ Hit(t)' <=> Hit(t)
                      /\ Down(t)' <=> Down(t)
  BY DEF Hit, Down
<1>2. queue \in Seq(Op) /\ \A op \in Op : op.task \in Task
  BY QuellTypes
<1>3. \A i \in 1 .. Len(queue) : SameWrite(queue[i], queue[i])
  BY DEF SameWrite
<1>4. \A i \in 1 .. Len(queue) : \A o \in Op : o = queue[i] => CancelAwaits(o)'
  BY DEF QuellInv, WritesOK, CancelAwaits
<1>5. \A t \in Task : ~Asked(t)' /\ Hit(t)' => Quelled(t)' /\ Settled(t)'
  BY <1>1 DEF QuellInv, Quell
<1>6. \A t \in Task : ~Asked(t)' /\ Down(t)' => Down(t)
  BY <1>1
<1>7. \/ queue' = queue
      \/ \E op \in Op :
            /\ queue' = Append(queue, op) /\ CancelAwaits(op)'
            /\ Harms(op) /\ Hit(op.task)' => Asked(op.task)'
            /\ \A i \in 1 .. Len(queue) : op.by \in Cancels => queue[i].by # op.by
  BY <1>1, <1>2 DEF CancelAwaits
<1>8. QED
  BY <1>2, <1>3, <1>4, <1>5, <1>6, <1>7, QuellStays

(* A run that is quelled writes at most that it was cancelled. *)
LEMMA QuelledActs ==
    ASSUME AnswerInv, NEW r \in Runs, ResumeRun(r) \/ StepRun(r),
           reply[r] = "cancelled" \/ pc[r] \in {"closing", "push"}
    PROVE  /\ pc'[r] \in Closing
           /\ \/ queue' = queue
              \/ \E op \in Op : queue' = Append(queue, op) /\ op.by = r /\ ~Harms(op)
<1>1. /\ r \in Client /\ TaskOf(r) \in Task /\ queue \in Seq(Op)
      /\ pc \in [Client -> RunLabel \cup CallLabel \cup BootLabel]
  BY AnswerTypes, ClientsApart
<1>2. \A l : pc' = [pc EXCEPT ![r] = l] => pc'[r] = l
  BY <1>1
<1>3. Finished(r) => pc'[r] \in Closing
  BY <1>2 DEF Finished, Goto, Closing
<1>4. CASE StepRun(r)
  <2>1. Quiet /\ pc[r] = "push"
    BY <1>1, <1>4 DEF StepRun, Quiet, Announce, Instantiate, InstantiateFails,
       InstantiateRaises, AgentEmits, AgentPushes, AgentReturns, CheckTerminal, Report, LastPush
  <2>2. LastPush(r)
    BY <1>4, <2>1 DEF StepRun, Announce, Instantiate, InstantiateFails, InstantiateRaises,
       AgentEmits, AgentPushes, AgentReturns, CheckTerminal, Report
  <2>3. QED
    BY <1>3, <2>2 DEF LastPush
<1>5. CASE LastEventLogged(r)
  <2>1. queue' = queue /\ (Finished(r) \/ pc' = [pc EXCEPT ![r] = "push"])
    BY <1>5 DEF LastEventLogged, Goto
  <2>2. QED
    BY <1>2, <1>3, <2>1 DEF Closing
<1>6. CASE CancelledElsewhere(r)
  BY <1>3, <1>6 DEF CancelledElsewhere
<1>7. CASE CancelledInExecute(r)
  <2>1. pc'[r] = "closing" /\ queue' = Append(queue, EventOp(r, TaskOf(r), "cancelled", "3"))
    BY <1>2, <1>7 DEF CancelledInExecute, Emit, Submit, Goto
  <2>2. /\ EventOp(r, TaskOf(r), "cancelled", "3") \in Op
        /\ EventOp(r, TaskOf(r), "cancelled", "3").by = r
        /\ ~Harms(EventOp(r, TaskOf(r), "cancelled", "3"))
    <3>1. /\ EventOp(r, TaskOf(r), "cancelled", "3") \in Op
          /\ EventOp(r, TaskOf(r), "cancelled", "3").by = r
      BY <1>1, OpTyped DEF EventType, EventId
    <3>2. ~Harms(EventOp(r, TaskOf(r), "cancelled", "3"))
      BY DEF EventOp, MakeOp, Harms
    <3>3. QED
      BY <3>1, <3>2
  <2>3. QED
    BY <2>1, <2>2 DEF Closing
<1>8. CASE ResumeRun(r)
  <2>1. LastEventLogged(r) \/ CancelledElsewhere(r) \/ CancelledInExecute(r)
    BY <1>8 DEF ResumeRun, BecomeRunning, StartLogged, StartRefused, AgentLogged, Checkpointed, Wake
  <2>2. QED
    BY <1>5, <1>6, <1>7, <2>1
<1>9. QED
  BY <1>4, <1>8

LEMMA RunQuells ==
    ASSUME QuellInv, AnswerInv', NEW r \in Runs, RunStep(r)
    PROVE  QuellInv'
<1> DEFINE t == TaskOf(r)
<1>1. /\ RunActs(r) /\ AnswerInv
      /\ UNCHANGED <<status, subject, confirmed>>
      /\ queue \in Seq(Op) /\ registered \in [Task -> {"none", "run", "resume"}]
      /\ subject \in [Cancels \cup Responds \cup {Boot} -> Task \cup {NoTask}]
  BY RunSteppedActs, QuellTypes
     DEF RunStep, ResumeRun, StepRun, tables, supervisorVars, callVars
<1>2. /\ t \in Task /\ r \in Client /\ (r = Run(t) \/ r = Resume(t)) /\ Run(t) # Resume(t)
      /\ r \notin Cancels
      /\ \A c \in Cancels : c \in Client /\ c # r
      /\ \A u \in Task : /\ Run(u) \in Client /\ (u # t => Run(u) # r)
                         /\ Start(u) \in Client /\ Start(u) # r
  BY ClientsApart, ClientMembers
<1>3. /\ pc[r] \notin {"idle", "ended"} /\ reply'[r] = "none"
      /\ \A c \in Client : c # r => pc'[c] = pc[c] /\ reply'[c] = reply[c]
      /\ \/ pc'[r] = "ended" /\ registered' = [registered EXCEPT ![t] = "none"]
         \/ pc'[r] # "ended" /\ UNCHANGED registered
      /\ queue' = queue \/ \E op \in Op : RunQueues1(r, op)
  BY <1>1 DEF RunActs, Live
<1>4. r = Resume(t) => Asked(t)
  BY <1>1, <1>2, <1>3 DEF AnswerInv, ResumeRefused, Asked
<1>5. \A u \in Task : Asked(u)' <=> Asked(u)
  BY <1>1 DEF Asked
<1>6. \A u \in Task : Settled(u)' <=> Settled(u)
  BY <1>1, <1>2, <1>3 DEF Settled, Told, Row
<1>7. SoleRun'
  <2> SUFFICES ASSUME NEW u \in Task, Live(Run(u))', ~Asked(u)' PROVE registered'[u] = "run"
    BY DEF SoleRun
  <2>1. Live(Run(u)) => registered[u] = "run"
    BY <1>5 DEF QuellInv, SoleRun
  <2>2. CASE u # t
    BY <1>1, <1>2, <1>3, <2>1, <2>2 DEF Live
  <2>3. CASE u = t
    <3>1. r = Run(t) /\ pc'[r] # "ended"
      BY <1>2, <1>4, <1>5, <2>3 DEF Live
    <3>2. QED
      BY <1>3, <2>1, <2>3, <3>1 DEF Live
  <2>4. QED
    BY <2>2, <2>3
<1>8. Quelled(t) /\ ~Asked(t) =>
          /\ Quelled(t)'
          /\ \/ queue' = queue
             \/ \E op \in Op : queue' = Append(queue, op) /\ op.by = r /\ ~Harms(op)
  <2> HAVE Quelled(t) /\ ~Asked(t)
  <2>1. r = Run(t) /\ (reply[r] = "cancelled" \/ pc[r] \in {"closing", "push"})
    BY <1>2, <1>3, <1>4 DEF Quelled, Live
  <2>2. /\ pc'[r] \in Closing
        /\ \/ queue' = queue
           \/ \E op \in Op : queue' = Append(queue, op) /\ op.by = r /\ ~Harms(op)
    BY <1>1, <2>1, QuelledActs DEF RunStep
  <2>3. QED
    BY <2>1, <2>2 DEF Quelled, Live, Closing
<1>9. \A u \in Task : Hit(u) /\ Quelled(u) /\ Settled(u) /\ ~Asked(u)' => Quelled(u)' /\ Settled(u)'
  <2> SUFFICES ASSUME NEW u \in Task, Quelled(u), Settled(u), ~Asked(u)
               PROVE  Quelled(u)' /\ Settled(u)'
    BY <1>5
  <2>1. CASE u # t
    BY <1>2, <1>3, <1>6, <2>1 DEF Quelled, Live
  <2>2. CASE u = t
    BY <1>6, <1>8, <2>2
  <2>3. QED
    BY <2>1, <2>2
<1>10. \/ queue' = queue
       \/ \E op \in Op : /\ queue' = Append(queue, op) /\ op.by \notin Cancels
                         /\ Harms(op) /\ Hit(op.task) => Asked(op.task)'
  <2>1. CASE Hit(t) /\ ~Asked(t)
    <3>1. Quelled(t)
      BY <1>2, <2>1 DEF QuellInv, Quell
    <3>2. QED
      BY <1>2, <1>8, <2>1, <3>1
  <2>2. CASE ~(Hit(t) /\ ~Asked(t))
    <3>1. Hit(t) => Asked(t)'
      BY <1>2, <1>5, <2>2
    <3>2. queue' = queue \/ \E op \in Op : queue' = Append(queue, op) /\ op.by = r /\ op.task = t
      BY <1>3 DEF RunQueues1
    <3>3. QED
      BY <1>2, <3>1, <3>2
  <2>3. QED
    BY <2>1, <2>2
<1>11. \A c \in Cancels : pc'[c] = pc[c] /\ reply'[c] = reply[c] /\ subject'[c] = subject[c]
  BY <1>1, <1>2, <1>3
<1>12. QED
  BY <1>1, <1>5, <1>7, <1>9, <1>10, <1>11, QuellBeside

LEMMA StartQuells ==
    ASSUME QuellInv, AnswerInv', NEW t \in Task, StartStep(t)
    PROVE  QuellInv'
<1>1. /\ StartActs(t) /\ AnswerInv
      /\ UNCHANGED <<status, subject, confirmed>>
      /\ queue \in Seq(Op) /\ registered \in [Task -> {"none", "run", "resume"}]
  BY StartSteppedActs, QuellTypes DEF StartStep, tables, bootVars, callVars
<1>2. /\ Start(t) \in Client /\ Start(t) \notin Cancels /\ Run(t) \notin Cancels
      /\ \A c \in Cancels : c \in Client /\ c # Start(t) /\ c # Run(t)
      /\ \A u \in Task : /\ Run(u) \in Client /\ Run(u) # Start(t)
                         /\ Start(u) \in Client /\ Start(u) # Run(t)
                         /\ u # t => Run(u) # Run(t) /\ Start(u) # Start(t)
  BY ClientsApart, ClientMembers
<1>3. /\ reply'[Start(t)] = "none"
      /\ \A c \in Client : c # Start(t) => /\ reply'[c] = reply[c]
                                           /\ c # Run(t) => pc'[c] = pc[c]
      /\ \/ StartQueues1(t) /\ pc'[Run(t)] = pc[Run(t)] /\ UNCHANGED registered
         \/ StartSpawns(t)
  BY <1>1 DEF StartActs
<1>4. \A u \in Task : /\ Asked(u)' <=> Asked(u)
                      /\ Settled(u) => Settled(u)'
  BY <1>1, <1>2, <1>3 DEF Asked, Settled, Told, Row
<1>5. StartSpawns(t) => /\ ~Settled(t) /\ registered' = [registered EXCEPT ![t] = "run"]
                        /\ \E op \in Op : queue' = Append(queue, op) /\ op.by = Run(t) /\ op.task = t
  BY DEF StartSpawns, Settled
<1>6. \A u \in Task : Settled(u) => pc'[Run(u)] = pc[Run(u)] /\ reply'[Run(u)] = reply[Run(u)]
  BY <1>2, <1>3, <1>5
<1>7. SoleRun'
  <2> SUFFICES ASSUME NEW u \in Task, Live(Run(u))', ~Asked(u)' PROVE registered'[u] = "run"
    BY DEF SoleRun
  <2>1. Live(Run(u)) => registered[u] = "run"
    BY <1>4 DEF QuellInv, SoleRun
  <2>2. CASE StartSpawns(t)
    BY <1>1, <1>2, <1>3, <1>5, <2>1, <2>2 DEF Live
  <2>3. CASE ~StartSpawns(t)
    BY <1>2, <1>3, <2>1, <2>3 DEF Live
  <2>4. QED
    BY <2>2, <2>3
<1>8. \A u \in Task : Hit(u) /\ Quelled(u) /\ Settled(u) /\ ~Asked(u)' => Quelled(u)' /\ Settled(u)'
  BY <1>4, <1>6 DEF Quelled, Live
<1>9. \/ queue' = queue
      \/ \E op \in Op : /\ queue' = Append(queue, op) /\ op.by \notin Cancels
                        /\ Harms(op) /\ Hit(op.task) => Asked(op.task)'
  <2>1. CASE StartSpawns(t)
    <3>1. Hit(t) => Asked(t)'
      BY <1>4, <1>5, <2>1 DEF QuellInv, Quell
    <3>2. QED
      BY <1>2, <1>5, <2>1, <3>1
  <2>2. CASE StartQueues1(t)
    <3>1. \/ queue' = queue
          \/ \E op \in Op : /\ queue' = Append(queue, op) /\ op.by = Start(t)
                            /\ op.kind \in {"generation", "create"}
      BY <2>2 DEF StartQueues1
    <3>2. QED
      BY <1>2, <3>1 DEF Harms
  <2>3. QED
    BY <1>3, <2>1, <2>2
<1>10. \A c \in Cancels : pc'[c] = pc[c] /\ reply'[c] = reply[c] /\ subject'[c] = subject[c]
  BY <1>1, <1>2, <1>3
<1>11. QED
  BY <1>1, <1>4, <1>7, <1>8, <1>9, <1>10, QuellBeside

LEMMA RespondQuells ==
    ASSUME QuellInv, AnswerInv', NEW p \in Responds, RespondStep(p)
    PROVE  QuellInv'
<1>1. /\ RespondActs(p) /\ AnswerInv /\ UNCHANGED <<status, confirmed>>
      /\ queue \in Seq(Op) /\ registered \in [Task -> {"none", "run", "resume"}]
      /\ subject \in [Cancels \cup Responds \cup {Boot} -> Task \cup {NoTask}]
      /\ pc \in [Client -> RunLabel \cup CallLabel \cup BootLabel]
      /\ \A r \in Runs : reply'[r] = reply[r]
      /\ \A c \in Cancels \cup {Boot} : subject'[c] = subject[c]
      /\ \A t \in Task : /\ pc'[Run(t)] = pc[Run(t)]
                         /\ Settled(t)' <=> Settled(t)
                         /\ Asked(t) => Asked(t)'
  BY RespondSteppedActs, RespondShape, QuellTypes DEF RespondStep, tables
<1>2. /\ p \in Client /\ p \notin Cancels /\ p \in Responds
      /\ \A c \in Cancels : c \in Client /\ c # p
      /\ \A t \in Task : Run(t) \in Runs /\ Resume(t) \notin Cancels /\ Resume(t) \in Client
  BY ClientsApart, ClientMembers
<1>3. /\ \A c \in Client : c # p => reply'[c] = reply[c]
      /\ RespondReads(p) \/ RespondGoes(p) \/ RespondSpawns(p)
  BY <1>1 DEF RespondActs
<1>4. \A c \in Cancels : pc'[c] = pc[c] /\ reply'[c] = reply[c] /\ subject'[c] = subject[c]
  <2>1. \/ \E l : pc' = [pc EXCEPT ![p] = l]
        \/ subject[p] \in Task /\ pc' = [pc EXCEPT ![p] = "returned", ![Resume(subject[p])] = "running"]
    BY <1>3 DEF RespondReads, RespondGoes, RespondSpawns
  <2>2. QED
    BY <1>1, <1>2, <1>3, <2>1
<1>5. subject[p] \in Task => Asked(subject[p])
  BY <1>2 DEF Asked
<1>6. SoleRun'
  <2> SUFFICES ASSUME NEW u \in Task, Live(Run(u))', ~Asked(u)' PROVE registered'[u] = "run"
    BY DEF SoleRun
  <2>1. registered[u] = "run" /\ ~Asked(u)
    BY <1>1 DEF QuellInv, SoleRun, Live
  <2>2. CASE RespondSpawns(p)
    BY <1>1, <1>5, <2>1, <2>2 DEF RespondSpawns
  <2>3. CASE ~RespondSpawns(p)
    BY <1>3, <2>1, <2>3 DEF RespondReads, RespondGoes
  <2>4. QED
    BY <2>2, <2>3
<1>7. \A u \in Task : Hit(u) /\ Quelled(u) /\ Settled(u) /\ ~Asked(u)' => Quelled(u)' /\ Settled(u)'
  BY <1>1, <1>2 DEF Quelled, Live
<1>8. \/ queue' = queue
      \/ \E op \in Op : /\ queue' = Append(queue, op) /\ op.by \notin Cancels
                        /\ Harms(op) /\ Hit(op.task) => Asked(op.task)'
  <2>1. \/ queue' = queue
        \/ \E op \in Op : /\ queue' = Append(queue, op)
                          /\ op.task = subject[p] /\ subject[p] \in Task
                          /\ op.by \in {p, Resume(subject[p])}
    BY <1>3 DEF RespondReads, RespondGoes, RespondSpawns
  <2>2. QED
    BY <1>1, <1>2, <1>5, <2>1
<1>9. QED
  BY <1>1, <1>4, <1>6, <1>7, <1>8, QuellBeside

(* Steps beside the runs leave them as they are, or cancel one. *)
LEMMA AsideCalm ==
    ASSUME QuellInv, Aside
    PROVE  /\ SoleRun'
           /\ \A t \in Task : /\ Asked(t)' <=> Asked(t)
                              /\ Settled(t) => Settled(t)'
                              /\ Quelled(t) => Quelled(t)'
<1>1. /\ UNCHANGED <<status, registered>>
      /\ \A r \in Runs : pc'[r] = pc[r] /\ (reply'[r] = reply[r] \/ (Live(r) /\ reply'[r] = "cancelled"))
      /\ \A p \in Responds : subject'[p] = subject[p]
      /\ \A c \in Starts \cup Responds :
            /\ reply'[c] = reply[c]
            /\ pc'[c] = pc[c] \/ (pc'[c] = "gone" /\ pc[c] \notin {"idle", "returned"})
  BY DEF Aside
<1>2. \A t \in Task : Run(t) \in Runs /\ Start(t) \in Starts
  BY ClientsApart
<1>3. \A t \in Task : /\ Asked(t)' <=> Asked(t)
                      /\ Settled(t) => Settled(t)'
                      /\ Quelled(t) => Quelled(t)'
  BY <1>1, <1>2 DEF Asked, Settled, Told, Row, Quelled, Live
<1>4. SoleRun'
  BY <1>1, <1>2, <1>3 DEF QuellInv, SoleRun, Live
<1>5. QED
  BY <1>3, <1>4

LEMMA StopQuells ==
    ASSUME QuellInv, AnswerInv', NEW s \in Stops, StopStep(s)
    PROVE  QuellInv'
<1>1. /\ AnswerInv /\ Aside /\ UNCHANGED <<status, subject, confirmed>>
      /\ pc \in [Client -> RunLabel \cup CallLabel \cup BootLabel]
      /\ reply \in [Client -> Reply]
  BY StopAside, QuellTypes DEF StopStep, tables, supervisorVars, callVars
<1>2. /\ s \in Client /\ s \notin Cancels /\ AnyTask \in Task
      /\ \A c \in Cancels : c \in Client /\ c # s
  BY ClientKinds, ClientMembers
<1>3. \A c \in Cancels : pc'[c] = pc[c] /\ reply'[c] = reply[c] /\ subject'[c] = subject[c]
  BY <1>1, <1>2 DEF StopStep, StopSubmit, StopReturn, Wake, Goto
<1>4. /\ MakeOp(s, "stop", AnyTask) \in Op /\ MakeOp(s, "stop", AnyTask).by = s
      /\ MakeOp(s, "stop", AnyTask).kind = "stop"
  BY <1>2, OpTyped DEF OpKind
<1>5. \/ queue' = queue
      \/ \E op \in Op : /\ queue' = Append(queue, op) /\ op.by \notin Cancels
                        /\ Harms(op) /\ Hit(op.task) => Asked(op.task)'
  <2>1. queue' = queue \/ queue' = Append(queue, MakeOp(s, "stop", AnyTask))
    BY DEF StopStep, StopSubmit, StopReturn, Submit
  <2>2. ~Harms(MakeOp(s, "stop", AnyTask))
    BY <1>4 DEF Harms
  <2>3. QED
    BY <1>2, <1>4, <2>1, <2>2
<1>6. QED
  BY <1>1, <1>3, <1>5, AsideCalm, QuellBeside

(* Recovery treats what a crash left active, which nobody cancelled. *)
LEMMA BootQuells ==
    ASSUME QuellInv, AnswerInv', BootStep
    PROVE  QuellInv'
<1>1. /\ AnswerInv /\ Aside /\ TypeInv /\ BootMoves /\ UNCHANGED <<status, confirmed>>
      /\ pc \in [Client -> RunLabel \cup CallLabel \cup BootLabel]
      /\ reply \in [Client -> Reply]
  BY BootAside, QuellTypes, BootSteppedMoves DEF BootStep, tables
<1>2. /\ Boot \in Client /\ Boot \notin Cancels /\ AnyTask \in Task
      /\ \A c \in Cancels : c \in Client /\ c # Boot /\ c \in Callers
  BY ClientKinds, ClientMembers DEF Callers
<1>3. \A c \in Cancels : pc'[c] = pc[c] /\ reply'[c] = reply[c] /\ subject'[c] = subject[c]
  BY <1>1, <1>2 DEF BootMoves, Consumes
<1>4. ~Serving
  BY DEF BootStep, BootRead, BootMark, BootSeal, BootMarked, BootLogged, BootServe, Wake, Serving
<1>5. \A c \in Cancels : pc[c] \notin {"announcing", "push"}
  BY <1>1, <1>2, <1>4 DEF AnswerInv, OrphanInv, AloneAtBoot, AtRest, EndLabel
<1>6. \A t \in todo : t \in Task /\ (Hit(t) => Asked(t))
  <2> SUFFICES ASSUME NEW t \in todo, Hit(t), ~Asked(t) PROVE FALSE
    BY AnswerTypes, <1>1
  <2>1. t \in Task /\ Down(t)
    BY <1>1, <1>5, AnswerTypes DEF Hit, Down
  <2>2. status[t] = "cancelled"
    BY <2>1 DEF QuellInv, RowsDown
  <2>3. status[t] = "failed" \/ status[t] \in RecoverableStatus
    BY <1>1 DEF AnswerInv, OrphanInv, TodoLeft, OrphanFails
  <2>4. QED
    BY <2>2, <2>3 DEF RecoverableStatus, ActiveStatus
<1>7. pc[Boot] = "marking" => subject[Boot] \in todo
  BY <1>1 DEF AnswerInv, OrphanInv, TodoLeft
<1>8. /\ \A t \in Task : /\ StatusOp(Boot, t, "failed") \in Op
                         /\ StatusOp(Boot, t, "failed").by = Boot
                         /\ StatusOp(Boot, t, "failed").task = t
                         /\ EventOp(Boot, t, "failed", "recovery") \in Op
                         /\ EventOp(Boot, t, "failed", "recovery").by = Boot
                         /\ EventOp(Boot, t, "failed", "recovery").task = t
      /\ MakeOp(Boot, "lifecycle", AnyTask) \in Op
      /\ MakeOp(Boot, "lifecycle", AnyTask).by = Boot
      /\ ~Harms(MakeOp(Boot, "lifecycle", AnyTask))
  <2>1. /\ "failed" \in Status /\ "failed" \in EventType /\ "recovery" \in EventId
        /\ "lifecycle" \in OpKind
    BY StatusKinds DEF EventType, EventId, OpKind
  <2>2. /\ MakeOp(Boot, "lifecycle", AnyTask) \in Op
        /\ MakeOp(Boot, "lifecycle", AnyTask).by = Boot
        /\ MakeOp(Boot, "lifecycle", AnyTask).kind = "lifecycle"
    BY <1>2, <2>1, OpTyped
  <2>3. \A t \in Task : /\ StatusOp(Boot, t, "failed") \in Op
                        /\ StatusOp(Boot, t, "failed").by = Boot
                        /\ EventOp(Boot, t, "failed", "recovery") \in Op
                        /\ EventOp(Boot, t, "failed", "recovery").by = Boot
    BY <1>2, <2>1, OpTyped
  <2>4. \A t \in Task : /\ StatusOp(Boot, t, "failed").task = t
                        /\ EventOp(Boot, t, "failed", "recovery").task = t
    BY DEF StatusOp, EventOp, MakeOp
  <2>5. QED
    BY <2>2, <2>3, <2>4 DEF Harms
<1>9. \/ queue' = queue
      \/ \E t \in todo : \/ queue' = Append(queue, StatusOp(Boot, t, "failed"))
                         \/ queue' = Append(queue, EventOp(Boot, t, "failed", "recovery"))
      \/ queue' = Append(queue, MakeOp(Boot, "lifecycle", AnyTask))
  BY <1>7 DEF BootStep, BootRead, BootMark, BootSeal, BootMarked, BootLogged, BootServe, Wake, Submit
<1>10. \A t \in Task : Asked(t) => Asked(t)'
  BY <1>1, AsideCalm
<1>11. \/ queue' = queue
       \/ \E op \in Op : /\ queue' = Append(queue, op) /\ op.by \notin Cancels
                         /\ Harms(op) /\ Hit(op.task) => Asked(op.task)'
  BY <1>2, <1>6, <1>8, <1>9, <1>10
<1>12. QED
  BY <1>1, <1>3, <1>11, AsideCalm, QuellBeside

(* A caller that goes: a cancellation among them is not confirmed. *)
LEMMA GoneQuells ==
    ASSUME QuellInv, AnswerInv', NEW c \in Callers, CallerCancelled(c)
    PROVE  QuellInv'
<1>1. /\ AnswerInv /\ Aside /\ queue \in Seq(Op) /\ c \in Client
      /\ UNCHANGED <<status, subject, confirmed, reply>>
      /\ pc' = [pc EXCEPT ![c] = "gone"] /\ queue' = Disowned(c)
      /\ pc \in [Client -> RunLabel \cup CallLabel \cup BootLabel]
  BY GoneAside, QuellTypes, ClientMembers
     DEF CallerCancelled, tables, Goto, supervisorVars, callVars, Callers
<1>2. \A d \in Cancels : d \in Client /\ (d # c => pc'[d] = pc[d]) /\ (d = c => pc'[d] = "gone")
  BY <1>1, ClientMembers
<1>3. \A t \in Task : (Hit(t)' => Hit(t)) /\ (Down(t)' => Down(t))
  BY <1>1, <1>2 DEF Hit, Down
<1>4. \A t \in Task : ~Asked(t)' /\ Hit(t)' => Quelled(t)' /\ Settled(t)'
  BY <1>1, <1>3, AsideCalm DEF QuellInv, Quell
<1>5. /\ Disowned(c) \in Seq(Op) /\ Len(Disowned(c)) = Len(queue)
      /\ \A i \in 1 .. Len(queue) : /\ SameWrite(queue[i], Disowned(c)[i])
                                    /\ Disowned(c)[i].by # c
                                    /\ Disowned(c)[i].by # Nobody => Disowned(c)[i] = queue[i]
  <2>1. /\ Disowned(c) \in Seq(Op) /\ Len(Disowned(c)) = Len(queue)
        /\ DOMAIN queue = 1 .. Len(queue)
        /\ \A i \in 1 .. Len(queue) : /\ Disowned(c)[i].by # c
                                      /\ Disowned(c)[i].by # Nobody => Disowned(c)[i] = queue[i]
    BY <1>1, DisownedKeeps
  <2>2. \A i \in 1 .. Len(queue) : SameWrite(queue[i], Disowned(c)[i])
    BY <1>1, <2>1 DEF SameWrite, Disowned, Op
  <2>3. QED
    BY <2>1, <2>2
<1>6. \A i \in 1 .. Len(Disowned(c)) : \A o \in Op : o = Disowned(c)[i] => CancelAwaits(o)'
  <2>1. \A i \in 1 .. Len(queue) : CancelAwaits(queue[i])
    BY DEF QuellInv, WritesOK
  <2>2. Nobody \notin Cancels
    BY ClientMembers, StoreConstants
  <2>3. QED
    BY <1>1, <1>2, <1>5, <2>1, <2>2 DEF CancelAwaits
<1>7. QED
  BY <1>1, <1>3, <1>4, <1>5, <1>6, AsideCalm, QuellStays

(* What a cancellation does: it is on its way to a task, marks it, learns  *)
(* that its row is marked and interrupts the run it finds, or is told that *)
(* the event is logged and confirms.                                       *)
CancelPlain(c) == pc'[c] \notin {"announcing", "push"} /\ UNCHANGED confirmed
CancelInterrupts(c) ==
    LET t == subject[c] IN
    /\ pc[c] = "marking" /\ reply[c] = "ok" /\ t \in Task
    /\ pc'[c] = "announcing" /\ reply'[c] = "none"
    /\ UNCHANGED <<subject, confirmed>>
    /\ registered[t] # "none" => reply'[<<registered[t], t>>] = "cancelled"
CancelLogs(c) ==
    /\ pc[c] = "announcing" /\ reply[c] = "ok" /\ pc'[c] = "push"
    /\ UNCHANGED <<subject, confirmed>>
CancelConfirms(c) ==
    /\ pc[c] = "push" /\ pc'[c] = "next"
    /\ UNCHANGED subject /\ confirmed' = confirmed \cup {subject[c]}
CancelQueues(c, q) ==
    \/ queue' = q
    \/ \E op \in Op :
          /\ queue' = Append(q, op)
          /\ op.by = c /\ op.task = subject'[c] /\ reply'[c] = "none"
          /\ \/ pc'[c] = "marking" /\ op.kind = "status" /\ op.status = "cancelled"
             \/ /\ pc'[c] = "announcing"
                /\ op.kind = "event" /\ op.type = "cancelled" /\ op.id = "999998"
CancelActs(c) ==
    /\ \A d \in Cancels : d # c => pc'[d] = pc[d] /\ reply'[d] = reply[d] /\ subject'[d] = subject[d]
    /\ \A i \in 1 .. Len(queue) : queue[i].by # c
    /\ CancelPlain(c) \/ CancelInterrupts(c) \/ CancelLogs(c) \/ CancelConfirms(c)
    /\ CancelQueues(c, queue) \/ \E r \in Runs : CancelQueues(c, Disowned(r))

LEMMA CancelSteppedActs ==
    ASSUME QuellInv, NEW c \in Cancels, CancelStep(c)
    PROVE  CancelActs(c)
<1>1. /\ TypeInv /\ CancelMoves(c) /\ AnswerInv
      /\ pc \in [Client -> RunLabel \cup CallLabel \cup BootLabel]
      /\ reply \in [Client -> Reply] /\ queue \in Seq(Op)
      /\ registered \in [Task -> {"none", "run", "resume"}]
  BY QuellTypes, CancelSteppedMoves
<1>2. /\ c \in Client
      /\ \A d \in Cancels : d \in Client /\ d \notin Runs
  BY ClientsApart, ClientMembers
<1>3. \A d \in Cancels : d # c => pc'[d] = pc[d] /\ subject'[d] = subject[d]
  BY <1>1, <1>2 DEF CancelMoves
<1>4. \A i \in 1 .. Len(queue) : queue[i].by = c =>
          reply[c] = "none" /\ pc[c] \in {"marking", "announcing"}
  BY DEF QuellInv, WritesOK, CancelAwaits
<1>5. subject[c] \in Task =>
          /\ StatusOp(c, subject[c], "cancelled") \in Op
          /\ StatusOp(c, subject[c], "cancelled").by = c
          /\ StatusOp(c, subject[c], "cancelled").task = subject[c]
          /\ StatusOp(c, subject[c], "cancelled").kind = "status"
          /\ StatusOp(c, subject[c], "cancelled").status = "cancelled"
          /\ EventOp(c, subject[c], "cancelled", "999998") \in Op
          /\ EventOp(c, subject[c], "cancelled", "999998").by = c
          /\ EventOp(c, subject[c], "cancelled", "999998").task = subject[c]
          /\ EventOp(c, subject[c], "cancelled", "999998").kind = "event"
          /\ EventOp(c, subject[c], "cancelled", "999998").type = "cancelled"
          /\ EventOp(c, subject[c], "cancelled", "999998").id = "999998"
  <2> HAVE subject[c] \in Task
  <2>1. /\ StatusOp(c, subject[c], "cancelled") \in Op
        /\ EventOp(c, subject[c], "cancelled", "999998") \in Op
    BY <1>2, OpTyped, StatusKinds DEF EventType, EventId
  <2>2. QED
    BY <2>1 DEF StatusOp, EventOp, MakeOp
<1>6. pc[c] \in {"submit", "marking"} => subject[c] \in Task
  BY <1>1 DEF TypeInv, SubjectKnown
<1>7. \A l : Goto(c, l) => pc'[c] = l
  BY <1>1, <1>2 DEF Goto
<1>8. CASE Quiet /\ CancelSteps(c)
  <2>1. UNCHANGED reply /\ reply[c] = "none" /\ pc[c] \notin {"marking", "announcing"}
    BY <1>2, <1>8
       DEF Quiet, CancelSteps, CancelCall, CancelRead, CancelSubmit, CancelPush, CancelReturn
  <2>2. CASE CancelSubmit(c)
    <3>1. /\ subject[c] \in Task /\ UNCHANGED <<subject, confirmed>> /\ pc'[c] = "marking"
          /\ queue' = Append(queue, StatusOp(c, subject[c], "cancelled"))
      BY <1>6, <1>7, <2>2 DEF CancelSubmit, Submit
    <3>2. CancelQueues(c, queue)
      BY <1>5, <2>1, <3>1 DEF CancelQueues
    <3>3. QED
      BY <1>3, <1>4, <2>1, <3>1, <3>2 DEF CancelActs, CancelPlain
  <2>3. CASE CancelPush(c)
    <3>1. CancelConfirms(c) /\ queue' = queue
      BY <1>7, <2>3 DEF CancelPush, CancelConfirms
    <3>2. QED
      BY <1>3, <1>4, <2>1, <3>1 DEF CancelActs, CancelQueues
  <2>4. CASE CancelCall(c) \/ CancelRead(c) \/ CancelReturn(c)
    <3>1. UNCHANGED <<confirmed, queue>> /\ pc'[c] \notin {"announcing", "push"}
      <4>1. pc' = pc => pc'[c] = pc[c]
        OBVIOUS
      <4>2. QED
        BY <1>7, <2>4, <4>1 DEF CancelCall, CancelRead, CancelReturn
    <3>2. QED
      BY <1>3, <1>4, <2>1, <3>1 DEF CancelActs, CancelPlain, CancelQueues
  <2>5. QED
    BY <1>8, <2>2, <2>3, <2>4 DEF CancelSteps
<1>9. CASE CancelLogged(c) \/ CancelFails(c)
  <2>1. /\ UNCHANGED <<queue, subject, confirmed>>
        /\ pc[c] = "announcing" /\ reply[c] # "none"
        /\ \/ reply[c] = "ok" /\ pc'[c] = "push"
           \/ pc'[c] = "failed"
        /\ \A d \in Cancels : d # c => reply'[d] = reply[d]
    BY <1>1, <1>2, <1>7, <1>9 DEF CancelLogged, CancelFails, Wake
  <2>2. CancelPlain(c) \/ CancelLogs(c)
    BY <2>1 DEF CancelPlain, CancelLogs
  <2>3. QED
    BY <1>3, <1>4, <2>1, <2>2 DEF CancelActs, CancelQueues
<1>10. CASE CancelMarked(c)
  <2> DEFINE t == subject[c]
             r == <<registered[t], t>>
             event == EventOp(c, t, "cancelled", "999998")
  <2>1. /\ pc[c] = "marking" /\ reply[c] = "ok" /\ t \in Task /\ pc'[c] = "announcing"
        /\ UNCHANGED <<subject, confirmed>>
        /\ registered[t] = "none" =>
              reply' = [reply EXCEPT ![c] = "none"] /\ queue' = Append(queue, event)
        /\ registered[t] # "none" =>
              /\ reply' = [reply EXCEPT ![c] = "none", ![r] = "cancelled"]
              /\ queue' = Append(Disowned(r), event)
    BY <1>6, <1>7, <1>10 DEF CancelMarked, Submit
  <2>2. registered[t] # "none" => r \in Runs /\ r \in Client
    <3>1. registered[t] # "none" => registered[t] \in {"run", "resume"}
      BY <1>1, <2>1
    <3>2. QED
      BY <2>1, <3>1, ClientMembers
  <2>3. /\ event \in Op /\ event.by = c /\ event.task = t /\ event.kind = "event"
        /\ event.type = "cancelled" /\ event.id = "999998"
    BY <1>5, <2>1
  <2> HIDE DEF r, event
  <2>4. /\ \A d \in Cancels : d # c => reply'[d] = reply[d]
        /\ reply'[c] = "none"
        /\ registered[t] # "none" => reply'[r] = "cancelled"
    BY <1>1, <1>2, <2>1, <2>2
  <2>5. CancelInterrupts(c)
    BY <2>1, <2>4 DEF CancelInterrupts, r
  <2>6. CancelQueues(c, queue) \/ \E d \in Runs : CancelQueues(c, Disowned(d))
    BY <2>1, <2>2, <2>3, <2>4 DEF CancelQueues
  <2>7. QED
    BY <1>3, <1>4, <2>1, <2>4, <2>5, <2>6 DEF CancelActs
<1>11. QED
  BY <1>8, <1>9, <1>10 DEF CancelStep, CancelResumes

LEMMA CancelQuells ==
    ASSUME QuellInv, AnswerInv', NEW c \in Cancels, CancelStep(c)
    PROVE  QuellInv'
<1>1. /\ CancelActs(c) /\ AnswerInv /\ Aside /\ UNCHANGED <<status, registered>>
      /\ queue \in Seq(Op)
      /\ pc \in [Client -> RunLabel \cup CallLabel \cup BootLabel]
      /\ registered \in [Task -> {"none", "run", "resume"}]
  BY CancelSteppedActs, CancelAside, QuellTypes DEF CancelStep, tables, directory
<1>2. /\ SoleRun'
      /\ \A t \in Task : /\ Asked(t)' <=> Asked(t)
                         /\ Settled(t) => Settled(t)'
                         /\ Quelled(t) => Quelled(t)'
  BY <1>1, AsideCalm
<1>3. /\ \A d \in Cancels : d # c =>
            pc'[d] = pc[d] /\ reply'[d] = reply[d] /\ subject'[d] = subject[d]
      /\ \A i \in 1 .. Len(queue) : queue[i].by # c
      /\ CancelPlain(c) \/ CancelInterrupts(c) \/ CancelLogs(c) \/ CancelConfirms(c)
  BY <1>1 DEF CancelActs
<1>4. \A t \in Task : Down(t)' => Down(t)
  BY <1>3 DEF Down, CancelPlain, CancelInterrupts, CancelLogs, CancelConfirms
<1>5. \A t \in Task : Hit(t)' => Hit(t) \/ (CancelInterrupts(c) /\ t = subject[c])
  BY <1>3 DEF Hit, CancelPlain, CancelInterrupts, CancelLogs, CancelConfirms
(* The run that was alone with its task is the one that is interrupted.    *)
<1>6. ASSUME NEW t \in Task, CancelInterrupts(c), t = subject[c], ~Asked(t)
      PROVE  Quelled(t)' /\ Settled(t)'
  <2>1. Settled(t)
    BY <1>1, <1>6, SupervisorConstants DEF AnswerInv, SubjectsSettled
  <2>2. CASE Live(Run(t))
    <3>1. registered[t] = "run" /\ "run" # "none"
      BY <1>6, <2>2 DEF QuellInv, SoleRun
    <3>2. reply'[Run(t)] = "cancelled"
      BY <1>6, <3>1 DEF CancelInterrupts, Run
    <3>3. QED
      BY <1>2, <2>1, <3>2 DEF Quelled
  <2>3. CASE ~Live(Run(t))
    BY <1>2, <2>1, <2>3 DEF Quelled
  <2>4. QED
    BY <2>2, <2>3
<1>7. \A t \in Task : ~Asked(t)' /\ Hit(t)' => Quelled(t)' /\ Settled(t)'
  BY <1>2, <1>5, <1>6 DEF QuellInv, Quell
<1>8. ASSUME NEW q \in Seq(Op), CancelQueues(c, q), Len(q) = Len(queue),
             \A i \in 1 .. Len(queue) : SameWrite(queue[i], q[i])
      PROVE  QuellInv'
  <2>1. Nobody \notin Cancels /\ \A i \in 1 .. Len(queue) : CancelAwaits(queue[i])
    BY ClientMembers, StoreConstants DEF QuellInv, WritesOK
  <2>2. \A i \in 1 .. Len(q) : q[i].by # c
    BY <1>3, <1>8, <2>1 DEF SameWrite
  <2>3. ASSUME NEW i \in 1 .. Len(q), NEW o \in Op, o = q[i] PROVE CancelAwaits(o)'
    <3>1. SameWrite(queue[i], o) /\ CancelAwaits(queue[i]) /\ o.by # c
      BY <1>8, <2>1, <2>2, <2>3
    <3>2. o.by \in Cancels => /\ queue[i].by = o.by /\ pc'[o.by] = pc[o.by]
                              /\ reply'[o.by] = reply[o.by] /\ subject'[o.by] = subject[o.by]
      BY <1>3, <2>1, <3>1 DEF SameWrite
    <3>3. CASE o.by \in Cancels
      <4>1. /\ queue[i].kind = o.kind /\ queue[i].task = o.task /\ queue[i].status = o.status
            /\ queue[i].type = o.type /\ queue[i].id = o.id
        BY <3>1 DEF SameWrite
      <4>2. QED
        BY <3>1, <3>2, <3>3, <4>1 DEF CancelAwaits
    <3>4. QED
      BY <3>3 DEF CancelAwaits
  <2>4. \/ queue' = q
        \/ \E op \in Op :
              /\ queue' = Append(q, op) /\ CancelAwaits(op)'
              /\ Harms(op) /\ Hit(op.task)' => Asked(op.task)'
              /\ \A i \in 1 .. Len(q) : op.by \in Cancels => q[i].by # op.by
    BY <1>8, <2>2 DEF CancelQueues, CancelAwaits, Harms
  <2>5. QED
    BY <1>1, <1>2, <1>4, <1>7, <1>8, <2>3, <2>4, QuellStays
<1>9. ASSUME NEW r \in Runs
      PROVE  /\ Disowned(r) \in Seq(Op) /\ Len(Disowned(r)) = Len(queue)
             /\ \A i \in 1 .. Len(queue) : SameWrite(queue[i], Disowned(r)[i])
  <2>1. /\ Disowned(r) \in Seq(Op) /\ Len(Disowned(r)) = Len(queue)
        /\ DOMAIN queue = 1 .. Len(queue)
    BY <1>1, DisownedKeeps, ClientMembers
  <2>2. \A i \in 1 .. Len(queue) : SameWrite(queue[i], Disowned(r)[i])
    BY <1>1, <2>1 DEF SameWrite, Disowned, Op
  <2>3. QED
    BY <2>1, <2>2
<1>10. \A i \in 1 .. Len(queue) : SameWrite(queue[i], queue[i])
  BY DEF SameWrite
<1>11. QED
  BY <1>1, <1>8, <1>9, <1>10 DEF CancelActs

(* The writer on a task whose row says cancelled. *)
LEMMA RowStaysDown ==
    ASSUME TypeInv, NEW op \in Op, Apply(op), Row(op.task), ~Harms(op)
    PROVE  /\ status[op.task] = "cancelled" => status'[op.task] = "cancelled"
           /\ op.kind = "event" /\ EventIdFree(op) /\ op.type = "cancelled"
                 => status'[op.task] = "cancelled"
<1>1. status \in [Task -> Status \cup {"absent"}] /\ op.task \in Task /\ op.type \in EventType
  BY DEF TypeInv, TypeOK, StoreTypeOK, Op
<1>2. CASE op.kind = "status"
  <2>1. UpdateStatus(op) /\ op.status = "cancelled"
    BY <1>2 DEF Harms, Apply, InsertTask, RefuseDuplicate, UpdateStatus, AppendEvent, RefuseEvent,
       SaveCheckpoint, ConsumeCheckpoint, MissCheckpoint, NextGeneration, StopTopicPrefix,
       LifecycleLog
  <2>2. QED
    BY <1>1, <1>2, <2>1 DEF UpdateStatus, Marked
<1>3. CASE op.kind = "event"
  <2>1. /\ AppendEvent(op) \/ RefuseEvent(op)
        /\ op.type \notin {"completed", "failed", "needs_input"}
    BY <1>3 DEF Harms, Apply, InsertTask, RefuseDuplicate, UpdateStatus, AppendEvent, RefuseEvent,
       SaveCheckpoint, ConsumeCheckpoint, MissCheckpoint, NextGeneration, StopTopicPrefix,
       LifecycleLog
  <2>2. /\ op.type = "cancelled" => EventStatus(op.type, status[op.task]) = "cancelled"
        /\ op.type # "cancelled" => EventStatus(op.type, status[op.task]) = status[op.task]
    BY <2>1 DEF EventStatus
  <2>3. CASE AppendEvent(op)
    BY <1>1, <2>2, <2>3 DEF AppendEvent, Marked
  <2>4. CASE RefuseEvent(op)
    BY <2>4 DEF RefuseEvent, tables
  <2>5. QED
    BY <2>1, <2>3, <2>4
<1>4. CASE op.kind \notin {"status", "event"}
  BY <1>4, RowWritten DEF Harms, Updates
<1>5. QED
  BY <1>2, <1>3, <1>4

LEMMA WriterQuells ==
    ASSUME QuellInv, AnswerInv', WriterTurn
    PROVE  QuellInv'
<1> DEFINE rest == Tail(queue)
<1>0. PICK op : op = Head(queue)
  OBVIOUS
<1>1. /\ op \in Op /\ Apply(op) /\ Quiet /\ op.task \in Task
      /\ rest \in Seq(Op) /\ queue' = rest
      /\ UNCHANGED <<pc, subject, registered>>
      /\ \A t \in Task : op.by = Start(t) => pc[Start(t)] = op.kind /\ op.task = t
      /\ AnswerInv /\ TypeInv
  BY <1>0, WriterHead, QuellTypes DEF QuellInv
<1>2. PICK a \in {"ok", "error", "none_found"} : Replied(op, a)
  BY <1>1, Applied
<1>3. /\ UNCHANGED confirmed /\ queue \in Seq(Op) /\ queue # <<>> /\ reply \in [Client -> Reply]
      /\ \A o \in Op : o.task \in Task
      /\ \A t \in Task : Run(t) \in Client /\ Start(t) \in Client
      /\ \A c \in Cancels : c \in Client
  BY <1>1, QuellTypes, ClientsApart, ClientMembers
     DEF WriterTurn, WriterStep, supervisorVars, callVars
<1>4. /\ Len(queue) \in Nat /\ Len(queue) >= 1 /\ op = queue[1] /\ Len(rest) = Len(queue) - 1
      /\ \A i \in 1 .. Len(rest) : rest[i] = queue[i + 1] /\ i + 1 \in 1 .. Len(queue)
  BY <1>0, <1>3
<1> HIDE DEF rest
<1>5. /\ CancelAwaits(op) /\ Spared(op)
      /\ \A i \in 1 .. Len(rest) :
            /\ CancelAwaits(rest[i]) /\ Spared(rest[i]) /\ After(op, rest[i])
            /\ \A j \in 1 .. Len(rest) : i < j => After(rest[i], rest[j])
  <2>1. 1 \in 1 .. Len(queue) /\ \A i \in 1 .. Len(rest) : 1 < i + 1
    BY <1>4
  <2>2. \A i, j \in 1 .. Len(rest) : i < j => i + 1 < j + 1
    BY <1>4
  <2>3. QED
    BY <1>4, <2>1, <2>2 DEF QuellInv, WritesOK, AfterOK
<1>6. \A c \in Client : /\ reply[c] = "none"
                        /\ reply'[c] = "none" \/ (op.by = c /\ reply'[c] = a)
                        /\ op.by # c => reply'[c] = "none"
  BY <1>1, <1>2, <1>3 DEF Quiet, Replied, Answer
<1>7. \A t \in Task : /\ Asked(t)' <=> Asked(t)
                      /\ Hit(t)' <=> Hit(t)
                      /\ Quelled(t) => Quelled(t)'
  BY <1>1, <1>3, <1>6 DEF Asked, Hit, Quelled, Live
<1>8. \A t \in Task : Settled(t) => Settled(t)'
  <2> SUFFICES ASSUME NEW t \in Task, Settled(t) PROVE Settled(t)'
    OBVIOUS
  <2>1. Row(t)'
    BY <1>1, Applied DEF Effect, Settled
  <2>2. Told(t)' => op.by = Start(t) /\ pc[Start(t)] = "create" /\ a = "ok"
    BY <1>1, <1>3, <1>6 DEF Told
  <2>3. Told(t)' => FALSE
    BY <1>1, <1>2, <2>2 DEF Replied, Settled
  <2>4. QED
    BY <2>1, <2>3 DEF Settled
<1>9. SoleRun'
  BY <1>1, <1>7 DEF QuellInv, SoleRun, Live
<1>10. Quell'
  BY <1>7, <1>8 DEF QuellInv, Quell
(* Whose event is logged now.                                              *)
<1>11. \A t \in Task : Down(t)' => \/ Down(t)
                                   \/ /\ op.by \in Cancels /\ op.task = t /\ op.kind = "event"
                                      /\ op.type = "cancelled" /\ a = "ok" /\ Hit(t)
  <2> SUFFICES ASSUME NEW t \in Task, Down(t)', ~Down(t)
               PROVE  /\ op.by \in Cancels /\ op.task = t /\ op.kind = "event"
                      /\ op.type = "cancelled" /\ a = "ok" /\ Hit(t)
    OBVIOUS
  <2>1. PICK c \in Cancels : subject[c] = t /\ pc[c] = "announcing" /\ reply'[c] = "ok"
    BY <1>1, <1>3 DEF Down
  <2>2. op.by = c /\ a = "ok" /\ Hit(t)
    BY <1>3, <1>6, <2>1 DEF Hit
  <2>3. QED
    BY <1>5, <2>1, <2>2 DEF CancelAwaits
<1>12. RowsDown'
  <2> SUFFICES ASSUME NEW t \in Task, Down(t)', ~Asked(t) PROVE status'[t] = "cancelled"
    BY <1>7 DEF RowsDown
  <2>1. Down(t) => status[t] = "cancelled"
    BY DEF QuellInv, RowsDown
  <2>2. Row(t)
    BY <1>11, <2>1 DEF QuellInv, Quell, Settled, Row
  <2>3. CASE op.task # t
    <3>1. status'[t] = status[t]
      BY <1>1, <2>3, Applied DEF Effect
    <3>2. QED
      BY <1>11, <2>1, <2>3, <3>1
  <2>4. CASE op.task = t
    <3>1. CASE Down(t)
      BY <1>1, <1>5, <2>1, <2>2, <2>4, <3>1, RowStaysDown DEF Spared
    <3>2. CASE ~Down(t)
      <4>1. op.kind = "event" /\ op.type = "cancelled" /\ a = "ok"
        BY <1>11, <3>2
      <4>2. EventIdFree(op) /\ ~Harms(op)
        BY <1>2, <4>1 DEF Replied, Harms
      <4>3. QED
        BY <1>1, <2>2, <2>4, <4>1, <4>2, RowStaysDown
    <3>3. QED
      BY <3>1, <3>2
  <2>5. QED
    BY <2>3, <2>4
<1>13. ASSUME NEW i \in 1 .. Len(rest), NEW o \in Op, o = rest[i]
       PROVE  CancelAwaits(o)' /\ Spared(o)'
  <2>1. CancelAwaits(o) /\ Spared(o) /\ After(op, o) /\ o.task \in Task
    BY <1>3, <1>5, <1>13
  <2>2. CancelAwaits(o)'
    <3>1. o.by \in Cancels => o.by # op.by /\ reply'[o.by] = "none"
      BY <1>3, <1>6, <2>1 DEF After
    <3>2. QED
      BY <1>1, <2>1, <3>1 DEF CancelAwaits
  <2>3. Spared(o)'
    BY <1>7, <1>11, <2>1 DEF Spared, After, Harms
  <2>4. QED
    BY <2>2, <2>3
<1>14. \A i, j \in 1 .. Len(rest) : \A b, o \in Op :
           i < j /\ b = rest[i] /\ o = rest[j] => After(b, o)'
  BY <1>3, <1>5, <1>7 DEF After, Harms
<1>15. WritesOK' /\ AfterOK'
  BY <1>1, <1>13, <1>14, QuellQueue
<1>16. QED
  BY <1>9, <1>10, <1>12, <1>15 DEF QuellInv

LEMMA CrashQuells ==
    ASSUME QuellInv, AnswerInv', Crash
    PROVE  QuellInv'
<1>1. /\ UNCHANGED <<status, subject, confirmed>> /\ queue' = <<>>
      /\ reply' = [c \in Client |-> "none"]
  BY DEF Crash, tables, callVars
<1>2. /\ \A t \in Task : Run(t) \in Runs /\ Run(t) \in Client /\ Start(t) \in Client
                         /\ ~Live(Run(t))'
      /\ \A c \in Cancels : pc'[c] \notin {"announcing", "push"}
  <2>1. /\ \A r \in Runs : r \in Client /\ r # Boot
        /\ \A c \in Cancels : c \in Client /\ c # Boot /\ c \notin Runs
    BY ClientsApart, ClientMembers, ClientKinds
  <2>2. \A t \in Task : Run(t) \in Runs /\ Start(t) \in Client
    BY ClientMembers
  <2>3. QED
    BY <2>1, <2>2 DEF Crash, Live, EndLabel
<1>3. \A t \in Task : /\ Asked(t)' <=> Asked(t)
                      /\ (Hit(t)' => Hit(t)) /\ (Down(t)' => Down(t))
                      /\ Settled(t) => Settled(t)'
  BY <1>1, <1>2 DEF Asked, Hit, Down, Settled, Told, Row
<1>4. WritesOK' /\ AfterOK'
  BY <1>1 DEF WritesOK, AfterOK
<1>5. QED
  BY <1>1, <1>2, <1>3, <1>4 DEF QuellInv, SoleRun, Quell, RowsDown, Quelled

LEMMA QuellInit == Init => QuellInv
<1> SUFFICES ASSUME Init PROVE QuellInv
  OBVIOUS
<1>1. /\ AnswerInv /\ Len(queue) = 0 /\ confirmed = {}
      /\ \A t \in Task : ~Live(Run(t))
      /\ \A c \in Cancels : pc[c] = "idle"
  <2>1. /\ \A r \in Runs : r \in Client /\ r # Boot
        /\ \A c \in Cancels : c \in Client /\ c # Boot
        /\ \A t \in Task : Run(t) \in Runs
    BY ClientsApart, ClientMembers, ClientKinds
  <2>2. QED
    BY <2>1, AnswerInit DEF Init, StoreInit, Live
<1>2. QED
  BY <1>1 DEF QuellInv, SoleRun, Quell, WritesOK, AfterOK, RowsDown, Hit, Down

LEMMA QuellStep == QuellInv /\ [Next]_vars => QuellInv'
<1> SUFFICES ASSUME QuellInv, [Next]_vars PROVE QuellInv'
  OBVIOUS
<1>1. AnswerInv'
  BY AnswerStep DEF QuellInv
<1>2. CASE AllSettled \/ UNCHANGED vars
  <2>1. UNCHANGED <<queue, reply, pc, status, registered, subject, confirmed>>
    BY <1>2 DEF AllSettled, vars, storeVars, runtimeVars, supervisorVars, callVars
  <2>2. \A t \in Task : /\ Asked(t)' <=> Asked(t)
                        /\ Quelled(t) => Quelled(t)'
                        /\ Settled(t) => Settled(t)'
    BY <2>1 DEF Asked, Quelled, Live, Settled, Told, Row
  <2>3. SoleRun'
    BY <2>1, <2>2 DEF QuellInv, SoleRun, Live
  <2>4. QED
    BY <1>1, <2>1, <2>2, <2>3, QuellBeside
<1>3. QED
  BY <1>1, <1>2, WriterQuells, RunQuells, StartQuells, CancelQuells, RespondQuells,
     StopQuells, GoneQuells, BootQuells, CrashQuells DEF Next

(* A cancellation that cancel_agent_task has confirmed is what the row     *)
(* says from then on, for any number of tasks, callers and crashes: the    *)
(* run that was interrupted has nothing left in the writer's queue behind  *)
(* the event of the cancellation that could overwrite it, nor will have.   *)
THEOREM CancellationSticks == Spec => []ConfirmedCancelSticks
<1>1. QuellInv => ConfirmedCancelSticks
  BY QuellTypes DEF QuellInv, RowsDown, Down, Asked, ConfirmedCancelSticks, Unanswered
<1>2. QED
  BY <1>1, QuellInit, QuellStep, PTL DEF Spec
-----------------------------------------------------------------------------
(* The ids of a run's events are its own: the first is written once, the   *)
(* last once, and what cancellations and recovery write has other ids.     *)
LastType == {"completed", "failed", "cancelled", "needs_input"}
RunEvent(r, op) ==
    \/ pc[r] = "started" /\ op.id = "1"
    \/ pc[r] = "agent_emit" /\ op.id = "own"
    \/ pc[r] = "closing" /\ op.id \in {"2", "3"} /\ op.type \in LastType
IdOK(op) ==
    op.kind = "event" =>
        /\ op.id = "1" => pc[Run(op.task)] \notin {"idle", "running"}
        /\ op.id \in {"2", "3"} => pc[Run(op.task)] \in Closing
        /\ op.by = Run(op.task) => EventIdFree(op) /\ RunEvent(op.by, op)
IdPair(a, b) ==
    a.kind = "event" /\ b.kind = "event" /\ a.task = b.task /\ a.id = b.id /\ a.id # "own"
        => a.by # Run(a.task) /\ b.by # Run(b.task)
IdsOK == \A i \in 1 .. Len(queue) : IdOK(queue[i])
IdPairs == \A i, j \in 1 .. Len(queue) : i < j => IdPair(queue[i], queue[j])
IdsTaken ==
    \A t \in Task :
        /\ <<t, "1">> \in events => pc[Run(t)] \notin {"idle", "running"}
        /\ <<t, "2">> \in events \/ <<t, "3">> \in events => pc[Run(t)] \in Closing

IdInv == QuellInv /\ IdsOK /\ IdPairs /\ IdsTaken

LEMMA IdQueue ==
    ASSUME NEW q \in Seq(Op),
           \A i \in 1 .. Len(q) : \A o \in Op : o = q[i] => IdOK(o)',
           \A i, j \in 1 .. Len(q) : i < j => IdPair(q[i], q[j]),
           \/ queue' = q
           \/ \E op \in Op :
                 /\ queue' = Append(q, op) /\ IdOK(op)'
                 /\ \A i \in 1 .. Len(q) : IdPair(q[i], op)
    PROVE  IdsOK' /\ IdPairs'
<1> DEFINE n == Len(q)
<1>1. n \in Nat /\ \A i \in 1 .. n : q[i] \in Op
  OBVIOUS
<1>4. CASE queue' = q
  BY <1>1, <1>4 DEF IdsOK, IdPairs, IdOK, IdPair, RunEvent, EventIdFree
<1>5. ASSUME NEW op \in Op, queue' = Append(q, op), IdOK(op)',
             \A i \in 1 .. n : IdPair(q[i], op)
      PROVE  IdsOK' /\ IdPairs'
  <2>1. /\ Len(queue') = n + 1 /\ queue'[n + 1] = op
        /\ \A i \in 1 .. n : queue'[i] = q[i]
        /\ \A i \in 1 .. n + 1 : i \in 1 .. n \/ i = n + 1
    BY <1>5
  <2>8. /\ \A i \in 1 .. n : \A o \in Op : o = q[i] => IdOK(o)'
        /\ \A i, j \in 1 .. n : i < j => IdPair(q[i], q[j])
    OBVIOUS
  <2> HIDE DEF n
  <2>2. ASSUME NEW i \in 1 .. n + 1
        PROVE  \A o \in Op : o = queue'[i] => IdOK(o)'
    BY <1>1, <1>5, <2>1, <2>8
  <2>3. ASSUME NEW i \in 1 .. n + 1, NEW j \in 1 .. n + 1, i < j
        PROVE  \A a, b \in Op : a = queue'[i] /\ b = queue'[j] => IdPair(a, b)
    <3>1. i \in 1 .. n
      BY <1>1, <2>1, <2>3
    <3>2. CASE j \in 1 .. n
      BY <1>1, <2>1, <2>3, <2>8, <3>1, <3>2
    <3>3. CASE j = n + 1
      BY <1>1, <1>5, <2>1, <3>1, <3>3
    <3>4. QED
      BY <2>1, <3>2, <3>3
  <2>4. \A i \in 1 .. n + 1 : queue'[i] \in Op
    BY <1>1, <1>5, <2>1
  <2>5. IdsOK'
    BY <2>1, <2>2, <2>4 DEF IdsOK, IdOK, RunEvent, EventIdFree
  <2>6. IdPairs'
    BY <2>1, <2>3, <2>4 DEF IdPairs, IdPair
  <2>7. QED
    BY <2>5, <2>6
<1>6. QED
  BY <1>4, <1>5

(* A run gets on, and what it waits for is as it was. *)
RunsGoOn ==
    \A t \in Task : /\ pc[Run(t)] \notin {"idle", "running"} => pc'[Run(t)] \notin {"idle", "running"}
                    /\ pc[Run(t)] \in Closing => pc'[Run(t)] \in Closing

LEMMA IdsStay ==
    ASSUME IdInv, QuellInv', UNCHANGED events, RunsGoOn,
           NEW q \in Seq(Op), Len(q) = Len(queue),
           \A i \in 1 .. Len(queue) : SameWrite(queue[i], q[i]),
           \A i \in 1 .. Len(q) : q[i].by \in Runs => pc'[q[i].by] = pc[q[i].by],
           \/ queue' = q
           \/ \E op \in Op :
                 /\ queue' = Append(q, op) /\ IdOK(op)'
                 /\ \A i \in 1 .. Len(q) : IdPair(q[i], op)
    PROVE  IdInv'
<1>1. /\ \A op \in Op : op.task \in Task
      /\ queue \in Seq(Op) /\ Len(queue) \in Nat
  BY QuellTypes DEF IdInv
<1>2. \A i \in 1 .. Len(q) : /\ q[i] \in Op /\ queue[i] \in Op /\ SameWrite(queue[i], q[i])
                             /\ IdOK(queue[i])
                             /\ \A j \in 1 .. Len(q) : i < j => IdPair(queue[i], queue[j])
  BY <1>1 DEF IdInv, IdsOK, IdPairs
<1>3. \A t \in Task : Run(t) \in Runs /\ Run(t) # Nobody
  BY ClientsApart
<1>4. ASSUME NEW i \in 1 .. Len(q), NEW o \in Op, o = q[i] PROVE IdOK(o)'
  <2>1. /\ IdOK(queue[i]) /\ SameWrite(queue[i], o) /\ o.task \in Task
        /\ o.by \in Runs => pc'[o.by] = pc[o.by]
    BY <1>1, <1>2, <1>4
  <2>2. /\ queue[i].kind = o.kind /\ queue[i].id = o.id /\ queue[i].task = o.task
        /\ queue[i].type = o.type
        /\ o.by = Run(o.task) => queue[i].by = o.by /\ pc'[o.by] = pc[o.by]
    BY <1>3, <2>1 DEF SameWrite
  <2>3. o.kind = "event" /\ o.by = Run(o.task) => EventIdFree(o) /\ RunEvent(o.by, o)
    BY <2>1, <2>2 DEF IdOK, EventIdFree, RunEvent
  <2>4. o.kind = "event" /\ o.by = Run(o.task) => EventIdFree(o)' /\ RunEvent(o.by, o)'
    BY <2>2, <2>3 DEF EventIdFree, RunEvent
  <2>5. o.kind = "event" => /\ o.id = "1" => pc'[Run(o.task)] \notin {"idle", "running"}
                            /\ o.id \in {"2", "3"} => pc'[Run(o.task)] \in Closing
    BY <2>1, <2>2 DEF IdOK, RunsGoOn
  <2>6. QED
    BY <2>4, <2>5 DEF IdOK
<1>5. ASSUME NEW i \in 1 .. Len(q), NEW j \in 1 .. Len(q), i < j PROVE IdPair(q[i], q[j])
  <2>1. /\ IdPair(queue[i], queue[j]) /\ SameWrite(queue[i], q[i]) /\ SameWrite(queue[j], q[j])
        /\ q[i].task \in Task /\ q[j].task \in Task
    BY <1>1, <1>2, <1>5
  <2>2. QED
    BY <1>3, <2>1 DEF IdPair, SameWrite
<1>6. IdsOK' /\ IdPairs'
  BY <1>4, <1>5, IdQueue
<1>7. IdsTaken'
  BY DEF IdInv, IdsTaken, RunsGoOn
<1>8. QED
  BY <1>6, <1>7 DEF IdInv

(* What others log never has the id of a run's event. *)
LEMMA OtherId ==
    ASSUME IdInv, NEW op \in Op, op.by \notin Runs,
           op.kind = "event" => op.id \in {"999998", "recovery"}
    PROVE  /\ IdOK(op)'
           /\ \A a \in Op : IdOK(a) => IdPair(a, op)
<1>1. \A o \in Op : o.task \in Task /\ Run(o.task) \in Runs
  BY QuellTypes, ClientsApart DEF IdInv
<1>2. QED
  BY <1>1 DEF IdOK, IdPair, RunEvent

LEMMA IdsBeside ==
    ASSUME IdInv, QuellInv', UNCHANGED events,
           \A r \in Runs : pc'[r] = pc[r],
           NEW q \in Seq(Op), Len(q) = Len(queue),
           \A i \in 1 .. Len(queue) : SameWrite(queue[i], q[i]),
           \/ queue' = q
           \/ \E op \in Op : /\ queue' = Append(q, op) /\ op.by \notin Runs
                             /\ op.kind = "event" => op.id \in {"999998", "recovery"}
    PROVE  IdInv'
<1>1. RunsGoOn
  BY ClientsApart DEF RunsGoOn
<1>2. queue \in Seq(Op) /\ \A o \in Op : o.task \in Task /\ Run(o.task) \in Runs
  BY QuellTypes, ClientsApart DEF IdInv
<1>3. ASSUME NEW op \in Op, op.by \notin Runs, op.kind = "event" => op.id \in {"999998", "recovery"}
      PROVE  IdOK(op)' /\ \A i \in 1 .. Len(q) : IdPair(q[i], op)
  <2>1. \A i \in 1 .. Len(q) : queue[i] \in Op /\ IdOK(queue[i]) /\ SameWrite(queue[i], q[i])
                               /\ q[i] \in Op
    BY <1>2 DEF IdInv, IdsOK
  <2>2. \A i \in 1 .. Len(q) : IdPair(queue[i], op)
    BY <1>3, <2>1, OtherId
  <2>3. Nobody \notin Runs
    BY ClientsApart
  <2>4. \A i \in 1 .. Len(q) : IdPair(q[i], op)
    BY <1>2, <2>1, <2>2, <2>3 DEF IdPair, SameWrite
  <2>5. QED
    BY <1>3, <2>4, OtherId
<1>4. QED
  BY <1>1, <1>3, IdsStay

(* A step of a run, as far as the ids of its events and its end go. *)
Logs(r, op) ==
    \/ pc[r] = "running" /\ pc'[r] = "started" /\ op.id = "1"
    \/ pc'[r] = "agent_emit" /\ op.id = "own"
    \/ pc'[r] = "closing" /\ op.id \in {"2", "3"} /\ op.type \in LastType
LogActs(r) ==
    /\ UNCHANGED tokenSet
    /\ \/ queue' = queue
       \/ \E op \in Op : /\ queue' = Append(queue, op) /\ op.by = r /\ op.task = TaskOf(r)
                         /\ pc[r] \notin Closing
                         /\ op.kind = "event" => Logs(r, op)
    /\ pc'[r] = "push" => pc[r] = "closing" /\ reply[r] = "ok"
    /\ pc'[r] = "ended" =>
          \/ reply[r] \in {"cancelled", "error"} \/ r \in tokenSet \/ pc[r] = "push"
          \/ status[TaskOf(r)] \in TerminalStatus \cup {"waiting_input"}
          \/ outcome'[r] = "uncaught"

LEMMA RunLogs ==
    ASSUME AnswerInv, NEW r \in Runs, ResumeRun(r) \/ StepRun(r)
    PROVE  LogActs(r)
<1>1. /\ r \in Client /\ TaskOf(r) \in Task /\ queue \in Seq(Op)
      /\ pc \in [Client -> RunLabel \cup CallLabel \cup BootLabel]
      /\ outcome \in [Runs -> Outcome]
  BY AnswerTypes, ReportTypes, ClientsApart DEF AnswerInv
<1>2. \A l : pc' = [pc EXCEPT ![r] = l] => pc'[r] = l
  BY <1>1
<1>3. \A type \in EventType, i \in EventId :
          /\ EventOp(r, TaskOf(r), type, i) \in Op
          /\ EventOp(r, TaskOf(r), type, i).by = r
          /\ EventOp(r, TaskOf(r), type, i).task = TaskOf(r)
          /\ EventOp(r, TaskOf(r), type, i).type = type
          /\ EventOp(r, TaskOf(r), type, i).id = i
  BY <1>1, OpTyped DEF EventOp, MakeOp
<1> DEFINE Event(i, types) ==
        \E op \in Op : /\ queue' = Append(queue, op) /\ op.by = r /\ op.task = TaskOf(r)
                       /\ op.id = i /\ op.type \in types
<1>4. \A l : \A type \in EventType, i \in EventId :
          Emit(r, type, i, l) => pc'[r] = l /\ UNCHANGED tokenSet /\ Event(i, {type})
  <2> SUFFICES ASSUME NEW l, NEW type \in EventType, NEW i \in EventId, Emit(r, type, i, l)
               PROVE  pc'[r] = l /\ UNCHANGED tokenSet /\ Event(i, {type})
    OBVIOUS
  <2>1. queue' = Append(queue, EventOp(r, TaskOf(r), type, i))
    BY DEF Emit, Submit
  <2>2. Event(i, {type})
    BY <1>3, <2>1
  <2>3. QED
    BY <1>2, <2>2 DEF Emit, Goto
<1>5. Finished(r) => pc'[r] = "ended"
  BY <1>2 DEF Finished, Goto
<1> HIDE DEF Event
<1>10. CASE BecomeRunning(r)
  <2>1. pc[r] = "running" /\ pc'[r] = "started" /\ UNCHANGED tokenSet /\ Event("1", {"started"})
    BY <1>4, <1>10 DEF BecomeRunning, Wake, EventType, EventId
  <2>2. QED
    BY <2>1 DEF Event, LogActs, Logs, Closing
<1>11. CASE StartLogged(r) \/ StartRefused(r) \/ AgentLogged(r) \/ LastEventLogged(r)
  <2>1. /\ UNCHANGED <<queue, tokenSet>>
        /\ \/ pc'[r] \in {"announced", "agent_push"}
           \/ pc'[r] = "push" /\ pc[r] = "closing" /\ reply[r] = "ok"
           \/ pc'[r] = "ended" /\ reply[r] = "error"
    BY <1>2, <1>5, <1>11
       DEF StartLogged, StartRefused, AgentLogged, LastEventLogged, Goto, Wake, runLocals
  <2>2. QED
    BY <2>1 DEF LogActs
<1>12. CASE Checkpointed(r)
  <2>1. /\ pc[r] = "checkpointing" /\ pc'[r] = "closing" /\ UNCHANGED tokenSet
        /\ Event("3", {"needs_input"})
    BY <1>4, <1>12 DEF Checkpointed, Wake, EventType, EventId
  <2>2. QED
    BY <2>1 DEF Event, LogActs, Logs, Closing, LastType
<1>13. CASE CancelledInExecute(r)
  <2>1. /\ pc[r] \in {"executing", "agent_emit", "agent_push"} /\ pc'[r] = "closing"
        /\ UNCHANGED tokenSet /\ Event("3", {"cancelled"})
    BY <1>4, <1>13 DEF CancelledInExecute, InExecute, EventType, EventId
  <2>2. QED
    BY <2>1 DEF Event, LogActs, Logs, Closing, LastType
<1>14. CASE CancelledElsewhere(r)
  BY <1>5, <1>14 DEF CancelledElsewhere, Wake, runLocals, LogActs
<1>15. CASE Announce(r) \/ Instantiate(r) \/ CheckTerminal(r) \/ LastPush(r)
  BY <1>2, <1>5, <1>15
     DEF Announce, Instantiate, CheckTerminal, LastPush, Goto, runLocals, LogActs
<1>16. CASE InstantiateFails(r) \/ Report(r)
  <2>1. /\ pc[r] \in {"instantiating", "report"} /\ pc'[r] = "closing" /\ UNCHANGED tokenSet
        /\ \E i \in {"2", "3"} : Event(i, {"completed"}) \/ Event(i, {"failed"})
    BY <1>4, <1>16 DEF InstantiateFails, Report, EventType, EventId
  <2>2. QED
    BY <2>1 DEF Event, LogActs, Logs, Closing, LastType
<1>17. CASE AgentEmits(r)
  <2>1. pc[r] = "executing" /\ pc'[r] = "agent_emit" /\ UNCHANGED tokenSet
    BY <1>2, <1>17 DEF AgentEmits, Goto
  <2>2. \E type \in EventType : queue' = Append(queue, EventOp(r, TaskOf(r), type, "own"))
    BY <1>17 DEF AgentEmits, EventType, Submit
  <2>3. "own" \in EventId
    BY DEF EventId
  <2>4. QED
    BY <1>3, <2>1, <2>2, <2>3 DEF LogActs, Logs, Closing
<1>18. ASSUME NEW result, AfterExecute(r, result), pc[r] \in {"executing", "agent_push"}
       PROVE  LogActs(r)
  <2>1. \/ /\ pc'[r] = "closing" /\ UNCHANGED tokenSet
           /\ Event("3", {"failed"}) \/ Event("3", {"cancelled"})
        \/ /\ pc'[r] = "checkpointing" /\ UNCHANGED tokenSet
           /\ queue' = Append(queue, MakeOp(r, "checkpoint", TaskOf(r)))
        \/ pc'[r] = "terminal_check" /\ UNCHANGED <<queue, tokenSet>>
    BY <1>2, <1>4, <1>18 DEF AfterExecute, EventType, EventId, Submit, Goto
  <2>2. /\ MakeOp(r, "checkpoint", TaskOf(r)) \in Op
        /\ MakeOp(r, "checkpoint", TaskOf(r)).by = r
        /\ MakeOp(r, "checkpoint", TaskOf(r)).task = TaskOf(r)
        /\ MakeOp(r, "checkpoint", TaskOf(r)).kind = "checkpoint"
    BY <1>1, OpTyped DEF OpKind, MakeOp
  <2>3. QED
    BY <1>18, <2>1, <2>2 DEF Event, LogActs, Logs, Closing, LastType
<1>19. CASE AgentPushes(r) \/ AgentReturns(r)
  BY <1>18, <1>19 DEF AgentPushes, AgentReturns
<1>20. CASE InstantiateRaises(r)
  <2>1. /\ pc'[r] = "ended" /\ outcome'[r] = "uncaught" /\ UNCHANGED <<queue, tokenSet>>
    BY <1>1, <1>5, <1>20 DEF InstantiateRaises
  <2>2. QED
    BY <2>1 DEF LogActs
<1>30. QED
  BY <1>10, <1>11, <1>12, <1>13, <1>14, <1>15, <1>16, <1>17, <1>19, <1>20 DEF ResumeRun, StepRun

LEMMA RunIds ==
    ASSUME IdInv, QuellInv', NEW r \in Runs, RunStep(r)
    PROVE  IdInv'
<1> DEFINE t == TaskOf(r)
<1>1. /\ RunActs(r) /\ LogActs(r) /\ UNCHANGED <<events, subject>>
      /\ QuellInv /\ AnswerInv /\ AnswerInv' /\ queue \in Seq(Op)
  BY RunSteppedActs, RunLogs, QuellTypes
     DEF IdInv, QuellInv, RunStep, ResumeRun, StepRun, tables, supervisorVars, callVars
<1>2. /\ t \in Task /\ r \in Client /\ (r = Run(t) \/ r = Resume(t)) /\ Run(t) # Resume(t)
      /\ \A u \in Task : Run(u) \in Client /\ (u # t => Run(u) # r)
      /\ Runs \subseteq Client
  BY ClientsApart
<1>3. /\ pc[r] \notin {"idle", "ended"} /\ pc'[r] \notin {"idle", "running"}
      /\ pc[r] \in Closing => pc'[r] \in Closing
      /\ \A c \in Client : c # r => pc'[c] = pc[c]
      /\ \A i \in 1 .. Len(queue) : queue[i].by # r
  BY <1>1 DEF RunActs, Live
<1>4. RunsGoOn
  BY <1>2, <1>3 DEF RunsGoOn
<1>5. r = Resume(t) => pc[Run(t)] \in Closing /\ pc'[r] \in Opening
  <2>1. r = Resume(t) => Asked(t)
    BY <1>1, <1>2, <1>3 DEF AnswerInv, ResumeRefused, Asked
  <2>2. Asked(t) => pc[Run(t)] \in Closing
    BY <1>1, <1>2, QuellTypes, StoreConstants, SupervisorConstants DEF AnswerInv, QuestionPut, Asked
  <2>3. pc'[Resume(t)] \in Opening
    BY <1>1, <1>2 DEF AnswerInv, ResumeRefused
  <2>4. QED
    BY <2>1, <2>2, <2>3
<1>6. \A i \in 1 .. Len(queue) : queue[i] \in Op /\ IdOK(queue[i]) /\ SameWrite(queue[i], queue[i])
  BY <1>1 DEF IdInv, IdsOK, SameWrite
<1>7. ASSUME NEW op \in Op, op.by = r, op.task = t, pc[r] \notin Closing,
             op.kind = "event" => Logs(r, op)
      PROVE  IdOK(op)' /\ \A i \in 1 .. Len(queue) : IdPair(queue[i], op)
  <2>1. CASE op.kind # "event"
    BY <2>1 DEF IdOK, IdPair
  <2>2. CASE op.kind = "event" /\ r = Resume(t)
    <3>1. op.id = "1" /\ pc[Run(t)] \in Closing /\ pc'[Run(t)] = pc[Run(t)] /\ op.by # Run(t)
      BY <1>2, <1>3, <1>5, <1>7, <2>2 DEF Logs, Opening
    <3>2. IdOK(op)'
      BY <1>7, <3>1 DEF IdOK, Closing
    <3>3. ASSUME NEW i \in 1 .. Len(queue) PROVE IdPair(queue[i], op)
      BY <1>6, <1>7, <3>1 DEF IdPair, IdOK, RunEvent, Closing
    <3>4. QED
      BY <3>2, <3>3
  <2>3. CASE op.kind = "event" /\ r = Run(t)
    <3>1. /\ Logs(r, op) /\ events' = events
      BY <1>1, <1>7, <2>3
    <3>2. EventIdFree(op)'
      BY <1>2, <1>7, <2>3, <3>1 DEF IdInv, IdsTaken, EventIdFree, Logs
    <3>3. RunEvent(op.by, op)'
      BY <1>7, <3>1 DEF Logs, RunEvent
    <3>4. IdOK(op)'
      BY <1>3, <1>7, <2>3, <3>1, <3>2, <3>3 DEF IdOK, Logs, Closing
    <3>5. ASSUME NEW i \in 1 .. Len(queue) PROVE IdPair(queue[i], op)
      BY <1>6, <1>7, <2>3, <3>1 DEF IdPair, IdOK, Logs
    <3>6. QED
      BY <3>4, <3>5
  <2>4. QED
    BY <1>2, <2>1, <2>2, <2>3
<1>8. \/ queue' = queue
      \/ \E op \in Op : /\ queue' = Append(queue, op) /\ IdOK(op)'
                        /\ \A i \in 1 .. Len(queue) : IdPair(queue[i], op)
  BY <1>1, <1>7 DEF LogActs
<1>9. \A i \in 1 .. Len(queue) : queue[i].by \in Runs => pc'[queue[i].by] = pc[queue[i].by]
  BY <1>2, <1>3
<1>10. QED
  BY <1>1, <1>4, <1>6, <1>8, <1>9, IdsStay

LEMMA StartIds ==
    ASSUME IdInv, QuellInv', NEW t \in Task, StartStep(t)
    PROVE  IdInv'
<1>1. /\ StartActs(t) /\ QuellInv /\ AnswerInv /\ queue \in Seq(Op) /\ UNCHANGED events
      /\ \A i \in 1 .. Len(queue) : queue[i] \in Op /\ OpOK(queue[i])
  BY StartSteppedActs, QuellTypes DEF IdInv, QuellInv, StartStep, tables, AnswerInv, OpsOK
<1>2. /\ Run(t) \in Runs /\ Start(t) \notin Runs /\ Runs \subseteq Client
      /\ \A u \in Task : Run(u) \in Client /\ Run(u) # Start(t) /\ (u # t => Run(u) # Run(t))
      /\ \A r \in Runs : r # Start(t)
  BY ClientsApart
<1>3. /\ \A c \in Client : c # Start(t) /\ c # Run(t) => pc'[c] = pc[c]
      /\ \/ StartQueues1(t) /\ pc'[Run(t)] = pc[Run(t)]
         \/ StartSpawns(t)
  BY <1>1 DEF StartActs
<1>4. StartSpawns(t) => pc[Run(t)] = "idle" /\ \A i \in 1 .. Len(queue) : queue[i].by # Run(t)
  <2> HAVE StartSpawns(t)
  <2>1. pc[Start(t)] # "returned"
    BY DEF StartSpawns, Told
  <2>2. pc[Run(t)] = "idle"
    BY <1>1, <2>1 DEF AnswerInv, RunsKnown
  <2>3. QED
    BY <1>1, <1>2, <2>2 DEF OpOK, RunAwaits
<1>5. RunsGoOn
  BY <1>2, <1>3, <1>4 DEF RunsGoOn, StartSpawns, Closing
<1>6. \A i \in 1 .. Len(queue) : SameWrite(queue[i], queue[i])
  BY DEF SameWrite
<1>7. \A i \in 1 .. Len(queue) : queue[i].by \in Runs => pc'[queue[i].by] = pc[queue[i].by]
  BY <1>2, <1>3, <1>4
<1>8. \/ queue' = queue
      \/ \E op \in Op : /\ queue' = Append(queue, op) /\ IdOK(op)'
                        /\ \A i \in 1 .. Len(queue) : IdPair(queue[i], op)
  <2>1. queue' = queue \/ \E op \in Op : queue' = Append(queue, op) /\ op.kind # "event"
    BY <1>3 DEF StartQueues1, StartSpawns
  <2>2. QED
    BY <2>1 DEF IdOK, IdPair
<1>9. QED
  BY <1>1, <1>5, <1>6, <1>7, <1>8, IdsStay

LEMMA RespondIds ==
    ASSUME IdInv, QuellInv', NEW p \in Responds, RespondStep(p)
    PROVE  IdInv'
<1>1. /\ RespondActs(p) /\ QuellInv /\ AnswerInv /\ queue \in Seq(Op) /\ UNCHANGED events
      /\ pc \in [Client -> RunLabel \cup CallLabel \cup BootLabel]
      /\ \A i \in 1 .. Len(queue) : queue[i] \in Op /\ OpOK(queue[i])
      /\ \A t \in Task : pc'[Run(t)] = pc[Run(t)]
  BY RespondSteppedActs, RespondShape, QuellTypes
     DEF IdInv, QuellInv, RespondStep, tables, AnswerInv, OpsOK
<1>2. /\ p \in Client /\ p \notin Runs /\ Runs \subseteq Client
      /\ \A t \in Task : Resume(t) \in Runs
  BY ClientsApart
<1>3. RespondReads(p) \/ RespondGoes(p) \/ RespondSpawns(p)
  BY <1>1 DEF RespondActs
<1>4. RespondSpawns(p) =>
          \A i \in 1 .. Len(queue) : queue[i].by # Resume(subject[p])
  <2> HAVE RespondSpawns(p)
  <2>1. subject[p] \in Task /\ pc[p] = "reread"
    BY DEF RespondSpawns
  <2>2. pc[Resume(subject[p])] = "idle"
    <3>1. \A q \in Responds : subject[q] = subject[p] /\ pc[q] = "returned" => q = p
      BY <1>1, <2>1 DEF AnswerInv, SpentOnce, Spent
    <3>2. QED
      BY <1>1, <2>1, <3>1 DEF AnswerInv, ResumeRefused
  <2>3. QED
    BY <1>1, <1>2, <2>1, <2>2 DEF OpOK, RunAwaits
<1>5. RunsGoOn
  BY <1>1 DEF RunsGoOn
<1>6. \A i \in 1 .. Len(queue) : SameWrite(queue[i], queue[i])
  BY DEF SameWrite
<1>7. \A i \in 1 .. Len(queue) : queue[i].by \in Runs => pc'[queue[i].by] = pc[queue[i].by]
  BY <1>1, <1>2, <1>3, <1>4 DEF RespondReads, RespondGoes, RespondSpawns
<1>8. \/ queue' = queue
      \/ \E op \in Op : /\ queue' = Append(queue, op) /\ IdOK(op)'
                        /\ \A i \in 1 .. Len(queue) : IdPair(queue[i], op)
  <2>1. queue' = queue \/ \E op \in Op : queue' = Append(queue, op) /\ op.kind # "event"
    BY <1>3 DEF RespondReads, RespondGoes, RespondSpawns
  <2>2. QED
    BY <2>1 DEF IdOK, IdPair
<1>9. QED
  BY <1>1, <1>5, <1>6, <1>7, <1>8, IdsStay

(* Cancellations, cancelled callers, stops and recovery. *)
Sides(op) == op.by \notin Runs /\ (op.kind = "event" => op.id \in {"999998", "recovery"})

LEMMA DisownedSame ==
    ASSUME queue \in Seq(Op), NEW d \in Client
    PROVE  /\ Disowned(d) \in Seq(Op) /\ Len(Disowned(d)) = Len(queue)
           /\ \A i \in 1 .. Len(queue) : SameWrite(queue[i], Disowned(d)[i])
<1>1. /\ Disowned(d) \in Seq(Op) /\ Len(Disowned(d)) = Len(queue)
      /\ DOMAIN queue = 1 .. Len(queue)
  BY DisownedKeeps
<1>2. \A i \in 1 .. Len(queue) : SameWrite(queue[i], Disowned(d)[i])
  BY <1>1 DEF SameWrite, Disowned, Op
<1>3. QED
  BY <1>1, <1>2

LEMMA SideIds ==
    ASSUME IdInv, QuellInv', Aside,
           NEW q, q = queue \/ \E d \in Client : q = Disowned(d),
           queue' = q \/ \E op \in Op : queue' = Append(q, op) /\ Sides(op)
    PROVE  IdInv'
<1>1. queue \in Seq(Op) /\ UNCHANGED events /\ \A r \in Runs : pc'[r] = pc[r]
  BY QuellTypes DEF IdInv, Aside
<1>2. /\ q \in Seq(Op) /\ Len(q) = Len(queue)
      /\ \A i \in 1 .. Len(queue) : SameWrite(queue[i], q[i])
  <2>1. CASE q = queue
    BY <1>1, <2>1 DEF SameWrite
  <2>2. CASE \E d \in Client : q = Disowned(d)
    BY <1>1, <2>2, DisownedSame
  <2>3. QED
    BY <2>1, <2>2
<1>3. QED
  BY <1>1, <1>2, IdsBeside DEF Sides

LEMMA CancelIds ==
    ASSUME IdInv, QuellInv', NEW c \in Cancels, CancelStep(c)
    PROVE  IdInv'
<1>1. /\ CancelActs(c) /\ Aside /\ c \notin Runs /\ Runs \subseteq Client
  BY CancelSteppedActs, CancelAside, ClientsApart DEF IdInv, QuellInv
<1>2. PICK q : /\ q = queue \/ \E d \in Client : q = Disowned(d)
               /\ CancelQueues(c, q)
  BY <1>1 DEF CancelActs
<1>3. queue' = q \/ \E op \in Op : queue' = Append(q, op) /\ Sides(op)
  BY <1>1, <1>2 DEF CancelQueues, Sides
<1>4. QED
  BY <1>1, <1>2, <1>3, SideIds

LEMMA GoneIds ==
    ASSUME IdInv, QuellInv', NEW c \in Callers, CallerCancelled(c)
    PROVE  IdInv'
<1>1. Aside /\ c \in Client /\ queue' = Disowned(c)
  BY GoneAside, ClientMembers DEF IdInv, QuellInv, CallerCancelled, Callers
<1>2. QED
  BY <1>1, SideIds

LEMMA StopIds ==
    ASSUME IdInv, QuellInv', NEW s \in Stops, StopStep(s)
    PROVE  IdInv'
<1>1. Aside /\ s \in Client /\ s \notin Runs /\ AnyTask \in Task
  BY StopAside, ClientKinds, ClientMembers, ClientsApart DEF IdInv, QuellInv
<1>2. /\ MakeOp(s, "stop", AnyTask) \in Op /\ MakeOp(s, "stop", AnyTask).by = s
      /\ MakeOp(s, "stop", AnyTask).kind = "stop"
  BY <1>1, OpTyped DEF OpKind
<1>3. queue' = queue \/ queue' = Append(queue, MakeOp(s, "stop", AnyTask))
  BY DEF StopStep, StopSubmit, StopReturn, Submit
<1>4. QED
  BY <1>1, <1>2, <1>3, SideIds DEF Sides

LEMMA BootIds ==
    ASSUME IdInv, QuellInv', BootStep
    PROVE  IdInv'
<1>1. /\ Aside /\ TypeInv /\ Boot \in Client /\ Boot \notin Runs /\ AnyTask \in Task
      /\ todo \subseteq Task
  BY BootAside, QuellTypes, ClientKinds, ClientMembers, ClientsApart
     DEF IdInv, QuellInv, TypeInv, TypeOK
<1>2. pc[Boot] = "marking" => subject[Boot] \in Task
  BY <1>1 DEF TypeInv, SubjectKnown
<1>3. \/ queue' = queue
      \/ \E t \in Task : \/ queue' = Append(queue, StatusOp(Boot, t, "failed"))
                         \/ queue' = Append(queue, EventOp(Boot, t, "failed", "recovery"))
      \/ queue' = Append(queue, MakeOp(Boot, "lifecycle", AnyTask))
  BY <1>1, <1>2
     DEF BootStep, BootRead, BootMark, BootSeal, BootMarked, BootLogged, BootServe, Wake, Submit
<1>4. /\ "failed" \in Status /\ "failed" \in EventType /\ "recovery" \in EventId
      /\ "lifecycle" \in OpKind
  BY StatusKinds DEF EventType, EventId, OpKind
<1>5. /\ \A t \in Task : /\ StatusOp(Boot, t, "failed") \in Op
                         /\ StatusOp(Boot, t, "failed").by = Boot
                         /\ StatusOp(Boot, t, "failed").kind = "status"
                         /\ EventOp(Boot, t, "failed", "recovery") \in Op
                         /\ EventOp(Boot, t, "failed", "recovery").by = Boot
      /\ MakeOp(Boot, "lifecycle", AnyTask) \in Op
      /\ MakeOp(Boot, "lifecycle", AnyTask).by = Boot
      /\ MakeOp(Boot, "lifecycle", AnyTask).kind = "lifecycle"
  BY <1>1, <1>4, OpTyped
<1>6. \A t \in Task : EventOp(Boot, t, "failed", "recovery").id = "recovery"
  BY DEF EventOp, MakeOp
<1>7. queue' = queue \/ \E op \in Op : queue' = Append(queue, op) /\ Sides(op)
  BY <1>1, <1>3, <1>5, <1>6 DEF Sides
<1>8. QED
  BY <1>1, <1>7, SideIds

LEMMA EventsWritten ==
    ASSUME NEW op, Apply(op)
    PROVE  \/ events' = events
           \/ op.kind = "event" /\ events' = events \cup {<<op.task, op.id>>}
BY DEF Apply, InsertTask, RefuseDuplicate, UpdateStatus, AppendEvent, RefuseEvent, SaveCheckpoint,
       ConsumeCheckpoint, MissCheckpoint, NextGeneration, StopTopicPrefix, LifecycleLog, tables

LEMMA WriterIds ==
    ASSUME IdInv, QuellInv', WriterTurn
    PROVE  IdInv'
<1> DEFINE rest == Tail(queue)
<1>0. PICK op : op = Head(queue)
  OBVIOUS
<1>1. /\ op \in Op /\ Apply(op) /\ op.task \in Task
      /\ rest \in Seq(Op) /\ queue' = rest /\ UNCHANGED pc
  BY <1>0, WriterHead DEF IdInv, QuellInv
<1>2. queue \in Seq(Op) /\ queue # <<>> /\ \A o \in Op : o.task \in Task
  BY QuellTypes DEF IdInv, WriterTurn, WriterStep
<1>3. /\ Len(queue) \in Nat /\ Len(queue) >= 1 /\ op = queue[1] /\ Len(rest) = Len(queue) - 1
      /\ \A i \in 1 .. Len(rest) : rest[i] = queue[i + 1] /\ i + 1 \in 1 .. Len(queue)
  BY <1>0, <1>2
<1> HIDE DEF rest
<1>4. /\ IdOK(op)
      /\ \A i \in 1 .. Len(rest) :
            /\ IdOK(rest[i]) /\ IdPair(op, rest[i])
            /\ \A j \in 1 .. Len(rest) : i < j => IdPair(rest[i], rest[j])
  <2>1. 1 \in 1 .. Len(queue) /\ \A i \in 1 .. Len(rest) : 1 < i + 1
    BY <1>3
  <2>2. \A i, j \in 1 .. Len(rest) : i < j => i + 1 < j + 1
    BY <1>3
  <2>3. QED
    BY <1>3, <2>1, <2>2 DEF IdInv, IdsOK, IdPairs
<1>5. \/ events' = events
      \/ op.kind = "event" /\ events' = events \cup {<<op.task, op.id>>}
  BY <1>1, EventsWritten
<1>6. ASSUME NEW i \in 1 .. Len(rest), NEW o \in Op, o = rest[i] PROVE IdOK(o)'
  <2>1. IdOK(o) /\ IdPair(op, o)
    BY <1>4, <1>6
  <2>2. o.kind = "event" /\ o.by = Run(o.task) => EventIdFree(o)'
    BY <1>5, <2>1 DEF IdOK, IdPair, EventIdFree
  <2>3. QED
    BY <1>1, <2>1, <2>2 DEF IdOK, RunEvent
<1>7. IdsOK' /\ IdPairs'
  BY <1>1, <1>4, <1>6, IdQueue
<1>8. IdsTaken'
  <2>1. ASSUME NEW t \in Task, NEW i \in {"1", "2", "3"}, <<t, i>> \in events'
        PROVE  <<t, i>> \in events \/ (op.kind = "event" /\ op.task = t /\ op.id = i)
    BY <1>5, <2>1
  <2>2. /\ op.kind = "event" /\ op.id = "1" => pc[Run(op.task)] \notin {"idle", "running"}
        /\ op.kind = "event" /\ op.id \in {"2", "3"} => pc[Run(op.task)] \in Closing
    BY <1>4 DEF IdOK
  <2>3. QED
    BY <1>1, <2>1, <2>2 DEF IdInv, IdsTaken
<1>9. QED
  BY <1>7, <1>8 DEF IdInv

LEMMA CrashIds ==
    ASSUME IdInv, QuellInv', Crash
    PROVE  IdInv'
<1>1. UNCHANGED events /\ queue' = <<>>
  BY DEF Crash, tables
<1>2. \A t \in Task : pc'[Run(t)] = IF pc[Run(t)] = "idle" THEN "idle" ELSE "ended"
  <2>1. \A t \in Task : Run(t) \in Runs /\ Run(t) \in Client /\ Run(t) # Boot
    BY ClientsApart, ClientMembers
  <2>2. QED
    BY <2>1 DEF Crash
<1>3. IdsTaken'
  BY <1>1, <1>2 DEF IdInv, IdsTaken, Closing
<1>4. IdsOK' /\ IdPairs'
  BY <1>1 DEF IdsOK, IdPairs
<1>5. QED
  BY <1>3, <1>4 DEF IdInv

LEMMA IdInit == Init => IdInv
<1>1. Init => queue = <<>> /\ events = {}
  BY DEF Init, StoreInit
<1>2. Init => IdsOK /\ IdPairs /\ IdsTaken
  BY <1>1 DEF IdsOK, IdPairs, IdsTaken
<1>3. QED
  BY <1>2, QuellInit DEF IdInv

LEMMA IdStep == IdInv /\ [Next]_vars => IdInv'
<1> SUFFICES ASSUME IdInv, [Next]_vars PROVE IdInv'
  OBVIOUS
<1>1. QuellInv'
  BY QuellStep DEF IdInv
<1>2. CASE AllSettled \/ UNCHANGED vars
  <2>1. UNCHANGED <<queue, pc, events>>
    BY <1>2 DEF AllSettled, vars, storeVars, runtimeVars, tables
  <2>2. queue \in Seq(Op) /\ RunsGoOn /\ \A i \in 1 .. Len(queue) : SameWrite(queue[i], queue[i])
    BY <2>1, QuellTypes DEF IdInv, RunsGoOn, SameWrite
  <2>3. QED
    BY <1>1, <2>1, <2>2, IdsStay
<1>3. QED
  BY <1>1, <1>2, WriterIds, RunIds, StartIds, CancelIds, RespondIds, StopIds, GoneIds, BootIds,
     CrashIds DEF Next

(* What one transaction answers, and makes of the row it is for. *)
LEMMA Answered ==
    ASSUME TypeInv, Quiet, NEW op \in Op, op.by \in Client, Apply(op)
    PROVE  /\ reply'[op.by] = "error" =>
                 op.kind = "create" \/ (op.kind = "event" /\ ~EventIdFree(op))
           /\ op.kind = "create" /\ ~Row(op.task) /\ Row(op.task)' => reply'[op.by] = "ok"
           /\ reply'[op.by] = "ok" /\ Row(op.task) =>
                 /\ op.kind = "status" => status'[op.task] = op.status
                 /\ op.kind = "event" /\ op.type \in LastType
                       => status'[op.task] \in TerminalStatus \cup {"waiting_input"}
<1>1. /\ op.task \in Task /\ reply \in [Client -> Reply] /\ op.by # Nobody
      /\ status \in [Task -> Status \cup {"absent"}]
  BY ClientMembers, StoreConstants DEF TypeInv, TypeOK, StoreTypeOK, Op
<1>2. \A a : Answer(op, a) => reply'[op.by] = a
  BY <1>1 DEF Answer
<1>3. CASE InsertTask(op)
  BY <1>2, <1>3 DEF InsertTask
<1>4. CASE RefuseDuplicate(op)
  BY <1>2, <1>4 DEF RefuseDuplicate, tables, Row
<1>5. CASE UpdateStatus(op)
  BY <1>1, <1>2, <1>5 DEF UpdateStatus, Marked
<1>6. CASE AppendEvent(op)
  <2>1. op.type \in LastType =>
            EventStatus(op.type, status[op.task]) \in TerminalStatus \cup {"waiting_input"}
    BY DEF EventStatus, LastType, TerminalStatus
  <2>2. Row(op.task) => status'[op.task] = EventStatus(op.type, status[op.task])
    BY <1>1, <1>6 DEF AppendEvent, Marked
  <2>3. op.kind = "event" /\ reply'[op.by] = "ok"
    BY <1>2, <1>6 DEF AppendEvent
  <2>4. QED
    BY <2>1, <2>2, <2>3
<1>7. CASE RefuseEvent(op)
  BY <1>2, <1>7 DEF RefuseEvent
<1>8. CASE SaveCheckpoint(op) \/ ConsumeCheckpoint(op) \/ MissCheckpoint(op)
  BY <1>2, <1>8 DEF SaveCheckpoint, ConsumeCheckpoint, MissCheckpoint
<1>9. CASE NextGeneration(op) \/ StopTopicPrefix(op) \/ LifecycleLog(op)
  BY <1>2, <1>9 DEF NextGeneration, StopTopicPrefix, LifecycleLog
<1>10. QED
  BY <1>3, <1>4, <1>5, <1>6, <1>7, <1>8, <1>9 DEF Apply

(* A row that counts nothing any more, or whose run is of no concern; a    *)
(* run that may end without a look at its row.                             *)
Calm(t) == status[t] \notin ActiveStatus \cup {"absent"} \/ Asked(t)
Stopped(t) ==
    \/ reply[Run(t)] = "cancelled" \/ Run(t) \in tokenSet \/ pc[Run(t)] = "push"
    \/ pc[Run(t)] = "closing" /\ reply[Run(t)] = "ok"
Heard == \A t \in Task : reply[Run(t)] # "error"
CreateTold == \A t \in Task : pc[Start(t)] = "create" /\ Row(t) => reply[Start(t)] = "ok"
Calmed ==
    /\ \A t \in Task : Stopped(t) => Calm(t)
    /\ \A c \in Cancels : pc[c] = "marking" /\ reply[c] = "ok" => Calm(subject[c])
(* The row of a task is looked after, or its agent could not be built.     *)
Noted(t) == Attended(t) \/ Uncaught(Run(t))
Kept ==
    \A t \in Task :
        t \notin orphans /\ status[t] \in ActiveStatus /\ ~Asked(t) => Noted(t)
(* What a run came to is settled when it ends. *)
UncaughtEnded == \A t \in Task : Uncaught(Run(t)) => pc[Run(t)] = "ended"
AttendInv == IdInv /\ Heard /\ CreateTold /\ Calmed /\ UncaughtEnded /\ Kept

LEMMA AttendTypes ==
    ASSUME AttendInv
    PROVE  /\ IdInv /\ QuellInv /\ AnswerInv /\ TypeInv
           /\ queue \in Seq(Op) /\ reply \in [Client -> Reply]
           /\ pc \in [Client -> RunLabel \cup CallLabel \cup BootLabel]
           /\ registered \in [Task -> {"none", "run", "resume"}]
           /\ token \in [Task -> {"none", "run", "resume"}]
           /\ tokenSet \subseteq Runs
           /\ status \in [Task -> Status \cup {"absent"}]
           /\ outcome \in [Runs -> Outcome]
           /\ subject \in [Cancels \cup Responds \cup {Boot} -> Task \cup {NoTask}]
  BY QuellTypes DEF AttendInv, IdInv, TypeInv, TypeOK, RuntimeTypeOK

(* A step after which a task's run came to what it had come to before. *)
Settles(t) ==
    /\ outcome'[Run(t)] = outcome[Run(t)]
    /\ pc[Run(t)] = "ended" => pc'[Run(t)] = "ended"

(* The run that takes a step says what it came to when it ends. *)
LEMMA RunSettles ==
    ASSUME AttendInv, NEW r \in Runs, ResumeRun(r) \/ StepRun(r)
    PROVE  /\ \A q \in Runs : q # r => outcome'[q] = outcome[q]
           /\ r = Run(TaskOf(r)) /\ outcome'[r] = "uncaught" => pc'[r] = "ended"
<1>1. /\ r \in Client /\ TaskOf(r) \in Task /\ outcome \in [Runs -> Outcome]
      /\ pc \in [Client -> RunLabel \cup CallLabel \cup BootLabel]
  BY AttendTypes, ClientsApart
<1>2. Live(r)
  BY RunSteppedActs, AttendTypes DEF RunActs
<1>3. r = Run(TaskOf(r)) => outcome[r] # "uncaught"
  BY <1>1, <1>2 DEF AttendInv, UncaughtEnded, Uncaught, Live
<1>4. CASE UNCHANGED outcome
  BY <1>3, <1>4
<1>5. CASE InstantiateRaises(r)
  BY <1>1, <1>5 DEF InstantiateRaises, Finished, Goto
<1>6. CASE AgentEmits(r)
  BY <1>1, <1>6 DEF AgentEmits
<1>7. CASE AgentPushes(r)
  BY <1>1, <1>3, <1>7 DEF AgentPushes, AfterExecute
<1>8. CASE AgentReturns(r)
  BY <1>1, <1>8 DEF AgentReturns, AfterExecute, Result
<1>9. CASE ResumeRun(r)
  <2>1. UNCHANGED outcome
    BY <1>9 DEF ResumeRun, BecomeRunning, StartLogged, StartRefused, AgentLogged, Checkpointed,
       LastEventLogged, CancelledInExecute, CancelledElsewhere, runLocals
  <2>2. QED
    BY <1>4, <2>1
<1>10. CASE \/ Announce(r) \/ Instantiate(r) \/ InstantiateFails(r) \/ CheckTerminal(r)
            \/ Report(r) \/ LastPush(r)
  <2>1. UNCHANGED outcome
    BY <1>10 DEF Announce, Instantiate, InstantiateFails, CheckTerminal, Report, LastPush,
       runLocals
  <2>2. QED
    BY <1>4, <2>1
<1>11. QED
  BY <1>5, <1>6, <1>7, <1>8, <1>9, <1>10 DEF StepRun

(* Steps that write no row. *)
LEMMA AttendStays ==
    ASSUME AttendInv, IdInv', UNCHANGED <<status, orphans>>,
           \A t \in Task : Asked(t) => Asked(t)',
           \A t \in Task : reply'[Run(t)] # "error",
           \A t \in Task : pc'[Start(t)] = "create" /\ Row(t) =>
               pc[Start(t)] = "create" /\ reply'[Start(t)] = reply[Start(t)],
           \A t \in Task : Stopped(t)' => Stopped(t) \/ Calm(t),
           \A c \in Cancels : pc'[c] = "marking" /\ reply'[c] = "ok" =>
               pc[c] = "marking" /\ reply[c] = "ok" /\ subject'[c] = subject[c],
           \A t \in Task : Settles(t) \/ (outcome'[Run(t)] = "uncaught" => pc'[Run(t)] = "ended"),
           \A t \in Task : Noted(t) /\ ~Calm(t) /\ Row(t) => Noted(t)'
    PROVE  AttendInv'
<1>1. Heard'
  BY DEF Heard
<1>2. CreateTold'
  BY DEF AttendInv, CreateTold, Row
<1>3. \A t \in Task : Calm(t) => Calm(t)'
  BY DEF Calm
<1>4. \A t \in Task : Stopped(t)' => Calm(t)'
  BY <1>3 DEF AttendInv, Calmed
<1>5. ASSUME NEW c \in Cancels, pc'[c] = "marking", reply'[c] = "ok" PROVE Calm(subject[c])'
  <2>1. Calm(subject[c]) /\ subject'[c] = subject[c] /\ subject[c] \in Task
    BY <1>5, AttendTypes DEF AttendInv, Calmed, TypeInv, SubjectKnown
  <2>2. PICK t \in Task : t = subject[c]
    BY <2>1
  <2>3. Calm(t)'
    BY <1>3, <2>1, <2>2
  <2>4. QED
    BY <2>1, <2>2, <2>3 DEF Calm, Asked
<1>6. Calmed'
  <2>1. \A c \in Cancels : pc'[c] = "marking" /\ reply'[c] = "ok" => Calm(subject[c])'
    BY <1>5
  <2>2. QED
    BY <1>4, <2>1 DEF Calmed, Calm, Asked
<1>7. Kept'
  <2> SUFFICES ASSUME NEW t \in Task, t \notin orphans, status[t] \in ActiveStatus, ~Asked(t)'
               PROVE  Noted(t)'
    BY DEF Kept
  <2>1. ~Asked(t) /\ ~Calm(t) /\ Row(t)
    BY DEF Calm, Row, ActiveStatus
  <2>2. Noted(t)
    BY <2>1 DEF AttendInv, Kept
  <2>3. QED
    BY <2>1, <2>2
<1>8. UncaughtEnded'
  BY DEF AttendInv, UncaughtEnded, Uncaught, Settles
<1>9. QED
  BY <1>1, <1>2, <1>6, <1>7, <1>8 DEF AttendInv

LEMMA RunAttends ==
    ASSUME AttendInv, IdInv', NEW r \in Runs, RunStep(r)
    PROVE  AttendInv'
<1> DEFINE t == TaskOf(r)
<1>1. /\ RunActs(r) /\ LogActs(r) /\ UNCHANGED <<status, subject, orphans>>
  BY RunSteppedActs, RunLogs, AttendTypes
     DEF RunStep, ResumeRun, StepRun, tables, supervisorVars, callVars, bootVars
<1>2. /\ t \in Task /\ r \in Client /\ (r = Run(t) \/ r = Resume(t)) /\ Run(t) # Resume(t)
      /\ \A u \in Task : /\ Run(u) \in Client /\ (u # t => Run(u) # r)
                         /\ Start(u) \in Client /\ Start(u) # r
      /\ \A c \in Cancels : c \in Client /\ c # r
  BY ClientsApart, ClientMembers
<1>3. /\ Live(r) /\ pc'[r] \notin {"idle", "running"} /\ reply'[r] = "none"
      /\ \A c \in Client : c # r => pc'[c] = pc[c] /\ reply'[c] = reply[c]
      /\ UNCHANGED tokenSet
      /\ pc'[r] = "push" => pc[r] = "closing" /\ reply[r] = "ok"
      /\ pc'[r] = "ended" =>
            \/ reply[r] \in {"cancelled", "error"} \/ r \in tokenSet \/ pc[r] = "push"
            \/ status[t] \in TerminalStatus \cup {"waiting_input"}
            \/ outcome'[r] = "uncaught"
  BY <1>1 DEF RunActs, LogActs
<1>4. \A u \in Task : Asked(u)' <=> Asked(u)
  BY <1>1 DEF Asked
<1>5. \A u \in Task : reply'[Run(u)] # "error"
  BY <1>2, <1>3 DEF AttendInv, Heard
<1>6. \A u \in Task : Stopped(u)' => Stopped(u)
  BY <1>2, <1>3 DEF Stopped
<1>7. /\ \A u \in Task : u # t => outcome'[Run(u)] = outcome[Run(u)]
      /\ r # Run(t) => outcome'[Run(t)] = outcome[Run(t)]
      /\ r = Run(t) /\ outcome'[r] = "uncaught" => pc'[r] = "ended"
  <2>1. \A u \in Task : Run(u) \in Runs
    BY ClientsApart
  <2>2. /\ \A q \in Runs : q # r => outcome'[q] = outcome[q]
        /\ r = Run(t) /\ outcome'[r] = "uncaught" => pc'[r] = "ended"
    BY RunSettles DEF RunStep
  <2>3. QED
    BY <1>2, <2>1, <2>2
<1>8. \A u \in Task : Settles(u) \/ (outcome'[Run(u)] = "uncaught" => pc'[Run(u)] = "ended")
  BY <1>2, <1>3, <1>7 DEF Settles
<1>9. ASSUME NEW u \in Task, Noted(u), ~Calm(u), Row(u) PROVE Noted(u)'
  <2>1. CASE r # Run(u)
    BY <1>2, <1>3, <1>7, <1>9, <2>1 DEF Noted, Attended, Live, Uncaught
  <2>2. CASE r = Run(u)
    <3>1. u = t /\ status[t] \in ActiveStatus
      BY <1>2, <1>9, <2>2 DEF Calm, Row
    <3>2. ~Stopped(u) /\ reply[r] # "error"
      BY <1>9, <2>2 DEF AttendInv, Calmed, Heard
    <3>3. status[t] \notin TerminalStatus \cup {"waiting_input"}
      BY <3>1 DEF ActiveStatus, TerminalStatus
    <3>4. pc'[r] # "ended" \/ outcome'[r] = "uncaught"
      BY <1>3, <2>2, <3>2, <3>3 DEF Stopped
    <3>5. QED
      BY <1>3, <2>2, <3>4 DEF Noted, Attended, Live, Uncaught
  <2>3. QED
    BY <2>1, <2>2
<1>10. QED
  BY <1>1, <1>2, <1>3, <1>4, <1>5, <1>6, <1>8, <1>9, AttendStays

(* A start leaves its insert with a run, or with a row that waits. *)
LEMMA StartAttends ==
    ASSUME RuntimeEnabled, AttendInv, IdInv', NEW t \in Task, StartStep(t)
    PROVE  AttendInv'
<1>1. /\ StartActs(t) /\ AnswerInv /\ UNCHANGED <<status, subject, orphans, tokenSet, outcome>>
      /\ pc \in [Client -> RunLabel \cup CallLabel \cup BootLabel]
  BY StartSteppedActs, AttendTypes DEF StartStep, tables, bootVars, callVars, runLocals
<1>2. /\ Start(t) \in Client /\ Run(t) \in Client /\ Run(t) # Start(t)
      /\ \A c \in Cancels : c \in Client /\ c # Start(t) /\ c # Run(t)
      /\ \A u \in Task : /\ Run(u) \in Client /\ Run(u) # Start(t)
                         /\ Start(u) \in Client /\ Start(u) # Run(t)
                         /\ u # t => Run(u) # Run(t) /\ Start(u) # Start(t)
  BY ClientsApart, ClientMembers
<1>3. /\ pc[Start(t)] \notin EndLabel /\ reply'[Start(t)] = "none"
      /\ \A c \in Client : c # Start(t) => /\ reply'[c] = reply[c]
                                           /\ c # Run(t) => pc'[c] = pc[c]
      /\ pc'[Run(t)] = pc[Run(t)] \/ (pc'[Run(t)] = "running" /\ pc[Run(t)] = "idle")
  <2>1. StartSpawns(t) => pc[Run(t)] = "idle"
    BY <1>1 DEF StartSpawns, Told, AnswerInv, RunsKnown
  <2>2. QED
    BY <1>1, <2>1 DEF StartActs, StartSpawns
<1>4. \A l : Goto(Start(t), l) => pc'[Start(t)] = l
  BY <1>1, <1>2 DEF Goto
<1>5. pc'[Start(t)] = "create" => pc[Start(t)] \in Early
  <2>1. CASE StartCall(t) \/ ReadReplaced(t) \/ ReadKey(t) \/ Reread(t) \/ RowRefused(t)
    BY <1>4, <2>1 DEF StartCall, ReadReplaced, ReadKey, Reread, RowRefused, ReturnHandle
  <2>2. CASE PassGate(t)
    BY <2>2 DEF PassGate, Early
  <2>3. CASE Admit(t) \/ GenerationAllotted(t)
    BY <2>3 DEF Admit, GenerationAllotted, Wake, Early
  <2>4. CASE RowCreated(t)
    <3>1. \/ pc' = [pc EXCEPT ![Start(t)] = "returned", ![Run(t)] = "running"]
          \/ Goto(Start(t), "returned")
      BY <2>4 DEF RowCreated
    <3>2. QED
      BY <1>1, <1>2, <1>4, <3>1
  <2>5. QED
    BY <2>1, <2>2, <2>3, <2>4 DEF StartStep, StartResumes, StartSteps
<1>6. pc[Start(t)] = "create" =>
          \/ pc'[Run(t)] = "running"
          \/ Told(t) /\ decision[t] # "pending"
          \/ reply[Start(t)] = "error"
  <2> HAVE pc[Start(t)] = "create"
  <2>1. RowCreated(t) \/ RowRefused(t)
    <3>1. ~StartSteps(t)
      BY DEF StartSteps, StartCall, ReadReplaced, ReadKey, PassGate, Admit, Reread
    <3>2. ~GenerationAllotted(t)
      BY DEF GenerationAllotted, Wake
    <3>3. QED
      BY <3>1, <3>2 DEF StartStep, StartResumes
  <2>2. CASE RowCreated(t)
    <3>1. pc[Start(t)] = "create" /\ reply[Start(t)] = "ok"
      BY <2>2 DEF RowCreated, Wake
    <3>2. CASE decision[t] = "pending"
      <4>1. pc' = [pc EXCEPT ![Start(t)] = "returned", ![Run(t)] = "running"]
        BY <2>2, <3>2 DEF RowCreated
      <4>2. QED
        BY <1>1, <1>2, <4>1
    <3>3. QED
      BY <3>1, <3>2 DEF Told
  <2>3. QED
    BY <2>1, <2>2 DEF RowRefused, Wake
<1>7. \A u \in Task : Asked(u)' <=> Asked(u)
  BY <1>1 DEF Asked
<1>8. \A u \in Task : Stopped(u)' => Stopped(u)
  BY <1>1, <1>2, <1>3 DEF Stopped
<1>9. \A u \in Task : pc'[Start(u)] = "create" /\ Row(u) =>
          pc[Start(u)] = "create" /\ reply'[Start(u)] = reply[Start(u)]
  <2>1. pc'[Start(t)] = "create" => ~Row(t)
    BY <1>1, <1>5 DEF AnswerInv, OrphanInv, TopicInv, EarlyHasNoRow
  <2>2. QED
    BY <1>2, <1>3, <2>1
<1>10. ASSUME NEW u \in Task, Noted(u), ~Calm(u), Row(u) PROVE Noted(u)'
  <2>0. CASE Uncaught(Run(u))
    BY <1>1, <2>0 DEF Noted, Uncaught
  <2>1. CASE ~Uncaught(Run(u)) /\ u # t
    BY <1>2, <1>3, <1>10, <2>1 DEF Noted, Attended, Live
  <2>2. CASE u = t /\ Live(Run(t))
    BY <1>3, <2>2 DEF Noted, Attended, Live
  <2>3. CASE ~Uncaught(Run(u)) /\ u = t /\ ~Live(Run(t))
    <3>1. pc[Start(t)] = "create"
      BY <1>3, <1>10, <2>3 DEF Noted, Attended, EndLabel
    <3>2. reply[Start(t)] = "ok"
      BY <1>10, <2>3, <3>1 DEF AttendInv, CreateTold
    <3>3. decision[t] = "pending"
      <4>1. status[t] = decision[t] /\ status[t] \in ActiveStatus
        BY <1>1, <1>10, <2>3, <3>1, <3>2 DEF AnswerInv, SubjectsSettled, Told, Calm, Row
      <4>2. decision[t] \in {"pending", "waiting_resource"}
        BY AttendTypes DEF TypeInv, TypeOK
      <4>3. QED
        BY <4>1, <4>2 DEF ActiveStatus
    <3>4. QED
      BY <1>6, <2>3, <3>1, <3>2, <3>3 DEF Noted, Attended, Live
  <2>4. QED
    BY <2>0, <2>1, <2>2, <2>3
<1>11. /\ \A u \in Task : reply'[Run(u)] # "error"
       /\ \A c \in Cancels : pc'[c] = pc[c] /\ reply'[c] = reply[c] /\ subject'[c] = subject[c]
       /\ \A u \in Task : Settles(u)
  BY <1>1, <1>2, <1>3 DEF AttendInv, Heard, Settles
<1>12. QED
  BY <1>1, <1>7, <1>8, <1>9, <1>10, <1>11, AttendStays

LEMMA AsideAttends ==
    ASSUME AttendInv, IdInv', Aside, UNCHANGED <<orphans, outcome>>,
           \A t \in Task : Stopped(t)' => Stopped(t) \/ Calm(t),
           \A c \in Cancels : pc'[c] = "marking" /\ reply'[c] = "ok" =>
               pc[c] = "marking" /\ reply[c] = "ok" /\ subject'[c] = subject[c]
    PROVE  AttendInv'
<1>1. /\ UNCHANGED status
      /\ \A r \in Runs : pc'[r] = pc[r] /\ (reply'[r] = reply[r] \/ reply'[r] = "cancelled")
      /\ \A p \in Responds : subject'[p] = subject[p]
      /\ \A c \in Starts : reply'[c] = reply[c] /\ (pc'[c] = pc[c] \/ pc'[c] = "gone")
  BY DEF Aside
<1>2. \A t \in Task : Run(t) \in Runs /\ Start(t) \in Starts
  BY ClientsApart
<1>3. \A t \in Task : /\ Asked(t) => Asked(t)'
                      /\ reply'[Run(t)] # "error"
                      /\ pc'[Start(t)] = "create" =>
                            pc[Start(t)] = "create" /\ reply'[Start(t)] = reply[Start(t)]
                      /\ Settles(t) /\ (Noted(t) => Noted(t)')
  BY <1>1, <1>2 DEF AttendInv, Heard, Asked, Noted, Attended, Live, Uncaught, Settles
<1>4. QED
  BY <1>1, <1>3, AttendStays

(* A cancellation stops the run of the task whose row it has marked. *)
LEMMA CancelAttends ==
    ASSUME AttendInv, IdInv', NEW c \in Cancels, CancelStep(c)
    PROVE  AttendInv'
<1>1. /\ CancelActs(c) /\ CancelMoves(c) /\ Aside /\ UNCHANGED <<orphans, outcome>>
      /\ c \in Client /\ c \notin Runs
      /\ \A d \in Cancels : d \in Client
      /\ \A t \in Task : Run(t) \in Runs /\ Run(t) \in Client
      /\ pc[c] \in {"submit", "marking"} => subject[c] \in Task
  BY CancelSteppedActs, CancelSteppedMoves, CancelAside, AttendTypes, ClientsApart, ClientMembers
     DEF CancelStep, bootVars, TypeInv, SubjectKnown
<1>2. \A t \in Task : pc'[Run(t)] = pc[Run(t)]
  BY <1>1 DEF Aside
<1>3. CASE CancelMarked(c)
  <2> DEFINE t == subject[c]
             r == <<registered[t], t>>
  <2>1. /\ pc[c] = "marking" /\ reply[c] = "ok" /\ t \in Task
        /\ tokenSet' \subseteq tokenSet \cup {<<token[t], t>>}
        /\ \/ reply' = [reply EXCEPT ![c] = "none"]
           \/ reply' = [reply EXCEPT ![c] = "none", ![r] = "cancelled"]
        /\ Goto(c, "announcing")
    BY <1>1, <1>3 DEF CancelMarked
  <2>2. Calm(t)
    BY <2>1 DEF AttendInv, Calmed
  <2>3. \A u \in Task : u # t => Run(u) # r /\ Run(u) # <<token[t], t>> /\ Run(u) # c
    BY <1>1 DEF Run
  <2> HIDE DEF r
  <2>4. \A u \in Task : u # t =>
            /\ reply'[Run(u)] = reply[Run(u)]
            /\ Run(u) \in tokenSet' => Run(u) \in tokenSet
    BY <1>1, <2>1, <2>3, AttendTypes
  <2>5. \A u \in Task : Stopped(u)' => Stopped(u) \/ Calm(u)
    BY <1>2, <2>2, <2>4 DEF Stopped
  <2>6. \A d \in Cancels : pc'[d] = "marking" /\ reply'[d] = "ok" =>
               pc[d] = "marking" /\ reply[d] = "ok" /\ subject'[d] = subject[d]
    <3>1. pc'[c] = "announcing"
      BY <1>1, <2>1, AttendTypes DEF Goto
    <3>2. QED
      BY <1>1, <3>1 DEF CancelActs
  <2>7. QED
    BY <1>1, <2>5, <2>6, AsideAttends
<1>4. CASE ~CancelMarked(c)
  <2>1. UNCHANGED tokenSet /\ (UNCHANGED reply \/ reply' = [reply EXCEPT ![c] = "none"])
    <3>1. CASE CancelSteps(c)
      BY <3>1 DEF CancelSteps, CancelCall, CancelRead, CancelSubmit, CancelPush, CancelReturn
    <3>2. CASE CancelLogged(c) \/ CancelFails(c)
      BY <3>2 DEF CancelLogged, CancelFails, Wake
    <3>3. QED
      BY <1>4, <3>1, <3>2 DEF CancelStep, CancelResumes
  <2>2. \A t \in Task : Stopped(t)' => Stopped(t)
    BY <1>1, <1>2, <2>1, AttendTypes DEF Stopped
  <2>3. reply'[c] = "none"
    <3>1. (Quiet /\ UNCHANGED reply) \/ reply' = [reply EXCEPT ![c] = "none"]
      <4>1. CASE Quiet /\ CancelSteps(c)
        BY <4>1 DEF CancelSteps, CancelCall, CancelRead, CancelSubmit, CancelPush, CancelReturn
      <4>2. CASE CancelLogged(c) \/ CancelFails(c)
        BY <4>2 DEF CancelLogged, CancelFails, Wake
      <4>3. QED
        BY <1>4, <4>1, <4>2 DEF CancelStep, CancelResumes
    <3>2. QED
      BY <1>1, <3>1, AttendTypes DEF Quiet
  <2>4. \A d \in Cancels : pc'[d] = "marking" /\ reply'[d] = "ok" =>
               pc[d] = "marking" /\ reply[d] = "ok" /\ subject'[d] = subject[d]
    BY <1>1, <2>3 DEF CancelActs
  <2>5. QED
    BY <1>1, <2>2, <2>4, AsideAttends
<1>5. QED
  BY <1>3, <1>4

LEMMA StopAttends ==
    ASSUME AttendInv, IdInv', NEW s \in Stops, StopStep(s)
    PROVE  AttendInv'
<1>1. /\ Aside /\ UNCHANGED <<subject, orphans, tokenSet, outcome>>
      /\ s \in Client /\ s \notin Cancels
      /\ \A d \in Cancels : d \in Client /\ d # s
      /\ \A t \in Task : Run(t) \in Runs /\ Run(t) \in Client /\ Run(t) # s
  BY StopAside, AttendTypes, ClientKinds, ClientMembers, ClientsApart
     DEF StopStep, supervisorVars, callVars, bootVars, runLocals
<1>2. /\ UNCHANGED reply \/ reply' = [reply EXCEPT ![s] = "none"]
      /\ Goto(s, "stopping") \/ Goto(s, "returned")
  BY DEF StopStep, StopSubmit, StopReturn, Wake
<1>3. \A d \in Client : d # s => pc'[d] = pc[d] /\ reply'[d] = reply[d]
  BY <1>1, <1>2, AttendTypes DEF Goto
<1>4. \A t \in Task : Stopped(t)' => Stopped(t)
  BY <1>1, <1>3 DEF Stopped
<1>5. QED
  BY <1>1, <1>3, <1>4, AsideAttends

LEMMA GoneAttends ==
    ASSUME AttendInv, IdInv', NEW c \in Callers, CallerCancelled(c)
    PROVE  AttendInv'
<1>1. /\ Aside /\ UNCHANGED <<subject, orphans, tokenSet, outcome, reply>>
      /\ c \in Client /\ Goto(c, "gone")
      /\ \A d \in Cancels : d \in Client
      /\ \A t \in Task : Run(t) \in Runs
  BY GoneAside, AttendTypes, ClientMembers, ClientsApart
     DEF CallerCancelled, supervisorVars, callVars, bootVars, runLocals, Callers
<1>2. \A d \in Client : d # c => pc'[d] = pc[d]
  BY <1>1, AttendTypes DEF Goto
<1>3. pc'[c] = "gone"
  BY <1>1, AttendTypes DEF Goto
<1>4. \A t \in Task : Stopped(t)' => Stopped(t)
  BY <1>1 DEF Stopped, Aside
<1>5. QED
  BY <1>1, <1>2, <1>3, <1>4, AsideAttends

LEMMA BootAttends ==
    ASSUME AttendInv, IdInv', BootStep
    PROVE  AttendInv'
<1>1. /\ Aside /\ BootMoves /\ UNCHANGED <<orphans, tokenSet, outcome>>
      /\ Boot \in Client
      /\ \A d \in Cancels : d \in Client /\ d # Boot
      /\ \A t \in Task : Run(t) \in Runs /\ Run(t) \in Client /\ Run(t) # Boot
  BY BootAside, BootSteppedMoves, AttendTypes, ClientKinds, ClientMembers, ClientsApart
     DEF BootStep, runLocals
<1>2. \A d \in Client : d # Boot => pc'[d] = pc[d] /\ reply'[d] = reply[d]
  BY <1>1, AttendTypes DEF BootMoves, Consumes
<1>3. \A t \in Task : Stopped(t)' => Stopped(t)
  BY <1>1, <1>2 DEF Stopped
<1>4. \A d \in Cancels : subject'[d] = subject[d]
  BY <1>1 DEF BootMoves
<1>5. QED
  BY <1>1, <1>2, <1>3, <1>4, AsideAttends

LEMMA RespondAttends ==
    ASSUME AttendInv, IdInv', NEW p \in Responds, RespondStep(p)
    PROVE  AttendInv'
<1>1. /\ RespondActs(p) /\ UNCHANGED <<status, orphans, tokenSet, outcome>>
      /\ \A r \in Runs : reply'[r] = reply[r]
      /\ \A c \in Cancels : subject'[c] = subject[c]
      /\ \A t \in Task : pc'[Run(t)] = pc[Run(t)] /\ (Asked(t) => Asked(t)')
  BY RespondSteppedActs, RespondShape, AttendTypes DEF RespondStep, tables, bootVars, runLocals
<1>2. /\ p \in Client
      /\ \A c \in Cancels : c \in Client /\ c # p
      /\ \A t \in Task : /\ Run(t) \in Runs /\ Resume(t) \notin Cancels
                         /\ Start(t) \in Client /\ Start(t) # p
                         /\ \A u \in Task : Start(t) # Resume(u)
  BY ClientsApart, ClientMembers
<1>3. /\ \A c \in Client : c # p => reply'[c] = reply[c]
      /\ \/ \E l : pc' = [pc EXCEPT ![p] = l]
         \/ subject[p] \in Task /\ pc' = [pc EXCEPT ![p] = "returned", ![Resume(subject[p])] = "running"]
  BY <1>1 DEF RespondActs, RespondReads, RespondGoes, RespondSpawns
<1>4. /\ \A c \in Cancels : pc'[c] = pc[c] /\ reply'[c] = reply[c]
      /\ \A t \in Task : pc'[Start(t)] = pc[Start(t)] /\ reply'[Start(t)] = reply[Start(t)]
  BY <1>2, <1>3, AttendTypes
<1>5. \A t \in Task : /\ Stopped(t)' => Stopped(t)
                      /\ reply'[Run(t)] # "error"
                      /\ Settles(t) /\ (Noted(t) => Noted(t)')
  BY <1>1, <1>2, <1>4 DEF Stopped, Noted, Attended, Live, Uncaught, Settles, AttendInv, Heard
<1>6. QED
  BY <1>1, <1>4, <1>5, AttendStays

(* A run is told that its write failed only when the id of its event was   *)
(* taken, and that its last event is logged when its row says so.          *)
LEMMA WriterAttends ==
    ASSUME AttendInv, IdInv', WriterTurn
    PROVE  AttendInv'
<1>0. PICK op : op = Head(queue)
  OBVIOUS
<1>1. /\ op \in Op /\ Apply(op) /\ Quiet /\ OpOK(op) /\ op.task \in Task
      /\ UNCHANGED <<pc, subject, orphans, tokenSet, outcome>>
      /\ \A t \in Task : op.by = Start(t) => pc[Start(t)] = op.kind /\ op.task = t
  BY <1>0, WriterHead, AttendTypes
     DEF WriterTurn, WriterStep, runtimeVars, supervisorVars, bootVars
<1>2. CancelAwaits(op) /\ IdOK(op)
  <2>1. queue # <<>> /\ queue \in Seq(Op)
    BY AttendTypes DEF WriterTurn, WriterStep
  <2>2. op = queue[1] /\ 1 \in 1 .. Len(queue)
    BY <1>0, <2>1
  <2>3. QED
    BY <2>2 DEF AttendInv, IdInv, IdsOK, QuellInv, WritesOK
<1>3. /\ \A t \in Task : t # op.task => status'[t] = status[t]
      /\ \A t \in Task : Row(t) => Row(t)'
      /\ ~Updates(op) /\ op.kind # "create" => status' = status
      /\ status'[op.task] \in ActiveStatus =>
            \/ status[op.task] \in ActiveStatus \cup {"absent"}
            \/ Activates(op) \/ op.kind = "consume"
  BY <1>1, AttendTypes, Applied DEF Effect
<1>4. PICK a \in {"ok", "error", "none_found"} : Answer(op, a)
  BY <1>1, AttendTypes, Applied DEF Replied
<1>5. \A c \in Client : reply[c] = "none" /\ (reply'[c] = "none" \/ (op.by = c /\ reply'[c] = a))
  BY <1>1, <1>4, AttendTypes DEF Quiet, Answer
<1>6. op.by \in Client =>
          /\ reply'[op.by] = "error" =>
                op.kind = "create" \/ (op.kind = "event" /\ ~EventIdFree(op))
          /\ op.kind = "create" /\ ~Row(op.task) /\ Row(op.task)' => reply'[op.by] = "ok"
          /\ reply'[op.by] = "ok" /\ Row(op.task) =>
                /\ op.kind = "status" => status'[op.task] = op.status
                /\ op.kind = "event" /\ op.type \in LastType
                      => status'[op.task] \in TerminalStatus \cup {"waiting_input"}
  BY <1>1, AttendTypes, Answered
<1>7. /\ \A t \in Task : Run(t) \in Runs /\ Run(t) \in Client /\ TaskOf(Run(t)) = t
                         /\ Start(t) \in Client
      /\ \A c \in Cancels : c \in Client
  BY ClientsApart, ClientMembers DEF TaskOf, Run
<1>8. \A t \in Task : Asked(t)' <=> Asked(t)
  BY <1>1 DEF Asked
<1>9. Updates(op) => Row(op.task)
  BY <1>1 DEF OpOK, Settled
<1>10. \A t \in Task : op.by = Run(t) => op.task = t /\ op.kind \in {"status", "event", "checkpoint"}
  BY <1>1, <1>7 DEF OpOK, RunAwaits
<1>11. \A t \in Task : Calm(t) => Calm(t)'
  <2> SUFFICES ASSUME NEW t \in Task, Calm(t), ~Asked(t), status'[t] \in ActiveStatus \cup {"absent"}
               PROVE  FALSE
    BY <1>8 DEF Calm
  <2>1. status[t] \notin ActiveStatus /\ Row(t) /\ status'[t] # "absent"
    BY <1>3 DEF Calm, Row
  <2>2. op.task = t /\ status[t] # "pending"
    BY <1>3, <2>1 DEF ActiveStatus
  <2>3. ~Activates(op) /\ op.kind # "consume"
    BY <1>1, <2>2 DEF OpOK
  <2>4. QED
    BY <1>3, <2>1, <2>2, <2>3 DEF Row
<1>12. Heard'
  <2> SUFFICES ASSUME NEW t \in Task, reply'[Run(t)] = "error" PROVE FALSE
    BY DEF Heard
  <2>1. op.by = Run(t)
    BY <1>5, <1>7
  <2>2. op.kind = "event" /\ ~EventIdFree(op) /\ op.task = t
    BY <1>6, <1>7, <1>10, <2>1
  <2>3. QED
    BY <1>2, <2>1, <2>2 DEF IdOK
(* Only an insert makes a row.                                             *)
<1>13. \A t \in Task : ~Row(t) /\ Row(t)' =>
           /\ op.task = t /\ op.kind = "create"
           /\ pc[Start(t)] = "gone" \/ op.by = Start(t)
  <2> SUFFICES ASSUME NEW t \in Task, ~Row(t), Row(t)'
               PROVE  /\ op.task = t /\ op.kind = "create"
                      /\ pc[Start(t)] = "gone" \/ op.by = Start(t)
    OBVIOUS
  <2>1. op.task = t /\ op.kind = "create"
    BY <1>3, <1>9 DEF Row
  <2>2. QED
    BY <1>1, <2>1 DEF OpOK
<1>14. CreateTold'
  <2> SUFFICES ASSUME NEW t \in Task, pc[Start(t)] = "create", Row(t)' PROVE reply'[Start(t)] = "ok"
    BY <1>1 DEF CreateTold
  <2>1. ~Row(t)
    BY <1>5, <1>7 DEF AttendInv, CreateTold
  <2>2. op.task = t /\ op.kind = "create" /\ op.by = Start(t)
    BY <1>13, <2>1
  <2>3. QED
    BY <1>6, <1>7, <2>1, <2>2
<1>15. ASSUME NEW t \in Task, Stopped(t)' PROVE Calm(t)'
  <2>1. CASE Stopped(t)
    BY <1>11, <2>1 DEF AttendInv, Calmed
  <2>2. CASE ~Stopped(t)
    <3>1. pc[Run(t)] = "closing" /\ reply'[Run(t)] = "ok" /\ op.by = Run(t)
      BY <1>1, <1>5, <1>7, <1>15, <2>2 DEF Stopped
    <3>2. op.task = t /\ op.kind = "event"
      BY <1>1, <1>7, <3>1 DEF OpOK, RunAwaits
    <3>3. op.type \in LastType
      BY <1>2, <3>1, <3>2 DEF IdOK, RunEvent
    <3>4. Row(t)
      BY <1>9, <3>2 DEF Updates
    <3>5. status'[t] \in TerminalStatus \cup {"waiting_input"}
      BY <1>6, <1>7, <3>1, <3>2, <3>3, <3>4
    <3>6. QED
      BY <3>5 DEF Calm, TerminalStatus, ActiveStatus
  <2>3. QED
    BY <2>1, <2>2
<1>16. ASSUME NEW c \in Cancels, pc[c] = "marking", reply'[c] = "ok"
       PROVE  subject[c] \in Task /\ status'[subject[c]] = "cancelled"
  <2>1. op.by = c
    BY <1>5, <1>7, <1>16
  <2>2. op.task = subject[c] /\ op.kind = "status" /\ op.status = "cancelled"
    BY <1>2, <1>16, <2>1 DEF CancelAwaits
  <2>3. Row(op.task)
    BY <1>9, <2>2 DEF Updates
  <2>4. QED
    BY <1>1, <1>6, <1>7, <1>16, <2>1, <2>2, <2>3
<1>17. Calmed'
  <2>1. \A c \in Cancels : pc'[c] = "marking" /\ reply'[c] = "ok" => Calm(subject[c])'
    BY <1>1, <1>16 DEF Calm, ActiveStatus
  <2>2. QED
    BY <1>15, <2>1 DEF Calmed
<1>18. Kept'
  <2> SUFFICES ASSUME NEW t \in Task, t \notin orphans, status'[t] \in ActiveStatus, ~Asked(t)
               PROVE  Noted(t)
    BY <1>1, <1>8 DEF Kept, Noted, Attended, Live, Uncaught
  <2>1. CASE status[t] \in ActiveStatus
    BY <2>1 DEF AttendInv, Kept
  <2>2. CASE ~Row(t)
    <3>1. Row(t)'
      BY DEF Row, ActiveStatus
    <3>2. pc[Start(t)] = "gone" \/ pc[Start(t)] = "create"
      BY <1>1, <1>13, <2>2, <3>1
    <3>3. QED
      BY <3>2 DEF Noted, Attended
  <2>3. CASE Row(t) /\ status[t] \notin ActiveStatus
    <3>1. Calm(t)'
      BY <1>11, <2>3 DEF Calm, Row
    <3>2. QED
      BY <1>8, <3>1 DEF Calm
  <2>4. QED
    BY <2>1, <2>2, <2>3
<1>19. UncaughtEnded'
  BY <1>1 DEF AttendInv, UncaughtEnded, Uncaught
<1>20. QED
  BY <1>12, <1>14, <1>17, <1>18, <1>19 DEF AttendInv

(* A crash makes an orphan of every active row. *)
LEMMA CrashAttends ==
    ASSUME AttendInv, IdInv', Crash
    PROVE  AttendInv'
<1>1. /\ UNCHANGED <<status, subject, outcome>>
      /\ orphans' = orphans \cup {t \in Task : Row(t) /\ status[t] \notin TerminalStatus}
      /\ reply' = [c \in Client |-> "none"] /\ tokenSet' = {}
  BY DEF Crash, tables, callVars
<1>2. \A t \in Task : Run(t) \in Client /\ Start(t) \in Client
  BY ClientMembers
<1>3. /\ \A t \in Task : /\ pc'[Run(t)] \in {"idle", "ended"} /\ pc'[Start(t)] # "create"
                         /\ pc[Run(t)] = "ended" => pc'[Run(t)] = "ended"
      /\ \A c \in Cancels : pc'[c] # "marking"
  <2>1. /\ \A r \in Runs : r \in Client /\ r # Boot
        /\ \A c \in Cancels \cup Starts : c \in Client /\ c # Boot /\ c \notin Runs
        /\ \A t \in Task : Run(t) \in Runs /\ Start(t) \in Starts
    BY ClientsApart, ClientMembers, ClientKinds
  <2>2. QED
    BY <2>1 DEF Crash, EndLabel
<1>4. Heard' /\ CreateTold' /\ Calmed'
  BY <1>1, <1>2, <1>3 DEF Heard, CreateTold, Calmed, Stopped
<1>5. Kept'
  BY <1>1 DEF Kept, Row, ActiveStatus, TerminalStatus
<1>6. UncaughtEnded'
  BY <1>1, <1>3 DEF AttendInv, UncaughtEnded, Uncaught
<1>7. QED
  BY <1>4, <1>5, <1>6 DEF AttendInv

LEMMA AttendInit == Init => AttendInv
<1> SUFFICES ASSUME Init PROVE AttendInv
  OBVIOUS
<1>1. /\ \A t \in Task : Run(t) \in Client /\ Start(t) \in Client
      /\ \A t \in Task : Run(t) # Boot /\ Start(t) # Boot
      /\ \A c \in Cancels : c \in Client /\ c # Boot
  BY ClientsApart, ClientMembers, ClientKinds
<1>2. /\ \A t \in Task : status[t] = "absent"
      /\ \A t \in Task : /\ reply[Run(t)] = "none" /\ pc[Run(t)] = "idle"
                         /\ Run(t) \notin tokenSet /\ outcome[Run(t)] = "done"
      /\ \A c \in Cancels : pc[c] = "idle"
  <2>1. \A t \in Task : Run(t) \in Runs
    BY ClientsApart
  <2>2. QED
    BY <1>1, <2>1 DEF Init, StoreInit, RuntimeInit
<1>3. Heard /\ CreateTold /\ Calmed /\ Kept /\ UncaughtEnded
  BY <1>2 DEF Heard, CreateTold, Row, Calmed, Stopped, Kept, ActiveStatus, UncaughtEnded, Uncaught
<1>4. QED
  BY <1>3, IdInit DEF AttendInv

LEMMA AttendStep ==
    ASSUME RuntimeEnabled
    PROVE  AttendInv /\ [Next]_vars => AttendInv'
<1> SUFFICES ASSUME AttendInv, [Next]_vars PROVE AttendInv'
  OBVIOUS
<1>1. IdInv'
  BY IdStep DEF AttendInv
<1>2. CASE AllSettled \/ UNCHANGED vars
  <2>1. UNCHANGED <<status, orphans, pc, reply, subject, tokenSet, outcome>>
    BY <1>2 DEF AllSettled, vars, storeVars, runtimeVars, supervisorVars, callVars, bootVars, tables
  <2>2. \A t \in Task : /\ Asked(t) => Asked(t)'
                        /\ Stopped(t)' => Stopped(t)
                        /\ Settles(t) /\ (Noted(t) => Noted(t)')
                        /\ reply'[Run(t)] # "error"
    BY <2>1 DEF Asked, Stopped, Noted, Attended, Live, Uncaught, Settles, AttendInv, Heard
  <2>3. QED
    BY <1>1, <2>1, <2>2, AttendStays
<1>3. QED
  BY <1>1, <1>2, WriterAttends, RunAttends, StartAttends, CancelAttends, RespondAttends, StopAttends,
     GoneAttends, BootAttends, CrashAttends DEF Next

(* With the runtime switched on, a row that counts against the quota and   *)
(* that nobody answers has a run, or a start that is about to spawn it or  *)
(* was cancelled before it could, or a run that is over because its agent  *)
(* could not be built for a reason that run() does not catch.              *)
(* start_agent_task spawns the run only after the insert; run() ends       *)
(* without an event on several other paths: on each the row had ended.     *)
THEOREM ActiveRowsAreRun ==
    ASSUME RuntimeEnabled
    PROVE  Spec => []ActiveRowHasRun
<1>1. AttendInv => ActiveRowHasRun
  <2> SUFFICES ASSUME AttendInv, Serving,
                      NEW t \in Task, status[t] \in ActiveStatus, Unanswered(t)
               PROVE  Attended(t) \/ Uncaught(Run(t))
    BY DEF ActiveRowHasRun
  <2>1. t \in orphans => status[t] = "failed"
    BY FailedWhenServing, AttendTypes DEF AnswerInv
  <2>2. t \notin orphans /\ ~Asked(t)
    BY <2>1 DEF ActiveStatus, Unanswered, Asked
  <2>3. QED
    BY <2>2 DEF AttendInv, Kept, Noted
<1>2. AttendInv /\ [Next]_vars => AttendInv'
  BY AttendStep
<1>3. QED
  BY <1>1, <1>2, AttendInit, PTL DEF Spec
====
