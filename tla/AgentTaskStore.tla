--------------------------- MODULE AgentTaskStore ---------------------------
(***************************************************************************)
(* The durable store of background agent tasks                             *)
(* (src/src/core/concurrent_bg_work/store.py, migrations/004_agent_tasks). *)
(*                                                                         *)
(* Every write is an operation handed to one writer coroutine through a    *)
(* FIFO queue together with a future; the writer runs each operation in    *)
(* its own transaction and resolves the future.  Reads use their own       *)
(* connection and see what is committed.                                   *)
(*                                                                         *)
(* The tables are kept as one function per column that a decision depends  *)
(* on.  Who may write, and when, belongs to the modules that EXTEND this   *)
(* one: the store knows its clients only as the identities that wait.      *)
(***************************************************************************)
EXTENDS Naturals, Sequences, FiniteSets

CONSTANTS
    Task,       \* task ids; each start call draws a fresh one
    Key,        \* idempotency keys
    Topic,      \* (chat_id, topic_key) pairs of one stoppable prefix
    NoTopic,    \* a task started without a topic_key
    Client,     \* identities that may wait for a write
    Nobody,     \* the waiter of an operation whose caller has gone
    KeyOf,      \* the idempotency key a task is started under
    TopicOf     \* the topic a task is started under, or NoTopic

ASSUME StoreConstants ==
    /\ KeyOf \in [Task -> Key]
    /\ NoTopic \notin Topic
    /\ TopicOf \in [Task -> Topic \cup {NoTopic}]
    /\ Nobody \notin Client

VARIABLES
    status,         \* agent_tasks.status, "absent" where there is no row
    rowGeneration,  \* agent_tasks.generation, 0 where NULL
    checkpoint,     \* is there an agent_runtime_checkpoints row for the task
    events,         \* primary keys taken in agent_events
    generation,     \* topic_generations.generation
    suppressed,     \* the generations <= stopped_topics.stopped_at_generation
    queue,          \* AgentTaskStoreWriter._queue
    reply,          \* a resolved future its waiter has not consumed yet
    allotted        \* the generation next_generation returned to the caller

tables == <<status, rowGeneration, checkpoint, events, generation, suppressed>>
storeVars == <<status, rowGeneration, checkpoint, events, generation,
               suppressed, queue, reply, allotted>>

-----------------------------------------------------------------------------
ActiveStatus   == {"pending", "running", "resuming"}
TerminalStatus == {"completed", "failed", "cancelled"}
RecoverableStatus == ActiveStatus \cup {"waiting_resource", "waiting_input"}
Status == RecoverableStatus \cup TerminalStatus

EventType == {"started", "progress", "completed", "failed", "cancelled",
              "needs_input", "budget_exhausted"}

(* agent_evt_<task>_<sequence> for the sequences the program reuses, and   *)
(* the id of the event startup recovery writes.  The events an agent emits *)
(* itself carry time_ns() in their id and never collide: "own".            *)
EventId == {"1", "2", "3", "999998", "recovery", "own"}

OpKind == {"create", "status", "event", "checkpoint", "consume",
           "generation", "stop", "lifecycle"}

(* "ok": the operation committed; "error": it raised and was rolled back;  *)
(* "none_found": consume_checkpoint returned None; "cancelled": the waiter *)
(* itself was cancelled, and wakes up to a CancelledError.                 *)
Reply == {"none", "ok", "error", "none_found", "cancelled"}

Op == [by : Client \cup {Nobody}, kind : OpKind, task : Task,
       status : Status, type : EventType, id : EventId, gen : Nat]

StoreTypeOK ==
    /\ status \in [Task -> Status \cup {"absent"}]
    /\ rowGeneration \in [Task -> Nat]
    /\ checkpoint \in [Task -> BOOLEAN]
    /\ events \subseteq Task \X EventId
    /\ generation \in [Topic -> Nat]
    /\ suppressed \in [Topic -> SUBSET Nat]
    /\ queue \in Seq(Op)
    /\ reply \in [Client -> Reply]
    /\ allotted \in [Task -> Nat]

StoreInit ==
    /\ status = [t \in Task |-> "absent"]
    /\ rowGeneration = [t \in Task |-> 0]
    /\ checkpoint = [t \in Task |-> FALSE]
    /\ events = {}
    /\ generation = [k \in Topic |-> 0]
    /\ suppressed = [k \in Topic |-> {}]
    /\ queue = <<>>
    /\ reply = [c \in Client |-> "none"]
    /\ allotted = [t \in Task |-> 0]

-----------------------------------------------------------------------------
(* What clients use. *)

Row(t) == status[t] # "absent"
RowsUnder(key) == {t \in Task : Row(t) /\ KeyOf[t] = key}
TasksIn(set) == {t \in Task : status[t] \in set}

(* A waiter whose future is resolved runs before anything that needs       *)
(* another I/O completion: set_result only schedules it for the next pass  *)
(* of the event loop.                                                      *)
Quiet == \A c \in Client : reply[c] = "none"

MakeOp(c, kind, t) ==
    [by |-> c, kind |-> kind, task |-> t,
     status |-> "pending", type |-> "progress", id |-> "own", gen |-> 0]
CreateOp(c, t, s, g)   == [MakeOp(c, "create", t) EXCEPT !.status = s, !.gen = g]
StatusOp(c, t, s)      == [MakeOp(c, "status", t) EXCEPT !.status = s]
EventOp(c, t, type, i) == [MakeOp(c, "event", t) EXCEPT !.type = type, !.id = i]

Submit(op) == queue' = Append(queue, op)

(* The caller of submit() is cancelled: its future is done, the operation  *)
(* stays queued and the writer still executes it.                          *)
Disowned(c) ==
    [i \in DOMAIN queue |->
        IF queue[i].by = c THEN [queue[i] EXCEPT !.by = Nobody] ELSE queue[i]]

-----------------------------------------------------------------------------
(* The writer: one transaction per operation.                              *)

Answer(op, r) ==
    reply' = IF op.by = Nobody THEN reply ELSE [reply EXCEPT ![op.by] = r]

(* UPDATE agent_tasks ... WHERE task_id = ?: without a row nothing changes. *)
Marked(t, s) == IF Row(t) THEN [status EXCEPT ![t] = s] ELSE status

(* The status append_event writes beside the event: the terminal types and *)
(* needs_input overwrite whatever status the row has.                      *)
EventStatus(type, old) ==
    CASE type = "completed"   -> "completed"
      [] type = "failed"      -> "failed"
      [] type = "cancelled"   -> "cancelled"
      [] type = "needs_input" -> "waiting_input"
      [] OTHER                -> old

EventIdFree(op) == op.id = "own" \/ <<op.task, op.id>> \notin events

(* Mutant of InsertTask: no unique index on idempotency_key. *)
InsertAnyTask(op) ==
    /\ op.kind = "create"
    /\ ~Row(op.task)
    /\ status' = [status EXCEPT ![op.task] = op.status]
    /\ rowGeneration' = [rowGeneration EXCEPT ![op.task] = op.gen]
    /\ Answer(op, "ok")
    /\ UNCHANGED <<checkpoint, events, generation, suppressed, allotted>>

InsertTask(op) ==
    /\ op.kind = "create"
    /\ ~Row(op.task)
    /\ RowsUnder(KeyOf[op.task]) = {}
    /\ status' = [status EXCEPT ![op.task] = op.status]
    /\ rowGeneration' = [rowGeneration EXCEPT ![op.task] = op.gen]
    /\ Answer(op, "ok")
    /\ UNCHANGED <<checkpoint, events, generation, suppressed, allotted>>

RefuseDuplicate(op) ==
    /\ op.kind = "create"
    /\ Row(op.task) \/ RowsUnder(KeyOf[op.task]) # {}
    /\ Answer(op, "error")
    /\ UNCHANGED <<tables, allotted>>

UpdateStatus(op) ==
    /\ op.kind = "status"
    /\ status' = Marked(op.task, op.status)
    /\ Answer(op, "ok")
    /\ UNCHANGED <<rowGeneration, checkpoint, events, generation, suppressed,
                   allotted>>

AppendEvent(op) ==
    /\ op.kind = "event"
    /\ EventIdFree(op)
    /\ events' = events \cup {<<op.task, op.id>>}
    /\ status' = Marked(op.task, EventStatus(op.type, status[op.task]))
    /\ Answer(op, "ok")
    /\ UNCHANGED <<rowGeneration, checkpoint, generation, suppressed, allotted>>

RefuseEvent(op) ==
    /\ op.kind = "event"
    /\ ~EventIdFree(op)
    /\ Answer(op, "error")
    /\ UNCHANGED <<tables, allotted>>

SaveCheckpoint(op) ==
    /\ op.kind = "checkpoint"
    /\ checkpoint' = [checkpoint EXCEPT ![op.task] = TRUE]
    /\ status' = Marked(op.task, "waiting_input")
    /\ Answer(op, "ok")
    /\ UNCHANGED <<rowGeneration, events, generation, suppressed, allotted>>

(* Mutants of ConsumeCheckpoint: the status is left to the caller's next   *)
(* update; the row is read but not deleted.                                *)
ConsumeOnly(op) ==
    /\ op.kind = "consume"
    /\ checkpoint[op.task]
    /\ checkpoint' = [checkpoint EXCEPT ![op.task] = FALSE]
    /\ Answer(op, "ok")
    /\ UNCHANGED <<status, rowGeneration, events, generation, suppressed,
                   allotted>>

ReadCheckpointOnly(op) ==
    /\ op.kind = "consume"
    /\ checkpoint[op.task]
    /\ status' = Marked(op.task, "resuming")
    /\ Answer(op, "ok")
    /\ UNCHANGED <<rowGeneration, checkpoint, events, generation, suppressed,
                   allotted>>

ConsumeCheckpoint(op) ==
    /\ op.kind = "consume"
    /\ checkpoint[op.task]
    /\ checkpoint' = [checkpoint EXCEPT ![op.task] = FALSE]
    /\ status' = Marked(op.task, "resuming")
    /\ Answer(op, "ok")
    /\ UNCHANGED <<rowGeneration, events, generation, suppressed, allotted>>

MissCheckpoint(op) ==
    /\ op.kind = "consume"
    /\ ~checkpoint[op.task]
    /\ Answer(op, "none_found")
    /\ UNCHANGED <<tables, allotted>>

NextGeneration(op) ==
    LET k == TopicOf[op.task] IN
    /\ op.kind = "generation"
    /\ generation' = [generation EXCEPT ![k] = @ + 1]
    /\ allotted' = [allotted EXCEPT ![op.task] = generation[k] + 1]
    /\ Answer(op, "ok")
    /\ UNCHANGED <<status, rowGeneration, checkpoint, events, suppressed>>

(* Mutant of StopTopicPrefix: one generation too many. *)
StopOneTooMany(op) ==
    /\ op.kind = "stop"
    /\ suppressed' =
          [k \in Topic |-> suppressed[k] \cup
              UNION {1 .. rowGeneration[t] + 1 :
                        t \in {u \in Task : Row(u) /\ TopicOf[u] = k}}]
    /\ Answer(op, "ok")
    /\ UNCHANGED <<status, rowGeneration, checkpoint, events, generation,
                   allotted>>

(* stop_topic_prefix: every topic that has rows is stopped at the highest  *)
(* generation among them, and never below where it already stopped.        *)
StopTopicPrefix(op) ==
    /\ op.kind = "stop"
    /\ suppressed' =
          [k \in Topic |-> suppressed[k] \cup
              UNION {1 .. rowGeneration[t] :
                        t \in {u \in Task : Row(u) /\ TopicOf[u] = k}}]
    /\ Answer(op, "ok")
    /\ UNCHANGED <<status, rowGeneration, checkpoint, events, generation,
                   allotted>>

LifecycleLog(op) ==
    /\ op.kind = "lifecycle"
    /\ Answer(op, "ok")
    /\ UNCHANGED <<tables, allotted>>

Apply(op) ==
    \/ InsertTask(op)        \/ RefuseDuplicate(op)
    \/ UpdateStatus(op)
    \/ AppendEvent(op)       \/ RefuseEvent(op)
    \/ SaveCheckpoint(op)
    \/ ConsumeCheckpoint(op) \/ MissCheckpoint(op)
    \/ NextGeneration(op)
    \/ StopTopicPrefix(op)
    \/ LifecycleLog(op)

(* Mutant of WriterStep: last in, first out. *)
WriterStepLifo ==
    /\ Quiet
    /\ queue # <<>>
    /\ queue' = SubSeq(queue, 1, Len(queue) - 1)
    /\ Apply(queue[Len(queue)])

WriterStep ==
    /\ Quiet
    /\ queue # <<>>
    /\ queue' = Tail(queue)
    /\ Apply(Head(queue))
=============================================================================
