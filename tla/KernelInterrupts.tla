-------------------------- MODULE KernelInterrupts ---------------------------
(***************************************************************************)
(* lapwing_kernel: the personal browser actions of resident operators, the *)
(* interrupts a challenge page raises, the futures their workers wait on,  *)
(* and the owner's approve and deny requests.                              *)
(*                                                                         *)
(* Interrupts live in SQLite and survive the process; futures do not.      *)
(* Everything runs on one event loop: what has no await is one step, and a *)
(* worker is suspended only in the browser or on its future.  Any write or *)
(* read of SQLite may raise; Failed counts the ones that do.               *)
(*                                                                         *)
(* Interrupts never expire: nothing in the program calls expire_overdue.   *)
(***************************************************************************)
EXTENDS Naturals

CONSTANTS
    Worker,         \* runs of ResidentOperator.execute
    MaxInterrupts,  \* bound of the interrupts
    MaxFailures,    \* bound of the statements of SQLite that raise
    MaxCrashes      \* bound of the crashes

ASSUME KernelConstants ==
    MaxInterrupts \in Nat /\ MaxFailures \in Nat /\ MaxCrashes \in Nat

VARIABLES
    row,       \* the status column of interrupts
    logged,    \* the interrupt.* events the log holds for an interrupt
    future,    \* ContinuationRegistry._futures
    pc,        \* where a worker is suspended, or how it ended
    ref,       \* the interrupt whose future a worker awaits
    refs,      \* suspension_refs of _run_with_resume
    asker,     \* the worker an interrupt was raised for, as a set
    retried,   \* the interrupts whose approval led to a second execution
    next,      \* interrupts are numbered as they are registered
    failures,
    crashes

storeVars == <<row, logged>>
workerVars == <<pc, ref, refs>>
vars == <<storeVars, future, workerVars, asker, retried, next, failures, crashes>>

Interrupt == 1 .. MaxInterrupts
Decided == {"resolved", "denied", "cancelled"}
Ended == {"done", "failed", "blocked", "raised", "cancelled", "gone"}

KernelTypeOK ==
    /\ row \in [Interrupt -> {"none", "pending"} \cup Decided]
    /\ logged \in [Interrupt -> SUBSET {"created", "resolved", "lost"}]
    /\ future \in [Interrupt -> {"missing", "active", "result", "refused", "cancelled"}]
    /\ pc \in [Worker -> {"idle", "browsing", "suspended"} \cup Ended]
    /\ ref \in [Worker -> {0} \cup Interrupt]
    /\ \A w \in Worker : pc[w] = "suspended" => ref[w] \in refs[w]
    /\ refs \in [Worker -> SUBSET Interrupt]
    /\ asker \in [Interrupt -> SUBSET Worker]
    /\ retried \subseteq Interrupt
    /\ next \in 1 .. MaxInterrupts + 1
    /\ failures \in 0 .. MaxFailures
    /\ crashes \in 0 .. MaxCrashes

Init ==
    /\ row = [i \in Interrupt |-> "none"]
    /\ logged = [i \in Interrupt |-> {}]
    /\ future = [i \in Interrupt |-> "missing"]
    /\ pc = [w \in Worker |-> "idle"]
    /\ ref = [w \in Worker |-> 0]
    /\ refs = [w \in Worker |-> {}]
    /\ asker = [i \in Interrupt |-> {}]
    /\ retried = {}
    /\ next = 1
    /\ failures = 0
    /\ crashes = 0

-----------------------------------------------------------------------------
(* The stores. *)

Works == UNCHANGED failures

Raises == failures < MaxFailures /\ failures' = failures + 1

\* UPDATE interrupts ... WHERE id = ? AND status = 'pending'
SetStatus(i, status) ==
    row' = IF row[i] = "pending" THEN [row EXCEPT ![i] = status] ELSE row

Log(i, type) == logged' = [logged EXCEPT ![i] = @ \cup {type}]

\* Has, mutated: it asks for the handle only, not whether it is done.
HandleKept(i) == future[i] # "missing"

\* ContinuationRegistry.has
Has(i) == future[i] = "active"

-----------------------------------------------------------------------------
(* A worker. *)

\* The finally clause of _run_with_resume, on the futures f.
Swept(w, f) ==
    [i \in Interrupt |-> IF i \in refs[w] /\ f[i] = "active" THEN "refused" ELSE f[i]]

Ends(w, how, f) ==
    /\ pc' = [pc EXCEPT ![w] = how]
    /\ future' = Swept(w, f)
    /\ UNCHANGED <<ref, refs>>

\* execute() up to the navigation: the action is allowed, and logged first.
Execute(w) ==
    \/ /\ Works
       /\ pc' = [pc EXCEPT ![w] = "browsing"]
       /\ UNCHANGED <<ref, refs, future>>
    \/ /\ Raises
       /\ Ends(w, "raised", future)

Start(w) ==
    /\ pc[w] = "idle"
    /\ Execute(w)
    /\ UNCHANGED <<storeVars, asker, retried, next, crashes>>

\* The page loads, or the navigation fails; the outcome is logged.
Returns(w) ==
    /\ pc[w] = "browsing"
    /\ \/ Works /\ \E how \in {"done", "failed"} : Ends(w, how, future)
       \/ Raises /\ Ends(w, "raised", future)
    /\ UNCHANGED <<storeVars, asker, retried, next, crashes>>

\* The page is a challenge: register(), then persist(), then the events, and
\* the worker reads the interrupt and awaits its future.
Challenged(w) ==
    LET i == next
        f == [future EXCEPT ![i] = "active"]
    IN  /\ pc[w] = "browsing"
        /\ next <= MaxInterrupts
        /\ next' = next + 1
        /\ asker' = [asker EXCEPT ![i] = {w}]
        /\ \/ \* persist() raises: the executor reports a failed action
              /\ Raises
              /\ Ends(w, "failed", f)
              /\ UNCHANGED storeVars
           \/ \* an event cannot be written, or the interrupt not read
              /\ Raises
              /\ row' = [row EXCEPT ![i] = "pending"]
              /\ Log(i, "created") \/ UNCHANGED logged
              /\ Ends(w, "raised", f)
           \/ /\ Works
              /\ row' = [row EXCEPT ![i] = "pending"]
              /\ Log(i, "created")
              /\ future' = f
              /\ pc' = [pc EXCEPT ![w] = "suspended"]
              /\ ref' = [ref EXCEPT ![w] = i]
              /\ refs' = [refs EXCEPT ![w] = @ \cup {i}]
        /\ UNCHANGED <<retried, crashes>>

\* wait_for_resume returns: the owner approved, the action is tried again.
Retry(w) ==
    /\ pc[w] = "suspended"
    /\ future[ref[w]] = "result"
    /\ Execute(w)
    /\ retried' = IF pc'[w] = "browsing" THEN retried \cup {ref[w]} ELSE retried
    /\ UNCHANGED <<storeVars, asker, next, crashes>>

\* GiveUp, mutated: a refused interrupt is taken for an approved one.
GiveUpRetries(w) ==
    /\ pc[w] = "suspended"
    /\ future[ref[w]] = "refused"
    /\ Execute(w)
    /\ retried' = IF pc'[w] = "browsing" THEN retried \cup {ref[w]} ELSE retried
    /\ UNCHANGED <<storeVars, asker, next, crashes>>

\* wait_for_resume raises InterruptCancelled.
GiveUp(w) ==
    /\ pc[w] = "suspended"
    /\ future[ref[w]] = "refused"
    /\ Ends(w, "blocked", future)
    /\ UNCHANGED <<storeVars, asker, retried, next, failures, crashes>>

\* The task of the run is cancelled: the future it awaits is cancelled with
\* it; one that has its result already is not looked at any more.
CancelRun(w) ==
    /\ pc[w] \in {"browsing", "suspended"}
    /\ Ends(w, "cancelled",
            IF pc[w] = "suspended" /\ Has(ref[w])
              THEN [future EXCEPT ![ref[w]] = "cancelled"] ELSE future)
    /\ UNCHANGED <<storeVars, asker, retried, next, failures, crashes>>

-----------------------------------------------------------------------------
(* The owner: approve() and deny() answer 409 unless the row is pending. *)

\* resume() of a continuation nobody holds any more.
ApproveLost(i) ==
    /\ row[i] = "pending"
    /\ ~Has(i)
    /\ \/ Raises /\ UNCHANGED storeVars
       \/ Raises /\ SetStatus(i, "cancelled") /\ UNCHANGED logged
       \/ Works /\ SetStatus(i, "cancelled") /\ Log(i, "lost")
    /\ UNCHANGED <<future, workerVars, asker, retried, next, crashes>>

\* Approve, mutated: nobody releases the future.
ApproveWakesNobody(i) ==
    /\ row[i] = "pending"
    /\ Has(i)
    /\ Works
    /\ SetStatus(i, "resolved")
    /\ Log(i, "resolved")
    /\ UNCHANGED <<future, workerVars, asker, retried, next, crashes>>

\* Approve, mutated: the future is released before the event is written.
ApproveWakesFirst(i) ==
    /\ row[i] = "pending"
    /\ Has(i)
    /\ SetStatus(i, "resolved")
    /\ future' = [future EXCEPT ![i] = "result"]
    /\ \/ Raises /\ UNCHANGED logged
       \/ Works /\ Log(i, "resolved")
    /\ UNCHANGED <<workerVars, asker, retried, next, crashes>>

\* resume(): the row first, then the event, then the future.
Approve(i) ==
    /\ row[i] = "pending"
    /\ Has(i)
    /\ \/ Raises /\ UNCHANGED <<storeVars, future>>
       \/ Raises /\ SetStatus(i, "resolved") /\ UNCHANGED <<logged, future>>
       \/ /\ Works
          /\ SetStatus(i, "resolved")
          /\ Log(i, "resolved")
          /\ future' = [future EXCEPT ![i] = "result"]
    /\ UNCHANGED <<workerVars, asker, retried, next, crashes>>

\* Deny, mutated: the continuation is not cancelled.
DenyWakesNobody(i) ==
    /\ row[i] = "pending"
    /\ Works
    /\ SetStatus(i, "denied")
    /\ UNCHANGED <<future, logged, workerVars, asker, retried, next, crashes>>

Deny(i) ==
    /\ row[i] = "pending"
    /\ \/ Raises /\ UNCHANGED <<row, future>>
       \/ /\ Works
          /\ SetStatus(i, "denied")
          /\ future' = IF Has(i) THEN [future EXCEPT ![i] = "refused"] ELSE future
    /\ UNCHANGED <<logged, workerVars, asker, retried, next, crashes>>

\* The process dies and is started again: kernel.db is all that is left.
Crash ==
    /\ crashes < MaxCrashes
    /\ crashes' = crashes + 1
    /\ future' = [i \in Interrupt |-> "missing"]
    /\ pc' = [w \in Worker |-> IF pc[w] \in {"browsing", "suspended"} THEN "gone" ELSE pc[w]]
    /\ refs' = [w \in Worker |-> {}]
    /\ UNCHANGED <<storeVars, ref, asker, retried, next, failures>>

-----------------------------------------------------------------------------
WorkerStep(w) == Returns(w) \/ Challenged(w) \/ Retry(w) \/ GiveUp(w)

OwnerStep(i) == ApproveLost(i) \/ Approve(i) \/ Deny(i)

Next ==
    \/ \E w \in Worker : Start(w) \/ WorkerStep(w) \/ CancelRun(w)
    \/ \E i \in Interrupt : OwnerStep(i)
    \/ Crash

\* A navigation returns in the end (it has a timeout) and the event loop runs
\* a woken worker; nobody has to delegate, to decide or to cancel.
Spec == Init /\ [][Next]_vars /\ \A w \in Worker : WF_vars(WorkerStep(w))

-----------------------------------------------------------------------------
(* Properties. *)

AnswerOf(status) ==
    CASE status = "none"      -> "unasked"
      [] status = "pending"   -> "asked"
      [] status = "resolved"  -> "yes"
      [] status = "denied"    -> "no"
      [] status = "cancelled" -> "lost"

Answers == [i \in Interrupt |-> AnswerOf(row[i])]

Consent == INSTANCE OwnerConsent WITH
    Question <- Interrupt, answer <- Answers, used <- retried

(* The kernel keeps what it promises the owner, through crashes and failing *)
(* writes: an interrupt is decided once, and an action is tried again only  *)
(* after the owner approved its interrupt, once for each approval.          *)
ConsentKept == Consent!ConsentSpec

Awaits(w, i) == pc[w] = "suspended" /\ ref[w] = i

(* Unless a statement failed, a future that is not done belongs to a worker *)
(* that awaits it and to an interrupt the owner finds among the pending     *)
(* ones: no worker waits on a question nobody can answer.                   *)
ActiveFutureIsAwaited ==
    \A i \in Interrupt :
        Has(i) /\ failures = 0
          => row[i] = "pending" /\ \E w \in asker[i] : Awaits(w, i)

(* An action that was tried again left an interrupt.resolved event before   *)
(* it, and the log never speaks of an approval or of a lost continuation    *)
(* the row does not have.                                                   *)
AuditTrail ==
    \A i \in Interrupt :
        /\ i \in retried => "resolved" \in logged[i]
        /\ "resolved" \in logged[i] => row[i] = "resolved"
        /\ "lost" \in logged[i] => row[i] = "cancelled"

(* resume() marks an interrupt resolved only while its worker awaits it,    *)
(* across crashes and cancelled runs.  The one exception: a worker that     *)
(* ended because the store raised between persist() and wait_for_resume().  *)
ResolvedOnlyIfAwaited ==
    [][\A i \in Interrupt : row[i] = "pending" /\ row'[i] = "resolved" =>
          \E w \in asker[i] : Awaits(w, i) \/ pc[w] = "raised"]_vars

(* Once the owner has decided, and the store did not fail, the worker of    *)
(* the interrupt does not stay suspended on it.                             *)
DecisionEndsWait ==
    \A i \in Interrupt, w \in Worker :
        row[i] \in Decided /\ failures = 0 ~> ~Awaits(w, i)

=============================================================================
