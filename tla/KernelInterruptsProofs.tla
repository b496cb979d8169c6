----------------------- MODULE KernelInterruptsProofs ------------------------
(***************************************************************************)
(* The safety properties of the kernel's interrupts, for any workers and   *)
(* any number of interrupts, failing statements and crashes.               *)
(***************************************************************************)
EXTENDS KernelInterrupts, TLAPS

(* Nothing is known of an interrupt before it is registered. *)
FreshUntouched ==
    \A i \in Interrupt : i >= next =>
        row[i] = "none" /\ future[i] = "missing" /\ i \notin retried /\ logged[i] = {}

(* A worker awaits only an interrupt of its own, used by no one yet. *)
AwaitsItsOwn ==
    \A w \in Worker : pc[w] = "suspended" =>
        ref[w] < next /\ asker[ref[w]] = {w} /\ ref[w] \notin retried

(* A future has a result only after the row and the event were written. *)
ResultIsYes ==
    \A i \in Interrupt :
        future[i] = "result" => row[i] = "resolved" /\ "resolved" \in logged[i]

(* Who could be asked about a pending interrupt with a live future. *)
PendingHeld ==
    \A i \in Interrupt : Has(i) /\ row[i] = "pending" =>
        \E w \in asker[i] : Awaits(w, i) \/ pc[w] = "raised"

KernelInv ==
    /\ KernelTypeOK
    /\ FreshUntouched
    /\ AwaitsItsOwn
    /\ ResultIsYes
    /\ AuditTrail
    /\ ActiveFutureIsAwaited
    /\ PendingHeld

-----------------------------------------------------------------------------
LEMMA InitKeeps == Init => KernelInv
  BY KernelConstants
     DEF Init, KernelInv, KernelTypeOK, FreshUntouched, AwaitsItsOwn, ResultIsYes,
         AuditTrail, ActiveFutureIsAwaited, PendingHeld, Interrupt, Decided, Ended, Has

LEMMA StartKeeps ==
    ASSUME KernelInv, NEW w \in Worker, Start(w)
    PROVE  KernelInv'
<1>1. KernelTypeOK'
  BY KernelConstants
     DEF Start, Execute, Ends, Swept, storeVars, Works, Raises, Has, KernelInv,
         KernelTypeOK, Ended
<1>2. FreshUntouched'
  BY DEF Start, Execute, Ends, Swept, storeVars, Works, KernelInv, FreshUntouched
<1>3. AwaitsItsOwn'
  BY DEF Start, Execute, Ends, Swept, KernelInv, AwaitsItsOwn, KernelTypeOK
<1>4. ResultIsYes'
  BY DEF Start, Execute, Ends, Swept, storeVars, Works, KernelInv, ResultIsYes
<1>5. AuditTrail'
  BY DEF Start, Execute, storeVars, KernelInv, AuditTrail
<1>6. ActiveFutureIsAwaited'
  BY DEF Start, Execute, Ends, storeVars, Works, Raises, Has, KernelInv,
         ActiveFutureIsAwaited, KernelTypeOK, Awaits
<1>7. PendingHeld'
  BY DEF Start, Execute, Ends, Swept, storeVars, Works, Has, KernelInv, PendingHeld,
         KernelTypeOK, Awaits
<1>8. QED
  BY <1>1, <1>2, <1>3, <1>4, <1>5, <1>6, <1>7 DEF KernelInv

LEMMA ReturnsKeeps ==
    ASSUME KernelInv, NEW w \in Worker, Returns(w)
    PROVE  KernelInv'
<1>1. KernelTypeOK'
  BY KernelConstants
     DEF Returns, Ends, Swept, storeVars, Works, Raises, Has, KernelInv, KernelTypeOK,
         Ended
<1>2. FreshUntouched'
  BY DEF Returns, Ends, Swept, storeVars, Works, KernelInv, FreshUntouched
<1>3. AwaitsItsOwn'
  BY DEF Returns, Ends, Swept, KernelInv, AwaitsItsOwn, KernelTypeOK
<1>4. ResultIsYes'
  BY DEF Returns, Ends, Swept, storeVars, Works, KernelInv, ResultIsYes
<1>5. AuditTrail'
  BY DEF Returns, Ends, storeVars, KernelInv, AuditTrail
<1>6. ActiveFutureIsAwaited'
  BY DEF Returns, Ends, Swept, storeVars, Works, Raises, Has, KernelInv,
         ActiveFutureIsAwaited, KernelTypeOK, Awaits
<1>7. PendingHeld'
  BY DEF Returns, Ends, Swept, storeVars, Works, Has, KernelInv, PendingHeld,
         KernelTypeOK, Awaits
<1>8. QED
  BY <1>1, <1>2, <1>3, <1>4, <1>5, <1>6, <1>7 DEF KernelInv

LEMMA ChallengedKeeps ==
    ASSUME KernelInv, NEW w \in Worker, Challenged(w)
    PROVE  KernelInv'
<1>0. next \in Interrupt /\ next + 1 \in 1 .. MaxInterrupts + 1
  BY KernelConstants DEF Challenged, Ends, KernelInv, KernelTypeOK, Interrupt
<1>1. KernelTypeOK'
  <2>1. /\ row' \in [Interrupt -> {"none", "pending"} \cup Decided]
        /\ logged' \in [Interrupt -> SUBSET {"created", "resolved", "lost"}]
        /\ asker' \in [Interrupt -> SUBSET Worker]
        /\ next' \in 1 .. MaxInterrupts + 1
    BY <1>0 DEF Challenged, Ends, Log, storeVars, KernelInv, KernelTypeOK
  <2>2. future' \in [Interrupt -> {"missing", "active", "result", "refused", "cancelled"}]
    BY DEF Challenged, Ends, Swept, Log, KernelInv, KernelTypeOK
  <2>3. /\ pc' \in [Worker -> {"idle", "browsing", "suspended"} \cup Ended]
        /\ ref' \in [Worker -> {0} \cup Interrupt]
        /\ \A v \in Worker : pc'[v] = "suspended" => ref'[v] \in refs'[v]
        /\ refs' \in [Worker -> SUBSET Interrupt]
    BY <1>0 DEF Challenged, Ends, Swept, KernelInv, KernelTypeOK, Ended
  <2>4. retried' \subseteq Interrupt /\ failures' \in 0 .. MaxFailures /\ crashes' \in 0 .. MaxCrashes
    BY KernelConstants DEF Challenged, Ends, Works, Raises, KernelInv, KernelTypeOK
  <2>5. QED
    BY <2>1, <2>2, <2>3, <2>4 DEF Challenged, KernelTypeOK
<1>2. FreshUntouched'
  BY KernelConstants
     DEF Challenged, Ends, Swept, Log, storeVars, Works, KernelInv, FreshUntouched,
         KernelTypeOK, Interrupt
<1>3. AwaitsItsOwn'
  <2>1. next \notin retried /\ next \in Nat
    BY <1>0 DEF Challenged, KernelInv, FreshUntouched, Interrupt
  <2>2. \A v \in Worker : pc[v] = "suspended" =>
            ref[v] \in Interrupt /\ ref[v] < next + 1 /\ ref[v] # next
    BY DEF Challenged, KernelInv, AwaitsItsOwn, KernelTypeOK, Interrupt
  <2>3. QED
    BY <1>0, <2>1, <2>2 DEF Challenged, Ends, Swept, KernelInv, AwaitsItsOwn, KernelTypeOK
<1>4. ResultIsYes'
  BY DEF Challenged, Ends, Swept, Log, storeVars, Works, KernelInv, ResultIsYes, KernelTypeOK
<1>5. AuditTrail'
  BY DEF Challenged, Ends, Log, storeVars, KernelInv, AuditTrail, KernelTypeOK, FreshUntouched
<1>6. ActiveFutureIsAwaited'
  BY DEF Challenged, Ends, Works, Raises, Has, KernelInv, ActiveFutureIsAwaited,
         KernelTypeOK, Awaits
<1>7. PendingHeld'
  BY DEF Challenged, Ends, Swept, Log, storeVars, Has, KernelInv, PendingHeld,
         KernelTypeOK, Awaits, FreshUntouched
<1>8. QED
  BY <1>1, <1>2, <1>3, <1>4, <1>5, <1>6, <1>7 DEF KernelInv

LEMMA RetryKeeps ==
    ASSUME KernelInv, NEW w \in Worker, Retry(w)
    PROVE  KernelInv'
<1>1. KernelTypeOK'
  BY KernelConstants
     DEF Retry, Execute, Ends, Swept, storeVars, Works, Raises, Has, KernelInv,
         KernelTypeOK, Ended
<1>2. FreshUntouched'
  BY DEF Retry, Execute, Ends, Swept, storeVars, Works, KernelInv, FreshUntouched
<1>3. AwaitsItsOwn'
  BY DEF Retry, Execute, Ends, Swept, Works, Raises, KernelInv, AwaitsItsOwn, KernelTypeOK
<1>4. ResultIsYes'
  BY DEF Retry, Execute, Ends, Swept, storeVars, Works, KernelInv, ResultIsYes
<1>5. AuditTrail'
  BY DEF Retry, Execute, storeVars, KernelInv, AuditTrail, ResultIsYes
<1>6. ActiveFutureIsAwaited'
  BY DEF Retry, Execute, Ends, storeVars, Works, Raises, Has, KernelInv,
         ActiveFutureIsAwaited, KernelTypeOK, Awaits
<1>7. PendingHeld'
  BY DEF Retry, Execute, Ends, Swept, storeVars, Works, Has, KernelInv, PendingHeld,
         KernelTypeOK, Awaits
<1>8. QED
  BY <1>1, <1>2, <1>3, <1>4, <1>5, <1>6, <1>7 DEF KernelInv

LEMMA GiveUpKeeps ==
    ASSUME KernelInv, NEW w \in Worker, GiveUp(w)
    PROVE  KernelInv'
<1>1. KernelTypeOK'
  BY DEF GiveUp, Ends, Swept, storeVars, Works, Raises, Has, KernelInv, KernelTypeOK, Ended
<1>2. FreshUntouched'
  BY DEF GiveUp, Ends, Swept, storeVars, Works, Raises, Has, KernelInv, FreshUntouched
<1>3. AwaitsItsOwn'
  BY DEF GiveUp, Ends, Swept, KernelInv, AwaitsItsOwn
<1>4. ResultIsYes'
  BY DEF GiveUp, Ends, Swept, storeVars, Works, Raises, Has, KernelInv, ResultIsYes
<1>5. AuditTrail'
  BY DEF GiveUp, Ends, storeVars, KernelInv, AuditTrail
<1>6. ActiveFutureIsAwaited'
  BY DEF GiveUp, Ends, Swept, storeVars, Works, Raises, Has, KernelInv,
         ActiveFutureIsAwaited, Awaits
<1>7. PendingHeld'
  BY DEF GiveUp, Ends, Swept, storeVars, Works, Raises, Has, KernelInv, PendingHeld, Awaits
<1>8. QED
  BY <1>1, <1>2, <1>3, <1>4, <1>5, <1>6, <1>7 DEF KernelInv

LEMMA CancelRunKeeps ==
    ASSUME KernelInv, NEW w \in Worker, CancelRun(w)
    PROVE  KernelInv'
<1>1. KernelTypeOK'
  BY DEF CancelRun, Ends, Swept, storeVars, Works, Raises, Has, KernelInv, KernelTypeOK, Ended
<1>2. FreshUntouched'
  BY DEF CancelRun, Ends, Swept, storeVars, Works, Raises, Has, KernelInv, FreshUntouched
<1>3. AwaitsItsOwn'
  BY DEF CancelRun, Ends, Swept, KernelInv, AwaitsItsOwn
<1>4. ResultIsYes'
  BY DEF CancelRun, Ends, Swept, storeVars, Works, Raises, Has, KernelInv, ResultIsYes
<1>5. AuditTrail'
  BY DEF CancelRun, Ends, storeVars, KernelInv, AuditTrail
<1>6. ActiveFutureIsAwaited'
  BY DEF CancelRun, Ends, Swept, storeVars, Works, Raises, Has, KernelInv,
         ActiveFutureIsAwaited, KernelTypeOK, Awaits
<1>7. PendingHeld'
  BY DEF CancelRun, Ends, Swept, storeVars, Works, Raises, Has, KernelInv,
         PendingHeld, KernelTypeOK, Awaits
<1>8. QED
  BY <1>1, <1>2, <1>3, <1>4, <1>5, <1>6, <1>7 DEF KernelInv

LEMMA ApproveLostKeeps ==
    ASSUME KernelInv, NEW i \in Interrupt, ApproveLost(i)
    PROVE  KernelInv'
<1>1. KernelTypeOK'
  BY KernelConstants
     DEF ApproveLost, SetStatus, Log, workerVars, storeVars, Works, Raises, Has,
         KernelInv, KernelTypeOK, Decided
<1>2. FreshUntouched'
  BY DEF ApproveLost, SetStatus, Log, workerVars, storeVars, KernelInv,
         FreshUntouched, KernelTypeOK
<1>3. AwaitsItsOwn'
  BY DEF ApproveLost, SetStatus, workerVars, KernelInv, AwaitsItsOwn
<1>4. ResultIsYes'
  BY DEF ApproveLost, SetStatus, Log, workerVars, storeVars, KernelInv, ResultIsYes,
         KernelTypeOK
<1>5. AuditTrail'
  BY DEF ApproveLost, SetStatus, Log, workerVars, storeVars, KernelInv, AuditTrail,
         KernelTypeOK
<1>6. ActiveFutureIsAwaited'
  BY DEF ApproveLost, SetStatus, Log, workerVars, Works, Raises, Has, KernelInv,
         ActiveFutureIsAwaited, KernelTypeOK, Awaits
<1>7. PendingHeld'
  BY DEF ApproveLost, SetStatus, Log, workerVars, storeVars, Has, KernelInv,
         PendingHeld, KernelTypeOK, Awaits
<1>8. QED
  BY <1>1, <1>2, <1>3, <1>4, <1>5, <1>6, <1>7 DEF KernelInv

LEMMA ApproveKeeps ==
    ASSUME KernelInv, NEW i \in Interrupt, Approve(i)
    PROVE  KernelInv'
<1>1. KernelTypeOK'
  BY KernelConstants
     DEF Approve, SetStatus, Log, workerVars, storeVars, Works, Raises, Has,
         KernelInv, KernelTypeOK, Decided
<1>2. FreshUntouched'
  BY DEF Approve, SetStatus, Log, workerVars, storeVars, KernelInv, FreshUntouched,
         KernelTypeOK
<1>3. AwaitsItsOwn'
  BY DEF Approve, SetStatus, workerVars, KernelInv, AwaitsItsOwn
<1>4. ResultIsYes'
  BY DEF Approve, SetStatus, Log, workerVars, storeVars, KernelInv, ResultIsYes, KernelTypeOK
<1>5. AuditTrail'
  BY DEF Approve, SetStatus, Log, workerVars, storeVars, KernelInv, AuditTrail, KernelTypeOK
<1>6. ActiveFutureIsAwaited'
  BY DEF Approve, SetStatus, Log, workerVars, Works, Raises, Has, KernelInv,
         ActiveFutureIsAwaited, KernelTypeOK, Awaits
<1>7. PendingHeld'
  BY DEF Approve, SetStatus, Log, workerVars, storeVars, Has, KernelInv, PendingHeld,
         KernelTypeOK, Awaits
<1>8. QED
  BY <1>1, <1>2, <1>3, <1>4, <1>5, <1>6, <1>7 DEF KernelInv

LEMMA DenyKeeps ==
    ASSUME KernelInv, NEW i \in Interrupt, Deny(i)
    PROVE  KernelInv'
<1>1. KernelTypeOK'
  BY KernelConstants
     DEF Deny, SetStatus, workerVars, storeVars, Works, Raises, Has, KernelInv,
         KernelTypeOK, Decided
<1>2. FreshUntouched'
  BY DEF Deny, SetStatus, workerVars, storeVars, KernelInv, FreshUntouched, KernelTypeOK
<1>3. AwaitsItsOwn'
  BY DEF Deny, SetStatus, workerVars, storeVars, KernelInv, AwaitsItsOwn
<1>4. ResultIsYes'
  BY DEF Deny, SetStatus, workerVars, storeVars, KernelInv, ResultIsYes, KernelTypeOK
<1>5. AuditTrail'
  BY DEF Deny, SetStatus, workerVars, storeVars, KernelInv, AuditTrail, KernelTypeOK
<1>6. ActiveFutureIsAwaited'
  BY DEF Deny, SetStatus, workerVars, storeVars, Works, Raises, Has, KernelInv,
         ActiveFutureIsAwaited, KernelTypeOK, Awaits
<1>7. PendingHeld'
  BY DEF Deny, SetStatus, workerVars, storeVars, Works, Has, KernelInv, PendingHeld,
         KernelTypeOK, Awaits
<1>8. QED
  BY <1>1, <1>2, <1>3, <1>4, <1>5, <1>6, <1>7 DEF KernelInv

LEMMA CrashKeeps ==
    ASSUME KernelInv, Crash
    PROVE  KernelInv'
<1>1. KernelTypeOK'
  BY KernelConstants DEF Crash, storeVars, Works, Raises, Has, KernelInv, KernelTypeOK, Ended
<1>2. FreshUntouched'
  BY DEF Crash, storeVars, Works, Raises, Has, KernelInv, FreshUntouched, KernelTypeOK
<1>3. AwaitsItsOwn'
  BY DEF Crash, storeVars, Works, Raises, Has, AwaitsItsOwn
<1>4. ResultIsYes'
  BY DEF Crash, storeVars, Works, Raises, Has, ResultIsYes
<1>5. AuditTrail'
  BY DEF Crash, storeVars, Works, Raises, Has, KernelInv, AuditTrail, ResultIsYes
<1>6. ActiveFutureIsAwaited'
  BY DEF Crash, storeVars, Works, Raises, Has, ActiveFutureIsAwaited
<1>7. PendingHeld'
  BY DEF Crash, storeVars, Works, Raises, Has, PendingHeld
<1>8. QED
  BY <1>1, <1>2, <1>3, <1>4, <1>5, <1>6, <1>7 DEF KernelInv

-----------------------------------------------------------------------------
LEMMA StepKeeps == KernelInv /\ [Next]_vars => KernelInv'
<1> SUFFICES ASSUME KernelInv, [Next]_vars
             PROVE  KernelInv'
  OBVIOUS
<1>1. ASSUME NEW w \in Worker, Start(w) \/ WorkerStep(w) \/ CancelRun(w)
      PROVE  KernelInv'
  BY <1>1, StartKeeps, ReturnsKeeps, ChallengedKeeps, RetryKeeps, GiveUpKeeps, CancelRunKeeps
     DEF WorkerStep
<1>2. ASSUME NEW i \in Interrupt, OwnerStep(i)
      PROVE  KernelInv'
  BY <1>2, ApproveLostKeeps, ApproveKeeps, DenyKeeps DEF OwnerStep
<1>3. CASE Crash
  BY <1>3, CrashKeeps
<1>4. CASE UNCHANGED vars
  BY <1>4
     DEF vars, storeVars, workerVars, KernelInv, KernelTypeOK, FreshUntouched,
         AwaitsItsOwn, ResultIsYes, AuditTrail, ActiveFutureIsAwaited, PendingHeld,
         Has, Awaits
<1>5. QED
  BY <1>1, <1>2, <1>3, <1>4 DEF Next

THEOREM KernelInvariant == Spec => []KernelInv
<1>1. Init => KernelInv
  BY InitKeeps
<1>2. KernelInv /\ [Next]_vars => KernelInv'
  BY StepKeeps
<1>3. QED
  BY <1>1, <1>2, PTL DEF Spec

(* The futures, the runs, the rows and the log stay in their types, and a  *)
(* suspended worker remembers the reference it waits on.                   *)
THEOREM KernelTypes == Spec => []KernelTypeOK
<1>1. KernelInv => KernelTypeOK
  BY DEF KernelInv
<1>2. QED
  BY <1>1, KernelInvariant, PTL

(* No worker waits on a question nobody can answer (continuation_registry, *)
(* resident_operator).                                                     *)
THEOREM NoOrphanFuture == Spec => []ActiveFutureIsAwaited
<1>1. KernelInv => ActiveFutureIsAwaited
  BY DEF KernelInv
<1>2. QED
  BY <1>1, KernelInvariant, PTL

(* The event log bears witness for every retried action (executor.resume). *)
THEOREM RetriesAreLogged == Spec => []AuditTrail
<1>1. KernelInv => AuditTrail
  BY DEF KernelInv
<1>2. QED
  BY <1>1, KernelInvariant, PTL

(* The check of has(ref) before the row is written (executor.resume) does  *)
(* what it is there for, up to the exception the property names.           *)
THEOREM ApprovalFindsItsWorker == Spec => ResolvedOnlyIfAwaited
<1>1. ASSUME KernelInv, [Next]_vars, NEW i \in Interrupt,
             row[i] = "pending", row'[i] = "resolved"
      PROVE  \E w \in asker[i] : Awaits(w, i) \/ pc[w] = "raised"
  <2>1. row \in [Interrupt -> {"none", "pending"} \cup Decided]
    BY <1>1 DEF KernelInv, KernelTypeOK
  <2>2. Has(i)
    <3>1. ASSUME NEW w \in Worker, Start(w) \/ WorkerStep(w) \/ CancelRun(w)
          PROVE  row'[i] # "resolved"
      BY <1>1, <2>1, <3>1
         DEF Start, WorkerStep, Returns, Challenged, Retry, GiveUp, CancelRun, storeVars
    <3>2. ASSUME NEW j \in Interrupt, OwnerStep(j)
          PROVE  Has(i)
      <4>1. CASE j = i
        BY <1>1, <2>1, <3>2, <4>1
           DEF OwnerStep, ApproveLost, Approve, Deny, SetStatus, storeVars
      <4>2. CASE j # i
        BY <1>1, <2>1, <3>2, <4>2
           DEF OwnerStep, ApproveLost, Approve, Deny, SetStatus, storeVars
      <4>3. QED
        BY <4>1, <4>2
    <3>3. QED
      BY <1>1, <3>1, <3>2 DEF Next, Crash, vars, storeVars
  <2>3. QED
    BY <1>1, <2>2 DEF KernelInv, PendingHeld
<1>2. KernelInv /\ [Next]_vars =>
        [\A i \in Interrupt : row[i] = "pending" /\ row'[i] = "resolved" =>
            \E w \in asker[i] : Awaits(w, i) \/ pc[w] = "raised"]_vars
  BY <1>1
<1>3. QED
  BY <1>2, KernelInvariant, PTL DEF Spec, ResolvedOnlyIfAwaited

-----------------------------------------------------------------------------
(* The refinement: what the owner answered, and what was done with it.     *)
LEMMA StepConsents ==
    ASSUME KernelInv, [Next]_vars
    PROVE  [Consent!ConsentNext]_(Consent!consentVars)
<1> USE DEF Consent!consentVars, Answers
<1>0. row \in [Interrupt -> {"none", "pending"} \cup Decided] /\ retried \subseteq Interrupt
  BY DEF KernelInv, KernelTypeOK
<1>1. ASSUME UNCHANGED row, UNCHANGED retried
      PROVE  UNCHANGED Consent!consentVars
  BY <1>1
<1>2. ASSUME NEW i \in Interrupt, row[i] = "none", row' = [row EXCEPT ![i] = "pending"],
             UNCHANGED retried
      PROVE  Consent!ConsentNext
  <2>1. Answers[i] = "unasked" /\ Answers' = [Answers EXCEPT ![i] = "asked"]
    <3>1. row'[i] = "pending" /\ \A j \in Interrupt \ {i} : row'[j] = row[j]
      BY <1>0, <1>2
    <3>2. AnswerOf(row[i]) = "unasked" /\ AnswerOf(row'[i]) = "asked"
      BY <1>2, <3>1 DEF AnswerOf
    <3>3. \A j \in Interrupt \ {i} : AnswerOf(row'[j]) = AnswerOf(row[j])
      BY <3>1
    <3>4. QED
      BY <3>2, <3>3
  <2>2. QED
    BY <1>2, <2>1 DEF Consent!ConsentNext, Consent!Ask
<1>3. ASSUME NEW i \in Interrupt, row[i] = "pending", NEW d \in Decided, SetStatus(i, d),
             UNCHANGED retried
      PROVE  Consent!ConsentNext
  <2>1. /\ Answers[i] = "asked"
        /\ \E a \in {"yes", "no", "lost"} : Answers' = [Answers EXCEPT ![i] = a]
    BY <1>0, <1>3 DEF AnswerOf, SetStatus, Decided
  <2>2. QED
    BY <1>3, <2>1 DEF Consent!ConsentNext, Consent!Settle
<1>4. ASSUME NEW w \in Worker, Retry(w)
      PROVE  [Consent!ConsentNext]_(Consent!consentVars)
  <2>1. CASE pc'[w] = "browsing"
    <3>1. /\ ref[w] \in Interrupt /\ row[ref[w]] = "resolved" /\ ref[w] \notin retried
          /\ UNCHANGED row /\ retried' = retried \cup {ref[w]}
      BY <1>4, <2>1
         DEF Retry, KernelInv, KernelTypeOK, AwaitsItsOwn, ResultIsYes, storeVars
    <3>2. Consent!Use(ref[w])
      BY <3>1 DEF Consent!Use, AnswerOf
    <3>3. QED
      BY <3>1, <3>2 DEF Consent!ConsentNext
  <2>2. CASE pc'[w] # "browsing"
    BY <1>1, <1>4, <2>2 DEF Retry, storeVars
  <2>3. QED
    BY <2>1, <2>2
<1>5. ASSUME NEW w \in Worker, Challenged(w)
      PROVE  [Consent!ConsentNext]_(Consent!consentVars)
  <2>1. next \in Interrupt /\ row[next] = "none"
    BY <1>5, KernelConstants DEF Challenged, KernelInv, KernelTypeOK, FreshUntouched, Interrupt
  <2>2. QED
    BY <1>1, <1>2, <1>5, <2>1 DEF Challenged, storeVars
<1>6. ASSUME NEW i \in Interrupt, OwnerStep(i)
      PROVE  [Consent!ConsentNext]_(Consent!consentVars)
  BY <1>1, <1>3, <1>6 DEF OwnerStep, ApproveLost, Approve, Deny, Decided, storeVars
<1>7. QED
  BY <1>1, <1>4, <1>5, <1>6
     DEF Next, WorkerStep, Start, Returns, GiveUp, CancelRun, Crash, vars, storeVars

(* The kernel implements OwnerConsent: one answer for each question, one   *)
(* retry for each yes, however crashes and failing statements fall.        *)
THEOREM KernelImplementsConsent == Spec => ConsentKept
<1>1. Init => Consent!ConsentInit
  BY DEF Init, Consent!ConsentInit, Answers, AnswerOf
<1>2. KernelInv /\ [Next]_vars => [Consent!ConsentNext]_(Consent!consentVars)
  BY StepConsents
<1>3. QED
  BY <1>1, <1>2, KernelInvariant, PTL DEF Spec, ConsentKept, Consent!ConsentSpec

=============================================================================
