---------------------------- MODULE Capabilities -----------------------------
(***************************************************************************)
(* A capability from its proposal or import to its archive: the life cycle *)
(* and the quarantine on one store, with failing operations and crashes.   *)
(***************************************************************************)
EXTENDS CapabilityLifecycle, CapabilityQuarantine

vars == <<storeVars, quarantineVars>>

Init == StoreInit /\ QuarantineInit

Store ==
    /\ \E s \in Scope : CreateDraft(s) \/ Promote(s) \/ Retire(s)
    /\ UNCHANGED quarantineVars

Quarantine ==
    \/ \E s \in Scope : Import(s) \/ RequestTransition(s)
    \/ Edit \/ Audit \/ Review \/ PlanNothing
    \/ \E r \in DOMAIN requests : CancelRequest(r)
    \/ \E r \in DOMAIN requests, s \in Scope :
          \/ PlanActivation(r, s)
          \/ \E p \in DOMAIN plans :
                Apply(p, r, s) \/ ApplyRolledBack(p, r, s) \/ ApplyTorn(p, r, s)

Next == Store \/ Quarantine

Spec == Init /\ [][Next]_vars

-----------------------------------------------------------------------------
(* Properties. *)

(* Types; and that a copy is in the scope its manifest names, however it got *)
(* there, which is what disable() and archive() and the index go by.  A torn *)
(* copy may say otherwise.                                                   *)
CapabilityTypeOK ==
    /\ live \in [Scope -> Doc \cup {Nothing, Partial}]
    /\ \A s \in Scope \ torn : Readable(live[s]) => live[s].scope = s
    /\ index \in [Scope -> Status \cup {"none"}]
    /\ missed \subseteq Scope /\ consented \subseteq Scope /\ torn \subseteq Scope
    /\ quarantine \in Doc \cup {Nothing, Partial}
    /\ reviews \in Seq({"approved", "refused"})
    /\ audits \in Seq(BOOLEAN)
    /\ requests \in Seq(Request)
    /\ plans \in Seq(Plan)
    /\ brought \in Packages \cup {Bare}
    /\ unmarked \subseteq spent /\ spent \subseteq DOMAIN requests
    /\ changes \in Nat /\ edits \in Nat /\ failures \in Nat /\ crashes \in Nat

(* The records that may have counted for request r.  One that was made here  *)
(* names its record, unless that was brought without an id.                  *)
Behind(r, id, records, count) ==
    IF id # 0 THEN {id} ELSE IF r > RequestsBrought THEN 1 .. count ELSE DOMAIN records

Backed(r) ==
    /\ \E i \in Behind(r, requests[r].review, reviews, ReviewsBrought) :
          reviews[i] = "approved"
    /\ \E j \in Behind(r, requests[r].audit, audits, AuditsBrought) : audits[j]

(* What came out of quarantine is backed by its records for as long as it is *)
(* there: the evaluator passed the content, the review of the request        *)
(* approves and its audit supports it; a request made here is for this very  *)
(* content, and so is a plan made here, whose own request is backed as well. *)
(* This although a request may name a record that refuses, the plan may be   *)
(* of another request, and the files may be edited at any time.  The records *)
(* may be the package's own: what came with it counts like what was made     *)
(* here, and need not name a content.                                        *)
ActivationBacked ==
    \A s \in Scope :
        Readable(live[s]) /\ live[s].request # 0 =>
            LET r == live[s].request
                p == live[s].plan
            IN  /\ live[s].text \in Passing
                /\ r \in DOMAIN requests /\ Backed(r)
                /\ r > RequestsBrought => requests[r].text = live[s].text
                /\ p \in DOMAIN plans
                /\ p > PlansBrought =>
                      /\ plans[p].text = live[s].text
                      /\ plans[p].request \in DOMAIN requests
                      /\ Backed(plans[p].request)

(* A request is good for one activation: nothing is activated for a request  *)
(* that was used or cancelled, and none is cancelled after it was used; also *)
(* when the copy was archived since.  The exception is a request that could  *)
(* not be marked, or was marked under another id.                            *)
RequestSpentOnce ==
    [][ /\ \A s \in Scope :
              ~Exists(live[s]) /\ Readable(live'[s]) /\ live'[s].request # 0 =>
                  live'[s].request \notin spent \ unmarked
        /\ \A r \in DOMAIN requests :
              requests[r].status = "pending" /\ requests'[r].status = "cancelled" =>
                  r \notin spent \ unmarked ]_vars

(* search() finds exactly the copies that are active, unless the last change *)
(* of the copy did not get to the index, a package was imported over the row *)
(* of a copy that get() did not find, or a torn copy speaks for the scope.   *)
IndexAgrees ==
    \A s \in Scope \ (missed \cup torn) :
        index[s] = "active" <=> Active(live[s])

(* Whichever way a copy got past draft, the evaluator passed its content,    *)
(* with all required axes once it was stable, and a copy of high risk was    *)
(* promoted with the owner's approval.  Torn copies are the exception.       *)
PromotionEarned ==
    \A s \in Scope \ torn :
        Readable(live[s]) =>
            /\ live[s].maturity # "draft" =>
                  /\ live[s].text \in Passing
                  /\ live[s].risk = "high" => s \in consented
            /\ live[s].maturity \in {"stable", "broken", "repairing"} =>
                  live[s].text \in Ready
=============================================================================
