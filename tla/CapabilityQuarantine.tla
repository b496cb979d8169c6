------------------------ MODULE CapabilityQuarantine -------------------------
(***************************************************************************)
(* The way of an external package into the store: import_quarantine.py     *)
(* copies it to quarantine/, quarantine_review.py audits it and records    *)
(* what the reviewer decides, quarantine_transition.py requests its        *)
(* activation, quarantine_activation_planner.py plans it, and              *)
(* quarantine_activation_apply.py copies it into a scope, as testing.      *)
(*                                                                         *)
(* Where a tool takes an optional id or scope, any value may be given;     *)
(* the default, the latest one, is among them.  Plans that are not allowed *)
(* are not kept here: nothing can be done with one.                        *)
(*                                                                         *)
(* The records are files in the directory of the package, and a package    *)
(* may come with some: they are read like the ones that are made here.     *)
(***************************************************************************)
EXTENDS CapabilityStore

CONSTANTS
    PackageMaturity,    \* what the front matter of the package says
    Packages,           \* the records that a package may come with
    NoHash,             \* the content of a record that names none
    MaxReviews,         \* no more records than these are made, with those of the package
    MaxAudits,
    MaxRequests,
    MaxPlans,
    MaxEdits

\* review and audit are 0 where no id is given, and the latest one is meant.
Request == [scope : Scope, review : Nat, audit : Nat, text : Content \cup {NoHash},
            status : {"pending", "cancelled", "superseded"}]

\* The scope of a plan is the default of its application, and not kept.
Plan == [request : Nat, text : Content \cup {NoHash}]

Package == [reviews : Seq({"approved", "refused"}), audits : Seq(BOOLEAN),
            requests : Seq(Request), plans : Seq(Plan)]

Bare == [reviews |-> <<>>, audits |-> <<>>, requests |-> <<>>, plans |-> <<>>]

\* A request that names no file which is there is as good as one that names a
\* refusal, and left out.
ASSUME QuarantineAssumption ==
    /\ PackageMaturity \in Maturity
    /\ NoHash \notin Content
    /\ Packages \subseteq Package
    /\ \A b \in Packages : \A r \in DOMAIN b.requests :
          /\ b.requests[r].review \in 0 .. Len(b.reviews)
          /\ b.requests[r].audit \in 0 .. Len(b.audits)
    /\ MaxReviews \in Nat /\ MaxAudits \in Nat /\ MaxRequests \in Nat
    /\ MaxPlans \in Nat /\ MaxEdits \in Nat

VARIABLES
    quarantine, \* quarantine/<id>; Partial if its manifest does not say quarantined
    reviews,    \* quarantine_reviews/, in the order they were written
    audits,     \* quarantine_audit_reports/: does it support an activation
    requests,   \* quarantine_transition_requests/
    plans,      \* quarantine_activation_plans/, the allowed ones
    brought,    \* history: the records that came with the package, the first of each
    spent,      \* history: the requests something was activated for
    unmarked,   \* history: of these, the ones that were not marked superseded
    torn,       \* history: the scopes a torn copy was left in, or speaks for
    edits

recordVars == <<reviews, audits, requests, plans, brought>>
quarantineVars == <<quarantine, recordVars, spent, unmarked, torn, edits>>

QuarantineInit ==
    /\ quarantine = Nothing
    /\ reviews = <<>>
    /\ audits = <<>>
    /\ requests = <<>>
    /\ plans = <<>>
    /\ brought = Bare
    /\ spent = {}
    /\ unmarked = {}
    /\ torn = {}
    /\ edits = 0

InQuarantine == Readable(quarantine)

ReviewsBrought == Len(brought.reviews)
AuditsBrought == Len(brought.audits)
RequestsBrought == Len(brought.requests)
PlansBrought == Len(brought.plans)

-----------------------------------------------------------------------------
(* import_capability_package(). *)

\* copytree takes the records along with the rest of the package.
Bring ==
    \E b \in Packages :
        /\ reviews' = b.reviews
        /\ audits' = b.audits
        /\ requests' = b.requests
        /\ plans' = b.plans
        /\ brought' = b

\* index.upsert() of the copy in quarantine, over the row of any other of s.
IndexedOver(s) ==
    /\ Works
    /\ index' = [index EXCEPT ![s] = "quarantined"]
    /\ missed' = IF Readable(live[s]) THEN missed \cup {s} ELSE missed

\* The copy is normalised when it is complete.  What a failed or interrupted
\* copy leaves stays: with the manifest of the package, or without any.
Import(s) ==
    /\ NotFound
    /\ ~Exists(quarantine)
    /\ \/ \E risk \in Risk, text \in Passing :
             /\ quarantine' = [status |-> "quarantined", maturity |-> "draft",
                               risk |-> risk, text |-> text, scope |-> s,
                               plan |-> 0, request |-> 0]
             /\ Bring
             /\ \/ IndexedOver(s)
                \/ (Raises \/ Dies) /\ UNCHANGED <<index, missed>>
       \/ /\ Raises \/ Dies
          /\ quarantine' = Partial
          /\ Bring
          /\ UNCHANGED <<index, missed>>
       \/ \* no provenance.json: the copy is removed
          Raises /\ UNCHANGED <<quarantine, recordVars, index, missed>>
    /\ UNCHANGED <<live, consented, changes, spent, unmarked, torn, edits>>

\* The operator changes the files in quarantine, as a review may ask for.
Edit ==
    /\ InQuarantine
    /\ edits < MaxEdits
    /\ edits' = edits + 1
    /\ \E text \in Content \ {quarantine.text} :
          quarantine' = [quarantine EXCEPT !.text = text]
    /\ UNCHANGED <<storeVars, recordVars, spent, unmarked, torn>>

-----------------------------------------------------------------------------
(* The records. *)

\* audit_quarantined_capability(): scripts are scanned too, so the result
\* does not follow from the text alone.
Audit ==
    /\ Exists(quarantine)
    /\ Len(audits) < MaxAudits
    /\ \E supports \in BOOLEAN : audits' = Append(audits, supports)
    /\ UNCHANGED <<storeVars, quarantine, reviews, requests, plans, brought, spent, unmarked, torn, edits>>

\* mark_quarantine_review(): a directory without a manifest is not refused.
Review ==
    /\ Exists(quarantine)
    /\ Len(reviews) < MaxReviews
    /\ \E decision \in {"approved", "refused"} : reviews' = Append(reviews, decision)
    /\ UNCHANGED <<storeVars, quarantine, audits, requests, plans, brought, spent, unmarked, torn, edits>>

-----------------------------------------------------------------------------
(* From a request to an active copy. *)

\* Gates 4 and 5 of a request leave it any record that exists, which may be
\* named whatever it says.  By default it is the latest one, if that says yes;
\* if it was brought, it may give no id.  Gate 6 is passed: the records made
\* here hold no content hash to compare.
Sources(records, count, yes) ==
    DOMAIN records \cup IF \E i \in 1 .. count : records[i] = yes THEN {0} ELSE {}

\* request_quarantine_testing_transition()
RequestTransition(s) ==
    /\ InQuarantine
    /\ Len(requests) < MaxRequests
    /\ \A r \in DOMAIN requests :
          ~(requests[r].status = "pending" /\ requests[r].scope = s)
    /\ quarantine.text \in Passing
    /\ \E i \in Sources(reviews, ReviewsBrought, "approved"),
          j \in Sources(audits, AuditsBrought, TRUE) :
          requests' = Append(requests,
                [scope |-> s, review |-> i, audit |-> j,
                 text |-> quarantine.text, status |-> "pending"])
    /\ UNCHANGED <<storeVars, quarantine, reviews, audits, plans, brought, spent, unmarked, torn, edits>>

\* cancel_quarantine_transition_request()
CancelRequest(r) ==
    /\ requests[r].status = "pending"
    /\ requests' = [requests EXCEPT ![r].status = "cancelled"]
    /\ UNCHANGED <<storeVars, quarantine, reviews, audits, plans, brought, spent, unmarked, torn, edits>>

\* A hash that is empty is not compared.
IsPresent(text) == text \in {NoHash, quarantine.text}

\* The records that count for a request: the one it names, or the latest.  One
\* that was brought has whatever date it gives, so any of them may be that.
Consulted(id, records, count) ==
    IF id # 0 THEN {id} ELSE {i \in DOMAIN records : i = Len(records) \/ i <= count}

\* Supported, mutated: what the request was given is not looked at again.
RequestTrusted(r) ==
    /\ requests[r].status = "pending"
    /\ IsPresent(requests[r].text)

\* The gates a plan and its application share: the request is pending and for
\* the present content, the review approves and the audit supports it.
Supported(r) ==
    /\ requests[r].status = "pending"
    /\ IsPresent(requests[r].text)
    /\ \E i \in Consulted(requests[r].review, reviews, ReviewsBrought) :
          reviews[i] = "approved"
    /\ \E j \in Consulted(requests[r].audit, audits, AuditsBrought) : audits[j]

\* The target is free, and the evaluator and the install policy agree.
Activatable(s) == ~Exists(live[s]) /\ quarantine.text \in Passing

\* plan_quarantine_activation(), allowed: the scope need not be the request's.
PlanActivation(r, s) ==
    /\ InQuarantine
    /\ Supported(r)
    /\ Activatable(s)
    /\ Len(plans) < MaxPlans
    /\ plans' = Append(plans, [request |-> r, text |-> quarantine.text])
    /\ UNCHANGED <<storeVars, quarantine, reviews, audits, requests, brought, spent, unmarked, torn, edits>>

\* The plan of a capability that is not in quarantine is written there too,
\* and makes its directory.
PlanNothing ==
    /\ ~Exists(quarantine)
    /\ quarantine' = Partial
    /\ UNCHANGED <<storeVars, recordVars, spent, unmarked, torn, edits>>

\* Cleared, mutated: the gate on high risk is left to the lifecycle.
ClearedAnyRisk(p, r, s) ==
    /\ InQuarantine
    /\ Supported(r)
    /\ IsPresent(plans[p].text)
    /\ Activatable(s)

\* All gates of apply_quarantine_activation().  Neither the request of the
\* plan nor its scope is compared with what is applied.
Cleared(p, r, s) ==
    /\ InQuarantine
    /\ Supported(r)
    /\ IsPresent(plans[p].text)
    /\ Activatable(s)
    /\ quarantine.risk # "high"

\* What copytree may leave: an unreadable directory, a copy without the
\* manifest, where CAPABILITY.md speaks for itself, or a copy as it was.
TornCopies ==
    {Partial, quarantine} \cup
    {[quarantine EXCEPT !.status = "active", !.maturity = PackageMaturity,
                        !.scope = scope] : scope \in Scope}

\* Mark, mutated: the request stays as it is.
MarkNothing(r) == Works /\ UNCHANGED <<requests, unmarked>>

\* The file a request is marked in: the id of one that was brought may be that
\* of another, or of none (0).
FiledAs(r) == IF r <= RequestsBrought THEN 0 .. RequestsBrought ELSE {r}

\* The request is marked last; that may fail, or not be reached.
Mark(r) ==
    \/ /\ Works
       /\ \E q \in FiledAs(r) :
             /\ requests' = [k \in DOMAIN requests |->
                    IF k = q THEN [requests[r] EXCEPT !.status = "superseded"] ELSE requests[k]]
             /\ unmarked' = IF q = r THEN unmarked ELSE unmarked \cup {r}
    \/ /\ Raises \/ Dies
       /\ unmarked' = unmarked \cup {r}
       /\ UNCHANGED requests

NormalisedFor(p, r, s) ==
    [quarantine EXCEPT !.status = "active", !.maturity = "testing", !.scope = s,
                       !.plan = p, !.request = r]

\* apply_quarantine_activation(): copy, manifest and reports, index, request.
Apply(p, r, s) ==
    LET d == NormalisedFor(p, r, s)
    IN  /\ Cleared(p, r, s)
        /\ spent' = spent \cup {r}
        /\ live' = [live EXCEPT ![s] = d]
        /\ consented' = consented \ {s}
        /\ \/ /\ index' = [index EXCEPT ![d.scope] = d.status]
              /\ missed' = missed \ {d.scope}
              /\ Mark(r)
           \/ \* the process dies before the index
              /\ Dies
              /\ missed' = missed \cup {s}
              /\ unmarked' = unmarked \cup {r}
              /\ UNCHANGED <<index, requests>>
        /\ UNCHANGED <<changes, quarantine, reviews, audits, plans, brought, torn, edits>>

\* A failure after the copy, up to the index: the target is removed again.
ApplyRolledBack(p, r, s) ==
    /\ Cleared(p, r, s)
    /\ Raises
    /\ UNCHANGED <<live, index, missed, consented, changes, crashes, quarantineVars>>

\* copytree raises before target_dir_created is set, or the process dies.
ApplyTorn(p, r, s) ==
    /\ Cleared(p, r, s)
    /\ Raises \/ Dies
    /\ \E d \in TornCopies :
          /\ live' = [live EXCEPT ![s] = d]
          /\ torn' = torn \cup {s} \cup (IF Readable(d) THEN {d.scope} ELSE {})
    /\ UNCHANGED <<index, missed, consented, changes, quarantine, recordVars, spent, unmarked, edits>>
=============================================================================
