------------------------- MODULE CapabilityLifecycle -------------------------
(***************************************************************************)
(* capabilities/lifecycle.py with promotion.py and policy.py: the tool     *)
(* transition_capability moves a capability along its maturities, disables *)
(* and archives it.  The trust gate of 8C-1 is off unless configured, and  *)
(* left out.                                                               *)
(***************************************************************************)
EXTENDS CapabilityStore

\* The approval argument of the tool: absent, or a dict that says no or yes.
Approval == {"none", "denied", "granted"}

\* The transitions apply_transition() evaluates the capability for.
EvalRequired == {<<"draft", "testing">>, <<"testing", "stable">>, <<"repairing", "testing">>}

\* plan_transition(): it takes any approval that is given for a yes.
Planned(d, to, approval, evidence) ==
    \/ d.maturity = "draft" /\ to = "testing" /\ d.text \in Passing
    \/ /\ d.maturity = "testing" /\ to = "stable"
       /\ d.text \in Ready
       /\ d.risk = "high" => approval # "none"
       /\ d.status # "quarantined"
    \/ d.maturity = "stable" /\ to = "broken" /\ evidence
    \/ d.maturity = "broken" /\ to = "repairing"
    \/ d.maturity = "repairing" /\ to = "testing" /\ d.text \in Passing

\* PermittedFor, mutated: a denied approval is an approval.
AnyApprovalPermits(d, evaluated, approval) ==
    /\ d.status \notin {"quarantined", "archived"}
    /\ d.risk = "high" => approval # "none"
    /\ d.risk = "medium" => approval = "granted" \/ evaluated
    /\ evaluated /\ approval # "granted" => d.text \in Passing

\* policy.validate_promote(); evaluated says that an EvalRecord is passed to it.
PermittedFor(d, evaluated, approval) ==
    /\ d.status \notin {"quarantined", "archived"}
    /\ \/ d.risk = "high" /\ approval = "granted"
       \/ /\ d.risk = "medium"
          /\ approval = "granted" \/ (evaluated /\ d.text \in Passing)
       \/ d.risk = "low" /\ (evaluated => d.text \in Passing)

\* apply_transition() to a maturity.
Promote(s) ==
    /\ Readable(live[s])
    /\ live[s].status \notin {"disabled", "archived"}
    /\ \E to \in Maturity \ {"draft"}, approval \in Approval, evidence \in BOOLEAN :
          LET d == [live[s] EXCEPT !.maturity = to]
          IN  /\ Planned(live[s], to, approval, evidence)
              /\ PermittedFor(live[s], <<live[s].maturity, to>> \in EvalRequired, approval)
              /\ live' = [live EXCEPT ![s] = d]
              /\ Indexed(d)
              /\ consented' = IF approval = "granted" THEN consented \cup {s} ELSE consented
    /\ Counted

\* apply_transition() to disabled or archived.  The policy is asked without
\* an approval, and the store is given the scope the manifest names.
Retire(s) ==
    /\ Readable(live[s])
    /\ PermittedFor(live[s], FALSE, "none")
    /\ \/ live[s].status # "disabled" /\ Disable(live[s].scope)
       \/ Archive(live[s].scope)
=============================================================================
