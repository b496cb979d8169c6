--------------------------- MODULE CapabilitiesMC ----------------------------
(* An instance of Capabilities for TLC: two scopes, and a package that comes *)
(* without records, with an approving review, with a request and its plan,   *)
(* or with all three.                                                        *)
EXTENDS Capabilities, TLC

CONSTANTS user, workspace

SearchOrder == workspace :> 1 @@ user :> 2

WithReview == [Bare EXCEPT !.reviews = <<"approved">>]

\* for the latest review and audit, and without a content hash
WithPlan ==
    [Bare EXCEPT !.requests = <<[scope |-> user, review |-> 0, audit |-> 0,
                                 text |-> NoHash, status |-> "pending"]>>,
                 !.plans = <<[request |-> 1, text |-> NoHash]>>]

SomePackages == {Bare, WithReview, WithPlan, [WithPlan EXCEPT !.reviews = <<"approved">>]}
=============================================================================
