--------------------------- MODULE CapabilityStore ---------------------------
(***************************************************************************)
(* capabilities/store.py and index.py: the directories                     *)
(* <scope>/<capability id>, the manifests in them, and the index that      *)
(* search() reads.  Nothing in the code relates two capability ids, so one *)
(* id is modelled, in each scope it may exist.                             *)
(*                                                                         *)
(* Every call is one step of the event loop.  What can go wrong is that it *)
(* stops half-way: a file operation or the index raises (failures), or the *)
(* process dies (crashes).  All the state there is, is on disk.            *)
(***************************************************************************)
EXTENDS Naturals, Sequences

CONSTANTS
    Scope,          \* global, user, workspace, session
    Rank,           \* the place of each in SCOPE_PRECEDENCE
    Content,        \* what CAPABILITY.md may say
    Passing,        \* the contents the evaluator finds no error in
    Ready,          \* of these, the ones with all required axes passed
    Risk,           \* the risk levels that occur
    Nothing,        \* no such directory
    Partial,        \* a directory without CAPABILITY.md, or that cannot be parsed
    MaxChanges,     \* bound of the calls that create, promote or retire
    MaxFaults       \* bound of the operations that raise and the crashes

Maturity == {"draft", "testing", "stable", "broken", "repairing"}

Status == {"active", "disabled", "archived", "quarantined"}

\* plan and request are the ones a copy was activated by (extra.origin, where
\* the records have ids of their own), 0 in all others.
Doc == [status : Status, maturity : Maturity, risk : Risk, text : Content,
        scope : Scope, plan : Nat, request : Nat]

ASSUME StoreAssumption ==
    /\ Rank \in [Scope -> Nat]
    /\ Ready \subseteq Passing
    /\ Passing \subseteq Content
    /\ Risk \subseteq {"low", "medium", "high"}
    /\ Nothing \notin Doc /\ Partial \notin Doc /\ Nothing # Partial
    /\ MaxChanges \in Nat /\ MaxFaults \in Nat

VARIABLES
    live,       \* the directory of the capability in each scope
    index,      \* the status column of its rows in capability_index
    missed,     \* history: the scopes whose row is not of their last change
    consented,  \* history: the scopes whose copy was promoted with approval
    changes,
    failures,
    crashes

storeVars == <<live, index, missed, consented, changes, failures, crashes>>

StoreInit ==
    /\ live = [s \in Scope |-> Nothing]
    /\ index = [s \in Scope |-> "none"]
    /\ missed = {}
    /\ consented = {}
    /\ changes = 0
    /\ failures = 0
    /\ crashes = 0

-----------------------------------------------------------------------------
Works == UNCHANGED <<failures, crashes>>

MayFault == failures + crashes < MaxFaults

Raises == MayFault /\ failures' = failures + 1 /\ UNCHANGED crashes

Dies == MayFault /\ crashes' = crashes + 1 /\ UNCHANGED failures

Counted == changes < MaxChanges /\ changes' = changes + 1

Exists(d) == d # Nothing

\* store.get(): the parser accepts the directory.
Readable(d) == d \notin {Nothing, Partial}

\* store.get() without a scope raises: the first directory in the order of the
\* scopes that has a CAPABILITY.md is parsed, and a Partial one may have it.
NotFound ==
    \A t \in Scope : Readable(live[t]) =>
        \E u \in Scope : live[u] = Partial /\ Rank[u] < Rank[t]

Active(d) == Readable(d) /\ d.status = "active"

\* index.upsert(), the last step of a change: it may raise, or not be reached.
Indexed(d) ==
    \/ /\ Works
       /\ index' = [index EXCEPT ![d.scope] = d.status]
       /\ missed' = missed \ {d.scope}
    \/ /\ Raises \/ Dies
       /\ missed' = missed \cup {d.scope}
       /\ UNCHANGED index

\* create_draft(), for a proposal that is applied.
CreateDraft(s) ==
    /\ Counted
    /\ ~Exists(live[s])
    /\ \/ \E risk \in Risk, text \in Content :
             LET d == [status |-> "active", maturity |-> "draft", risk |-> risk,
                       text |-> text, scope |-> s, plan |-> 0, request |-> 0]
             IN  live' = [live EXCEPT ![s] = d] /\ Indexed(d)
       \/ \* before CAPABILITY.md is written
          /\ Raises \/ Dies
          /\ live' = [live EXCEPT ![s] = Partial]
          /\ UNCHANGED <<index, missed>>
    /\ consented' = consented \ {s}

\* disable(): the manifest, then the index.
Disable(s) ==
    LET d == [live[s] EXCEPT !.status = "disabled"]
    IN  /\ Readable(live[s])
        /\ live' = [live EXCEPT ![s] = d]
        /\ Indexed(d)
        /\ UNCHANGED consented
        /\ Counted

\* Archive, mutated: the row of a directory that moved away is left as it is.
ArchiveForgetsIndex(s) ==
    /\ Readable(live[s])
    /\ live' = [live EXCEPT ![s] = Nothing]
    /\ Works
    /\ consented' = consented \ {s}
    /\ UNCHANGED <<index, missed>>
    /\ Counted

\* archive(): the manifest, then the move to archived/, then the index.
Archive(s) ==
    LET d == [live[s] EXCEPT !.status = "archived"]
    IN  /\ Readable(live[s])
        /\ \/ /\ live' = [live EXCEPT ![s] = Nothing]
              /\ Indexed(d)
              /\ consented' = consented \ {s}
           \/ /\ Raises \/ Dies
              /\ live' = [live EXCEPT ![s] = d]
              /\ missed' = missed \cup {d.scope}
              /\ UNCHANGED <<index, consented>>
        /\ Counted
=============================================================================
