------------------------- MODULE CapabilitiesProofs --------------------------
(***************************************************************************)
(* The properties of Capabilities that TLC checks on two scopes, for any   *)
(* scopes, contents and number of records, failures and crashes.           *)
(***************************************************************************)
EXTENDS Capabilities, TLAPS, SequenceTheorems

(* The part of the types that is about the store. *)
StoreTypes ==
    /\ live \in [Scope -> Doc \cup {Nothing, Partial}]
    /\ \A s \in Scope \ torn : Readable(live[s]) => live[s].scope = s
    /\ index \in [Scope -> Status \cup {"none"}]
    /\ missed \subseteq Scope /\ consented \subseteq Scope /\ torn \subseteq Scope
    /\ changes \in Nat /\ failures \in Nat /\ crashes \in Nat

(* A torn copy names no scope that is not known to be torn. *)
TornSpeaks == \A s \in torn : Readable(live[s]) => live[s].scope \in torn

StoreInv ==
    /\ StoreTypes
    /\ TornSpeaks
    /\ IndexAgrees
    /\ PromotionEarned

(* The part of the types that is about quarantine and its records. *)
RecordTypes ==
    /\ quarantine \in Doc \cup {Nothing, Partial}
    /\ reviews \in Seq({"approved", "refused"})
    /\ audits \in Seq(BOOLEAN)
    /\ requests \in Seq(Request)
    /\ plans \in Seq(Plan)
    /\ brought \in Packages \cup {Bare}
    /\ unmarked \subseteq spent /\ spent \subseteq DOMAIN requests
    /\ edits \in Nat

(* What Import writes, and nobody but the operator, the text, changes. *)
Quarantined ==
    Readable(quarantine) =>
        /\ quarantine.status = "quarantined" /\ quarantine.maturity = "draft"
        /\ quarantine.plan = 0 /\ quarantine.request = 0

(* Nothing is requested or planned before there is a package. *)
RecordsOfPackage == ~Exists(quarantine) => requests = <<>> /\ plans = <<>>

(* What was brought is at the front, and a request names records that exist. *)
RecordsNamed ==
    /\ 1 .. ReviewsBrought \subseteq DOMAIN reviews
    /\ 1 .. AuditsBrought \subseteq DOMAIN audits
    /\ RequestsBrought \in 0 .. Len(requests) /\ PlansBrought \in 0 .. Len(plans)
    /\ \A r \in DOMAIN requests :
          /\ requests[r].review \in {0} \cup DOMAIN reviews
          /\ requests[r].audit \in {0} \cup DOMAIN audits

(* What is made here is made for a content.  A request that names no record  *)
(* goes by one that was brought, and a plan is of a request that was backed. *)
RecordsGiven ==
    /\ \A r \in DOMAIN requests : r > RequestsBrought =>
          /\ requests[r].text # NoHash
          /\ requests[r].review = 0 => \E i \in 1 .. ReviewsBrought : reviews[i] = "approved"
          /\ requests[r].audit = 0 => \E j \in 1 .. AuditsBrought : audits[j]
    /\ \A p \in DOMAIN plans : p > PlansBrought =>
          /\ plans[p].text # NoHash
          /\ plans[p].request \in DOMAIN requests
          /\ Backed(plans[p].request)

(* A used request is superseded, unless it could not be marked. *)
SpentMarked == \A r \in spent \ unmarked : requests[r].status = "superseded"

RecordInv ==
    /\ RecordTypes
    /\ Quarantined
    /\ RecordsOfPackage
    /\ RecordsNamed
    /\ RecordsGiven
    /\ SpentMarked

CapInv == StoreInv /\ RecordInv /\ ActivationBacked

-----------------------------------------------------------------------------
LEMMA InitKeeps == Init => CapInv
<1> SUFFICES ASSUME Init PROVE CapInv
  OBVIOUS
<1> USE DEF Init, StoreInit, QuarantineInit, Readable
<1>1. StoreInv
  BY StoreAssumption
     DEF StoreInv, StoreTypes, TornSpeaks, IndexAgrees, PromotionEarned, Active
<1>2. RecordInv
  BY DEF RecordInv, RecordTypes, Quarantined, RecordsOfPackage, RecordsNamed, RecordsGiven,
         SpentMarked, Bare, ReviewsBrought, AuditsBrought, RequestsBrought, PlansBrought
<1>3. ActivationBacked
  BY DEF ActivationBacked
<1>4. QED
  BY <1>1, <1>2, <1>3 DEF CapInv

(* A readable directory is a record with the fields of Doc. *)
LEMMA ReadableDoc ==
    ASSUME NEW d \in Doc \cup {Nothing, Partial}, Readable(d)
    PROVE  /\ d \in Doc
           /\ d.status \in Status /\ d.maturity \in Maturity /\ d.risk \in Risk
           /\ d.text \in Content /\ d.scope \in Scope /\ d.plan \in Nat /\ d.request \in Nat
  BY DEF Readable, Doc

LEMMA DocReadable ==
    ASSUME NEW d \in Doc
    PROVE  Readable(d)
  BY StoreAssumption DEF Readable

LEMMA UnreadableKinds == ~Readable(Nothing) /\ ~Readable(Partial) /\ ~Exists(Nothing)
  BY DEF Readable, Exists

(* The fault counters stay numbers. *)
LEMMA FaultTypes ==
    ASSUME failures \in Nat, crashes \in Nat, Works \/ Raises \/ Dies
    PROVE  failures' \in Nat /\ crashes' \in Nat
  BY DEF Works, Raises, Dies

(* What a step that stored d leaves in the index. *)
IndexFollows(d) ==
    /\ index' \in [Scope -> Status \cup {"none"}]
    /\ missed' \subseteq Scope
    /\ failures' \in Nat /\ crashes' \in Nat
    /\ \A s \in Scope : s # d.scope =>
          index'[s] = index[s] /\ (s \in missed' <=> s \in missed)
    /\ d.scope \notin missed' => index'[d.scope] = d.status

LEMMA IndexedDoc ==
    ASSUME StoreTypes, NEW d \in Doc, Indexed(d)
    PROVE  IndexFollows(d)
  BY FaultTypes DEF Indexed, IndexFollows, StoreTypes, Doc, Raises, Dies, Works

-----------------------------------------------------------------------------
(* The store: every call that writes the manifest of one scope.            *)

(* Storing d in the scope it names, when what is not d's is left alone.     *)
LEMMA StoredKeeps ==
    ASSUME StoreInv, NEW s \in Scope, NEW d \in Doc,
           live' = [live EXCEPT ![s] = d],
           UNCHANGED torn,
           s \notin torn => d.scope = s,
           s \in torn => d.scope \in torn,
           changes' \in Nat,
           consented' \subseteq Scope,
           \A t \in Scope \ {s} : t \in consented' <=> t \in consented,
           IndexFollows(d),
           s \notin torn =>
              /\ d.maturity # "draft" =>
                    d.text \in Passing /\ (d.risk = "high" => s \in consented')
              /\ d.maturity \in {"stable", "broken", "repairing"} => d.text \in Ready
    PROVE  StoreInv'
<1>1. /\ live' \in [Scope -> Doc \cup {Nothing, Partial}]
      /\ live'[s] = d /\ \A t \in Scope \ {s} : live'[t] = live[t]
  BY DEF StoreInv, StoreTypes
<1>2. /\ index' \in [Scope -> Status \cup {"none"}]
      /\ missed' \subseteq Scope
      /\ failures' \in Nat /\ crashes' \in Nat
      /\ \A t \in Scope : t # d.scope =>
            index'[t] = index[t] /\ (t \in missed' <=> t \in missed)
      /\ d.scope \notin missed' => index'[d.scope] = d.status
  BY DEF IndexFollows
<1>3. StoreTypes'
  BY <1>1, <1>2 DEF StoreInv, StoreTypes, Readable
<1>4. TornSpeaks'
  BY <1>1 DEF StoreInv, StoreTypes, TornSpeaks, Readable
<1>5. IndexAgrees'
  <2> SUFFICES ASSUME NEW t \in Scope, t \notin missed', t \notin torn
               PROVE  index'[t] = "active" <=> Active(live'[t])
    BY DEF IndexAgrees
  <2>1. CASE t = s
    <3>1. Active(live'[t]) <=> d.status = "active"
      BY <1>1, <2>1, DocReadable DEF Active
    <3>2. QED
      BY <1>2, <2>1, <3>1
  <2>2. CASE t # s
    <3>1. t # d.scope
      BY <2>2
    <3>2. QED
      BY <1>1, <1>2, <2>2, <3>1 DEF StoreInv, IndexAgrees
  <2>3. QED
    BY <2>1, <2>2
<1>6. PromotionEarned'
  <2> SUFFICES ASSUME NEW t \in Scope, t \notin torn, Readable(live'[t])
               PROVE  /\ live'[t].maturity # "draft" =>
                            /\ live'[t].text \in Passing
                            /\ live'[t].risk = "high" => t \in consented'
                      /\ live'[t].maturity \in {"stable", "broken", "repairing"} =>
                            live'[t].text \in Ready
    BY DEF PromotionEarned
  <2>1. CASE t = s
    BY <1>1, <2>1
  <2>2. CASE t # s
    BY <1>1, <2>2 DEF StoreInv, PromotionEarned
  <2>3. QED
    BY <2>1, <2>2
<1>7. QED
  BY <1>3, <1>4, <1>5, <1>6 DEF StoreInv

(* Leaving a scope with nothing readable in it. *)
LEMMA EmptiedKeeps ==
    ASSUME StoreInv, NEW s \in Scope, NEW d \in {Nothing, Partial},
           live' = [live EXCEPT ![s] = d],
           torn \subseteq torn', torn' \subseteq Scope, torn' \subseteq torn \cup {s},
           changes' \in Nat, failures' \in Nat, crashes' \in Nat,
           consented' \subseteq Scope, missed' \subseteq Scope,
           index' \in [Scope -> Status \cup {"none"}],
           \A t \in Scope \ {s} : t \in consented' <=> t \in consented,
           \A t \in Scope \ (torn \cup {s}) :
              index'[t] = index[t] /\ (t \in missed' <=> t \in missed),
           s \in torn' \/ s \in missed' \/ index'[s] # "active"
    PROVE  StoreInv'
<1>1. /\ live' \in [Scope -> Doc \cup {Nothing, Partial}]
      /\ live'[s] = d /\ \A t \in Scope \ {s} : live'[t] = live[t]
  BY DEF StoreInv, StoreTypes
<1>2. ~Readable(d)
  BY UnreadableKinds
<1>3. StoreTypes'
  BY <1>1, <1>2 DEF StoreInv, StoreTypes
<1>4. TornSpeaks'
  BY <1>1, <1>2 DEF StoreInv, StoreTypes, TornSpeaks
<1>5. IndexAgrees'
  BY <1>1, <1>2 DEF StoreInv, IndexAgrees, Active
<1>6. PromotionEarned'
  BY <1>1, <1>2 DEF StoreInv, PromotionEarned
<1>7. QED
  BY <1>3, <1>4, <1>5, <1>6 DEF StoreInv

LEMMA CreateDraftKeeps ==
    ASSUME StoreInv, NEW s \in Scope, CreateDraft(s), UNCHANGED torn
    PROVE  StoreInv'
<1>1. /\ ~Exists(live[s]) /\ changes' \in Nat
      /\ consented' \subseteq Scope
      /\ \A t \in Scope \ {s} : t \in consented' <=> t \in consented
  BY DEF CreateDraft, Counted, StoreInv, StoreTypes
<1>2. CASE \E risk \in Risk, text \in Content :
             LET d == [status |-> "active", maturity |-> "draft", risk |-> risk,
                       text |-> text, scope |-> s, plan |-> 0, request |-> 0]
             IN  live' = [live EXCEPT ![s] = d] /\ Indexed(d)
  <2>1. PICK risk \in Risk, text \in Content :
             LET d == [status |-> "active", maturity |-> "draft", risk |-> risk,
                       text |-> text, scope |-> s, plan |-> 0, request |-> 0]
             IN  live' = [live EXCEPT ![s] = d] /\ Indexed(d)
    BY <1>2
  <2> DEFINE d == [status |-> "active", maturity |-> "draft", risk |-> risk,
                   text |-> text, scope |-> s, plan |-> 0, request |-> 0]
  <2>2. /\ d \in Doc /\ d.scope = s /\ d.maturity = "draft"
        /\ d.maturity \notin {"stable", "broken", "repairing"}
    BY DEF Doc, Status, Maturity
  <2>3. live' = [live EXCEPT ![s] = d] /\ Indexed(d)
    BY <2>1
  <2> HIDE DEF d
  <2>4. QED
    BY <1>1, <2>2, <2>3, IndexedDoc, StoredKeeps DEF StoreInv
<1>3. CASE /\ Raises \/ Dies
           /\ live' = [live EXCEPT ![s] = Partial]
           /\ UNCHANGED <<index, missed>>
  <2>1. failures' \in Nat /\ crashes' \in Nat
    BY <1>3, FaultTypes DEF StoreInv, StoreTypes
  <2>2. s \in torn \/ s \in missed \/ index[s] # "active"
    BY <1>1, UnreadableKinds DEF StoreInv, IndexAgrees, Active, Exists, Readable
  <2>3. QED
    BY <1>1, <1>3, <2>1, <2>2, EmptiedKeeps DEF StoreInv, StoreTypes
<1>4. QED
  BY <1>2, <1>3 DEF CreateDraft

(* What a manifest that is there keeps when a field of it is written. *)
LEMMA StoredDoc ==
    ASSUME StoreInv, NEW s \in Scope, Readable(live[s])
    PROVE  /\ live[s] \in Doc
           /\ s \notin torn => live[s].scope = s
           /\ s \in torn => live[s].scope \in torn
           /\ live[s].scope \in Scope
  BY ReadableDoc DEF StoreInv, StoreTypes, TornSpeaks

LEMMA DisableKeeps ==
    ASSUME StoreInv, NEW s \in Scope, Disable(s), UNCHANGED torn
    PROVE  StoreInv'
<1> DEFINE d == [live[s] EXCEPT !.status = "disabled"]
<1>1. Readable(live[s]) /\ live' = [live EXCEPT ![s] = d] /\ Indexed(d)
  BY DEF Disable
<1>2. /\ live[s] \in Doc
      /\ s \notin torn => live[s].scope = s
      /\ s \in torn => live[s].scope \in torn
  BY <1>1, StoredDoc
<1>3. /\ d \in Doc /\ d.scope = live[s].scope /\ d.maturity = live[s].maturity
      /\ d.text = live[s].text /\ d.risk = live[s].risk
  BY <1>2 DEF Doc, Status
<1>4. /\ changes' \in Nat /\ consented' \subseteq Scope /\ consented' = consented
  BY DEF Disable, Counted, StoreInv, StoreTypes
<1>5. s \notin torn =>
          /\ d.maturity # "draft" =>
                d.text \in Passing /\ (d.risk = "high" => s \in consented')
          /\ d.maturity \in {"stable", "broken", "repairing"} => d.text \in Ready
  BY <1>1, <1>3, <1>4 DEF StoreInv, PromotionEarned
<1> HIDE DEF d
<1>6. QED
  BY <1>1, <1>2, <1>3, <1>4, <1>5, IndexedDoc, StoredKeeps DEF StoreInv

LEMMA ArchiveKeeps ==
    ASSUME StoreInv, NEW s \in Scope, Archive(s), UNCHANGED torn
    PROVE  StoreInv'
<1> DEFINE d == [live[s] EXCEPT !.status = "archived"]
<1>1. Readable(live[s]) /\ changes' \in Nat
  BY DEF Archive, Counted, StoreInv, StoreTypes
<1>2. /\ live[s] \in Doc
      /\ s \notin torn => live[s].scope = s
      /\ s \in torn => live[s].scope \in torn
  BY <1>1, StoredDoc
<1>3. /\ d \in Doc /\ d.scope = live[s].scope /\ d.maturity = live[s].maturity
      /\ d.text = live[s].text /\ d.risk = live[s].risk /\ d.status = "archived"
  BY <1>2 DEF Doc, Status
<1>4. \/ /\ live' = [live EXCEPT ![s] = Nothing]
         /\ Indexed(d)
         /\ consented' = consented \ {s}
      \/ /\ live' = [live EXCEPT ![s] = d]
         /\ Indexed(d)
         /\ consented' = consented
  BY DEF Archive, Indexed
<1> HIDE DEF d
<1>5. CASE /\ live' = [live EXCEPT ![s] = Nothing]
           /\ Indexed(d)
           /\ consented' = consented \ {s}
  <2>1. /\ index' \in [Scope -> Status \cup {"none"}]
        /\ missed' \subseteq Scope
        /\ failures' \in Nat /\ crashes' \in Nat
        /\ \A t \in Scope : t # d.scope =>
              index'[t] = index[t] /\ (t \in missed' <=> t \in missed)
        /\ d.scope \notin missed' => index'[d.scope] = "archived"
    BY <1>3, <1>5, IndexedDoc DEF IndexFollows, StoreInv
  <2>2. \A t \in Scope \ (torn \cup {s}) : t # d.scope
    BY <1>2, <1>3
  <2>3. s \in torn \/ s \in missed' \/ index'[s] # "active"
    BY <1>2, <1>3, <2>1
  <2>4. consented' \subseteq Scope /\ torn \subseteq Scope
    BY <1>5 DEF StoreInv, StoreTypes
  <2>5. QED
    BY <1>1, <1>5, <2>1, <2>2, <2>3, <2>4, EmptiedKeeps
<1>6. CASE /\ live' = [live EXCEPT ![s] = d]
           /\ Indexed(d)
           /\ consented' = consented
  <2>1. s \notin torn =>
            /\ d.maturity # "draft" =>
                  d.text \in Passing /\ (d.risk = "high" => s \in consented')
            /\ d.maturity \in {"stable", "broken", "repairing"} => d.text \in Ready
    BY <1>1, <1>3, <1>6 DEF StoreInv, PromotionEarned
  <2>2. consented' \subseteq Scope
    BY <1>6 DEF StoreInv, StoreTypes
  <2>3. QED
    BY <1>1, <1>2, <1>3, <1>6, <2>1, <2>2, IndexedDoc, StoredKeeps DEF StoreInv
<1>7. QED
  BY <1>4, <1>5, <1>6

(* What the planners and the policy together ask of a promotion. *)
LEMMA PromotionAsks ==
    ASSUME NEW d \in Doc, NEW to \in Maturity, NEW approval \in Approval,
           NEW evidence \in BOOLEAN, Planned(d, to, approval, evidence),
           PermittedFor(d, <<d.maturity, to>> \in EvalRequired, approval)
    PROVE  /\ to # "draft" /\ (d.maturity # "draft" \/ d.text \in Passing)
           /\ d.risk = "high" => approval = "granted"
           /\ to \in {"stable", "broken", "repairing"} =>
                 d.maturity \in {"stable", "broken", "repairing"} \/ d.text \in Ready
  BY DEF Planned, PermittedFor, Doc

LEMMA PromoteKeeps ==
    ASSUME StoreInv, NEW s \in Scope, Promote(s), UNCHANGED torn
    PROVE  StoreInv'
<1>1. Readable(live[s]) /\ changes' \in Nat
  BY DEF Promote, Counted, StoreInv, StoreTypes
<1>2. PICK to \in Maturity \ {"draft"}, approval \in Approval, evidence \in BOOLEAN :
          LET d == [live[s] EXCEPT !.maturity = to]
          IN  /\ Planned(live[s], to, approval, evidence)
              /\ PermittedFor(live[s], <<live[s].maturity, to>> \in EvalRequired, approval)
              /\ live' = [live EXCEPT ![s] = d]
              /\ Indexed(d)
              /\ consented' = IF approval = "granted" THEN consented \cup {s} ELSE consented
  BY DEF Promote
<1> DEFINE d == [live[s] EXCEPT !.maturity = to]
<1>3. /\ live[s] \in Doc
      /\ s \notin torn => live[s].scope = s
      /\ s \in torn => live[s].scope \in torn
  BY <1>1, StoredDoc
<1>4. /\ d \in Doc /\ d.scope = live[s].scope /\ d.maturity = to
      /\ d.text = live[s].text /\ d.risk = live[s].risk
  BY <1>3 DEF Doc
<1>5. live' = [live EXCEPT ![s] = d] /\ Indexed(d)
  BY <1>2
<1>6. /\ consented' \subseteq Scope
      /\ \A t \in Scope \ {s} : t \in consented' <=> t \in consented
      /\ approval = "granted" => s \in consented'
  BY <1>2 DEF StoreInv, StoreTypes
<1>7. /\ live[s].maturity # "draft" \/ live[s].text \in Passing
      /\ live[s].risk = "high" => approval = "granted"
      /\ to \in {"stable", "broken", "repairing"} =>
            live[s].maturity \in {"stable", "broken", "repairing"} \/ live[s].text \in Ready
  BY <1>2, <1>3, PromotionAsks
<1>8. s \notin torn =>
          /\ d.text \in Passing /\ (d.risk = "high" => s \in consented')
          /\ d.maturity \in {"stable", "broken", "repairing"} => d.text \in Ready
  BY <1>1, <1>4, <1>6, <1>7 DEF StoreInv, PromotionEarned
<1> HIDE DEF d
<1>9. QED
  BY <1>1, <1>3, <1>4, <1>5, <1>6, <1>8, IndexedDoc, StoredKeeps DEF StoreInv

LEMMA StoreKeeps ==
    ASSUME StoreInv, Store
    PROVE  StoreInv'
<1>1. UNCHANGED torn
  BY DEF Store, quarantineVars
<1>2. ASSUME NEW s \in Scope, Retire(s)
      PROVE  StoreInv'
  <2>1. live[s].scope \in Scope
    BY <1>2, StoredDoc DEF Retire
  <2>2. QED
    BY <1>1, <1>2, <2>1, DisableKeeps, ArchiveKeeps DEF Retire
<1>3. QED
  BY <1>1, <1>2, CreateDraftKeeps, PromoteKeeps DEF Store

-----------------------------------------------------------------------------
(* The store under the steps of quarantine.                                *)

LEMMA ImportStore ==
    ASSUME StoreInv, NEW s \in Scope, Import(s)
    PROVE  StoreInv'
<1>1. UNCHANGED <<live, consented, changes, torn>>
  BY DEF Import
<1>2. \/ /\ index' = [index EXCEPT ![s] = "quarantined"]
         /\ missed' = IF Readable(live[s]) THEN missed \cup {s} ELSE missed
      \/ index' = index /\ missed' = missed
  BY DEF Import, IndexedOver
<1>3. failures' \in Nat /\ crashes' \in Nat
  BY FaultTypes DEF Import, IndexedOver, StoreInv, StoreTypes
<1>4. StoreTypes'
  BY <1>1, <1>2, <1>3 DEF StoreInv, StoreTypes, Status
<1>5. IndexAgrees'
  BY <1>1, <1>2 DEF StoreInv, StoreTypes, IndexAgrees, Active
<1>6. TornSpeaks' /\ PromotionEarned'
  BY <1>1 DEF StoreInv, TornSpeaks, PromotionEarned
<1>7. QED
  BY <1>4, <1>5, <1>6 DEF StoreInv

(* The copy an application leaves in its scope. *)
LEMMA NormalisedDoc ==
    ASSUME StoreInv, RecordInv, NEW s \in Scope,
           NEW p \in DOMAIN plans, NEW r \in DOMAIN requests, Cleared(p, r, s)
    PROVE  /\ quarantine \in Doc
           /\ NormalisedFor(p, r, s) \in Doc
           /\ NormalisedFor(p, r, s).scope = s
           /\ NormalisedFor(p, r, s).status = "active"
           /\ NormalisedFor(p, r, s).maturity = "testing"
           /\ NormalisedFor(p, r, s).text = quarantine.text
           /\ NormalisedFor(p, r, s).text \in Passing
           /\ NormalisedFor(p, r, s).risk # "high"
           /\ NormalisedFor(p, r, s).plan = p
           /\ NormalisedFor(p, r, s).request = r
<1>1. quarantine \in Doc
  BY ReadableDoc DEF Cleared, InQuarantine, RecordInv, RecordTypes
<1>2. p \in Nat /\ r \in Nat
  BY DEF RecordInv, RecordTypes
<1>3. QED
  BY <1>1, <1>2 DEF NormalisedFor, Cleared, Activatable, Doc, Status, Maturity

LEMMA ApplyStore ==
    ASSUME StoreInv, RecordInv, NEW s \in Scope,
           NEW p \in DOMAIN plans, NEW r \in DOMAIN requests, Apply(p, r, s)
    PROVE  StoreInv'
<1> DEFINE d == NormalisedFor(p, r, s)
<1>1. /\ live' = [live EXCEPT ![s] = d]
      /\ consented' = consented \ {s}
      /\ UNCHANGED <<changes, torn>>
      /\ Cleared(p, r, s)
  BY DEF Apply
<1>2. /\ d \in Doc /\ d.scope = s /\ d.status = "active" /\ d.maturity = "testing"
      /\ d.text \in Passing /\ d.risk # "high"
      /\ d.maturity \notin {"stable", "broken", "repairing"}
  BY <1>1, NormalisedDoc
<1>3. \/ /\ index' = [index EXCEPT ![d.scope] = d.status]
         /\ missed' = missed \ {d.scope}
      \/ index' = index /\ missed' = missed \cup {s}
  BY DEF Apply
<1>4. failures' \in Nat /\ crashes' \in Nat
  BY FaultTypes DEF Apply, Mark, StoreInv, StoreTypes
<1> HIDE DEF d
<1>5. IndexFollows(d)
  BY <1>2, <1>3, <1>4 DEF IndexFollows, StoreInv, StoreTypes, Status
<1>6. consented' \subseteq Scope /\ changes' \in Nat
  BY <1>1 DEF StoreInv, StoreTypes
<1>7. QED
  BY <1>1, <1>2, <1>5, <1>6, StoredKeeps

LEMMA ApplyTornStore ==
    ASSUME StoreInv, RecordInv, NEW s \in Scope,
           NEW p \in DOMAIN plans, NEW r \in DOMAIN requests, ApplyTorn(p, r, s)
    PROVE  StoreInv'
<1>1. PICK d \in TornCopies :
          /\ live' = [live EXCEPT ![s] = d]
          /\ torn' = torn \cup {s} \cup (IF Readable(d) THEN {d.scope} ELSE {})
  BY DEF ApplyTorn
<1>2. UNCHANGED <<index, missed, consented, changes>>
  BY DEF ApplyTorn
<1>3. failures' \in Nat /\ crashes' \in Nat
  BY FaultTypes DEF ApplyTorn, StoreInv, StoreTypes
<1>4. d \in Doc \cup {Partial}
  <2>1. quarantine \in Doc
    BY ReadableDoc DEF ApplyTorn, Cleared, InQuarantine, RecordInv, RecordTypes
  <2>2. PackageMaturity \in Maturity
    BY QuarantineAssumption
  <2>3. QED
    BY <2>1, <2>2 DEF TornCopies, Doc, Status
<1>5. Readable(d) => d.scope \in Scope
  BY <1>4, ReadableDoc
<1>6. /\ s \in torn' /\ torn \subseteq torn' /\ torn' \subseteq Scope
      /\ Readable(d) => d.scope \in torn'
  BY <1>1, <1>5 DEF StoreInv, StoreTypes
<1>7. /\ live' \in [Scope -> Doc \cup {Nothing, Partial}]
      /\ live'[s] = d /\ \A t \in Scope \ {s} : live'[t] = live[t]
  BY <1>1, <1>4 DEF StoreInv, StoreTypes
<1>8. StoreTypes'
  BY <1>2, <1>3, <1>6, <1>7 DEF StoreInv, StoreTypes
<1>9. TornSpeaks'
  BY <1>1, <1>5, <1>6, <1>7 DEF StoreInv, StoreTypes, TornSpeaks
<1>10. IndexAgrees' /\ PromotionEarned'
  BY <1>2, <1>6, <1>7 DEF StoreInv, IndexAgrees, PromotionEarned, Active
<1>11. QED
  BY <1>8, <1>9, <1>10 DEF StoreInv

LEMMA ApplyRolledBackStore ==
    ASSUME StoreInv, NEW s \in Scope, NEW p, NEW r, ApplyRolledBack(p, r, s)
    PROVE  StoreInv'
<1>1. failures' \in Nat /\ crashes' \in Nat
  BY FaultTypes DEF ApplyRolledBack, StoreInv, StoreTypes
<1>2. QED
  BY <1>1
     DEF ApplyRolledBack, quarantineVars, StoreInv, StoreTypes, TornSpeaks, IndexAgrees,
         Active, PromotionEarned

(* The other steps of quarantine write records only. *)
LEMMA StoreUnchanged ==
    ASSUME StoreInv, UNCHANGED storeVars, UNCHANGED torn
    PROVE  StoreInv'
  BY DEF storeVars, StoreInv, StoreTypes, TornSpeaks, IndexAgrees, Active, PromotionEarned

LEMMA QuarantineStore ==
    ASSUME StoreInv, RecordInv, Quarantine
    PROVE  StoreInv'
<1>1. ASSUME NEW s \in Scope, Import(s) \/ RequestTransition(s)
      PROVE  StoreInv'
  BY <1>1, ImportStore, StoreUnchanged DEF RequestTransition
<1>2. ASSUME Edit \/ Audit \/ Review \/ PlanNothing
      PROVE  StoreInv'
  BY <1>2, StoreUnchanged DEF Edit, Audit, Review, PlanNothing
<1>3. ASSUME NEW r \in DOMAIN requests, CancelRequest(r)
      PROVE  StoreInv'
  BY <1>3, StoreUnchanged DEF CancelRequest
<1>4. ASSUME NEW r \in DOMAIN requests, NEW s \in Scope, PlanActivation(r, s)
      PROVE  StoreInv'
  BY <1>4, StoreUnchanged DEF PlanActivation
<1>5. ASSUME NEW r \in DOMAIN requests, NEW s \in Scope, NEW p \in DOMAIN plans,
             Apply(p, r, s) \/ ApplyRolledBack(p, r, s) \/ ApplyTorn(p, r, s)
      PROVE  StoreInv'
  BY <1>5, ApplyStore, ApplyRolledBackStore, ApplyTornStore
<1>6. QED
  BY <1>1, <1>2, <1>3, <1>4, <1>5 DEF Quarantine

-----------------------------------------------------------------------------
(* The records.  A review, an audit and a plan are never overwritten, and of *)
(* a request that was made here nothing but the status.                     *)
RecordsKept ==
    /\ UNCHANGED brought \/ (requests = <<>> /\ plans = <<>>)
    /\ \A p \in DOMAIN plans : p \in DOMAIN plans' /\ plans'[p] = plans[p]
    /\ \A r \in DOMAIN requests :
          /\ r \in DOMAIN requests'
          /\ r > RequestsBrought => requests'[r].text = requests[r].text
          /\ Backed(r) => Backed(r)'

(* Reviews and audits are added to. *)
EvidenceKept ==
    /\ UNCHANGED brought
    /\ \A i \in DOMAIN reviews : i \in DOMAIN reviews' /\ reviews'[i] = reviews[i]
    /\ \A j \in DOMAIN audits : j \in DOMAIN audits' /\ audits'[j] = audits[j]

(* A request that names what a backed one names is backed. *)
LEMMA BackingKept ==
    ASSUME RecordsNamed, EvidenceKept, NEW r \in DOMAIN requests, NEW q, Backed(r),
           requests'[q].review = requests[r].review,
           requests'[q].audit = requests[r].audit,
           q > RequestsBrought <=> r > RequestsBrought
    PROVE  Backed(q)'
<1>1. PICK i \in Behind(r, requests[r].review, reviews, ReviewsBrought) : reviews[i] = "approved"
  BY DEF Backed
<1>2. PICK j \in Behind(r, requests[r].audit, audits, AuditsBrought) : audits[j]
  BY DEF Backed
<1>3. RequestsBrought' = RequestsBrought /\ ReviewsBrought' = ReviewsBrought
      /\ AuditsBrought' = AuditsBrought
  BY DEF EvidenceKept, RequestsBrought, ReviewsBrought, AuditsBrought
<1>4. i \in DOMAIN reviews
  BY <1>1 DEF Behind, RecordsNamed
<1>5. j \in DOMAIN audits
  BY <1>2 DEF Behind, RecordsNamed
<1>6. i \in Behind(q, requests[q].review, reviews, ReviewsBrought)' /\ reviews'[i] = "approved"
  BY <1>1, <1>3, <1>4 DEF Behind, EvidenceKept
<1>7. j \in Behind(q, requests[q].audit, audits, AuditsBrought)' /\ audits'[j]
  BY <1>2, <1>3, <1>5 DEF Behind, EvidenceKept
<1>8. QED
  BY <1>6, <1>7 DEF Backed

(* What the gates find is what stands behind the request. *)
LEMMA SupportedBacked ==
    ASSUME RecordInv, NEW r \in DOMAIN requests, Supported(r)
    PROVE  Backed(r)
<1>1. /\ \E i \in Consulted(requests[r].review, reviews, ReviewsBrought) :
            reviews[i] = "approved"
      /\ \E j \in Consulted(requests[r].audit, audits, AuditsBrought) : audits[j]
  BY DEF Supported
<1>2. \E i \in Behind(r, requests[r].review, reviews, ReviewsBrought) : reviews[i] = "approved"
  BY <1>1 DEF Consulted, Behind, RecordInv, RecordsGiven
<1>3. \E j \in Behind(r, requests[r].audit, audits, AuditsBrought) : audits[j]
  BY <1>1 DEF Consulted, Behind, RecordInv, RecordsGiven
<1>4. QED
  BY <1>2, <1>3 DEF Backed

(* What is kept by a step that adds records, or writes what is no matter.  *)
LEMMA AddedKeeps ==
    ASSUME RecordInv, EvidenceKept,
           \A p \in DOMAIN plans : p \in DOMAIN plans' /\ plans'[p] = plans[p],
           \A r \in DOMAIN requests :
              /\ r \in DOMAIN requests'
              /\ requests'[r].review = requests[r].review
              /\ requests'[r].audit = requests[r].audit
              /\ requests'[r].text = requests[r].text
    PROVE  RecordsKept
  BY BackingKept DEF RecordInv, EvidenceKept, RecordsKept

(* Requests and plans are kept, and so is what was given to them. *)
LEMMA GivenKept ==
    ASSUME RecordInv, EvidenceKept, RecordsKept,
           Len(requests') \in Nat, Len(requests') >= Len(requests),
           Len(plans') \in Nat, Len(plans') >= Len(plans),
           \A r \in DOMAIN requests' :
              /\ requests'[r].review \in {0} \cup DOMAIN reviews'
              /\ requests'[r].audit \in {0} \cup DOMAIN audits'
              /\ r > RequestsBrought =>
                    \/ /\ r \in DOMAIN requests
                       /\ requests'[r].text = requests[r].text
                       /\ requests'[r].review = requests[r].review
                       /\ requests'[r].audit = requests[r].audit
                    \/ /\ requests'[r].text # NoHash
                       /\ requests'[r].review = 0 =>
                             \E i \in 1 .. ReviewsBrought : reviews[i] = "approved"
                       /\ requests'[r].audit = 0 => \E j \in 1 .. AuditsBrought : audits[j],
           \A p \in DOMAIN plans' :
              \/ p \in DOMAIN plans
              \/ /\ plans'[p].text # NoHash
                 /\ plans'[p].request \in DOMAIN requests /\ Backed(plans'[p].request)
    PROVE  RecordsNamed' /\ RecordsGiven'
<1>1. /\ RequestsBrought' = RequestsBrought /\ ReviewsBrought' = ReviewsBrought
      /\ AuditsBrought' = AuditsBrought /\ PlansBrought' = PlansBrought
  BY DEF EvidenceKept, RequestsBrought, ReviewsBrought, AuditsBrought, PlansBrought
<1>2. RecordsNamed'
  BY <1>1 DEF RecordInv, RecordsNamed, EvidenceKept
<1>3. ASSUME NEW r \in DOMAIN requests', r > RequestsBrought
      PROVE  /\ requests'[r].text # NoHash
             /\ requests'[r].review = 0 =>
                   \E i \in 1 .. ReviewsBrought : reviews'[i] = "approved"
             /\ requests'[r].audit = 0 => \E j \in 1 .. AuditsBrought : audits'[j]
  BY <1>3 DEF RecordInv, RecordsNamed, RecordsGiven, EvidenceKept
<1>4. ASSUME NEW p \in DOMAIN plans', p > PlansBrought
      PROVE  /\ plans'[p].text # NoHash
             /\ plans'[p].request \in DOMAIN requests'
             /\ Backed(plans[p].request)'
  <2>1. PICK q : q = plans'[p].request
    OBVIOUS
  <2>2. plans'[p].text # NoHash /\ q \in DOMAIN requests /\ Backed(q)
    BY <1>4, <2>1 DEF RecordInv, RecordsGiven, RecordsKept
  <2>3. q \in DOMAIN requests' /\ Backed(q)'
    BY <2>2 DEF RecordsKept
  <2>4. Backed(plans[p].request)'
    BY <2>1, <2>3 DEF Backed, Behind
  <2>5. QED
    BY <2>1, <2>2, <2>3, <2>4
<1>5. RecordsGiven'
  BY <1>1, <1>3, <1>4 DEF RecordsGiven
<1>6. QED
  BY <1>2, <1>5

(* A new record at the end of its list. *)
LEMMA Appended ==
    ASSUME NEW T, NEW seq \in Seq(T), NEW e \in T
    PROVE  /\ Append(seq, e) \in Seq(T)
           /\ DOMAIN Append(seq, e) = DOMAIN seq \cup {Len(seq) + 1}
           /\ \A i \in DOMAIN seq : Append(seq, e)[i] = seq[i]
           /\ Append(seq, e)[Len(seq) + 1] = e
  BY AppendProperties

(* A request with another status. *)
LEMMA Restated ==
    ASSUME requests \in Seq(Request), NEW r \in DOMAIN requests,
           NEW status \in {"pending", "cancelled", "superseded"},
           requests' = [requests EXCEPT ![r].status = status]
    PROVE  /\ requests' \in Seq(Request)
           /\ DOMAIN requests' = DOMAIN requests
           /\ requests'[r].status = status
           /\ \A q \in DOMAIN requests \ {r} : requests'[q] = requests[q]
           /\ \A q \in DOMAIN requests :
                 /\ requests'[q].review = requests[q].review
                 /\ requests'[q].audit = requests[q].audit
                 /\ requests'[q].text = requests[q].text
<1> DEFINE w == [requests[r] EXCEPT !.status = status]
<1>1. requests[r] \in Request /\ r \in 1 .. Len(requests)
  OBVIOUS
<1>2. w \in Request /\ w.review = requests[r].review /\ w.audit = requests[r].audit
         /\ w.text = requests[r].text /\ w.status = status
  BY <1>1 DEF Request
<1>3. requests' = [requests EXCEPT ![r] = w]
  OBVIOUS
<1> HIDE DEF w
<1>4. requests' \in Seq(Request) /\ DOMAIN requests' = DOMAIN requests
  BY <1>1, <1>2, <1>3, ExceptSeq
<1>5. requests'[r] = w /\ \A q \in DOMAIN requests \ {r} : requests'[q] = requests[q]
  BY <1>3
<1>6. QED
  BY <1>2, <1>4, <1>5

(* A step that leaves the requests and the plans alone. *)
LEMMA GivenUnchanged ==
    ASSUME RecordInv, EvidenceKept, UNCHANGED <<requests, plans>>
    PROVE  RecordsKept /\ RecordsNamed' /\ RecordsGiven'
<1>1. RecordsKept
  BY AddedKeeps
<1>2. Len(requests) \in Nat /\ Len(plans) \in Nat
  BY DEF RecordInv, RecordTypes
<1>3. \A r \in DOMAIN requests :
          /\ requests[r].review \in {0} \cup DOMAIN reviews'
          /\ requests[r].audit \in {0} \cup DOMAIN audits'
  BY DEF RecordInv, RecordsNamed, EvidenceKept
<1>4. QED
  BY <1>1, <1>2, <1>3, GivenKept

LEMMA RecordsUnchanged ==
    ASSUME RecordInv, UNCHANGED <<quarantine, recordVars, spent, unmarked, edits>>
    PROVE  RecordInv' /\ RecordsKept
<1>1. RecordsKept /\ RecordsNamed' /\ RecordsGiven'
  BY GivenUnchanged DEF recordVars, EvidenceKept
<1>2. QED
  BY <1>1
     DEF recordVars, RecordInv, RecordTypes, Quarantined, RecordsOfPackage, SpentMarked

(* The package comes before any record, and with its own. *)
LEMMA ImportRecords ==
    ASSUME RecordInv, NEW s \in Scope, Import(s)
    PROVE  RecordInv' /\ RecordsKept
<1>1. UNCHANGED <<spent, unmarked, edits>> /\ requests = <<>> /\ plans = <<>>
  BY DEF Import, RecordInv, RecordsOfPackage
<1>2. \/ /\ Bring /\ quarantine' \in Doc \cup {Partial}
         /\ Quarantined'
      \/ UNCHANGED <<quarantine, recordVars>>
  <2>1. ASSUME NEW risk \in Risk, NEW text \in Passing,
               quarantine' = [status |-> "quarantined", maturity |-> "draft",
                              risk |-> risk, text |-> text, scope |-> s,
                              plan |-> 0, request |-> 0]
        PROVE  quarantine' \in Doc /\ Quarantined'
    BY <2>1, StoreAssumption DEF Doc, Status, Maturity, Quarantined
  <2>2. ASSUME quarantine' = Partial
        PROVE  Quarantined'
    BY <2>2, UnreadableKinds DEF Quarantined
  <2>3. QED
    BY <2>1, <2>2 DEF Import
<1>3. spent = {} /\ unmarked = {}
  BY <1>1 DEF RecordInv, RecordTypes
<1>4. RecordsKept
  BY <1>1 DEF RecordsKept
<1>5. CASE UNCHANGED <<quarantine, recordVars>>
  BY <1>1, <1>5, RecordsUnchanged
<1>6. CASE Bring /\ quarantine' \in Doc \cup {Partial} /\ Quarantined'
  <2>1. PICK b \in Packages :
            reviews' = b.reviews /\ audits' = b.audits /\ requests' = b.requests
            /\ plans' = b.plans /\ brought' = b
    BY <1>6 DEF Bring
  <2>2. /\ b.reviews \in Seq({"approved", "refused"}) /\ b.audits \in Seq(BOOLEAN)
        /\ b.requests \in Seq(Request) /\ b.plans \in Seq(Plan)
        /\ \A r \in DOMAIN b.requests :
              /\ b.requests[r].review \in 0 .. Len(b.reviews)
              /\ b.requests[r].audit \in 0 .. Len(b.audits)
    BY QuarantineAssumption DEF Package
  <2>3. RecordTypes'
    BY <1>1, <1>3, <1>6, <2>1, <2>2 DEF RecordInv, RecordTypes
  <2>4. /\ ReviewsBrought' = Len(reviews') /\ AuditsBrought' = Len(audits')
        /\ RequestsBrought' = Len(requests') /\ PlansBrought' = Len(plans')
    BY <2>1 DEF ReviewsBrought, AuditsBrought, RequestsBrought, PlansBrought
  <2>5. RecordsNamed'
    BY <2>1, <2>2, <2>4 DEF RecordsNamed
  <2>6. RecordsGiven'
    BY <2>1, <2>2, <2>4 DEF RecordsGiven
  <2>7. RecordsOfPackage' /\ SpentMarked'
    BY <1>1, <1>3, <1>6, StoreAssumption DEF RecordsOfPackage, SpentMarked, Exists
  <2>8. QED
    BY <1>4, <1>6, <2>3, <2>5, <2>6, <2>7 DEF RecordInv
<1>7. QED
  BY <1>2, <1>5, <1>6

LEMMA EditRecords ==
    ASSUME RecordInv, Edit
    PROVE  RecordInv' /\ RecordsKept
<1>1. UNCHANGED <<recordVars, spent, unmarked>> /\ edits' \in Nat
  BY DEF Edit, RecordInv, RecordTypes
<1>2. quarantine \in Doc /\ Readable(quarantine)
  BY ReadableDoc DEF Edit, InQuarantine, RecordInv, RecordTypes
<1>3. PICK text \in Content : quarantine' = [quarantine EXCEPT !.text = text]
  BY DEF Edit
<1>4. quarantine' \in Doc /\ Quarantined' /\ Exists(quarantine)
  BY <1>2, <1>3, UnreadableKinds DEF Doc, RecordInv, Quarantined, Exists
<1>5. RecordsKept /\ RecordsNamed' /\ RecordsGiven'
  BY <1>1, GivenUnchanged DEF recordVars, EvidenceKept
<1>6. RecordsOfPackage'
  BY <1>4, StoreAssumption DEF RecordsOfPackage, Exists
<1>7. QED
  BY <1>1, <1>4, <1>5, <1>6 DEF recordVars, RecordInv, RecordTypes, SpentMarked

LEMMA AuditRecords ==
    ASSUME RecordInv, Audit
    PROVE  RecordInv' /\ RecordsKept
<1>1. UNCHANGED <<quarantine, reviews, requests, plans, brought, spent, unmarked, edits>>
  BY DEF Audit
<1>2. PICK supports \in BOOLEAN : audits' = Append(audits, supports)
  BY DEF Audit
<1>3. /\ audits' \in Seq(BOOLEAN)
      /\ \A i \in DOMAIN audits : i \in DOMAIN audits' /\ audits'[i] = audits[i]
  BY <1>2, Appended DEF RecordInv, RecordTypes
<1>4. RecordsKept /\ RecordsNamed' /\ RecordsGiven'
  BY <1>1, <1>3, GivenUnchanged DEF EvidenceKept
<1>5. QED
  BY <1>1, <1>3, <1>4
     DEF RecordInv, RecordTypes, Quarantined, RecordsOfPackage, SpentMarked

LEMMA ReviewRecords ==
    ASSUME RecordInv, Review
    PROVE  RecordInv' /\ RecordsKept
<1>1. UNCHANGED <<quarantine, audits, requests, plans, brought, spent, unmarked, edits>>
  BY DEF Review
<1>2. PICK decision \in {"approved", "refused"} : reviews' = Append(reviews, decision)
  BY DEF Review
<1>3. /\ reviews' \in Seq({"approved", "refused"})
      /\ \A i \in DOMAIN reviews : i \in DOMAIN reviews' /\ reviews'[i] = reviews[i]
  BY <1>2, Appended DEF RecordInv, RecordTypes
<1>4. RecordsKept /\ RecordsNamed' /\ RecordsGiven'
  BY <1>1, <1>3, GivenUnchanged DEF EvidenceKept
<1>5. QED
  BY <1>1, <1>3, <1>4
     DEF RecordInv, RecordTypes, Quarantined, RecordsOfPackage, SpentMarked

LEMMA RequestRecords ==
    ASSUME RecordInv, NEW s \in Scope, RequestTransition(s)
    PROVE  RecordInv' /\ RecordsKept
<1>1. /\ UNCHANGED <<quarantine, reviews, audits, plans, brought, spent, unmarked, edits>>
      /\ InQuarantine /\ EvidenceKept
  BY DEF RequestTransition, EvidenceKept
<1>2. PICK i \in Sources(reviews, ReviewsBrought, "approved"),
           j \in Sources(audits, AuditsBrought, TRUE) :
          requests' = Append(requests,
                [scope |-> s, review |-> i, audit |-> j,
                 text |-> quarantine.text, status |-> "pending"])
  BY DEF RequestTransition
<1> DEFINE e == [scope |-> s, review |-> i, audit |-> j,
                 text |-> quarantine.text, status |-> "pending"]
<1>3. /\ i \in {0} \cup DOMAIN reviews
      /\ i = 0 => \E k \in 1 .. ReviewsBrought : reviews[k] = "approved"
  BY DEF Sources, RecordInv, RecordTypes
<1>4. /\ j \in {0} \cup DOMAIN audits
      /\ j = 0 => \E k \in 1 .. AuditsBrought : audits[k]
  BY DEF Sources, RecordInv, RecordTypes
<1>5. quarantine.text \in Content
  BY <1>1, ReadableDoc DEF InQuarantine, RecordInv, RecordTypes
<1>6. e \in Request /\ e.review = i /\ e.audit = j /\ e.text # NoHash
  <2>1. i \in Nat /\ j \in Nat
    BY <1>3, <1>4 DEF RecordInv, RecordTypes
  <2>2. QED
    BY <1>5, <2>1, QuarantineAssumption DEF Request
<1> HIDE DEF e
<1>7. requests' = Append(requests, e)
  BY <1>2 DEF e
<1>8. /\ requests' \in Seq(Request)
      /\ DOMAIN requests' = DOMAIN requests \cup {Len(requests) + 1}
      /\ \A r \in DOMAIN requests : requests'[r] = requests[r]
      /\ requests'[Len(requests) + 1] = e
      /\ Len(requests') = Len(requests) + 1 /\ Len(requests) \in Nat /\ Len(plans) \in Nat
  BY <1>6, <1>7, Appended DEF RecordInv, RecordTypes
<1>9. RecordsKept
  BY <1>1, <1>8, AddedKeeps
<1>10. RecordsNamed' /\ RecordsGiven'
  <2>1. ASSUME NEW r \in DOMAIN requests'
        PROVE  /\ requests'[r].review \in {0} \cup DOMAIN reviews
               /\ requests'[r].audit \in {0} \cup DOMAIN audits
               /\ \/ r \in DOMAIN requests /\ requests'[r] = requests[r]
                  \/ /\ requests'[r].text # NoHash
                     /\ requests'[r].review = 0 =>
                           \E k \in 1 .. ReviewsBrought : reviews[k] = "approved"
                     /\ requests'[r].audit = 0 => \E k \in 1 .. AuditsBrought : audits[k]
    BY <1>3, <1>4, <1>6, <1>8 DEF RecordInv, RecordsNamed
  <2>2. QED
    BY <1>1, <1>8, <1>9, <2>1, GivenKept
<1>11. Exists(quarantine)
  BY <1>1 DEF InQuarantine, Readable, Exists
<1>12. QED
  BY <1>1, <1>8, <1>9, <1>10, <1>11
     DEF RecordInv, RecordTypes, Quarantined, RecordsOfPackage, SpentMarked, Exists

LEMMA CancelRecords ==
    ASSUME RecordInv, NEW r \in DOMAIN requests, CancelRequest(r)
    PROVE  RecordInv' /\ RecordsKept
<1>1. /\ UNCHANGED <<quarantine, reviews, audits, plans, brought, spent, unmarked, edits>>
      /\ EvidenceKept
  BY DEF CancelRequest, EvidenceKept
<1>2. /\ requests' \in Seq(Request)
      /\ DOMAIN requests' = DOMAIN requests
      /\ \A q \in DOMAIN requests \ {r} : requests'[q] = requests[q]
      /\ \A q \in DOMAIN requests :
            /\ requests'[q].review = requests[q].review
            /\ requests'[q].audit = requests[q].audit
            /\ requests'[q].text = requests[q].text
  BY Restated DEF CancelRequest, RecordInv, RecordTypes
<1>3. r \notin spent \ unmarked
  BY DEF CancelRequest, RecordInv, SpentMarked
<1>4. SpentMarked'
  BY <1>1, <1>2, <1>3 DEF RecordInv, RecordTypes, SpentMarked
<1>5. RecordsKept
  BY <1>1, <1>2, AddedKeeps
<1>6. Len(requests') = Len(requests) /\ Len(requests) \in Nat /\ Len(plans) \in Nat
  BY <1>2 DEF RecordInv, RecordTypes
<1>7. RecordsNamed' /\ RecordsGiven'
  BY <1>1, <1>2, <1>5, <1>6, GivenKept DEF RecordInv, RecordsNamed
<1>8. Exists(quarantine)
  BY DEF RecordInv, RecordsOfPackage
<1>9. QED
  BY <1>1, <1>2, <1>4, <1>5, <1>7, <1>8
     DEF RecordInv, RecordTypes, Quarantined, RecordsOfPackage, Exists

LEMMA PlanRecords ==
    ASSUME RecordInv, NEW r \in DOMAIN requests, NEW s \in Scope, PlanActivation(r, s)
    PROVE  RecordInv' /\ RecordsKept
<1>1. /\ UNCHANGED <<quarantine, reviews, audits, requests, brought, spent, unmarked, edits>>
      /\ InQuarantine /\ EvidenceKept
  BY DEF PlanActivation, EvidenceKept
<1> DEFINE e == [request |-> r, text |-> quarantine.text]
<1>2. e \in Plan /\ e.request = r /\ e.text # NoHash
  <2>1. quarantine.text \in Content
    BY <1>1, ReadableDoc DEF InQuarantine, RecordInv, RecordTypes
  <2>2. r \in Nat
    BY DEF RecordInv, RecordTypes
  <2>3. QED
    BY <2>1, <2>2, QuarantineAssumption DEF Plan
<1>3. plans' = Append(plans, e)
  BY DEF PlanActivation
<1> HIDE DEF e
<1>4. /\ plans' \in Seq(Plan)
      /\ DOMAIN plans' = DOMAIN plans \cup {Len(plans) + 1}
      /\ \A p \in DOMAIN plans : plans'[p] = plans[p]
      /\ plans'[Len(plans) + 1] = e
      /\ Len(plans') = Len(plans) + 1 /\ Len(requests) \in Nat /\ Len(plans) \in Nat
  BY <1>2, <1>3, Appended DEF RecordInv, RecordTypes
<1>5. Backed(r)
  BY SupportedBacked DEF PlanActivation
<1>6. RecordsKept
  BY <1>1, <1>4, AddedKeeps
<1>7. RecordsNamed' /\ RecordsGiven'
  <2>1. ASSUME NEW p \in DOMAIN plans'
        PROVE  \/ p \in DOMAIN plans
               \/ /\ plans'[p].text # NoHash
                  /\ plans'[p].request \in DOMAIN requests /\ Backed(plans'[p].request)
    BY <1>2, <1>4, <1>5
  <2>2. QED
    BY <1>1, <1>4, <1>6, <2>1, GivenKept DEF RecordInv, RecordsNamed
<1>8. Exists(quarantine)
  BY <1>1 DEF InQuarantine, Readable, Exists
<1>9. QED
  BY <1>1, <1>4, <1>6, <1>7, <1>8
     DEF RecordInv, RecordTypes, Quarantined, RecordsOfPackage, SpentMarked, Exists

(* The request that is marked, in the file its id stands for. *)
LEMMA Marked ==
    ASSUME RecordInv, EvidenceKept, UNCHANGED plans,
           NEW r \in DOMAIN requests, Backed(r), NEW q \in FiledAs(r),
           requests' = [k \in DOMAIN requests |->
                IF k = q THEN [requests[r] EXCEPT !.status = "superseded"] ELSE requests[k]]
    PROVE  /\ requests' \in Seq(Request) /\ DOMAIN requests' = DOMAIN requests
           /\ \A k \in DOMAIN requests :
                 requests'[k].status = IF k = q THEN "superseded" ELSE requests[k].status
           /\ RecordsKept /\ RecordsNamed' /\ RecordsGiven'
<1> DEFINE w == [requests[r] EXCEPT !.status = "superseded"]
<1>1. requests \in Seq(Request) /\ requests[r] \in Request /\ r \in Nat
  BY DEF RecordInv, RecordTypes
<1>2. w \in Request /\ w.review = requests[r].review /\ w.audit = requests[r].audit
         /\ w.text = requests[r].text /\ w.status = "superseded"
  BY <1>1 DEF Request
<1>3. requests' = [k \in DOMAIN requests |-> IF k = q THEN w ELSE requests[k]]
  OBVIOUS
<1> HIDE DEF w
<1>4. /\ DOMAIN requests' = DOMAIN requests
      /\ \A k \in DOMAIN requests : requests'[k] = IF k = q THEN w ELSE requests[k]
  BY <1>3
<1>5. requests' \in Seq(Request) /\ Len(requests') = Len(requests)
      /\ Len(requests) \in Nat /\ Len(plans) \in Nat
  <2>1. /\ DOMAIN requests' = 1 .. Len(requests) /\ Len(requests) \in Nat
        /\ \A k \in 1 .. Len(requests) : requests'[k] \in Request
    BY <1>1, <1>2, <1>4
  <2>2. requests' \in [1 .. Len(requests) -> Request]
    BY <1>3, <2>1
  <2>3. requests' \in Seq(Request)
    BY <2>1, <2>2, SeqDef
  <2>4. Len(requests') \in Nat /\ 1 .. Len(requests') = 1 .. Len(requests)
    BY <2>1, <2>3, LenProperties
  <2>5. \A m, n \in Nat : 1 .. m = 1 .. n => m = n
    <3> SUFFICES ASSUME NEW m \in Nat, NEW n \in Nat, 1 .. m = 1 .. n
                 PROVE  m = n
      OBVIOUS
    <3>1. (m > 0 => m \in 1 .. n) /\ (n > 0 => n \in 1 .. m)
      OBVIOUS
    <3>2. QED
      BY <3>1
  <2>6. Len(requests) \in Nat /\ Len(plans) \in Nat
    BY DEF RecordInv, RecordTypes
  <2>7. QED
    BY <2>3, <2>4, <2>5, <2>6
<1>6. ASSUME NEW k \in DOMAIN requests, k > RequestsBrought
      PROVE  requests'[k].text = requests[k].text /\ requests'[k].review = requests[k].review
             /\ requests'[k].audit = requests[k].audit
  BY <1>1, <1>2, <1>4, <1>6 DEF FiledAs, RecordInv, RecordsNamed
<1>7. ASSUME NEW k \in DOMAIN requests, Backed(k)
      PROVE  Backed(k)'
  <2>1. CASE k = q
    <3>1. k > RequestsBrought <=> r > RequestsBrought
      BY <1>1, <2>1 DEF FiledAs, RecordInv, RecordsNamed
    <3>2. QED
      BY <1>2, <1>4, <2>1, <3>1, BackingKept DEF RecordInv
  <2>2. CASE k # q
    BY <1>4, <1>7, <2>2, BackingKept DEF RecordInv
  <2>3. QED
    BY <2>1, <2>2
<1>8. RecordsKept
  BY <1>4, <1>6, <1>7 DEF RecordsKept, EvidenceKept
<1>9. ASSUME NEW k \in DOMAIN requests
      PROVE  /\ requests'[k].review \in {0} \cup DOMAIN reviews'
             /\ requests'[k].audit \in {0} \cup DOMAIN audits'
  BY <1>2, <1>4 DEF RecordInv, RecordsNamed, EvidenceKept
<1>10. RecordsNamed' /\ RecordsGiven'
  BY <1>4, <1>5, <1>6, <1>8, <1>9, GivenKept
<1>11. QED
  BY <1>2, <1>4, <1>5, <1>8, <1>10

LEMMA ApplyRecords ==
    ASSUME RecordInv, NEW s \in Scope,
           NEW p \in DOMAIN plans, NEW r \in DOMAIN requests, Apply(p, r, s)
    PROVE  RecordInv' /\ RecordsKept
<1>1. /\ UNCHANGED <<quarantine, reviews, audits, plans, brought, edits>>
      /\ spent' = spent \cup {r}
      /\ Cleared(p, r, s) /\ EvidenceKept
  BY DEF Apply, EvidenceKept
<1>2. Exists(quarantine)
  BY <1>1 DEF Cleared, InQuarantine, Readable, Exists
<1>3. ASSUME NEW q \in FiledAs(r),
             requests' = [k \in DOMAIN requests |->
                IF k = q THEN [requests[r] EXCEPT !.status = "superseded"] ELSE requests[k]],
             unmarked' = IF q = r THEN unmarked ELSE unmarked \cup {r}
      PROVE  RecordInv' /\ RecordsKept
  <2>1. Backed(r)
    BY <1>1, SupportedBacked DEF Cleared
  <2>2. /\ requests' \in Seq(Request) /\ DOMAIN requests' = DOMAIN requests
        /\ \A k \in DOMAIN requests :
              requests'[k].status = IF k = q THEN "superseded" ELSE requests[k].status
        /\ RecordsKept /\ RecordsNamed' /\ RecordsGiven'
    BY <1>1, <1>3, <2>1, Marked
  <2>3. SpentMarked'
    BY <1>1, <1>3, <2>2 DEF RecordInv, RecordTypes, SpentMarked
  <2>4. RecordTypes' /\ Quarantined'
    BY <1>1, <1>3, <2>2 DEF RecordInv, RecordTypes, Quarantined
  <2>5. QED
    BY <1>1, <1>2, <2>2, <2>3, <2>4 DEF RecordInv, RecordsOfPackage, Exists
<1>4. ASSUME UNCHANGED requests, unmarked' = unmarked \cup {r}
      PROVE  RecordInv' /\ RecordsKept
  <2>1. RecordsKept /\ RecordsNamed' /\ RecordsGiven'
    BY <1>1, <1>4, GivenUnchanged
  <2>2. QED
    BY <1>1, <1>4, <2>1
       DEF RecordInv, RecordTypes, Quarantined, RecordsOfPackage, SpentMarked
<1>5. QED
  BY <1>3, <1>4 DEF Apply, Mark

LEMMA NextRecords ==
    ASSUME RecordInv, [Next]_vars
    PROVE  RecordInv' /\ RecordsKept
<1>1. ASSUME Store \/ UNCHANGED vars
      PROVE  RecordInv' /\ RecordsKept
  BY <1>1, RecordsUnchanged DEF Store, vars, quarantineVars
<1>2. ASSUME PlanNothing
      PROVE  RecordInv' /\ RecordsKept
  <2>1. RecordsKept /\ RecordsNamed' /\ RecordsGiven'
    BY <1>2, GivenUnchanged DEF PlanNothing, recordVars, EvidenceKept
  <2>2. requests = <<>> /\ plans = <<>>
    BY <1>2 DEF PlanNothing, RecordInv, RecordsOfPackage
  <2>3. QED
    BY <1>2, <2>1, <2>2, UnreadableKinds
       DEF PlanNothing, recordVars, RecordInv, RecordTypes, Quarantined, RecordsOfPackage,
           SpentMarked
<1>3. ASSUME NEW r, NEW s, NEW p, ApplyRolledBack(p, r, s) \/ ApplyTorn(p, r, s)
      PROVE  RecordInv' /\ RecordsKept
  BY <1>3, RecordsUnchanged DEF ApplyRolledBack, ApplyTorn, quarantineVars
<1>4. QED
  BY <1>1, <1>2, <1>3, ImportRecords, EditRecords, AuditRecords, ReviewRecords,
     RequestRecords, CancelRecords, PlanRecords, ApplyRecords DEF Next, Quarantine

-----------------------------------------------------------------------------
(* What stands behind an activated copy, from one step to the next.        *)
Vouched(d) ==
    d.request # 0 =>
        /\ d.text \in Passing
        /\ d.request \in DOMAIN requests /\ Backed(d.request)
        /\ d.request > RequestsBrought => requests[d.request].text = d.text
        /\ d.plan \in DOMAIN plans
        /\ d.plan > PlansBrought =>
              /\ plans[d.plan].text = d.text
              /\ plans[d.plan].request \in DOMAIN requests
              /\ Backed(plans[d.plan].request)

LEMMA VouchedCopies == ActivationBacked <=> \A s \in Scope : Readable(live[s]) => Vouched(live[s])
  BY DEF ActivationBacked, Vouched

(* A copy made of another by writing its status or its maturity. *)
CopyOf(e, d) == e.request = d.request /\ e.plan = d.plan /\ e.text = d.text

LEMMA VouchedKept ==
    ASSUME RecordInv, RecordsKept, NEW d, NEW e, Vouched(d), CopyOf(e, d)
    PROVE  Vouched(e)'
<1> SUFFICES ASSUME d.request # 0
             PROVE  Vouched(e)'
  BY DEF Vouched, CopyOf
<1>1. /\ RequestsBrought' = RequestsBrought /\ PlansBrought' = PlansBrought
      /\ d.request \in DOMAIN requests' /\ d.plan \in DOMAIN plans'
      /\ d.request > RequestsBrought => requests'[d.request].text = d.text
      /\ plans'[d.plan] = plans[d.plan]
  BY DEF Vouched, RecordsKept, RequestsBrought, PlansBrought
<1>2. PICK r : r = d.request
  OBVIOUS
<1>3. Backed(r)'
  BY <1>2 DEF Vouched, RecordsKept
<1>4. PICK q : q = plans[d.plan].request
  OBVIOUS
<1>5. d.plan > PlansBrought => q \in DOMAIN requests' /\ Backed(q)'
  BY <1>4 DEF Vouched, RecordsKept
<1>6. PICK a : a = e.request
  OBVIOUS
<1>7. a = r
  BY <1>2, <1>6 DEF CopyOf
<1>8. QED
  BY <1>1, <1>2, <1>3, <1>4, <1>5, <1>6, <1>7 DEF Vouched, CopyOf

(* Only an application makes a copy that is no copy of what was there. *)
LEMMA OldCopies ==
    ASSUME CapInv, [Next]_vars, NEW s \in Scope, Readable(live[s])',
           ~\E p \in DOMAIN plans, r \in DOMAIN requests : Apply(p, r, s)
    PROVE  live'[s].request = 0 \/ (Readable(live[s]) /\ CopyOf(live'[s], live[s]))
<1> DEFINE Old == live'[s].request = 0 \/ (Readable(live[s]) /\ CopyOf(live'[s], live[s]))
<1>1. live \in [Scope -> Doc \cup {Nothing, Partial}] /\ Readable(live'[s])
  BY DEF CapInv, StoreInv, StoreTypes, Readable
<1>2. ASSUME live'[s] = live[s]
      PROVE  Old
  BY <1>1, <1>2 DEF CopyOf
<1>3. ASSUME NEW t \in Scope, CreateDraft(t)
      PROVE  Old
  <2>1. CASE live' = [live EXCEPT ![t] = Partial]
    BY <1>1, <1>2, <2>1, UnreadableKinds
  <2>2. CASE \E risk \in Risk, text \in Content :
                live' = [live EXCEPT ![t] =
                           [status |-> "active", maturity |-> "draft", risk |-> risk,
                            text |-> text, scope |-> t, plan |-> 0, request |-> 0]]
    <3>1. PICK risk \in Risk, text \in Content :
                live' = [live EXCEPT ![t] =
                           [status |-> "active", maturity |-> "draft", risk |-> risk,
                            text |-> text, scope |-> t, plan |-> 0, request |-> 0]]
      BY <2>2
    <3>2. t = s => live'[s].request = 0
      BY <1>1, <3>1
    <3>3. QED
      BY <1>1, <1>2, <3>1, <3>2
  <2>3. QED
    BY <1>3, <2>1, <2>2 DEF CreateDraft
<1>4. ASSUME NEW t \in Scope, Promote(t)
      PROVE  Old
  <2>1. live[t] \in Doc
    BY <1>4, StoredDoc DEF Promote, CapInv
  <2>2. PICK to \in Maturity : live' = [live EXCEPT ![t] = [live[t] EXCEPT !.maturity = to]]
    BY <1>4 DEF Promote
  <2>3. CopyOf([live[t] EXCEPT !.maturity = to], live[t])
    BY <2>1 DEF Doc, CopyOf
  <2>4. QED
    BY <1>1, <1>2, <1>4, <2>2, <2>3 DEF Promote
<1>5. ASSUME NEW t \in Scope, Disable(t) \/ Archive(t)
      PROVE  Old
  <2>1. live[t] \in Doc
    BY <1>5, StoredDoc DEF Disable, Archive, CapInv
  <2>2. \/ live' = [live EXCEPT ![t] = Nothing]
        \/ \E status \in Status : live' = [live EXCEPT ![t] = [live[t] EXCEPT !.status = status]]
    BY <1>5 DEF Disable, Archive, Status
  <2>3. \A status \in Status : CopyOf([live[t] EXCEPT !.status = status], live[t])
    BY <2>1 DEF Doc, CopyOf
  <2>4. QED
    BY <1>1, <1>2, <1>5, <2>2, <2>3, UnreadableKinds DEF Disable, Archive
<1>6. ASSUME NEW t \in Scope, Retire(t)
      PROVE  Old
  BY <1>5, <1>6, StoredDoc DEF Retire, CapInv
<1>7. ASSUME NEW t \in Scope, NEW p, NEW r, ApplyTorn(p, r, t)
      PROVE  Old
  <2>1. quarantine \in Doc /\ quarantine.request = 0
    BY <1>7, ReadableDoc
       DEF ApplyTorn, Cleared, InQuarantine, CapInv, RecordInv, RecordTypes, Quarantined
  <2>2. PICK d \in TornCopies : live' = [live EXCEPT ![t] = d]
    BY <1>7 DEF ApplyTorn
  <2>3. d = Partial \/ d.request = 0
    BY <2>1 DEF TornCopies, Doc
  <2>4. QED
    BY <1>1, <1>2, <2>2, <2>3, UnreadableKinds
<1>8. ASSUME NEW t \in Scope, NEW p \in DOMAIN plans, NEW r \in DOMAIN requests, Apply(p, r, t)
      PROVE  Old
  BY <1>1, <1>2, <1>8 DEF Apply
<1>9. ASSUME UNCHANGED live
      PROVE  Old
  BY <1>2, <1>9
<1>10. ASSUME Quarantine
       PROVE  Old
  BY <1>7, <1>8, <1>9, <1>10
     DEF Quarantine, Import, Edit, Audit, Review, RequestTransition, CancelRequest,
         PlanActivation, PlanNothing, ApplyRolledBack, storeVars
<1>11. QED
  BY <1>3, <1>4, <1>6, <1>9, <1>10 DEF Next, Store, vars, storeVars

LEMMA NextBacked ==
    ASSUME CapInv, [Next]_vars, RecordsKept
    PROVE  ActivationBacked'
<1> SUFFICES ASSUME NEW s \in Scope, Readable(live[s])'
             PROVE  Vouched(live[s])'
  BY DEF ActivationBacked, Vouched
<1>1. CASE \E p \in DOMAIN plans, r \in DOMAIN requests : Apply(p, r, s)
  <2>1. PICK p \in DOMAIN plans, r \in DOMAIN requests : Apply(p, r, s)
    BY <1>1
  <2>2. PICK d : d = NormalisedFor(p, r, s)
    OBVIOUS
  <2>3. Cleared(p, r, s) /\ live'[s] = d
    BY <2>1, <2>2 DEF Apply, CapInv, StoreInv, StoreTypes
  <2>4. d.text = quarantine.text /\ d.text \in Passing /\ d.plan = p /\ d.request = r
    BY <2>2, <2>3, NormalisedDoc DEF CapInv
  <2>5. Vouched(d)
    <3>1. Backed(r)
      BY <2>3, SupportedBacked DEF Cleared, CapInv
    <3>2. r > RequestsBrought => requests[r].text = quarantine.text
      BY <2>3 DEF Cleared, Supported, IsPresent, CapInv, RecordInv, RecordsGiven
    <3>3. p > PlansBrought =>
              /\ plans[p].text = quarantine.text
              /\ plans[p].request \in DOMAIN requests
              /\ Backed(plans[p].request)
      BY <2>3 DEF Cleared, IsPresent, CapInv, RecordInv, RecordsGiven
    <3>4. QED
      BY <2>4, <3>1, <3>2, <3>3 DEF Vouched
  <2>6. Vouched(d)'
    BY <2>5, VouchedKept DEF CapInv, CopyOf
  <2>7. QED
    BY <2>3, <2>6 DEF Vouched
<1>2. CASE ~\E p \in DOMAIN plans, r \in DOMAIN requests : Apply(p, r, s)
  <2>1. CASE live'[s].request = 0
    BY <2>1 DEF Vouched
  <2>2. CASE Readable(live[s]) /\ CopyOf(live'[s], live[s])
    <3>1. PICK d : d = live[s]
      OBVIOUS
    <3>2. PICK e : e = live'[s]
      OBVIOUS
    <3>3. Vouched(d) /\ CopyOf(e, d)
      BY <2>2, <3>1, <3>2, VouchedCopies DEF CapInv
    <3>4. Vouched(e)'
      BY <3>3, VouchedKept DEF CapInv
    <3>5. QED
      BY <3>2, <3>4 DEF Vouched
  <2>3. QED
    BY <1>2, <2>1, <2>2, OldCopies
<1>3. QED
  BY <1>1, <1>2

-----------------------------------------------------------------------------
(* The theorems.                                                           *)

LEMMA NextKeeps ==
    ASSUME CapInv, [Next]_vars
    PROVE  CapInv'
<1>1. RecordInv' /\ RecordsKept
  BY NextRecords DEF CapInv
<1>2. StoreInv'
  BY StoreKeeps, QuarantineStore, StoreUnchanged DEF CapInv, Next, vars, quarantineVars
<1>3. ActivationBacked'
  BY <1>1, NextBacked
<1>4. QED
  BY <1>1, <1>2, <1>3 DEF CapInv

LEMMA CapInvariant == Spec => []CapInv
<1>1. CapInv /\ [Next]_vars => CapInv'
  BY NextKeeps
<1>2. QED
  BY <1>1, InitKeeps, PTL DEF Spec

(* Type correctness; and a copy is in the scope its manifest names. *)
THEOREM CapabilityTypes == Spec => []CapabilityTypeOK
<1>1. CapInv => CapabilityTypeOK
  BY DEF CapInv, StoreInv, StoreTypes, RecordInv, RecordTypes, CapabilityTypeOK
<1>2. QED
  BY <1>1, CapInvariant, PTL

(* What came out of quarantine is backed by the records it was activated by, *)
(* for as long as it is there.                                               *)
THEOREM ActivationsAreBacked == Spec => []ActivationBacked
<1>1. CapInv => ActivationBacked
  BY DEF CapInv
<1>2. QED
  BY <1>1, CapInvariant, PTL

(* The index finds exactly the active copies, faults apart. *)
THEOREM IndexFollowsStore == Spec => []IndexAgrees
<1>1. CapInv => IndexAgrees
  BY DEF CapInv, StoreInv
<1>2. QED
  BY <1>1, CapInvariant, PTL

(* No copy is past the maturity its content and its approvals earned. *)
THEOREM PromotionIsEarned == Spec => []PromotionEarned
<1>1. CapInv => PromotionEarned
  BY DEF CapInv, StoreInv
<1>2. QED
  BY <1>1, CapInvariant, PTL

(* One activation for each request, and none is cancelled after it. *)
THEOREM RequestIsSpentOnce == Spec => RequestSpentOnce
<1> DEFINE Once ==
        /\ \A s \in Scope :
              ~Exists(live[s]) /\ Readable(live'[s]) /\ live'[s].request # 0 =>
                  live'[s].request \notin spent \ unmarked
        /\ \A r \in DOMAIN requests :
              requests[r].status = "pending" /\ requests'[r].status = "cancelled" =>
                  r \notin spent \ unmarked
<1>1. ASSUME CapInv, [Next]_vars
      PROVE  Once
  <2>1. ASSUME NEW s \in Scope, ~Exists(live[s]), Readable(live'[s]), live'[s].request # 0
        PROVE  live'[s].request \notin spent \ unmarked
    <3>1. PICK p \in DOMAIN plans, r \in DOMAIN requests : Apply(p, r, s)
      BY <1>1, <2>1, OldCopies DEF Exists, Readable
    <3>2. Cleared(p, r, s) /\ live' = [live EXCEPT ![s] = NormalisedFor(p, r, s)]
      BY <3>1 DEF Apply
    <3>3. live'[s].request = r
      BY <1>1, <3>2, NormalisedDoc DEF CapInv, StoreInv, StoreTypes
    <3>4. QED
      BY <1>1, <3>2, <3>3 DEF Cleared, Supported, CapInv, RecordInv, SpentMarked
  <2>2. ASSUME NEW r \in DOMAIN requests, requests[r].status = "pending"
        PROVE  r \notin spent \ unmarked
    BY <1>1, <2>2 DEF CapInv, RecordInv, SpentMarked
  <2>3. QED
    BY <2>1, <2>2
<1>2. CapInv /\ [Next]_vars => [Once]_vars
  BY <1>1
<1>3. QED
  BY <1>2, CapInvariant, PTL DEF Spec, RequestSpentOnce

=============================================================================
