---------------------------- MODULE ToolLoopProofs ----------------------------
(***************************************************************************)
(* The tool loop, for any set of signatures, budgets and thresholds: its   *)
(* types, the bound on answers without tool calls, that every call that    *)
(* was handled has its result in the next request and in its place there,  *)
(* and that a burst of failures is told.                                   *)
(***************************************************************************)
EXTENDS ToolLoop, FiniteSetTheorems, SequenceTheorems, TLAPS

-----------------------------------------------------------------------------
(* The circuit breaker keeps its types. *)

LEMMA CooldownsPositive ==
    /\ Len(Cooldowns) \in Nat /\ Len(Cooldowns) >= 2
    /\ Longest \in Nat
  BY CooldownsAssumption DEF Longest

LEMMA FailureTyped ==
    ASSUME BreakerTypeOK, NEW s \in Signature, RecordFailure(s)
    PROVE  BreakerTypeOK'
<1> DEFINE n == Smaller(failures[s] + 1, Len(Cooldowns))
<1>1. n \in 0..Len(Cooldowns) /\ 0 \in 0..Longest
  BY CooldownsPositive DEF BreakerTypeOK, Smaller
<1>2. failures' = [failures EXCEPT ![s] = n] /\ since' = [since EXCEPT ![s] = 0]
  BY DEF RecordFailure
<1>3. notified' \subseteq Signature
  BY DEF RecordFailure, BreakerTypeOK
<1> HIDE DEF n
<1>4. QED
  BY <1>1, <1>2, <1>3 DEF BreakerTypeOK

LEMMA SuccessTyped ==
    ASSUME BreakerTypeOK, NEW s \in Signature, RecordSuccess(s)
    PROVE  BreakerTypeOK'
  BY CooldownsPositive DEF BreakerTypeOK, RecordSuccess

LEMMA RecordTyped ==
    ASSUME BreakerTypeOK, NEW s \in Signature, NEW refused, NEW ok,
           Record(s, refused, ok)
    PROVE  BreakerTypeOK'
<1>1. CASE UNCHANGED breakerVars
  BY <1>1 DEF BreakerTypeOK, breakerVars
<1>2. QED
  BY <1>1, FailureTyped, SuccessTyped DEF Record

LEMMA ElapseTyped == BreakerTypeOK /\ Elapse => BreakerTypeOK'
<1> SUFFICES ASSUME BreakerTypeOK, Elapse PROVE BreakerTypeOK'
  OBVIOUS
<1>1. \A s \in Signature : Smaller(since[s] + 1, Longest) \in 0..Longest
  BY CooldownsPositive DEF BreakerTypeOK, Smaller
<1>2. QED
  BY <1>1 DEF Elapse, BreakerTypeOK

-----------------------------------------------------------------------------
(* Sequences of messages. *)

LEMMA TurnTyped ==
    ASSUME NEW calls \in Turns
    PROVE  calls \in Seq(Signature) /\ calls # <<>> /\ Len(calls) \in 1..MaxCalls
<1> PICK n \in 1..MaxCalls : calls \in [1..n -> Signature]
  BY DEF Turns
<1>1. n \in Nat /\ MaxCalls \in Nat
  BY LoopAssumption
<1>2. calls \in Seq(Signature) /\ Len(calls) = n
  BY <1>1
<1>3. QED
  BY <1>1, <1>2

LEMMA MsgTyped ==
    /\ \A k \in Kind : Msg(k) \in Message
    /\ \A n \in 1..MaxCalls : Calls(n) \in Message
  BY DEF Msg, Calls, Message

LEMMA ResultsTyped ==
    ASSUME NEW n \in Nat
    PROVE  Results(n) \in Seq(Message) /\ Len(Results(n)) = n
<1>1. Msg("result") \in Message
  BY MsgTyped DEF Kind
<1>2. QED
  BY <1>1 DEF Results

(* The places of the tool results in a sequence of messages. *)
Tellings(m) == {i \in DOMAIN m : m[i].kind \in Told}

LEMMA TellingsFinite ==
    ASSUME NEW m \in Seq(Message)
    PROVE  IsFiniteSet(Tellings(m)) /\ Cardinality(Tellings(m)) \in Nat
<1>1. IsFiniteSet(1..Len(m)) /\ Tellings(m) \subseteq 1..Len(m)
  BY FS_Interval DEF Tellings
<1>2. QED
  BY <1>1, FS_Subset, FS_CardinalityType

(* A message that is no result adds none ... *)
LEMMA OtherMessage ==
    ASSUME NEW m \in Seq(Message), NEW x \in Message, x.kind \notin Told
    PROVE  Tellings(Append(m, x)) = Tellings(m)
  BY DEF Tellings

(* ... n results add n. *)
LEMMA AddedResults ==
    ASSUME NEW m \in Seq(Message), NEW n \in Nat
    PROVE  Cardinality(Tellings(m \o Results(n))) = Cardinality(Tellings(m)) + n
<1> DEFINE more == (Len(m) + 1)..(Len(m) + n)
<1>1. Results(n) \in Seq(Message) /\ Len(Results(n)) = n
  BY ResultsTyped
<1>2. \A i \in 1..n : Results(n)[i].kind \in Told
  BY DEF Results, Msg, Told
<1>3. Len(m \o Results(n)) = Len(m) + n
  BY <1>1
<1>4. \A i \in 1..Len(m) : (m \o Results(n))[i] = m[i]
  BY <1>1
<1>5. \A i \in more : (m \o Results(n))[i].kind \in Told
  <2> TAKE i \in more
  <2>1. i - Len(m) \in 1..n /\ (m \o Results(n))[i] = Results(n)[i - Len(m)]
    BY <1>1
  <2>2. QED
    BY <2>1, <1>2
<1>6. DOMAIN (m \o Results(n)) = 1..(Len(m) + n) /\ DOMAIN m = 1..Len(m)
  BY <1>1, <1>3
<1>7. Tellings(m \o Results(n)) = Tellings(m) \cup more
  BY <1>4, <1>5, <1>6 DEF Tellings
<1>8. Tellings(m) \cap more = {}
  BY <1>6 DEF Tellings
<1>9. IsFiniteSet(more) /\ Cardinality(more) = n
  BY FS_Interval
<1> HIDE DEF more
<1>10. Cardinality(Tellings(m) \cup more)
          = Cardinality(Tellings(m)) + Cardinality(more)
              - Cardinality(Tellings(m) \cap more)
  BY <1>9, TellingsFinite, FS_Union
<1>11. Cardinality(Tellings(m) \cap more) = 0
  BY <1>8, FS_EmptySet
<1>12. QED
  BY <1>7, <1>9, <1>10, <1>11, TellingsFinite

(* Compaction changes no message into or out of a result. *)
LEMMA CompactedTyped ==
    ASSUME LoopTypeOK
    PROVE  Compacted \in Seq(Message) /\ Tellings(Compacted) = Tellings(messages)
<1>1. messages \in Seq(Message) /\ Msg("cleared") \in Message
  BY MsgTyped DEF LoopTypeOK, Kind
<1>2. /\ DOMAIN Compacted = DOMAIN messages
      /\ \A i \in DOMAIN messages :
            \/ Compacted[i] = messages[i]
            \/ Compacted[i] = Msg("cleared") /\ messages[i].kind \in {"result", "cleared"}
  BY DEF Compacted
<1>3. DOMAIN messages = 1..Len(messages) /\ Len(messages) \in Nat
  BY <1>1
<1>4. Compacted \in [1..Len(messages) -> Message]
  <2>1. Compacted = [i \in 1..Len(messages) |-> Compacted[i]]
    BY <1>3 DEF Compacted
  <2>2. \A i \in 1..Len(messages) : Compacted[i] \in Message
    BY <1>1, <1>2, <1>3
  <2>3. QED
    BY <2>1, <2>2
<1>5. Compacted \in Seq(Message)
  BY <1>3, <1>4
<1>6. \A i \in DOMAIN messages :
        Compacted[i].kind \in Told <=> messages[i].kind \in Told
  BY <1>2 DEF Msg, Told
<1>7. Tellings(Compacted) = Tellings(messages)
  BY <1>2, <1>6 DEF Tellings
<1>8. QED
  BY <1>5, <1>7

(* What a handled call adds to the messages: when the turn is over, the    *)
(* results it collected, else none of them.                                *)
LEMMA BurstTyped ==
    ASSUME LoopTypeOK
    PROVE  /\ BurstMessages \in Seq(Message)
           /\ Cardinality(Tellings(BurstMessages))
                 = Cardinality(Tellings(messages)) + got + 1
<1> DEFINE m == messages \o Results(got + 1)
<1>1. /\ messages \in Seq(Message) /\ got + 1 \in Nat
      /\ Msg("warning") \in Message /\ Msg("warning").kind \notin Told
  BY MsgTyped DEF LoopTypeOK, Kind, Told, Msg
<1>2. m \in Seq(Message)
  BY <1>1, ResultsTyped
<1>3. Cardinality(Tellings(m)) = Cardinality(Tellings(messages)) + (got + 1)
  BY <1>1, AddedResults
<1> HIDE DEF m
<1>4. m \o <<Msg("warning")>> = Append(m, Msg("warning"))
  BY <1>1, <1>2
<1>5. BurstMessages = Append(m, Msg("warning"))
  BY <1>4 DEF BurstMessages, m
<1>6. Append(m, Msg("warning")) \in Seq(Message)
  BY <1>1, <1>2
<1>7. Tellings(BurstMessages) = Tellings(m)
  BY <1>1, <1>2, <1>5, OtherMessage
<1>8. Cardinality(Tellings(messages)) \in Nat /\ got \in Nat
  BY <1>1, TellingsFinite DEF LoopTypeOK
<1>9. QED
  BY <1>3, <1>5, <1>6, <1>7, <1>8

LEMMA TurnMessagesTyped ==
    ASSUME LoopTypeOK, NEW background \in BOOLEAN
    PROVE  /\ TurnMessages(background) \in Seq(Message)
           /\ Cardinality(Tellings(TurnMessages(background)))
                 = Cardinality(Tellings(messages))
                     + (IF Len(turn) = 1 THEN got + 1 ELSE 0)
<1> DEFINE m == messages \o (IF background THEN <<Msg("reminder")>> ELSE <<>>)
<1>1. /\ messages \in Seq(Message) /\ got + 1 \in Nat
      /\ Msg("reminder") \in Message /\ Msg("reminder").kind \notin Told
  BY MsgTyped DEF LoopTypeOK, Kind, Told, Msg
<1>2. m \in Seq(Message) /\ Tellings(m) = Tellings(messages)
  <2>1. CASE background
    <3>1. m = Append(messages, Msg("reminder"))
      BY <1>1, <2>1
    <3> HIDE DEF m
    <3>2. m \in Seq(Message)
      BY <1>1, <3>1
    <3>3. QED
      BY <1>1, <3>1, <3>2, OtherMessage
  <2>2. CASE ~background
    <3>1. m = messages
      BY <1>1, <2>2
    <3>2. QED
      BY <1>1, <3>1
  <2>3. QED
    BY <2>1, <2>2
<1> HIDE DEF m
<1>3. CASE Len(turn) = 1
  <2>1. TurnMessages(background) = m \o Results(got + 1)
    BY <1>3 DEF TurnMessages, m
  <2>2. Results(got + 1) \in Seq(Message)
    BY <1>1, ResultsTyped
  <2>3. Cardinality(Tellings(m \o Results(got + 1)))
          = Cardinality(Tellings(m)) + (got + 1)
    BY <1>1, <1>2, AddedResults
  <2>4. QED
    BY <1>2, <1>3, <2>1, <2>2, <2>3
<1>4. CASE Len(turn) # 1
  <2>1. TurnMessages(background) = m
    BY <1>2, <1>4 DEF TurnMessages, m
  <2>2. Cardinality(Tellings(messages)) \in Nat
    BY <1>1, TellingsFinite
  <2>3. QED
    BY <1>2, <1>4, <2>1, <2>2
<1>5. QED
  BY <1>3, <1>4

-----------------------------------------------------------------------------
(* Types. *)

LEMMA Numbers ==
    /\ MaxCalls \in Nat /\ MaxCalls > 0 /\ HistorySize \in Nat /\ HistorySize > 0
    /\ MaxCompacts \in Nat /\ MaxEmpties \in Nat /\ MaxOutages \in Nat
    /\ \A s \in Surface : /\ Budget[s] \in Nat /\ Budget[s] > 0
                         /\ Rounds[s] \in Nat /\ Rounds[s] > 0
  BY LoopAssumption

(* The recoveries used so far. *)
Most(kind) == CASE kind = "compacts" -> MaxCompacts [] kind = "empties" -> MaxEmpties
                [] kind = "outages" -> MaxOutages [] kind = "hints" -> 1
Recoveries == {"compacts", "empties", "outages", "hints"}

LEMMA RecoveryFields ==
    ASSUME NEW r \in Recovery
    PROVE  /\ \A k \in Recoveries : r[k] \in Nat /\ r[k] <= Most(k)
           /\ r.empties \in Nat /\ r.hints \in Nat
           /\ r.empties <= MaxEmpties /\ r.hints <= 1
  BY Numbers DEF Recovery, Recoveries, Most

LEMMA RecoveryUsed ==
    ASSUME NEW r \in Recovery, NEW k \in Recoveries, r[k] < Most(k)
    PROVE  [r EXCEPT ![k] = @ + 1] \in Recovery
<1>1. CASE k = "compacts"
  BY <1>1, Numbers DEF Recovery, Most
<1>2. CASE k = "empties"
  BY <1>2, Numbers DEF Recovery, Most
<1>3. CASE k = "outages"
  BY <1>3, Numbers DEF Recovery, Most
<1>4. CASE k = "hints"
  BY <1>4, Numbers DEF Recovery, Most
<1>5. QED
  BY <1>1, <1>2, <1>3, <1>4 DEF Recoveries

LEMMA RecoveryCleared ==
    ASSUME NEW r \in Recovery
    PROVE  [r EXCEPT !.outages = 0] \in Recovery
  BY Numbers DEF Recovery

LEMMA FreshTyped == Fresh \in Recovery
  BY Numbers DEF Fresh, Recovery

(* Starting and ending an iteration. *)
LEMMA BeginTyped ==
    ASSUME LoopTypeOK, NEW s \in Surface, NEW w \in BOOLEAN, Begin(s, w)
    PROVE  LoopTypeOK'
<1>1. BreakerTypeOK'
  BY DEF Begin, LoopTypeOK, BreakerTypeOK, breakerVars
<1>2. /\ history' \in Seq(Signature) /\ Len(history') <= HistorySize
      /\ messages' \in Seq(Message) /\ ran' \in Seq(Outcome) /\ counted' \in Seq(Signature)
  BY Numbers DEF Begin
<1>3. /\ surface' \in Surface /\ round' \in 0..Rounds[surface']
      /\ budget' \in 0..Budget[surface'] /\ budget' > 0
  BY Numbers DEF Begin
<1>4. turn = <<>> /\ got = 0
  BY DEF Begin, LoopTypeOK
<1>5. QED
  BY <1>1, <1>2, <1>3, <1>4, FreshTyped DEF Begin, LoopTypeOK

LEMMA ChatTyped == LoopTypeOK /\ Chat => LoopTypeOK'
  BY DEF Chat, LoopTypeOK, BreakerTypeOK, breakerVars

(* What the actions that end an iteration leave alone. *)
LEMMA EndTyped ==
    ASSUME LoopTypeOK, NEW r \in {"text", "fallback", "failure", "silent",
                                  "stopped", "raised", "cancelled"},
           EndWith(r), BreakerTypeOK',
           UNCHANGED <<surface, writing, errors, acted, history,
                       last, messages, ran, counted>>,
           round' \in 0..Rounds[surface], budget' \in 0..Budget[surface],
           spent' \in Recovery, quiet' \in Nat
    PROVE  LoopTypeOK'
<1>1. turn' = <<>> /\ turn' \in Seq(Signature) /\ got' \in Nat
      /\ got' = 0 /\ got' + Len(turn') <= MaxCalls
  BY Numbers DEF EndWith
<1>2. QED
  BY <1>1 DEF EndWith, LoopTypeOK

LEMMA StoppedTyped ==
    LoopTypeOK /\ (Cancel \/ RoundsSpent \/ Stop) => LoopTypeOK'
<1> SUFFICES ASSUME LoopTypeOK, Cancel \/ RoundsSpent \/ Stop
             PROVE  LoopTypeOK'
  OBVIOUS
<1>1. BreakerTypeOK'
  BY DEF Cancel, RoundsSpent, Stop, LoopTypeOK, BreakerTypeOK, breakerVars
<1>2. /\ round' \in 0..Rounds[surface] /\ budget' \in 0..Budget[surface]
      /\ spent' \in Recovery /\ quiet' \in Nat
      /\ UNCHANGED <<surface, writing, errors, acted, history,
                     last, messages, ran, counted>>
  BY DEF Cancel, RoundsSpent, Stop, LoopTypeOK
<1>3. PICK r \in {"fallback", "failure", "stopped", "cancelled"} : EndWith(r)
  BY DEF Cancel, RoundsSpent, Stop
<1>4. QED
  BY <1>1, <1>2, <1>3, EndTyped

(* Asking the model. *)
LEMMA AsksTyped ==
    ASSUME LoopTypeOK, Asks
    PROVE  /\ round' \in 0..Rounds[surface] /\ BreakerTypeOK'
           /\ UNCHANGED <<surface, writing>> /\ phase = "ask"
           /\ turn = <<>> /\ got = 0 /\ budget > 0
<1>1. Rounds[surface] \in Nat
  BY Numbers DEF LoopTypeOK
<1>2. BreakerTypeOK'
  BY DEF Asks, LoopTypeOK, BreakerTypeOK, breakerVars
<1>3. QED
  BY <1>1, <1>2 DEF Asks, LoopTypeOK

LEMMA RecoverTyped ==
    ASSUME LoopTypeOK, Asks, NEW kind \in {"compacts", "outages"},
           NEW msgs \in Seq(Message), Recover(kind, Most(kind), msgs)
    PROVE  LoopTypeOK'
<1>1. spent \in Recovery
  BY DEF LoopTypeOK
<1>2. CASE spent[kind] < Most(kind)
  <2>1. spent' \in Recovery
    BY <1>1, <1>2, RecoveryUsed DEF Recover, Recoveries
  <2>2. QED
    BY <1>2, <2>1, AsksTyped DEF Recover, LoopTypeOK
<1>3. CASE ~(spent[kind] < Most(kind))
  <2>1. /\ EndWith("raised")
        /\ UNCHANGED <<spent, messages, budget, errors, acted, history, last,
                       ran, counted, quiet>>
    BY <1>3 DEF Recover
  <2>2. budget \in 0..Budget[surface] /\ quiet \in Nat
    BY DEF LoopTypeOK
  <2>3. QED
    BY <1>1, <2>1, <2>2, AsksTyped, EndTyped
<1>4. QED
  BY <1>2, <1>3

LEMMA FailedRequestTyped ==
    LoopTypeOK /\ (Outage \/ PromptTooLong \/ RequestFails) => LoopTypeOK'
<1> SUFFICES ASSUME LoopTypeOK, Outage \/ PromptTooLong \/ RequestFails
             PROVE  LoopTypeOK'
  OBVIOUS
<1>1. CASE Outage
  <2>1. Asks /\ Recover("outages", Most("outages"), messages)
    BY <1>1 DEF Outage, Most
  <2>2. QED
    BY <2>1, RecoverTyped DEF LoopTypeOK
<1>2. CASE PromptTooLong
  <2>1. Asks /\ Recover("compacts", Most("compacts"), Compacted)
    BY <1>2 DEF PromptTooLong, Most
  <2>2. QED
    BY <2>1, RecoverTyped, CompactedTyped
<1>3. CASE RequestFails
  <2>1. /\ Asks /\ EndWith("raised")
        /\ UNCHANGED <<spent, messages, budget, errors, acted, history, last,
                       ran, counted, quiet>>
    BY <1>3 DEF RequestFails
  <2>2. budget \in 0..Budget[surface] /\ quiet \in Nat /\ spent \in Recovery
    BY DEF LoopTypeOK
  <2>3. QED
    BY <2>1, <2>2, AsksTyped, EndTyped
<1>4. QED
  BY <1>1, <1>2, <1>3

LEMMA PromptedTyped ==
    ASSUME LoopTypeOK, NEW kind \in {"empties", "hints"},
           NEW msg \in {"continue", "hint"}, Prompted(kind, Most(kind), msg)
    PROVE  /\ LoopTypeOK'
           /\ spent'.empties + spent'.hints = spent.empties + spent.hints + 1
           /\ Tellings(messages') = Tellings(messages)
<1>1. Msg(msg) \in Message /\ Msg(msg).kind \notin Told
  BY MsgTyped DEF Kind, Msg, Told
<1>2. messages' \in Seq(Message) /\ messages' = Append(messages, Msg(msg))
  <2>1. messages \in Seq(Message)
    BY DEF LoopTypeOK
  <2>2. messages' = Append(messages, Msg(msg))
    BY DEF Prompted
  <2>3. QED
    BY <1>1, <2>1, <2>2
<1>3. spent \in Recovery /\ spent[kind] < Most(kind) /\ messages \in Seq(Message)
  BY DEF LoopTypeOK, Prompted
<1> DEFINE used == [spent EXCEPT ![kind] = @ + 1]
<1>4. used \in Recovery
  BY <1>3, RecoveryUsed DEF Recoveries
<1>5. spent' = [used EXCEPT !.outages = 0]
  BY <1>3 DEF Prompted, Recovery
<1>6. spent' \in Recovery
  BY <1>4, <1>5, RecoveryCleared
<1>7. used.empties + used.hints = spent.empties + spent.hints + 1
  BY <1>3, RecoveryFields DEF Recovery
<1>8. spent'.empties = used.empties /\ spent'.hints = used.hints
  BY <1>4, <1>5 DEF Recovery
<1>9. LoopTypeOK'
  <2>1. /\ Asks /\ quiet' = quiet + 1
        /\ UNCHANGED <<phase, budget, errors, acted, history, turn, got, last,
                       reply, ran, counted>>
    BY DEF Prompted
  <2> HIDE DEF used
  <2>2. QED
    BY <1>2, <1>6, <2>1, AsksTyped DEF LoopTypeOK
<1>10. QED
  BY <1>1, <1>2, <1>3, <1>7, <1>8, <1>9, OtherMessage

LEMMA PromptedCase ==
    EmptyAnswer \/ SimulatedCall =>
        \E kind \in {"empties", "hints"}, msg \in {"continue", "hint"} :
            Prompted(kind, Most(kind), msg)
  BY DEF EmptyAnswer, SimulatedCall, Most

LEMMA AnswerTyped ==
    ASSUME LoopTypeOK, NEW text \in BOOLEAN, Answer(text)
    PROVE  LoopTypeOK'
<1>1. Asks
  BY DEF Answer
<1>2. spent' \in Recovery
  BY RecoveryCleared DEF Answer, LoopTypeOK
<1>3. budget' \in 0..Budget[surface] /\ quiet' \in Nat
  <2>1. budget \in 1..Budget[surface] /\ quiet \in Nat /\ Budget[surface] \in Nat
    <3>1. budget > 0
      BY <1>1, AsksTyped
    <3>2. budget \in 0..Budget[surface] /\ quiet \in Nat /\ surface \in Surface
      BY DEF LoopTypeOK
    <3>3. Budget[surface] \in Nat
      BY <3>2, Numbers
    <3>4. QED
      BY <3>1, <3>2, <3>3
  <2>2. budget' = (IF acted THEN budget - 1 ELSE budget) /\ quiet' = quiet + 1
    BY DEF Answer, Answered
  <2>3. QED
    BY <2>1, <2>2
<1>4. UNCHANGED <<errors, acted, history, last, messages, ran, counted>>
  BY DEF Answer
<1>5. CASE acted /\ budget' > 0
  <2>1. UNCHANGED <<phase, reply, turn, got>>
    BY <1>5 DEF Answer
  <2>2. QED
    BY <1>1, <1>2, <1>3, <1>4, <1>5, <2>1, AsksTyped DEF LoopTypeOK
<1>6. CASE ~(acted /\ budget' > 0)
  <2>1. PICK r \in {"text", "fallback", "failure", "silent"} : EndWith(r)
    BY <1>6 DEF Answer, FinalReply
  <2>2. QED
    BY <1>1, <1>2, <1>3, <1>4, <2>1, AsksTyped, EndTyped
<1>7. QED
  BY <1>5, <1>6

LEMMA CallToolsTyped ==
    ASSUME LoopTypeOK, NEW calls \in Turns, CallTools(calls)
    PROVE  LoopTypeOK' /\ Tellings(messages') = Tellings(messages)
<1>1. Asks
  BY DEF CallTools
<1>2. /\ calls \in Seq(Signature) /\ calls # <<>>
      /\ Len(calls) \in 1..MaxCalls
  BY TurnTyped
<1>3. /\ Calls(Len(calls)) \in Message /\ Calls(Len(calls)).kind \notin Told
      /\ messages \in Seq(Message)
  BY <1>2, MsgTyped DEF Calls, Told, LoopTypeOK
<1>4. messages' = Append(messages, Calls(Len(calls))) /\ messages' \in Seq(Message)
  BY <1>3 DEF CallTools
<1>5. spent' \in Recovery
  BY RecoveryCleared DEF CallTools, LoopTypeOK
<1>6. budget' \in 0..Budget[surface'] /\ budget' > 0
  <2>1. surface' = surface /\ budget' = Budget[surface] /\ surface \in Surface
    BY <1>1, AsksTyped DEF CallTools, LoopTypeOK
  <2>2. QED
    BY <2>1, Numbers
<1>7. turn' = calls /\ got' = 0 /\ got' + Len(turn') <= MaxCalls
  BY <1>1, <1>2, AsksTyped, Numbers DEF CallTools
<1>8. LoopTypeOK'
  BY <1>1, <1>2, <1>4, <1>5, <1>6, <1>7, AsksTyped DEF CallTools, LoopTypeOK
<1>9. QED
  BY <1>3, <1>4, <1>8, OtherMessage

(* Running one call. *)
LEMMA RememberedTyped ==
    ASSUME LoopTypeOK, NEW s \in Signature
    PROVE  Remembered(s) \in Seq(Signature) /\ Len(Remembered(s)) <= HistorySize
<1> DEFINE h == Append(history, s)
<1>1. h \in Seq(Signature) /\ Len(h) = Len(history) + 1 /\ HistorySize \in Nat
  BY Numbers DEF LoopTypeOK
<1>2. Len(history) \in Nat /\ Len(history) <= HistorySize
  BY DEF LoopTypeOK
<1> HIDE DEF h
<1>3. h # <<>>
  BY <1>1, <1>2
<1>4. Tail(h) \in Seq(Signature) /\ Len(Tail(h)) = Len(h) - 1
  BY <1>1, <1>3
<1>5. Remembered(s) = IF Len(h) > HistorySize THEN Tail(h) ELSE h
  BY DEF Remembered, h
<1>6. QED
  BY <1>1, <1>2, <1>4, <1>5

LEMMA HandleTyped ==
    ASSUME LoopTypeOK, NEW ok \in BOOLEAN, Handle(ok)
    PROVE  LoopTypeOK'
<1> DEFINE s == Head(turn)
           background == ok /\ s \in Delegate
           burst == ~ok /\ Trips
<1>1. /\ turn \in Seq(Signature) /\ turn # <<>> /\ s \in Signature
      /\ Tail(turn) \in Seq(Signature) /\ Len(Tail(turn)) = Len(turn) - 1
      /\ Len(turn) \in Nat /\ Len(turn) > 0
  <2>1. turn \in Seq(Signature) /\ turn # <<>>
    BY DEF Handle, LoopTypeOK
  <2>2. QED
    BY <2>1
<1>2. BreakerTypeOK'
  BY <1>1, RecordTyped DEF Handle, LoopTypeOK
<1>3. errors' \in Nat
  BY DEF Handle, LoopTypeOK
<1>4. ran' \in Seq(Outcome) /\ counted' \in Seq(Signature)
  <2>1. ran' \in Seq(Outcome)
    BY DEF Handle, LoopTypeOK, Outcome
  <2>2. counted' = counted \/ counted' = Append(counted, s)
    BY DEF Handle
  <2>3. counted \in Seq(Signature)
    BY DEF LoopTypeOK
  <2>4. s \in Signature
    BY <1>1
  <2> HIDE DEF s
  <2>5. QED
    BY <2>1, <2>2, <2>3, <2>4
<1>5. messages' \in Seq(Message)
  BY BurstTyped, TurnMessagesTyped DEF Handle
<1>6. /\ turn' = <<>> \/ turn' = Tail(turn)
      /\ turn' = <<>> => phase' = "ask" /\ got' = 0
      /\ turn' # <<>> => phase' = "tools" /\ got' = got + 1
  BY DEF Handle
<1>7. /\ history' \in Seq(Signature) /\ Len(history') <= HistorySize
      /\ last' \in {"none", "ok", "failed", "background"}
  BY <1>1, RememberedTyped DEF Handle, LoopTypeOK
<1>8. MaxCalls \in Nat /\ phase = "tools"
  BY Numbers DEF Handle
<1>9. /\ UNCHANGED <<surface, writing, round, budget, spent, reply, quiet, acted>>
  BY DEF Handle
<1> HIDE DEF s, background, burst
<1>10. turn' \in Seq(Signature) /\ got' \in Nat /\ got' + Len(turn') <= MaxCalls
  <2>1. got \in Nat /\ got + Len(turn) <= MaxCalls
    BY DEF LoopTypeOK
  <2>2. CASE turn' = <<>>
    BY <1>6, <1>8, <2>2
  <2>3. CASE turn' # <<>>
    <3>1. turn' = Tail(turn) /\ got' = got + 1
      BY <1>6, <2>3
    <3>2. turn' \in Seq(Signature) /\ Len(turn') = Len(turn) - 1
      BY <1>1, <3>1
    <3>3. QED
      BY <1>1, <1>8, <2>1, <3>1, <3>2
  <2>4. QED
    BY <2>2, <2>3
<1>11. QED
  BY <1>2, <1>3, <1>4, <1>5, <1>6, <1>7, <1>8, <1>9, <1>10 DEF LoopTypeOK

LEMMA InitTyped == Init => LoopTypeOK
<1> SUFFICES ASSUME Init PROVE LoopTypeOK
  OBVIOUS
<1>1. BreakerTypeOK
  BY CooldownsPositive DEF Init, BreakerInit, BreakerTypeOK
<1>2. /\ history \in Seq(Signature) /\ Len(history) <= HistorySize
      /\ turn = <<>> /\ turn \in Seq(Signature) /\ got = 0
      /\ got + Len(turn) <= MaxCalls /\ messages \in Seq(Message)
      /\ ran \in Seq(Outcome) /\ counted \in Seq(Signature)
  BY Numbers DEF Init
<1>3. round \in 0..Rounds[surface] /\ budget \in 0..Budget[surface]
  BY Numbers DEF Init
<1>4. /\ phase = "idle" /\ surface \in Surface /\ writing = FALSE /\ errors = 0
      /\ spent \in Recovery /\ acted = FALSE /\ last = "none"
      /\ reply = "none" /\ quiet = 0
  BY FreshTyped DEF Init
<1>5. QED
  BY <1>1, <1>2, <1>3, <1>4 DEF LoopTypeOK

LEMMA NextTyped == LoopTypeOK /\ [Next]_vars => LoopTypeOK'
<1> SUFFICES ASSUME LoopTypeOK, [Next]_vars PROVE LoopTypeOK'
  OBVIOUS
<1>1. CASE UNCHANGED vars
  BY <1>1 DEF vars, loopVars, breakerVars, LoopTypeOK, BreakerTypeOK
<1>2. ASSUME Elapse, UNCHANGED loopVars PROVE LoopTypeOK'
  <2>1. BreakerTypeOK'
    BY <1>2, ElapseTyped DEF LoopTypeOK
  <2>2. QED
    BY <1>2, <2>1 DEF loopVars, LoopTypeOK
<1>3. CASE Ask
  BY <1>3, FailedRequestTyped, PromptedCase, PromptedTyped, AnswerTyped, CallToolsTyped DEF Ask
<1>4. CASE Work
  BY <1>4, StoppedTyped, HandleTyped DEF Work
<1>5. QED
  BY <1>1, <1>2, <1>3, <1>4, BeginTyped, ChatTyped, StoppedTyped DEF Next

(* LoopTypeOK holds in every state: what the last turn collected never     *)
(* leaks into the next one, however the iteration ended.                   *)
THEOREM LoopTypes == Spec => []LoopTypeOK
  BY InitTyped, NextTyped, PTL DEF Spec

-----------------------------------------------------------------------------
(* Answers without tool calls.  Each one that does not end the iteration   *)
(* uses up one unit of the budget or one recovery; an answer with tool     *)
(* calls restores the budget and starts the count again.                   *)
IdleInv ==
    phase # "idle" =>
        quiet <= spent.empties + spent.hints + (Budget[surface] - budget)

LEMMA NextIdleInv == LoopTypeOK /\ IdleInv /\ [Next]_vars => IdleInv'
<1> SUFFICES ASSUME LoopTypeOK, IdleInv, [Next]_vars PROVE IdleInv'
  OBVIOUS
<1>1. /\ budget \in Nat /\ Budget[surface] \in Nat /\ quiet \in Nat
      /\ budget <= Budget[surface] /\ spent \in Recovery
      /\ spent.empties \in Nat /\ spent.hints \in Nat
  BY Numbers, RecoveryFields DEF LoopTypeOK
<1>2. CASE UNCHANGED loopVars
  BY <1>2 DEF loopVars, IdleInv
<1>3. ASSUME NEW s \in Surface, NEW w \in BOOLEAN, Begin(s, w) PROVE IdleInv'
  <2>1. quiet' = 0 /\ budget' = Budget[surface'] /\ spent'.empties = 0 /\ spent'.hints = 0
    BY <1>3 DEF Begin, Fresh
  <2>2. Budget[surface'] \in Nat
    BY <1>3, Numbers DEF Begin
  <2>3. QED
    BY <2>1, <2>2 DEF IdleInv
<1>4. CASE Chat \/ Cancel \/ RoundsSpent \/ Stop \/ RequestFails
  BY <1>4 DEF Chat, Cancel, RoundsSpent, Stop, RequestFails, EndWith, LoopTypeOK, IdleInv
<1>5. CASE Outage \/ PromptTooLong
  <2>1. PICK kind, max, msgs :
           kind \in {"outages", "compacts"} /\ Recover(kind, max, msgs)
    BY <1>5 DEF Outage, PromptTooLong
  <2>2. Asks /\ phase = "ask" /\ surface' = surface
    BY <1>5, AsksTyped DEF Outage, PromptTooLong
  <2>3. spent'.empties = spent.empties /\ spent'.hints = spent.hints
    BY <1>1, <2>1 DEF Recover, Recovery
  <2>4. budget' = budget /\ quiet' = quiet
    BY <2>1 DEF Recover
  <2>5. QED
    BY <2>2, <2>3, <2>4 DEF IdleInv
<1>6. CASE EmptyAnswer \/ SimulatedCall
  <2>1. PICK kind \in {"empties", "hints"}, msg \in {"continue", "hint"} :
           Prompted(kind, Most(kind), msg)
    BY <1>6, PromptedCase
  <2>2. spent'.empties + spent'.hints = spent.empties + spent.hints + 1
    BY <2>1, PromptedTyped
  <2>3. Asks /\ phase = "ask" /\ surface' = surface
    BY <2>1, AsksTyped DEF Prompted
  <2>4. budget' = budget /\ quiet' = quiet + 1
    BY <2>1 DEF Prompted
  <2>5. QED
    BY <1>1, <2>2, <2>3, <2>4 DEF IdleInv
<1>7. ASSUME NEW text \in BOOLEAN, Answer(text) PROVE IdleInv'
  <2>1. Asks /\ phase = "ask" /\ surface' = surface
    BY <1>7, AsksTyped DEF Answer
  <2>2. spent'.empties = spent.empties /\ spent'.hints = spent.hints
    BY <1>1, <1>7 DEF Answer, Recovery
  <2>3. quiet' = quiet + 1 /\ budget' = (IF acted THEN budget - 1 ELSE budget)
    BY <1>7 DEF Answer, Answered
  <2>4. phase' = "idle" \/ acted
    BY <1>7 DEF Answer, EndWith
  <2>5. CASE phase' = "idle"
    BY <2>5 DEF IdleInv
  <2>6. CASE acted
    BY <1>1, <2>1, <2>2, <2>3, <2>6 DEF IdleInv
  <2>7. QED
    BY <2>4, <2>5, <2>6
<1>8. ASSUME NEW calls \in Turns, CallTools(calls) PROVE IdleInv'
  <2>1. quiet' = 0 /\ budget' = Budget[surface] /\ surface' = surface
    BY <1>8, AsksTyped DEF CallTools
  <2>2. spent'.empties = spent.empties /\ spent'.hints = spent.hints
    BY <1>1, <1>8 DEF CallTools, Recovery
  <2>3. QED
    BY <1>1, <2>1, <2>2 DEF IdleInv
<1>9. ASSUME NEW ok \in BOOLEAN, Handle(ok) PROVE IdleInv'
  BY <1>9 DEF Handle, IdleInv
<1>10. QED
  BY <1>2, <1>3, <1>4, <1>5, <1>6, <1>7, <1>8, <1>9
     DEF Next, Ask, Work, vars

(* IdleAnswersBounded: the model is not asked for ever by a model that     *)
(* does not act.                                                           *)
THEOREM IdleAnswers == Spec => []IdleAnswersBounded
<1>1. Init => IdleInv
  BY DEF Init, IdleInv
<1>2. LoopTypeOK /\ IdleInv => IdleAnswersBounded
  <2> SUFFICES ASSUME LoopTypeOK, IdleInv, phase = "ask"
               PROVE  quiet < Budget[surface] + MaxEmpties + 1
    BY DEF IdleInv, IdleAnswersBounded
  <2>1. /\ budget \in Nat /\ budget > 0 /\ Budget[surface] \in Nat /\ quiet \in Nat
        /\ spent.empties \in Nat /\ spent.hints \in Nat /\ MaxEmpties \in Nat
        /\ spent.empties <= MaxEmpties /\ spent.hints <= 1
    BY Numbers, RecoveryFields DEF LoopTypeOK
  <2>2. QED
    BY <2>1 DEF IdleInv
<1>3. QED
  BY <1>1, <1>2, LoopTypes, NextIdleInv, PTL DEF Spec

-----------------------------------------------------------------------------
(* Results.  While a turn is being run, the calls it has handled are in    *)
(* got and not yet in the messages.                                        *)
ToldInv ==
    phase # "idle" => Cardinality(Tellings(messages)) + got = Len(ran)

LEMMA NextToldInv == LoopTypeOK /\ ToldInv /\ [Next]_vars => ToldInv'
<1> SUFFICES ASSUME LoopTypeOK, ToldInv, [Next]_vars PROVE ToldInv'
  OBVIOUS
<1>1. /\ got \in Nat /\ Cardinality(Tellings(messages)) \in Nat
      /\ ran \in Seq(Outcome) /\ Len(ran) \in Nat
  BY TellingsFinite DEF LoopTypeOK
<1>2. CASE UNCHANGED loopVars
  BY <1>2 DEF loopVars, ToldInv, Tellings
<1>3. ASSUME NEW s \in Surface, NEW w \in BOOLEAN, Begin(s, w) PROVE ToldInv'
  <2>1. messages' = <<>> /\ ran' = <<>> /\ got' = 0
    BY <1>3 DEF Begin, LoopTypeOK
  <2>2. Tellings(messages') = {}
    BY <2>1 DEF Tellings
  <2>3. Cardinality(Tellings(messages')) = 0
    BY <2>2, FS_EmptySet
  <2>4. QED
    BY <2>1, <2>3 DEF ToldInv
<1>4. CASE Chat \/ Cancel \/ RoundsSpent \/ Stop \/ RequestFails
  BY <1>4 DEF Chat, Cancel, RoundsSpent, Stop, RequestFails, EndWith, LoopTypeOK, ToldInv
<1>5. CASE Outage \/ PromptTooLong
  <2>1. PICK kind \in {"outages", "compacts"}, max \in {MaxOutages, MaxCompacts},
             msgs \in {messages, Compacted} : Recover(kind, max, msgs)
    <3>1. Recover("outages", MaxOutages, messages)
            \/ Recover("compacts", MaxCompacts, Compacted)
      BY <1>5 DEF Outage, PromptTooLong
    <3>2. QED
      BY <3>1
  <2>2. phase = "ask" /\ got = 0
    BY <1>5, AsksTyped DEF Outage, PromptTooLong
  <2>3. Tellings(messages') = Tellings(messages)
    BY <2>1, CompactedTyped DEF Recover
  <2>4. ran' = ran /\ got' = 0
    BY <2>1, <2>2 DEF Recover, EndWith
  <2>5. QED
    BY <2>2, <2>3, <2>4 DEF ToldInv
<1>6. CASE EmptyAnswer \/ SimulatedCall
  <2>1. PICK kind \in {"empties", "hints"}, msg \in {"continue", "hint"} :
           Prompted(kind, Most(kind), msg)
    BY <1>6, PromptedCase
  <2>2. Tellings(messages') = Tellings(messages)
    BY <2>1, PromptedTyped
  <2>3. phase = "ask" /\ ran' = ran /\ got' = got
    BY <2>1, AsksTyped DEF Prompted
  <2>4. QED
    BY <2>2, <2>3 DEF ToldInv
<1>7. ASSUME NEW text \in BOOLEAN, Answer(text) PROVE ToldInv'
  <2>1. phase = "ask" /\ got = 0 /\ messages' = messages /\ ran' = ran
    BY <1>7, AsksTyped DEF Answer
  <2>2. got' = 0
    BY <1>7, <2>1 DEF Answer, EndWith
  <2>3. QED
    BY <2>1, <2>2 DEF ToldInv, Tellings
<1>8. ASSUME NEW calls \in Turns, CallTools(calls) PROVE ToldInv'
  <2>1. Tellings(messages') = Tellings(messages)
    BY <1>8, CallToolsTyped
  <2>2. phase = "ask" /\ ran' = ran /\ got' = got
    BY <1>8, AsksTyped DEF CallTools
  <2>3. QED
    BY <2>1, <2>2 DEF ToldInv
<1>9. ASSUME NEW ok \in BOOLEAN, Handle(ok) PROVE ToldInv'
  <2>1. phase = "tools" /\ Len(ran') = Len(ran) + 1
    BY <1>1, <1>9 DEF Handle
  <2> DEFINE rest == Tail(turn)
  <2>2. Len(turn) = 1 <=> rest = <<>>
    <3>1. turn \in Seq(Signature) /\ turn # <<>>
      BY <2>1 DEF LoopTypeOK
    <3>2. rest \in Seq(Signature) /\ Len(rest) = Len(turn) - 1 /\ Len(turn) \in Nat
      BY <3>1
    <3> HIDE DEF rest
    <3>3. rest = <<>> <=> Len(rest) = 0
      BY <3>2, EmptySeq
    <3>4. QED
      BY <3>2, <3>3
  <2>3. CASE ~ok /\ Trips
    <3>1. messages' = BurstMessages /\ got' = 0
      BY <1>9, <2>3 DEF Handle
    <3>2. QED
      BY <1>1, <2>1, <3>1, BurstTyped DEF ToldInv
  <2>4. CASE ~(~ok /\ Trips)
    <3> DEFINE background == ok /\ Head(turn) \in Delegate
    <3>1. /\ messages' = TurnMessages(background) /\ turn' = Tail(turn)
          /\ got' = IF turn' = <<>> THEN 0 ELSE got + 1
      BY <1>9, <2>4 DEF Handle
    <3>2. background \in BOOLEAN
      OBVIOUS
    <3> HIDE DEF background
    <3>3. Cardinality(Tellings(messages'))
            = Cardinality(Tellings(messages)) + (IF Len(turn) = 1 THEN got + 1 ELSE 0)
      BY <3>1, <3>2, TurnMessagesTyped
    <3>4. QED
      BY <1>1, <2>1, <2>2, <3>1, <3>3 DEF ToldInv
  <2>5. QED
    BY <2>3, <2>4
<1>10. QED
  BY <1>2, <1>3, <1>4, <1>5, <1>6, <1>7, <1>8, <1>9
     DEF Next, Ask, Work, vars

(* EveryResultIsTold: every call that was run or refused has its result in *)
(* the next request, however its turn ended and whatever was compacted.    *)
THEOREM ResultsAreTold == Spec => []EveryResultIsTold
<1>1. Init => ToldInv
  BY DEF Init, ToldInv
<1>2. LoopTypeOK /\ ToldInv => EveryResultIsTold
  <2> SUFFICES ASSUME LoopTypeOK, ToldInv, phase = "ask"
               PROVE  Count(Told) = Len(ran)
    BY DEF EveryResultIsTold
  <2>1. got = 0 /\ Cardinality(Tellings(messages)) \in Nat
    BY TellingsFinite DEF LoopTypeOK
  <2>2. Count(Told) = Cardinality(Tellings(messages))
    BY DEF Count, Tellings
  <2>3. QED
    BY <2>1, <2>2 DEF ToldInv
<1>3. QED
  BY <1>1, <1>2, LoopTypes, NextToldInv, PTL DEF Spec

-----------------------------------------------------------------------------
(* Bursts.  The error count never falls behind the failures in a row: it   *)
(* goes down by one for a success, and a success starts the row again.  So *)
(* the call that makes the row long enough finds the threshold reached,    *)
(* whatever the earlier calls have left in the count.                      *)
FailedLast(k) == \A i \in (Len(ran) - k + 1)..Len(ran) : ran[i] # "ok"
LastIs(o) == ran # <<>> /\ ran[Len(ran)] = o
WarnedIn(m) == \E i \in DOMAIN m :
                  /\ m[i].kind = "warning"
                  /\ \A j \in DOMAIN m : m[j].kind \in Told => j < i

ErrorsCounted == \A k \in 0..Len(ran) : FailedLast(k) => errors >= k
TrippedInTime == LastIs("failed") => errors < Burst[surface]
BurstWarned == LastIs("burst") => WarnedIn(messages)
BurstInv == ErrorsCounted /\ TrippedInTime /\ BurstWarned

LEMMA WarnedAppend ==
    ASSUME NEW m \in Seq(Message), NEW x \in Message, x.kind \notin Told, WarnedIn(m)
    PROVE  WarnedIn(Append(m, x))
<1>1. PICK i \in DOMAIN m : /\ m[i].kind = "warning"
                            /\ \A j \in DOMAIN m : m[j].kind \in Told => j < i
  BY DEF WarnedIn
<1>2. /\ DOMAIN Append(m, x) = 1..(Len(m) + 1) /\ DOMAIN m = 1..Len(m) /\ Len(m) \in Nat
      /\ \A j \in DOMAIN m : Append(m, x)[j] = m[j]
      /\ Append(m, x)[Len(m) + 1] = x
  OBVIOUS
<1>3. i \in DOMAIN Append(m, x) /\ Append(m, x)[i].kind = "warning"
  BY <1>1, <1>2
<1>4. \A j \in DOMAIN Append(m, x) : Append(m, x)[j].kind \in Told => j < i
  BY <1>1, <1>2
<1>5. QED
  BY <1>3, <1>4 DEF WarnedIn

LEMMA WarnedCompacted ==
    ASSUME LoopTypeOK, WarnedIn(messages)
    PROVE  WarnedIn(Compacted)
<1>1. /\ DOMAIN Compacted = DOMAIN messages
      /\ \A i \in DOMAIN messages :
            \/ Compacted[i] = messages[i]
            \/ Compacted[i] = Msg("cleared") /\ messages[i].kind \in {"result", "cleared"}
  BY DEF Compacted
<1>2. \A i \in DOMAIN messages :
        /\ Compacted[i].kind \in Told <=> messages[i].kind \in Told
        /\ messages[i].kind = "warning" => Compacted[i].kind = "warning"
  BY <1>1 DEF Msg, Told
<1>3. QED
  BY <1>1, <1>2 DEF WarnedIn

LEMMA WarnedBurst ==
    ASSUME LoopTypeOK
    PROVE  WarnedIn(BurstMessages)
<1> DEFINE m == messages \o Results(got + 1)
<1>1. messages \in Seq(Message) /\ got + 1 \in Nat
  BY DEF LoopTypeOK
<1>2. m \in Seq(Message)
  BY <1>1, ResultsTyped
<1>3. BurstMessages = m \o <<Msg("warning")>>
  BY DEF BurstMessages
<1> HIDE DEF m
<1>4. BurstMessages = Append(m, Msg("warning"))
  BY <1>2, <1>3
<1>5. /\ DOMAIN BurstMessages = 1..(Len(m) + 1) /\ Len(m) \in Nat
      /\ BurstMessages[Len(m) + 1] = Msg("warning")
  BY <1>2, <1>4
<1>6. Msg("warning").kind = "warning" /\ "warning" \notin Told
  BY DEF Msg, Told
<1>7. QED
  BY <1>5, <1>6 DEF WarnedIn

LEMMA NextBurstInv == LoopTypeOK /\ BurstInv /\ [Next]_vars => BurstInv'
<1> SUFFICES ASSUME LoopTypeOK, BurstInv, [Next]_vars PROVE BurstInv'
  OBVIOUS
<1>1. /\ errors \in Nat /\ surface \in Surface /\ Burst[surface] \in Nat \ {0}
      /\ ran \in Seq(Outcome) /\ Len(ran) \in Nat
      /\ messages \in Seq(Message)
  BY LoopAssumption DEF LoopTypeOK
<1>2. ASSUME UNCHANGED <<ran, errors, surface>>, WarnedIn(messages) => WarnedIn(messages')
      PROVE  BurstInv'
  BY <1>2 DEF BurstInv, ErrorsCounted, TrippedInTime, BurstWarned, FailedLast, LastIs, WarnedIn
<1>3. CASE UNCHANGED loopVars \/ Chat \/ Cancel \/ RoundsSpent \/ Stop \/ RequestFails
  <2>1. UNCHANGED <<ran, errors, surface, messages>>
    BY <1>3 DEF loopVars, Chat, Cancel, RoundsSpent, Stop, RequestFails, Asks
  <2>2. QED
    BY <1>2, <2>1 DEF WarnedIn
<1>4. ASSUME NEW s \in Surface, NEW w \in BOOLEAN, Begin(s, w) PROVE BurstInv'
  <2>1. ran' = <<>> /\ errors' = 0 /\ Len(ran') = 0
    BY <1>4 DEF Begin
  <2>2. QED
    BY <2>1 DEF BurstInv, ErrorsCounted, TrippedInTime, BurstWarned, LastIs
<1>5. CASE Outage \/ PromptTooLong
  <2>1. PICK kind \in {"outages", "compacts"}, max \in {MaxOutages, MaxCompacts},
             msgs \in {messages, Compacted} : Recover(kind, max, msgs)
    <3>1. Recover("outages", MaxOutages, messages)
            \/ Recover("compacts", MaxCompacts, Compacted)
      BY <1>5 DEF Outage, PromptTooLong
    <3>2. QED
      BY <3>1
  <2>2. UNCHANGED <<ran, errors, surface>>
    BY <1>5, <2>1 DEF Outage, PromptTooLong, Recover, Asks
  <2>3. messages' = messages \/ messages' = Compacted
    BY <2>1 DEF Recover
  <2>4. QED
    BY <1>2, <2>2, <2>3, WarnedCompacted DEF WarnedIn
<1>6. CASE EmptyAnswer \/ SimulatedCall
  <2>1. PICK kind \in {"empties", "hints"}, msg \in {"continue", "hint"} :
           Prompted(kind, Most(kind), msg)
    BY <1>6, PromptedCase
  <2>2. UNCHANGED <<ran, errors, surface>> /\ messages' = Append(messages, Msg(msg))
    BY <2>1 DEF Prompted, Asks
  <2>3. Msg(msg) \in Message /\ Msg(msg).kind \notin Told
    BY <2>1, MsgTyped DEF Kind, Msg, Told
  <2>4. QED
    BY <1>1, <1>2, <2>2, <2>3, WarnedAppend
<1>7. ASSUME NEW text \in BOOLEAN, Answer(text) PROVE BurstInv'
  <2>1. UNCHANGED <<ran, errors, surface, messages>>
    BY <1>7 DEF Answer, Asks
  <2>2. QED
    BY <1>2, <2>1 DEF WarnedIn
<1>8. ASSUME NEW calls \in Turns, CallTools(calls) PROVE BurstInv'
  <2>1. UNCHANGED <<ran, errors, surface>> /\ messages' = Append(messages, Calls(Len(calls)))
    BY <1>8 DEF CallTools, Asks
  <2>2. Calls(Len(calls)) \in Message /\ Calls(Len(calls)).kind \notin Told
    BY TurnTyped, MsgTyped DEF Calls, Told
  <2>3. QED
    BY <1>1, <1>2, <2>1, <2>2, WarnedAppend
<1>9. ASSUME NEW ok \in BOOLEAN, Handle(ok) PROVE BurstInv'
  <2> DEFINE o == IF ok THEN "ok" ELSE IF Trips THEN "burst" ELSE "failed"
  <2>1. /\ ran' = Append(ran, o)
        /\ errors' = (IF ~ok THEN errors + 1 ELSE IF errors > 0 THEN errors - 1 ELSE 0)
        /\ surface' = surface
        /\ ~ok /\ Trips => messages' = BurstMessages
    BY <1>9 DEF Handle
  <2>2. o \in Outcome /\ (o = "ok" <=> ok) /\ (o = "burst" <=> ~ok /\ Trips)
    BY DEF Outcome
  <2> HIDE DEF o
  <2>3. turn \in Seq(Signature) /\ turn # <<>>
    BY <1>9 DEF Handle, LoopTypeOK
  <2>4. /\ ran' # <<>> /\ Len(ran') = Len(ran) + 1 /\ ran'[Len(ran')] = o
        /\ \A i \in 1..Len(ran) : ran'[i] = ran[i]
    BY <1>1, <2>1
  <2>5. errors' \in Nat
    BY <1>1, <2>1
  <2>6. ErrorsCounted'
    <3> SUFFICES ASSUME NEW k \in 0..Len(ran'),
                        \A i \in (Len(ran') - k + 1)..Len(ran') : ran'[i] # "ok"
                 PROVE  errors' >= k
      BY DEF ErrorsCounted, FailedLast
    <3>1. CASE k = 0
      BY <2>5, <3>1
    <3>2. CASE k # 0
      <4>1. k - 1 \in 0..Len(ran) /\ k \in Nat
        BY <1>1, <2>4, <3>2
      <4>2. Len(ran') \in (Len(ran') - k + 1)..Len(ran')
        BY <1>1, <2>4, <4>1
      <4>3. ~ok
        BY <2>2, <2>4, <4>2
      <4>4. \A i \in (Len(ran) - (k - 1) + 1)..Len(ran) : ran[i] # "ok"
        BY <1>1, <2>4, <4>1
      <4>5. errors >= k - 1
        BY <4>1, <4>4 DEF BurstInv, ErrorsCounted, FailedLast
      <4>6. QED
        BY <1>1, <2>1, <4>1, <4>3, <4>5
    <3>3. QED
      BY <3>1, <3>2
  <2>7. TrippedInTime'
    <3>1. o = "failed" => ~ok /\ ~Trips
      BY DEF o
    <3>2. o = "failed" => errors' = errors + 1 /\ errors + 1 < Burst[surface]
      BY <1>1, <2>1, <3>1 DEF Trips
    <3>3. QED
      BY <2>1, <2>2, <2>4, <3>2 DEF TrippedInTime, LastIs
  <2>8. BurstWarned'
    <3>1. o = "burst" => WarnedIn(messages')
      BY <2>1, <2>2, WarnedBurst
    <3>2. QED
      BY <2>2, <2>4, <3>1 DEF BurstWarned, LastIs, WarnedIn
  <2>9. QED
    BY <2>6, <2>7, <2>8 DEF BurstInv
<1>10. QED
  BY <1>3, <1>4, <1>5, <1>6, <1>7, <1>8, <1>9
     DEF Next, Ask, Work, vars

(* BurstIsTold: a row of failures as long as the threshold is never passed *)
(* over in silence, whatever succeeded before it, however it spreads over  *)
(* turns and whatever was compacted since (ErrorBurstGuard, _run_step).    *)
THEOREM BurstsAreTold == Spec => []BurstIsTold
<1>1. Init => BurstInv
  <2> SUFFICES ASSUME Init PROVE BurstInv
    OBVIOUS
  <2>1. ran = <<>> /\ errors = 0 /\ Len(ran) = 0
    BY DEF Init
  <2>2. QED
    BY <2>1 DEF BurstInv, ErrorsCounted, TrippedInTime, BurstWarned, LastIs
<1>2. LoopTypeOK /\ BurstInv => BurstIsTold
  <2> SUFFICES ASSUME LoopTypeOK, BurstInv, Len(ran) >= Burst[surface],
                      \A i \in (Len(ran) - Burst[surface] + 1)..Len(ran) : ran[i] # "ok"
               PROVE  WarnedIn(messages)
    BY DEF BurstIsTold, WarnedIn
  <2>1. /\ errors \in Nat /\ Burst[surface] \in Nat \ {0} /\ Len(ran) \in Nat
        /\ ran \in Seq(Outcome)
    BY LoopAssumption DEF LoopTypeOK
  <2>2. Burst[surface] \in 0..Len(ran) /\ Len(ran) \in (Len(ran) - Burst[surface] + 1)..Len(ran)
    BY <2>1
  <2>3. errors >= Burst[surface]
    BY <2>2 DEF BurstInv, ErrorsCounted, FailedLast
  <2>4. ran # <<>> /\ Len(ran) \in 1..Len(ran)
    BY <2>1, <2>2
  <2>5. ran[Len(ran)] \in Outcome /\ ran[Len(ran)] # "ok"
    <3>1. ran[Len(ran)] \in Outcome
      <4> DEFINE n == Len(ran)
      <4>1. n \in 1..Len(ran)
        BY <2>4
      <4> HIDE DEF n
      <4>2. ran[n] \in Outcome
        BY <2>1, <4>1, ElementOfSeq
      <4>3. QED
        BY <4>2 DEF n
    <3>2. ran[Len(ran)] # "ok"
      BY <2>2
    <3>3. QED
      BY <3>1, <3>2
  <2>6. LastIs("failed") \/ LastIs("burst")
    BY <2>4, <2>5 DEF Outcome, LastIs
  <2>7. ~LastIs("failed")
    BY <2>1, <2>3 DEF BurstInv, TrippedInTime
  <2>8. QED
    BY <2>6, <2>7 DEF BurstInv, BurstWarned
<1>3. QED
  BY <1>1, <1>2, LoopTypes, NextBurstInv, PTL DEF Spec

-----------------------------------------------------------------------------
(* Shapes.  What follows the i-th message in a sequence m of messages, as  *)
(* far as it answers that message; RequestShape says Shape of every        *)
(* message with calls.                                                     *)
Aft(m, i) == {j \in DOMAIN m :
                 j > i /\ \A k \in (i + 1)..j : m[k].kind # "calls"}
Ans(m, i) == {j \in Aft(m, i) : m[j].kind \in Told}
Shape(m, i) ==
    /\ \/ Cardinality(Ans(m, i)) = m[i].n
       \/ /\ Cardinality(Ans(m, i)) \in 1..m[i].n
          /\ \E j \in Aft(m, i) : m[j].kind = "warning"
    /\ \A j \in Aft(m, i), k \in Ans(m, i) :
           j < k => m[j].kind \in Told \union {"reminder"}

(* The calls that are being run, n of them, are the i-th message: nothing  *)
(* but reminders was added since.                                          *)
Open(m, i, n) ==
    /\ i \in DOMAIN m /\ m[i].kind = "calls" /\ m[i].n = n
    /\ \A j \in DOMAIN m : j > i => m[j].kind = "reminder"
Shaped(m) == \A i \in DOMAIN m : m[i].kind = "calls" => Shape(m, i)
ShapedBut(m, c) == \A i \in DOMAIN m : m[i].kind = "calls" /\ i # c => Shape(m, i)

ShapeInv ==
    /\ phase = "ask" => Shaped(messages)
    /\ phase = "tools" => \E c \in DOMAIN messages :
           Open(messages, c, got + Len(turn)) /\ ShapedBut(messages, c)

LEMMA AftIs ==
    ASSUME NEW m \in Seq(Message), NEW x \in Message, NEW i \in DOMAIN m
    PROVE  /\ x.kind # "calls" /\ Len(m) + 1 \in Aft(Append(m, x), i)
                 => Aft(Append(m, x), i) = Aft(m, i) \cup {Len(m) + 1}
           /\ Len(m) + 1 \notin Aft(Append(m, x), i)
                 => Aft(Append(m, x), i) = Aft(m, i)
           /\ \A j \in Aft(m, i) : j \in DOMAIN m /\ Append(m, x)[j] = m[j]
           /\ Append(m, x)[i] = m[i] /\ Append(m, x)[Len(m) + 1] = x
<1>1. /\ DOMAIN Append(m, x) = 1..(Len(m) + 1) /\ DOMAIN m = 1..Len(m) /\ Len(m) \in Nat
      /\ \A j \in 1..Len(m) : Append(m, x)[j] = m[j]
      /\ Append(m, x)[Len(m) + 1] = x
  OBVIOUS
<1>2. \A j \in 1..Len(m) : j \in Aft(Append(m, x), i) <=> j \in Aft(m, i)
  BY <1>1 DEF Aft
<1>3. Aft(m, i) \subseteq 1..Len(m) /\ Aft(Append(m, x), i) \subseteq 1..(Len(m) + 1)
  BY <1>1 DEF Aft
<1> DEFINE last1 == Len(m) + 1
           old == Aft(m, i)
           new == Aft(Append(m, x), i)
<1>4. /\ \A j : j \in old \/ j \in new => j \in 1..Len(m) \/ j = last1
      /\ \A j \in 1..Len(m) : j \in new <=> j \in old
      /\ last1 \notin old
  BY <1>1, <1>2, <1>3
<1> HIDE DEF old, new, last1
<1>5. /\ last1 \in new => new = old \cup {last1}
      /\ last1 \notin new => new = old
  BY <1>4
<1>6. \A j \in old : j \in DOMAIN m /\ Append(m, x)[j] = m[j]
  BY <1>1, <1>3 DEF old
<1>7. QED
  BY <1>1, <1>5, <1>6 DEF old, new, last1

(* A message that is no result changes no shape. *)
LEMMA ShapeAppend ==
    ASSUME NEW m \in Seq(Message), NEW x \in Message, x.kind \notin Told,
           NEW i \in DOMAIN m, Shape(m, i)
    PROVE  Shape(Append(m, x), i)
<1> DEFINE w == Append(m, x)
<1>1. /\ Aft(w, i) = Aft(m, i) \/ Aft(w, i) = Aft(m, i) \cup {Len(m) + 1}
      /\ \A j \in Aft(m, i) : j \in DOMAIN m /\ w[j] = m[j]
      /\ w[i] = m[i] /\ w[Len(m) + 1] = x
  <2>1. Len(m) + 1 \in Aft(w, i) => x.kind # "calls"
    <3>1. Len(m) + 1 > i /\ Len(m) + 1 \in (i + 1)..(Len(m) + 1) /\ w[Len(m) + 1] = x
      OBVIOUS
    <3>2. QED
      BY <3>1 DEF Aft
  <2>2. QED
    BY <2>1, AftIs
<1>2. \A j \in Aft(m, i) : j \in 1..Len(m) /\ Len(m) \in Nat
  BY DEF Aft
<1> HIDE DEF w
<1>3. Ans(w, i) = Ans(m, i)
  BY <1>1 DEF Ans
<1>4. \A j \in Aft(w, i), k \in Ans(w, i) :
         j < k => w[j].kind \in Told \union {"reminder"}
  <2> SUFFICES ASSUME NEW j \in Aft(w, i), NEW k \in Ans(m, i), j < k
               PROVE  w[j].kind \in Told \union {"reminder"}
    BY <1>3
  <2>1. k \in Aft(m, i)
    BY DEF Ans
  <2>2. j \in Aft(m, i)
    BY <1>1, <1>2, <2>1
  <2>3. QED
    BY <1>1, <2>2 DEF Shape
<1>5. \A j \in Aft(m, i) : j \in Aft(w, i) /\ w[j] = m[j]
  BY <1>1
<1>6. QED
  BY <1>1, <1>3, <1>4, <1>5 DEF Shape, w

(* What comes after later calls changes no shape either. *)
LEMMA ShapeBehind ==
    ASSUME NEW m \in Seq(Message), NEW s \in Seq(Message), NEW i \in DOMAIN m,
           NEW c \in DOMAIN m, i < c, m[c].kind = "calls", Shape(m, i)
    PROVE  Shape(m \o s, i)
<1> DEFINE w == m \o s
<1>1. /\ DOMAIN m = 1..Len(m) /\ Len(m) \in Nat /\ Len(s) \in Nat
      /\ DOMAIN w = 1..(Len(m) + Len(s))
      /\ \A j \in 1..Len(m) : w[j] = m[j]
  OBVIOUS
<1> HIDE DEF w
<1>2. \A j \in Aft(w, i) : j < c
  <2> SUFFICES ASSUME NEW j \in Aft(w, i), ~(j < c) PROVE FALSE
    OBVIOUS
  <2>1. j \in DOMAIN w /\ j > i /\ \A k \in (i + 1)..j : w[k].kind # "calls"
    BY DEF Aft
  <2>2. c \in (i + 1)..j
    BY <1>1, <2>1
  <2>3. QED
    BY <1>1, <2>1, <2>2
<1>3. Aft(w, i) = Aft(m, i)
  <2>1. Aft(w, i) \subseteq 1..Len(m)
    <3>1. Aft(w, i) \subseteq DOMAIN w
      BY DEF Aft
    <3>2. QED
      BY <1>1, <1>2, <3>1
  <2>2. Aft(m, i) \subseteq 1..Len(m)
    BY <1>1 DEF Aft
  <2>3. ASSUME NEW j \in 1..Len(m) PROVE j \in Aft(w, i) <=> j \in Aft(m, i)
    <3>1. j \in DOMAIN m /\ j \in DOMAIN w /\ i \in Nat
      BY <1>1
    <3>2. \A k \in (i + 1)..j : w[k] = m[k]
      BY <1>1, <3>1
    <3>3. QED
      BY <3>1, <3>2 DEF Aft
  <2>4. QED
    BY <2>1, <2>2, <2>3
<1>4. \A j \in Aft(m, i) : w[j] = m[j]
  BY <1>1 DEF Aft
<1>5. Ans(w, i) = Ans(m, i) /\ w[i] = m[i]
  BY <1>1, <1>3, <1>4 DEF Ans
<1>6. \A k \in Ans(m, i) : k \in Aft(m, i)
  BY DEF Ans
<1>7. QED
  BY <1>3, <1>4, <1>5, <1>6 DEF Shape, w

(* Emptying old results changes no shape. *)
LEMMA ShapeCompacted ==
    ASSUME LoopTypeOK, NEW i \in DOMAIN messages, messages[i].kind = "calls",
           Shape(messages, i)
    PROVE  Shape(Compacted, i)
<1>1. /\ DOMAIN Compacted = DOMAIN messages
      /\ \A j \in DOMAIN messages :
            \/ Compacted[j] = messages[j]
            \/ Compacted[j] = Msg("cleared") /\ messages[j].kind \in {"result", "cleared"}
  BY DEF Compacted
<1>2. \A j \in DOMAIN messages :
        /\ Compacted[j].kind \in Told <=> messages[j].kind \in Told
        /\ messages[j].kind \notin Told => Compacted[j] = messages[j]
        /\ Compacted[j].kind = "calls" <=> messages[j].kind = "calls"
  BY <1>1 DEF Msg, Told
<1>3. /\ messages \in Seq(Message) /\ Len(messages) \in Nat
      /\ DOMAIN messages = 1..Len(messages) /\ i \in 1..Len(messages)
  BY DEF LoopTypeOK
<1>4. Aft(Compacted, i) = Aft(messages, i)
  <2>1. \A j \in 1..Len(messages) :
           (\A k \in (i + 1)..j : Compacted[k].kind # "calls")
              <=> (\A k \in (i + 1)..j : messages[k].kind # "calls")
    BY <1>2, <1>3
  <2>2. QED
    BY <1>1, <1>3, <2>1 DEF Aft
<1>5. \A j \in Aft(messages, i) : j \in DOMAIN messages
  BY DEF Aft
<1>6. Ans(Compacted, i) = Ans(messages, i) /\ Compacted[i] = messages[i]
  BY <1>2, <1>4, <1>5 DEF Ans, Told
<1>7. \A k \in Ans(messages, i) : k \in Aft(messages, i)
  BY DEF Ans
<1>8. QED
  BY <1>2, <1>4, <1>5, <1>6, <1>7 DEF Shape, Told

(* The turn goes on: a reminder may come in. *)
LEMMA OpenReminded ==
    ASSUME NEW m \in Seq(Message), NEW c, NEW n, Open(m, c, n)
    PROVE  Open(Append(m, Msg("reminder")), c, n)
<1>1. /\ DOMAIN Append(m, Msg("reminder")) = 1..(Len(m) + 1)
      /\ DOMAIN m = 1..Len(m) /\ Len(m) \in Nat
      /\ \A j \in 1..Len(m) : Append(m, Msg("reminder"))[j] = m[j]
      /\ Append(m, Msg("reminder"))[Len(m) + 1] = Msg("reminder")
  BY MsgTyped DEF Kind
<1>2. QED
  BY <1>1 DEF Open, Msg

(* The turn ends: k results follow the calls and the reminders. *)
LEMMA OpenAnswered ==
    ASSUME NEW m \in Seq(Message), NEW c, NEW n \in Nat, Open(m, c, n), NEW k \in 1..n
    PROVE  LET w == m \o Results(k) IN
           /\ w \in Seq(Message) /\ c \in DOMAIN w /\ w[c] = m[c]
           /\ Cardinality(Ans(w, c)) = k
           /\ \A i \in DOMAIN w : i > Len(m) => w[i].kind # "calls"
           /\ \A j \in Aft(w, c) : w[j].kind \in Told \union {"reminder"}
<1> DEFINE w == m \o Results(k)
           told == (Len(m) + 1)..(Len(m) + k)
<1>1. Results(k) \in Seq(Message) /\ Len(Results(k)) = k /\ k \in Nat
  BY ResultsTyped
<1>2. \A i \in 1..k : Results(k)[i].kind = "result"
  BY DEF Results, Msg
<1>3. /\ w \in Seq(Message) /\ DOMAIN w = 1..(Len(m) + k)
      /\ DOMAIN m = 1..Len(m) /\ Len(m) \in Nat
      /\ \A i \in 1..Len(m) : w[i] = m[i]
  BY <1>1
<1>4. \A i \in told : w[i].kind = "result"
  <2> TAKE i \in told
  <2>1. i - Len(m) \in 1..k /\ w[i] = Results(k)[i - Len(m)]
    BY <1>1, <1>3
  <2>2. QED
    BY <2>1, <1>2
<1>5. c \in 1..Len(m) /\ w[c] = m[c] /\ \A j \in 1..Len(m) : j > c => w[j].kind = "reminder"
  BY <1>3 DEF Open
<1> HIDE DEF w
<1>6. \A j \in DOMAIN w : j > c =>
         /\ w[j].kind = (IF j \in told THEN "result" ELSE "reminder")
         /\ j \in Aft(w, c)
  <2>1. \A j \in DOMAIN w : j > c => w[j].kind = (IF j \in told THEN "result" ELSE "reminder")
    BY <1>1, <1>3, <1>4, <1>5
  <2>2. ASSUME NEW j \in DOMAIN w, j > c PROVE j \in Aft(w, c)
    <3>1. \A i \in (c + 1)..j : i \in DOMAIN w /\ i > c
      BY <1>3, <1>5, <2>2
    <3>2. \A i \in (c + 1)..j : w[i].kind # "calls"
      BY <2>1, <3>1
    <3>3. QED
      BY <2>2, <3>2 DEF Aft
  <2>3. QED
    BY <2>1, <2>2
<1>7. \A j \in Aft(w, c) : j \in DOMAIN w /\ j > c
  BY DEF Aft
<1>8. \A j \in told : j \in DOMAIN w /\ j > c
  BY <1>1, <1>3, <1>5
<1>9. \A j \in Ans(w, c) : j \in Aft(w, c) /\ w[j].kind \in Told
  BY DEF Ans
<1>10. \A j \in told : j \in Ans(w, c)
  BY <1>6, <1>8 DEF Ans, Told
<1>11. \A j \in Ans(w, c) : j \in told
  BY <1>6, <1>7, <1>9 DEF Told
<1>12. Ans(w, c) = told
  BY <1>10, <1>11
<1>13. Cardinality(told) = k
  BY <1>1, <1>3, FS_Interval
<1>14. \A j \in Aft(w, c) : w[j].kind \in Told \union {"reminder"}
  BY <1>6, <1>7 DEF Told
<1>15. \A i \in DOMAIN w : i > Len(m) => w[i].kind # "calls"
  <2> SUFFICES ASSUME NEW i \in DOMAIN w, i > Len(m) PROVE w[i].kind # "calls"
    OBVIOUS
  <2>1. i \in told
    BY <1>1, <1>3
  <2>2. QED
    BY <2>1, <1>4
<1>16. c \in DOMAIN w
  BY <1>1, <1>3, <1>5
<1>17. QED
  BY <1>3, <1>5, <1>12, <1>13, <1>14, <1>15, <1>16 DEF w

LEMMA OpenDone ==
    ASSUME NEW m \in Seq(Message), NEW c, NEW n \in Nat \ {0}, Open(m, c, n), ShapedBut(m, c)
    PROVE  Shaped(m \o Results(n))
<1> DEFINE w == m \o Results(n)
<1>1. /\ w \in Seq(Message) /\ c \in DOMAIN w /\ w[c] = m[c]
      /\ Cardinality(Ans(w, c)) = n
      /\ \A i \in DOMAIN w : i > Len(m) => w[i].kind # "calls"
      /\ \A j \in Aft(w, c) : w[j].kind \in Told \union {"reminder"}
  <2>1. n \in 1..n /\ n \in Nat
    OBVIOUS
  <2>2. QED
    BY <2>1, OpenAnswered
<1>2. /\ Results(n) \in Seq(Message) /\ DOMAIN m = 1..Len(m) /\ Len(m) \in Nat
      /\ c \in DOMAIN m /\ m[c].kind = "calls" /\ m[c].n = n
      /\ \A j \in DOMAIN m : j > c => m[j].kind # "calls"
  BY ResultsTyped DEF Open
<1>3. \A i \in 1..Len(m) : w[i] = m[i]
  BY <1>2
<1>4. DOMAIN w = 1..Len(w) /\ Len(w) \in Nat
  BY <1>1
<1> HIDE DEF w
<1>5. Shape(w, c)
  BY <1>1, <1>2 DEF Shape
<1>6. ASSUME NEW i \in DOMAIN w, w[i].kind = "calls", i # c PROVE Shape(w, i)
  <2>1. i \in DOMAIN m /\ m[i].kind = "calls"
    BY <1>1, <1>2, <1>3, <1>4, <1>6
  <2>2. i < c
    BY <1>2, <1>6, <2>1
  <2>3. Shape(m, i)
    BY <1>6, <2>1 DEF ShapedBut
  <2>4. QED
    BY <1>2, <2>1, <2>2, <2>3, ShapeBehind DEF w
<1>7. QED
  BY <1>5, <1>6 DEF Shaped, w

(* The turn is cut: the results so far and the warning. *)
LEMMA OpenCut ==
    ASSUME NEW m \in Seq(Message), NEW c, NEW n \in Nat, Open(m, c, n), ShapedBut(m, c),
           NEW k \in 1..n
    PROVE  Shaped(m \o Results(k) \o <<Msg("warning")>>)
<1> DEFINE w == m \o Results(k)
           v == Append(w, Msg("warning"))
<1>1. /\ w \in Seq(Message) /\ c \in DOMAIN w /\ w[c] = m[c]
      /\ Cardinality(Ans(w, c)) = k
      /\ \A i \in DOMAIN w : i > Len(m) => w[i].kind # "calls"
      /\ \A j \in Aft(w, c) : w[j].kind \in Told \union {"reminder"}
  BY OpenAnswered
<1>2. /\ Results(k) \in Seq(Message) /\ DOMAIN m = 1..Len(m) /\ Len(m) \in Nat
      /\ c \in DOMAIN m /\ m[c].kind = "calls" /\ m[c].n = n
      /\ \A j \in DOMAIN m : j > c => m[j].kind # "calls"
  <2>1. Results(k) \in Seq(Message)
    BY ResultsTyped
  <2>2. DOMAIN m = 1..Len(m) /\ Len(m) \in Nat
    OBVIOUS
  <2>3. /\ c \in DOMAIN m /\ m[c].kind = "calls" /\ m[c].n = n
        /\ \A j \in DOMAIN m : j > c => m[j].kind = "reminder"
    BY DEF Open
  <2>4. QED
    BY <2>1, <2>2, <2>3
<1>3. \A i \in 1..Len(m) : w[i] = m[i]
  BY <1>2
<1>4. /\ Msg("warning") \in Message /\ Msg("warning").kind = "warning"
      /\ Msg("warning").kind \notin Told /\ Msg("warning").kind # "calls"
  BY MsgTyped DEF Kind, Told, Msg
<1>5. \A i \in DOMAIN w : w[i].kind = "calls" => i \in DOMAIN m /\ m[i].kind = "calls" /\ i <= c
  <2> SUFFICES ASSUME NEW i \in DOMAIN w, w[i].kind = "calls"
               PROVE  i \in DOMAIN m /\ m[i].kind = "calls" /\ i <= c
    OBVIOUS
  <2>1. DOMAIN w = 1..Len(w) /\ Len(w) \in Nat
    BY <1>1
  <2> HIDE DEF w
  <2>2. i \in 1..Len(m)
    BY <1>1, <1>2, <2>1
  <2>3. QED
    BY <1>2, <1>3, <2>2
<1>6. w \o <<Msg("warning")>> = v
  <2> HIDE DEF w
  <2>1. QED
    BY <1>1, <1>4
<1>7. ASSUME NEW i \in DOMAIN w, w[i].kind = "calls", i # c PROVE Shape(v, i)
  <2>1. i \in DOMAIN m /\ i < c /\ Shape(m, i)
    BY <1>2, <1>5, <1>7 DEF ShapedBut
  <2>2. Shape(w, i)
    BY <1>2, <2>1, ShapeBehind
  <2> HIDE DEF w
  <2>3. QED
    BY <1>1, <1>4, <1>7, <2>2, ShapeAppend
<1> HIDE DEF w
<1>8. /\ DOMAIN v = 1..(Len(w) + 1) /\ DOMAIN w = 1..Len(w) /\ Len(w) \in Nat
      /\ \A i \in DOMAIN w : v[i] = w[i]
      /\ v[Len(w) + 1] = Msg("warning")
  BY <1>1, <1>4
<1>9. Shape(v, c)
  <2>1. Len(w) + 1 \in Aft(v, c)
    <3> HIDE DEF v
    <3> SUFFICES ASSUME NEW j \in (c + 1)..(Len(w) + 1) PROVE v[j].kind # "calls"
      <4>1. Len(w) + 1 \in DOMAIN v /\ Len(w) + 1 > c
        BY <1>1, <1>8
      <4>2. QED
        BY <4>1 DEF Aft
    <3>1. CASE j = Len(w) + 1
      BY <1>4, <1>8, <3>1
    <3>2. CASE j # Len(w) + 1
      <4>1. j \in DOMAIN w /\ j > c /\ v[j] = w[j]
        BY <1>1, <1>8, <3>2
      <4>2. QED
        BY <4>1, <1>1, <1>2, <1>5
    <3>3. QED
      BY <3>1, <3>2
  <2>2. /\ Aft(v, c) = Aft(w, c) \cup {Len(w) + 1}
        /\ \A j \in Aft(w, c) : j \in DOMAIN w /\ v[j] = w[j]
        /\ v[c] = w[c]
    BY <1>1, <1>4, <2>1, AftIs
  <2> HIDE DEF v
  <2>3. Ans(v, c) = Ans(w, c)
    BY <1>4, <1>8, <2>2 DEF Ans
  <2>4. \A j \in Aft(v, c), i \in Ans(v, c) :
           j < i => v[j].kind \in Told \union {"reminder"}
    <3> SUFFICES ASSUME NEW j \in Aft(v, c), NEW i \in Ans(w, c), j < i
                 PROVE  v[j].kind \in Told \union {"reminder"}
      BY <2>3
    <3>1. i \in DOMAIN w
      BY <2>2 DEF Ans
    <3>2. j \in Aft(w, c)
      BY <1>8, <2>2, <3>1
    <3>3. QED
      BY <1>1, <2>2, <3>2
  <2>5. Cardinality(Ans(v, c)) \in 1..v[c].n
    BY <1>1, <1>2, <2>2, <2>3
  <2>6. \E j \in Aft(v, c) : v[j].kind = "warning"
    BY <1>4, <1>8, <2>1
  <2>7. QED
    BY <2>4, <2>5, <2>6 DEF Shape
<1>10. Shaped(v)
  <2> SUFFICES ASSUME NEW i \in DOMAIN v, v[i].kind = "calls" PROVE Shape(v, i)
    BY DEF Shaped
  <2>1. i \in DOMAIN w /\ w[i].kind = "calls"
    BY <1>4, <1>8
  <2>2. QED
    BY <1>7, <1>9, <2>1
<1>11. QED
  BY <1>6, <1>10 DEF w

LEMMA ShapedAppend ==
    ASSUME NEW m \in Seq(Message), NEW x \in Message,
           x.kind \notin Told, x.kind # "calls", Shaped(m)
    PROVE  Shaped(Append(m, x))
<1> SUFFICES ASSUME NEW i \in DOMAIN Append(m, x), Append(m, x)[i].kind = "calls"
             PROVE  Shape(Append(m, x), i)
  BY DEF Shaped
<1>1. i \in DOMAIN m /\ m[i].kind = "calls"
  <2>1. /\ DOMAIN Append(m, x) = 1..(Len(m) + 1) /\ DOMAIN m = 1..Len(m) /\ Len(m) \in Nat
        /\ \A j \in 1..Len(m) : Append(m, x)[j] = m[j]
        /\ Append(m, x)[Len(m) + 1] = x
    OBVIOUS
  <2>2. QED
    BY <2>1
<1>2. QED
  BY <1>1, ShapeAppend DEF Shaped

LEMMA ShapedCompacted ==
    ASSUME LoopTypeOK, Shaped(messages)
    PROVE  Shaped(Compacted)
<1> SUFFICES ASSUME NEW i \in DOMAIN Compacted, Compacted[i].kind = "calls"
             PROVE  Shape(Compacted, i)
  BY DEF Shaped
<1>1. i \in DOMAIN messages /\ messages[i].kind = "calls"
  BY DEF Compacted, Msg
<1>2. QED
  BY <1>1, ShapeCompacted DEF Shaped

(* The calls of a new turn. *)
LEMMA ShapedCalls ==
    ASSUME NEW m \in Seq(Message), NEW n \in 1..MaxCalls, Shaped(m)
    PROVE  LET w == Append(m, Calls(n)) IN
           Open(w, Len(m) + 1, n) /\ ShapedBut(w, Len(m) + 1)
<1> DEFINE w == Append(m, Calls(n))
<1>1. /\ Calls(n) \in Message /\ Calls(n).kind = "calls" /\ Calls(n).n = n
      /\ Calls(n).kind \notin Told
  BY MsgTyped DEF Calls, Told
<1>2. /\ DOMAIN w = 1..(Len(m) + 1) /\ DOMAIN m = 1..Len(m) /\ Len(m) \in Nat
      /\ \A j \in 1..Len(m) : w[j] = m[j]
      /\ w[Len(m) + 1] = Calls(n)
  BY <1>1
<1> HIDE DEF w
<1>3. Open(w, Len(m) + 1, n)
  BY <1>1, <1>2 DEF Open
<1>4. ASSUME NEW i \in DOMAIN w, w[i].kind = "calls", i # Len(m) + 1 PROVE Shape(w, i)
  <2>1. i \in DOMAIN m /\ m[i].kind = "calls"
    BY <1>2, <1>4
  <2>2. QED
    BY <1>1, <2>1, ShapeAppend DEF Shaped, w
<1>5. QED
  BY <1>3, <1>4 DEF ShapedBut, w

LEMMA HandleShapes ==
    ASSUME LoopTypeOK, ShapeInv, NEW ok \in BOOLEAN, Handle(ok)
    PROVE  ShapeInv'
<1>1. phase = "tools" /\ turn \in Seq(Signature) /\ turn # <<>> /\ got \in Nat
      /\ messages \in Seq(Message)
  BY DEF Handle, LoopTypeOK
<1> DEFINE n == got + Len(turn)
           rest == Tail(turn)
<1>2. PICK c \in DOMAIN messages : Open(messages, c, n) /\ ShapedBut(messages, c)
  BY <1>1 DEF ShapeInv
<1>3. /\ n \in Nat \ {0} /\ got + 1 \in 1..n
      /\ rest \in Seq(Signature) /\ Len(rest) = Len(turn) - 1 /\ Len(turn) \in Nat
      /\ Len(turn) # 0
  BY <1>1
<1>4. /\ rest = <<>> <=> Len(turn) = 1
      /\ Len(turn) = 1 => n = got + 1
      /\ n = (got + 1) + Len(rest)
  <2> HIDE DEF rest
  <2>1. rest = <<>> <=> Len(rest) = 0
    BY <1>3, EmptySeq
  <2>2. QED
    BY <1>1, <1>3, <2>1
<1> HIDE DEF n, rest
<1>5. CASE ~ok /\ Trips
  <2>1. messages' = BurstMessages /\ phase' = "ask"
    BY <1>5 DEF Handle
  <2>2. BurstMessages = messages \o Results(got + 1) \o <<Msg("warning")>>
    BY DEF BurstMessages
  <2>3. Shaped(BurstMessages)
    BY <1>1, <1>2, <1>3, <2>2, OpenCut
  <2>4. QED
    BY <2>1, <2>3 DEF ShapeInv
<1>6. CASE ~(~ok /\ Trips)
  <2> DEFINE background == ok /\ Head(turn) \in Delegate
             m == messages \o (IF background THEN <<Msg("reminder")>> ELSE <<>>)
  <2>1. /\ messages' = TurnMessages(background) /\ turn' = rest
        /\ rest = <<>> => phase' = "ask"
        /\ rest # <<>> => phase' = phase /\ got' = got + 1
    BY <1>6 DEF Handle, rest
  <2>2. m \in Seq(Message) /\ Open(m, c, n) /\ ShapedBut(m, c)
    <3>1. CASE background
      <4>1. Msg("reminder") \in Message /\ Msg("reminder").kind \notin Told
               /\ Msg("reminder").kind = "reminder"
        BY MsgTyped DEF Kind, Told, Msg
      <4>2. m = Append(messages, Msg("reminder"))
        BY <1>1, <3>1, <4>1
      <4> HIDE DEF m, background
      <4>3. m \in Seq(Message) /\ Open(m, c, n)
        BY <1>1, <1>2, <4>1, <4>2, OpenReminded
      <4>4. /\ DOMAIN m = 1..(Len(messages) + 1) /\ DOMAIN messages = 1..Len(messages)
            /\ Len(messages) \in Nat
            /\ \A j \in 1..Len(messages) : m[j] = messages[j]
            /\ m[Len(messages) + 1] = Msg("reminder")
        BY <1>1, <4>1, <4>2
      <4>5. ASSUME NEW i \in DOMAIN m, m[i].kind = "calls", i # c PROVE Shape(m, i)
        <5>1. i \in DOMAIN messages /\ messages[i].kind = "calls"
          BY <4>1, <4>4, <4>5
        <5>2. Shape(messages, i)
          BY <1>2, <4>5, <5>1 DEF ShapedBut
        <5>3. QED
          BY <1>1, <4>1, <4>2, <5>1, <5>2, ShapeAppend
      <4>6. QED
        BY <4>3, <4>5 DEF ShapedBut
    <3>2. CASE ~background
      <4>1. m = messages
        BY <1>1, <3>2
      <4>2. QED
        BY <1>1, <1>2, <4>1
    <3>3. QED
      BY <3>1, <3>2
  <2>3. TurnMessages(background) = m \o (IF Len(turn) = 1 THEN Results(got + 1) ELSE <<>>)
    BY DEF TurnMessages
  <2> HIDE DEF m, background
  <2>4. CASE Len(turn) = 1
    <3>1. messages' = m \o Results(n) /\ phase' = "ask"
      BY <1>4, <2>1, <2>3, <2>4
    <3>2. Shaped(m \o Results(n))
      BY <1>3, <2>2, OpenDone
    <3>3. QED
      BY <3>1, <3>2 DEF ShapeInv
  <2>5. CASE Len(turn) # 1
    <3>1. messages' = m
      BY <2>1, <2>2, <2>3, <2>5
    <3>2. phase' = "tools" /\ got' = got + 1 /\ turn' = rest
      BY <1>1, <1>4, <2>1, <2>5
    <3>3. Open(messages', c, got' + Len(turn')) /\ ShapedBut(messages', c)
      BY <1>4, <2>2, <3>1, <3>2
    <3>4. c \in DOMAIN messages'
      BY <3>3 DEF Open
    <3>5. QED
      BY <3>2, <3>3, <3>4 DEF ShapeInv
  <2>6. QED
    BY <2>4, <2>5
<1>7. QED
  BY <1>5, <1>6

LEMMA NextShapeInv == LoopTypeOK /\ ShapeInv /\ [Next]_vars => ShapeInv'
<1> SUFFICES ASSUME LoopTypeOK, ShapeInv, [Next]_vars PROVE ShapeInv'
  OBVIOUS
<1>1. messages \in Seq(Message)
  BY DEF LoopTypeOK
<1>2. CASE UNCHANGED loopVars \/ Chat
  <2>1. UNCHANGED <<phase, messages, got, turn>>
    BY <1>2 DEF loopVars, Chat
  <2>2. QED
    BY <2>1 DEF ShapeInv
<1>3. CASE Cancel \/ RoundsSpent \/ Stop \/ RequestFails
  <2>1. phase' = "idle"
    BY <1>3 DEF Cancel, RoundsSpent, Stop, RequestFails, EndWith
  <2>2. QED
    BY <2>1 DEF ShapeInv
<1>4. ASSUME NEW s \in Surface, NEW w \in BOOLEAN, Begin(s, w) PROVE ShapeInv'
  <2>1. messages' = <<>> /\ phase' = "ask" /\ DOMAIN messages' = {}
    BY <1>4 DEF Begin
  <2>2. QED
    BY <2>1 DEF ShapeInv, Shaped
<1>5. ASSUME phase = "ask", phase' = "idle" \/ (phase' = "ask" /\ Shaped(messages')) PROVE ShapeInv'
  BY <1>5 DEF ShapeInv
<1>6. phase = "ask" => Shaped(messages)
  BY DEF ShapeInv
<1>7. CASE Outage \/ PromptTooLong
  <2>1. PICK kind \in {"outages", "compacts"}, max \in {MaxOutages, MaxCompacts},
             msgs \in {messages, Compacted} : Recover(kind, max, msgs)
    <3>1. Recover("outages", MaxOutages, messages)
            \/ Recover("compacts", MaxCompacts, Compacted)
      BY <1>7 DEF Outage, PromptTooLong
    <3>2. QED
      BY <3>1
  <2>2. phase = "ask"
    BY <1>7 DEF Outage, PromptTooLong, Asks
  <2>3. phase' = "idle" \/ (phase' = "ask" /\ messages' = msgs)
    BY <2>1, <2>2 DEF Recover, EndWith
  <2>4. QED
    BY <1>5, <1>6, <2>1, <2>2, <2>3, ShapedCompacted
<1>8. CASE EmptyAnswer \/ SimulatedCall
  <2>1. PICK kind \in {"empties", "hints"}, msg \in {"continue", "hint"} :
           Prompted(kind, Most(kind), msg)
    BY <1>8, PromptedCase
  <2>2. phase = "ask" /\ phase' = "ask" /\ messages' = Append(messages, Msg(msg))
    BY <2>1 DEF Prompted, Asks
  <2>3. Msg(msg) \in Message /\ Msg(msg).kind \notin Told /\ Msg(msg).kind # "calls"
    BY <2>1, MsgTyped DEF Kind, Msg, Told
  <2>4. QED
    BY <1>1, <1>5, <1>6, <2>2, <2>3, ShapedAppend
<1>9. ASSUME NEW text \in BOOLEAN, Answer(text) PROVE ShapeInv'
  <2>1. phase = "ask" /\ messages' = messages /\ (phase' = "idle" \/ phase' = "ask")
    BY <1>9 DEF Answer, Asks, EndWith
  <2>2. QED
    BY <1>5, <1>6, <2>1
<1>10. ASSUME NEW calls \in Turns, CallTools(calls) PROVE ShapeInv'
  <2>1. /\ phase = "ask" /\ phase' = "tools" /\ turn' = calls /\ got' = 0
        /\ messages' = Append(messages, Calls(Len(calls)))
    BY <1>10 DEF CallTools, Asks, LoopTypeOK
  <2>2. Len(calls) \in 1..MaxCalls /\ got' + Len(turn') = Len(calls)
    <3>1. Len(calls) \in 1..MaxCalls
      BY TurnTyped
    <3>2. QED
      BY <2>1, <3>1
  <2>3. Open(messages', Len(messages) + 1, Len(calls))
          /\ ShapedBut(messages', Len(messages) + 1)
    BY <1>1, <1>6, <2>1, <2>2, ShapedCalls
  <2>4. Len(messages) + 1 \in DOMAIN messages'
    BY <2>3 DEF Open
  <2>5. QED
    BY <2>1, <2>2, <2>3, <2>4 DEF ShapeInv
<1>11. ASSUME NEW ok \in BOOLEAN, Handle(ok) PROVE ShapeInv'
  BY <1>11, HandleShapes
<1>12. QED
  BY <1>2, <1>3, <1>4, <1>7, <1>8, <1>9, <1>10, <1>11
     DEF Next, Ask, Work, vars

(* RequestShape: whatever is asked of the model is a history it can read,  *)
(* in which its calls are followed by their results.                       *)
THEOREM RequestsAreShaped == Spec => []RequestShape
<1>1. Init => ShapeInv
  BY DEF Init, ShapeInv
<1>2. ShapeInv => RequestShape
  <2> SUFFICES ASSUME ShapeInv PROVE RequestShape
    OBVIOUS
  <2>1. phase = "ask" => \A i \in DOMAIN messages : messages[i].kind = "calls" => Shape(messages, i)
    BY DEF ShapeInv, Shaped
  <2>2. \A i : /\ Aft(messages, i) = After(i)
               /\ Ans(messages, i) = AnswersTo(i)
    BY DEF Aft, Ans, After, AnswersTo
  <2> HIDE DEF Aft, Ans, After, AnswersTo
  <2>3. QED
    BY <2>1, <2>2 DEF RequestShape, Shape
<1>3. QED
  BY <1>1, <1>2, LoopTypes, NextShapeInv, PTL DEF Spec

-----------------------------------------------------------------------------
(* Repetition.  What the detector keeps is the end of what it was told, so *)
(* what it counts in it is enough to see that the next call would complete *)
(* a repetition; the call that would is stopped.                           *)
IsEnd(end, seq) ==
    /\ Len(end) = Smaller(Len(seq), HistorySize)
    /\ \A i \in 0..(Len(end) - 1) : end[Len(end) - i] = seq[Len(seq) - i]
HistoryIsEnd == IsEnd(history, counted)

Same(seq, i) ==
    \A j, k \in 1..Threshold : seq[i + j] = seq[i + k]
Alternate(seq, i) ==
    \A j, k \in 1..(2 * Threshold) : j % 2 = k % 2 => seq[i + j] = seq[i + k]
NoneSame == HistorySize >= Threshold - 1 =>
    \A i \in 0..(Len(counted) - Threshold) : ~Same(counted, i)
NoneAlternate == HistorySize >= 3 /\ HistorySize >= 2 * Threshold - 2 =>
    \A i \in 0..(Len(counted) - 2 * Threshold) : ~Alternate(counted, i)
RepeatInv == HistoryIsEnd /\ (Blocking => NoneSame /\ NoneAlternate)

LEMMA CountAtLeast ==
    ASSUME NEW n \in Nat, NEW m \in Nat, m <= n, NEW S, S \subseteq 1..n, 1..m \subseteq S
    PROVE  Cardinality(S) >= m /\ Cardinality(S) \in Nat
<1>1. IsFiniteSet(1..n) /\ IsFiniteSet(1..m) /\ Cardinality(1..m) = m
  BY FS_Interval
<1>2. IsFiniteSet(S)
  BY <1>1, FS_Subset
<1>3. Cardinality(1..m) <= Cardinality(S) /\ Cardinality(S) \in Nat
  BY <1>2, FS_Subset, FS_CardinalityType
<1>4. QED
  BY <1>1, <1>3

(* As many equal calls before this one as there are are counted. *)
LEMMA RepeatsCount ==
    ASSUME LoopTypeOK, NEW s \in Signature, NEW m \in Nat, m <= Len(history),
           \A j \in 1..m : history[Len(history) + 1 - j] = s
    PROVE  Repeats(s) >= m + 1
<1> DEFINE S == {k \in 1..Len(history) : \A j \in 1..k : history[Len(history) + 1 - j] = s}
<1>1. Len(history) \in Nat
  BY DEF LoopTypeOK
<1>2. S \subseteq 1..Len(history) /\ 1..m \subseteq S
  BY <1>1
<1>3. Repeats(s) = 1 + Cardinality(S)
  BY DEF Repeats
<1> HIDE DEF S
<1>4. Cardinality(S) >= m /\ Cardinality(S) \in Nat
  BY <1>1, <1>2, CountAtLeast
<1>5. QED
  BY <1>3, <1>4

LEMMA PairsCount ==
    ASSUME LoopTypeOK, NEW s \in Signature, NEW m \in Nat, 2 * m <= Len(history),
           Len(history) >= 3, history[Len(history)] # s,
           \A j \in 1..m : /\ history[Len(history) + 2 - 2 * j] = history[Len(history)]
                           /\ history[Len(history) + 1 - 2 * j] = s
    PROVE  Pairs(s) >= m + 1
<1> DEFINE n == Len(history)
           S == {k \in 1..(n \div 2) : \A j \in 1..k :
                    history[n + 2 - 2 * j] = history[n] /\ history[n + 1 - 2 * j] = s}
<1>1. n \in Nat /\ n \div 2 \in Nat /\ m <= n \div 2
  BY DEF LoopTypeOK
<1>2. S \subseteq 1..(n \div 2) /\ 1..m \subseteq S
  BY <1>1
<1>3. Pairs(s) = 1 + Cardinality(S)
  BY DEF Pairs
<1> HIDE DEF S
<1>4. Cardinality(S) >= m /\ Cardinality(S) \in Nat
  BY <1>1, <1>2, CountAtLeast
<1>5. QED
  BY <1>3, <1>4

(* A call that is not stopped completes no repetition. *)
LEMMA NewSame ==
    ASSUME LoopTypeOK, HistoryIsEnd, Blocking, HistorySize >= Threshold - 1,
           NEW s \in Signature, ~Stuck(s),
           NEW i, i = Len(counted) + 1 - Threshold, i >= 0
    PROVE  ~Same(Append(counted, s), i)
<1> SUFFICES ASSUME Same(Append(counted, s), i) PROVE FALSE
  OBVIOUS
<1>1. /\ Threshold \in Nat \ {0} /\ HistorySize \in Nat /\ counted \in Seq(Signature)
      /\ Len(counted) \in Nat /\ Len(history) \in Nat
  <2>1. Threshold \in Nat \ {0} /\ HistorySize \in Nat
    BY LoopAssumption
  <2>2. counted \in Seq(Signature) /\ history \in Seq(Signature)
    BY DEF LoopTypeOK
  <2>3. QED
    BY <2>1, <2>2
<1>2. Threshold - 1 \in Nat /\ Threshold - 1 <= Len(history)
  BY <1>1 DEF HistoryIsEnd, IsEnd, Smaller
<1>3. \A j \in 1..(Threshold - 1) : history[Len(history) + 1 - j] = s
  <2> TAKE j \in 1..(Threshold - 1)
  <2>1. /\ Threshold - j \in 1..Threshold /\ Threshold \in 1..Threshold
        /\ i + Threshold = Len(counted) + 1
        /\ i + (Threshold - j) = Len(counted) - (j - 1)
        /\ Len(counted) - (j - 1) \in 1..Len(counted)
    BY <1>1
  <2>2. Append(counted, s)[Len(counted) - (j - 1)] = Append(counted, s)[Len(counted) + 1]
    BY <2>1 DEF Same
  <2>3. counted[Len(counted) - (j - 1)] = s
    BY <1>1, <2>1, <2>2
  <2>4. j - 1 \in 0..(Len(history) - 1) /\ Len(history) + 1 - j = Len(history) - (j - 1)
    BY <1>1, <1>2
  <2>5. QED
    BY <2>3, <2>4 DEF HistoryIsEnd, IsEnd
<1>4. Repeats(s) >= (Threshold - 1) + 1
  BY <1>2, <1>3, RepeatsCount
<1>5. QED
  BY <1>1, <1>4 DEF Stuck

LEMMA NewAlternate ==
    ASSUME LoopTypeOK, HistoryIsEnd, Blocking,
           HistorySize >= 3, HistorySize >= 2 * Threshold - 2,
           NEW s \in Signature, ~Stuck(s),
           NEW i, i = Len(counted) + 1 - 2 * Threshold, i >= 0
    PROVE  ~Alternate(Append(counted, s), i)
<1> SUFFICES ASSUME Alternate(Append(counted, s), i) PROVE FALSE
  OBVIOUS
<1> DEFINE h == Len(history)
           n == Len(counted)
<1>1. /\ Threshold \in Nat \ {0} /\ HistorySize \in Nat /\ counted \in Seq(Signature)
      /\ n \in Nat /\ h \in Nat
  <2>1. Threshold \in Nat \ {0} /\ HistorySize \in Nat
    BY LoopAssumption
  <2>2. counted \in Seq(Signature) /\ history \in Seq(Signature)
    BY DEF LoopTypeOK
  <2>3. QED
    BY <2>1, <2>2
<1>2. ~(Repeats(s) >= Threshold) /\ ~(Pairs(s) >= Threshold)
  BY DEF Stuck
<1>3. Threshold >= 2
  <2>1. Repeats(s) >= 0 + 1
    BY <1>1, RepeatsCount
  <2>2. QED
    BY <1>1, <1>2, <2>1
<1>4. h >= 3 /\ h >= 2 * Threshold - 2 /\ h <= n
  BY <1>1, <1>3 DEF HistoryIsEnd, IsEnd, Smaller
<1>5. \A j \in 1..h : history[h + 1 - j] = counted[n + 1 - j]
  <2> TAKE j \in 1..h
  <2>1. j - 1 \in 0..(h - 1) /\ h + 1 - j = h - (j - 1) /\ n + 1 - j = n - (j - 1)
    BY <1>1
  <2>2. QED
    BY <2>1 DEF HistoryIsEnd, IsEnd
(* The j-th call before the new one, seen from the beginning of the row. *)
<1>6. \A j \in 1..(2 * Threshold - 2) :
         /\ j % 2 = 0 => counted[n + 1 - j] = s
         /\ j % 2 = 1 => counted[n + 1 - j] = counted[n]
  <2> TAKE j \in 1..(2 * Threshold - 2)
  <2> DEFINE w == Append(counted, s)
  <2>1. /\ 2 * Threshold - j \in 1..(2 * Threshold) /\ 2 * Threshold \in 1..(2 * Threshold)
        /\ 2 * Threshold - 1 \in 1..(2 * Threshold)
        /\ i + 2 * Threshold = n + 1
        /\ i + (2 * Threshold - j) = n + 1 - j /\ i + (2 * Threshold - 1) = n
        /\ n + 1 - j \in 1..n /\ n \in 1..n
    BY <1>1, <1>3, <1>4
  <2>2. /\ j % 2 = 0 => (2 * Threshold - j) % 2 = (2 * Threshold) % 2
        /\ j % 2 = 1 => (2 * Threshold - j) % 2 = (2 * Threshold - 1) % 2
    BY <1>1
  <2>3. w[n + 1 - j] = counted[n + 1 - j] /\ w[n] = counted[n] /\ w[n + 1] = s
    BY <1>1, <2>1
  <2>4. Alternate(w, i)
    OBVIOUS
  <2> HIDE DEF w, n
  <2>5. ASSUME j % 2 = 0 PROVE w[n + 1 - j] = w[n + 1]
    <3>1. w[i + (2 * Threshold - j)] = w[i + 2 * Threshold]
      BY <2>1, <2>2, <2>4, <2>5 DEF Alternate
    <3>2. QED
      BY <2>1, <3>1
  <2>6. ASSUME j % 2 = 1 PROVE w[n + 1 - j] = w[n]
    <3>1. w[i + (2 * Threshold - j)] = w[i + (2 * Threshold - 1)]
      BY <2>1, <2>2, <2>4, <2>6 DEF Alternate
    <3>2. QED
      BY <2>1, <3>1
  <2>7. QED
    BY <2>3, <2>5, <2>6
<1>7. history[h] = counted[n]
  <2>1. 1 \in 1..h /\ h + 1 - 1 = h /\ n + 1 - 1 = n
    BY <1>1, <1>4
  <2>2. QED
    BY <1>5, <2>1
<1>8. CASE counted[n] = s
  <2>1. Threshold - 1 \in Nat /\ Threshold - 1 <= h
    BY <1>1, <1>4
  <2>2. \A j \in 1..(Threshold - 1) : history[h + 1 - j] = s
    <3> TAKE j \in 1..(Threshold - 1)
    <3>1. j \in 1..(2 * Threshold - 2) /\ j \in 1..h /\ (j % 2 = 0 \/ j % 2 = 1)
      BY <1>1, <1>4
    <3>2. QED
      BY <1>5, <1>6, <1>8, <3>1
  <2>3. Repeats(s) >= (Threshold - 1) + 1
    BY <2>1, <2>2, RepeatsCount
  <2>4. QED
    BY <1>1, <1>2, <2>3
<1>9. CASE counted[n] # s
  <2>1. Threshold - 1 \in Nat /\ 2 * (Threshold - 1) <= h
    BY <1>1, <1>4
  <2>2. \A j \in 1..(Threshold - 1) : /\ history[h + 2 - 2 * j] = history[h]
                                      /\ history[h + 1 - 2 * j] = s
    <3> TAKE j \in 1..(Threshold - 1)
    <3>1. /\ 2 * j - 1 \in 1..(2 * Threshold - 2) /\ 2 * j \in 1..(2 * Threshold - 2)
          /\ 2 * j - 1 \in 1..h /\ 2 * j \in 1..h
          /\ (2 * j - 1) % 2 = 1 /\ (2 * j) % 2 = 0
          /\ h + 1 - (2 * j - 1) = h + 2 - 2 * j
      BY <1>1, <1>4
    <3>2. history[h + 1 - (2 * j - 1)] = counted[n]
      BY <1>5, <1>6, <3>1
    <3>3. history[h + 1 - (2 * j)] = s
      BY <1>5, <1>6, <3>1
    <3>4. QED
      BY <1>7, <3>1, <3>2, <3>3
  <2>3. Pairs(s) >= (Threshold - 1) + 1
    BY <1>4, <1>7, <1>9, <2>1, <2>2, PairsCount
  <2>4. QED
    BY <1>1, <1>2, <2>3
<1>10. QED
  BY <1>8, <1>9

(* What the detector keeps of one call more. *)
LEMMA EndKept ==
    ASSUME NEW end \in Seq(Signature), NEW seq \in Seq(Signature), IsEnd(end, seq),
           NEW s \in Signature
    PROVE  /\ Len(end) + 1 > HistorySize => IsEnd(Tail(Append(end, s)), Append(seq, s))
           /\ ~(Len(end) + 1 > HistorySize) => IsEnd(Append(end, s), Append(seq, s))
<1> DEFINE h == Append(end, s)
           g == Append(seq, s)
           n == Len(end)
           c == Len(seq)
<1>1. n \in Nat /\ c \in Nat /\ HistorySize \in Nat /\ HistorySize > 0
  BY Numbers
<1>2. /\ h \in Seq(Signature) /\ Len(h) = n + 1 /\ h # <<>> /\ h[n + 1] = s
      /\ \A i \in 1..n : h[i] = end[i]
      /\ Len(g) = c + 1 /\ g[c + 1] = s
      /\ \A i \in 1..c : g[i] = seq[i]
  OBVIOUS
<1>3. /\ n = IF c < HistorySize THEN c ELSE HistorySize
      /\ \A i \in 0..(n - 1) : end[n - i] = seq[c - i]
  BY DEF IsEnd, Smaller
<1> HIDE DEF h, g, n, c
<1>4. \A i \in 0..n : h[n + 1 - i] = g[c + 1 - i]
  <2> TAKE i \in 0..n
  <2>1. CASE i = 0
    BY <1>1, <1>2, <2>1
  <2>2. CASE i # 0
    <3>1. /\ i - 1 \in 0..(n - 1) /\ n + 1 - i = n - (i - 1) /\ c + 1 - i = c - (i - 1)
          /\ n + 1 - i \in 1..n /\ c + 1 - i \in 1..c
      BY <1>1, <1>3, <2>2
    <3>2. h[n + 1 - i] = end[n - (i - 1)] /\ g[c + 1 - i] = seq[c - (i - 1)]
      BY <1>2, <3>1
    <3>3. QED
      BY <1>3, <3>1, <3>2
  <2>3. QED
    BY <2>1, <2>2
<1>5. ASSUME n + 1 > HistorySize PROVE IsEnd(Tail(h), g)
  <2> DEFINE t == Tail(h)
  <2>1. Len(t) = n /\ \A i \in 1..n : t[i] = h[i + 1]
    BY <1>1, <1>2
  <2> HIDE DEF t
  <2>2. n = HistorySize /\ c >= HistorySize
    BY <1>1, <1>3, <1>5
  <2>3. Len(t) = Smaller(Len(g), HistorySize)
    BY <1>1, <1>2, <2>1, <2>2 DEF Smaller
  <2>4. \A i \in 0..(n - 1) : t[n - i] = g[c + 1 - i]
    <3> TAKE i \in 0..(n - 1)
    <3>1. n - i \in 1..n /\ (n - i) + 1 = n + 1 - i /\ i \in 0..n
      BY <1>1
    <3>2. QED
      BY <1>4, <2>1, <3>1
  <2>5. \A i \in 0..(Len(t) - 1) : t[Len(t) - i] = g[Len(g) - i]
    <3> TAKE i \in 0..(Len(t) - 1)
    <3>1. i \in 0..(n - 1) /\ Len(t) - i = n - i /\ Len(g) - i = c + 1 - i
      BY <1>1, <1>2, <2>1
    <3>2. QED
      BY <2>4, <3>1
  <2>6. IsEnd(t, g)
    BY <2>3, <2>5 DEF IsEnd
  <2>7. QED
    BY <2>6 DEF t
<1>6. ASSUME ~(n + 1 > HistorySize) PROVE IsEnd(h, g)
  <2>1. Len(h) = Smaller(Len(g), HistorySize)
    BY <1>1, <1>2, <1>3, <1>6 DEF Smaller
  <2>2. 0..(Len(h) - 1) = 0..n
    BY <1>1, <1>2
  <2>3. \A i \in 0..(Len(h) - 1) : h[Len(h) - i] = g[Len(g) - i]
    <3> TAKE i \in 0..(Len(h) - 1)
    <3>1. i \in 0..n /\ Len(h) - i = n + 1 - i /\ Len(g) - i = c + 1 - i
      BY <1>1, <1>2, <2>2
    <3>2. QED
      BY <1>4, <3>1
  <2>4. QED
    BY <2>1, <2>3 DEF IsEnd
<1>7. QED
  BY <1>5, <1>6 DEF h, g, n

LEMMA NextRepeatInv == LoopTypeOK /\ RepeatInv /\ [Next]_vars => RepeatInv'
<1> SUFFICES ASSUME LoopTypeOK, RepeatInv, [Next]_vars PROVE RepeatInv'
  OBVIOUS
<1>1. CASE UNCHANGED <<history, counted>>
  BY <1>1 DEF RepeatInv, HistoryIsEnd, IsEnd, NoneSame, NoneAlternate, Same, Alternate
<1>2. ASSUME NEW s \in Surface, NEW w \in BOOLEAN, Begin(s, w) PROVE RepeatInv'
  <2>1. history' = <<>> /\ counted' = <<>> /\ Len(counted') = 0 /\ Len(history') = 0
    BY <1>2 DEF Begin
  <2>2. Threshold \in Nat \ {0} /\ HistorySize \in Nat \ {0}
    BY LoopAssumption
  <2>3. 0..(0 - 1) = {} /\ 0..(0 - Threshold) = {} /\ 0..(0 - 2 * Threshold) = {}
    BY <2>2
  <2>4. QED
    BY <2>1, <2>2, <2>3 DEF RepeatInv, HistoryIsEnd, IsEnd, Smaller, NoneSame, NoneAlternate
<1>3. ASSUME NEW ok \in BOOLEAN, Handle(ok) PROVE RepeatInv'
  <2> DEFINE s == Head(turn)
  <2>1. s \in Signature /\ ~Stuck(s)
    BY <1>3 DEF Handle, LoopTypeOK
  <2>2. \/ UNCHANGED <<history, counted>>
        \/ history' = Remembered(s) /\ counted' = Append(counted, s)
    BY <1>3 DEF Handle
  <2> HIDE DEF s
  <2>3. CASE history' = Remembered(s) /\ counted' = Append(counted, s)
    <3>1. /\ counted \in Seq(Signature) /\ Len(counted) \in Nat
          /\ Len(counted') = Len(counted) + 1
          /\ \A i \in 1..Len(counted) : counted'[i] = counted[i]
          /\ Threshold \in Nat \ {0}
      BY <2>1, <2>3, LoopAssumption DEF LoopTypeOK
    <3>2. HistoryIsEnd'
      <4>1. history \in Seq(Signature) /\ Len(Append(history, s)) = Len(history) + 1
        BY <2>1 DEF LoopTypeOK
      <4>2. QED
        BY <2>1, <2>3, <3>1, <4>1, EndKept DEF RepeatInv, HistoryIsEnd, Remembered
    <3>3. ASSUME Blocking, HistorySize >= Threshold - 1,
                 NEW i \in 0..(Len(counted') - Threshold)
          PROVE  ~Same(counted', i)
      <4>1. CASE i = Len(counted) + 1 - Threshold
        BY <2>1, <2>3, <3>1, <3>3, <4>1, NewSame DEF RepeatInv
      <4>2. CASE i # Len(counted) + 1 - Threshold
        <5>1. i \in 0..(Len(counted) - Threshold)
          BY <3>1, <4>2
        <5>2. \A j \in 1..Threshold : counted'[i + j] = counted[i + j]
          BY <3>1, <5>1
        <5>3. ~Same(counted, i)
          BY <3>3, <5>1 DEF RepeatInv, NoneSame
        <5>4. QED
          BY <5>2, <5>3 DEF Same
      <4>3. QED
        BY <4>1, <4>2
    <3>4. ASSUME Blocking, HistorySize >= 3, HistorySize >= 2 * Threshold - 2,
                 NEW i \in 0..(Len(counted') - 2 * Threshold)
          PROVE  ~Alternate(counted', i)
      <4>1. CASE i = Len(counted) + 1 - 2 * Threshold
        BY <2>1, <2>3, <3>1, <3>4, <4>1, NewAlternate DEF RepeatInv
      <4>2. CASE i # Len(counted) + 1 - 2 * Threshold
        <5>1. i \in 0..(Len(counted) - 2 * Threshold)
          BY <3>1, <4>2
        <5>2. \A j \in 1..(2 * Threshold) : counted'[i + j] = counted[i + j]
          BY <3>1, <5>1
        <5>3. ~Alternate(counted, i)
          BY <3>4, <5>1 DEF RepeatInv, NoneAlternate
        <5>4. QED
          BY <5>2, <5>3 DEF Alternate
      <4>3. QED
        BY <4>1, <4>2
    <3>5. QED
      BY <3>2, <3>3, <3>4 DEF RepeatInv, NoneSame, NoneAlternate
  <2>4. QED
    BY <1>1, <2>2, <2>3
<1>4. CASE Ask \/ Stop
  BY <1>1, <1>4
     DEF Ask, Stop, Outage, PromptTooLong, RequestFails, Recover, EmptyAnswer, SimulatedCall,
         Prompted, Answer, CallTools
<1>5. QED
  BY <1>1, <1>2, <1>3, <1>4
     DEF Next, Work, Chat, Cancel, RoundsSpent, vars, loopVars

(* NoEndlessRepeat: with blocking on, no call is run Threshold times in a  *)
(* row and no two calls take turns Threshold times, for any length of the  *)
(* history that can hold what is to be seen (_generic_repeat_count,        *)
(* _ping_pong_count, maybe_block_tool_call).                               *)
THEOREM RepetitionIsStopped == Spec => []NoEndlessRepeat
<1>1. Init => RepeatInv
  <2> SUFFICES ASSUME Init PROVE RepeatInv
    OBVIOUS
  <2>1. history = <<>> /\ counted = <<>> /\ Len(counted) = 0 /\ Len(history) = 0
    BY DEF Init
  <2>2. Threshold \in Nat \ {0} /\ HistorySize \in Nat \ {0}
    BY LoopAssumption
  <2>3. 0..(0 - 1) = {} /\ 0..(0 - Threshold) = {} /\ 0..(0 - 2 * Threshold) = {}
    BY <2>2
  <2>4. QED
    BY <2>1, <2>2, <2>3 DEF RepeatInv, HistoryIsEnd, IsEnd, Smaller, NoneSame, NoneAlternate
<1>2. LoopTypeOK /\ RepeatInv => NoEndlessRepeat
  <2> SUFFICES ASSUME LoopTypeOK, Blocking, NoneSame, NoneAlternate
               PROVE  NoEndlessRepeat
    BY DEF RepeatInv, NoEndlessRepeat
  <2>1. ASSUME HistorySize >= Threshold - 1, NEW i \in 0..(Len(counted) - Threshold),
               \A j, k \in 1..Threshold : j % 1 = k % 1 => counted[i + j] = counted[i + k]
        PROVE  FALSE
    <3>1. \A j \in 1..Threshold : j % 1 = 0
      BY LoopAssumption
    <3>2. Same(counted, i)
      BY <2>1, <3>1 DEF Same
    <3>3. QED
      BY <2>1, <3>2 DEF NoneSame
  <2>2. ASSUME HistorySize >= 3, HistorySize >= 2 * Threshold - 2,
               NEW i \in 0..(Len(counted) - 2 * Threshold),
               \A j, k \in 1..(2 * Threshold) :
                  j % 2 = k % 2 => counted[i + j] = counted[i + k]
        PROVE  FALSE
    BY <2>2 DEF NoneAlternate, Alternate
  <2>3. QED
    BY <2>1, <2>2 DEF NoEndlessRepeat
<1>3. QED
  BY <1>1, <1>2, LoopTypes, NextRepeatInv, PTL DEF Spec
=============================================================================
