------------------------------- MODULE ToolLoop -------------------------------
(***************************************************************************)
(* core/task_runtime.py: one iteration of the agent, complete_chat, is a   *)
(* loop of model turns.  A turn asks for tools, which are run one after    *)
(* the other, or says something; the iteration ends with a reply.          *)
(*                                                                         *)
(* The shell session (consent, verification) is left out: the profiles     *)
(* core/brain.py can select, standard, inner_tick and zero_tools, have no  *)
(* shell policy.  So is tool_infra_unavailable, which no registered tool   *)
(* returns while the dispatcher's services are there, and they always are. *)
(* The results of a turn are messages of their own, as the providers with  *)
(* role "tool" have them; the others put them into one.                    *)
(***************************************************************************)
EXTENDS CircuitBreaker, SequencesExt

CONSTANTS
    Surface,          \* what an iteration serves: a chat, an inner tick
    Rounds,           \* max_tool_rounds of each
    Budget,           \* no_action_budget of each
    Burst,            \* error_burst_threshold of each
    Delegate,         \* signatures that start a background task
    MaxCalls,         \* bound: tool calls in one model turn
    Blocking,         \* loop_detection.blocking
    HistorySize,      \* loop_detection.history_size
    Threshold,        \* loop_detection.global_circuit_breaker_threshold
    MaxCompacts,      \* MAX_REACTIVE_COMPACT
    MaxEmpties,       \* MAX_OUTPUT_RECOVERY
    MaxOutages,       \* MAX_CONSECUTIVE_API_ERRORS
    KeepRecent        \* KEEP_RECENT of _reactive_compact

ASSUME LoopAssumption ==
    /\ Delegate \subseteq Signature
    /\ Rounds \in [Surface -> Nat \ {0}]
    /\ Budget \in [Surface -> Nat \ {0}]
    /\ Burst \in [Surface -> Nat \ {0}]
    /\ Blocking \in BOOLEAN
    /\ {MaxCalls, HistorySize, Threshold} \subseteq Nat \ {0}
    /\ {MaxCompacts, MaxEmpties, MaxOutages, KeepRecent} \subseteq Nat

VARIABLES
    phase,        \* no iteration, about to ask the model, or running tools
    surface,      \* what the iteration serves
    writing,      \* was it asked to create a file or a directory
    round,        \* model turns so far
    budget,       \* no_action_budget.remaining
    errors,       \* error_guard.error_count
    spent,        \* recoveries used: LoopRecoveryState, simulated_tool_retries
    acted,        \* has_used_tools
    history,      \* loop_detection_state.history
    turn,         \* the calls of the model's turn still to be run
    got,          \* tool_results: how many of them are collected
    last,         \* last_payload
    messages,     \* what the iteration has added to ctx.messages
    reply,        \* how the iteration ended
    ran,          \* history: what came of the calls handled
    counted,      \* history: those of them the detector was told of
    quiet         \* history: answers without tool calls since the last one with

loopVars == <<phase, surface, writing, round, budget, errors, spent, acted,
              history, turn, got, last, messages, reply, ran, counted, quiet>>
vars == <<loopVars, breakerVars>>

(* The assistant's message with n tool calls, a tool result, and the user  *)
(* messages the runtime injects.                                           *)
Calls(n) == [kind |-> "calls", n |-> n]
Msg(k) == [kind |-> k, n |-> 1]
Results(n) == [i \in 1..n |-> Msg("result")]
Kind == {"result", "cleared", "reminder", "warning", "continue", "hint"}
Message == [kind : {"calls"}, n : 1..MaxCalls] \union [kind : Kind, n : {1}]
Recovery == [compacts : 0..MaxCompacts, empties : 0..MaxEmpties,
             outages : 0..MaxOutages, hints : 0..1]
Outcome == {"ok", "failed", "burst"}

(* Types; tool_results is empty between turns, no counter passes its limit,*)
(* and an iteration whose budget is used up is over.                       *)
LoopTypeOK ==
    /\ BreakerTypeOK
    /\ phase \in {"idle", "ask", "tools"}
    /\ surface \in Surface /\ writing \in BOOLEAN
    /\ round \in 0..Rounds[surface]
    /\ budget \in 0..Budget[surface]
    /\ errors \in Nat
    /\ spent \in Recovery
    /\ acted \in BOOLEAN
    /\ history \in Seq(Signature) /\ Len(history) <= HistorySize
    /\ turn \in Seq(Signature) /\ got \in Nat /\ got + Len(turn) <= MaxCalls
    /\ last \in {"none", "ok", "failed", "background"}
    /\ messages \in Seq(Message)
    /\ reply \in {"none", "text", "fallback", "failure", "silent", "stopped",
                  "raised", "cancelled"}
    /\ ran \in Seq(Outcome) /\ counted \in Seq(Signature)
    /\ quiet \in Nat
    /\ phase = "tools" <=> turn # <<>>
    /\ phase # "tools" => got = 0
    /\ phase # "idle" => budget > 0

Fresh == [compacts |-> 0, empties |-> 0, outages |-> 0, hints |-> 0]

Init ==
    /\ BreakerInit
    /\ phase = "idle" /\ surface \in Surface /\ writing = FALSE
    /\ round = 0 /\ budget = 0 /\ errors = 0 /\ spent = Fresh
    /\ acted = FALSE /\ history = <<>> /\ turn = <<>> /\ got = 0
    /\ last = "none" /\ messages = <<>>
    /\ reply = "none" /\ ran = <<>> /\ counted = <<>> /\ quiet = 0

-----------------------------------------------------------------------------
(* The beginning and the end of an iteration. *)

(* complete_chat with tools: a fresh ToolLoopContext. *)
Begin(s, w) ==
    /\ phase = "idle"
    /\ phase' = "ask" /\ surface' = s /\ writing' = w
    /\ round' = 0 /\ budget' = Budget[s] /\ errors' = 0 /\ spent' = Fresh
    /\ acted' = FALSE /\ history' = <<>> /\ last' = "none"
    /\ messages' = <<>> /\ reply' = "none"
    /\ ran' = <<>> /\ counted' = <<>> /\ quiet' = 0
    /\ UNCHANGED <<turn, got, breakerVars>>

(* complete_chat without tools: the model's text, or its error. *)
Chat ==
    /\ phase = "idle"
    /\ reply' \in {"text", "raised"}
    /\ UNCHANGED <<phase, surface, writing, round, budget, errors, spent, acted,
                   history, turn, got, last, messages, ran, counted, quiet,
                   breakerVars>>

EndWith(r) ==
    /\ phase' = "idle" /\ reply' = r
    /\ turn' = <<>> /\ got' = 0

(* The turn is cancelled, at any await: preempted, stopped or timed out.   *)
Cancel ==
    /\ phase # "idle"
    /\ EndWith("cancelled")
    /\ UNCHANGED <<surface, writing, round, budget, errors, spent, acted,
                   history, last, messages, ran, counted, quiet, breakerVars>>

(* run_task_loop returns max_rounds_exceeded: tool_fallback_reply, or      *)
(* failure_message.                                                        *)
RoundsSpent ==
    /\ phase = "ask" /\ round = Rounds[surface]
    /\ EndWith(IF writing THEN "failure" ELSE "fallback")
    /\ UNCHANGED <<surface, writing, round, budget, errors, spent, acted,
                   history, last, messages, ran, counted, quiet, breakerVars>>

-----------------------------------------------------------------------------
(* _run_step: the model is asked. *)

Asks ==
    /\ phase = "ask" /\ round < Rounds[surface]
    /\ round' = round + 1
    /\ UNCHANGED <<surface, writing, breakerVars>>

(* A recovery is tried if it has not been used up, else the error raised.  *)
Recover(kind, max, msgs) ==
    /\ IF spent[kind] < max
       THEN /\ spent' = [spent EXCEPT ![kind] = @ + 1]
            /\ messages' = msgs
            /\ UNCHANGED <<phase, reply, turn, got>>
       ELSE EndWith("raised") /\ UNCHANGED <<spent, messages>>
    /\ UNCHANGED <<budget, errors, acted, history, last, ran, counted, quiet>>

(* Overload, timeout or lost connection: asked again after a pause. *)
Outage == Asks /\ Recover("outages", MaxOutages, messages)

(* _reactive_compact: all but the newest results are emptied in place. *)
Compacted ==
    LET results == {i \in DOMAIN messages : messages[i].kind \in {"result", "cleared"}}
        old == {i \in results : Cardinality({j \in results : j > i}) >= KeepRecent}
    IN [i \in DOMAIN messages |-> IF i \in old THEN Msg("cleared") ELSE messages[i]]

PromptTooLong == Asks /\ Recover("compacts", MaxCompacts, Compacted)

RequestFails ==
    /\ Asks
    /\ EndWith("raised")
    /\ UNCHANGED <<budget, errors, spent, acted, history, last,
                   messages, ran, counted, quiet>>

(* Mutant of Answered: an answer does not count as one. *)
AnsweredFree ==
    /\ quiet' = quiet + 1
    /\ budget' = budget

(* An answer without tool calls uses the budget, once tools were used. *)
Answered ==
    /\ quiet' = quiet + 1
    /\ budget' = IF acted THEN budget - 1 ELSE budget

(* An empty answer, or one that describes a tool call instead of making    *)
(* it: the model is told so, and its answer dropped.                       *)
Prompted(kind, max, msg) ==
    /\ Asks
    /\ spent[kind] < max
    /\ spent' = [spent EXCEPT ![kind] = @ + 1, !.outages = 0]
    /\ messages' = Append(messages, Msg(msg))
    /\ quiet' = quiet + 1
    /\ UNCHANGED <<phase, budget, errors, acted, history, turn, got, last,
                   reply, ran, counted>>

EmptyAnswer == Prompted("empties", MaxEmpties, "continue")
SimulatedCall == Prompted("hints", 1, "hint")

(* _finalize_without_tool_calls. *)
FinalReply(text) ==
    IF writing THEN "failure"
    ELSE IF last = "background" THEN "silent"
    ELSE IF text THEN "text" ELSE "fallback"

(* An answer in words, or an empty one that is not asked for again: dropped *)
(* while the budget lasts, else the end of the iteration.                   *)
Answer(text) ==
    /\ Asks
    /\ ~text => spent.empties = MaxEmpties
    /\ spent' = [spent EXCEPT !.outages = 0]
    /\ Answered
    /\ IF acted /\ budget' > 0
       THEN UNCHANGED <<phase, reply, turn, got>>
       ELSE EndWith(FinalReply(text))
    /\ UNCHANGED <<errors, acted, history, last, messages, ran, counted>>

(* An answer with tool calls. *)
CallTools(calls) ==
    /\ Asks
    /\ spent' = [spent EXCEPT !.outages = 0]
    /\ phase' = "tools" /\ turn' = calls
    /\ acted' = TRUE /\ budget' = Budget[surface] /\ quiet' = 0
    /\ messages' = Append(messages, Calls(Len(calls)))
    /\ UNCHANGED <<errors, history, got, last, reply, ran, counted>>

-----------------------------------------------------------------------------
(* _run_step: the calls of the turn, one after the other. *)

(* _generic_repeat_count: this call and the equal ones before it. *)
Repeats(s) ==
    1 + Cardinality({k \in 1..Len(history) :
            \A j \in 1..k : history[Len(history) + 1 - j] = s})

(* _ping_pong_count: one, and the pairs of this call and the last one that *)
(* end the history.                                                        *)
Pairs(s) ==
    LET n == Len(history) IN
    IF n < 3 \/ history[n] = s THEN 0
    ELSE 1 + Cardinality({k \in 1..(n \div 2) :
                \A j \in 1..k : /\ history[n + 2 - 2 * j] = history[n]
                                /\ history[n + 1 - 2 * j] = s})

(* Mutant of Stuck: only the ping-pong detector blocks. *)
StuckPairs(s) == Blocking /\ Pairs(s) >= Threshold

Stuck(s) == Blocking /\ (Repeats(s) >= Threshold \/ Pairs(s) >= Threshold)

(* The call is not run, and what the turn has collected is dropped. *)
Stop ==
    /\ phase = "tools"
    /\ Stuck(Head(turn))
    /\ EndWith("stopped")
    /\ UNCHANGED <<surface, writing, round, budget, errors, spent, acted,
                   history, last, messages, ran, counted, quiet, breakerVars>>

(* Mutant of Record: a call that was refused extends the cooldown. *)
RecordRefusal(s, refused, ok) == IF ok THEN RecordSuccess(s) ELSE RecordFailure(s)

(* _execute_tool_call: a call that is cooling down is not run. *)
Record(s, refused, ok) ==
    IF refused THEN UNCHANGED breakerVars
    ELSE IF ok THEN RecordSuccess(s) ELSE RecordFailure(s)

(* Mutant of Trips: one failure more. *)
TripsLate == errors > Burst[surface]

(* record_error says that the burst threshold is reached. *)
Trips == errors + 1 >= Burst[surface]

(* Mutant of BurstMessages: the result of the failing call is left out. *)
BurstMessagesShort == messages \o Results(got) \o <<Msg("warning")>>

(* Mutant of BurstMessages: the turn is cut without a word. *)
BurstMessagesMute == messages \o Results(got + 1)

(* The results so far and the warning; the rest of the turn is dropped. *)
BurstMessages == messages \o Results(got + 1) \o <<Msg("warning")>>

(* The reminder goes in at once, the results when the turn is over. *)
TurnMessages(background) ==
    messages \o (IF background THEN <<Msg("reminder")>> ELSE <<>>)
             \o (IF Len(turn) = 1 THEN Results(got + 1) ELSE <<>>)

(* deque(maxlen = history_size). *)
Remembered(s) ==
    LET h == Append(history, s) IN IF Len(h) > HistorySize THEN Tail(h) ELSE h

Handle(ok) ==
    LET s == Head(turn)
        refused == ~Allowed(s)
        background == ok /\ s \in Delegate
        burst == ~ok /\ Trips
    IN
    /\ phase = "tools"
    /\ ~Stuck(s)
    /\ refused => ~ok
    /\ Record(s, refused, ok)
    /\ errors' = IF ~ok THEN errors + 1 ELSE IF errors > 0 THEN errors - 1 ELSE 0
    /\ ran' = Append(ran, IF ok THEN "ok" ELSE IF burst THEN "burst" ELSE "failed")
    /\ IF burst
       THEN /\ messages' = BurstMessages
            /\ turn' = <<>>
            /\ UNCHANGED <<history, counted, last>>
       ELSE /\ messages' = TurnMessages(background)
            /\ turn' = Tail(turn)
            /\ history' = Remembered(s) /\ counted' = Append(counted, s)
            /\ last' = IF background THEN "background" ELSE IF ok THEN "ok" ELSE "failed"
    /\ IF turn' = <<>> THEN phase' = "ask" /\ got' = 0
                       ELSE phase' = phase /\ got' = got + 1
    /\ UNCHANGED <<surface, writing, round, budget, spent, acted, reply, quiet>>

-----------------------------------------------------------------------------
Turns == UNION {[1..n -> Signature] : n \in 1..MaxCalls}

Ask ==
    \/ Outage \/ PromptTooLong \/ RequestFails
    \/ EmptyAnswer \/ SimulatedCall
    \/ \E text \in BOOLEAN : Answer(text)
    \/ \E calls \in Turns : CallTools(calls)

Work == Stop \/ \E ok \in BOOLEAN : Handle(ok)

Next ==
    \/ \E s \in Surface, w \in BOOLEAN : Begin(s, w)
    \/ Chat \/ Cancel \/ RoundsSpent \/ Ask \/ Work
    \/ Elapse /\ UNCHANGED loopVars

Spec == Init /\ [][Next]_vars

(* Time passes.  Nothing else is fair: a request or a tool call may hang   *)
(* until the deadline of its turn cancels it.                              *)
LiveSpec == Spec /\ WF_vars(Elapse /\ UNCHANGED loopVars)

-----------------------------------------------------------------------------
(* Properties. *)

Count(kinds) == Cardinality({i \in DOMAIN messages : messages[i].kind \in kinds})
Told == {"result", "cleared"}

(* What was added after the i-th message and before the model's next calls. *)
After(i) == {j \in DOMAIN messages :
                j > i /\ \A k \in (i + 1)..j : messages[k].kind # "calls"}
AnswersTo(i) == {j \in After(i) : messages[j].kind \in Told}

(* When the model is asked, every call it has made is answered, unless the *)
(* error burst guard cut the turn and told it so; nothing but the reminder *)
(* of a delegated task comes between the calls and their results.  (The    *)
(* order in which _run_step appends to the messages.)                      *)
RequestShape ==
    phase = "ask" => \A i \in DOMAIN messages : messages[i].kind = "calls" =>
        /\ \/ Cardinality(AnswersTo(i)) = messages[i].n
           \/ /\ Cardinality(AnswersTo(i)) \in 1..messages[i].n
              /\ \E j \in After(i) : messages[j].kind = "warning"
        /\ \A j \in After(i), k \in AnswersTo(i) :
               j < k => messages[j].kind \in Told \union {"reminder"}

(* Every call that was run, or refused, has its result in the next         *)
(* request, however its turn ended and whatever was compacted since.       *)
EveryResultIsTold == phase = "ask" => Count(Told) = Len(ran)

(* The model is not asked for ever by a model that does not act: each of   *)
(* its answers in a row that call no tool was paid for, by the budget or   *)
(* by a recovery (NoActionBudget, LoopRecoveryState), so they are bounded. *)
IdleAnswersBounded ==
    phase = "ask" =>
        /\ quiet <= spent.empties + spent.hints + (Budget[surface] - budget)
        /\ quiet < Budget[surface] + MaxEmpties + 1

(* When as many calls in a row as the burst threshold have failed, or were *)
(* refused, the model is warned before it is asked again (ErrorBurstGuard),*)
(* whatever succeeded before them and however they spread over turns.      *)
BurstIsTold ==
    LET n == Burst[surface] IN
    phase = "ask" /\ Len(ran) >= n
    /\ (\A i \in (Len(ran) - n + 1)..Len(ran) : ran[i] # "ok") =>
        \E i \in DOMAIN messages :
            /\ messages[i].kind = "warning"
            /\ \A j \in DOMAIN messages : messages[j].kind \in Told => j < i

(* With blocking on, neither the same call is run Threshold times in a row *)
(* nor two calls in turn Threshold times, as far as the history that is    *)
(* kept can tell; calls that tripped the burst guard are not counted, the  *)
(* code does not record them.                                              *)
NoEndlessRepeat ==
    LET n == Len(counted)
        Periodic(i, length, period) ==
            \A j, k \in 1..length :
                j % period = k % period => counted[i + j] = counted[i + k]
    IN Blocking =>
        /\ HistorySize >= Threshold - 1 =>
               ~\E i \in 0..(n - Threshold) : Periodic(i, Threshold, 1)
        /\ HistorySize >= 3 /\ HistorySize >= 2 * Threshold - 2 =>
               ~\E i \in 0..(n - 2 * Threshold) : Periodic(i, 2 * Threshold, 2)

(* A cooldown ends, however often the model tries the call meanwhile: a    *)
(* call that is not let through is no failure.                             *)
CoolingEnds == \A s \in Signature : []<>Allowed(s)
=============================================================================
