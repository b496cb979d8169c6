----------------------------- MODULE EventQueue -----------------------------
(***************************************************************************)
(* core/event_queue.py and core/events.py: the one queue the main loop     *)
(* serves.  An event is its identity; what a handler looks at is constant. *)
(***************************************************************************)
EXTENDS Naturals, FiniteSets

CONSTANTS
    Event,     \* every event some producer will construct
    KindOf,    \* which handler an event is for
    ChatOf,    \* chat_id of a message
    TextOf,    \* what _classify_owner_over_owner_text makes of its text
    Nothing    \* None

(* "agent": an agent event for think_inner; "status": one to be delivered  *)
(* to a chat.  OperatorControlEvent is left out: nothing constructs one.   *)
Kind == {"owner", "user", "agent", "status", "tick", "shutdown"}
Text == {"ordinary", "probe", "cancel"}

ASSUME EventConstants ==
    /\ IsFiniteSet(Event)
    /\ KindOf \in [Event -> Kind]
    /\ TextOf \in [Event -> Text]
    /\ Nothing \notin Event

VARIABLES
    queue,     \* the events in the heap
    stamp      \* Event.timestamp as a rank, 0 before construction

queueVars == <<queue, stamp>>

Message == {e \in Event : KindOf[e] \in {"owner", "user"}}

QueueTypeOK ==
    /\ queue \subseteq Event
    /\ stamp \in [Event -> 0 .. Cardinality(Event)]

QueueInit ==
    /\ queue = {}
    /\ stamp = [e \in Event |-> 0]

Priority(e) ==
    CASE KindOf[e] = "owner"                        -> 0
      [] KindOf[e] \in {"user", "agent", "status"}  -> 1
      [] KindOf[e] = "tick"                         -> 2
      [] KindOf[e] = "shutdown"                     -> 4

Before(e, f) ==
    \/ Priority(e) < Priority(f)
    \/ Priority(e) = Priority(f) /\ stamp[e] < stamp[f]

Heads == {e \in queue : \A f \in queue \ {e} : Before(e, f)}

OwnerQueued == \E e \in queue : KindOf[e] = "owner"

(* A producer constructs an event and puts it at once: the queue has no    *)
(* limit, put never waits.                                                 *)
Put(e) ==
    /\ stamp[e] = 0
    /\ stamp' = [stamp EXCEPT ![e] = Cardinality({f \in Event : stamp[f] > 0}) + 1]
    /\ queue' = queue \cup {e}
=============================================================================
