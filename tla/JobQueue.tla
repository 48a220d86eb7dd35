------------------------------- MODULE JobQueue -------------------------------
(***************************************************************************)
(* What app/services/queue.py promises the code on either side of a queue: *)
(* a message leaves it only once a handler that received it has returned,  *)
(* or after MaxReceive deliveries, when it goes to the dead-letter queue;  *)
(* a handler that raises leaves its message where it is; a message that    *)
(* left is not seen again.  Until it leaves a message may be delivered to  *)
(* any number of handlers, also to several at once: its visibility timeout *)
(* may run out at any moment.                                              *)
(*                                                                         *)
(* consume_jobs receives up to ten messages and handles them in turn.  A   *)
(* message that waits for its turn is one whose handler has begun and done *)
(* nothing yet, so each message has a handler of its own here.             *)
(***************************************************************************)
EXTENDS Naturals

CONSTANTS Messages, Handlers,
          MaxReceive    \* maxReceiveCount of the queue's redrive policy

VARIABLES queued,       \* messages in the queue
          received,     \* ReceiveCount of each message
          dead,         \* some message went to the dead-letter queue
          handler       \* what each handler is doing, and with which message

vars == <<queued, received, dead, handler>>

Waiting == [does |-> "waiting"]
Handling(i) == [does |-> "handling", msg |-> i]   \* the handler has not returned
Handled(i) == [does |-> "handled", msg |-> i]     \* it has; delete_message is next

Init ==
    /\ queued = {} /\ received = [i \in Messages |-> 0] /\ dead = FALSE
    /\ handler = [h \in Handlers |-> Waiting]

Send(i) ==
    /\ i \notin queued /\ received[i] = 0
    /\ queued' = queued \cup {i}
    /\ UNCHANGED <<received, dead, handler>>

\* Every delivery is counted.
Received(i) ==
    /\ i \in queued /\ received[i] < MaxReceive
    /\ received' = [received EXCEPT ![i] = @ + 1]

Becomes(h, state) == handler' = [handler EXCEPT ![h] = state]

\* The handler may return before anything else happens.
Deliver(h, i) ==
    /\ handler[h] = Waiting /\ Received(i)
    /\ Becomes(h, Handling(i)) \/ Becomes(h, Handled(i))
    /\ UNCHANGED <<queued, dead>>

Return(h) ==
    /\ handler[h].does = "handling"
    /\ Becomes(h, Handled(handler[h].msg))
    /\ UNCHANGED <<queued, received, dead>>

Delete(h) ==
    /\ handler[h].does = "handled"
    /\ queued' = queued \ {handler[h].msg}
    /\ Becomes(h, Waiting)
    /\ UNCHANGED <<received, dead>>

\* Delivered, handled and deleted before anything else happens.
Dispatch(h, i) ==
    /\ handler[h] = Waiting /\ Received(i)
    /\ queued' = queued \ {i}
    /\ UNCHANGED <<dead, handler>>

\* The handler raises, or its process dies before the message is deleted.
Raise(h) ==
    /\ handler[h].does \in {"handling", "handled"}
    /\ Becomes(h, Waiting)
    /\ UNCHANGED <<queued, received, dead>>

Redrive(i) ==
    /\ i \in queued /\ received[i] = MaxReceive
    /\ queued' = queued \ {i} /\ dead' = TRUE
    /\ UNCHANGED <<received, handler>>

Next ==
    \/ \E i \in Messages : Send(i) \/ Redrive(i)
    \/ \E h \in Handlers : \/ Return(h) \/ Delete(h) \/ Raise(h)
                           \/ \E i \in Messages : Deliver(h, i) \/ Dispatch(h, i)

Spec == Init /\ [][Next]_vars
=============================================================================
