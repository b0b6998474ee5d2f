------------------------------ MODULE Dispatch ------------------------------
(***************************************************************************)
(* Notification handlers of bendio/radio.py: on_notification(), the detach *)
(* functions it returns, and the loop of _on_frame() over the handlers.    *)
(*                                                                         *)
(* The loop is one callback of the event loop, a step per handler called.  *)
(* A handler may itself attach and detach; whether it then returns or      *)
(* raises makes no difference, the loop swallows the exception.            *)
(***************************************************************************)
EXTENDS Naturals, FiniteSets, SequencesExt

CONSTANTS Functions,     \* what may be registered
          MaxAttached,   \* bounds the calls of on_notification()
          MaxEvents      \* bounds the event notifications

ASSUME DispatchAssumption == {MaxAttached, MaxEvents} \subseteq Nat

VARIABLES handlers,   \* _notif_handlers
          attached,   \* the function of each on_notification() so far
          detached,   \* those whose detach function has been called
          robbed,     \* a second detach() took another registration's entry
          pending,    \* the rest of the snapshot _on_frame() goes through
          events, calls,
          due         \* the calls each function should get

dispatchVars == <<handlers, attached, detached, robbed, pending, events, calls, due>>

DispatchTypeOK ==
  /\ handlers \in Seq(Functions) /\ attached \in Seq(Functions) /\ pending \in Seq(Functions)
  /\ Len(handlers) <= Len(attached) /\ Len(attached) <= MaxAttached
  /\ detached \subseteq DOMAIN attached /\ robbed \in BOOLEAN
  /\ events \in 0..MaxEvents /\ {calls, due} \subseteq [Functions -> Nat]

DispatchInit ==
  /\ handlers = <<>> /\ attached = <<>> /\ detached = {} /\ robbed = FALSE
  /\ pending = <<>> /\ events = 0
  /\ calls = [h \in Functions |-> 0] /\ due = [h \in Functions |-> 0]

\* No handler is running: other callbacks and coroutines get their turn.
Idle == pending = <<>>

Listening == DOMAIN attached \ detached
-----------------------------------------------------------------------------
\* A mistake: the handler is entered twice.
AttachTwice(h) == /\ Len(attached) < MaxAttached
                  /\ handlers' = handlers \o <<h, h>>
                  /\ attached' = Append(attached, h)
                  /\ UNCHANGED <<detached, robbed>>

\* on_notification(h)
Attach(h) == /\ Len(attached) < MaxAttached
             /\ handlers' = Append(handlers, h)
             /\ attached' = Append(attached, h)
             /\ UNCHANGED <<detached, robbed>>

\* _detach() of the r-th registration, perhaps not for the first time.
Detach(r) == /\ r \in DOMAIN attached
             /\ handlers' = RemoveFirst(handlers, attached[r])
             /\ robbed' = (robbed \/ (r \in detached /\ Contains(handlers, attached[r])))
             /\ detached' = detached \cup {r}
             /\ UNCHANGED attached

\* _on_frame() with an event notification.
Event == /\ Idle /\ events < MaxEvents /\ events' = events + 1
         /\ pending' = handlers
         /\ due' = [h \in Functions |-> due[h] + Cardinality({r \in Listening : attached[r] = h})]
         /\ UNCHANGED <<handlers, attached, detached, robbed, calls>>

Changes == \/ UNCHANGED <<handlers, attached, detached, robbed>>
           \/ \E h \in Functions : Attach(h)
           \/ \E r \in DOMAIN attached : Detach(r)

\* A mistake: the loop runs over the list itself, and what leaves it moves the rest up.
CallLive == /\ ~Idle
            /\ calls' = [calls EXCEPT ![Head(pending)] = @ + 1]
            /\ Changes
            /\ pending' = IF Len(handlers') < Len(handlers) /\ Len(pending) > 1
                          THEN Tail(Tail(pending)) ELSE Tail(pending)
            /\ UNCHANGED <<events, due>>

\* The next handler of the snapshot.
CallHandler == /\ ~Idle
               /\ calls' = [calls EXCEPT ![Head(pending)] = @ + 1]
               /\ Changes
               /\ pending' = Tail(pending)
               /\ UNCHANGED <<events, due>>
=============================================================================
