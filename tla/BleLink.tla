------------------------------- MODULE BleLink -------------------------------
(***************************************************************************)
(* The BLE transport of bendio/link.py: one BleLink object per element of  *)
(* Links, each wrapping one bleak client.  connect() and disconnect() are  *)
(* coroutines of two awaits each, so each is a chain of steps; between two *)
(* of them the radio may drop the connection and other tasks may run.      *)
(* What an await of bleak can return or raise is the environment's choice. *)
(***************************************************************************)
CONSTANT Links

VARIABLES up,          \* up[l]: BleakClient.is_connected of link l
          subscribed,  \* subscribed[l]: l's callback gets the indications
          step         \* step[l]: the await a coroutine of l is suspended at

linkVars == <<up, subscribed, step>>

\* "idle": no connect() or disconnect() of the link is in progress.
Steps == {"idle", "connecting", "subscribing",
          "unsubscribing", "disconnecting"}

LinkTypeOK == /\ up \in [Links -> BOOLEAN]
              /\ subscribed \in [Links -> BOOLEAN]
              /\ step \in [Links -> Steps]

LinkInit == /\ up = [l \in Links |-> FALSE]
            /\ subscribed = [l \in Links |-> FALSE]
            /\ step = [l \in Links |-> "idle"]

\* A coroutine of l moves from one await to the next.
Moves(l, from, to) == /\ step[l] = from
                      /\ step' = [step EXCEPT ![l] = to]
-----------------------------------------------------------------------------
\* connect(on_frame): await client.connect(), then await start_notify().
ConnectCall(l) == Moves(l, "idle", "connecting") /\ UNCHANGED <<up, subscribed>>

ConnectEstablished(l) == /\ Moves(l, "connecting", "subscribing")
                         /\ up' = [up EXCEPT ![l] = TRUE]
                         /\ UNCHANGED subscribed

ConnectFailed(l) == Moves(l, "connecting", "idle") /\ UNCHANGED <<up, subscribed>>

SubscribeDone(l) == /\ Moves(l, "subscribing", "idle")
                    /\ up[l]
                    /\ subscribed' = [subscribed EXCEPT ![l] = TRUE]
                    /\ UNCHANGED up

\* start_notify raises: connect() propagates it and leaves the client as it is.
SubscribeFailed(l) == Moves(l, "subscribing", "idle") /\ UNCHANGED <<up, subscribed>>

-----------------------------------------------------------------------------
\* disconnect() of a client that is not connected awaits nothing.
DisconnectNoop(l) == step[l] = "idle" /\ ~up[l] /\ UNCHANGED linkVars

DisconnectCall(l) == /\ up[l]
                     /\ Moves(l, "idle", "unsubscribing")
                     /\ UNCHANGED <<up, subscribed>>

\* stop_notify returns, or raises and disconnect() swallows the exception.
Unsubscribed(l) == /\ Moves(l, "unsubscribing", "disconnecting")
                   /\ subscribed' \in {subscribed, [subscribed EXCEPT ![l] = FALSE]}
                   /\ UNCHANGED up

DisconnectDone(l) == /\ Moves(l, "disconnecting", "idle")
                     /\ up' = [up EXCEPT ![l] = FALSE]
                     /\ subscribed' = [subscribed EXCEPT ![l] = FALSE]

DisconnectFailed(l) == Moves(l, "disconnecting", "idle") /\ UNCHANGED <<up, subscribed>>
-----------------------------------------------------------------------------
\* The radio goes out of range or is switched off, at any moment.
Drop(l) == /\ up[l]
           /\ up' = [up EXCEPT ![l] = FALSE]
           /\ subscribed' = [subscribed EXCEPT ![l] = FALSE]
           /\ UNCHANGED step

\* An indication of l may reach the on_frame callback passed to connect(): the
\* first ones while start_notify() is still on its way back.
CanIndicate(l) == up[l] /\ (subscribed[l] \/ step[l] = "subscribing")
=============================================================================
