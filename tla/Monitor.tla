------------------------------ MODULE Monitor ------------------------------
(***************************************************************************)
(* The commands of bendio/cli.py that talk to the radio over BLE, each a   *)
(* coroutine that asyncio.run() drives, and Ctrl-C.                        *)
(*                                                                         *)
(*   connect, channels, sniff   "async with Radio(address)"                *)
(*   sniff_all                  "async with BleakClient(address)"          *)
(*   library                    an application's own "async with Radio"    *)
(*                                                                         *)
(* What is awaited inside is a call to the radio: it answers, or raises    *)
(* (RequestReply says what a caller of Radio.send() sees).                 *)
(***************************************************************************)
EXTENDS BleLink, Dispatch

CONSTANTS Link,        \* the one link of the process
          Channels,    \* channels and characteristics gone through
          MaxSigints,  \* bounds the number of Ctrl-C
          PrintEvent   \* the handler of the connect command

ASSUME MonitorAssumption == /\ Links = {Link}
                            /\ {Channels, MaxSigints} \subseteq Nat
                            /\ PrintEvent \in Functions

VARIABLES cmd,
          pc,       \* where the coroutine is
          ip,       \* the next line of its program
          how,      \* how the command ended
          onSigint, \* what Ctrl-C does: "cancel" the task, or set "stop"
          stop,
          sigints,
          entered,  \* __aenter__ has returned
          spoilt    \* disconnect() raised, or Ctrl-C came in the middle of it

commandVars == <<cmd, pc, ip, how, onSigint, stop, sigints, entered, spoilt>>
vars == <<linkVars, dispatchVars, commandVars>>

\* The awaits of each command in the "async with": calls whose exception ends it,
\* tries and subscribes (start_notify) whose exception is printed, and what else
\* changes the state.
Repeat(op) == [i \in 1..Channels |-> op]
CmdConnect  == <<"call">> \o Repeat("try") \o <<"attach", "call", "signals", "wait">>
CmdChannels == Repeat("call") \o <<"return">>
CmdSniff    == Repeat("call") \o <<"signals", "wait">>
CmdSniffAll == <<"targets">> \o Repeat("subscribe") \o <<"try", "signals", "wait">>

Program == [connect |-> CmdConnect, channels |-> CmdChannels, sniff |-> CmdSniff,
            sniff_all |-> CmdSniffAll, library |-> <<"use">>]

Commands == DOMAIN Program
Ends == {"-", "returned", "raised", "interrupted"}

TypeOK == /\ LinkTypeOK /\ DispatchTypeOK
          /\ cmd \in Commands /\ pc \in {"start", "entering", "body", "leaving", "ended"}
          /\ ip \in DOMAIN Program[cmd] /\ how \in Ends
          /\ onSigint \in {"cancel", "stop"} /\ {stop, entered, spoilt} \subseteq BOOLEAN
          /\ sigints \in 0..MaxSigints

Init == /\ LinkInit /\ DispatchInit
        /\ cmd \in Commands /\ pc = "start" /\ ip = 1 /\ how = "-"
        /\ onSigint = "cancel" /\ stop = FALSE /\ sigints = 0
        /\ entered = FALSE /\ spoilt = FALSE

At(op) == pc = "body" /\ Idle /\ Program[cmd][ip] = op
-----------------------------------------------------------------------------
\* __aenter__: connect() of the Radio, or of bleak's client, which subscribes to
\* nothing by itself.  When it raises there is no __aexit__.
Enters == /\ pc = "start" /\ pc' = "entering"
          /\ ConnectCall(Link)
          /\ UNCHANGED <<dispatchVars, cmd, ip, how, onSigint, stop, sigints, entered, spoilt>>

Established == /\ pc = "entering" /\ cmd # "sniff_all"
               /\ ConnectEstablished(Link)
               /\ UNCHANGED <<dispatchVars, commandVars>>

Entered == /\ pc = "entering" /\ Idle /\ pc' = "body" /\ entered' = TRUE
           /\ IF cmd = "sniff_all"
              THEN /\ Moves(Link, "connecting", "idle")
                   /\ up' = [up EXCEPT ![Link] = TRUE] /\ UNCHANGED subscribed
              ELSE SubscribeDone(Link)
           /\ UNCHANGED <<dispatchVars, cmd, ip, how, onSigint, stop, sigints, spoilt>>

EnterRaises == /\ pc = "entering" /\ Idle /\ pc' = "ended" /\ how' = "raised"
               /\ ConnectFailed(Link) \/ SubscribeFailed(Link)
               /\ UNCHANGED <<dispatchVars, cmd, ip, onSigint, stop, sigints, entered, spoilt>>
-----------------------------------------------------------------------------
\* A call comes back.
CallReturns == /\ At("call") \/ At("try") \/ At("subscribe")
               /\ up[Link] /\ ip' = ip + 1
               /\ subscribed' = [subscribed EXCEPT ![Link] = @ \/ At("subscribe")]
               /\ UNCHANGED <<up, step, dispatchVars, cmd, pc, how, onSigint, stop, sigints, entered, spoilt>>

\* It raises, as every call does once the link is lost, and the command prints it.
TryRaises == /\ At("try") \/ At("subscribe")
             /\ ip' = ip + 1
             /\ UNCHANGED <<linkVars, dispatchVars, cmd, pc, how, onSigint, stop, sigints, entered, spoilt>>

\* Leaving the "async with", with or without an exception, is __aexit__ and so
\* disconnect(), which awaits nothing when the link is down.
Leave(how0) ==
  /\ how' = how0
  /\ IF ~up[Link] /\ cmd # "sniff_all"
     THEN pc' = "ended" /\ DisconnectNoop(Link)
     ELSE /\ pc' = "leaving" /\ UNCHANGED <<up, subscribed>>
          /\ Moves(Link, "idle", IF cmd = "sniff_all" THEN "disconnecting" ELSE "unsubscribing")

\* A mistake: the exception goes past __aexit__.
CallRaisesOut == /\ At("call") /\ pc' = "ended" /\ how' = "raised"
                 /\ UNCHANGED <<linkVars, dispatchVars, cmd, ip, onSigint, stop, sigints, entered, spoilt>>

CallRaises == /\ At("call") /\ Leave("raised")
              /\ UNCHANGED <<dispatchVars, cmd, ip, onSigint, stop, sigints, entered, spoilt>>

\* No characteristic to subscribe to: sniff_all returns 1.
NoTargets == /\ At("targets") /\ Leave("returned")
             /\ UNCHANGED <<dispatchVars, cmd, ip, onSigint, stop, sigints, entered, spoilt>>

HasTargets == /\ At("targets") /\ ip' = ip + 1
              /\ UNCHANGED <<linkVars, dispatchVars, cmd, pc, how, onSigint, stop, sigints, entered, spoilt>>

AttachesHandler == /\ At("attach") /\ Attach(PrintEvent) /\ ip' = ip + 1
                   /\ UNCHANGED <<linkVars, pending, events, calls, due>>
                   /\ UNCHANGED <<cmd, pc, how, onSigint, stop, sigints, entered, spoilt>>

\* add_signal_handler() replaces the handler of asyncio.run(); where there is no
\* such thing (NotImplementedError) the command goes on without.
SetsSignalHandler == /\ At("signals") /\ onSigint' \in {"stop", "cancel"} /\ ip' = ip + 1
                     /\ UNCHANGED <<linkVars, dispatchVars, cmd, pc, how, stop, sigints, entered, spoilt>>

\* stop.wait() is over, or channels has printed its table.
Finishes == /\ At("return") \/ (At("wait") /\ stop)
            /\ Leave("returned")
            /\ UNCHANGED <<dispatchVars, cmd, ip, onSigint, stop, sigints, entered, spoilt>>

\* The application attaches and detaches handlers, returns, or raises.
Uses == /\ At("use")
        /\ \/ \E h \in Functions : Attach(h)
           \/ \E r \in DOMAIN attached : Detach(r)
        /\ UNCHANGED <<linkVars, pending, events, calls, due, commandVars>>

UseEnds == /\ At("use") /\ \E how0 \in {"returned", "raised"} : Leave(how0)
           /\ UNCHANGED <<dispatchVars, cmd, ip, onSigint, stop, sigints, entered, spoilt>>
-----------------------------------------------------------------------------
StopNotifyEnds == pc = "leaving" /\ Idle /\ Unsubscribed(Link) /\ UNCHANGED <<dispatchVars, commandVars>>

Leaves == /\ pc = "leaving" /\ Idle /\ pc' = "ended"
          /\ \/ DisconnectDone(Link) /\ UNCHANGED <<how, spoilt>>
             \/ DisconnectFailed(Link) /\ how' = "raised" /\ spoilt' = TRUE
          /\ UNCHANGED <<dispatchVars, cmd, ip, onSigint, stop, sigints, entered>>
-----------------------------------------------------------------------------
Sigint == /\ pc \in {"entering", "body", "leaving"} /\ Idle
          /\ sigints < MaxSigints /\ sigints' = sigints + 1

SigintStops == /\ Sigint /\ onSigint = "stop" /\ stop' = TRUE
               /\ UNCHANGED <<linkVars, dispatchVars, cmd, pc, ip, how, onSigint, entered, spoilt>>

\* A mistake: a bare "except" around a try swallows the cancellation.
SigintSwallowed == /\ Sigint /\ onSigint = "cancel" /\ At("try") /\ ip' = ip + 1
                   /\ UNCHANGED <<linkVars, dispatchVars, cmd, pc, how, onSigint, stop, entered, spoilt>>

\* The task is cancelled at its await: a connect or a disconnect is given up where
\* it is, a call ends in CancelledError, which no "except Exception" catches.
SigintCancels == /\ Sigint /\ onSigint = "cancel"
                 /\ IF pc = "body" THEN Leave("interrupted")
                    ELSE /\ pc' = "ended" /\ how' = "interrupted"
                         /\ step' = [step EXCEPT ![Link] = "idle"]
                         /\ UNCHANGED <<up, subscribed>>
                 /\ spoilt' = (spoilt \/ pc = "leaving")
                 /\ UNCHANGED <<dispatchVars, cmd, ip, onSigint, stop, entered>>

Notified == CanIndicate(Link) /\ pc # "ended" /\ Event /\ UNCHANGED <<linkVars, commandVars>>
HandlerReturns == /\ CallHandler
                  /\ cmd = "library" \/ (attached' = attached /\ detached' = detached)
                  /\ UNCHANGED <<linkVars, commandVars>>
LinkLost == pc # "ended" /\ Drop(Link) /\ UNCHANGED <<dispatchVars, commandVars>>

Ended == pc = "ended" /\ UNCHANGED vars

Body == \/ CallReturns \/ TryRaises \/ CallRaises \/ NoTargets \/ HasTargets \/ AttachesHandler
        \/ SetsSignalHandler \/ Finishes
Connecting == Enters \/ Established \/ Entered \/ EnterRaises
Disconnecting == StopNotifyEnds \/ Leaves

Next == \/ Connecting \/ Body \/ Disconnecting \/ Uses \/ UseEnds \/ SigintStops \/ SigintCancels
        \/ Notified \/ HandlerReturns \/ LinkLost \/ Ended

Spec == Init /\ [][Next]_vars

\* Every await of bleak ends, every call to the radio returns or raises, and the
\* event loop runs what is ready.
FairSpec == /\ Spec
            /\ WF_vars(Connecting) /\ WF_vars(Body) /\ WF_vars(Disconnecting)
            /\ WF_vars(HandlerReturns)
-----------------------------------------------------------------------------
\* Handlers attach and detach at any time, also while an event is being handed
\* out, and may raise: each registration that is not detached hears every event,
\* once.  Not so only when one function is registered twice and one of its detach
\* functions is called twice: remove() then takes the other registration's entry.
HandlersHearEveryEvent == Idle /\ ~robbed => calls = due

\* However the body ends (an exception, Ctrl-C, no targets), the link is given
\* back before the command is over.  What remains: a connect that failed or was
\* interrupted half-way, for which "async with" runs no __aexit__, and a
\* disconnect() that raised or was itself interrupted.
LinkIsReleased == pc = "ended" /\ entered /\ ~spoilt => ~up[Link]

\* Once Ctrl-C has been pressed the command comes to its end, whether it is
\* connecting, waiting for the radio or listening.
SigintEndsTheCommand == sigints > 0 /\ cmd # "library" ~> pc = "ended"
=============================================================================
