------------------------------- MODULE Radio -------------------------------
(***************************************************************************)
(* The Radio class of bendio/radio.py over its link: commands in flight,   *)
(* their futures, and connection loss.                                     *)
(*                                                                         *)
(* A call is one invocation of send(), run by a task of its own.  asyncio  *)
(* runs a task until its next await, so what a task does between two       *)
(* awaits is one step.  send() has two: the GATT write and wait_for.       *)
(* The future send() creates has the name of its call.                     *)
(***************************************************************************)
EXTENDS BleLink

CONSTANTS MyLink,   \* the link of this Radio
          Keys,     \* the (command_group, command) pairs in use
          Calls,    \* the invocations of send()
          KeyOf,    \* KeyOf[c]: the key of the message of call c
          Silent,   \* the calls made with expect_reply=False
          NoCall

ASSUME RadioAssumption == /\ MyLink \in Links
                          /\ KeyOf \in [Calls -> Keys]
                          /\ Silent \subseteq Calls
                          /\ NoCall \notin Calls

VARIABLES pending,  \* pending[k]: the call whose future _pending[k] is
          call,     \* call[c]: the await call c is suspended at
          fut,      \* fut[c]: the state of the future of call c
          outcome,  \* outcome[c]: what send() returned or raised
          answer,   \* answer[c]: the request whose reply is fut[c]'s result
          atRadio   \* the requests the radio has received and not answered

callVars == <<pending, call, fut, outcome, answer, atRadio>>
vars == <<linkVars, callVars>>

Expecting == Calls \ Silent
Live(c) == call[c] \in {"writing", "written", "waiting"}

Outcomes == {"none", "reply", "timeout", "in_flight", "disconnected",
             "error", "cancelled", "sent"}

TypeOK ==
  /\ LinkTypeOK
  /\ pending \in [Keys -> Calls \cup {NoCall}]
  /\ call \in [Calls -> {"new", "writing", "written", "waiting", "ended"}]
  /\ fut \in [Calls -> {"none", "pending", "result", "disconnected", "cancelled"}]
  /\ outcome \in [Calls -> Outcomes]
  /\ answer \in [Calls -> Calls \cup {NoCall}]
  /\ atRadio \subseteq Calls

Init == /\ LinkInit
        /\ pending = [k \in Keys |-> NoCall]
        /\ call = [c \in Calls |-> "new"]
        /\ fut = [c \in Calls |-> "none"]
        /\ outcome = [c \in Calls |-> "none"]
        /\ answer = [c \in Calls |-> NoCall]
        /\ atRadio = {}
-----------------------------------------------------------------------------
\* Mistakes send() could have been written with; none of them is in the code.
FinishStoresNone(c, how) ==
  /\ call' = [call EXCEPT ![c] = "ended"]
  /\ outcome' = [outcome EXCEPT ![c] = how]
  /\ pending' = [pending EXCEPT ![KeyOf[c]] = "None"]

FinishPopsOnReplyOnly(c, how) ==
  /\ call' = [call EXCEPT ![c] = "ended"]
  /\ outcome' = [outcome EXCEPT ![c] = how]
  /\ pending' = IF how = "reply" THEN [pending EXCEPT ![KeyOf[c]] = NoCall]
                ELSE pending

KeyNotChecked(c) == c \in Calls

WaitWithoutTimeout(c) == call[c] = "waiting" /\ FALSE /\ UNCHANGED vars

\* The end of call c, its `finally` included: pop(key) removes whatever the
\* key maps to, the entry of another call too.
Finish(c, how) ==
  /\ call' = [call EXCEPT ![c] = "ended"]
  /\ outcome' = [outcome EXCEPT ![c] = how]
  /\ pending' = IF c \in Silent THEN pending
                ELSE [pending EXCEPT ![KeyOf[c]] = NoCall]

\* "already in flight" is raised before the try: nothing is popped.
SendRejected(c) ==
  /\ call[c] = "new" /\ c \in Expecting
  /\ pending[KeyOf[c]] # NoCall
  /\ call' = [call EXCEPT ![c] = "ended"]
  /\ outcome' = [outcome EXCEPT ![c] = "in_flight"]
  /\ UNCHANGED <<linkVars, pending, fut, answer, atRadio>>

KeyFree(c) == c \in Silent \/ pending[KeyOf[c]] = NoCall

\* send() up to the suspension in write_gatt_char.
Send(c) ==
  /\ call[c] = "new" /\ KeyFree(c) /\ up[MyLink]
  /\ call' = [call EXCEPT ![c] = "writing"]
  /\ IF c \in Silent THEN UNCHANGED <<pending, fut>>
     ELSE /\ pending' = [pending EXCEPT ![KeyOf[c]] = c]
          /\ fut' = [fut EXCEPT ![c] = "pending"]
  /\ UNCHANGED <<linkVars, outcome, answer, atRadio>>

\* to_bytes() raises, or bleak refuses to write: send() ends in one step.
SendRaises(c) ==
  /\ call[c] = "new" /\ KeyFree(c)
  /\ Finish(c, "error")
  /\ fut' = [fut EXCEPT ![c] = IF c \in Silent THEN "none" ELSE "pending"]
  /\ UNCHANGED <<linkVars, answer, atRadio>>

\* The radio has the frame; its write response is still on the way.
FrameReachesRadio(c) ==
  /\ call[c] = "writing" /\ up[MyLink]
  /\ call' = [call EXCEPT ![c] = "written"]
  /\ atRadio' = atRadio \cup {c}
  /\ UNCHANGED <<linkVars, pending, fut, outcome, answer>>

WriteReturns(c) ==
  /\ call[c] = "written"
  /\ IF c \in Silent THEN Finish(c, "sent")
     ELSE /\ call' = [call EXCEPT ![c] = "waiting"]
          /\ UNCHANGED <<pending, outcome>>
  /\ UNCHANGED <<linkVars, fut, answer, atRadio>>

\* A failed write response, or the connection went away under the write.
WriteRaises(c) ==
  /\ call[c] \in {"writing", "written"}
  /\ Finish(c, "error")
  /\ UNCHANGED <<linkVars, fut, answer, atRadio>>

WakeWithResult(c) ==
  /\ call[c] = "waiting" /\ fut[c] = "result"
  /\ Finish(c, "reply")
  /\ UNCHANGED <<linkVars, fut, answer, atRadio>>

WakeDisconnected(c) ==
  /\ call[c] = "waiting" /\ fut[c] = "disconnected"
  /\ Finish(c, "disconnected")
  /\ UNCHANGED <<linkVars, fut, answer, atRadio>>

CancelFuture(c) ==
  fut' = [fut EXCEPT ![c] = IF @ = "pending" THEN "cancelled" ELSE @]

\* The timer of wait_for and the setting of the future may fall into one turn
\* of the event loop: wait_for may then raise although the future is done.
Timeout(c) ==
  /\ call[c] = "waiting"
  /\ Finish(c, "timeout")
  /\ CancelFuture(c)
  /\ UNCHANGED <<linkVars, answer, atRadio>>

\* The task is cancelled; wait_for, if it has been reached, cancels the future.
Cancel(c) ==
  /\ Live(c)
  /\ Finish(c, "cancelled")
  /\ IF call[c] = "waiting" THEN CancelFuture(c) ELSE UNCHANGED fut
  /\ UNCHANGED <<linkVars, answer, atRadio>>
-----------------------------------------------------------------------------
\* Two mistakes of _on_frame: no look at fut.done(), and a lookup by less than
\* the whole key.
RepliesUnconditionally(r) ==
  /\ r \in atRadio /\ CanIndicate(MyLink)
  /\ atRadio' = atRadio \ {r}
  /\ LET owner == pending[KeyOf[r]] IN
       IF owner # NoCall
       THEN /\ fut' = [fut EXCEPT ![owner] = "result"]
            /\ answer' = [answer EXCEPT ![owner] = r]
       ELSE UNCHANGED <<fut, answer>>
  /\ UNCHANGED <<linkVars, pending, call, outcome>>

RepliesToAnyKey(r) ==
  /\ r \in atRadio /\ CanIndicate(MyLink)
  /\ atRadio' = atRadio \ {r}
  /\ \E k \in Keys :
       /\ pending[k] # NoCall /\ fut[pending[k]] = "pending"
       /\ fut' = [fut EXCEPT ![pending[k]] = "result"]
       /\ answer' = [answer EXCEPT ![pending[k]] = r]
  /\ UNCHANGED <<linkVars, pending, call, outcome>>

\* The radio answers request r, and _on_frame looks r's key up: the future it
\* finds gets the reply, whichever call registered it.
RadioReplies(r) ==
  /\ r \in atRadio /\ CanIndicate(MyLink)
  /\ atRadio' = atRadio \ {r}
  /\ LET owner == pending[KeyOf[r]] IN
       IF owner # NoCall /\ fut[owner] = "pending"
       THEN /\ fut' = [fut EXCEPT ![owner] = "result"]
            /\ answer' = [answer EXCEPT ![owner] = r]
       ELSE UNCHANGED <<fut, answer>>
  /\ UNCHANGED <<linkVars, pending, call, outcome>>

\* No answer, or one that _on_frame cannot parse.
ReplyLost(r) == /\ r \in atRadio
                /\ atRadio' = atRadio \ {r}
                /\ UNCHANGED <<linkVars, pending, call, fut, outcome, answer>>
-----------------------------------------------------------------------------
ConnectBegins == ConnectCall(MyLink) /\ UNCHANGED callVars

\* When a connection ends, bleak fails the writes it had, and the tasks woken
\* by it are ahead in the loop's queue of everything a new connection wakes.
LoopDrained == \A c \in Calls : /\ call[c] \notin {"writing", "written"}
                                /\ call[c] = "waiting" => fut[c] = "pending"

Established == /\ up[MyLink] \/ LoopDrained
               /\ ConnectEstablished(MyLink)
               /\ UNCHANGED callVars

ConnectEnds == /\ \/ ConnectFailed(MyLink)
                  \/ SubscribeDone(MyLink)
                  \/ SubscribeFailed(MyLink)
               /\ UNCHANGED callVars

\* The loop of Radio.disconnect() over _pending, and its clear().
FailPending ==
  /\ fut' = [c \in Calls |->
               IF (\E k \in Keys : pending[k] = c) /\ fut[c] = "pending"
               THEN "disconnected" ELSE fut[c]]
  /\ pending' = [k \in Keys |-> NoCall]
  /\ UNCHANGED <<call, outcome, answer>>

DisconnectWhenDown == DisconnectNoop(MyLink) /\ FailPending /\ UNCHANGED atRadio

\* A mistake: failing the futures before the link is down.
FailsPendingFirst == \/ DisconnectCall(MyLink) /\ FailPending /\ UNCHANGED atRadio
                     \/ Unsubscribed(MyLink) /\ UNCHANGED callVars

DisconnectBegins == \/ DisconnectCall(MyLink) /\ UNCHANGED callVars
                    \/ Unsubscribed(MyLink) /\ UNCHANGED callVars

DisconnectReturns == /\ DisconnectDone(MyLink)
                     /\ FailPending
                     /\ atRadio' = {}

\* client.disconnect() raises: the futures are not failed.
DisconnectRaises == DisconnectFailed(MyLink) /\ UNCHANGED callVars

ConnectionLost == /\ Drop(MyLink)
                  /\ atRadio' = {}
                  /\ UNCHANGED <<pending, call, fut, outcome, answer>>
-----------------------------------------------------------------------------
Controller == \/ ConnectBegins \/ Established \/ ConnectEnds
              \/ DisconnectWhenDown \/ DisconnectBegins
              \/ DisconnectReturns \/ DisconnectRaises

Caller(c) == \/ SendRejected(c) \/ Send(c) \/ SendRaises(c)
             \/ WriteReturns(c) \/ WriteRaises(c)
             \/ WakeWithResult(c) \/ WakeDisconnected(c)
             \/ Timeout(c) \/ Cancel(c)

Environment(c) == FrameReachesRadio(c) \/ RadioReplies(c) \/ ReplyLost(c)

Next == \/ Controller
        \/ ConnectionLost
        \/ \E c \in Calls : Caller(c) \/ Environment(c)

Spec == Init /\ [][Next]_vars

\* bleak ends every write one way or the other, the loop runs every task that
\* is ready, and the timer of wait_for fires.
Fairness == \A c \in Calls :
              /\ WF_vars(WriteReturns(c) \/ WriteRaises(c))
              /\ WF_vars(WakeWithResult(c) \/ WakeDisconnected(c) \/ Timeout(c))

FairSpec == Spec /\ Fairness
-----------------------------------------------------------------------------
\* An entry of _pending belongs to a live call of its key.  Nothing else would
\* ever remove it, and the key would be "already in flight" for good.
NoDeadEntry ==
  \A k \in Keys : pending[k] # NoCall =>
    Live(pending[k]) /\ KeyOf[pending[k]] = k /\ pending[k] \in Expecting

\* A call whose future is undone can be found by its reply and by disconnect():
\* no other call's `finally` and no new registration has taken its entry.
EveryWaiterIsReachable ==
  \A c \in Expecting : Live(c) /\ fut[c] = "pending" => pending[KeyOf[c]] = c

\* Two calls of one key are live only while the older one is dying with its
\* connection, never both on one.
OneLiveCallPerKey ==
  up[MyLink] => \A c, d \in Expecting :
                  Live(c) /\ Live(d) /\ KeyOf[c] = KeyOf[d] => c = d

\* Nobody waits for the reply to e any more, though it may still come.
Unawaited(e) == \/ outcome[e] \in {"timeout", "cancelled", "error"}
                \/ e \in Silent /\ call[e] # "new"

\* A call is answered by the reply to another request only when another call of
\* its key was given up, or sent without waiting for the reply.
StrayRepliesHaveACause ==
  \A c \in Calls : answer[c] \notin {c, NoCall} =>
    \E e \in Calls \ {c} : KeyOf[e] = KeyOf[c] /\ Unawaited(e)

\* send() promises "the matching reply".  Replies carry no sequence number, so
\* a late reply to a call that timed out matches the next call of the key.
ReplyMatchesCall == \A c \in Calls : outcome[c] = "reply" => answer[c] = c

\* A future is set once: a late reply, a timeout and disconnect() never
\* overwrite one another's verdict.
FuturesAreSetOnce ==
  [][\A c \in Calls : fut[c] \in {"result", "disconnected", "cancelled"} =>
       fut'[c] = fut[c] /\ answer'[c] = answer[c]]_vars

\* Every send() that has begun returns or raises.
SendEnds == \A c \in Calls : Live(c) ~> call[c] = "ended"
-----------------------------------------------------------------------------
\* What a caller sees of a command: the abstract specification's state.
StatusOf(c) == IF call[c] = "new" THEN "new"
               ELSE IF Live(c) THEN "open"
               ELSE IF outcome[c] = "in_flight" THEN "rejected"
               ELSE "settled"

Abstract == INSTANCE RequestReply
              WITH Calls <- Expecting,
                   KeyOf <- [c \in Expecting |-> KeyOf[c]],
                   status <- [c \in Expecting |-> StatusOf(c)]

ImplementsRequestReply == Abstract!Spec
=============================================================================
