---------------------------- MODULE RadioProofs ----------------------------
(***************************************************************************)
(* Proofs about Radio, for every set of keys and calls: its types, the     *)
(* bookkeeping of _pending, and the implementation of RequestReply.        *)
(***************************************************************************)
EXTENDS Radio, TLAPS

\* What NoDeadEntry and EveryWaiterIsReachable need to be inductive: a call
\* whose entry is gone has lost it to disconnect(), never to another call, and
\* only while the link is down, so no new call can take its place meanwhile.
OwnEntryOrNone ==
  \A c \in Expecting : Live(c) => pending[KeyOf[c]] \in {c, NoCall}

OrphansAreOffline ==
  \A c \in Expecting : Live(c) /\ pending[KeyOf[c]] # c => ~up[MyLink]

IInv == /\ TypeOK
        /\ NoDeadEntry
        /\ EveryWaiterIsReachable
        /\ OwnEntryOrNone
        /\ OrphansAreOffline

-----------------------------------------------------------------------------
LEMMA TypeInit == Init => TypeOK
  BY RadioAssumption
     DEF Init, TypeOK, LinkInit, LinkTypeOK, Steps, Outcomes

\* No step of the program leaves the declared types (all of Radio and BleLink).
LEMMA TypeNext == TypeOK /\ [Next]_vars => TypeOK'
  <1> USE RadioAssumption DEF TypeOK, LinkTypeOK, Outcomes
  <1> SUFFICES ASSUME TypeOK, [Next]_vars PROVE TypeOK'
    OBVIOUS
  <1>1. CASE Controller
    BY <1>1
       DEF Controller, ConnectBegins, Established, ConnectEnds, DisconnectWhenDown,
           DisconnectBegins, DisconnectReturns, DisconnectRaises, FailPending,
           ConnectCall, ConnectEstablished, ConnectFailed, SubscribeDone,
           SubscribeFailed, DisconnectNoop, DisconnectCall, Unsubscribed,
           DisconnectDone, DisconnectFailed, Moves, Steps, linkVars, callVars
  <1>2. CASE ConnectionLost
    BY <1>2 DEF ConnectionLost, Drop
  <1>3. ASSUME NEW c \in Calls, Caller(c) \/ Environment(c) PROVE TypeOK'
    <2> USE DEF linkVars, Finish, Expecting, CancelFuture, Live
    <2>1. CASE SendRejected(c)     BY <2>1 DEF SendRejected
    <2>2. CASE Send(c)             BY <2>2 DEF Send
    <2>3. CASE SendRaises(c)       BY <2>3 DEF SendRaises
    <2>4. CASE WriteReturns(c)     BY <2>4 DEF WriteReturns
    <2>5. CASE WriteRaises(c)      BY <2>5 DEF WriteRaises
    <2>6. CASE WakeWithResult(c)   BY <2>6 DEF WakeWithResult
    <2>7. CASE WakeDisconnected(c) BY <2>7 DEF WakeDisconnected
    <2>8. CASE Timeout(c)          BY <2>8 DEF Timeout
    <2>9. CASE Cancel(c)           BY <2>9 DEF Cancel
    <2>10. CASE FrameReachesRadio(c) BY <2>10 DEF FrameReachesRadio
    <2>11. CASE RadioReplies(c)    BY <2>11 DEF RadioReplies
    <2>12. CASE ReplyLost(c)       BY <2>12 DEF ReplyLost
    <2> QED
      BY <1>3, <2>1, <2>2, <2>3, <2>4, <2>5, <2>6, <2>7, <2>8, <2>9, <2>10,
         <2>11, <2>12
         DEF Caller, Environment
  <1>4. CASE UNCHANGED vars
    BY <1>4 DEF vars, linkVars, callVars
  <1> QED
    BY <1>1, <1>2, <1>3, <1>4 DEF Next

\* Every variable of the client keeps its type, whatever the calls and keys.
THEOREM TypeCorrect == Spec => []TypeOK
  BY TypeInit, TypeNext, PTL DEF Spec
-----------------------------------------------------------------------------
LEMMA IInvInit == Init => IInv
  <1> SUFFICES ASSUME Init PROVE IInv
    OBVIOUS
  <1>1. TypeOK
    BY TypeInit
  <1> QED
    BY <1>1, RadioAssumption
       DEF IInv, Init, LinkInit, NoDeadEntry, EveryWaiterIsReachable,
           OwnEntryOrNone, OrphansAreOffline, Live, Expecting

\* A call that ends takes no entry but its own with it, because no other call
\* can hold the entry of its key while it is live.
LEMMA FinishKeepsBooks ==
  ASSUME IInv, TypeOK', NEW c \in Calls, Live(c), NEW how, Finish(c, how),
         \A d \in Calls \ {c} : fut'[d] = fut[d],
         up' = up
  PROVE  IInv'
  <1> USE RadioAssumption
  <1> DEFINE k == KeyOf[c]
  <1>1. c \in Expecting => pending[k] \in {c, NoCall}
    BY DEF IInv, OwnEntryOrNone
  <1>2. ~Live(c)' /\ \A d \in Calls \ {c} : Live(d)' = Live(d)
    BY DEF Finish, Live, IInv, TypeOK
  <1>3. \A j \in Keys : pending'[j] = IF c \in Expecting /\ j = k THEN NoCall
                                      ELSE pending[j]
    BY DEF Finish, Expecting, IInv, TypeOK
  <1>4. \A j \in Keys : pending'[j] # c
    BY <1>3 DEF IInv, NoDeadEntry
  <1>5. NoDeadEntry'
    BY <1>2, <1>3, <1>4 DEF IInv, NoDeadEntry, Expecting, TypeOK
  <1>6. EveryWaiterIsReachable'
    BY <1>1, <1>2, <1>3 DEF IInv, EveryWaiterIsReachable, Expecting
  <1>7. OwnEntryOrNone'
    BY <1>2, <1>3 DEF IInv, OwnEntryOrNone, Expecting
  <1>8. OrphansAreOffline'
    BY <1>1, <1>2, <1>3 DEF IInv, OrphansAreOffline, Expecting
  <1> QED
    BY <1>5, <1>6, <1>7, <1>8 DEF IInv

\* disconnect() orphans every call, and does so only with the link down.
LEMMA FailPendingKeepsBooks ==
  ASSUME IInv, TypeOK', FailPending, ~up'[MyLink]
  PROVE  IInv'
  <1> USE RadioAssumption
  <1>1. \A k \in Keys : pending'[k] = NoCall
    BY DEF FailPending
  <1>2. \A c \in Calls : Live(c)' = Live(c)
    BY DEF FailPending, Live
  <1>3. \A c \in Expecting : Live(c) => fut'[c] # "pending"
    BY DEF FailPending, IInv, EveryWaiterIsReachable, Expecting, TypeOK
  <1> QED
    BY <1>1, <1>2, <1>3
       DEF IInv, NoDeadEntry, EveryWaiterIsReachable, OwnEntryOrNone,
           OrphansAreOffline, Expecting

\* A step that moves no call and no entry, and brings no connection up.
LEMMA QuietKeepsBooks ==
  ASSUME IInv, TypeOK', UNCHANGED <<pending, call, fut>>,
         up'[MyLink] => up[MyLink] \/ LoopDrained
  PROVE  IInv'
  <1>1. \A c \in Calls : Live(c)' = Live(c)
    BY DEF Live
  <1>2. OrphansAreOffline'
    BY <1>1 DEF IInv, OrphansAreOffline, EveryWaiterIsReachable, LoopDrained,
                Live, Expecting
  <1> QED
    BY <1>1, <1>2
       DEF IInv, NoDeadEntry, EveryWaiterIsReachable, OwnEntryOrNone, Expecting

LEMMA IInvNext == IInv /\ [Next]_vars => IInv'
  <1> SUFFICES ASSUME IInv, [Next]_vars PROVE IInv'
    OBVIOUS
  <1> USE RadioAssumption
  <1>t. TypeOK /\ TypeOK'
    BY TypeNext DEF IInv
  <1>1. CASE Controller
    <2>1. CASE ConnectBegins
      BY <1>t, <2>1, QuietKeepsBooks DEF ConnectBegins, ConnectCall, callVars
    <2>2. CASE Established
      BY <1>t, <2>2, QuietKeepsBooks DEF Established, ConnectEstablished, callVars
    <2>3. CASE ConnectEnds
      BY <1>t, <2>3, QuietKeepsBooks
         DEF ConnectEnds, ConnectFailed, SubscribeDone, SubscribeFailed, callVars
    <2>4. CASE DisconnectWhenDown
      BY <1>t, <2>4, FailPendingKeepsBooks
         DEF DisconnectWhenDown, DisconnectNoop, linkVars
    <2>5. CASE DisconnectBegins
      BY <1>t, <2>5, QuietKeepsBooks
         DEF DisconnectBegins, DisconnectCall, Unsubscribed, callVars
    <2>6. CASE DisconnectReturns
      BY <1>t, <2>6, FailPendingKeepsBooks
         DEF DisconnectReturns, DisconnectDone, TypeOK, LinkTypeOK
    <2>7. CASE DisconnectRaises
      BY <1>t, <2>7, QuietKeepsBooks DEF DisconnectRaises, DisconnectFailed, callVars
    <2> QED
      BY <1>1, <2>1, <2>2, <2>3, <2>4, <2>5, <2>6, <2>7 DEF Controller
  <1>2. CASE ConnectionLost
    BY <1>t, <1>2, QuietKeepsBooks DEF ConnectionLost, Drop, TypeOK, LinkTypeOK
  <1>3. ASSUME NEW c \in Calls, Caller(c) PROVE IInv'
    <2>1. CASE SendRejected(c)
      <3>1. ~Live(c)' /\ ~Live(c) /\ \A d \in Calls \ {c} : Live(d)' = Live(d)
        BY <1>t, <2>1 DEF SendRejected, Live, TypeOK
      <3> QED
        BY <1>t, <2>1, <3>1
           DEF SendRejected, linkVars, IInv, NoDeadEntry, EveryWaiterIsReachable,
               OwnEntryOrNone, OrphansAreOffline, Expecting
    <2>2. CASE Send(c)
      <3>1. Live(c)' /\ ~Live(c) /\ \A d \in Calls \ {c} : Live(d)' = Live(d)
        BY <1>t, <2>2 DEF Send, Live, TypeOK
      <3>2. CASE c \in Silent
        BY <1>t, <2>2, <3>1, <3>2
           DEF Send, linkVars, IInv, NoDeadEntry, EveryWaiterIsReachable,
               OwnEntryOrNone, OrphansAreOffline, Expecting
      <3>3. CASE c \in Expecting
        <4>1. pending[KeyOf[c]] = NoCall
          BY <2>2, <3>3 DEF Send, KeyFree, Expecting
        <4>2. \A d \in Expecting : Live(d) => KeyOf[d] # KeyOf[c]
          BY <2>2, <4>1 DEF Send, IInv, OrphansAreOffline, Expecting
        <4>3. /\ up' = up
              /\ \A k \in Keys : pending'[k] = IF k = KeyOf[c] THEN c ELSE pending[k]
              /\ \A d \in Calls \ {c} : fut'[d] = fut[d]
          BY <1>t, <2>2, <3>3 DEF Send, Expecting, linkVars, TypeOK
        <4>4. NoDeadEntry'
          BY <1>t, <3>1, <3>3, <4>3 DEF IInv, NoDeadEntry, Expecting, TypeOK
        <4>5. EveryWaiterIsReachable'
          BY <3>1, <4>2, <4>3 DEF IInv, EveryWaiterIsReachable, Expecting
        <4>6. OwnEntryOrNone' /\ OrphansAreOffline'
          BY <3>1, <4>2, <4>3
             DEF IInv, OwnEntryOrNone, OrphansAreOffline, Expecting
        <4> QED
          BY <1>t, <4>4, <4>5, <4>6 DEF IInv
      <3> QED
        BY <3>2, <3>3 DEF Expecting
    <2>3. CASE SendRaises(c)
      <3>1. ~Live(c)' /\ ~Live(c) /\ \A d \in Calls \ {c} : Live(d)' = Live(d)
        BY <1>t, <2>3 DEF SendRaises, Finish, Live, TypeOK
      <3>2. pending' = pending /\ up' = up /\ \A d \in Calls \ {c} : fut'[d] = fut[d]
        BY <1>t, <2>3 DEF SendRaises, Finish, KeyFree, linkVars, TypeOK
      <3> QED
        BY <1>t, <3>1, <3>2
           DEF IInv, NoDeadEntry, EveryWaiterIsReachable,
               OwnEntryOrNone, OrphansAreOffline, Expecting
    <2>4. CASE WriteReturns(c)
      <3>1. CASE c \in Silent
        BY <1>t, <2>4, <3>1, FinishKeepsBooks DEF WriteReturns, Live, linkVars
      <3>2. CASE c \in Expecting
        <4>1. \A d \in Calls : Live(d)' = Live(d)
          BY <1>t, <2>4, <3>2 DEF WriteReturns, Live, Expecting, TypeOK
        <4> QED
          BY <1>t, <2>4, <3>2, <4>1
             DEF WriteReturns, linkVars, IInv, NoDeadEntry, EveryWaiterIsReachable,
                 OwnEntryOrNone, OrphansAreOffline, Expecting
      <3> QED
        BY <3>1, <3>2 DEF Expecting
    <2>5. CASE WriteRaises(c)
      BY <1>t, <2>5, FinishKeepsBooks DEF WriteRaises, Live, linkVars
    <2>6. CASE WakeWithResult(c)
      BY <1>t, <2>6, FinishKeepsBooks DEF WakeWithResult, Live, linkVars
    <2>7. CASE WakeDisconnected(c)
      BY <1>t, <2>7, FinishKeepsBooks DEF WakeDisconnected, Live, linkVars
    <2>8. CASE Timeout(c)
      BY <1>t, <2>8, FinishKeepsBooks
         DEF Timeout, Live, linkVars, CancelFuture, TypeOK
    <2>9. CASE Cancel(c)
      BY <1>t, <2>9, FinishKeepsBooks
         DEF Cancel, Live, linkVars, CancelFuture, TypeOK
    <2> QED
      BY <1>3, <2>1, <2>2, <2>3, <2>4, <2>5, <2>6, <2>7, <2>8, <2>9 DEF Caller
  <1>4. ASSUME NEW c \in Calls, Environment(c) PROVE IInv'
    <2>1. \A d \in Calls : Live(d)' = Live(d)
      BY <1>t, <1>4
         DEF Environment, FrameReachesRadio, RadioReplies, ReplyLost, Live, TypeOK
    <2>2. pending' = pending /\ up' = up
      BY <1>4 DEF Environment, FrameReachesRadio, RadioReplies, ReplyLost, linkVars
    <2>3. \A d \in Calls : fut'[d] = "pending" => fut[d] = "pending"
      BY <1>t, <1>4
         DEF Environment, FrameReachesRadio, RadioReplies, ReplyLost, TypeOK
    <2> QED
      BY <1>t, <2>1, <2>2, <2>3
         DEF IInv, NoDeadEntry, EveryWaiterIsReachable, OwnEntryOrNone,
             OrphansAreOffline, Expecting
  <1>5. CASE UNCHANGED vars
    BY <1>t, <1>5, QuietKeepsBooks DEF vars, linkVars, callVars
  <1> QED
    BY <1>1, <1>2, <1>3, <1>4, <1>5 DEF Next

\* No entry of _pending outlives its call: a key is never left "in flight" by a
\* command that has ended, whatever timed out, raised or was cancelled.
THEOREM EntriesAreLive == Spec => []NoDeadEntry
  <1>1. IInv => NoDeadEntry
    BY DEF IInv
  <1> QED
    BY <1>1, IInvInit, IInvNext, PTL DEF Spec

\* No waiting call is ever cut off from its reply and from disconnect() by the
\* unconditional pop of another call of its key.
THEOREM WaitersAreReachable == Spec => []EveryWaiterIsReachable
  <1>1. IInv => EveryWaiterIsReachable
    BY DEF IInv
  <1> QED
    BY <1>1, IInvInit, IInvNext, PTL DEF Spec

\* While the link is up, commands of one key are serialized.
THEOREM CommandsAreSerialized == Spec => []OneLiveCallPerKey
  <1>1. IInv => OneLiveCallPerKey
    BY RadioAssumption
       DEF IInv, OneLiveCallPerKey, OrphansAreOffline, Expecting
  <1> QED
    BY <1>1, IInvInit, IInvNext, PTL DEF Spec
-----------------------------------------------------------------------------
\* A future exists only from the moment its call has begun.
NewHasNoFuture == \A c \in Calls : call[c] = "new" => fut[c] = "none"

FInv == TypeOK /\ NewHasNoFuture

LEMMA FInvInit == Init => FInv
  BY TypeInit DEF FInv, NewHasNoFuture, Init

LEMMA FInvNext == FInv /\ [Next]_vars => FInv'
  <1> SUFFICES ASSUME FInv, [Next]_vars PROVE FInv'
    OBVIOUS
  <1> USE RadioAssumption
  <1>t. TypeOK /\ TypeOK'
    BY TypeNext DEF FInv
  <1>1. CASE Controller \/ ConnectionLost \/ UNCHANGED vars
    <2>1. call' = call /\ \A c \in Calls : fut[c] = "none" => fut'[c] = "none"
      BY <1>1
         DEF Controller, ConnectBegins, Established, ConnectEnds, DisconnectWhenDown,
             DisconnectBegins, DisconnectReturns, DisconnectRaises, FailPending,
             ConnectionLost, callVars, vars
    <2> QED
      BY <1>t, <2>1 DEF FInv, NewHasNoFuture
  <1>2. ASSUME NEW c \in Calls, Caller(c) PROVE FInv'
    <2>1. call'[c] # "new" /\ \A d \in Calls \ {c} : fut'[d] = fut[d] /\ call'[d] = call[d]
      BY <1>t, <1>2
         DEF Caller, SendRejected, Send, SendRaises, WriteReturns, WriteRaises,
             WakeWithResult, WakeDisconnected, Timeout, Cancel, Finish, CancelFuture,
             Live, TypeOK
    <2> QED
      BY <1>t, <2>1 DEF FInv, NewHasNoFuture
  <1>3. ASSUME NEW c \in Calls, Environment(c) PROVE FInv'
    <2>1. \A d \in Calls : /\ call'[d] = "new" => call[d] = "new"
                           /\ fut[d] = "none" => fut'[d] = "none"
      BY <1>t, <1>3
         DEF Environment, FrameReachesRadio, RadioReplies, ReplyLost, TypeOK
    <2> QED
      BY <1>t, <2>1 DEF FInv, NewHasNoFuture
  <1> QED
    BY <1>1, <1>2, <1>3 DEF Next

\* Whatever races with whatever, a future that is done keeps its verdict.
THEOREM FuturesKeepTheirVerdict == Spec => FuturesAreSetOnce
  <1> DEFINE Kept == \A c \in Calls :
                       fut[c] \in {"result", "disconnected", "cancelled"} =>
                         fut'[c] = fut[c] /\ answer'[c] = answer[c]
  <1> USE RadioAssumption
  <1>1. FInv /\ Next => Kept
    <2> SUFFICES ASSUME FInv, Next PROVE Kept
      OBVIOUS
    <2>1. CASE Controller \/ ConnectionLost
      BY <2>1
         DEF Controller, ConnectBegins, Established, ConnectEnds, DisconnectWhenDown,
             DisconnectBegins, DisconnectReturns, DisconnectRaises, FailPending,
             ConnectionLost, callVars
    <2>2. ASSUME NEW c \in Calls, Caller(c) PROVE Kept
      <3>1. /\ answer' = answer
            /\ \A d \in Calls \ {c} : fut'[d] = fut[d]
            /\ fut[c] \notin {"none", "pending"} => fut'[c] = fut[c]
        BY <2>2
           DEF FInv, NewHasNoFuture, Caller, SendRejected, Send, SendRaises,
               WriteReturns, WriteRaises, WakeWithResult, WakeDisconnected, Timeout,
               Cancel, Finish, CancelFuture, Live, TypeOK
      <3> QED
        BY <3>1
    <2>3. ASSUME NEW c \in Calls, Environment(c) PROVE Kept
      BY <2>3 DEF FInv, Environment, FrameReachesRadio, RadioReplies, ReplyLost, TypeOK
    <2> QED
      BY <2>1, <2>2, <2>3 DEF Next
  <1>2. UNCHANGED vars => Kept
    BY DEF vars, callVars
  <1>3. FInv /\ [Next]_vars => [Kept]_vars
    BY <1>1, <1>2
  <1> QED
    BY <1>3, FInvInit, FInvNext, PTL DEF Spec, FuturesAreSetOnce
-----------------------------------------------------------------------------
\* Where stray replies come from.  A request the radio may still answer has been
\* written on this connection and not been answered; if its call is over, the call
\* was given up, or ended with a reply that was itself a stray one.
RequestsAreUnanswered ==
  \A r \in atRadio : /\ up[MyLink]
                     /\ call[r] \notin {"new", "writing"}
                     /\ answer[r] # r
                     /\ fut[r] # "disconnected"

NoEarlyAnswer == \A c \in Calls : call[c] \in {"new", "writing"} => answer[c] # c

ResultsHaveAnswers ==
  \A c \in Calls : /\ fut[c] = "result" => answer[c] # NoCall
                   /\ c \in Silent => fut[c] = "none"

NoEarlyOutcome == \A c \in Calls : call[c] = "new" \/ Live(c) => outcome[c] = "none"

EntriesAreNotDisconnected ==
  \A c \in Expecting : pending[KeyOf[c]] = c => fut[c] # "disconnected"

EndedAtRadio ==
  \A r \in atRadio \cap Expecting :
    call[r] = "ended" => Unawaited(r) \/ answer[r] \notin {r, NoCall}

SInv == /\ IInv /\ FInv
        /\ RequestsAreUnanswered
        /\ NoEarlyAnswer
        /\ ResultsHaveAnswers
        /\ NoEarlyOutcome
        /\ EntriesAreNotDisconnected
        /\ EndedAtRadio
        /\ StrayRepliesHaveACause

LEMMA SInvInit == Init => SInv
  <1> SUFFICES ASSUME Init PROVE SInv
    OBVIOUS
  <1>1. IInv /\ FInv
    BY IInvInit, FInvInit
  <1> QED
    BY <1>1, RadioAssumption
       DEF SInv, Init, RequestsAreUnanswered, NoEarlyAnswer, ResultsHaveAnswers,
           NoEarlyOutcome, EntriesAreNotDisconnected, EndedAtRadio,
           StrayRepliesHaveACause, Live, Expecting

\* Who gave up, or never waited, stays so.
LEMMA UnawaitedStays ==
  ASSUME SInv, [Next]_vars, NEW e \in Calls, Unawaited(e)
  PROVE  Unawaited(e)'
  <1> USE RadioAssumption
  <1>t. TypeOK
    BY DEF SInv, FInv
  <1>1. outcome[e] # "none" => call[e] = "ended"
    BY <1>t DEF SInv, NoEarlyOutcome, Live, TypeOK
  <1>2. /\ call[e] # "new" => call'[e] # "new"
        /\ call[e] = "ended" => outcome'[e] = outcome[e]
    <2>1. CASE Controller \/ ConnectionLost \/ UNCHANGED vars
      BY <2>1
         DEF Controller, ConnectBegins, Established, ConnectEnds, DisconnectWhenDown,
             DisconnectBegins, DisconnectReturns, DisconnectRaises, FailPending,
             ConnectionLost, callVars, vars
    <2>2. ASSUME NEW c \in Calls, Caller(c) PROVE <1>2
      BY <1>t, <2>2
         DEF Caller, SendRejected, Send, SendRaises, WriteReturns, WriteRaises,
             WakeWithResult, WakeDisconnected, Timeout, Cancel, Finish, Live, TypeOK
    <2>3. ASSUME NEW c \in Calls, Environment(c) PROVE <1>2
      BY <1>t, <2>3 DEF Environment, FrameReachesRadio, RadioReplies, ReplyLost, TypeOK
    <2> QED
      BY <2>1, <2>2, <2>3 DEF Next
  <1> QED
    BY <1>1, <1>2 DEF Unawaited

\* A step that gives nobody an answer leaves every stray reply its cause.
LEMMA CausesStay ==
  ASSUME SInv, [Next]_vars, answer' = answer
  PROVE  StrayRepliesHaveACause'
  BY UnawaitedStays DEF SInv, StrayRepliesHaveACause

\* Steps that move no call, answer nothing and send the radio nothing.
LEMMA QuietKeepsAnswers ==
  ASSUME SInv, [Next]_vars, UNCHANGED <<pending, call, fut, outcome, answer>>,
         \/ atRadio' = {}
         \/ atRadio' \subseteq atRadio /\ up'[MyLink] = up[MyLink]
         \/ atRadio' \subseteq atRadio /\ up'[MyLink]
  PROVE  SInv'
  <1>1. IInv' /\ FInv' /\ StrayRepliesHaveACause'
    BY IInvNext, FInvNext, CausesStay DEF SInv
  <1>2. RequestsAreUnanswered'
    BY DEF SInv, RequestsAreUnanswered
  <1>3. NoEarlyAnswer' /\ ResultsHaveAnswers' /\ NoEarlyOutcome'
    BY DEF SInv, NoEarlyAnswer, ResultsHaveAnswers, NoEarlyOutcome, Live
  <1>4. EntriesAreNotDisconnected'
    BY DEF SInv, EntriesAreNotDisconnected
  <1>5. EndedAtRadio'
    BY DEF SInv, EndedAtRadio, Unawaited
  <1> QED
    BY <1>1, <1>2, <1>3, <1>4, <1>5 DEF SInv

\* disconnect() with the link down: the radio has nothing left to answer.
LEMMA FailPendingKeepsAnswers ==
  ASSUME SInv, [Next]_vars, FailPending, atRadio' = {}
  PROVE  SInv'
  <1> USE RadioAssumption
  <1>1. IInv' /\ FInv' /\ StrayRepliesHaveACause'
    BY IInvNext, FInvNext, CausesStay DEF SInv, FailPending
  <1>2. RequestsAreUnanswered' /\ EndedAtRadio'
    BY DEF RequestsAreUnanswered, EndedAtRadio
  <1>3. NoEarlyAnswer' /\ NoEarlyOutcome'
    BY DEF SInv, NoEarlyAnswer, NoEarlyOutcome, Live, FailPending
  <1>4. ResultsHaveAnswers'
    BY DEF SInv, ResultsHaveAnswers, FailPending
  <1>5. EntriesAreNotDisconnected'
    BY DEF EntriesAreNotDisconnected, FailPending, Expecting
  <1> QED
    BY <1>1, <1>2, <1>3, <1>4, <1>5 DEF SInv

\* A call that goes on, or ends, on its own account: what the radio has of it stays.
LEMMA CallerKeepsAnswers ==
  ASSUME SInv, NEW c \in Calls, Caller(c)
  PROVE  SInv'
  <1> USE RadioAssumption
  <1>t. TypeOK /\ IInv /\ FInv
    BY DEF SInv, FInv
  <1>n. [Next]_vars
    BY DEF Next
  <1>o. /\ answer' = answer /\ atRadio' = atRadio /\ up' = up
        /\ \A d \in Calls \ {c} : /\ call'[d] = call[d] /\ outcome'[d] = outcome[d]
                                  /\ fut'[d] = fut[d]
    BY <1>t
       DEF Caller, SendRejected, Send, SendRaises, WriteReturns, WriteRaises,
           WakeWithResult, WakeDisconnected, Timeout, Cancel, Finish, CancelFuture,
           linkVars, TypeOK
  <1>1. IInv' /\ FInv' /\ StrayRepliesHaveACause'
    BY <1>t, <1>n, <1>o, IInvNext, FInvNext, CausesStay
  <1>m. /\ call'[c] # "new"
        /\ call'[c] = "writing" => call[c] = "new"
        /\ call[c] \in {"new", "writing", "written", "waiting"}
        /\ call'[c] \in {"writing", "waiting"} => outcome'[c] = outcome[c]
        /\ call'[c] # "written"
    BY <1>t
       DEF Caller, SendRejected, Send, SendRaises, WriteReturns, WriteRaises,
           WakeWithResult, WakeDisconnected, Timeout, Cancel, Finish, Live, TypeOK
  <1>f. /\ fut'[c] = "disconnected" => fut[c] = "disconnected"
        /\ fut'[c] = "result" => fut[c] = "result"
        /\ c \in Silent => fut'[c] = "none"
    BY <1>t
       DEF Caller, SendRejected, Send, SendRaises, WriteReturns, WriteRaises,
           WakeWithResult, WakeDisconnected, Timeout, Cancel, Finish, CancelFuture,
           SInv, ResultsHaveAnswers, Expecting, TypeOK
  <1>2. RequestsAreUnanswered'
    BY <1>t, <1>o, <1>m, <1>f DEF SInv, RequestsAreUnanswered, TypeOK
  <1>3. NoEarlyAnswer' /\ ResultsHaveAnswers' /\ NoEarlyOutcome'
    BY <1>t, <1>o, <1>m, <1>f
       DEF SInv, NoEarlyAnswer, ResultsHaveAnswers, NoEarlyOutcome, Live, TypeOK
  <1>4. EntriesAreNotDisconnected'
    <2>1. \A d \in Expecting : pending'[KeyOf[d]] = d /\ pending[KeyOf[d]] # d =>
            d = c /\ fut'[c] = "pending"
      BY <1>t
         DEF Caller, SendRejected, Send, SendRaises, WriteReturns, WriteRaises,
             WakeWithResult, WakeDisconnected, Timeout, Cancel, Finish,
             Expecting, TypeOK
    <2> QED
      BY <1>t, <1>o, <1>f, <2>1
         DEF SInv, EntriesAreNotDisconnected, Expecting, TypeOK
  <1>5. EndedAtRadio'
    <2>1. c \in atRadio /\ c \in Expecting /\ call'[c] = "ended" =>
            \/ outcome'[c] \in {"timeout", "cancelled", "error"}
            \/ fut[c] = "result"
      BY <1>t
         DEF Caller, SendRejected, Send, SendRaises, WriteReturns, WriteRaises,
             WakeWithResult, WakeDisconnected, Timeout, Cancel, Finish,
             SInv, RequestsAreUnanswered, Expecting, TypeOK
    <2>2. c \in atRadio /\ fut[c] = "result" => answer[c] \notin {c, NoCall}
      BY DEF SInv, RequestsAreUnanswered, ResultsHaveAnswers
    <2> QED
      BY <1>t, <1>o, <2>1, <2>2 DEF SInv, EndedAtRadio, Unawaited, Expecting, TypeOK
  <1> QED
    BY <1>1, <1>2, <1>3, <1>4, <1>5 DEF SInv

LEMMA SInvNext == SInv /\ [Next]_vars => SInv'
  <1> SUFFICES ASSUME SInv, [Next]_vars PROVE SInv'
    OBVIOUS
  <1> USE RadioAssumption
  <1>t. TypeOK /\ IInv /\ FInv
    BY DEF SInv, FInv
  <1>1. CASE Controller
    <2>1. CASE ConnectBegins \/ Established \/ ConnectEnds \/ DisconnectBegins \/ DisconnectRaises
      BY <1>t, <2>1, QuietKeepsAnswers
         DEF ConnectBegins, Established, ConnectEnds, DisconnectBegins, DisconnectRaises,
             ConnectCall, ConnectEstablished, ConnectFailed, SubscribeDone,
             SubscribeFailed, DisconnectCall, Unsubscribed, DisconnectFailed,
             callVars, TypeOK, LinkTypeOK
    <2>2. CASE DisconnectWhenDown
      <3>1. atRadio' = {}
        BY <2>2 DEF DisconnectWhenDown, DisconnectNoop, SInv, RequestsAreUnanswered
      <3> QED
        BY <2>2, <3>1, FailPendingKeepsAnswers DEF DisconnectWhenDown
    <2>3. CASE DisconnectReturns
      BY <2>3, FailPendingKeepsAnswers DEF DisconnectReturns
    <2> QED
      BY <1>1, <2>1, <2>2, <2>3 DEF Controller
  <1>2. CASE ConnectionLost
    BY <1>2, QuietKeepsAnswers DEF ConnectionLost
  <1>3. ASSUME NEW c \in Calls, Caller(c) PROVE SInv'
    BY <1>3, CallerKeepsAnswers
  <1>4. ASSUME NEW r \in Calls, FrameReachesRadio(r) PROVE SInv'
    <2>1. IInv' /\ FInv' /\ StrayRepliesHaveACause'
      BY <1>t, <1>4, IInvNext, FInvNext, CausesStay DEF FrameReachesRadio
    <2>2. /\ up' = up /\ call[r] = "writing" /\ up[MyLink] /\ call'[r] = "written"
          /\ \A d \in Calls \ {r} : call'[d] = call[d]
          /\ atRadio' = atRadio \cup {r}
          /\ UNCHANGED <<pending, fut, outcome, answer>>
      BY <1>t, <1>4 DEF FrameReachesRadio, linkVars, TypeOK
    <2>3. fut[r] # "disconnected" /\ answer[r] # r
      BY <1>t, <2>2
         DEF SInv, IInv, OrphansAreOffline, EntriesAreNotDisconnected, NoEarlyAnswer,
             ResultsHaveAnswers, Live, Expecting
    <2>4. RequestsAreUnanswered'
      BY <1>t, <2>2, <2>3 DEF SInv, RequestsAreUnanswered, TypeOK
    <2>5. NoEarlyAnswer' /\ ResultsHaveAnswers' /\ NoEarlyOutcome'
      BY <1>t, <2>2
         DEF SInv, NoEarlyAnswer, ResultsHaveAnswers, NoEarlyOutcome, Live, TypeOK
    <2>6. EntriesAreNotDisconnected'
      BY <2>2 DEF SInv, EntriesAreNotDisconnected
    <2>7. EndedAtRadio'
      BY <1>t, <2>2 DEF SInv, EndedAtRadio, Unawaited, Expecting, TypeOK
    <2> QED
      BY <2>1, <2>4, <2>5, <2>6, <2>7 DEF SInv
  <1>5. ASSUME NEW r \in Calls, RadioReplies(r) PROVE SInv'
    <2> DEFINE owner == pending[KeyOf[r]]
    <2>1. CASE owner # NoCall /\ fut[owner] = "pending"
      <3>1. /\ r \in atRadio /\ atRadio' = atRadio \ {r}
            /\ owner \in Calls /\ fut'[owner] = "result" /\ answer'[owner] = r
            /\ \A d \in Calls \ {owner} : fut'[d] = fut[d] /\ answer'[d] = answer[d]
            /\ UNCHANGED <<up, pending, call, outcome>>
        BY <1>t, <1>5, <2>1 DEF RadioReplies, linkVars, TypeOK
      <3>2. owner \in Expecting /\ Live(owner) /\ KeyOf[owner] = KeyOf[r]
        BY <1>t, <2>1 DEF IInv, NoDeadEntry, TypeOK
      <3>3. ~Unawaited(owner)
        BY <1>t, <3>2 DEF SInv, NoEarlyOutcome, Unawaited, Expecting
      <3>4. owner # r =>
              \E e \in Calls \ {owner} : KeyOf[e] = KeyOf[owner] /\ Unawaited(e)
        <4> SUFFICES ASSUME owner # r
                     PROVE  \E e \in Calls \ {owner} :
                              KeyOf[e] = KeyOf[owner] /\ Unawaited(e)
          OBVIOUS
        <4>1. call[r] \notin {"new", "writing"}
          BY <3>1 DEF SInv, RequestsAreUnanswered
        <4>2. CASE r \in Silent
          BY <3>1, <3>2, <4>1, <4>2 DEF Unawaited
        <4>3. CASE r \in Expecting
          <5>1. call[r] = "ended"
            BY <1>t, <2>1, <4>1, <4>3 DEF IInv, OwnEntryOrNone, Live, TypeOK
          <5>2. CASE Unawaited(r)
            BY <3>2, <5>2
          <5>3. CASE answer[r] \notin {r, NoCall}
            BY <3>2, <3>3, <5>3 DEF SInv, StrayRepliesHaveACause
          <5> QED
            BY <3>1, <4>3, <5>1, <5>2, <5>3 DEF SInv, EndedAtRadio
        <4> QED
          BY <4>2, <4>3 DEF Expecting
      <3>5. IInv' /\ FInv'
        BY <1>t, IInvNext, FInvNext
      <3>6. RequestsAreUnanswered'
        BY <1>t, <3>1 DEF SInv, RequestsAreUnanswered, TypeOK
      <3>7. NoEarlyAnswer' /\ ResultsHaveAnswers' /\ NoEarlyOutcome'
        BY <1>t, <3>1, <3>2
           DEF SInv, NoEarlyAnswer, ResultsHaveAnswers, RequestsAreUnanswered,
               NoEarlyOutcome, Live, Expecting, TypeOK
      <3>8. EntriesAreNotDisconnected'
        BY <1>t, <3>1 DEF SInv, EntriesAreNotDisconnected, Expecting
      <3>9. EndedAtRadio'
        BY <1>t, <3>1, <3>2 DEF SInv, EndedAtRadio, Unawaited, Live, Expecting, TypeOK
      <3>10. StrayRepliesHaveACause'
        BY <3>1, <3>4 DEF SInv, StrayRepliesHaveACause, Unawaited
      <3> QED
        BY <3>5, <3>6, <3>7, <3>8, <3>9, <3>10 DEF SInv
    <2>2. CASE ~(owner # NoCall /\ fut[owner] = "pending")
      BY <1>5, <2>2, QuietKeepsAnswers DEF RadioReplies, linkVars
    <2> QED
      BY <2>1, <2>2
  <1>6. ASSUME NEW r \in Calls, ReplyLost(r) PROVE SInv'
    BY <1>6, QuietKeepsAnswers DEF ReplyLost, linkVars
  <1>7. CASE UNCHANGED vars
    BY <1>7, QuietKeepsAnswers DEF vars, linkVars, callVars
  <1> QED
    BY <1>1, <1>2, <1>3, <1>4, <1>5, <1>6, <1>7 DEF Next, Environment

\* However replies, time-outs, writes and reconnections interleave, a call gets the
\* reply to another request only when a call of its key was given up or sent
\* without waiting: the one way to misuse the missing sequence number.
THEOREM StrayRepliesAreExplained == Spec => []StrayRepliesHaveACause
  <1>1. SInv => StrayRepliesHaveACause
    BY DEF SInv
  <1> QED
    BY <1>1, SInvInit, SInvNext, PTL DEF Spec
-----------------------------------------------------------------------------
\* The abstract status, as the refinement mapping of Radio substitutes it.
StatusMap == [c \in Expecting |-> StatusOf(c)]

LEMMA StatusUnchanged ==
  ASSUME \A c \in Expecting : StatusOf(c)' = StatusOf(c)
  PROVE  UNCHANGED StatusMap
  BY DEF StatusMap, Expecting

LEMMA StatusMoves ==
  ASSUME NEW c \in Expecting, NEW s,
         StatusOf(c)' = s,
         \A d \in Expecting \ {c} : StatusOf(d)' = StatusOf(d)
  PROVE  StatusMap' = [StatusMap EXCEPT ![c] = s]
  BY DEF StatusMap, Expecting

\* Each step of a caller is the abstract step of its call, or none.
LEMMA CallerStep ==
  ASSUME IInv, NEW c \in Calls, Caller(c)
  PROVE  Abstract!Next \/ UNCHANGED StatusMap
  <1> USE RadioAssumption
  <1>t. TypeOK
    BY DEF IInv
  <1>o. \A d \in Calls \ {c} : call'[d] = call[d] /\ outcome'[d] = outcome[d]
    BY <1>t
       DEF Caller, SendRejected, Send, SendRaises, WriteReturns, WriteRaises,
           WakeWithResult, WakeDisconnected, Timeout, Cancel, Finish, TypeOK
  <1>s. \A d \in Expecting \ {c} : StatusOf(d)' = StatusOf(d)
    BY <1>o DEF StatusOf, Live, Expecting
  <1>1. CASE c \in Silent
    BY <1>1, <1>s, StatusUnchanged DEF Expecting
  <1>2. CASE c \in Expecting
    <2>1. CASE SendRejected(c)
      <3>1. StatusOf(c) = "new" /\ StatusOf(c)' = "rejected"
        BY <1>t, <2>1 DEF SendRejected, StatusOf, Live, TypeOK
      <3>2. PICK d \in Expecting : Live(d) /\ KeyOf[d] = KeyOf[c]
        BY <1>2, <2>1 DEF SendRejected, IInv, NoDeadEntry, Expecting
      <3>3. StatusOf(d) = "open"
        BY <3>2 DEF StatusOf, Live
      <3>4. Abstract!Reject(c)
        BY <1>2, <1>s, <3>1, <3>2, <3>3, StatusMoves
           DEF Abstract!Reject, Abstract!Outstanding, StatusMap
      <3> QED
        BY <1>2, <3>4 DEF Abstract!Next
    <2>2. CASE Send(c)
      <3>1. StatusOf(c) = "new" /\ StatusOf(c)' = "open"
        BY <1>t, <2>2 DEF Send, StatusOf, Live, TypeOK
      <3>2. pending[KeyOf[c]] = NoCall /\ up[MyLink]
        BY <1>2, <2>2 DEF Send, KeyFree, Expecting
      <3>3. \A d \in Expecting : Live(d) => KeyOf[d] # KeyOf[c]
        BY <3>2 DEF IInv, OrphansAreOffline, Expecting
      <3>4. \A d \in Expecting : StatusOf(d) = "open" => KeyOf[d] # KeyOf[c]
        BY <3>3 DEF StatusOf
      <3>5. Abstract!Open(c)
        BY <1>2, <1>s, <3>1, <3>4, StatusMoves
           DEF Abstract!Open, Abstract!Outstanding, StatusMap
      <3> QED
        BY <1>2, <3>5 DEF Abstract!Next
    <2>3. CASE SendRaises(c)
      <3>1. StatusOf(c) = "new" /\ StatusOf(c)' = "settled"
        BY <1>t, <2>3 DEF SendRaises, Finish, StatusOf, Live, TypeOK
      <3>2. Abstract!Refuse(c)
        BY <1>2, <1>s, <3>1, StatusMoves DEF Abstract!Refuse, StatusMap
      <3> QED
        BY <1>2, <3>2 DEF Abstract!Next
    <2>4. CASE WriteReturns(c)
      <3>1. StatusOf(c)' = StatusOf(c)
        BY <1>t, <1>2, <2>4 DEF WriteReturns, StatusOf, Live, Expecting, TypeOK
      <3> QED
        BY <1>s, <3>1, StatusUnchanged
    <2>5. CASE WriteRaises(c) \/ WakeWithResult(c) \/ WakeDisconnected(c)
                 \/ Timeout(c) \/ Cancel(c)
      <3>1. Live(c) /\ call'[c] = "ended" /\ outcome'[c] # "in_flight"
        BY <1>t, <2>5
           DEF WriteRaises, WakeWithResult, WakeDisconnected, Timeout, Cancel,
               Finish, Live, TypeOK
      <3>2. StatusOf(c) = "open" /\ StatusOf(c)' = "settled"
        BY <3>1 DEF StatusOf, Live
      <3>3. Abstract!Settle(c)
        BY <1>2, <1>s, <3>2, StatusMoves DEF Abstract!Settle, StatusMap
      <3> QED
        BY <1>2, <3>3 DEF Abstract!Next
    <2> QED
      BY <2>1, <2>2, <2>3, <2>4, <2>5 DEF Caller
  <1> QED
    BY <1>1, <1>2 DEF Expecting

LEMMA OtherSteps ==
  ASSUME TypeOK, Controller \/ ConnectionLost \/ UNCHANGED vars
                   \/ \E c \in Calls : Environment(c)
  PROVE  UNCHANGED StatusMap
  <1>1. outcome' = outcome /\ \A c \in Calls : \/ call'[c] = call[c]
                                               \/ Live(c) /\ Live(c)'
    BY DEF Controller, ConnectBegins, Established, ConnectEnds, DisconnectWhenDown,
           DisconnectBegins, DisconnectReturns, DisconnectRaises, FailPending,
           ConnectionLost, callVars, vars, Environment, FrameReachesRadio,
           RadioReplies, ReplyLost, TypeOK, Live
  <1>2. \A c \in Expecting : StatusOf(c)' = StatusOf(c)
    BY <1>1 DEF StatusOf, Live, Expecting
  <1> QED
    BY <1>2, StatusUnchanged

\* Radio keeps the promise of RequestReply: one outstanding command per key, a
\* refusal only when the key is taken, and one end for every command.
THEOREM RadioImplementsRequestReply == Spec => ImplementsRequestReply
  <1>1. Init => Abstract!Init
    BY DEF Init, Abstract!Init, StatusOf, Expecting
  <1>2. IInv /\ [Next]_vars => [Abstract!Next]_StatusMap
    BY CallerStep, OtherSteps DEF Next, IInv
  <1> QED
    BY <1>1, <1>2, IInvInit, IInvNext, PTL
       DEF Spec, ImplementsRequestReply, Abstract!Spec, StatusMap
=============================================================================
