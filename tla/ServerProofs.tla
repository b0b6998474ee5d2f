---------------------------- MODULE ServerProofs ----------------------------
(***************************************************************************)
(* Proofs about Server: what stdout holds, and which links are held, for   *)
(* any requests, links, lines and indications.                             *)
(***************************************************************************)
EXTENDS Server, SequenceTheorems, TLAPS

\* The end of _handle goes on to the next place, or ends the server.
LEMMA RespondMoves ==
  ASSUME NEW n, NEW hasId, NEW kind, NEW next, Respond(n, hasId, kind, next)
  PROVE  pc' \in {next, "raised"}
  BY DEF Respond, WriteLine, Stop

\* The end of a handler: the loop reads on, or the server comes down.
LEMMA AnswerMoves ==
  ASSUME NEW kind, Answer(kind)
  PROVE  pc' \in {"reading", "raised"} /\ UNCHANGED <<lines, asked, shutdown>>
  BY RespondMoves DEF Answer, loopVars
-----------------------------------------------------------------------------
\* Links: which of them the server holds, and where.
HolderTypes == /\ LinkTypeOK
               /\ current \in Links \cup {NoLink} /\ fresh \in Links \cup {NoLink}
               /\ made \subseteq Links /\ abandoned \subseteq Links

\* While a coroutine works on a link, that link is there, and no other is held
\* that its end would overwrite.
LinksInPlace ==
  /\ pc \in {"closing", "disconnecting", "cleanup"} => current \in Links
  /\ pc = "connecting" => fresh \in Links /\ fresh \in made
  /\ pc \notin {"connecting", "raised"} => fresh = NoLink
  /\ pc \in {"fresh", "connecting", "done"} => current = NoLink

\* A link not made yet, or not connected yet, is down.
NewLinksAreDown ==
  /\ \A l \in Links : up[l] => l \in made
  /\ pc = "connecting" /\ step[fresh] = "connecting" => ~up[fresh]

LinkInv == HolderTypes /\ LinksInPlace /\ NewLinksAreDown /\ NoLinkIsForgotten

\* No links at first.
LEMMA LinkInvInit == Init => LinkInv
  BY DEF Init, LinkInit, LinkInv, HolderTypes, LinkTypeOK, Steps, LinksInPlace, NewLinksAreDown,
         NoLinkIsForgotten

\* Places of run() at which it holds the current link and works on none.
Resting == {"reading", "scanning", "writing", "exiting"}

\* A step that touches no link keeps what is known of them.
LEMMA LinksAtRest ==
  ASSUME LinkInv, UNCHANGED <<linkVars, linkObjects>>,
         pc' = "raised" \/ pc' = pc \/ (pc \in Resting /\ pc' \in Resting)
  PROVE  LinkInv'
  BY DEF LinkInv, linkVars, linkObjects, HolderTypes, LinkTypeOK, LinksInPlace, NewLinksAreDown,
         NoLinkIsForgotten, Resting

\* Each handler that is not done at once leaves its link where it belongs.
LEMMA LinkInvHandle ==
  ASSUME LinkInv, NEW r \in Requests, Handle(r)
  PROVE  LinkInv'
  <1> USE ServerAssumption
  <1>0. pc = "reading"
    BY DEF Handle, RefuseRequest, Scan, Connect, Disconnect, BleWrite, Shutdown, Reads, CanRead
  <1>1. CASE RefuseRequest(r) \/ Shutdown(r)
    <2>1. pc' \in {"reading", "exiting", "raised"} /\ UNCHANGED <<linkVars, linkObjects>>
      BY <1>1, RespondMoves DEF RefuseRequest, Shutdown
    <2> QED
      BY <1>0, <2>1, LinksAtRest DEF Resting
  <1>2. CASE Scan(r)
    BY <1>0, <1>2, LinksAtRest DEF Scan, Resting
  <1>3. CASE BleWrite(r)
    <2>1. pc' \in {"writing", "reading", "raised"} /\ UNCHANGED <<linkVars, linkObjects>>
      BY <1>3, RespondMoves DEF BleWrite
    <2> QED
      BY <1>0, <2>1, LinksAtRest DEF Resting
  <1>4. CASE Connect(r)
    <2>1. CASE current # NoLink /\ up[current]
      BY <1>0, <1>4, <2>1
         DEF Connect, DisconnectCall, Moves, LinkInv, HolderTypes, LinkTypeOK, Steps,
             LinksInPlace, NewLinksAreDown, NoLinkIsForgotten
    <2>2. CASE ~(current # NoLink /\ up[current])
      BY <1>0, <1>4, <2>2
         DEF Connect, linkVars, LinkInv, HolderTypes, LinkTypeOK, LinksInPlace,
             NewLinksAreDown, NoLinkIsForgotten
    <2> QED
      BY <2>1, <2>2
  <1>5. CASE Disconnect(r)
    <2>1. CASE current # NoLink /\ up[current]
      BY <1>0, <1>5, <2>1
         DEF Disconnect, DisconnectCall, Moves, LinkInv, HolderTypes, LinkTypeOK, Steps,
             LinksInPlace, NewLinksAreDown, NoLinkIsForgotten
    <2>2. CASE ~(current # NoLink /\ up[current])
      <3>1. /\ pc' \in {"reading", "raised"} /\ current' = NoLink
            /\ UNCHANGED <<linkVars, fresh, made, abandoned>>
        BY <1>5, <2>2, RespondMoves DEF Disconnect
      <3> QED
        BY <1>0, <2>2, <3>1
           DEF linkVars, LinkInv, HolderTypes, LinkTypeOK, LinksInPlace, NewLinksAreDown,
               NoLinkIsForgotten
    <2> QED
      BY <2>1, <2>2
  <1> QED
    BY <1>1, <1>2, <1>3, <1>4, <1>5 DEF Handle

\* Each end of an await does too.
LEMMA LinkInvContinue ==
  ASSUME LinkInv, Continue
  PROVE  LinkInv'
  <1> USE ServerAssumption
  <1>1. CASE ScanEnds \/ BleWriteEnds
    <2>1. /\ pc' \in {"reading", "raised"} /\ UNCHANGED <<linkVars, linkObjects>>
          /\ pc \in {"scanning", "writing"}
      BY <1>1, AnswerMoves DEF ScanEnds, BleWriteEnds
    <2> QED
      BY <2>1, LinksAtRest DEF Resting
  <1>2. CASE StopNotify
    BY <1>2
       DEF StopNotify, Unsubscribed, Moves, linkObjects, LinkInv, HolderTypes, LinkTypeOK, Steps,
           LinksInPlace, NewLinksAreDown, NoLinkIsForgotten
  <1>3. CASE PriorClosed
    <2>1. CASE DisconnectDone(current) /\ UNCHANGED abandoned
      BY <1>3, <2>1
         DEF PriorClosed, DisconnectDone, Moves, LinkInv, HolderTypes, LinkTypeOK, Steps,
             LinksInPlace, NewLinksAreDown, NoLinkIsForgotten
    <2>2. CASE DisconnectFailed(current) /\ abandoned' = abandoned \cup {current}
      BY <1>3, <2>2
         DEF PriorClosed, DisconnectFailed, Moves, LinkInv, HolderTypes, LinkTypeOK, Steps,
             LinksInPlace, NewLinksAreDown, NoLinkIsForgotten
    <2> QED
      BY <1>3, <2>1, <2>2 DEF PriorClosed
  <1>4. CASE \E l \in Links : ConnectFresh(l)
    BY <1>4
       DEF ConnectFresh, ConnectCall, Moves, LinkInv, HolderTypes, LinkTypeOK, Steps,
           LinksInPlace, NewLinksAreDown, NoLinkIsForgotten
  <1>5. CASE FreshEstablished
    BY <1>5
       DEF FreshEstablished, ConnectEstablished, Moves, linkObjects, LinkInv, HolderTypes,
           LinkTypeOK, Steps, LinksInPlace, NewLinksAreDown, NoLinkIsForgotten
  <1>6. CASE ConnectSucceeds
    <2>1. pc' \in {"reading", "raised"}
      BY <1>6, AnswerMoves DEF ConnectSucceeds
    <2> QED
      BY <1>6, <2>1
         DEF ConnectSucceeds, SubscribeDone, Moves, LinkInv, HolderTypes, LinkTypeOK, Steps,
             LinksInPlace, NewLinksAreDown, NoLinkIsForgotten
  <1>7. CASE ConnectRaises
    <2>1. pc' \in {"reading", "raised"}
      BY <1>7, AnswerMoves DEF ConnectRaises
    <2> QED
      BY <1>7, <2>1
         DEF ConnectRaises, ConnectFailed, SubscribeFailed, Moves, LinkInv, HolderTypes,
             LinkTypeOK, Steps, LinksInPlace, NewLinksAreDown, NoLinkIsForgotten
  <1>8. CASE DisconnectEnds
    <2>1. pc' \in {"reading", "raised"}
      BY <1>8, AnswerMoves DEF DisconnectEnds
    <2> QED
      BY <1>8, <2>1
         DEF DisconnectEnds, DisconnectDone, DisconnectFailed, Moves, LinkInv, HolderTypes,
             LinkTypeOK, Steps, LinksInPlace, NewLinksAreDown, NoLinkIsForgotten
  <1>9. CASE Exit
    <2>1. CASE current # NoLink /\ up[current]
      BY <1>9, <2>1
         DEF Exit, DisconnectCall, Moves, LinkInv, HolderTypes, LinkTypeOK, Steps, LinksInPlace,
             NewLinksAreDown, NoLinkIsForgotten
    <2>2. CASE ~(current # NoLink /\ up[current])
      BY <1>9, <2>2
         DEF Exit, Stop, linkVars, LinkInv, HolderTypes, LinkTypeOK, LinksInPlace,
             NewLinksAreDown, NoLinkIsForgotten
    <2> QED
      BY <2>1, <2>2
  <1>10. CASE CleanupEnds
    BY <1>10
       DEF CleanupEnds, Stop, DisconnectDone, DisconnectFailed, Moves, LinkInv, HolderTypes,
           LinkTypeOK, Steps, LinksInPlace, NewLinksAreDown, NoLinkIsForgotten
  <1> QED
    BY <1>1, <1>2, <1>3, <1>4, <1>5, <1>6, <1>7, <1>8, <1>9, <1>10 DEF Continue

\* So does everything else that happens, a lost connection included.
LEMMA LinkInvNext == LinkInv /\ [Next]_vars => LinkInv'
  <1> SUFFICES ASSUME LinkInv, [Next]_vars PROVE LinkInv'
    OBVIOUS
  <1>1. CASE Read
    <2>1. CASE \E r \in Requests : Handle(r)
      BY <2>1, LinkInvHandle
    <2>2. CASE ReadBlank \/ ReadNoRequest \/ ReadRaises \/ ReadEof
      <3>1. /\ pc' \in {"reading", "exiting", "raised"} /\ UNCHANGED <<linkVars, linkObjects>>
            /\ pc = "reading"
        BY <2>2
           DEF ReadBlank, ReadNoRequest, ReadRaises, ReadEof, CanRead, WriteLine, Stop
      <3> QED
        BY <3>1, LinksAtRest DEF Resting
    <2> QED
      BY <1>1, <2>1, <2>2 DEF Read
  <1>2. CASE Continue
    BY <1>2, LinkInvContinue
  <1>3. CASE RunTask \/ Interrupted \/ ClientStopsReading \/ UNCHANGED vars
    <2>1. (pc' = "raised" \/ pc' = pc) /\ UNCHANGED <<linkVars, linkObjects>>
      BY <1>3 DEF RunTask, Interrupted, ClientStopsReading, Stop, vars
    <2> QED
      BY <2>1, LinksAtRest
  <1>4. CASE \E l \in Links : Indication(l)
    <2>1. pc' = pc /\ UNCHANGED <<linkVars, linkObjects>>
      BY <1>4 DEF Indication
    <2> QED
      BY <2>1, LinksAtRest
  <1>5. CASE \E l \in Links : ConnectionLost(l)
    BY <1>5
       DEF ConnectionLost, Drop, linkObjects, LinkInv, HolderTypes, LinkTypeOK, LinksInPlace,
           NewLinksAreDown, NoLinkIsForgotten
  <1> QED
    BY <1>1, <1>2, <1>3, <1>4, <1>5 DEF Next
-----------------------------------------------------------------------------
\* Stdout: which lines have been answered, and which is being handled.
Handling == Awaits \ {"cleanup"}

LoopTypes == /\ pc \in {"reading", "exiting"} \cup Awaits \cup Ended
             /\ lines \in 0..MaxLines /\ asked \subseteq 1..lines /\ shutdown \in BOOLEAN
             /\ out \in Seq(OutputLines) /\ outOpen \in BOOLEAN

TaskTypes == tasks \in Seq(1..MaxIndications) /\ received \in 0..MaxIndications

\* The line being handled has had no response.
CurrentIsUnanswered ==
  pc \in Handling => lines > 0 /\ \A i \in Responses : out[i].line < lines

\* Every other has had one.
OthersAreAnswered ==
  pc # "raised" => \A n \in asked : n \in Answered \/ (n = lines /\ pc \in Handling)

SilentAfterShutdown == shutdown => pc \in {"exiting", "cleanup"} \cup Ended

AnswerInv == /\ LoopTypes /\ AnswersInOrder
             /\ CurrentIsUnanswered /\ OthersAreAnswered /\ SilentAfterShutdown

\* Nothing has been asked and nothing answered.
LEMMA AnswerInvInit == Init => AnswerInv
  <1> SUFFICES ASSUME Init PROVE AnswerInv
    OBVIOUS
  <1>1. lines = 0 /\ lines \in 0..MaxLines
    BY ServerAssumption DEF Init
  <1>2. Responses = {}
    BY DEF Init, Responses
  <1>3. out \in Seq(OutputLines)
    BY DEF Init
  <1>4. LoopTypes
    BY <1>1, <1>3 DEF Init, LoopTypes
  <1>5. AnswersInOrder /\ CurrentIsUnanswered
    BY <1>2 DEF Init, AnswersInOrder, CurrentIsUnanswered, Handling, Awaits
  <1>6. OthersAreAnswered /\ SilentAfterShutdown
    BY DEF Init, OthersAreAnswered, SilentAfterShutdown
  <1> QED
    BY <1>4, <1>5, <1>6 DEF AnswerInv

\* One more line of stdout.
LEMMA OutputGrows ==
  ASSUME out \in Seq(OutputLines), NEW e \in OutputLines, out' = Append(out, e)
  PROVE  /\ out' \in Seq(OutputLines) /\ Len(out) \in Nat
         /\ DOMAIN out = 1..Len(out) /\ DOMAIN out' = DOMAIN out \cup {Len(out) + 1}
         /\ \A i \in DOMAIN out : out'[i] = out[i] /\ i < Len(out) + 1
         /\ out'[Len(out) + 1] = e
  BY AppendProperties, LenProperties

\* A response on stdout adds its place to the responses.
LEMMA ResponseIsAdded ==
  ASSUME out \in Seq(OutputLines), NEW e \in OutputLines, out' = Append(out, e), e.kind # "event"
  PROVE  /\ Responses' = Responses \cup {Len(out) + 1} /\ Events' = Events
         /\ Answered' = Answered \cup {e.id}
  <1>1. /\ DOMAIN out' = DOMAIN out \cup {Len(out) + 1} /\ Len(out) + 1 \notin DOMAIN out
        /\ \A i \in DOMAIN out : out'[i] = out[i]
        /\ out'[Len(out) + 1] = e
    BY OutputGrows
  <1>2. Responses' = Responses \cup {Len(out) + 1}
    BY <1>1 DEF Responses
  <1>3. Events' = Events
    BY <1>1, <1>2 DEF Events, Responses
  <1>4. Answered' = Answered \cup {e.id}
    BY <1>1, <1>2 DEF Answered, Responses
  <1> QED
    BY <1>2, <1>3, <1>4

\* An event adds its place to the events.
LEMMA EventIsAdded ==
  ASSUME out \in Seq(OutputLines), NEW e \in OutputLines, out' = Append(out, e), e.kind = "event"
  PROVE  /\ Events' = Events \cup {Len(out) + 1} /\ Responses' = Responses
         /\ Answered' = Answered
  <1>1. /\ DOMAIN out' = DOMAIN out \cup {Len(out) + 1} /\ Len(out) + 1 \notin DOMAIN out
        /\ \A i \in DOMAIN out : out'[i] = out[i]
        /\ out'[Len(out) + 1] = e
    BY OutputGrows
  <1>2. Responses' = Responses
    BY <1>1 DEF Responses
  <1>3. Events' = Events \cup {Len(out) + 1}
    BY <1>1, <1>2 DEF Events, Responses
  <1>4. Answered' = Answered
    BY <1>1, <1>2 DEF Answered, Responses
  <1> QED
    BY <1>2, <1>3, <1>4

\* run() moves on without a word and without another line.
Proceeds == \/ pc' \in {pc, "raised"}
            \/ pc \in Handling /\ pc' \in Handling
            \/ pc = "reading" /\ pc' = "exiting"
            \/ pc \in {"exiting", "cleanup"} /\ pc' \in {"cleanup", "done"}

\* A step that neither reads nor writes a line answers nothing and asks nothing.
LEMMA AnswersKept ==
  ASSUME AnswerInv, UNCHANGED <<loopVars, out>>, outOpen' \in BOOLEAN, Proceeds
  PROVE  AnswerInv'
  <1>1. Responses' = Responses /\ Answered' = Answered
    BY DEF Responses, Answered
  <1> QED
    BY <1>1
       DEF Proceeds, loopVars, AnswerInv, LoopTypes, AnswersInOrder, CurrentIsUnanswered,
           OthersAreAnswered, SilentAfterShutdown, Handling, Awaits, Ended

\* A line whose handler awaits.
LEMMA HandlerAwaits ==
  ASSUME AnswerInv, NEW r \in Requests, Reads(r), pc' \in Handling,
         UNCHANGED <<shutdown, out, outOpen>>
  PROVE  AnswerInv'
  <1>1. Responses' = Responses /\ Answered' = Answered
    BY DEF Responses, Answered
  <1>2. /\ pc = "reading" /\ lines' = lines + 1 /\ lines' \in 0..MaxLines
        /\ asked \subseteq 1..lines /\ asked' \subseteq asked \cup {lines'}
        /\ lines \in Nat
    BY ServerAssumption DEF AnswerInv, LoopTypes, Reads, CanRead
  <1>3. ~shutdown /\ "reading" \notin Handling
    BY <1>2 DEF AnswerInv, SilentAfterShutdown, Handling, Awaits, Ended
  <1>4. LoopTypes'
    BY <1>2 DEF AnswerInv, LoopTypes, Handling
  <1>5. AnswersInOrder' /\ CurrentIsUnanswered'
    BY <1>1, <1>2 DEF AnswerInv, AnswersInOrder, CurrentIsUnanswered
  <1>6. OthersAreAnswered'
    BY <1>1, <1>2, <1>3 DEF AnswerInv, OthersAreAnswered
  <1>7. SilentAfterShutdown'
    BY <1>3 DEF SilentAfterShutdown
  <1> QED
    BY <1>4, <1>5, <1>6, <1>7 DEF AnswerInv

\* The response to line n, the last one read, which has had none.
LEMMA LineIsAnswered ==
  ASSUME AnswerInv, NEW n \in 1..MaxLines, NEW hasId \in BOOLEAN,
         NEW kind \in {"result", "error"}, NEW next \in {"reading", "exiting"},
         Respond(n, hasId, kind, next),
         lines' = n, lines <= n, pc # "raised",
         asked' \subseteq asked \cup {n}, n \in asked' <=> hasId,
         \A i \in Responses : out[i].line < n,
         \A k \in asked : k \in Answered \/ k = n,
         shutdown' \in BOOLEAN, shutdown' => next = "exiting"
  PROVE  AnswerInv'
  <1> DEFINE id == IF hasId THEN n ELSE 0
             e == [kind |-> kind, line |-> n, id |-> id]
  <1>1. e \in OutputLines /\ e.kind # "event" /\ e.line = n /\ (hasId => e.id = n)
    <2>1. id \in Nat /\ n \in Nat /\ (hasId => id = n)
      BY ServerAssumption
    <2> HIDE DEF id
    <2>2. e \in [kind : {"result", "error", "no request"}, line : Nat, id : Nat]
      BY <2>1
    <2> QED
      BY <2>1, <2>2 DEF OutputLines
  <1>2. /\ asked' \subseteq 1..n /\ n \in 0..MaxLines /\ n \in Nat
        /\ out \in Seq(OutputLines) /\ outOpen \in BOOLEAN /\ lines \in Nat
    BY ServerAssumption DEF AnswerInv, LoopTypes
  <1>3. \A i \in Responses : out[i].line \in 1..n
    BY <1>2 DEF AnswerInv, AnswersInOrder
  <1>4. \A k \in asked' : k \in Answered \/ k = n
    OBVIOUS
  <1>5. CASE out' = Append(out, e) /\ pc' = next /\ outOpen' = outOpen
    <2>1. /\ Responses' = Responses \cup {Len(out) + 1}
          /\ Answered' = Answered \cup {e.id}
      BY <1>1, <1>2, <1>5, ResponseIsAdded
    <2>2. /\ out' \in Seq(OutputLines) /\ out'[Len(out) + 1] = e
          /\ \A i \in Responses : out'[i] = out[i] /\ i < Len(out) + 1
      BY <1>1, <1>2, <1>5, OutputGrows DEF Responses
    <2>3. LoopTypes'
      BY <1>2, <1>5, <2>2 DEF LoopTypes
    <2>4. AnswersInOrder'
      <3>1. \A i \in Responses' : out'[i].line \in 1..n
        BY <1>1, <1>2, <1>3, <2>1, <2>2
      <3>2. \A i, j \in Responses' : i < j => out'[i].line < out'[j].line
        <4> SUFFICES ASSUME NEW i \in Responses', NEW j \in Responses', i < j
                     PROVE  out'[i].line < out'[j].line
          OBVIOUS
        <4>1. Responses \subseteq Nat /\ Len(out) \in Nat
          BY <1>2, LenProperties DEF Responses
        <4>2. i \in Responses
          BY <2>1, <2>2, <4>1
        <4>3. CASE j \in Responses
          BY <2>2, <4>2, <4>3 DEF AnswerInv, AnswersInOrder
        <4>4. CASE j = Len(out) + 1
          BY <1>1, <2>2, <4>2, <4>4
        <4> QED
          BY <2>1, <4>3, <4>4
      <3> QED
        BY <3>1, <3>2 DEF AnswersInOrder
    <2>5. OthersAreAnswered'
      BY <1>1, <1>4, <2>1 DEF OthersAreAnswered
    <2>6. pc' \notin Handling
      BY <1>5 DEF Handling, Awaits
    <2> QED
      BY <1>5, <2>3, <2>4, <2>5, <2>6
         DEF AnswerInv, CurrentIsUnanswered, SilentAfterShutdown
  <1>6. CASE UNCHANGED <<out, outOpen>> /\ pc' \in {next, "raised"} /\ (hasId => pc' = "raised")
    <2>1. Responses' = Responses /\ Answered' = Answered
      BY <1>6 DEF Responses, Answered
    <2>2. LoopTypes'
      BY <1>2, <1>6 DEF LoopTypes, Ended
    <2>3. AnswersInOrder'
      BY <1>3, <1>6, <2>1 DEF AnswerInv, AnswersInOrder
    <2>4. OthersAreAnswered'
      BY <1>4, <1>6, <2>1 DEF OthersAreAnswered
    <2>5. pc' \notin Handling
      BY <1>6 DEF Handling, Awaits
    <2> QED
      BY <1>6, <2>2, <2>3, <2>4, <2>5
         DEF AnswerInv, CurrentIsUnanswered, SilentAfterShutdown, Ended
  <1> QED
    BY <1>5, <1>6 DEF Respond, WriteLine, Stop, ioVars

\* A request that is read is the one being handled, or is answered at once.
LEMMA AnswerInvHandle ==
  ASSUME AnswerInv, NEW r \in Requests, Handle(r)
  PROVE  AnswerInv'
  <1>1. Reads(r)
    BY DEF Handle, RefuseRequest, Scan, Connect, Disconnect, BleWrite, Shutdown
  <1>2. /\ pc = "reading" /\ lines' = lines + 1 /\ lines + 1 \in 1..MaxLines /\ lines \in Nat
        /\ asked' \subseteq asked \cup {lines + 1} /\ asked \subseteq 1..lines
        /\ (lines + 1 \in asked' <=> r.id) /\ r.id \in BOOLEAN
    <2>1. lines + 1 \notin 1..lines /\ r.id \in BOOLEAN
      <3>1. r \in RequestRecords /\ lines \in Nat
        BY ServerAssumption DEF AnswerInv, LoopTypes
      <3>2. r.id \in BOOLEAN
        BY <3>1 DEF RequestRecords
      <3> QED
        BY <3>1, <3>2
    <2>2. /\ pc = "reading" /\ lines' = lines + 1 /\ lines \in 0..MaxLines /\ lines < MaxLines
          /\ asked \subseteq 1..lines /\ MaxLines \in Nat
      BY <1>1, ServerAssumption DEF AnswerInv, LoopTypes, Reads, CanRead
    <2>3. lines + 1 \in 1..MaxLines
      BY <2>2
    <2>4. /\ asked' \subseteq asked \cup {lines + 1}
          /\ (lines + 1 \in asked' <=> r.id)
      <3>1. CASE r.id
        BY <1>1, <3>1 DEF Reads
      <3>2. CASE ~r.id
        <4>1. asked' = asked
          BY <1>1, <3>2 DEF Reads
        <4> QED
          BY <2>1, <2>2, <3>2, <4>1
      <3> QED
        BY <3>1, <3>2
    <2> QED
      BY <2>1, <2>2, <2>3, <2>4
  <1>3. ~shutdown /\ shutdown \in BOOLEAN
    BY <1>2 DEF AnswerInv, LoopTypes, SilentAfterShutdown, Ended
  <1>4. \A i \in Responses : out[i].line < lines + 1
    BY <1>2 DEF AnswerInv, AnswersInOrder
  <1>5. \A k \in asked : k \in Answered
    BY <1>2 DEF AnswerInv, OthersAreAnswered, Handling, Awaits
  <1>6. ASSUME NEW kind \in {"result", "error"}, NEW next \in {"reading", "exiting"},
               Respond(lines + 1, r.id, kind, next),
               shutdown' \in BOOLEAN, shutdown' => next = "exiting"
        PROVE  AnswerInv'
    <2>1. lines <= lines + 1 /\ pc # "raised"
      BY <1>2
    <2> QED
      BY <1>2, <1>4, <1>5, <1>6, <2>1, LineIsAnswered
  <1>7. CASE RefuseRequest(r)
    BY <1>3, <1>6, <1>7 DEF RefuseRequest
  <1>8. CASE Scan(r)
    BY <1>1, <1>8, HandlerAwaits DEF Scan, ioVars, Handling, Awaits
  <1>9. CASE Connect(r)
    BY <1>1, <1>9, HandlerAwaits DEF Connect, ioVars, Handling, Awaits
  <1>10. CASE Disconnect(r)
    <2>1. CASE current # NoLink /\ up[current]
      BY <1>1, <1>10, <2>1, HandlerAwaits DEF Disconnect, ioVars, Handling, Awaits
    <2>2. CASE ~(current # NoLink /\ up[current])
      BY <1>3, <1>6, <1>10, <2>2 DEF Disconnect
    <2> QED
      BY <2>1, <2>2
  <1>11. CASE BleWrite(r)
    <2>1. CASE current # NoLink /\ up[current]
      BY <1>1, <1>11, <2>1, HandlerAwaits DEF BleWrite, ioVars, Handling, Awaits
    <2>2. CASE ~(current # NoLink /\ up[current])
      BY <1>3, <1>6, <1>11, <2>2 DEF BleWrite
    <2> QED
      BY <2>1, <2>2
  <1>12. CASE Shutdown(r)
    BY <1>6, <1>12 DEF Shutdown
  <1> QED
    BY <1>7, <1>8, <1>9, <1>10, <1>11, <1>12 DEF Handle

\* The lines of input that are no request.
LEMMA AnswerInvOtherLines ==
  ASSUME AnswerInv, ReadBlank \/ ReadNoRequest \/ ReadRaises \/ ReadEof
  PROVE  AnswerInv'
  <1>1. CASE ReadEof
    BY <1>1, AnswersKept DEF ReadEof, Proceeds, ioVars, AnswerInv, LoopTypes
  <1>2. CASE ReadBlank \/ ReadNoRequest \/ ReadRaises
    <2>1. /\ pc = "reading" /\ lines' = lines + 1 /\ lines \in Nat
          /\ lines + 1 \in 0..MaxLines /\ UNCHANGED <<asked, shutdown>>
          /\ asked \subseteq 1..lines /\ shutdown \in BOOLEAN /\ outOpen \in BOOLEAN
      <3>1. CanRead /\ lines' = lines + 1 /\ UNCHANGED <<asked, shutdown>>
        BY <1>2 DEF ReadBlank, ReadNoRequest, ReadRaises
      <3>2. /\ MaxLines \in Nat /\ lines \in 0..MaxLines /\ asked \subseteq 1..lines
            /\ shutdown \in BOOLEAN /\ outOpen \in BOOLEAN
        BY ServerAssumption DEF AnswerInv, LoopTypes
      <3> QED
        BY <3>1, <3>2 DEF CanRead
    <2>2. ~shutdown /\ \A k \in asked : k \in Answered
      BY <2>1
         DEF AnswerInv, SilentAfterShutdown, OthersAreAnswered, Handling, Awaits, Ended
    <2>3. CASE UNCHANGED <<out, outOpen>> /\ pc' \in {"reading", "raised"}
      <3>1. Responses' = Responses /\ Answered' = Answered
        BY <2>3 DEF Responses, Answered
      <3>2. LoopTypes'
        BY <2>1, <2>3 DEF AnswerInv, LoopTypes, Ended
      <3>3. AnswersInOrder'
        BY <2>1, <2>3, <3>1 DEF AnswerInv, AnswersInOrder
      <3>4. OthersAreAnswered' /\ SilentAfterShutdown' /\ CurrentIsUnanswered'
        BY <2>1, <2>2, <2>3, <3>1
           DEF OthersAreAnswered, SilentAfterShutdown, CurrentIsUnanswered, Handling, Awaits
      <3> QED
        BY <3>2, <3>3, <3>4 DEF AnswerInv
    <2>4. CASE /\ out' = Append(out, [kind |-> "no request", line |-> lines + 1, id |-> 0])
               /\ pc' = "reading" /\ outOpen' = outOpen
      <3> DEFINE e == [kind |-> "no request", line |-> lines + 1, id |-> 0]
      <3>1. e \in OutputLines /\ e.kind # "event" /\ e.line = lines + 1
        <4>1. e \in [kind : {"result", "error", "no request"}, line : Nat, id : Nat]
          BY <2>1
        <4> QED
          BY <4>1 DEF OutputLines
      <3>2. out \in Seq(OutputLines)
        BY DEF AnswerInv, LoopTypes
      <3> HIDE DEF e
      <3>3. out' = Append(out, e)
        BY <2>4 DEF e
      <3>4. Responses' = Responses \cup {Len(out) + 1} /\ Answered \subseteq Answered'
        BY <3>1, <3>2, <3>3, ResponseIsAdded
      <3>5. /\ out' \in Seq(OutputLines) /\ out'[Len(out) + 1] = e
            /\ \A i \in Responses : out'[i] = out[i] /\ i < Len(out) + 1 /\ i \in Nat
            /\ Len(out) \in Nat
        BY <3>1, <3>2, <3>3, OutputGrows DEF Responses
      <3>6. LoopTypes'
        <4>1. asked' \subseteq 1..lines'
          BY <2>1
        <4> QED
          BY <2>1, <2>4, <3>5, <4>1 DEF LoopTypes
      <3>7. \A i \in Responses' : out'[i].line \in 1..lines + 1
        BY <2>1, <3>1, <3>4, <3>5 DEF AnswerInv, AnswersInOrder
      <3>8. \A i, j \in Responses' : i < j => out'[i].line < out'[j].line
        <4> SUFFICES ASSUME NEW i \in Responses', NEW j \in Responses', i < j
                     PROVE  out'[i].line < out'[j].line
          OBVIOUS
        <4>1. i \in Responses
          BY <3>4, <3>5
        <4>2. CASE j \in Responses
          BY <3>5, <4>1, <4>2 DEF AnswerInv, AnswersInOrder
        <4>3. CASE j = Len(out) + 1
          BY <2>1, <3>1, <3>5, <4>1, <4>3 DEF AnswerInv, AnswersInOrder
        <4> QED
          BY <3>4, <4>2, <4>3
      <3>9. OthersAreAnswered' /\ SilentAfterShutdown' /\ CurrentIsUnanswered'
        BY <2>1, <2>2, <2>4, <3>4
           DEF OthersAreAnswered, SilentAfterShutdown, CurrentIsUnanswered, Handling, Awaits
      <3> QED
        BY <2>1, <3>6, <3>7, <3>8, <3>9 DEF AnswerInv, AnswersInOrder
    <2> QED
      BY <1>2, <2>1, <2>3, <2>4
         DEF ReadBlank, ReadNoRequest, ReadRaises, WriteLine, Stop, ioVars
  <1> QED
    BY <1>1, <1>2

\* What resumes run() answers the line being handled, if it ends its handler.
LEMMA AnswerInvContinue ==
  ASSUME AnswerInv, Continue
  PROVE  AnswerInv'
  <1>0. outOpen \in BOOLEAN
    BY DEF AnswerInv, LoopTypes
  <1>1. CASE ScanEnds \/ ConnectSucceeds \/ ConnectRaises \/ DisconnectEnds \/ BleWriteEnds
    <2>1. PICK kind \in {"result", "error"} : Answer(kind)
      BY <1>1 DEF ScanEnds, ConnectSucceeds, ConnectRaises, DisconnectEnds, BleWriteEnds
    <2>2. pc \in Handling
      BY <1>1
         DEF ScanEnds, ConnectSucceeds, ConnectRaises, DisconnectEnds, BleWriteEnds, Handling,
             Awaits
    <2>3. /\ lines > 0 /\ \A i \in Responses : out[i].line < lines
          /\ \A k \in asked : k \in Answered \/ k = lines
          /\ ~shutdown /\ shutdown \in BOOLEAN /\ pc # "raised"
      BY <2>2
         DEF AnswerInv, LoopTypes, CurrentIsUnanswered, OthersAreAnswered, SilentAfterShutdown,
             Handling, Awaits, Ended
    <2>4. lines \in 1..MaxLines /\ lines <= lines
      BY <2>3, ServerAssumption DEF AnswerInv, LoopTypes
    <2> DEFINE hasId == lines \in asked
    <2>5. Respond(lines, hasId, kind, "reading") /\ hasId \in BOOLEAN
      BY <2>1 DEF Answer
    <2>6. UNCHANGED <<lines, asked, shutdown>> /\ (lines \in asked' <=> hasId)
      BY <2>1 DEF Answer, loopVars
    <2> HIDE DEF hasId
    <2> QED
      BY <2>3, <2>4, <2>5, <2>6, LineIsAnswered
  <1>2. CASE \/ StopNotify \/ PriorClosed \/ (\E l \in Links : ConnectFresh(l))
             \/ FreshEstablished \/ Exit \/ CleanupEnds
    <2>1. UNCHANGED <<loopVars, out, outOpen>>
      BY <1>2
         DEF StopNotify, PriorClosed, ConnectFresh, FreshEstablished, Exit, CleanupEnds, ioVars
    <2>2. Proceeds
      BY <1>2
         DEF StopNotify, PriorClosed, ConnectFresh, FreshEstablished, Exit, CleanupEnds, Stop,
             Proceeds, Handling, Awaits
    <2> QED
      BY <1>0, <2>1, <2>2, AnswersKept
  <1> QED
    BY <1>1, <1>2 DEF Continue

\* An event on stdout is no response.
LEMMA AnswerInvRunTask ==
  ASSUME AnswerInv, TaskTypes, RunTask
  PROVE  AnswerInv'
  <1>1. outOpen' = outOpen /\ outOpen \in BOOLEAN /\ UNCHANGED <<pc, loopVars>>
    BY DEF RunTask, AnswerInv, LoopTypes
  <1>2. CASE ~outOpen
    BY <1>1, <1>2, AnswersKept DEF RunTask, Proceeds
  <1>3. CASE outOpen
    <2> DEFINE e == [kind |-> "event", number |-> Head(tasks)]
    <2>1. e \in OutputLines /\ e.kind = "event"
      <3>1. Head(tasks) \in Nat
        BY HeadTailProperties, ServerAssumption DEF RunTask, TaskTypes
      <3>2. e \in [kind : {"event"}, number : Nat]
        BY <3>1
      <3> QED
        BY <3>2 DEF OutputLines
    <2>2. out' = Append(out, e)
      BY <1>3 DEF RunTask
    <2> HIDE DEF e
    <2>3. out \in Seq(OutputLines)
      BY DEF AnswerInv, LoopTypes
    <2>4. /\ Responses' = Responses /\ Answered' = Answered
          /\ out' \in Seq(OutputLines) /\ \A i \in Responses : out'[i] = out[i]
      BY <2>1, <2>2, <2>3, EventIsAdded, OutputGrows DEF Responses
    <2>5. LoopTypes'
      BY <1>1, <2>4 DEF loopVars, AnswerInv, LoopTypes
    <2>6. AnswersInOrder' /\ CurrentIsUnanswered'
      BY <1>1, <2>4 DEF loopVars, AnswerInv, AnswersInOrder, CurrentIsUnanswered
    <2>7. OthersAreAnswered' /\ SilentAfterShutdown'
      BY <1>1, <2>4 DEF loopVars, AnswerInv, OthersAreAnswered, SilentAfterShutdown
    <2> QED
      BY <2>5, <2>6, <2>7 DEF AnswerInv
  <1> QED
    BY <1>1, <1>2, <1>3

\* So every step keeps the answers in order and complete.
LEMMA AnswerInvNext == AnswerInv /\ TaskTypes /\ [Next]_vars => AnswerInv'
  <1> SUFFICES ASSUME AnswerInv, TaskTypes, [Next]_vars PROVE AnswerInv'
    OBVIOUS
  <1>0. outOpen \in BOOLEAN
    BY DEF AnswerInv, LoopTypes
  <1>1. CASE Read
    BY <1>1, AnswerInvHandle, AnswerInvOtherLines DEF Read
  <1>2. CASE Continue
    BY <1>2, AnswerInvContinue
  <1>3. CASE RunTask
    BY <1>3, AnswerInvRunTask
  <1>4. CASE Interrupted \/ ClientStopsReading \/ UNCHANGED vars
    <2>1. UNCHANGED <<loopVars, out>> /\ outOpen' \in BOOLEAN /\ pc' \in {pc, "raised"}
      BY <1>0, <1>4 DEF Interrupted, ClientStopsReading, Stop, vars, ioVars
    <2> QED
      BY <2>1, AnswersKept DEF Proceeds
  <1>5. CASE \E l \in Links : Indication(l) \/ ConnectionLost(l)
    <2>1. UNCHANGED <<loopVars, out>> /\ outOpen' \in BOOLEAN /\ pc' = pc
      BY <1>0, <1>5 DEF Indication, ConnectionLost, ioVars
    <2> QED
      BY <2>1, AnswersKept DEF Proceeds
  <1> QED
    BY <1>1, <1>2, <1>3, <1>4, <1>5 DEF Next
-----------------------------------------------------------------------------
\* Events: what run() does to stdout and to the tasks, event by event.
EventInv == TaskTypes /\ EventsFollowIndications

\* No indication, no task and no event.
LEMMA EventInvInit == Init => EventInv
  <1> SUFFICES ASSUME Init PROVE EventInv
    OBVIOUS
  <1>1. received = 0 /\ received \in 0..MaxIndications
    BY ServerAssumption DEF Init
  <1>2. tasks = <<>> /\ Len(tasks) = 0 /\ tasks \in Seq(1..MaxIndications)
    BY DEF Init
  <1>3. Events = {}
    BY DEF Init, Events
  <1>4. tasks = [k \in 1..Len(tasks) |-> received - Len(tasks) + k]
    BY <1>2
  <1>5. {out[i].number : i \in Events} = 1..received - Len(tasks)
    BY <1>1, <1>2, <1>3
  <1> QED
    BY <1>1, <1>2, <1>3, <1>4, <1>5 DEF EventInv, TaskTypes, EventsFollowIndications

\* Reading, handling and coming down: run() writes at most a response, and
\* forgets the tasks only when it ends.
RunStep == /\ pc \notin Ended /\ UNCHANGED <<received, outOpen>>
           /\ \/ UNCHANGED <<tasks, out>>
              \/ pc' \in Ended /\ tasks' = <<>> /\ UNCHANGED out
              \/ /\ UNCHANGED tasks
                 /\ \E e \in OutputLines : e.kind # "event" /\ out' = Append(out, e)

\* Writing a response, or coming down over it, is such a step,
LEMMA WriteLineIsRunStep ==
  ASSUME pc \notin Ended, NEW e \in OutputLines, e.kind # "event", NEW next, WriteLine(e, next)
  PROVE  RunStep
  BY DEF WriteLine, Stop, RunStep, Ended

\* and so is the end of _handle, whether or not there is an id.
LEMMA RespondIsRunStep ==
  ASSUME pc \notin Ended, NEW n \in Nat, NEW hasId \in BOOLEAN, NEW kind \in {"result", "error"},
         NEW next, Respond(n, hasId, kind, next)
  PROVE  RunStep
  <1> DEFINE id == IF hasId THEN n ELSE 0
             e == [kind |-> kind, line |-> n, id |-> id]
  <1>1. id \in Nat
    OBVIOUS
  <1>2. WriteLine(e, next) \/ UNCHANGED ioVars
    BY DEF Respond
  <1> HIDE DEF id
  <1>3. e \in [kind : {"result", "error", "no request"}, line : Nat, id : Nat] /\ e.kind # "event"
    BY <1>1
  <1>4. e \in OutputLines
    BY <1>3 DEF OutputLines
  <1> HIDE DEF e
  <1> QED
    BY <1>2, <1>3, <1>4, WriteLineIsRunStep DEF RunStep, ioVars

\* Whatever run() does is such a step.
LEMMA RunSteps ==
  ASSUME LoopTypes, Read \/ Continue \/ Interrupted
  PROVE  RunStep
  <1>0. lines \in Nat /\ lines + 1 \in Nat
    BY ServerAssumption DEF LoopTypes
  <1>1. CASE \E r \in Requests : Handle(r)
    <2> SUFFICES ASSUME NEW r \in Requests, Handle(r) PROVE RunStep
      BY <1>1
    <2>1. pc \notin Ended
      BY DEF Handle, RefuseRequest, Scan, Connect, Disconnect, BleWrite, Shutdown, Reads, CanRead,
             Ended
    <2>2. r.id \in BOOLEAN
      <3>1. r \in RequestRecords
        BY ServerAssumption
      <3> QED
        BY <3>1 DEF RequestRecords
    <2>3. \/ \E kind \in {"result", "error"}, next \in {"reading", "exiting"} :
                Respond(lines + 1, r.id, kind, next)
          \/ UNCHANGED ioVars
      BY DEF Handle, RefuseRequest, Scan, Connect, Disconnect, BleWrite, Shutdown
    <2> QED
      BY <1>0, <2>1, <2>2, <2>3, RespondIsRunStep DEF RunStep, ioVars
  <1>2. CASE ReadNoRequest
    <2> DEFINE e == [kind |-> "no request", line |-> lines + 1, id |-> 0]
    <2>1. e \in [kind : {"result", "error", "no request"}, line : Nat, id : Nat]
      BY <1>0
    <2>2. e \in OutputLines /\ e.kind # "event"
      BY <2>1 DEF OutputLines
    <2>3. WriteLine(e, "reading") /\ pc \notin Ended
      BY <1>2 DEF ReadNoRequest, CanRead, Ended
    <2> HIDE DEF e
    <2> QED
      BY <2>2, <2>3, WriteLineIsRunStep
  <1>3. CASE ReadBlank \/ ReadRaises \/ ReadEof \/ Interrupted
    BY <1>3
       DEF ReadBlank, ReadRaises, ReadEof, Interrupted, Suspended, CanRead, Stop, ioVars, RunStep,
           Ended
  <1>4. CASE ScanEnds \/ ConnectSucceeds \/ ConnectRaises \/ DisconnectEnds \/ BleWriteEnds
    <2>1. PICK kind \in {"result", "error"} : Answer(kind)
      BY <1>4 DEF ScanEnds, ConnectSucceeds, ConnectRaises, DisconnectEnds, BleWriteEnds
    <2>2. pc \notin Ended
      BY <1>4 DEF ScanEnds, ConnectSucceeds, ConnectRaises, DisconnectEnds, BleWriteEnds, Ended
    <2> DEFINE hasId == lines \in asked
    <2>3. Respond(lines, hasId, kind, "reading") /\ hasId \in BOOLEAN
      BY <2>1 DEF Answer
    <2> HIDE DEF hasId
    <2> QED
      BY <1>0, <2>2, <2>3, RespondIsRunStep
  <1>5. CASE \/ StopNotify \/ PriorClosed \/ (\E l \in Links : ConnectFresh(l))
             \/ FreshEstablished \/ Exit \/ CleanupEnds
    BY <1>5
       DEF StopNotify, PriorClosed, ConnectFresh, FreshEstablished, Exit, CleanupEnds, Stop, ioVars,
           RunStep, Ended
  <1> QED
    BY <1>1, <1>2, <1>3, <1>4, <1>5 DEF Read, Continue

\* None of which disturbs the events.
LEMMA EventInvRunStep ==
  ASSUME EventInv, LoopTypes, RunStep
  PROVE  EventInv'
  <1>1. <<>> \in Seq(1..MaxIndications)
    OBVIOUS
  <1>2. CASE UNCHANGED <<tasks, out>>
    BY <1>2 DEF RunStep, EventInv, TaskTypes, EventsFollowIndications, Events, Responses
  <1>3. CASE pc' \in Ended /\ tasks' = <<>> /\ UNCHANGED out
    <2>1. TaskTypes'
      BY <1>1, <1>3 DEF RunStep, EventInv, TaskTypes
    <2>2. EventsFollowIndications'
      BY <1>3 DEF RunStep, EventInv, EventsFollowIndications, Events, Responses
    <2> QED
      BY <2>1, <2>2 DEF EventInv
  <1>4. CASE UNCHANGED tasks /\ \E e \in OutputLines : e.kind # "event" /\ out' = Append(out, e)
    <2>1. PICK e \in OutputLines : e.kind # "event" /\ out' = Append(out, e)
      BY <1>4
    <2>2. out \in Seq(OutputLines)
      BY DEF LoopTypes
    <2>3. Events' = Events /\ \A i \in Events : out'[i] = out[i]
      BY <2>1, <2>2, ResponseIsAdded, OutputGrows DEF Events
    <2>4. {out'[i].number : i \in Events'} = {out[i].number : i \in Events}
      BY <2>3
    <2>5. EventsFollowIndications'
      BY <1>4, <2>3, <2>4 DEF RunStep, EventInv, EventsFollowIndications
    <2>6. TaskTypes'
      BY <1>4 DEF RunStep, EventInv, TaskTypes
    <2> QED
      BY <2>5, <2>6 DEF EventInv
  <1> QED
    BY <1>2, <1>3, <1>4 DEF RunStep

\* An indication becomes the last task in the queue.
LEMMA EventInvIndication ==
  ASSUME EventInv, LoopTypes, NEW l \in Links, Indication(l)
  PROVE  EventInv'
  <1>1. /\ received < MaxIndications /\ received' = received + 1 /\ received \in Nat
        /\ tasks' = Append(tasks, received + 1) /\ UNCHANGED <<pc, out, outOpen>>
        /\ received + 1 \in 1..MaxIndications
    BY ServerAssumption DEF Indication, EventInv, TaskTypes
  <1> DEFINE n == Len(tasks)
  <1>2. /\ tasks' \in Seq(1..MaxIndications) /\ Len(tasks') = n + 1 /\ n \in Nat
        /\ \A k \in 1..n : tasks'[k] = tasks[k]
        /\ tasks'[n + 1] = received + 1
        /\ DOMAIN tasks' = 1..n + 1
    BY <1>1, AppendProperties, LenProperties DEF EventInv, TaskTypes
  <1>3. received' - Len(tasks') = received - n
    BY <1>1, <1>2
  <1>4. ASSUME outOpen, pc \notin Ended
        PROVE  tasks' = [k \in 1..Len(tasks') |-> received' - Len(tasks') + k]
    <2>1. \A k \in 1..n : tasks[k] = received - n + k
      BY <1>4 DEF EventInv, EventsFollowIndications
    <2>2. \A k \in 1..n + 1 : tasks'[k] = received - n + k
      BY <1>1, <1>2, <2>1
    <2>3. tasks' = [k \in DOMAIN tasks' |-> tasks'[k]]
      BY <1>2
    <2> HIDE DEF n
    <2> QED
      BY <1>2, <1>3, <2>2, <2>3
  <1>5. EventsFollowIndications'
    BY <1>1, <1>3, <1>4 DEF EventInv, EventsFollowIndications, Events, Responses
  <1>6. TaskTypes'
    BY <1>1, <1>2 DEF TaskTypes
  <1> QED
    BY <1>5, <1>6 DEF EventInv

\* The first task writes the next event, or loses it to a broken pipe.
LEMMA EventInvRunTask ==
  ASSUME EventInv, LoopTypes, RunTask
  PROVE  EventInv'
  <1>1. /\ tasks # <<>> /\ tasks' = Tail(tasks) /\ UNCHANGED <<pc, received, outOpen>>
        /\ pc \notin Ended
    BY DEF RunTask, Suspended
  <1> DEFINE n == Len(tasks)
             sent == received - n
  <1>2. /\ tasks' \in Seq(1..MaxIndications) /\ Len(tasks') = n - 1 /\ n \in Nat \ {0}
        /\ \A k \in 1..n - 1 : tasks'[k] = tasks[k + 1]
        /\ DOMAIN tasks' = 1..n - 1 /\ Head(tasks) = tasks[1] /\ Head(tasks) \in 1..MaxIndications
    <2>1. tasks \in Seq(1..MaxIndications)
      BY DEF EventInv, TaskTypes
    <2>2. /\ Head(tasks) \in 1..MaxIndications /\ Tail(tasks) \in Seq(1..MaxIndications)
          /\ Len(Tail(tasks)) = n - 1 /\ \A k \in 1..n - 1 : Tail(tasks)[k] = tasks[k + 1]
      BY <1>1, <2>1, HeadTailProperties
    <2>3. n \in Nat \ {0}
      BY <1>1, <2>1, EmptySeq
    <2>4. Head(tasks) = tasks[1]
      BY <1>1, <2>1
    <2>5. DOMAIN Tail(tasks) = 1..Len(Tail(tasks))
      BY <2>2, LenProperties
    <2> QED
      BY <1>1, <2>2, <2>3, <2>4, <2>5
  <1>3. TaskTypes' /\ received \in Nat
    BY <1>1, <1>2, ServerAssumption DEF EventInv, TaskTypes
  <1>4. CASE ~outOpen
    <2>1. UNCHANGED out
      BY <1>4 DEF RunTask
    <2> QED
      BY <1>1, <1>3, <1>4, <2>1 DEF EventInv, EventsFollowIndications, Events, Responses
  <1>5. CASE outOpen
    <2> DEFINE e == [kind |-> "event", number |-> Head(tasks)]
    <2>1. e \in OutputLines /\ e.kind = "event" /\ e.number = Head(tasks)
      <3>1. Head(tasks) \in Nat
        BY <1>2, ServerAssumption
      <3>2. e \in [kind : {"event"}, number : Nat]
        BY <3>1
      <3> QED
        BY <3>2 DEF OutputLines
    <2>2. out' = Append(out, e)
      BY <1>5 DEF RunTask
    <2> HIDE DEF e
    <2>3. /\ {out[i].number : i \in Events} = 1..sent
          /\ \A k \in 1..n : tasks[k] = sent + k
          /\ \A i, j \in Events : i < j => out[i].number < out[j].number
      BY <1>1, <1>5 DEF EventInv, EventsFollowIndications
    <2>4. /\ Head(tasks) = sent + 1 /\ sent \in Nat
          /\ received' - Len(tasks') = sent + 1
      BY <1>1, <1>2, <1>3, <2>3
    <2>5. out \in Seq(OutputLines)
      BY DEF LoopTypes
    <2>6. /\ Events' = Events \cup {Len(out) + 1} /\ Len(out) \in Nat
          /\ \A i \in Events : out'[i] = out[i] /\ i < Len(out) + 1 /\ i \in Nat
          /\ out'[Len(out) + 1] = e
      BY <2>1, <2>2, <2>5, EventIsAdded, OutputGrows DEF Events
    <2>7. \A i \in Events : out[i].number \in 1..sent
      BY <2>3
    <2> HIDE DEF n, sent
    <2>8. \A i, j \in Events' : i < j => out'[i].number < out'[j].number
      <3> SUFFICES ASSUME NEW i \in Events', NEW j \in Events', i < j
                   PROVE  out'[i].number < out'[j].number
        OBVIOUS
      <3>1. i \in Events
        BY <2>6
      <3>2. CASE j \in Events
        BY <2>3, <2>6, <3>1, <3>2
      <3>3. CASE j = Len(out) + 1
        BY <2>1, <2>4, <2>6, <2>7, <3>1, <3>3
      <3> QED
        BY <2>6, <3>2, <3>3
    <2>9. {out'[i].number : i \in Events'} = 1..sent + 1
      <3>1. {out'[i].number : i \in Events'} = {out[i].number : i \in Events} \cup {sent + 1}
        BY <2>1, <2>4, <2>6
      <3>2. (1..sent) \cup {sent + 1} = 1..sent + 1
        BY <2>4
      <3> QED
        BY <2>3, <3>1, <3>2
    <2>10. tasks' = [k \in 1..Len(tasks') |-> sent + 1 + k]
      <3>1. \A k \in 1..n - 1 : tasks'[k] = sent + 1 + k
        <4> SUFFICES ASSUME NEW k \in 1..n - 1 PROVE tasks'[k] = sent + 1 + k
          OBVIOUS
        <4>1. k + 1 \in 1..n /\ k \in Nat
          BY <1>2
        <4>2. tasks[k + 1] = sent + (k + 1)
          BY <2>3, <4>1
        <4> QED
          BY <1>2, <2>4, <4>1, <4>2
      <3>2. tasks' = [k \in DOMAIN tasks' |-> tasks'[k]]
        BY <1>2
      <3> QED
        BY <1>2, <3>1, <3>2
    <2>11. EventsFollowIndications'
      BY <2>4, <2>8, <2>9, <2>10 DEF EventsFollowIndications
    <2> QED
      BY <1>3, <2>11 DEF EventInv
  <1> QED
    BY <1>3, <1>4, <1>5 DEF RunTask

\* So every step keeps the events in the order of the indications.
LEMMA EventInvNext == EventInv /\ LoopTypes /\ [Next]_vars => EventInv'
  <1> SUFFICES ASSUME EventInv, LoopTypes, [Next]_vars PROVE EventInv'
    OBVIOUS
  <1>1. CASE Read \/ Continue \/ Interrupted
    BY <1>1, RunSteps, EventInvRunStep
  <1>2. CASE RunTask
    BY <1>2, EventInvRunTask
  <1>3. CASE \E l \in Links : Indication(l)
    BY <1>3, EventInvIndication
  <1>4. CASE ClientStopsReading \/ (\E l \in Links : ConnectionLost(l)) \/ UNCHANGED vars
    <2>1. UNCHANGED <<pc, tasks, received, out>> /\ (outOpen' => outOpen)
      BY <1>4 DEF ClientStopsReading, ConnectionLost, ioVars, vars
    <2> QED
      BY <2>1 DEF EventInv, TaskTypes, EventsFollowIndications, Events, Responses
  <1> QED
    BY <1>1, <1>2, <1>3, <1>4 DEF Next
-----------------------------------------------------------------------------
IInv == LinkInv /\ AnswerInv /\ EventInv

\* All three hold in every state.
THEOREM InvariantHolds == Spec => []IInv
  <1>1. Init => IInv
    BY LinkInvInit, AnswerInvInit, EventInvInit DEF IInv
  <1>2. IInv /\ [Next]_vars => IInv'
    BY LinkInvNext, AnswerInvNext, EventInvNext DEF IInv, AnswerInv, EventInv
  <1> QED
    BY <1>1, <1>2, PTL DEF Spec

\* Every variable of the server keeps its type.
THEOREM ServerTypes == Spec => []TypeOK
  <1>1. IInv => TypeOK
    <2> SUFFICES ASSUME IInv PROVE TypeOK
      OBVIOUS
    <2>1. asked \subseteq 1..MaxLines
      BY ServerAssumption DEF IInv, AnswerInv, LoopTypes
    <2> QED
      BY <2>1 DEF IInv, LinkInv, HolderTypes, AnswerInv, LoopTypes, EventInv, TaskTypes, TypeOK
  <1> QED
    BY <1>1, InvariantHolds, PTL

\* One response per line at most, in the order of the lines.
THEOREM ResponsesInOrder == Spec => []AnswersInOrder
  <1>1. IInv => AnswersInOrder
    BY DEF IInv, AnswerInv
  <1> QED
    BY <1>1, InvariantHolds, PTL

\* No handler ends without its response, while the server lives.
THEOREM EveryRequestIsAnswered == Spec => []NoRequestUnanswered
  <1>1. IInv => NoRequestUnanswered
    BY DEF IInv, AnswerInv, OthersAreAnswered, NoRequestUnanswered, Handling
  <1> QED
    BY <1>1, InvariantHolds, PTL

\* Events follow the indications, none twice; none is missing while the client reads.
THEOREM EventsInOrder == Spec => []EventsFollowIndications
  <1>1. IInv => EventsFollowIndications
    BY DEF IInv, EventInv
  <1> QED
    BY <1>1, InvariantHolds, PTL

\* Any connection that is up is held, or was let go of because bleak raised.
THEOREM LinksAreRemembered == Spec => []NoLinkIsForgotten
  <1>1. IInv => NoLinkIsForgotten
    BY DEF IInv, LinkInv
  <1> QED
    BY <1>1, InvariantHolds, PTL

\* After an orderly exit nothing is connected, with the same exception.
THEOREM ExitLeavesNoLink == Spec => []ExitDisconnects
  <1>1. IInv => ExitDisconnects
    BY ServerAssumption
       DEF IInv, LinkInv, LinksInPlace, NoLinkIsForgotten, ExitDisconnects
  <1> QED
    BY <1>1, InvariantHolds, PTL

\* Nothing is answered after shutdown: the loop has ended, and neither the
\* clean-up nor an indication task writes a response.
THEOREM NothingAfterShutdown == Spec => ShutdownIsLast
  <1>1. IInv /\ [Next]_vars => [shutdown => Responses' = Responses]_vars
    <2> SUFFICES ASSUME IInv, Next, shutdown PROVE Responses' = Responses
      BY DEF vars
    <2>1. pc \in {"exiting", "cleanup"} \cup Ended
      BY DEF IInv, AnswerInv, SilentAfterShutdown
    <2>2. CASE RunTask
      <3>1. CASE UNCHANGED out
        BY <3>1 DEF Responses
      <3>2. CASE ~UNCHANGED out
        <4> DEFINE e == [kind |-> "event", number |-> Head(tasks)]
        <4>1. out' = Append(out, e)
          BY <2>2, <3>2 DEF RunTask
        <4>2. Head(tasks) \in Nat
          BY <2>2, HeadTailProperties, ServerAssumption DEF RunTask, IInv, EventInv, TaskTypes
        <4>3. e \in [kind : {"event"}, number : Nat]
          BY <4>2
        <4>4. e \in OutputLines /\ e.kind = "event"
          BY <4>3 DEF OutputLines
        <4> HIDE DEF e
        <4> QED
          BY <4>1, <4>4, EventIsAdded DEF IInv, AnswerInv, LoopTypes
      <3> QED
        BY <3>1, <3>2
    <2>3. CASE Read \/ Continue \/ Interrupted
      <3>1. CASE Read
        BY <2>1, <3>1
           DEF Read, ReadBlank, ReadNoRequest, ReadRaises, ReadEof, CanRead, Handle, RefuseRequest,
               Scan, Connect, Disconnect, BleWrite, Shutdown, Reads, Ended
      <3>2. CASE StopNotify \/ Exit \/ CleanupEnds \/ Interrupted
        BY <3>2 DEF StopNotify, Exit, CleanupEnds, Interrupted, ioVars, Responses
      <3>3. CASE Continue /\ ~(StopNotify \/ Exit \/ CleanupEnds)
        BY <2>1, <3>3
           DEF Continue, ScanEnds, PriorClosed, ConnectFresh, FreshEstablished, ConnectSucceeds,
               ConnectRaises, DisconnectEnds, BleWriteEnds, Ended
      <3> QED
        BY <2>3, <3>1, <3>2, <3>3
    <2>4. CASE ClientStopsReading \/ \E l \in Links : Indication(l) \/ ConnectionLost(l)
      BY <2>4 DEF ClientStopsReading, Indication, ConnectionLost, ioVars, Responses
    <2> QED
      BY <2>2, <2>3, <2>4 DEF Next
  <1> QED
    BY <1>1, InvariantHolds, PTL DEF Spec, ShutdownIsLast
=============================================================================
