------------------------------- MODULE Server -------------------------------
(***************************************************************************)
(* The JSON-RPC server of bendio/server.py: a loop that reads one line,    *)
(* runs its handler to the end and reads the next, beside the tasks that   *)
(* write one ble_indication event each.  Both write to stdout without      *)
(* suspending, so a response or an event is written in one step.           *)
(*                                                                         *)
(* A line is read when the loop asks for it; what the client has piped     *)
(* ahead is not kept.  A request is a record [method, params, id]: id says *)
(* whether it has one, and the value of the id is the line's number.       *)
(***************************************************************************)
EXTENDS BleLink, Naturals, Sequences

CONSTANTS Requests,        \* the requests the client may send
          NoLink,          \* _link is None
          MaxLines,        \* bounds the lines of a behaviour
          MaxIndications   \* bounds the indications of a behaviour

Methods == {"scan", "connect", "disconnect", "ble_write", "shutdown",
            "unknown", "not a string"}
RequestRecords == [method : Methods,
                   params : {"good", "bad", "not an object"},
                   id : BOOLEAN]

ASSUME ServerAssumption == /\ NoLink \notin Links
                           /\ Requests \subseteq RequestRecords
                           /\ MaxLines \in Nat /\ MaxIndications \in Nat

VARIABLES pc,         \* the await run() is suspended at
          lines,      \* number of lines read
          asked,      \* the lines that were requests with an id
          shutdown,   \* _shutdown_requested
          current,    \* _link
          fresh,      \* the local `link` of a connect handler
          made,       \* the BleLink objects made so far
          abandoned,  \* the links let go of after bleak raised
          tasks,      \* indications whose task has not run, oldest first
          received,   \* number of indications received
          out,        \* what stdout has received
          outOpen     \* the client still reads stdout

loopVars == <<lines, asked, shutdown>>
linkObjects == <<current, fresh, made, abandoned>>
ioVars == <<tasks, received, out, outOpen>>
vars == <<linkVars, pc, loopVars, linkObjects, ioVars>>

Ended == {"done", "raised"}
\* run() goes straight on from these two: nothing else gets a turn of the loop.
Suspended == pc \notin {"fresh", "exiting"} \cup Ended
Awaits == {"scanning", "closing", "fresh", "connecting", "disconnecting",
           "writing", "cleanup"}

\* A line of stdout: the number of the line it answers and its id (0 is null),
\* or the number of the indication it reports.
OutputLines == [kind : {"result", "error", "no request"}, line : Nat, id : Nat]
                 \cup [kind : {"event"}, number : Nat]

TypeOK ==
  /\ LinkTypeOK
  /\ pc \in {"reading", "exiting"} \cup Awaits \cup Ended
  /\ lines \in 0..MaxLines /\ asked \subseteq 1..MaxLines
  /\ shutdown \in BOOLEAN
  /\ current \in Links \cup {NoLink} /\ fresh \in Links \cup {NoLink}
  /\ made \subseteq Links /\ abandoned \subseteq Links
  /\ tasks \in Seq(1..MaxIndications) /\ received \in 0..MaxIndications
  /\ out \in Seq(OutputLines) /\ outOpen \in BOOLEAN

Init ==
  /\ LinkInit
  /\ pc = "reading"
  /\ lines = 0 /\ asked = {} /\ shutdown = FALSE
  /\ current = NoLink /\ fresh = NoLink /\ made = {} /\ abandoned = {}
  /\ tasks = <<>> /\ received = 0 /\ out = <<>> /\ outOpen = TRUE
-----------------------------------------------------------------------------
\* The task of run() ends: asyncio.run() cancels the tasks that have not run.
Stop(how) == pc' = how /\ tasks' = <<>>

\* One line to stdout, then the loop goes to `next`.  A broken pipe raises in
\* _send_result, again in _send_error, and ends run().
WriteLine(entry, next) ==
  IF outOpen
  THEN /\ out' = Append(out, entry)
       /\ pc' = next
       /\ UNCHANGED <<tasks, received, outOpen>>
  ELSE Stop("raised") /\ UNCHANGED <<received, out, outOpen>>

\* A mistake of _handle: no return after a response.
RespondTwice(n, hasId, kind, next) ==
  LET entry == [kind |-> kind, line |-> n, id |-> IF hasId THEN n ELSE 0] IN
    /\ out' = out \o <<entry, entry>>
    /\ pc' = next
    /\ UNCHANGED <<tasks, received, outOpen>>

\* The end of _handle for the request of line n: only a success is kept silent
\* when the request has no id.
Respond(n, hasId, kind, next) ==
  IF kind = "result" /\ ~hasId
  THEN pc' = next /\ UNCHANGED ioVars
  ELSE WriteLine([kind |-> kind, line |-> n, id |-> IF hasId THEN n ELSE 0], next)

Answer(kind) == /\ Respond(lines, lines \in asked, kind, "reading")
                /\ UNCHANGED loopVars
-----------------------------------------------------------------------------
CanRead == pc = "reading" /\ lines < MaxLines

ReadBlank ==
  /\ CanRead
  /\ lines' = lines + 1
  /\ UNCHANGED <<linkVars, pc, asked, shutdown, linkObjects, ioVars>>

\* Not JSON, or JSON that is no object: an error with a null id.
ReadNoRequest ==
  /\ CanRead
  /\ lines' = lines + 1
  /\ WriteLine([kind |-> "no request", line |-> lines + 1, id |-> 0], "reading")
  /\ UNCHANGED <<linkVars, asked, shutdown, linkObjects>>

\* Bytes that are no UTF-8, or a line longer than the reader's limit: readline()
\* or decode() raises outside every try.
ReadRaises ==
  /\ CanRead
  /\ lines' = lines + 1
  /\ Stop("raised")
  /\ UNCHANGED <<linkVars, asked, shutdown, linkObjects, received, out, outOpen>>

ReadEof ==
  /\ pc = "reading"
  /\ pc' = "exiting"
  /\ UNCHANGED <<linkVars, loopVars, linkObjects, ioVars>>

\* The loop has read request r; the handlers below say what happens next.
Reads(r) == /\ CanRead
            /\ lines' = lines + 1
            /\ asked' = IF r.id THEN asked \cup {lines + 1} ELSE asked

Refused(r) == \/ r.method \in {"not a string", "unknown"}
              \/ r.params = "not an object"
              \/ r.params = "bad" /\ r.method \in {"scan", "connect", "ble_write"}

RefuseRequest(r) ==
  /\ Reads(r) /\ Refused(r)
  /\ Respond(lines + 1, r.id, "error", "reading")
  /\ UNCHANGED <<linkVars, shutdown, linkObjects>>
-----------------------------------------------------------------------------
Scan(r) ==
  /\ Reads(r) /\ ~Refused(r) /\ r.method = "scan"
  /\ pc' = "scanning"
  /\ UNCHANGED <<linkVars, shutdown, linkObjects, ioVars>>

ScanEnds ==
  /\ pc = "scanning"
  /\ \E kind \in {"result", "error"} : Answer(kind)
  /\ UNCHANGED <<linkVars, linkObjects>>

\* A mistake of connect: the prior link is let go of without a disconnect().
ConnectDropsPrior(r) ==
  /\ Reads(r) /\ ~Refused(r) /\ r.method = "connect" /\ made # Links
  /\ pc' = "fresh" /\ current' = NoLink
  /\ UNCHANGED <<linkVars, shutdown, fresh, made, abandoned, ioVars>>

\* connect: first disconnect() a prior link, if that awaits anything at all.
\* Links bounds the connects of a behaviour.
Connect(r) ==
  /\ Reads(r) /\ ~Refused(r) /\ r.method = "connect" /\ made # Links
  /\ IF current # NoLink /\ up[current]
     THEN DisconnectCall(current) /\ pc' = "closing" /\ UNCHANGED current
     ELSE pc' = "fresh" /\ current' = NoLink /\ UNCHANGED linkVars
  /\ UNCHANGED <<shutdown, fresh, made, abandoned, ioVars>>

StopNotify ==
  /\ pc \in {"closing", "disconnecting", "cleanup"}
  /\ Unsubscribed(current)
  /\ UNCHANGED <<pc, loopVars, linkObjects, ioVars>>

\* disconnect() of the prior link returned or raised: both let go of it.
PriorClosed ==
  /\ pc = "closing"
  /\ \/ DisconnectDone(current) /\ UNCHANGED abandoned
     \/ DisconnectFailed(current) /\ abandoned' = abandoned \cup {current}
  /\ pc' = "fresh"
  /\ current' = NoLink
  /\ UNCHANGED <<loopVars, fresh, made, ioVars>>

\* link = BleLink(address), up to the await in its connect().
ConnectFresh(l) ==
  /\ pc = "fresh" /\ l \notin made
  /\ ConnectCall(l)
  /\ pc' = "connecting"
  /\ fresh' = l
  /\ made' = made \cup {l}
  /\ UNCHANGED <<loopVars, current, abandoned, ioVars>>

FreshEstablished ==
  /\ pc = "connecting"
  /\ ConnectEstablished(fresh)
  /\ UNCHANGED <<pc, loopVars, linkObjects, ioVars>>

ConnectSucceeds ==
  /\ pc = "connecting"
  /\ SubscribeDone(fresh)
  /\ Answer("result")
  /\ current' = fresh /\ fresh' = NoLink
  /\ UNCHANGED <<made, abandoned>>

\* The link is not kept.  If start_notify() raised, it may well be up.
ConnectRaises ==
  /\ pc = "connecting"
  /\ \/ ConnectFailed(fresh) /\ UNCHANGED abandoned
     \/ SubscribeFailed(fresh) /\ abandoned' = abandoned \cup {fresh}
  /\ Answer("error")
  /\ fresh' = NoLink
  /\ UNCHANGED <<current, made>>
-----------------------------------------------------------------------------
Disconnect(r) ==
  /\ Reads(r) /\ ~Refused(r) /\ r.method = "disconnect"
  /\ IF current # NoLink /\ up[current]
     THEN /\ DisconnectCall(current)
          /\ pc' = "disconnecting"
          /\ UNCHANGED <<current, ioVars>>
     ELSE /\ current' = NoLink
          /\ Respond(lines + 1, r.id, "result", "reading")
          /\ UNCHANGED linkVars
  /\ UNCHANGED <<shutdown, fresh, made, abandoned>>

DisconnectEnds ==
  /\ pc = "disconnecting"
  /\ \/ DisconnectDone(current) /\ Answer("result") /\ UNCHANGED abandoned
     \/ /\ DisconnectFailed(current)
        /\ Answer("error")
        /\ abandoned' = abandoned \cup {current}
  /\ current' = NoLink
  /\ UNCHANGED <<fresh, made>>

BleWrite(r) ==
  /\ Reads(r) /\ ~Refused(r) /\ r.method = "ble_write"
  /\ IF current # NoLink /\ up[current]
     THEN pc' = "writing" /\ UNCHANGED ioVars
     ELSE Respond(lines + 1, r.id, "error", "reading")
  /\ UNCHANGED <<linkVars, shutdown, linkObjects>>

\* Mistakes of ble_write: an exception of bleak that nobody answers, and a write
\* that waits for the link to come back.
BleWriteEndsSilently ==
  /\ pc = "writing"
  /\ \/ up[current] /\ Answer("result")
     \/ pc' = "reading" /\ UNCHANGED <<loopVars, ioVars>>
  /\ UNCHANGED <<linkVars, linkObjects>>

BleWriteWaitsForLink ==
  /\ pc = "writing" /\ up[current]
  /\ Answer("result")
  /\ UNCHANGED <<linkVars, linkObjects>>

BleWriteEnds ==
  /\ pc = "writing"
  /\ \/ up[current] /\ Answer("result")
     \/ Answer("error")
  /\ UNCHANGED <<linkVars, linkObjects>>

\* A mistake of run(): the loop goes on reading after shutdown has been acknowledged.
ShutdownReadsOn(r) ==
  /\ Reads(r) /\ ~Refused(r) /\ r.method = "shutdown"
  /\ shutdown' = TRUE
  /\ Respond(lines + 1, r.id, "result", "reading")
  /\ UNCHANGED <<linkVars, linkObjects>>

Shutdown(r) ==
  /\ Reads(r) /\ ~Refused(r) /\ r.method = "shutdown"
  /\ shutdown' = TRUE
  /\ Respond(lines + 1, r.id, "result", "exiting")
  /\ UNCHANGED <<linkVars, linkObjects>>
-----------------------------------------------------------------------------
\* A mistake of run(): no clean-up.
ExitAtOnce ==
  /\ pc = "exiting"
  /\ Stop("done") /\ current' = NoLink
  /\ UNCHANGED <<linkVars, loopVars, fresh, made, abandoned, received, out, outOpen>>

\* The clean-up of run() after its loop.
Exit ==
  /\ pc = "exiting"
  /\ IF current # NoLink /\ up[current]
     THEN /\ DisconnectCall(current)
          /\ pc' = "cleanup"
          /\ UNCHANGED <<current, tasks>>
     ELSE Stop("done") /\ current' = NoLink /\ UNCHANGED linkVars
  /\ UNCHANGED <<loopVars, fresh, made, abandoned, received, out, outOpen>>

CleanupEnds ==
  /\ pc = "cleanup"
  /\ \/ DisconnectDone(current) /\ UNCHANGED abandoned
     \/ DisconnectFailed(current) /\ abandoned' = abandoned \cup {current}
  /\ current' = NoLink
  /\ Stop("done")
  /\ UNCHANGED <<loopVars, fresh, made, received, out, outOpen>>

\* Ctrl-C cancels run() at its await; nothing is cleaned up.
Interrupted ==
  /\ Suspended
  /\ Stop("raised")
  /\ UNCHANGED <<linkVars, loopVars, linkObjects, received, out, outOpen>>
-----------------------------------------------------------------------------
\* Mistakes around the indication tasks: a number taken one too early, the
\* newest task first, and a task that keeps trying a broken pipe.
IndicationNumberedEarly(l) ==
  /\ Suspended /\ received < MaxIndications
  /\ CanIndicate(l)
  /\ received' = received + 1
  /\ tasks' = Append(tasks, received)
  /\ UNCHANGED <<linkVars, pc, loopVars, linkObjects, out, outOpen>>

RunNewestTask ==
  /\ Suspended /\ tasks # <<>>
  /\ tasks' = SubSeq(tasks, 1, Len(tasks) - 1)
  /\ out' = Append(out, [kind |-> "event", number |-> tasks[Len(tasks)]])
  /\ UNCHANGED <<linkVars, pc, loopVars, linkObjects, received, outOpen>>

RunTaskUntilWritten ==
  /\ Suspended /\ tasks # <<>> /\ outOpen
  /\ tasks' = Tail(tasks)
  /\ out' = Append(out, [kind |-> "event", number |-> Head(tasks)])
  /\ UNCHANGED <<linkVars, pc, loopVars, linkObjects, received, outOpen>>

\* _on_ble_frame: one task per indication, of whichever link it comes from.
Indication(l) ==
  /\ Suspended /\ received < MaxIndications
  /\ CanIndicate(l)
  /\ received' = received + 1
  /\ tasks' = Append(tasks, received + 1)
  /\ UNCHANGED <<linkVars, pc, loopVars, linkObjects, out, outOpen>>

\* A task runs while run() is suspended; the loop's queue is first in, first
\* out.  A broken pipe ends the task only.
RunTask ==
  /\ Suspended /\ tasks # <<>>
  /\ tasks' = Tail(tasks)
  /\ out' = IF outOpen THEN Append(out, [kind |-> "event", number |-> Head(tasks)])
            ELSE out
  /\ UNCHANGED <<linkVars, pc, loopVars, linkObjects, received, outOpen>>

ConnectionLost(l) ==
  /\ pc \notin Ended
  /\ Drop(l)
  /\ UNCHANGED <<pc, loopVars, linkObjects, ioVars>>

ClientStopsReading ==
  /\ pc \notin Ended /\ outOpen
  /\ outOpen' = FALSE
  /\ UNCHANGED <<linkVars, pc, loopVars, linkObjects, tasks, received, out>>
-----------------------------------------------------------------------------
Handle(r) == \/ RefuseRequest(r) \/ Scan(r) \/ Connect(r) \/ Disconnect(r)
             \/ BleWrite(r) \/ Shutdown(r)

Read == \/ ReadBlank \/ ReadNoRequest \/ ReadRaises \/ ReadEof
        \/ \E r \in Requests : Handle(r)

Continue == \/ ScanEnds \/ StopNotify \/ PriorClosed
            \/ (\E l \in Links : ConnectFresh(l))
            \/ FreshEstablished \/ ConnectSucceeds \/ ConnectRaises
            \/ DisconnectEnds \/ BleWriteEnds \/ Exit \/ CleanupEnds

Next == \/ Read \/ Continue \/ RunTask \/ Interrupted \/ ClientStopsReading
        \/ \E l \in Links : Indication(l) \/ ConnectionLost(l)

Spec == Init /\ [][Next]_vars

\* Every await of bleak comes back and the loop runs what is ready.  Nothing
\* makes the client send a line.
FairSpec == Spec /\ WF_vars(Continue) /\ WF_vars(RunTask)
-----------------------------------------------------------------------------
\* The places of stdout that hold a response, and those that hold an event.
Responses == {i \in DOMAIN out : out[i].kind # "event"}
Events == DOMAIN out \ Responses
Answered == {out[i].id : i \in Responses}

\* The k-th response belongs to a later line than the one before it: no line
\* is answered twice, late, or before it was read.
AnswersInOrder ==
  /\ \A i \in Responses : out[i].line \in 1..lines
  /\ \A i, j \in Responses : i < j => out[i].line < out[j].line

\* A request with an id is answered before the next line is read, whatever its
\* handler did or raised, unless the server itself came down.
NoRequestUnanswered ==
  pc # "raised" => \A n \in asked : n \in Answered \/ (n = lines /\ pc \in Awaits)

\* stdout carries the indications in the order received and none twice; while
\* the client reads and the server runs, none is missing either.
EventsFollowIndications ==
  LET sent == received - Len(tasks) IN
    /\ \A i, j \in Events : i < j => out[i].number < out[j].number
    /\ outOpen /\ pc \notin Ended => /\ {out[i].number : i \in Events} = 1..sent
                                     /\ tasks = [k \in 1..Len(tasks) |-> sent + k]

\* The server knows every connection it holds, except those it let go of when
\* bleak raised: connect, disconnect and exit lose no other.
NoLinkIsForgotten ==
  pc # "raised" => \A l \in Links : up[l] => l \in {current, fresh} \cup abandoned

\* The exit after shutdown or EOF leaves nothing connected, with the same
\* exception.
ExitDisconnects == pc = "done" => \A l \in Links : up[l] => l \in abandoned

\* Once shutdown has been acknowledged there is no further response.
ShutdownIsLast == [][shutdown => Responses' = Responses]_vars

\* Every request read comes to its end.
RequestsEnd == pc \in Awaits ~> pc \in {"reading"} \cup Ended

\* Once shutdown has been asked for, the server exits without another line.
ShutdownEnds == shutdown ~> pc \in Ended

\* Indications do not wait behind the requests for ever.
IndicationsAreDelivered == tasks # <<>> ~> tasks = <<>>

\* JSON-RPC 2.0 has no response to a request without an id.
NotificationsGetNoResponse ==
  \A i \in Responses : out[i].kind \in {"result", "error"} => out[i].id # 0
=============================================================================
