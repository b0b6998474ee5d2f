---------------------------- MODULE RequestReply ----------------------------
(***************************************************************************)
(* What bendio/radio.py promises its callers about commands, without       *)
(* futures, tasks or Bluetooth: at most one command per (group, command)   *)
(* key is outstanding, a second one is turned away at once, and every      *)
(* command ends exactly once.                                              *)
(***************************************************************************)
CONSTANTS Calls,   \* the invocations of send() that expect a reply
          KeyOf    \* KeyOf[c]: the (group, command) pair of call c

VARIABLE status    \* status[c]: how far call c has come

Statuses == {"new", "open", "rejected", "settled"}

Init == status = [c \in Calls |-> "new"]

Outstanding(k) == {c \in Calls : status[c] = "open" /\ KeyOf[c] = k}

Open(c) == /\ status[c] = "new"
           /\ Outstanding(KeyOf[c]) = {}
           /\ status' = [status EXCEPT ![c] = "open"]

\* "already in flight": only ever said when the key really is taken.
Reject(c) == /\ status[c] = "new"
             /\ Outstanding(KeyOf[c]) # {}
             /\ status' = [status EXCEPT ![c] = "rejected"]

\* A command that cannot be written ends without having been outstanding.
Refuse(c) == /\ status[c] = "new"
             /\ status' = [status EXCEPT ![c] = "settled"]

Settle(c) == /\ status[c] = "open"
             /\ status' = [status EXCEPT ![c] = "settled"]

Next == \E c \in Calls : Open(c) \/ Reject(c) \/ Refuse(c) \/ Settle(c)

Spec == Init /\ [][Next]_status
=============================================================================
