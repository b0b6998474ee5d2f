------------------------------ MODULE MCRadio ------------------------------
(***************************************************************************)
(* An instance of Radio for TLC: one link, two calls of the key k1 and one *)
(* of k2, which in one of the runs expects no reply.                       *)
(***************************************************************************)
EXTENDS Radio, TLC

CONSTANTS link, k1, k2, c1, c2, d1

MCLinks == {link}
MCKeys == {k1, k2}
MCCalls == {c1, c2, d1}
MCKeyOf == c1 :> k1 @@ c2 :> k1 @@ d1 :> k2
MCSilent == {d1}

\* Leaves timeouts as the only way a call is given up.
MCOnlyTimeouts == \A c \in Calls : outcome[c] \notin {"error", "cancelled"}
=============================================================================
