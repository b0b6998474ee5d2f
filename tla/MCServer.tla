------------------------------ MODULE MCServer ------------------------------
(***************************************************************************)
(* Instances of Server for TLC.  Two links are enough for a connect that   *)
(* finds a prior connection.                                               *)
(***************************************************************************)
EXTENDS Server

CONSTANTS l1, l2

MCLinks == {l1, l2}

\* Every method with good parameters, with and without an id, and each way a
\* request is refused.
MCGood == [method : Methods \ {"unknown", "not a string"}, params : {"good"},
           id : BOOLEAN]
MCRefused == [method : {"unknown", "not a string", "connect"}, params : {"bad"},
              id : BOOLEAN]
             \cup [method : {"scan"}, params : {"not an object"}, id : BOOLEAN]
MCRequests == MCGood \cup MCRefused
=============================================================================
