----------------------------- MODULE MCFraming -----------------------------
(***************************************************************************)
(* Framing with six of the 256 bytes: flag and escape, what XOR makes of   *)
(* them, the command byte and what XOR makes of that.                      *)
(***************************************************************************)
EXTENDS Framing, TLC

CONSTANTS MaxPayload, MaxPackets

MCByte == {"7E", "7D", "5E", "5D", "00", "20"}
MCXor == "7E" :> "5E" @@ "5E" :> "7E" @@ "7D" :> "5D" @@ "5D" :> "7D"
         @@ "00" :> "20" @@ "20" :> "00"
MCCommands == {"00"}

Bounded == Len(payload) <= MaxPayload /\ Len(log) <= MaxPackets /\ Len(out) <= MaxPackets
=============================================================================
