------------------------------ MODULE MCCodec ------------------------------
(***************************************************************************)
(* The message codec on one frame of every kind and size, whole, with any  *)
(* one bit flipped, or cut off; and the splitting of audio packets of      *)
(* every SBC configuration, put together frame by frame.                   *)
(***************************************************************************)
EXTENDS Codec, SbcPackets, TLC

VARIABLE intact    \* nobody has touched it

vars == <<frame, intact, packetVars>>

MCShort == {17, 16385, 65537, 1048577, 4194305}

\* Samples that are all data, or all look like the sync byte.
MCSamples == {[i \in 1..LongestFrame |-> b] : b \in {0, SYNC}}
-----------------------------------------------------------------------------
\* Bits for a type without dynamic fields: every integer is 0 or 1, literals are
\* what they must be, and with fill "wide" every string begins with one letter of
\* two bytes.
RECURSIVE Sample(_, _)
Sample(type, fill) ==
  CASE type.k = "bits"     -> [i \in 1..type.n |-> IF i = type.n /\ fill # "zeros" THEN 1 ELSE 0]
    [] type.k = "map"      -> IF type.vm.m = "str" /\ fill = "wide"
                              THEN BitsOf(<<195, 188>> \o [i \in 1..type.vm.n - 2 |-> 0])
                              ELSE Sample(type.inner, fill)
    [] type.k = "lit"      -> Write(type, type.value, <<>>)[1]
    [] type.k = "list"     -> FlattenSeq([i \in 1..type.n |-> Sample(type.inner, fill)])
    [] type.k = "bitfield" -> FlattenSeq([i \in DOMAIN type.fields |-> Sample(type.fields[i], fill)])

Ok == <<BfLitInt(8, SUCCESS)>>
Fragment(channel) == <<BfLitInt(1, 1), BfLitInt(1, channel), BfInt(6), BfBytes(3)>>
Event(type, fields) == <<9, FALSE, <<BfLitInt(8, type)>> \o fields>>

\* Command, reply and body of the frames to begin with.
Basic == {
  <<4, FALSE, GetDevInfo>>, <<4, TRUE, Ok \o DevInfo>>,
  <<5, FALSE, ReadPowerStatus>>, <<5, TRUE, Ok \o <<BfLitInt(16, 1)>> \o BatteryLevel>>,
  <<5, TRUE, Ok \o <<BfLitInt(16, 2)>> \o BatteryVoltage>>,
  <<6, FALSE, RegisterNotification>>, <<6, TRUE, Ints(<<8>>)>>,
  <<10, FALSE, <<>> >>, <<10, TRUE, Ok \o Settings>>, <<11, FALSE, Settings>>, <<11, TRUE, StatusOnly>>,
  <<13, FALSE, ReadRFCh>>, <<13, TRUE, Ok \o RfCh>>, <<13, TRUE, Ok \o RfChDMR>>,
  <<14, FALSE, RfCh>>, <<14, FALSE, RfChDMR>>, <<14, TRUE, WriteRFChReply>>,
  <<20, TRUE, Ok \o Status>>, <<20, TRUE, Ok \o StatusExt>>,
  <<31, FALSE, Fragment(0)>>, <<31, FALSE, Fragment(1)>>, <<31, TRUE, StatusOnly>>,
  <<33, FALSE, ReadBSSSettings>>, <<33, TRUE, Ok \o BSSSettings>>, <<33, TRUE, Ok \o BSSSettingsExt>>,
  <<34, FALSE, BSSSettings>>, <<34, FALSE, BSSSettingsExt>>,
  <<51, FALSE, SetPhoneStatus>>, <<55, TRUE, GetPFReply>>,
  <<76, FALSE, <<>> >>, <<76, TRUE, Ok \o Position>>, <<22, FALSE, Ints(<<8>>)>>,
  Event(0, <<BfBytes(2)>>), Event(1, Status), Event(1, StatusExt), Event(2, Fragment(0)),
  Event(5, RfCh), Event(6, Settings), <<9, TRUE, Ints(<<8, 8>>)>> }

Frame(group, reply, cmd, fields, fill) ==
  FromInt(group, 16)[1] \o <<IF reply THEN 1 ELSE 0>> \o FromInt(cmd, 15)[1]
  \o Sample(BfBitfield(fields, 0), fill)

Init ==
  /\ \/ \E s \in Basic, fill \in {"zeros", "ones", "wide"} : frame = Frame(BASIC, s[2], s[1], s[3], fill)
     \/ \E cmd \in DOMAIN Replies, status \in 1..7 : frame = Refusal(cmd, status)
     \/ frame = Frame(EXTENDED, FALSE, 769, Ints(<<8>>), "ones")
     \/ frame = <<>>   \* the audio channel's turn
  /\ intact = TRUE /\ PacketInit

FlipBit(i) == /\ intact /\ intact' = FALSE
              /\ frame' = [frame EXCEPT ![i] = 1 - @]
              /\ UNCHANGED packetVars

CutOff(bytes) == /\ intact /\ intact' = FALSE
                 /\ Len(frame) >= 8 * bytes
                 /\ frame' = SubSeq(frame, 1, Len(frame) - 8 * bytes)
                 /\ UNCHANGED packetVars

Next == \/ \E i \in 1..Len(frame) : FlipBit(i)
        \/ \E bytes \in 1..4 : CutOff(bytes)
        \/ frame = <<>> /\ PacketNext /\ UNCHANGED <<frame, intact>>

Spec == Init /\ [][Next]_vars
-----------------------------------------------------------------------------
\* Messages of tests/test_protocol.py (the refusal there is one of the frames).
Hex(bytes) == ParseMessage(BitsOf(bytes))[1].v
ASSUME TestVectors ==
  /\ Hex(<<0, 2, 0, 4, 3>>) = <<BASIC, FALSE, 4, Object(GetDevInfo, <<3>>)>>
  /\ Hex(<<0, 2, 0, 13, 29>>)[4] = Object(ReadRFCh, <<29>>)
  /\ Hex(<<0, 2, 128, 6, 5>>)[4] = Bytes(<<5>>)
  /\ LET status == Hex(<<0, 2, 0, 9, 1, 132, 33, 0, 0>>)[4].v[2].v[1].v
     IN SubSeq(status, 1, 4) = <<TRUE, FALSE, FALSE, FALSE>>
=============================================================================
