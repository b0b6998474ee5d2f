------------------------------- MODULE Bodies -------------------------------
(***************************************************************************)
(* The messages of protocol/command: the layout of every body, and the     *)
(* functions that choose the type of a dynamic field from the fields read  *)
(* before it (by their position in self) and the number n of bits left.    *)
(* Fields are in the order of the classes; their names are left out.       *)
(* Integers of 32 bits stay bits: nothing looks into them.                 *)
(***************************************************************************)
EXTENDS FieldTypes

SUCCESS == 0
ReplyStatus == BfIntEnum(0..7, 8)
StatusOnly == <<ReplyStatus>>

\* common.py, ht_send_data.py
TncDataFragment == Bools(2) \o <<BfInt(6), BfDynN("tnc_data"), BfDyn("tnc_channel")>>
HTSendData == <<BfDynN("fragment")>>

\* dev_info.py
DevInfo == Ints(<<8, 16, 8, 16>>) \o Bools(6) \o <<BfInt(6)>> \o Bools(4) \o Ints(<<8, 4>>)
           \o Bools(2) \o <<BfLitInt(2, 0)>>
GetDevInfo == <<BfLitInt(8, 3)>>
GetDevInfoReply == <<ReplyStatus, BfDyn("dev_info")>>

\* settings.py
Settings ==
  Ints(<<4, 4>>) \o Bools(1) \o Ints(<<1, 2, 4>>) \o Bools(4) \o Ints(<<3, 4, 5, 2, 3>>) \o Bools(3)
  \o <<BfInt(3), BfMap(BfInt(5), [m |-> "locCh"])>> \o Ints(<<2, 4, 6>>) \o Bools(4)
  \o Ints(<<5, 2>>) \o Bools(1) \o Ints(<<4, 4, 2, 4, 2, 2>>) \o Bools(3)
  \o <<BfLitInt(3, 0), BfBits(32), BfBits(32)>>
ReadSettingsReply == <<ReplyStatus, BfDyn("settings")>>
WriteSettings == <<OfClass(Settings)>>

\* rf_ch.py
Frequency == <<BfIntEnum(0..2, 2), BfMap(BfInt(30), [m |-> "scale", by |-> 1])>>
SubAudio == BfMap(BfInt(16), [m |-> "subAudio"])
RfCh == <<BfInt(8)>> \o Frequency \o Frequency \o <<SubAudio, SubAudio>> \o Bools(3)
        \o <<BfIntEnum(0..1, 1)>> \o Bools(8) \o <<BfLitInt(4, 0), BfStr(10)>>
RfChDMR == RfCh \o Ints(<<4, 4, 1>>) \o <<BfLitInt(7, 0)>>
ReadRFCh == <<BfInt(8)>>
ReadRFChReply == <<ReplyStatus, BfDynN("rf_ch_reply")>>
WriteRFCh == <<BfDynN("rf_ch")>>
WriteRFChReply == <<ReplyStatus, BfInt(8)>>

\* status.py
Status == Bools(4) \o <<BfIntEnum(0..2, 2)>> \o Bools(2) \o <<BfInt(4)>> \o Bools(3) \o <<BfInt(1)>>
StatusExt == Status \o <<BfMap(BfInt(4), [m |-> "scale", by |-> 1])>> \o Ints(<<6, 4>>) \o <<BfLitInt(2, 0)>>
GetHtStatusReply == <<ReplyStatus, BfDynN("status")>>

\* bss_settings.py
BSSSettings == Ints(<<4, 4>>) \o Bools(5) \o <<BfIntEnum(0..1, 1)>> \o Bools(1)
               \o <<BfLitInt(1, 0), BfInt(4), BfLitInt(4, 0), BfMap(BfInt(8), [m |-> "scale", by |-> 10]),
                    BfBits(32), BfStr(12), BfStr(18), BfStr(2), BfStr(6)>>
BSSSettingsExt == BSSSettings \o <<BfBits(32)>>
ReadBSSSettings == <<BfLitInt(8, 2)>>
ReadBSSSettingsReply == <<ReplyStatus, BfDynN("bss_reply")>>
WriteBSSSettings == <<BfDynN("bss")>>

\* pf.py
PF == <<BfInt(4), BfIntEnum(0..13, 4), BfIntEnum(0..23, 8)>>
GetPFReply == <<ReplyStatus, BfList(OfClass(PF), 8)>>

\* phone_status.py
SetPhoneStatus == <<BfList(BfBool, 16), BfBool, BfLitInt(1, 0), BfList(BfBool, 16), BfLitInt(14, 0)>>

\* power_status.py
PowerStatusType == BfIntEnum(0..4, 16)
ReadPowerStatus == <<PowerStatusType>>
PowerStatus == <<PowerStatusType, BfDyn("power_value")>>
BatteryVoltage == <<BfMap(BfInt(16), [m |-> "scale", by |-> 1])>>
BatteryLevel == <<BfInt(8)>>   \* BatteryLevelPercentageStatus and RCBatteryLevelStatus too
ReadPowerStatusReply == <<ReplyStatus, BfDynN("power_reply")>>

\* position.py
Degrees == BfMap(BfMap(BfInt(24), [m |-> "signed", bits |-> 24]), [m |-> "degrees"])
OptionalInt(inner, magic) == BfMap(inner, [m |-> "optional", magic |-> magic])
Position == <<Degrees, Degrees,
              OptionalInt(BfMap(BfInt(16), [m |-> "signed", bits |-> 24]), -32768),
              OptionalInt(BfInt(16), 65535), OptionalInt(BfInt(16), 65535),
              BfBits(32),   \* a time in seconds, which datetime keeps exactly
              BfInt(16)>>
GetPositionReply == <<ReplyStatus, BfDyn("position")>>

\* notification.py
EventTypes == 0..13
RegisterNotification == <<BfIntEnum(EventTypes, 8)>>
EventNotification == <<BfIntEnum(EventTypes, 8), BfDynN("event")>>
HTStatusChangedEvent == <<BfDynN("event_status")>>
UnknownEvent == <<BfDynN("all_bytes")>>

\* gaia_frame.py
GaiaFrame == <<BfLit(BfBytes(1), Bytes(<<255>>)), BfLit(BfBytes(1), Bytes(<<1>>)),
               BfIntEnum(0..255, 8),   \* IntFlag keeps unknown flags
               BfInt(8), BfDyn("gaia_data"), BfDyn("gaia_checksum")>>

\* message.py
BASIC == 2
EXTENDED == 10
BasicCommands == 0..76
ExtendedCommands == {0, 769, 1600, 1601, 1602, 16385, 16386, 16387, 1825}
Message == <<BfIntEnum({BASIC, EXTENDED}, 16), BfBool, BfDyn("command"), BfDynN("body")>>

\* body_disc: the body and the reply body of the commands that have one.
Cmd == [REGISTER_NOTIFICATION |-> 6, EVENT_NOTIFICATION |-> 9, GET_PF |-> 55, WRITE_RF_CH |-> 14,
        GET_POSITION |-> 76]
RequestOf(c) == CASE c = 4  -> GetDevInfo
                  [] c = 5  -> ReadPowerStatus
                  [] c = 6  -> RegisterNotification
                  [] c = 9  -> EventNotification
                  [] c = 11 -> WriteSettings
                  [] c = 13 -> ReadRFCh
                  [] c = 14 -> WriteRFCh
                  [] c = 31 -> HTSendData
                  [] c = 33 -> ReadBSSSettings
                  [] c = 34 -> WriteBSSSettings
                  [] c = 51 -> SetPhoneStatus
                  [] OTHER  -> <<>>
ReplyOf(c) == CASE c = 4  -> GetDevInfoReply
                [] c = 5  -> ReadPowerStatusReply
                [] c = 10 -> ReadSettingsReply
                [] c = 13 -> ReadRFChReply
                [] c = 14 -> WriteRFChReply
                [] c = 20 -> GetHtStatusReply
                [] c = 33 -> ReadBSSSettingsReply
                [] c = 55 -> GetPFReply
                [] c = 76 -> GetPositionReply
                [] OTHER  -> StatusOnly
Requests == [c \in {4, 5, 6, 9, 10, 11, 13, 14, 20, 31, 33, 34, 51, 55, 76} |-> RequestOf(c)]
Replies == [c \in {4, 5, 10, 11, 13, 14, 20, 31, 33, 34, 51, 55, 76} |-> ReplyOf(c)]
-----------------------------------------------------------------------------
\* A mistake: the data is expected whatever the status.
Always(self, type) == type

\* A reply carries its data only on success.
OnSuccess(self, type) == IF self[1] = SUCCESS THEN type ELSE <<BfNone>>

\* The class among these two that has n bits, or an exception.
BySize(n, short, long) == CASE n = Length(short) -> <<OfClass(short)>>
                            [] n = Length(long)  -> <<OfClass(long)>>
                            [] OTHER             -> Raises

StatusValue(type) == CASE type = 2 -> <<OfClass(BatteryVoltage)>>
                       [] type \in {1, 3, 4} -> <<OfClass(BatteryLevel)>>
                       [] OTHER -> Raises

EventDisc(type, n) == CASE type = 6 -> OfClass(WriteSettings)
                        [] type = 1 -> BfBitfield(HTStatusChangedEvent, n)
                        [] type = 2 -> BfBitfield(HTSendData, n)
                        [] type = 5 -> OfClass(<<OfClass(RfCh)>>)
                        [] OTHER    -> BfBitfield(UnknownEvent, n)

BodyDisc(self, n) ==
  LET bodies == IF self[2] THEN Replies ELSE Requests
  IN CASE self[1] = BASIC /\ self[3] \in DOMAIN bodies -> <<BfBitfield(bodies[self[3]], n)>>
       [] self[1] = BASIC /\ self[2] /\ self[3] = Cmd.EVENT_NOTIFICATION -> Raises
       [] OTHER -> <<BfBytes(n \div 8)>>

\* A mistake: the length counts the whole message.
GaiaDataOfPayload(self) == <<BfBytes(self[4])>>

\* n_bytes_payload leaves out the command header of four bytes.
GaiaData(self) == <<BfBytes(self[4] + 4)>>

\* The functions given to bf_dyn.
Discriminate(fn, self, n) ==
  CASE fn = "tnc_data"      -> <<BfBytes((IF self[2] THEN n - 1 ELSE n) \div 8)>>
    [] fn = "tnc_channel"   -> <<IF self[2] THEN BfInt(8) ELSE BfNone>>
    [] fn = "fragment"      -> <<BfBitfield(TncDataFragment, n)>>
    [] fn = "dev_info"      -> OnSuccess(self, <<OfClass(DevInfo)>>)
    [] fn = "settings"      -> OnSuccess(self, <<OfClass(Settings)>>)
    [] fn = "rf_ch_reply"   -> OnSuccess(self, BySize(n, RfCh, RfChDMR))
    [] fn = "rf_ch"         -> BySize(n, RfCh, RfChDMR)
    [] fn = "status"        -> OnSuccess(self, BySize(n, Status, StatusExt))
    [] fn = "event_status"  -> BySize(n, Status, StatusExt)
    [] fn = "bss_reply"     -> OnSuccess(self, BySize(n, BSSSettings, BSSSettingsExt))
    [] fn = "bss"           -> BySize(n, BSSSettings, BSSSettingsExt)
    [] fn = "power_value"   -> StatusValue(self[1])
    [] fn = "power_reply"   -> OnSuccess(self, <<BfBitfield(PowerStatus, n)>>)
    [] fn = "position"      -> OnSuccess(self, <<OfClass(Position)>>)
    [] fn = "event"         -> <<EventDisc(self[1], n)>>
    [] fn = "all_bytes"     -> <<BfBytes(n \div 8)>>
    [] fn = "gaia_data"     -> GaiaData(self)
    [] fn = "gaia_checksum" -> <<IF self[3] % 2 = 1 THEN BfInt(8) ELSE BfNone>>
    [] fn = "command"       -> <<IF self[1] = BASIC THEN BfIntEnum(BasicCommands, 15)
                                 ELSE BfEnumOr(ExtendedCommands, 15, 0)>>
    [] fn = "body"          -> BodyDisc(self, n)
=============================================================================
