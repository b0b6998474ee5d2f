---------------------------- MODULE RfcommChannel ----------------------------
(***************************************************************************)
(* One RFCOMM channel of bendio/audio/macos_rfcomm.py and its delegate.    *)
(* The channel changes state at any time; the delegate hears of it only    *)
(* while the main thread pumps its run loop, which is for the module that  *)
(* uses this one to say.                                                   *)
(***************************************************************************)
VARIABLES chan,        \* the channel, as macOS and the radio see it
          openStatus,  \* delegate.open_status; "ok" is also was_opened
          closed,      \* delegate.closed
          closeRaised  \* a closeChannel() has raised

chanVars == <<chan, openStatus, closed, closeRaised>>

ChanTypeOK == /\ chan \in {"none", "opening", "refused", "open", "closed"}
              /\ openStatus \in {"none", "ok", "error"}
              /\ {closed, closeRaised} \subseteq BOOLEAN

ChanInit == /\ chan = "none" /\ openStatus = "none"
            /\ closed = FALSE /\ closeRaised = FALSE
-----------------------------------------------------------------------------
\* The channel changes state and nothing else does.
ChannelGoes(from, to) == /\ chan \in from
                         /\ chan' = to
                         /\ UNCHANGED <<openStatus, closed, closeRaised>>

\* openRFCOMMChannelAsync: a channel that is on its way, or a status other
\* than 0, or an exception.
OpenAccepted == ChannelGoes({"none"}, "opening")
OpenRefused == chan = "none" /\ UNCHANGED chanVars

RadioAccepts == ChannelGoes({"opening"}, "open")
RadioRefuses == ChannelGoes({"opening"}, "refused")
RadioCloses == ChannelGoes({"open"}, "closed")

\* closeChannel(), which may raise, and then closes nothing.
CloseChannel == /\ \/ /\ chan' = IF chan = "refused" THEN chan ELSE "closed"
                      /\ UNCHANGED closeRaised
                   \/ closeRaised' = TRUE /\ UNCHANGED chan
                /\ UNCHANGED <<openStatus, closed>>
-----------------------------------------------------------------------------
\* rfcommChannelOpenComplete_status_: once, with 0 for a channel that opened,
\* which may have been closed since.
OpenComplete == /\ openStatus = "none" /\ chan \in {"open", "closed", "refused"}
                /\ openStatus' = IF chan = "refused" THEN "error" ELSE "ok"
                /\ UNCHANGED <<chan, closed, closeRaised>>

\* rfcommChannelClosed_
ClosedCallback == /\ chan = "closed" /\ ~closed
                  /\ closed' = TRUE
                  /\ UNCHANGED <<chan, openStatus, closeRaised>>
=============================================================================
