------------------------------ MODULE Transmit ------------------------------
(***************************************************************************)
(* The two commands that key the radio over RFCOMM.                        *)
(*                                                                         *)
(*   "mic"   _cmd_rfcomm_tx_mic of bendio/cli.py: three threads around an  *)
(*           RfcommTxSession and an SbcEncodeStream.  The audio thread     *)
(*           feeds ffmpeg, the reader thread writes each encoded frame to  *)
(*           the channel, and the main thread opens, pumps and cleans up.  *)
(*   "tone"  transmit_rfcomm of bendio/audio/macos_rfcomm.py, called by    *)
(*           _cmd_rfcomm_tx_tone: one thread and a list of packets.        *)
(*                                                                         *)
(* The radio transmits from the first audio packet it gets until it gets   *)
(* an end-of-TX packet (docs/PROTOCOL_NOTES.md).                           *)
(***************************************************************************)
EXTENDS RfcommChannel, Naturals

CONSTANTS MaxFrames,     \* bounds the audio frames of a transmission
          ChunkFrames,   \* frames in the 4096 bytes the reader asks for
          TailRepeats    \* max(1, tail_repeats)

ASSUME TransmitAssumption == /\ MaxFrames \in Nat
                             /\ ChunkFrames \in Nat \ {0}
                             /\ TailRepeats \in Nat \ {0}

VARIABLES cmd,      \* the command that runs
          pc,       \* where its main thread is
          how,      \* how it ended
          handler,  \* what Ctrl-C does: set "stop_flag", or "raise"
          stopFlag,
          tails,    \* end-of-TX packets still to write
          backlog,  \* history: frames the reader thread was behind by when they began
          micOn,    \* the audio thread calls mic_callback
          encoder,  \* SbcEncodeStream: "none", "open", or _closed
          ffmpeg,   \* "none", "running", or "dead"
          pcm,      \* frames in ffmpeg and its stdin
          sbc,      \* frames in ffmpeg's stdout
          chunk,    \* frames the reader thread has read and not written
          left,     \* packets of the tone still to write
          spoken,   \* frames the microphone has recorded
          heard,    \* frames the radio has received
          keyed,    \* the radio is transmitting
          endHeard, \* the radio has received an end-of-TX packet
          lossy     \* a write has failed, or ffmpeg was killed or died

threadVars == <<micOn, encoder, ffmpeg, pcm, sbc, chunk, left, spoken>>
radioVars == <<heard, keyed, endHeard, lossy>>
mainVars == <<cmd, pc, how, handler, stopFlag, tails, backlog>>
vars == <<chanVars, mainVars, threadVars, radioVars>>

Sending == {"start_mic", "pump", "send", "stop_mic", "close_encoder",
            "wait_for_ffmpeg", "settle"}
InClose == {"tail", "drain", "close"}

TypeOK ==
  /\ ChanTypeOK
  /\ cmd \in {"mic", "tone"}
  /\ pc \in {"start", "opening", "start_encoder", "ended"} \cup Sending \cup InClose
  /\ how \in {"-", "returned", "no_tone", "not_opened", "interrupted", "raised"}
  /\ handler \in {"raise", "stop_flag"} /\ stopFlag \in BOOLEAN
  /\ tails \in 0..TailRepeats
  /\ micOn \in BOOLEAN
  /\ encoder \in {"none", "open", "closed"} /\ ffmpeg \in {"none", "running", "dead"}
  /\ {pcm, sbc, chunk, left, spoken, heard, backlog} \subseteq 0..MaxFrames
  /\ {keyed, endHeard, lossy} \subseteq BOOLEAN

Init ==
  /\ ChanInit
  /\ cmd \in {"mic", "tone"} /\ pc = "start" /\ how = "-"
  /\ handler = "raise" /\ stopFlag = FALSE /\ tails = TailRepeats /\ backlog = 0
  /\ micOn = FALSE /\ encoder = "none" /\ ffmpeg = "none"
  /\ pcm = 0 /\ sbc = 0 /\ chunk = 0 /\ spoken = 0
  /\ left = IF cmd = "tone" THEN MaxFrames ELSE 0
  /\ heard = 0 /\ keyed = FALSE /\ endHeard = FALSE /\ lossy = FALSE
-----------------------------------------------------------------------------
Goto(from, to) == pc = from /\ pc' = to
Ends(how0) == pc' = "ended" /\ how' = how0

\* writeSync of an audio packet: it arrives, or an error is counted.
WriteAudio == \/ /\ chan = "open"
                 /\ heard' = heard + 1 /\ keyed' = TRUE
                 /\ UNCHANGED <<endHeard, lossy>>
              \/ lossy' = TRUE /\ UNCHANGED <<heard, keyed, endHeard>>

WriteEnd == \/ /\ chan = "open"
               /\ keyed' = FALSE /\ endHeard' = TRUE
               /\ UNCHANGED <<heard, lossy>>
            \/ lossy' = TRUE /\ UNCHANGED <<heard, keyed, endHeard>>
-----------------------------------------------------------------------------
\* The tone is encoded before anything is opened; no ffmpeg, an error of it, no
\* whole frame or no sync byte end the command there.
ToneFails ==
  /\ cmd = "tone" /\ pc = "start" /\ Ends("no_tone")
  /\ UNCHANGED <<chanVars, cmd, handler, stopFlag, tails, backlog, threadVars, radioVars>>

\* Opening the channel, the same in both commands.
OpenBegins ==
  /\ \/ OpenAccepted /\ Goto("start", "opening") /\ UNCHANGED how
     \/ OpenRefused /\ pc = "start" /\ Ends("not_opened")
  /\ UNCHANGED <<cmd, handler, stopFlag, tails, backlog, threadVars, radioVars>>

\* was_opened: tx_mic goes on to install its SIGINT handler.
OpenSucceeds ==
  /\ pc = "opening" /\ openStatus = "ok"
  /\ IF cmd = "mic"
     THEN pc' = "start_encoder" /\ handler' = "stop_flag"
     ELSE pc' = "send" /\ UNCHANGED handler
  /\ UNCHANGED <<chanVars, cmd, how, stopFlag, tails, backlog, threadVars, radioVars>>

\* A mistake: a channel that does not open is not closed.
OpenFailsWithoutClose ==
  /\ pc = "opening" /\ openStatus # "ok"
  /\ Ends("not_opened")
  /\ UNCHANGED <<chanVars, cmd, handler, stopFlag, tails, backlog, threadVars, radioVars>>

\* Open-complete with an error, or the deadline passed without it.
OpenFails ==
  /\ pc = "opening" /\ openStatus # "ok"
  /\ CloseChannel
  /\ Ends("not_opened")
  /\ UNCHANGED <<cmd, handler, stopFlag, tails, backlog, threadVars, radioVars>>
-----------------------------------------------------------------------------
EncoderStarts ==
  /\ Goto("start_encoder", "start_mic")
  /\ encoder' = "open" /\ ffmpeg' = "running"
  /\ UNCHANGED <<chanVars, cmd, how, handler, stopFlag, tails, backlog, micOn, pcm, sbc, chunk,
                 left, spoken, radioVars>>

\* Popen() raises an OSError: past the except for SbcUnavailable, and out.
EncoderRaises ==
  /\ pc = "start_encoder"
  /\ Ends("raised")
  /\ UNCHANGED <<chanVars, cmd, handler, stopFlag, tails, backlog, threadVars, radioVars>>

\* SbcUnavailable: straight to session.close().
EncoderUnavailable ==
  /\ Goto("start_encoder", "tail")
  /\ UNCHANGED <<chanVars, cmd, how, handler, stopFlag, tails, backlog, threadVars, radioVars>>

\* RawInputStream() or start() raises before the try that ends the session.
MicRaises ==
  /\ pc = "start_mic"
  /\ Ends("raised")
  /\ UNCHANGED <<chanVars, cmd, handler, stopFlag, tails, backlog, threadVars, radioVars>>

MicStarts ==
  /\ Goto("start_mic", "pump")
  /\ micOn' = TRUE
  /\ UNCHANGED <<chanVars, cmd, how, handler, stopFlag, tails, backlog, encoder, ffmpeg, pcm,
                 sbc, chunk, left, spoken, radioVars>>

\* Mistakes: a loop that ends with the channel only, and a clean-up that closes
\* the session before the encoder.
PumpUntilClosed ==
  /\ Goto("pump", "stop_mic") /\ closed
  /\ handler' = "raise"
  /\ UNCHANGED <<chanVars, cmd, how, stopFlag, tails, backlog, threadVars, radioVars>>

PumpEndsInClose ==
  /\ Goto("pump", "tail")
  /\ handler' = "raise"
  /\ UNCHANGED <<chanVars, cmd, how, stopFlag, tails, backlog, threadVars, radioVars>>

\* stop_flag is set or the duration has passed: the finally begins by giving
\* Ctrl-C its old meaning back.
PumpEnds ==
  /\ Goto("pump", "stop_mic")
  /\ handler' = "raise"
  /\ UNCHANGED <<chanVars, cmd, how, stopFlag, tails, backlog, threadVars, radioVars>>

\* input_stream.stop() waits for the callback that is running.
MicStops ==
  /\ Goto("stop_mic", "close_encoder")
  /\ micOn' = FALSE
  /\ UNCHANGED <<chanVars, cmd, how, handler, stopFlag, tails, backlog, encoder, ffmpeg, pcm,
                 sbc, chunk, left, spoken, radioVars>>

\* A mistake: close() does not wait for ffmpeg, which still has frames to encode.
EncoderClosesAtOnce ==
  /\ Goto("close_encoder", "settle")
  /\ encoder' = "closed"
  /\ UNCHANGED <<chanVars, cmd, how, handler, stopFlag, tails, backlog, micOn, ffmpeg, pcm, sbc,
                 chunk, left, spoken, radioVars>>

\* encoder.close(): nothing to do if feed() has met a broken pipe.
EncoderCloses ==
  /\ pc = "close_encoder"
  /\ pc' = IF encoder = "closed" THEN "settle" ELSE "wait_for_ffmpeg"
  /\ encoder' = "closed"
  /\ UNCHANGED <<chanVars, cmd, how, handler, stopFlag, tails, backlog, micOn, ffmpeg, pcm, sbc,
                 chunk, left, spoken, radioVars>>

\* wait(timeout=2) returns, or kill() after it.
FfmpegReaped ==
  /\ Goto("wait_for_ffmpeg", "settle")
  /\ ffmpeg' = "dead" /\ pcm' = 0
  /\ lossy' = (lossy \/ pcm > 0)
  /\ UNCHANGED <<chanVars, cmd, how, handler, stopFlag, tails, backlog, micOn, encoder, sbc,
                 chunk, left, spoken, heard, keyed, endHeard>>

\* The two pauses of 0.2 s, meant to let the reader thread finish.  They wait for
\* nothing: where it is by then is whatever the channel has let it write.
Settled ==
  /\ Goto("settle", "tail")
  /\ backlog' = sbc + chunk
  /\ UNCHANGED <<chanVars, cmd, how, handler, stopFlag, tails, threadVars, radioVars>>
-----------------------------------------------------------------------------
\* The packets of the tone, one per turn.
SendPacket ==
  /\ pc = "send" /\ left > 0
  /\ left' = left - 1
  /\ WriteAudio
  /\ UNCHANGED <<chanVars, mainVars, micOn, encoder, ffmpeg, pcm, sbc, chunk, spoken>>

\* A mistake: no end-of-TX packet after the audio.
SendEndsWithoutTail ==
  /\ Goto("send", "drain") /\ left = 0
  /\ UNCHANGED <<chanVars, cmd, how, handler, stopFlag, tails, backlog, threadVars, radioVars>>

SendEnds ==
  /\ Goto("send", "tail") /\ left = 0
  /\ UNCHANGED <<chanVars, cmd, how, handler, stopFlag, tails, backlog, threadVars, radioVars>>

\* A mistake: one repeat too many.
WriteTailOnceMore ==
  /\ pc = "tail"
  /\ tails' = tails - 1
  /\ WriteEnd
  /\ UNCHANGED <<chanVars, cmd, pc, how, handler, stopFlag, backlog, threadVars>>

\* RfcommTxSession.close() and the end of transmit_rfcomm: the tail packet and
\* its repeats, a pause, closeChannel.
WriteTail ==
  /\ pc = "tail" /\ tails > 0
  /\ tails' = tails - 1
  /\ WriteEnd
  /\ UNCHANGED <<chanVars, cmd, pc, how, handler, stopFlag, backlog, threadVars>>

TailEnds ==
  /\ Goto("tail", "drain") /\ tails = 0
  /\ UNCHANGED <<chanVars, cmd, how, handler, stopFlag, tails, backlog, threadVars, radioVars>>

Closes == IF closed THEN UNCHANGED chanVars ELSE CloseChannel

Drained ==
  /\ Goto("drain", "close")
  /\ Closes
  /\ how' = "returned"
  /\ UNCHANGED <<cmd, handler, stopFlag, tails, backlog, threadVars, radioVars>>

\* The close callback has fired, or 20 pumps have passed without it.
CloseEnds ==
  /\ Goto("close", "ended")
  /\ UNCHANGED <<chanVars, cmd, how, handler, stopFlag, tails, backlog, threadVars, radioVars>>
-----------------------------------------------------------------------------
SigintSetsFlag ==
  /\ handler = "stop_flag" /\ pc # "ended" /\ ~stopFlag
  /\ stopFlag' = TRUE
  /\ UNCHANGED <<chanVars, cmd, pc, how, handler, tails, backlog, threadVars, radioVars>>

\* KeyboardInterrupt.  Inside the try of close() or transmit_rfcomm the channel
\* is closed on the way out; anywhere else nothing more is done.
SigintRaises ==
  /\ handler = "raise" /\ pc \notin {"start", "ended"}
  /\ how' = "interrupted"
  /\ IF pc \in {"send", "tail", "drain"} THEN pc' = "close" /\ Closes
     ELSE pc' = "ended" /\ UNCHANGED chanVars
  /\ UNCHANGED <<cmd, handler, stopFlag, tails, backlog, threadVars, radioVars>>
-----------------------------------------------------------------------------
\* mic_callback on the audio thread: encoder.feed(), which returns at once if
\* the encoder is closed, and closes it on a broken pipe.
Record ==
  /\ pc # "ended" /\ micOn /\ spoken < MaxFrames
  /\ spoken' = spoken + 1
  /\ IF encoder = "open" /\ ffmpeg = "running"
     THEN pcm' = pcm + 1 /\ UNCHANGED <<encoder, lossy>>
     ELSE /\ encoder' = "closed"
          /\ lossy' = (lossy \/ encoder = "open")
          /\ UNCHANGED pcm
  /\ UNCHANGED <<chanVars, mainVars, micOn, ffmpeg, sbc, chunk, left, heard, keyed, endHeard>>

Encode ==
  /\ pc # "ended" /\ ffmpeg = "running" /\ pcm > 0
  /\ pcm' = pcm - 1 /\ sbc' = sbc + 1
  /\ UNCHANGED <<chanVars, mainVars, micOn, encoder, ffmpeg, chunk, left, spoken,
                 radioVars>>

\* ffmpeg flushes and exits when its stdin is closed.
FfmpegExits ==
  /\ pc # "ended" /\ ffmpeg = "running" /\ encoder = "closed" /\ pcm = 0
  /\ ffmpeg' = "dead"
  /\ UNCHANGED <<chanVars, mainVars, micOn, encoder, pcm, sbc, chunk, left, spoken, radioVars>>

\* It may also die early: Ctrl-C goes to it as well.
FfmpegDies ==
  /\ pc # "ended" /\ ffmpeg = "running"
  /\ ffmpeg' = "dead" /\ pcm' = 0 /\ lossy' = TRUE
  /\ UNCHANGED <<chanVars, mainVars, micOn, encoder, sbc, chunk, left, spoken, heard, keyed,
                 endHeard>>

\* read(4096) of a buffered pipe comes back with 4096 bytes, or at end of file.
ReadChunk ==
  /\ pc # "ended" /\ chunk = 0 /\ sbc > 0
  /\ \/ sbc >= ChunkFrames /\ chunk' = ChunkFrames
     \/ sbc < ChunkFrames /\ ffmpeg = "dead" /\ chunk' = sbc
  /\ sbc' = sbc - chunk'
  /\ UNCHANGED <<chanVars, mainVars, micOn, encoder, ffmpeg, pcm, left, spoken, radioVars>>

\* on_sbc_frame on the reader thread.  After close() there is no channel, and
\* _emit_one swallows the exception.
ShipFrame ==
  /\ pc # "ended" /\ chunk > 0
  /\ chunk' = chunk - 1
  /\ WriteAudio
  /\ UNCHANGED <<chanVars, mainVars, micOn, encoder, ffmpeg, pcm, sbc, left, spoken>>
-----------------------------------------------------------------------------
\* The main thread pumps its run loop while it opens, records, sends and closes.
Pumping == pc \in {"opening", "pump", "send", "settle", "tail", "drain", "close"}

Callback == /\ Pumping
            /\ OpenComplete \/ ClosedCallback
            /\ UNCHANGED <<mainVars, threadVars, radioVars>>

Radio == /\ pc # "ended"
         /\ RadioAccepts \/ RadioRefuses \/ RadioCloses
         /\ UNCHANGED <<mainVars, threadVars, radioVars>>

Main == \/ ToneFails \/ OpenBegins \/ OpenSucceeds \/ OpenFails
        \/ EncoderStarts \/ EncoderRaises \/ EncoderUnavailable \/ MicRaises \/ MicStarts
        \/ MicStops \/ EncoderCloses \/ FfmpegReaped \/ Settled
        \/ SendPacket \/ SendEnds
        \/ WriteTail \/ TailEnds \/ Drained \/ CloseEnds
        \/ stopFlag /\ PumpEnds

\* PumpEnds without the flag: --duration.
DurationPasses == PumpEnds

Encoding == Encode \/ FfmpegExits
Reader == ReadChunk \/ ShipFrame
Sigint == SigintSetsFlag \/ SigintRaises

Next == \/ Main \/ DurationPasses \/ Record \/ Encoding \/ FfmpegDies \/ Reader
        \/ Sigint \/ Callback \/ Radio

Spec == Init /\ [][Next]_vars

\* The main thread, ffmpeg and the reader thread run.  The radio, the user and
\* the microphone owe nothing.
FairSpec == Spec /\ WF_vars(Main) /\ WF_vars(Encoding) /\ WF_vars(Reader)
-----------------------------------------------------------------------------
\* The radio is left keyed only by Ctrl-C, when every end-of-TX packet was lost,
\* or when the reader thread still had frames to write as they began: then one
\* of those may come after the last of them.
WedgedOnlyByInterruptLossOrBacklog ==
  pc = "ended" /\ keyed => how = "interrupted" \/ (lossy /\ ~endHeard) \/ backlog > 0

\* Audio that follows an end-of-TX packet is what was left with the reader
\* thread, and no more of it than that: microphone and encoder have come to rest
\* before the session is closed.
OnlyTheBacklogFollowsTheEnd ==
  [][endHeard /\ heard' # heard => sbc' + chunk' < backlog]_vars

\* What was said before the stop is on the air, or left with the reader thread,
\* when the end-of-TX packets begin, unless a write failed or ffmpeg did: close()
\* waits for ffmpeg, and read() brings the rest at end of file.
NothingIsCutOff == (pc \in InClose \/ how = "returned") /\ cmd = "mic" /\ ~lossy
                     => heard + sbc + chunk = spoken

\* A command that gives up opening, and one that returns, leaves no channel
\* behind: the radio has room for one.
ChannelIsReleased ==
  pc = "ended" /\ how \in {"no_tone", "not_opened", "returned"} =>
    chan \notin {"opening", "open"} \/ closeRaised

\* Ctrl-C and --duration end the command, whatever the radio and ffmpeg do.
StopEndsTheCommand == (stopFlag \/ pc = "stop_mic") ~> pc = "ended"

\* docs/PROTOCOL_NOTES.md: the end-of-TX packet is sent at the end of every
\* transmission.
EveryTransmissionIsEnded == pc = "ended" /\ heard > 0 /\ ~lossy => endHeard

\* docs/PROTOCOL_NOTES.md: that packet is what the transmission ends with, or the
\* radio "stays wedged in TX mode".  (Ctrl-C is the matter of the former.)
EveryTransmissionEndsThere == pc = "ended" /\ how = "returned" /\ ~lossy => ~keyed
=============================================================================
