------------------------------- MODULE Receive -------------------------------
(***************************************************************************)
(* The commands that open an RFCOMM channel and listen to it.              *)
(*                                                                         *)
(*   "play"   _cmd_rfcomm_play of bendio/cli.py: the main thread pumps     *)
(*            dump_rfcomm, whose data callback feeds ffmpeg through a      *)
(*            pipe; the reader thread of the SbcStream reads ffmpeg's      *)
(*            output and writes it to the speaker.  Pipes are finite, so   *)
(*            a slow speaker holds up the reader, the reader ffmpeg, and   *)
(*            ffmpeg the main thread.                                      *)
(*   "dump"   _cmd_rfcomm_dump and _cmd_rfcomm_sbc_dump: dump_rfcomm, and  *)
(*            a data callback that prints.                                 *)
(*   "probe"  try_open_rfcomm: open the channel and close it.              *)
(***************************************************************************)
EXTENDS RfcommChannel, Naturals

CONSTANTS MaxFrames,    \* bounds the audio frames the radio sends
          PacketFrames, \* frames in the data of one callback
          PipeFrames,   \* frames a pipe to or from ffmpeg has room for
          ChunkFrames   \* frames in the 4096 bytes the reader asks for

ASSUME ReceiveAssumption == {MaxFrames, PacketFrames, PipeFrames, ChunkFrames} \subseteq Nat \ {0}

VARIABLES cmd,      \* the command that runs
          pc,       \* where its main thread is
          how,      \* how it ended
          handler,  \* what Ctrl-C does: set "stop_flag", or "raise"
          stopFlag,
          decoder,  \* SbcStream: "none", "open", or _closed
          ffmpeg,   \* "none", "running", or "dead"
          speaker,  \* pcm_stream: "off", "on", or "broken": write raises
          arrived,  \* frames the data callback has been given
          feeding,  \* frames the main thread is writing to ffmpeg
          sbc,      \* frames in ffmpeg's stdin
          pcm,      \* frames in ffmpeg's stdout
          chunk,    \* frames the reader thread holds
          played,   \* frames written to the speaker
          lossy     \* ffmpeg was killed or died, or the speaker broke

mainVars == <<cmd, pc, how, handler, stopFlag>>
decoderVars == <<decoder, ffmpeg, speaker>>
frameVars == <<arrived, feeding, sbc, pcm, chunk, played, lossy>>
vars == <<chanVars, mainVars, decoderVars, frameVars>>

TypeOK ==
  /\ ChanTypeOK
  /\ cmd \in {"play", "dump", "probe"}
  /\ pc \in {"start_speaker", "start_decoder", "open", "opening", "streaming", "close",
             "close_decoder", "wait_for_ffmpeg", "stop_speaker", "ended"}
  /\ how \in {"-", "returned", "not_opened", "unavailable", "raised", "decoder_raised",
              "interrupted"}
  /\ handler \in {"raise", "stop_flag"} /\ {stopFlag, lossy} \subseteq BOOLEAN
  /\ decoder \in {"none", "open", "closed"} /\ ffmpeg \in {"none", "running", "dead"}
  /\ speaker \in {"off", "on", "broken"}
  /\ {arrived, played} \subseteq 0..MaxFrames /\ feeding \in 0..PacketFrames
  /\ {sbc, pcm} \subseteq 0..PipeFrames /\ chunk \in 0..ChunkFrames

Init ==
  /\ ChanInit
  /\ cmd \in {"play", "dump", "probe"} /\ how = "-" /\ stopFlag = FALSE
  /\ pc = IF cmd = "play" THEN "start_speaker" ELSE "open"
  /\ handler = IF cmd = "probe" THEN "raise" ELSE "stop_flag"
  /\ decoder = "none" /\ ffmpeg = "none" /\ speaker = "off"
  /\ arrived = 0 /\ feeding = 0 /\ sbc = 0 /\ pcm = 0 /\ chunk = 0 /\ played = 0
  /\ lossy = FALSE
-----------------------------------------------------------------------------
\* The main thread is at a place, and not inside a data callback.
At(place) == pc = place /\ feeding = 0

\* A mistake: dump_rfcomm is not called inside a try.
LeavesWithoutCleanUp(how0) == /\ how' = how0 /\ handler' = "raise"
                              /\ pc' = "ended"

\* dump_rfcomm or try_open_rfcomm returns or raises, through the finally of the
\* command.
Leaves(how0) == /\ how' = how0 /\ handler' = "raise"
                /\ pc' = IF cmd = "play" THEN "close_decoder" ELSE "ended"
-----------------------------------------------------------------------------
SpeakerStarts ==
  /\ At("start_speaker") /\ pc' = "start_decoder"
  /\ speaker' = "on"
  /\ UNCHANGED <<chanVars, cmd, how, handler, stopFlag, decoder, ffmpeg, frameVars>>

SpeakerRaises ==
  /\ At("start_speaker") /\ pc' = "ended" /\ how' = "raised"
  /\ UNCHANGED <<chanVars, cmd, handler, stopFlag, decoderVars, frameVars>>

DecoderStarts ==
  /\ At("start_decoder") /\ pc' = "open"
  /\ decoder' = "open" /\ ffmpeg' = "running"
  /\ UNCHANGED <<chanVars, cmd, how, handler, stopFlag, speaker, frameVars>>

\* SbcUnavailable: the speaker is stopped by hand, before the try.
DecoderUnavailable ==
  /\ At("start_decoder") /\ pc' = "ended" /\ how' = "unavailable"
  /\ speaker' = "off" /\ handler' = "raise"
  /\ UNCHANGED <<chanVars, cmd, stopFlag, decoder, ffmpeg, frameVars>>

\* Popen raises something else, and nothing is stopped.
DecoderRaises ==
  /\ At("start_decoder") /\ pc' = "ended" /\ how' = "decoder_raised"
  /\ UNCHANGED <<chanVars, cmd, handler, stopFlag, decoderVars, frameVars>>
-----------------------------------------------------------------------------
\* _require_iobluetooth or _device_by_address raises.
NoDevice ==
  /\ At("open") /\ Leaves("raised")
  /\ UNCHANGED <<chanVars, cmd, stopFlag, decoderVars, frameVars>>

OpenBegins ==
  /\ At("open")
  /\ \/ OpenAccepted /\ pc' = "opening" /\ UNCHANGED <<how, handler>>
     \/ OpenRefused /\ Leaves("not_opened")
  /\ UNCHANGED <<cmd, stopFlag, decoderVars, frameVars>>

\* A mistake: a channel that does not open in time is not closed.
OpenIsAbandoned ==
  /\ At("opening") /\ openStatus = "none" /\ Leaves("not_opened")
  /\ UNCHANGED <<chanVars, cmd, stopFlag, decoderVars, frameVars>>

OpenTimesOut ==
  /\ At("opening") /\ openStatus = "none"
  /\ CloseChannel /\ Leaves("not_opened")
  /\ UNCHANGED <<cmd, stopFlag, decoderVars, frameVars>>

OpenFails ==
  /\ At("opening") /\ openStatus = "error" /\ Leaves("not_opened")
  /\ UNCHANGED <<chanVars, cmd, stopFlag, decoderVars, frameVars>>

OpenSucceeds ==
  /\ At("opening") /\ openStatus = "ok" /\ cmd # "probe"
  /\ pc' = "streaming"
  /\ UNCHANGED <<chanVars, cmd, how, handler, stopFlag, decoderVars, frameVars>>

\* The probe closes a channel that is_open, and forgets one that has closed.
ProbeSucceeds ==
  /\ At("opening") /\ openStatus = "ok" /\ cmd = "probe"
  /\ IF closed THEN Leaves("returned") /\ UNCHANGED chanVars
     ELSE CloseChannel /\ pc' = "close" /\ UNCHANGED <<how, handler>>
  /\ UNCHANGED <<cmd, stopFlag, decoderVars, frameVars>>
-----------------------------------------------------------------------------
\* stop() between two pumps, or the channel has closed.
StreamEnds ==
  /\ At("streaming") /\ (stopFlag \/ closed)
  /\ pc' = "close"
  /\ IF closed THEN UNCHANGED chanVars ELSE CloseChannel
  /\ UNCHANGED <<cmd, how, handler, stopFlag, decoderVars, frameVars>>

\* The close callback has fired, or 20 pumps have passed without it.
CloseEnds ==
  /\ At("close") /\ Leaves("returned")
  /\ UNCHANGED <<chanVars, cmd, stopFlag, decoderVars, frameVars>>

\* decoder.close(): nothing to do if feed() has met a broken pipe.
DecoderCloses ==
  /\ At("close_decoder")
  /\ pc' = IF decoder = "closed" THEN "stop_speaker" ELSE "wait_for_ffmpeg"
  /\ decoder' = "closed"
  /\ UNCHANGED <<chanVars, cmd, how, handler, stopFlag, ffmpeg, speaker, frameVars>>

\* wait(timeout=2) returns, or kill() after it.
FfmpegReaped ==
  /\ At("wait_for_ffmpeg") /\ pc' = "stop_speaker"
  /\ ffmpeg' = "dead" /\ sbc' = 0
  /\ lossy' = (lossy \/ sbc > 0)
  /\ UNCHANGED <<chanVars, cmd, how, handler, stopFlag, decoder, speaker, arrived, feeding,
                 pcm, chunk, played>>

SpeakerStops ==
  /\ At("stop_speaker") /\ pc' = "ended"
  /\ speaker' = IF speaker = "on" THEN "off" ELSE speaker
  /\ UNCHANGED <<chanVars, cmd, how, handler, stopFlag, decoder, ffmpeg, frameVars>>
-----------------------------------------------------------------------------
Pumping == pc \in {"opening", "streaming", "close"} /\ feeding = 0

\* A mistake: only the first frame of the data is decoded.
DeliverFirst(k) ==
  /\ Pumping /\ cmd = "play" /\ openStatus = "ok" /\ ~closed
  /\ arrived + k <= MaxFrames /\ arrived' = arrived + k
  /\ feeding' = IF decoder = "open" /\ k > 0 THEN 1 ELSE 0
  /\ UNCHANGED <<chanVars, mainVars, decoderVars, sbc, pcm, chunk, played, lossy>>

\* rfcommChannelData, after open-complete and before the close callback: the k
\* frames that on_bytes finds in the data go to decoder.feed(), which returns at
\* once if the decoder is closed.
Deliver(k) ==
  /\ Pumping /\ cmd = "play" /\ openStatus = "ok" /\ ~closed
  /\ arrived + k <= MaxFrames /\ arrived' = arrived + k
  /\ feeding' = IF decoder = "open" THEN k ELSE 0
  /\ UNCHANGED <<chanVars, mainVars, decoderVars, sbc, pcm, chunk, played, lossy>>

\* feed() writes as the pipe has room, with the main thread in it.
FeedFrame ==
  /\ feeding > 0 /\ ffmpeg = "running" /\ sbc < PipeFrames
  /\ sbc' = sbc + 1 /\ feeding' = feeding - 1
  /\ UNCHANGED <<chanVars, mainVars, decoderVars, arrived, pcm, chunk, played, lossy>>

FeedBreaks ==
  /\ feeding > 0 /\ ffmpeg = "dead"
  /\ decoder' = "closed" /\ feeding' = 0
  /\ UNCHANGED <<chanVars, mainVars, ffmpeg, speaker, arrived, sbc, pcm, chunk, played, lossy>>
-----------------------------------------------------------------------------
Decode ==
  /\ pc # "ended" /\ ffmpeg = "running" /\ sbc > 0 /\ pcm < PipeFrames
  /\ sbc' = sbc - 1 /\ pcm' = pcm + 1
  /\ UNCHANGED <<chanVars, mainVars, decoderVars, arrived, feeding, chunk, played, lossy>>

\* ffmpeg flushes and exits when its stdin is closed.
FfmpegExits ==
  /\ pc # "ended" /\ ffmpeg = "running" /\ decoder = "closed" /\ sbc = 0
  /\ ffmpeg' = "dead"
  /\ UNCHANGED <<chanVars, mainVars, decoder, speaker, frameVars>>

\* It may also die early: Ctrl-C goes to it as well.
FfmpegDies ==
  /\ pc # "ended" /\ ffmpeg = "running"
  /\ ffmpeg' = "dead" /\ sbc' = 0 /\ lossy' = TRUE
  /\ UNCHANGED <<chanVars, mainVars, decoder, speaker, arrived, feeding, pcm, chunk, played>>

\* A mistake: a reader that asks for one frame more.
ReadTooMuch ==
  /\ pc # "ended" /\ pcm > 0 /\ chunk <= ChunkFrames
  /\ chunk' = chunk + 1 /\ pcm' = pcm - 1
  /\ UNCHANGED <<chanVars, mainVars, decoderVars, arrived, feeding, sbc, played, lossy>>

\* stdout.read(4096) keeps what it has read until there are 4096 bytes.
ReadFrame ==
  /\ pc # "ended" /\ pcm > 0 /\ chunk < ChunkFrames
  /\ chunk' = chunk + 1 /\ pcm' = pcm - 1
  /\ UNCHANGED <<chanVars, mainVars, decoderVars, arrived, feeding, sbc, played, lossy>>

\* It returns with 4096 bytes, or with fewer at end of file.
ReadReturns == \/ chunk = ChunkFrames
               \/ chunk > 0 /\ pcm = 0 /\ ffmpeg = "dead"

\* A mistake: an exception of on_pcm ends the reader thread.
PlayChunkOrDie ==
  /\ pc # "ended" /\ ReadReturns /\ speaker = "on"
  /\ played' = played + chunk /\ chunk' = 0
  /\ UNCHANGED <<chanVars, mainVars, decoderVars, arrived, feeding, sbc, pcm, lossy>>

\* on_pcm writes to the speaker, and swallows its exceptions.
PlayChunk ==
  /\ pc # "ended" /\ ReadReturns
  /\ played' = IF speaker = "on" THEN played + chunk ELSE played
  /\ chunk' = 0
  /\ UNCHANGED <<chanVars, mainVars, decoderVars, arrived, feeding, sbc, pcm, lossy>>

SpeakerBreaks ==
  /\ pc # "ended" /\ speaker = "on"
  /\ speaker' = "broken" /\ lossy' = TRUE
  /\ UNCHANGED <<chanVars, mainVars, decoder, ffmpeg, arrived, feeding, sbc, pcm, chunk, played>>
-----------------------------------------------------------------------------
\* The handler only sets the flag, also while the main thread is in feed().
SigintSetsFlag ==
  /\ handler = "stop_flag" /\ pc # "ended" /\ ~stopFlag
  /\ stopFlag' = TRUE
  /\ UNCHANGED <<chanVars, cmd, pc, how, handler, decoderVars, frameVars>>

\* KeyboardInterrupt, in the probe or in the clean-up: nothing more is done.
SigintRaises ==
  /\ handler = "raise" /\ pc # "ended"
  /\ how' = "interrupted" /\ pc' = "ended"
  /\ UNCHANGED <<chanVars, cmd, handler, stopFlag, decoderVars, frameVars>>

Callback == /\ Pumping
            /\ OpenComplete \/ ClosedCallback
            /\ UNCHANGED <<mainVars, decoderVars, frameVars>>

Radio == /\ pc # "ended"
         /\ RadioAccepts \/ RadioRefuses \/ RadioCloses
         /\ UNCHANGED <<mainVars, decoderVars, frameVars>>

Main == \/ SpeakerStarts \/ SpeakerRaises
        \/ DecoderStarts \/ DecoderUnavailable \/ DecoderRaises
        \/ NoDevice \/ OpenBegins
        \/ OpenTimesOut \/ OpenFails \/ OpenSucceeds \/ ProbeSucceeds
        \/ StreamEnds \/ CloseEnds \/ DecoderCloses \/ FfmpegReaped \/ SpeakerStops
        \/ FeedFrame \/ FeedBreaks

Data == \E k \in 0..PacketFrames : Deliver(k)
Decoding == Decode \/ FfmpegExits
Reader == ReadFrame \/ PlayChunk
Sigint == SigintSetsFlag \/ SigintRaises

Next == \/ Main \/ Data \/ Decoding \/ FfmpegDies \/ Reader \/ SpeakerBreaks
        \/ Sigint \/ Callback \/ Radio

Spec == Init /\ [][Next]_vars

\* The main thread, ffmpeg and the reader thread run.  The radio, the user and
\* the run loop's callbacks owe nothing.
FairSpec == Spec /\ WF_vars(Main) /\ WF_vars(Decoding) /\ WF_vars(Reader)
-----------------------------------------------------------------------------
\* A command that ends by itself leaves neither ffmpeg nor the speaker running,
\* however far it got.
NothingIsLeftRunning ==
  pc = "ended" /\ how \notin {"interrupted", "decoder_raised"} =>
    ffmpeg # "running" /\ speaker # "on"

\* A command that gives up opening, and one that returns, leaves no channel
\* behind: the radio has room for one.
ChannelIsReleased ==
  pc = "ended" /\ how \in {"not_opened", "returned"} =>
    chan \notin {"opening", "open"} \/ closeRaised

\* Ctrl-C and the radio's closing the channel end the command, even when the
\* pipes are full and the main thread waits in feed(), and when the speaker or
\* ffmpeg has failed.
StopOrCloseEndsTheCommand == (stopFlag \/ closed) ~> pc = "ended"

\* While the command listens, all but the last frames that fit in one chunk of
\* the reader come out of the speaker, with no need for more to arrive.
AllButOneChunkIsHeard ==
  \A n \in 1..MaxFrames :
    (pc = "streaming" /\ arrived = n) ~>
      (played + ChunkFrames > n \/ pc # "streaming" \/ lossy)

\* bendio/audio/sbc.py: "Latency in practice is ~20 ms", so a frame that arrives
\* is heard soon, whether or not another one follows it.
EveryFrameIsHeard ==
  \A n \in 1..MaxFrames :
    (pc = "streaming" /\ arrived = n) ~> (played >= n \/ pc # "streaming" \/ lossy)
=============================================================================
