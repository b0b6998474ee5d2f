---------------------------- MODULE ReceiveProofs ----------------------------
(***************************************************************************)
(* Proofs about Receive: what a command leaves behind, and how full its    *)
(* pipes get, for any number of frames, whatever the sizes of packets,     *)
(* pipes and chunks.                                                       *)
(***************************************************************************)
EXTENDS Receive, TLAPS

\* Frames: none is played that has not arrived, and no pipe holds more than it
\* has room for.
FrameTypes == /\ arrived \in 0..MaxFrames /\ played \in Nat /\ feeding \in 0..PacketFrames
              /\ sbc \in 0..PipeFrames /\ pcm \in 0..PipeFrames /\ chunk \in 0..ChunkFrames

FrameInv == FrameTypes /\ played + chunk + pcm + sbc + feeding <= arrived

\* No frame at first.
LEMMA FrameInvInit == Init => FrameInv
  BY ReceiveAssumption DEF Init, FrameInv, FrameTypes

\* A frame goes from one place to the next, or is dropped.
LEMMA FrameInvNext == FrameInv /\ [Next]_vars => FrameInv'
  <1> SUFFICES ASSUME FrameInv, [Next]_vars PROVE FrameInv'
    OBVIOUS
  <1> USE ReceiveAssumption DEF FrameInv, FrameTypes, frameVars
  <1>1. CASE Data
    <2>1. PICK k \in 0..PacketFrames : Deliver(k)
      BY <1>1 DEF Data
    <2>2. /\ feeding = 0 /\ (feeding' = 0 \/ feeding' = k)
          /\ arrived' = arrived + k /\ arrived + k <= MaxFrames
          /\ UNCHANGED <<sbc, pcm, chunk, played>>
      BY <2>1 DEF Deliver, Pumping
    <2>3. k \in Nat /\ k <= PacketFrames
      OBVIOUS
    <2> QED
      BY <2>2, <2>3
  <1>2. CASE FeedFrame
    BY <1>2 DEF FeedFrame
  <1>3. CASE FeedBreaks
    BY <1>3 DEF FeedBreaks
  <1>4. CASE FfmpegReaped \/ FfmpegDies
    <2>1. sbc' = 0 /\ UNCHANGED <<arrived, feeding, pcm, chunk, played>>
      BY <1>4 DEF FfmpegReaped, FfmpegDies
    <2> QED
      BY <2>1
  <1>5. CASE Decode
    BY <1>5 DEF Decode
  <1>6. CASE ReadFrame
    BY <1>6 DEF ReadFrame
  <1>7. CASE PlayChunk
    BY <1>7 DEF PlayChunk
  <1>8. CASE ~(Data \/ FeedFrame \/ FeedBreaks \/ FfmpegReaped \/ FfmpegDies \/ Decode \/ Reader)
    <2>1. UNCHANGED <<arrived, feeding, sbc, pcm, chunk, played>>
      BY <1>8
         DEF Next, Main, SpeakerStarts, SpeakerRaises, DecoderStarts, DecoderUnavailable,
             DecoderRaises, NoDevice, OpenBegins, OpenTimesOut, OpenFails, OpenSucceeds,
             ProbeSucceeds, StreamEnds, CloseEnds, DecoderCloses, SpeakerStops, Decoding,
             FfmpegExits, SpeakerBreaks, Sigint, SigintSetsFlag, SigintRaises, Callback, Radio, vars
    <2> QED
      BY <2>1
  <1> QED
    BY <1>1, <1>2, <1>3, <1>4, <1>5, <1>6, <1>7, <1>8 DEF Reader
-----------------------------------------------------------------------------
\* The decoder and the speaker: only "play" starts them, and an ffmpeg whose
\* stdin was closed is waited for.
Starting == {"start_speaker", "start_decoder"}
Listening == {"open", "opening", "streaming", "close"}
CleaningUp == {"close_decoder", "wait_for_ffmpeg", "stop_speaker"}

PlaceTypes == /\ cmd \in {"play", "dump", "probe"}
              /\ pc \in Starting \cup Listening \cup CleaningUp \cup {"ended"}
              /\ decoder \in {"none", "open", "closed"} /\ ffmpeg \in {"none", "running", "dead"}
              /\ speaker \in {"off", "on", "broken"}

DecoderInPlace ==
  /\ pc \in Starting \cup CleaningUp => cmd = "play"
  /\ pc \in Starting \/ cmd # "play" => decoder = "none" /\ ffmpeg = "none"
  /\ pc = "start_speaker" \/ cmd # "play" => speaker = "off"
  /\ decoder = "closed" /\ ffmpeg = "running" =>
       pc = "wait_for_ffmpeg" \/ (pc = "ended" /\ how = "interrupted")
  /\ pc = "stop_speaker" => ffmpeg # "running"

DecoderInv == PlaceTypes /\ DecoderInPlace /\ NothingIsLeftRunning

\* Nothing runs at first.
LEMMA DecoderInvInit == Init => DecoderInv
  BY DEF Init, DecoderInv, PlaceTypes, DecoderInPlace, NothingIsLeftRunning, Starting, Listening,
         CleaningUp

\* What is started is stopped on the way out, by the finally or by hand.
LEMMA DecoderInvNext == DecoderInv /\ [Next]_vars => DecoderInv'
  <1> SUFFICES ASSUME DecoderInv, [Next]_vars PROVE DecoderInv'
    OBVIOUS
  <1> USE DEF DecoderInv, PlaceTypes, DecoderInPlace, NothingIsLeftRunning, Starting, Listening,
              CleaningUp, At, Leaves, mainVars, decoderVars
  <1>1. CASE SpeakerStarts \/ SpeakerRaises
    BY <1>1 DEF SpeakerStarts, SpeakerRaises
  <1>2. CASE DecoderStarts \/ DecoderUnavailable \/ DecoderRaises
    BY <1>2 DEF DecoderStarts, DecoderUnavailable, DecoderRaises
  <1>3. CASE NoDevice \/ OpenBegins
    BY <1>3 DEF NoDevice, OpenBegins
  <1>4. CASE OpenTimesOut \/ OpenFails \/ OpenSucceeds
    BY <1>4 DEF OpenTimesOut, OpenFails, OpenSucceeds
  <1>5. CASE ProbeSucceeds
    BY <1>5 DEF ProbeSucceeds
  <1>6. CASE StreamEnds \/ CloseEnds
    BY <1>6 DEF StreamEnds, CloseEnds
  <1>7. CASE DecoderCloses
    BY <1>7 DEF DecoderCloses
  <1>8. CASE FfmpegReaped
    <2>1. /\ pc = "wait_for_ffmpeg" /\ pc' = "stop_speaker" /\ ffmpeg' = "dead"
          /\ UNCHANGED <<cmd, how, decoder, speaker>>
      BY <1>8 DEF FfmpegReaped
    <2> QED
      BY <2>1
  <1>9. CASE SpeakerStops
    BY <1>9 DEF SpeakerStops
  <1>10. CASE Data \/ FeedFrame \/ Decode \/ Reader
    BY <1>10 DEF Data, Deliver, FeedFrame, Decode, Reader, ReadFrame, PlayChunk
  <1>11. CASE FeedBreaks
    BY <1>11 DEF FeedBreaks
  <1>12. CASE FfmpegExits \/ FfmpegDies
    BY <1>12 DEF FfmpegExits, FfmpegDies
  <1>13. CASE SpeakerBreaks
    BY <1>13 DEF SpeakerBreaks
  <1>14. CASE SigintSetsFlag \/ SigintRaises
    BY <1>14 DEF SigintSetsFlag, SigintRaises
  <1>15. CASE Callback \/ Radio \/ UNCHANGED vars
    BY <1>15 DEF Callback, Radio, vars
  <1> QED
    BY <1>1, <1>2, <1>3, <1>4, <1>5, <1>6, <1>7, <1>8, <1>9, <1>10, <1>11, <1>12, <1>13, <1>14,
       <1>15 DEF Next, Main, Decoding, Sigint
-----------------------------------------------------------------------------
\* The channel: given up, refused or closed before the command goes on.
Released == chan \notin {"opening", "open"} \/ closeRaised

ChannelInPlace ==
  /\ closed => chan = "closed"
  /\ openStatus = "error" => chan = "refused"
  /\ pc = "close" \/ how \in {"not_opened", "returned"} => Released
  /\ pc \in Starting \cup Listening => how = "-"

\* No channel at first.
LEMMA ChannelInPlaceInit == Init => ChannelInPlace
  BY DEF Init, ChanInit, ChannelInPlace, Released

\* Each step keeps it.
LEMMA ChannelInPlaceNext == ChannelInPlace /\ [Next]_vars => ChannelInPlace'
  <1> SUFFICES ASSUME ChannelInPlace, [Next]_vars PROVE ChannelInPlace'
    OBVIOUS
  <1> USE DEF ChannelInPlace, Released, Starting, Listening, At, Leaves, chanVars, mainVars
  <1>1. CASE SpeakerStarts \/ SpeakerRaises \/ DecoderStarts \/ DecoderUnavailable \/ DecoderRaises
    BY <1>1
       DEF SpeakerStarts, SpeakerRaises, DecoderStarts, DecoderUnavailable, DecoderRaises
  <1>2. CASE NoDevice
    BY <1>2 DEF NoDevice
  <1>3. CASE OpenBegins
    BY <1>3 DEF OpenBegins, OpenAccepted, OpenRefused, ChannelGoes
  <1>4. CASE OpenTimesOut
    BY <1>4 DEF OpenTimesOut, CloseChannel
  <1>5. CASE OpenFails \/ OpenSucceeds
    BY <1>5 DEF OpenFails, OpenSucceeds
  <1>6. CASE ProbeSucceeds
    BY <1>6 DEF ProbeSucceeds, CloseChannel
  <1>7. CASE StreamEnds
    BY <1>7 DEF StreamEnds, CloseChannel
  <1>8. CASE CloseEnds
    BY <1>8 DEF CloseEnds
  <1>9. CASE DecoderCloses \/ FfmpegReaped \/ SpeakerStops
    <2>1. /\ pc \in {"close_decoder", "wait_for_ffmpeg", "stop_speaker"}
          /\ pc' \in {"wait_for_ffmpeg", "stop_speaker", "ended"} /\ UNCHANGED <<chanVars, how>>
      BY <1>9 DEF DecoderCloses, FfmpegReaped, SpeakerStops
    <2> QED
      BY <2>1
  <1>10. CASE Data \/ FeedFrame \/ FeedBreaks \/ Decoding \/ FfmpegDies \/ Reader \/ SpeakerBreaks
    BY <1>10
       DEF Data, Deliver, FeedFrame, FeedBreaks, Decoding, Decode, FfmpegExits, FfmpegDies, Reader,
           ReadFrame, PlayChunk, SpeakerBreaks
  <1>11. CASE SigintSetsFlag \/ SigintRaises
    BY <1>11 DEF SigintSetsFlag, SigintRaises
  <1>12. CASE Callback
    BY <1>12 DEF Callback, OpenComplete, ClosedCallback
  <1>13. CASE Radio
    BY <1>13 DEF Radio, RadioAccepts, RadioRefuses, RadioCloses, ChannelGoes
  <1>14. CASE UNCHANGED vars
    BY <1>14 DEF vars
  <1> QED
    BY <1>1, <1>2, <1>3, <1>4, <1>5, <1>6, <1>7, <1>8, <1>9, <1>10, <1>11, <1>12, <1>13, <1>14
       DEF Next, Main, Sigint
-----------------------------------------------------------------------------
\* The rest of the types.
OtherTypes == /\ ChanTypeOK
              /\ how \in {"-", "returned", "not_opened", "unavailable", "raised",
                          "decoder_raised", "interrupted"}
              /\ handler \in {"raise", "stop_flag"} /\ {stopFlag, lossy} \subseteq BOOLEAN

\* True at first.
LEMMA OtherTypesInit == Init => OtherTypes
  BY DEF Init, ChanInit, OtherTypes, ChanTypeOK

\* The channel keeps its types, whatever it does.
LEMMA ChannelTypes ==
  ASSUME ChanTypeOK,
         \/ UNCHANGED chanVars \/ OpenAccepted \/ OpenRefused \/ CloseChannel
         \/ OpenComplete \/ ClosedCallback \/ RadioAccepts \/ RadioRefuses \/ RadioCloses
  PROVE  ChanTypeOK'
  BY DEF ChanTypeOK, chanVars, OpenAccepted, OpenRefused, CloseChannel, OpenComplete,
         ClosedCallback, RadioAccepts, RadioRefuses, RadioCloses, ChannelGoes

\* Each step keeps them.
LEMMA OtherTypesNext == OtherTypes /\ [Next]_vars => OtherTypes'
  <1> SUFFICES ASSUME OtherTypes, [Next]_vars PROVE OtherTypes'
    OBVIOUS
  <1> USE DEF OtherTypes, At, Leaves, mainVars, frameVars
  <1>1. CASE SpeakerStarts \/ SpeakerRaises \/ DecoderStarts \/ DecoderUnavailable \/ DecoderRaises
    <2>1. ChanTypeOK'
      BY <1>1, ChannelTypes
         DEF SpeakerStarts, SpeakerRaises, DecoderStarts, DecoderUnavailable, DecoderRaises
    <2> QED
      BY <1>1, <2>1
         DEF SpeakerStarts, SpeakerRaises, DecoderStarts, DecoderUnavailable, DecoderRaises
  <1>2. CASE NoDevice \/ OpenBegins \/ OpenTimesOut \/ OpenFails \/ OpenSucceeds \/ ProbeSucceeds
    <2>1. ChanTypeOK'
      BY <1>2, ChannelTypes
         DEF NoDevice, OpenBegins, OpenTimesOut, OpenFails, OpenSucceeds, ProbeSucceeds
    <2> QED
      BY <1>2, <2>1 DEF NoDevice, OpenBegins, OpenTimesOut, OpenFails, OpenSucceeds, ProbeSucceeds
  <1>3. CASE StreamEnds \/ CloseEnds \/ DecoderCloses \/ SpeakerStops
    <2>1. ChanTypeOK'
      BY <1>3, ChannelTypes DEF StreamEnds, CloseEnds, DecoderCloses, SpeakerStops
    <2> QED
      BY <1>3, <2>1 DEF StreamEnds, CloseEnds, DecoderCloses, SpeakerStops
  <1>4. CASE FfmpegReaped
    <2>1. ChanTypeOK' /\ UNCHANGED <<how, handler, stopFlag>>
      BY <1>4, ChannelTypes DEF FfmpegReaped
    <2>2. lossy' \in BOOLEAN
      BY <1>4 DEF FfmpegReaped
    <2> QED
      BY <2>1, <2>2
  <1>5. CASE Data \/ FeedFrame \/ FeedBreaks
    <2>1. ChanTypeOK'
      BY <1>5, ChannelTypes DEF Data, Deliver, FeedFrame, FeedBreaks
    <2> QED
      BY <1>5, <2>1 DEF Data, Deliver, FeedFrame, FeedBreaks
  <1>6. CASE Decoding \/ FfmpegDies \/ Reader \/ SpeakerBreaks
    <2>1. ChanTypeOK'
      BY <1>6, ChannelTypes
         DEF Decoding, Decode, FfmpegExits, FfmpegDies, Reader, ReadFrame, PlayChunk, SpeakerBreaks
    <2> QED
      BY <1>6, <2>1
         DEF Decoding, Decode, FfmpegExits, FfmpegDies, Reader, ReadFrame, PlayChunk, SpeakerBreaks
  <1>7. CASE SigintSetsFlag \/ SigintRaises
    <2>1. ChanTypeOK'
      BY <1>7, ChannelTypes DEF SigintSetsFlag, SigintRaises
    <2> QED
      BY <1>7, <2>1 DEF SigintSetsFlag, SigintRaises
  <1>8. CASE Callback \/ Radio \/ UNCHANGED vars
    <2>1. ChanTypeOK'
      BY <1>8, ChannelTypes DEF Callback, Radio, vars
    <2> QED
      BY <1>8, <2>1 DEF Callback, Radio, vars
  <1> QED
    BY <1>1, <1>2, <1>3, <1>4, <1>5, <1>6, <1>7, <1>8 DEF Next, Main, Sigint
-----------------------------------------------------------------------------
IInv == FrameInv /\ DecoderInv /\ ChannelInPlace /\ OtherTypes

\* All four hold in every state.
THEOREM InvariantHolds == Spec => []IInv
  <1>1. Init => IInv
    BY FrameInvInit, DecoderInvInit, ChannelInPlaceInit, OtherTypesInit DEF IInv
  <1>2. IInv /\ [Next]_vars => IInv'
    BY FrameInvNext, DecoderInvNext, ChannelInPlaceNext, OtherTypesNext DEF IInv
  <1> QED
    BY <1>1, <1>2, PTL DEF Spec

\* Every variable keeps its type: no pipe overflows, and no frame is played that
\* has not arrived.
THEOREM ReceiveTypes == Spec => []TypeOK
  <1>1. IInv => TypeOK
    <2> SUFFICES ASSUME IInv PROVE TypeOK
      OBVIOUS
    <2>1. {arrived, played} \subseteq 0..MaxFrames
      BY ReceiveAssumption DEF IInv, FrameInv, FrameTypes
    <2>2. FrameTypes /\ PlaceTypes /\ OtherTypes
      BY DEF IInv, FrameInv, DecoderInv
    <2> QED
      BY <2>1, <2>2
         DEF FrameTypes, PlaceTypes, OtherTypes, TypeOK, Starting, Listening, CleaningUp
  <1> QED
    BY <1>1, InvariantHolds, PTL

\* A command that ends by itself has stopped ffmpeg and the speaker.
THEOREM NothingRunsOn == Spec => []NothingIsLeftRunning
  <1>1. IInv => NothingIsLeftRunning
    BY DEF IInv, DecoderInv
  <1> QED
    BY <1>1, InvariantHolds, PTL

\* A command that gives up opening, and one that returns, has closed its channel
\* or tried to.
THEOREM ChannelIsGivenBack == Spec => []ChannelIsReleased
  <1>1. IInv => ChannelIsReleased
    BY DEF IInv, ChannelInPlace, Released, ChannelIsReleased
  <1> QED
    BY <1>1, InvariantHolds, PTL
=============================================================================
