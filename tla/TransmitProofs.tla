--------------------------- MODULE TransmitProofs ---------------------------
(***************************************************************************)
(* Proofs about Transmit: how the radio, the channel and the threads are   *)
(* left, for any number of frames, of frames the reader asks for and of    *)
(* end-of-TX packets.                                                      *)
(***************************************************************************)
EXTENDS Transmit, TLAPS

\* Every frame recorded is in ffmpeg, in a pipe, with the reader or heard, or
\* was lost; every packet of the tone is still to send, heard or lost.
FrameTypes == /\ pcm \in Nat /\ sbc \in Nat /\ chunk \in Nat /\ left \in Nat /\ heard \in Nat
              /\ spoken \in 0..MaxFrames /\ backlog \in 0..MaxFrames

FramesAddUp ==
  /\ cmd = "mic" => /\ left = 0 /\ heard + pcm + sbc + chunk <= spoken
                    /\ ~lossy => heard + pcm + sbc + chunk = spoken
  /\ cmd = "tone" => /\ left + heard <= MaxFrames
                     /\ pcm = 0 /\ sbc = 0 /\ chunk = 0 /\ spoken = 0

\* The microphone records between "pump" and "stop_mic" only, and the encoder
\* is open then unless frames have been lost.  Once it is closed ffmpeg runs no
\* longer than close() waits for it.
EncoderPlaces == Sending \ {"send"}

ThreadTypes == /\ cmd \in {"mic", "tone"}
               /\ pc \in {"start", "opening", "start_encoder", "ended"} \cup Sending \cup InClose
               /\ encoder \in {"none", "open", "closed"} /\ ffmpeg \in {"none", "running", "dead"}

ThreadsInPlace ==
  /\ pc = "start_encoder" \/ encoder # "none" => cmd = "mic"
  /\ pc = "send" => cmd = "tone"
  /\ pc \in EncoderPlaces => encoder # "none"
  /\ pc \in {"start", "opening", "start_encoder"} => encoder = "none"
  /\ pc = "start_mic" => encoder = "open"
  /\ micOn => pc \in {"pump", "stop_mic", "ended"} /\ (encoder = "open" \/ lossy)
  /\ ffmpeg = "none" <=> encoder = "none"
  /\ encoder = "none" \/ pc = "start_mic" => spoken = 0
  /\ ffmpeg # "running" => pcm = 0
  /\ encoder = "closed" /\ pc \notin {"wait_for_ffmpeg", "ended"} => ffmpeg # "running"
  /\ pc \in {"wait_for_ffmpeg", "settle"} \cup InClose => encoder # "open"
  /\ how = "returned" => pc \in {"close", "ended"} /\ ffmpeg # "running"

FlowInv == FrameTypes /\ FramesAddUp /\ ThreadTypes /\ ThreadsInPlace

\* Nothing has been recorded, and ffmpeg has not been started.
LEMMA FlowInvInit == Init => FlowInv
  BY TransmitAssumption
     DEF Init, FlowInv, FrameTypes, FramesAddUp, ThreadTypes, ThreadsInPlace, EncoderPlaces,
         Sending, InClose

\* Every step takes a frame from one place to the next, or loses it.
LEMMA FlowInvNext == FlowInv /\ [Next]_vars => FlowInv'
  <1> SUFFICES ASSUME FlowInv, [Next]_vars PROVE FlowInv'
    OBVIOUS
  <1> USE TransmitAssumption DEF FlowInv, FrameTypes, FramesAddUp, ThreadTypes, ThreadsInPlace,
                                 EncoderPlaces, Sending, InClose, mainVars, threadVars,
                                 radioVars
  <1>1. CASE ToneFails \/ OpenBegins \/ OpenSucceeds \/ OpenFails
    BY <1>1 DEF ToneFails, OpenBegins, OpenSucceeds, OpenFails, Ends, Goto
  <1>2. CASE EncoderStarts \/ EncoderRaises \/ EncoderUnavailable \/ MicRaises \/ MicStarts
    BY <1>2
       DEF EncoderStarts, EncoderRaises, EncoderUnavailable, MicRaises, MicStarts, Ends, Goto
  <1>3. CASE PumpEnds \/ MicStops \/ Settled
    BY <1>3 DEF PumpEnds, MicStops, Settled, Goto
  <1>4. CASE EncoderCloses
    BY <1>4 DEF EncoderCloses
  <1>5. CASE FfmpegReaped
    <2>1. /\ pc = "wait_for_ffmpeg" /\ pc' = "settle" /\ ffmpeg' = "dead" /\ pcm' = 0
          /\ UNCHANGED <<cmd, how, backlog, micOn, encoder, sbc, chunk, left, spoken, heard>>
      BY <1>5 DEF FfmpegReaped, Goto
    <2>2. ~lossy' => ~lossy /\ ~(pcm > 0)
      BY <1>5 DEF FfmpegReaped
    <2> QED
      BY <2>1, <2>2
  <1>6. CASE SendPacket
    BY <1>6 DEF SendPacket, WriteAudio
  <1>7. CASE SendEnds \/ TailEnds \/ Drained \/ CloseEnds
    BY <1>7 DEF SendEnds, TailEnds, Drained, CloseEnds, Goto
  <1>8. CASE WriteTail
    BY <1>8 DEF WriteTail, WriteEnd
  <1>9. CASE Record
    <2>1. /\ pc # "ended" /\ micOn /\ spoken < MaxFrames /\ spoken' = spoken + 1
          /\ UNCHANGED <<cmd, pc, how, backlog, micOn, ffmpeg, sbc, chunk, left, heard>>
      BY <1>9 DEF Record
    <2>2. CASE encoder = "open" /\ ffmpeg = "running"
      <3>1. pcm' = pcm + 1 /\ UNCHANGED <<encoder, lossy>>
        BY <1>9, <2>2 DEF Record
      <3> QED
        BY <2>1, <2>2, <3>1
    <2>3. CASE ~(encoder = "open" /\ ffmpeg = "running")
      <3>1. encoder' = "closed" /\ pcm' = pcm
        BY <1>9, <2>3 DEF Record
      <3>2. lossy' <=> lossy \/ encoder = "open"
        BY <1>9, <2>3 DEF Record
      <3> QED
        BY <2>1, <2>3, <3>1, <3>2
    <2> QED
      BY <2>2, <2>3
  <1>10. CASE Encode \/ FfmpegExits
    BY <1>10 DEF Encode, FfmpegExits
  <1>11. CASE FfmpegDies
    BY <1>11 DEF FfmpegDies
  <1>12. CASE ReadChunk
    BY <1>12 DEF ReadChunk
  <1>13. CASE ShipFrame
    BY <1>13 DEF ShipFrame, WriteAudio
  <1>14. CASE SigintSetsFlag \/ SigintRaises
    BY <1>14 DEF SigintSetsFlag, SigintRaises
  <1>15. CASE Callback \/ Radio \/ UNCHANGED vars
    BY <1>15 DEF Callback, Radio, vars
  <1> QED
    BY <1>1, <1>2, <1>3, <1>4, <1>5, <1>6, <1>7, <1>8, <1>9, <1>10, <1>11, <1>12, <1>13, <1>14,
       <1>15 DEF Next, Main, DurationPasses, Encoding, Reader, Sigint
-----------------------------------------------------------------------------
\* The channel: who may have closed it, and when.
Released == chan \notin {"opening", "open"} \/ closeRaised

ChannelInPlace ==
  /\ closed => chan = "closed"
  /\ pc = "start" => chan = "none"
  /\ pc = "close" => how = "interrupted" \/ (how = "returned" /\ Released)
  /\ pc \notin {"close", "ended"} => how = "-"

ChannelInv == ChannelInPlace /\ ChannelIsReleased

\* No channel at first.
LEMMA ChannelInvInit == Init => ChannelInv
  BY DEF Init, ChanInit, ChannelInv, ChannelInPlace, ChannelIsReleased, Released

\* The clean-up closes the channel, unless its closing has been heard of.
LEMMA ChannelInvNext == ChannelInv /\ [Next]_vars => ChannelInv'
  <1> SUFFICES ASSUME ChannelInv, [Next]_vars PROVE ChannelInv'
    OBVIOUS
  <1> USE DEF ChannelInv, ChannelInPlace, ChannelIsReleased, Released, chanVars, mainVars
  <1>1. CASE ToneFails \/ OpenBegins \/ OpenSucceeds
    BY <1>1
       DEF ToneFails, OpenBegins, OpenAccepted, OpenRefused, ChannelGoes, OpenSucceeds, Ends, Goto
  <1>2. CASE OpenFails
    BY <1>2 DEF OpenFails, CloseChannel, Ends
  <1>3. CASE EncoderStarts \/ EncoderRaises \/ EncoderUnavailable \/ MicRaises \/ MicStarts
    BY <1>3
       DEF EncoderStarts, EncoderRaises, EncoderUnavailable, MicRaises, MicStarts, Ends, Goto
  <1>4. CASE PumpEnds \/ MicStops \/ EncoderCloses \/ FfmpegReaped \/ Settled
    BY <1>4 DEF PumpEnds, MicStops, EncoderCloses, FfmpegReaped, Settled, Goto
  <1>5. CASE SendEnds \/ TailEnds \/ CloseEnds
    BY <1>5 DEF SendEnds, TailEnds, CloseEnds, Goto
  <1>6. CASE Drained
    BY <1>6 DEF Drained, Closes, CloseChannel, Goto
  <1>7. CASE SendPacket \/ WriteTail \/ Record \/ Encoding \/ FfmpegDies \/ Reader
    <2>1. UNCHANGED <<chanVars, pc, how>>
      BY <1>7
         DEF SendPacket, WriteTail, Record, Encoding, Encode, FfmpegExits, FfmpegDies, Reader,
             ReadChunk, ShipFrame
    <2> QED
      BY <2>1
  <1>8. CASE SigintSetsFlag
    BY <1>8 DEF SigintSetsFlag
  <1>9. CASE SigintRaises
    BY <1>9 DEF SigintRaises, Closes, CloseChannel
  <1>10. CASE Callback
    BY <1>10 DEF Callback, Pumping, OpenComplete, ClosedCallback
  <1>11. CASE Radio
    BY <1>11 DEF Radio, RadioAccepts, RadioRefuses, RadioCloses, ChannelGoes
  <1>12. CASE UNCHANGED vars
    BY <1>12 DEF vars
  <1> QED
    BY <1>1, <1>2, <1>3, <1>4, <1>5, <1>6, <1>7, <1>8, <1>9, <1>10, <1>11, <1>12
       DEF Next, Main, DurationPasses, Sigint
-----------------------------------------------------------------------------
\* The rest of the types.
OtherTypes == /\ ChanTypeOK
              /\ how \in {"-", "returned", "no_tone", "not_opened", "interrupted", "raised"}
              /\ handler \in {"raise", "stop_flag"}
              /\ {stopFlag, micOn, keyed, endHeard, lossy} \subseteq BOOLEAN
              /\ tails \in 0..TailRepeats

\* True at first.
LEMMA OtherTypesInit == Init => OtherTypes
  <1> SUFFICES ASSUME Init PROVE OtherTypes
    OBVIOUS
  <1>1. ChanTypeOK /\ {stopFlag, micOn, keyed, endHeard, lossy} \subseteq BOOLEAN
    BY DEF Init, ChanInit, ChanTypeOK
  <1>2. tails \in 0..TailRepeats
    BY TransmitAssumption DEF Init
  <1> QED
    BY <1>1, <1>2 DEF Init, OtherTypes

\* The channel keeps its types, whatever it does.
LEMMA ChannelTypes ==
  ASSUME ChanTypeOK,
         \/ UNCHANGED chanVars \/ OpenAccepted \/ OpenRefused \/ CloseChannel
         \/ OpenComplete \/ ClosedCallback \/ RadioAccepts \/ RadioRefuses \/ RadioCloses
  PROVE  ChanTypeOK'
  BY DEF ChanTypeOK, chanVars, OpenAccepted, OpenRefused, CloseChannel, OpenComplete,
         ClosedCallback, RadioAccepts, RadioRefuses, RadioCloses, ChannelGoes

\* Each step keeps them.
LEMMA OtherTypesNext == OtherTypes /\ [Next]_vars => OtherTypes'
  <1> SUFFICES ASSUME OtherTypes, [Next]_vars PROVE OtherTypes'
    OBVIOUS
  <1> USE TransmitAssumption DEF mainVars, threadVars, radioVars, Goto, Ends
  <1>1. CASE ToneFails \/ OpenBegins \/ OpenSucceeds \/ OpenFails
    <2>1. ChanTypeOK'
      BY <1>1, ChannelTypes DEF OtherTypes, ToneFails, OpenBegins, OpenSucceeds, OpenFails
    <2> QED
      BY <1>1, <2>1 DEF OtherTypes, ToneFails, OpenBegins, OpenSucceeds, OpenFails
  <1>2. CASE EncoderStarts \/ EncoderRaises \/ EncoderUnavailable \/ MicRaises \/ MicStarts
    <2>1. ChanTypeOK'
      BY <1>2, ChannelTypes
         DEF OtherTypes, EncoderStarts, EncoderRaises, EncoderUnavailable, MicRaises, MicStarts
    <2> QED
      BY <1>2, <2>1
         DEF OtherTypes, EncoderStarts, EncoderRaises, EncoderUnavailable, MicRaises, MicStarts
  <1>3. CASE PumpEnds \/ MicStops \/ EncoderCloses \/ FfmpegReaped \/ Settled
    <2>1. ChanTypeOK'
      BY <1>3, ChannelTypes DEF OtherTypes, PumpEnds, MicStops, EncoderCloses, FfmpegReaped, Settled
    <2>2. lossy' \in BOOLEAN
      BY <1>3 DEF OtherTypes, PumpEnds, MicStops, EncoderCloses, FfmpegReaped, Settled
    <2> QED
      BY <1>3, <2>1, <2>2 DEF OtherTypes, PumpEnds, MicStops, EncoderCloses, FfmpegReaped, Settled
  <1>4. CASE SendPacket \/ ShipFrame
    <2>1. ChanTypeOK'
      BY <1>4, ChannelTypes DEF OtherTypes, SendPacket, ShipFrame
    <2> QED
      BY <1>4, <2>1 DEF OtherTypes, SendPacket, ShipFrame, WriteAudio
  <1>5. CASE SendEnds \/ TailEnds \/ CloseEnds
    <2>1. ChanTypeOK'
      BY <1>5, ChannelTypes DEF OtherTypes, SendEnds, TailEnds, CloseEnds
    <2> QED
      BY <1>5, <2>1 DEF OtherTypes, SendEnds, TailEnds, CloseEnds
  <1>6. CASE WriteTail
    <2>1. ChanTypeOK'
      BY <1>6, ChannelTypes DEF OtherTypes, WriteTail
    <2>2. tails' \in 0..TailRepeats
      BY <1>6 DEF OtherTypes, WriteTail
    <2> QED
      BY <1>6, <2>1, <2>2 DEF OtherTypes, WriteTail, WriteEnd
  <1>7. CASE Drained \/ SigintSetsFlag \/ SigintRaises
    <2>1. ChanTypeOK'
      BY <1>7, ChannelTypes DEF OtherTypes, Drained, SigintSetsFlag, SigintRaises, Closes
    <2> QED
      BY <1>7, <2>1 DEF OtherTypes, Drained, SigintSetsFlag, SigintRaises
  <1>8. CASE Record
    <2>1. ChanTypeOK'
      BY <1>8, ChannelTypes DEF OtherTypes, Record
    <2>2. lossy' \in BOOLEAN
      BY <1>8 DEF OtherTypes, Record
    <2> QED
      BY <1>8, <2>1, <2>2 DEF OtherTypes, Record
  <1>9. CASE Encoding \/ FfmpegDies \/ ReadChunk
    <2>1. ChanTypeOK'
      BY <1>9, ChannelTypes DEF OtherTypes, Encoding, Encode, FfmpegExits, FfmpegDies, ReadChunk
    <2> QED
      BY <1>9, <2>1 DEF OtherTypes, Encoding, Encode, FfmpegExits, FfmpegDies, ReadChunk
  <1>10. CASE Callback \/ Radio \/ UNCHANGED vars
    <2>1. ChanTypeOK'
      BY <1>10, ChannelTypes DEF OtherTypes, Callback, Radio, vars
    <2> QED
      BY <1>10, <2>1 DEF OtherTypes, Callback, Radio, vars
  <1> QED
    BY <1>1, <1>2, <1>3, <1>4, <1>5, <1>6, <1>7, <1>8, <1>9, <1>10
       DEF Next, Main, DurationPasses, Reader, Sigint
-----------------------------------------------------------------------------
\* The tail: once the session is being closed no more audio is made, so that what
\* may follow an end-of-TX packet is the backlog; each that is written is heard
\* or lost.
AtRest == pc \in InClose => ~micOn /\ ffmpeg # "running" /\ sbc + chunk <= backlog

TailInOrder ==
  /\ pc \in {"start", "opening", "start_encoder", "start_mic"} => ~keyed
  /\ endHeard => (keyed => backlog > 0) /\ pc \in InClose \cup {"ended"}
  /\ pc \notin InClose \cup {"ended"} => tails = TailRepeats
  /\ pc \in InClose /\ tails < TailRepeats => endHeard \/ lossy
  /\ pc = "drain" => tails = 0
  /\ pc = "close" => how = "interrupted" \/ tails = 0

TailInv == AtRest /\ TailInOrder /\ WedgedOnlyByInterruptLossOrBacklog

\* Nothing has been sent.
LEMMA TailInvInit == Init => TailInv
  BY DEF Init, TailInv, AtRest, TailInOrder, WedgedOnlyByInterruptLossOrBacklog, InClose

\* A read takes frames out of the pipe and into the reader's hands.
LEMMA ReadKeepsTheSum ==
  ASSUME sbc \in Nat, chunk \in Nat, ReadChunk
  PROVE  sbc' + chunk' = sbc + chunk
  BY TransmitAssumption DEF ReadChunk

\* However late the reader thread is, each step keeps it.
LEMMA TailInvNext == FlowInv /\ OtherTypes /\ ChannelInv /\ TailInv /\ [Next]_vars => TailInv'
  <1> SUFFICES ASSUME FlowInv, OtherTypes, ChannelInv, TailInv, [Next]_vars PROVE TailInv'
    OBVIOUS
  <1>a. /\ FrameTypes /\ FramesAddUp /\ ThreadTypes /\ ThreadsInPlace
        /\ tails \in 0..TailRepeats /\ TailRepeats \in Nat \ {0}
    BY TransmitAssumption DEF FlowInv, OtherTypes
  <1>b. pc = "close" => how \in {"interrupted", "returned"}
    BY DEF ChannelInv, ChannelInPlace
  <1>c. sbc \in Nat /\ chunk \in Nat /\ backlog \in Nat
    BY <1>a DEF FrameTypes
  <1> USE <1>a, <1>c DEF TailInv, AtRest, TailInOrder, WedgedOnlyByInterruptLossOrBacklog, InClose,
                   mainVars, threadVars, radioVars, Goto, Ends
  <1>1. CASE ToneFails \/ OpenBegins \/ OpenSucceeds \/ OpenFails
    BY <1>1 DEF ToneFails, OpenBegins, OpenSucceeds, OpenFails
  <1>2. CASE EncoderStarts \/ EncoderRaises \/ MicRaises \/ MicStarts
    BY <1>2 DEF EncoderStarts, EncoderRaises, MicRaises, MicStarts
  <1>3. CASE EncoderUnavailable
    <2>1. ~micOn /\ encoder = "none" /\ ffmpeg = "none" /\ sbc = 0 /\ chunk = 0
      BY <1>3 DEF EncoderUnavailable, FrameTypes, FramesAddUp, ThreadTypes, ThreadsInPlace
    <2> QED
      BY <1>3, <2>1 DEF EncoderUnavailable
  <1>4. CASE PumpEnds \/ MicStops \/ EncoderCloses
    BY <1>4 DEF PumpEnds, MicStops, EncoderCloses
  <1>5. CASE FfmpegReaped
    <2>1. /\ pc = "wait_for_ffmpeg" /\ pc' = "settle"
          /\ UNCHANGED <<tails, backlog, how, keyed, endHeard>>
      BY <1>5 DEF FfmpegReaped
    <2> QED
      BY <2>1
  <1>6. CASE Settled
    <2>1. ~micOn /\ ffmpeg # "running" /\ encoder # "none" /\ ~endHeard
      BY <1>6 DEF Settled, ThreadTypes, ThreadsInPlace, EncoderPlaces, Sending
    <2> QED
      BY <1>6, <2>1 DEF Settled
  <1>7. CASE SendPacket
    BY <1>7 DEF SendPacket, WriteAudio
  <1>8. CASE SendEnds
    <2>1. ~micOn /\ ffmpeg = "none" /\ sbc = 0 /\ chunk = 0
      BY <1>8 DEF SendEnds, FramesAddUp, ThreadsInPlace
    <2> QED
      BY <1>8, <2>1 DEF SendEnds
  <1>9. CASE WriteTail
    <2>1. tails' = tails - 1
      BY <1>9 DEF WriteTail
    <2> QED
      BY <1>9, <2>1 DEF WriteTail, WriteEnd
  <1>10. CASE TailEnds \/ Drained
    BY <1>10 DEF TailEnds, Drained
  <1>11. CASE CloseEnds
    BY <1>b, <1>11 DEF CloseEnds
  <1>12. CASE Record
    <2>1. /\ pc \notin InClose \cup {"ended"}
          /\ UNCHANGED <<pc, how, tails, backlog, keyed, endHeard>>
      BY <1>12 DEF Record
    <2> QED
      BY <2>1
  <1>13. CASE Encoding \/ FfmpegDies
    BY <1>13 DEF Encoding, Encode, FfmpegExits, FfmpegDies
  <1>14. CASE ReadChunk
    <2>1. UNCHANGED <<pc, how, tails, backlog, micOn, ffmpeg, keyed, endHeard, lossy>>
      BY <1>14 DEF ReadChunk
    <2>2. sbc' + chunk' = sbc + chunk
      BY <1>14, ReadKeepsTheSum
    <2> QED
      BY <2>1, <2>2
  <1>15. CASE ShipFrame
    <2>1. /\ pc # "ended" /\ chunk > 0 /\ chunk' = chunk - 1
          /\ UNCHANGED <<pc, how, tails, backlog, micOn, ffmpeg, sbc>> /\ (pc \in InClose => backlog > 0)
      BY <1>15 DEF ShipFrame
    <2>2. pc \notin {"start", "opening", "start_encoder", "start_mic"}
      BY <1>15 DEF ShipFrame, FrameTypes, FramesAddUp, ThreadTypes, ThreadsInPlace
    <2> QED
      BY <1>15, <2>1, <2>2 DEF ShipFrame, WriteAudio
  <1>16. CASE SigintSetsFlag
    BY <1>16 DEF SigintSetsFlag
  <1>17. CASE SigintRaises
    <2>1. pc = "send" => ~micOn /\ ffmpeg = "none" /\ sbc = 0 /\ chunk = 0
      BY DEF FramesAddUp, ThreadsInPlace
    <2> QED
      BY <1>17, <2>1 DEF SigintRaises
  <1>18. CASE Callback \/ Radio \/ UNCHANGED vars
    BY <1>18 DEF Callback, Radio, vars
  <1> QED
    BY <1>1, <1>2, <1>3, <1>4, <1>5, <1>6, <1>7, <1>8, <1>9, <1>10, <1>11, <1>12, <1>13, <1>14,
       <1>15, <1>16, <1>17, <1>18 DEF Next, Main, DurationPasses, Reader, Sigint
-----------------------------------------------------------------------------
IInv == FlowInv /\ ChannelInv /\ OtherTypes

\* What holds however late the reader is.
THEOREM InvariantHolds == Spec => []IInv
  <1>1. Init => IInv
    BY FlowInvInit, ChannelInvInit, OtherTypesInit DEF IInv
  <1>2. IInv /\ [Next]_vars => IInv'
    BY FlowInvNext, ChannelInvNext, OtherTypesNext DEF IInv
  <1> QED
    BY <1>1, <1>2, PTL DEF Spec

\* What holds besides, as the session is closed.
THEOREM TailInvariantHolds == Spec => []TailInv
  <1>1. Init => TailInv
    BY TailInvInit
  <1>2. IInv /\ TailInv /\ [Next]_vars => TailInv'
    BY TailInvNext DEF IInv
  <1> QED
    BY <1>1, <1>2, InvariantHolds, PTL DEF Spec

\* Every variable keeps its type; no place holds more frames than were recorded.
THEOREM TransmitTypes == Spec => []TypeOK
  <1>1. IInv => TypeOK
    <2> SUFFICES ASSUME IInv PROVE TypeOK
      OBVIOUS
    <2>1. {pcm, sbc, chunk, left, spoken, heard, backlog} \subseteq 0..MaxFrames
      BY TransmitAssumption DEF IInv, FlowInv, FrameTypes, FramesAddUp, ThreadTypes
    <2>2. OtherTypes /\ ThreadTypes
      BY DEF IInv, FlowInv
    <2> QED
      BY <2>1, <2>2 DEF OtherTypes, ThreadTypes, TypeOK
  <1> QED
    BY <1>1, InvariantHolds, PTL

\* A command that gives up opening, and one that returns, has closed its channel
\* or tried to.
THEOREM ChannelIsGivenBack == Spec => []ChannelIsReleased
  <1>1. IInv => ChannelIsReleased
    BY DEF IInv, ChannelInv
  <1> QED
    BY <1>1, InvariantHolds, PTL

\* However late the reader thread is, the radio is left keyed only by Ctrl-C, when
\* the tail was lost, or when the reader thread had a backlog as it began.
THEOREM RadioIsUnkeyed == Spec => []WedgedOnlyByInterruptLossOrBacklog
  <1>1. TailInv => WedgedOnlyByInterruptLossOrBacklog
    BY DEF TailInv
  <1> QED
    BY <1>1, TailInvariantHolds, PTL

\* From the first end-of-TX packet on, all that was recorded is heard or with the
\* reader thread, unless a write failed or ffmpeg did.
THEOREM AllIsHeardOrInTheBacklog == Spec => []NothingIsCutOff
  <1>1. IInv /\ TailInv => NothingIsCutOff
    <2> SUFFICES ASSUME IInv, TailInv, pc \in InClose \/ how = "returned", cmd = "mic", ~lossy
                 PROVE  heard + sbc + chunk = spoken
      BY DEF NothingIsCutOff
    <2>1. pcm = 0
      BY DEF TailInv, AtRest, IInv, FlowInv, ThreadsInPlace
    <2>2. /\ heard \in Nat /\ sbc \in Nat /\ chunk \in Nat
          /\ heard + pcm + sbc + chunk = spoken
      BY DEF IInv, FlowInv, FrameTypes, FramesAddUp
    <2> QED
      BY <2>1, <2>2
  <1> QED
    BY <1>1, InvariantHolds, TailInvariantHolds, PTL

\* Audio that reaches the radio after an end-of-TX packet comes out of the backlog,
\* of which less is left with each frame.
THEOREM TheBacklogIsAllThatFollows == Spec => OnlyTheBacklogFollowsTheEnd
  <1>1. IInv /\ TailInv /\ [Next]_vars
          => [endHeard /\ heard' # heard => sbc' + chunk' < backlog]_vars
    <2> SUFFICES ASSUME IInv, TailInv, Next, endHeard, heard' # heard
                 PROVE  sbc' + chunk' < backlog
      BY DEF vars
    <2>1. /\ pc \in InClose \cup {"ended"} /\ (pc \in InClose => sbc + chunk <= backlog)
          /\ sbc \in Nat /\ chunk \in Nat /\ backlog \in Nat
      BY DEF TailInv, TailInOrder, AtRest, IInv, FlowInv, FrameTypes
    <2>2. ~SendPacket
      BY <2>1 DEF SendPacket, InClose
    <2>3. ShipFrame
      <3>1. CASE Main
        BY <2>2, <3>1
           DEF Main, ToneFails, OpenBegins, OpenSucceeds, OpenFails, EncoderStarts, EncoderRaises,
               EncoderUnavailable, MicRaises, MicStarts, MicStops, EncoderCloses, FfmpegReaped,
               Settled, SendEnds, WriteTail, WriteEnd, TailEnds, Drained, CloseEnds, PumpEnds,
               radioVars
      <3>2. CASE ~Main
        BY <3>2
           DEF Next, DurationPasses, PumpEnds, Record, Encoding, Encode, FfmpegExits, FfmpegDies,
               Reader, ReadChunk, Sigint, SigintSetsFlag, SigintRaises, Callback, Radio, radioVars
      <3> QED
        BY <3>1, <3>2
    <2>4. pc # "ended" /\ chunk > 0 /\ chunk' = chunk - 1 /\ sbc' = sbc
      BY <2>3 DEF ShipFrame
    <2> QED
      BY <2>1, <2>4
  <1> QED
    BY <1>1, InvariantHolds, TailInvariantHolds, PTL DEF Spec, OnlyTheBacklogFollowsTheEnd
=============================================================================
