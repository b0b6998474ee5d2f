# A formal model of bendio

bendio drives a Benshi-family handheld radio (BTECH UV-PRO and relatives) from a
computer: commands and events over Bluetooth LE, audio over an RFCOMM channel. This
directory holds TLA+ models of its stateful parts, the TLC configurations that check
them, and theorems about them checked by TLAPS.

    tlc -workers 2 -config MCRadio.cfg MCRadio
    tlapm RadioProofs.tla

## 1. The system

| Component | State it keeps | Operations | Talks to |
|---|---|---|---|
| `link.py` BleLink | one bleak client: connected or not, subscribed or not | `connect`, `disconnect`, `write_frame`, the indication callback | bleak, its owner's callback |
| `radio.py` Radio | `_pending`: key -> future; the notification handlers | `send`, `_on_frame`, `connect`, `disconnect`, `on_notification` | BleLink; any number of caller tasks |
| `server.py` Server | the current link, `_shutdown_requested`, one task per indication | `scan`, `connect`, `disconnect`, `ble_write`, `shutdown` | BleLink; a client over stdin and stdout |
| `audio/macos_rfcomm.py` | an RFCOMM channel and its delegate's flags | `RfcommTxSession`, `transmit_rfcomm`, `dump_rfcomm`, probe, SDP | IOBluetooth through the main thread's run loop |
| `audio/sbc.py` | an ffmpeg process, two reader threads, a buffer | `feed`, `close`, the read loop | the audio thread, the channel |
| `audio/framing.py` | Deframer: buffer, in-frame, escaped | `feed`, `build_audio_packet`, SBC header and frame splitting | the RFCOMM byte stream |
| `cli.py` | per command: stop flag or event, signal handler, counters | the BLE commands, the `rfcomm-*` commands, listings | everything above |
| `protocol/command/` | none | bit fields, messages, bodies: read and write | Radio, CLI |

What is hard in it:

* **Interleavings.** `send()` suspends twice, in the GATT write and in `wait_for`;
  other callers, replies, timers, `disconnect()` and lost connections run in between, and
  the `finally` of a dying call pops a table entry by key, not by owner. While the server
  is inside one request, indications turn into tasks that write to the same stdout. `rfcomm-tx-mic`
  has an audio thread, a reader thread and a main thread with the run loop.
* **Re-entry.** Notification handlers attach and detach handlers while an event is being handed out.
* **Formats.** Fields of any width packed without padding, bodies whose layout depends on what was read before
  and on the size of the frame, refusals without data, frames wrapped or bare.
* **Failure.** Connections drop; bleak raises from `disconnect()` or `start_notify()`;
  writes fail; ffmpeg dies; the radio closes or refuses the channel; Ctrl-C comes anywhere.
* **Ordering.** Responses in request order, events in indication order, the end-of-TX
  packet after the last audio packet, clean-up in the right order.
* **Time.** `wait_for` against a late reply; open time-outs against a late open-complete; fixed pauses
  that assume another thread has caught up.

Correctness, component by component:

* *Radio*: at most one command of a key on one connection; a call that waits can always
  be reached by its reply and by `disconnect()`; no entry outlives its call; a future is
  settled once; every call ends. *Not* true: a reply always answers the call it is given to.
* *Server*: one response per request with an id, in order; events in order, none lost while the
  client reads; no link forgotten but by an exception of bleak; shutdown ends the server with nothing connected.
* *Transmission*: what can leave the radio transmitting, and what can follow the end-of-TX packets, is known; nothing
  recorded before the stop is cut off; the channel is given back; the command ends. *Not* true: every transmission ends with an end-of-TX packet.
* *BLE commands*: however a command ends, the link is given back; Ctrl-C ends it; each handler hears each event once.
* *Messages*: what is read is written back bit for bit; wrapped frames and refusals are understood.
* *SBC*: packets come apart into the frames they were made of, whatever the samples look like.
* *Framing*: what is sent is what comes out, whatever the bytes and wherever the receiver starts.

## 2. Modules

| Module | Models | Extends / composes |
|---|---|---|
| `BleLink` | `link.py`, one object per element of `Links`, await by await | |
| `RequestReply` | what `Radio.send` promises: the abstract specification | |
| `Radio` | `radio.py`: send, `_on_frame` for replies, connect, disconnect | extends `BleLink`; refines `RequestReply` |
| `Server` | `server.py` | extends `BleLink` |
| `RfcommChannel` | one channel of `macos_rfcomm.py` and its delegate | |
| `Transmit` | `rfcomm-tx-mic` and `rfcomm-tx-tone` | extends `RfcommChannel` |
| `Receive` | `dump_rfcomm` with `rfcomm-play`, `rfcomm-dump` and `rfcomm-sbc-dump`; `try_open_rfcomm` | extends `RfcommChannel` |
| `Framing` | `build_audio_packet` and `Deframer` | |
| `SbcFrames` | SBC header, frame length, `split_sbc_frames` | |
| `SbcPackets` | audio packets as the radio makes them, frame by frame | extends `SbcFrames` |
| `Dispatch` | `on_notification`, its detach functions, the loop over the handlers | |
| `Monitor` | `connect`, `channels`, `sniff`, `sniff_all` of `cli.py`; an application's `async with Radio` | extends `BleLink`, `Dispatch` |
| `FieldTypes` | the field types and value mappers of `bitfield.py` and of the bodies | |
| `Bodies` | the layout of every message, and the choice among layouts | extends `FieldTypes` |
| `Fields` | one step of reading and of writing a field, the loops of `Bitfield`; what the step calls are constants | extends `Bodies` |
| `Messages` | `Message`, `GaiaFrame`, the parsing of `_on_frame` | extends `Fields` |
| `Codec` | the recursion: a configuration gives its operators to the constants of `Fields` | extends `Messages` |
| `MCRadio`, `MCServer`, `MCFraming` | instances for TLC | extend the module of that name |
| `MCCodec` | frames to try the codec on, and the instance of `SbcPackets` | extends `Codec`, `SbcPackets` |
| `RadioProofs`, `ServerProofs`, `FramingProofs`, `TransmitProofs`, `ReceiveProofs`, `MonitorProofs` | theorems | extend the module of that name |
| `SbcProofs`, `CodecProofs` | theorems | extend `SbcPackets`, `Messages` |

Only `MCCodec` declares a recursive operator, of which nothing can be proved; the other modules are kept clear
of them.

Definitions that begin with "A mistake" or "Mistakes" in their comment are variations of the code, not the
code: putting one in place of the definition after it must break a property.

### BleLink, Radio, RequestReply

asyncio runs a task up to its next await, so one action is what a task does between two
awaits. `step[l]` names the await in which a `connect()` or `disconnect()` of link `l` is
suspended. A call `c` of `send()` goes `new -> writing -> written -> waiting -> ended`; "writing" and "written" are both the
await of the GATT write, before and after the radio has the frame: it may answer before
the write response is processed. `pending[k]` names the call whose future is stored under `k`, `fut[c]` is
that future, `answer[c]` the request the radio was answering when it was set. `answer` and `atRadio` are
known to no one in the program: they are there to say what a reply was really for. Calls in
`Silent` are made with `expect_reply=False`, as `register_notification` does.

`Finish` is the `finally`: it pops the key, whoever owns it. Whether that can hurt is
the question of `EveryWaiterIsReachable`. It holds because of `LoopDrained`: before a new
connection is up, the tasks that the end of the old one has woken have run, since bleak fails
the outstanding writes of a lost connection, `disconnect()` settles the futures, and the
loop's queue is first in, first out, while a connect needs many turns. This is an assumption about bleak and asyncio and is
a guard of the action `Established`, which is why it is named.

Simplifications: one task at a time calls `connect()` or `disconnect()` of one Radio; a frame
that cannot be parsed is a lost reply; the radio answers a request at most once.

### Server

`pc` is the await of `run()`. Requests are records of a method, well- or ill-formed
parameters and whether there is an id; the id itself is the number of the line. Each handler is one action up
to its first await and one per await after that. `tasks` are the indication tasks that have not run, in the order of the event
loop's queue. A line is chosen when the loop reads it, so a client that writes ahead is
covered. `abandoned` (a history variable) holds the links let go of because bleak raised. At "fresh" and "exiting" `run()` goes on without
suspending, so no task runs and no indication comes there.

### RfcommChannel, Transmit

The channel changes state at any time, but the delegate's flags only while the main thread pumps its run
loop. `cmd` selects the command: `"mic"` has three threads, with `pcm`, `sbc` and `chunk` counting the frames in ffmpeg's
input, in its output pipe and in the reader thread's hands; `"tone"` has one. `keyed` is the radio: it transmits from
the first audio packet to an end-of-TX packet. `handler` is the SIGINT disposition, which `tx_mic` replaces after the open and restores first
thing in its `finally`. The two pauses of 0.2 s in `tx_mic` are meant for the reader thread, but wait for nothing; nor do they in the model:
`Settled` may come however far behind the reader is, and `backlog` (a history variable) keeps how many frames that were. Nothing here depends on real time.

### Receive

`cmd` selects the command. A frame goes `arrived -> feeding -> sbc -> pcm -> chunk -> played`: the data callback hands it
to the main thread's `feed()`, which writes into ffmpeg's stdin as the pipe has room; ffmpeg decodes it into its stdout; the
reader thread collects a chunk of 4096 bytes and writes it to the speaker. Each pipe holds `PipeFrames`, so a reader that
stops makes the main thread wait in `feed()`, where it neither pumps nor looks at the stop flag. The dumps and the probe
have only the channel. `Leaves` is the way out of `dump_rfcomm` into the command's `finally`.

### Framing

One byte at a time is put on the wire and goes through the loop body of `Deframer.feed()`. The sender chooses each
packet as it goes, so every packet of every length occurs; `Init` lets the receiver come in
anywhere. The reset of `_escaped` at a flag changes nothing here: `build_audio_packet` ends no packet in an escape, and before its first
flag the Deframer looks at nothing. No property speaks of it.

### Dispatch, Monitor

`_on_frame()` goes over a snapshot of the handlers; `pending` is the rest of it, and a handler may attach and detach in
between (`Changes`). `calls` counts what each function heard, `due` what the registrations then in force should have
heard. `robbed` marks a detach function called twice while the same function is registered once more:
`list.remove` then takes the other registration's entry.

`Program` gives each command as the list of its awaits inside `async with`: "call" lets an exception out, "try" and "subscribe"
print it, and the others are what their name says. `pc` is entering, inside, leaving or ended. Once `add_signal_handler` has run, Ctrl-C sets the
stop event; before, and where the platform has no such thing, `asyncio.run` cancels the task at its await, wherever that is.

### FieldTypes, Bodies, Fields, Messages, Codec

Bits are sequences of 0 and 1, field types are records, and what may raise returns an empty
sequence. `ReadStep` and `WriteStep` are `bftype_from_bitstream` and `bftype_to_bits`, branch for branch; where these call
themselves the steps call the constants `Read` and `Write`, which a configuration gives the operators `ReadType` and `WriteType`
of `Codec`, and these are the steps. A dynamic field asks
`Discriminate` for its type, given the fields so far and the bits left. `Bodies` has the field lists in the order of the classes, without names.
Floats are kept in their smallest units: frequencies and tones in the code are exact there, and `Short` is the set of
coordinates for which `n / 60 / 500 * 60 * 500` falls short of `n`, so that `int()` takes it to the next one. The definitions were compared with the
Python code on 16,677 frames (every body, random and truncated bytes) and agreed on each.

### SbcFrames, SbcPackets

The fields of an SBC header and the frame length are arithmetic on bytes; `SplitFrames` is the
loop of `split_sbc_frames` in closed form: the longest run of whole frames that begin with the sync byte. In `SbcPackets` the radio
(external) makes packets: frames of one configuration, of the length A2DP gives, whose bytes after the header come from `Samples`; then perhaps part of another frame.

## 3. Runs

| Run | Instance | Shows |
|---|---|---|
| `radio` | 2 calls of one key, 1 of another without reply, fairness; 81,338 states | the invariants of the pending table, `FuturesAreSetOnce`, `SendEnds`, `ImplementsRequestReply` |
| `radio_stray` | 3 calls, only time-outs | *violation*: a late reply answers the next call |
| `server` | 3 lines, 2 links, 2 indications, fairness; 928,816 states | order and completeness of responses and events; links; everything comes to its end |
| `server_notification` | 3 lines | *violation*: a response to a request without an id |
| `monitor` | 2 channels, 3 registrations, 2 events, 2 Ctrl-C, fairness; 113,894 states | handlers hear every event, the link is released, Ctrl-C ends the command |
| `codec` | every body with its integers 0, 1 and wide, every refusal, any bit flipped, up to 4 bytes cut off; every SBC configuration with 3 bit pools, samples all 0 or all sync bytes; 60,263 states | round trips, wrapped frames, refusals, splitting |
| `transmit` | 5 frames, chunks of 2, 3 end packets, fairness; 111,149 states | what leaves the radio keyed, what follows the end-of-TX packets, nothing is cut off, the channel is given back, a stop ends the command |
| `transmit_backlog` | 3 frames, chunks of 2, 2 end packets | *violation*: a frame of a late reader thread keys the radio again after the last end-of-TX packet |
| `transmit_interrupt` | 3 frames | *violation*: Ctrl-C skips the end-of-TX packet |
| `receive` | 8 frames, pipes of 2, chunks of 3, fairness | nothing is left running, the channel is given back, Ctrl-C and the radio's close end the command, at most a chunk is held back |
| `receive_latency` | 3 frames, chunks of 2, fairness | *violation*: the end of a burst is not heard until the next |
| `framing` | 6 byte values, packets of 4, 3 packets | packets arrive intact |

Why the bounds are enough. *Radio*: the hazards need an old and a new call of the same key, and a second key to see
that keys do not mix; the link may drop and reconnect any number of times. More calls are the theorems' matter: every safety
property of this run is proved for any number. *Server*: the longest scenario is connect, connect, shutdown, three lines and two
links (the exit at end of file needs no line); two indications
give an order. *Transmit*: five frames are two full chunks and a rest, so that the rest comes out only at end of file. *Receive*: eight frames are more than the pipes and the reader hold (seven), so the
main thread does wait. *Framing*: of the 256 bytes, flag, escape,
what the XOR makes of them and a pair of ordinary ones are all that the code tells apart; three packets give every
transition between packets. *Monitor*: one function registered twice and another make three registrations; the second event tells
whether the first left the list as it should; the second Ctrl-C meets the clean-up after the first. *Codec*: a flipped bit reaches every literal, enumeration,
sign, status and command; bodies have no state, so a frame at a time is all there is. Bit pools 2, 18 and 125 are the
least, the radio's own and one whose longer frames pass 512 bytes, and two frames show whether the second is found.

`CHECK_DEADLOCK FALSE` is set where the program stops: the server exits and the commands end.

**Fairness.** `radio`: bleak ends every write, and the loop runs a task whose future or timer is ready; nothing
makes the radio answer, a caller cancel or the link stay up. `server`: every await of bleak comes back and the event
loop runs what is ready; the client need not send a line. `monitor`: every await of bleak comes back, every call to the radio
returns or raises (`SendEnds`), and the loop runs what is ready; the user owes nothing. `transmit`: the main thread, ffmpeg and the reader
thread run (`wait(timeout=2)` and `kill()`, the deadline of the open and the loop of 20 pumps bound each wait); the
radio, the user and the microphone owe nothing. `receive`: likewise; the callbacks of the run loop owe nothing either.

## 4. What the violations say

* `ReplyMatchesCall`: replies carry no sequence number, and `_on_frame` looks up by (group, command). After a
  time-out the table is free, the command is sent again, and the first reply settles the second call.
  `StrayRepliesHaveACause` says this is the only way: some call of that key was given up, or expected no reply.
* `NotificationsGetNoResponse`: only the success path looks at the id.
* `EveryTransmissionIsEnded`: the tail is in the `try` of `transmit_rfcomm`, not in its `finally`. In `tx_mic` the
  first Ctrl-C is safe, a second one during the clean-up is not.
* `EveryTransmissionEndsThere`: at end of file the reader thread may have up to 93 frames to write, each with a `writeSync` of its
  own. When 0.4 s do not suffice, its last frame may come after the last end-of-TX packet and before the channel is closed. It takes a slow
  channel, since closing waits for another 1.5 s. That nothing else can follow, and no more than was left then, is `OnlyTheBacklogFollowsTheEnd`.
* `EveryFrameIsHeard`: `read(4096)` of a `BufferedReader` waits for all 4096 bytes, 16 frames of decoded audio.
  `AllButOneChunkIsHeard` says that never more than that is held back.

The properties that hold name their exceptions, and these are worth knowing too:

* `NoLinkIsForgotten`: `_m_connect` swallows an exception of the prior link's `disconnect()` and lets go of a link that is
  still up, and a failing `start_notify()` leaves a link up that nobody holds.
* `WhatIsReadIsWrittenBack`: names with a character of several bytes (`ljust` pads characters), tones beyond 254.1 Hz (read but not
  written), coordinates in `Short` (truncated by `int()`), unknown extended commands (read as UNKNOWN).
* `RefusalsAreUnderstood`: a refused GET_PF or WRITE_RF_CH does not parse, and its caller waits for the time-out.
* `PacketsAreSplitExactly`: frames of more than 512 bytes are not split. Nor are those of mode "stereo", where the bit pool covers both
  channels and `sbc_frame_length` doubles it, unlike the A2DP formula its docstring refers to; the radio itself sends mono.
* `WedgedOnlyByInterruptLossOrBacklog`, `NothingIsCutOff`: lost packets, an ffmpeg that died, frames still with the reader thread.
* `ChannelIsReleased` of `Transmit`: a microphone or an encoder that raises before the `try` leaves the channel to the process's end.
* `HandlersHearEveryEvent`: a detach function called twice (`robbed`).
* `LinkIsReleased`: a connect that fails after the connection is up has no `__aexit__`; nor does a second Ctrl-C during the
  clean-up get one.

Seen on the way, and not a property: the altitude is passed through `SignedMapper(24)` although it has 16 bits, so it is never
negative; the checksum of a wrapped frame is read and not compared; `connect` and `sniff` wait on when the link is lost.

## 5. Proofs

`RadioProofs` proves, for every set of calls, keys and links, the type invariant, `NoDeadEntry`, `EveryWaiterIsReachable`,
`OneLiveCallPerKey`, `StrayRepliesHaveACause`, the action property `FuturesAreSetOnce` and that `Radio` implements `RequestReply`, from
`RadioAssumption` alone.
The inductive invariant is

    IInv == TypeOK /\ NoDeadEntry /\ EveryWaiterIsReachable
              /\ OwnEntryOrNone /\ OrphansAreOffline

`EveryWaiterIsReachable` is not inductive: `disconnect()` clears the table while calls are still in their GATT write, and those
calls pop their key later. `OwnEntryOrNone` says that a live call's key maps to that call or to nothing; `OrphansAreOffline`
says that a live call whose key does not map to it exists only while the link is down, which `Established` with `LoopDrained` keeps. The other properties
follow from these.

`StrayRepliesHaveACause` needs the history of the requests at the radio (`SInv`): they were written on the connection that is up,
they have not been answered, and if the call of one is over it was given up or was itself answered by a stray
reply, whose cause is then the cause of the next one too.

`ServerProofs` proves, for any requests, links, lines and indications, every safety property of `Server`, from `ServerAssumption`
alone. The inductive invariant has three parts, each kept by itself but for the types of the others:

* `LinkInv`: `NoLinkIsForgotten` with `LinksInPlace` and `NewLinksAreDown`. A request that replaces a link must not overwrite a third one: while
  a coroutine works on a link, that link is the current one or the fresh one and there is no other; and a link that has not been connected yet is down,
  so that giving it up forgets nothing. `ExitLeavesNoLink` follows, since at the end there is neither a current nor a fresh link.
* `AnswerInv`: stdout is a list, and a response goes to its end. Order and uniqueness need `CurrentIsUnanswered`: every response
  there is belongs to an earlier line than the one being handled. `OthersAreAnswered` is what the next line read needs. `SilentAfterShutdown` says that
  no handler is under way once shutdown is set, from which the action property `ShutdownIsLast` follows.
* `EventInv`: the indications received are the events written followed by the tasks in the queue. `RunStep` is what `run()` may do to
  both; the lemmas about `Append` (`ResponseIsAdded`, `EventIsAdded`) say what one more line adds to the places of stdout.

`TransmitProofs` proves, for any number of frames, of frames the reader asks for and of end packets, every safety
property of `Transmit` that a run shows to hold, from `TransmitAssumption` alone: however late the reader thread is.

* `FramesAddUp`: frames heard and frames in ffmpeg, in the pipe and with the reader are those recorded, or frames were lost. It needs
  `ThreadsInPlace`: the microphone records only while there is an open encoder to take it, unless frames have been lost.
* `TailInv`: when the end-of-TX packets begin, microphone, encoder and ffmpeg are at rest (`AtRest`), so nothing can be added to what the reader thread has
  left, which is at most `backlog`; and each place of the main thread has its number of packets still to send (`TailInOrder`). With `FramesAddUp` this gives
  `NothingIsCutOff`; `OnlyTheBacklogFollowsTheEnd`, since a frame heard is one less in the backlog; and, where there was none, that the end-of-TX packet was the last the radio heard.

`ReceiveProofs` proves, for all sizes of packets, pipes and chunks, the three invariants of `Receive`, from `ReceiveAssumption`: no pipe overflows and no
frame is played that has not arrived (`FrameInv`, the part of `TypeOK` that is not obvious); `NothingIsLeftRunning`, from `DecoderInPlace` (an ffmpeg whose stdin was closed is
being waited for); `ChannelIsReleased`, from `ChannelInPlace` (the way into the `finally` closes the channel first).

`FramingProofs` proves that for every alphabet in which the XOR is its own inverse and moves flag and escape
out of the way (`FramingAssumption`), every packet of every length comes out of the Deframer unchanged
(`EveryPacketArrivesIntact`), with `BufferIsThePacket` and `BetweenPackets` (nothing is held between packets; no frame is open in a packet whose beginning was missed)
as the strengthening.

`MonitorProofs` proves, for any number of channels, handlers, events and interrupts, the three invariants of `Monitor`, from
`MonitorAssumption` and `DispatchAssumption`.

* `LinkIsGivenBack`: `LinkIsReleased` is inductive with the types of the link and `EnteredOnce`: nothing counts as entered before
  `__aenter__` returns, so a connect that is given up owes nothing.
* `EveryHandlerHears`: `HandlersHearEveryEvent` speaks of the moments between two events; the invariant (`HInv`)
  covers those in between. `RegistrationsAreEntered`: a function is in the list as often as it has
  registrations not detached, as long as no detach function has robbed another registration. `CallsAreDue`: the calls made and the places left in
  the snapshot add up to the calls due. Both count the occurrences of a value in a sequence; that `list.remove()` takes away just one
  (`CountRemoveFirst`) is shown by a bijection between the places before and after.
* `MonitorTypes`: no command runs past its last line, since every program ends in a wait or a return (`ProgramsStop`).

`SbcProofs` proves two things from `PacketAssumption`. `FrameLengthIsA2dp`: for every header but of mode "stereo" the code's way of
rounding gives the length of A2DP. `PacketsComeApart`: packets of any number of frames, with any samples and any rest, are split
into their frames. The invariant `PacketInv` says that a packet *carries* its frames: they are of one length, each is in its place (`Start`), and what is left
over is shorter than another. `SplitsExactly` is the lemma about the operator: the number of whole frames that the loop counts is then the number of
frames, since it cannot stop before the last nor go beyond it. Samples that look like a sync byte do no harm because only the bytes at
the starts are compared.

`CodecProofs` proves `WhatIsReadIsWrittenBack` for every sequence of bits (`EveryMessageComesBack`): of any length, with any text and integers, known and
unknown commands. The prover cannot look into recursive operators, so the theorem is about `Messages`, whose `Read`, `Write` and `Loses` are
constants, and has the hypothesis `Recursion`, that these are what their steps make of them, as in the runs. The
hypothesis contradicts nothing: a step raises when what it calls raises, so reading and writing have a least solution, and `LosesStep` is monotone. The
argument goes from the bits up:

* `BitsComeBack` and `IntegersWrap`: `from_int` and `to_int` undo each other for every positive width, and a negative value wraps.
* `EachRead`, `EachWritten`: the loops over fields and items, as the places between one field and the next. `ObjectComesBack`: an object comes back
  when each of its fields does, each seeing only the fields before it while it is read and all of them while it is written.
* A type is *exact* when all it reads it writes, *plain* when it may lose values and `Loses` says which, *sized* when it is plain and has a length.
  The mappers one by one: for text this is UTF-8 (`DecodeChars`, `StrPlain`: `ljust` pads to the number of bytes just when each character has one).
* The layouts of `Bodies` field by field. Dynamic fields are the hard part: their functions are asked with the number of bits left when reading
  and with 0 when writing, so either they do not look at it (*steady*) or the type is `dynN`, whose value says by itself how it is written (*choosing*).
* `BodiesComeBack`, `CommandComesBack` (an unknown extended command becomes UNKNOWN, hence `Canonical`), `MessageComesBack`.

The two properties about the radio's side are proved from the same hypothesis. They go forward: a frame is put together from parts, and the lemmas
ending in `At` say what the reader of each type finds in a given place of given bits (`IntAt`, `EnumAt`, `BytesAt`, `BitfieldAt`, ...).

* `EveryRefusalIsUnderstood`: a header and 8 bits of status are read field by field. The dynamic parts of each reply are asked with a status that is not
  SUCCESS and choose to read nothing (`NothingWhenRefused`); the bodies are the commands' `Replies` but for GET_PF and WRITE_RF_CH.
* `EveryWrappedFrameIsUnderstood`: for a frame of any whole number of bytes up to 259, which is what the length byte of a GAIA frame can say (the
  payload without its 4 bytes of header). A wrapped frame begins with 0xFF, so its first 16 bits are neither BASIC nor EXTENDED and `_on_frame`
  cannot take it for a bare one (`MessageIsRead` says what a frame that parses looks like); then the GAIA fields are read one by one, the payload
  comes out as the bytes that went in, and the checksum is taken just when the flag says so.

Only model-checked: all liveness, since liveness under fairness is out of the prover's reach.

## 6. Not modelled

Not modelled because there is nothing to check: argument parsing and the printing of listings and replies, the set-up scripts and
examples, the SDP walk over macOS objects. Not modelled because nothing uses it: `protocol/audio.py`, `dev_state_var.py`, and in
`bitfield.py` field reordering, `from_bitstream_batch`, `peek` and `extend`.
