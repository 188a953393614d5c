# A verification project for SoftPhone

SoftPhone is a Qt/pjsip soft phone for voice communication systems: it dials two
radio lines (a receiver "Rx" and a transmitter "Tx", over ED-137 RTP) and one
telephone line, keys the transmitter from a push-to-talk device, records calls,
and sends what it knows over a TCP and a UDP link. This directory holds TLA+
models of the parts of it that carry state, TLC runs that check them on small
instances, and TLAPS proofs of what matters most.

Paths below are relative to the repository.

## 1. Inventory

| Part | Source | State it keeps | Operations |
|---|---|---|---|
| Call control | `SoftPhone.cpp`, `Functions.cpp` | `current_call`, `current_call_rx`, `current_call_tx`, texts of three buttons, `enableEd137`, `transport_map`, `m_AutoCall`, ring tone slot, WAV recording | three button handlers, `makeCall`, `makeSipCall`, `makeCall_Radio`, `on_incoming_call`, `callStateChanged`, `on_create_media_transport`, `setRadioPttbyCallID` |
| Push-to-talk device thread | `PttManager.cpp`, `PttAdapter.cpp` | `m_PttStatus`, `m_PttStatusMp`, `m_shortPress`, two time stamps, `m_FD`, listeners | `runThread`, `tiproPttHandler`, `othersPttHandler`, `starTimer`, `tryToReOpenDevice`, `addPttListener` |
| ED-137 transport adapter | `TransportAdapter.cpp`, `ed137_rtp.h` | per call: stream callbacks, slave transport, packet buffer, key, priority, `ed137_value`; one static header pointer | send, receive, attach, detach, `setAdapterPtt`, the `get_IPRadio…` getters |
| TCP link | `TCPCommunicator.cpp` | socket, `_outbox`, strand, `m_readBuffer` | accept, read loop, `write`, `writeImpl`, `handleWrite`, `Uinit` |
| UDP link | `UDPCommunicator.cpp` | socket, one write buffer, remote endpoint | listen, receive, `write`, `Uinit` |
| WAV recorder | `WavWriter.cpp` | `FILE`, byte counts, `m_isRunning` | `start`, `writeRTPWav`, `stop` |
| Incoming RTP tap | `SoftPhone.cpp` (`setIncomingRTP`, `runFFTW`) | FFT buffer and count | per packet: record, copy to UDP, spectrum |
| Registration | `SoftPhone.cpp` | `acc_id`, `m_Register`, button text | `RegisterUser`, `removeUser`, `on_reg_state` |
| Start-up and exit | `SoftPhone.cpp`, `Functions.cpp`, `main.cpp` | everything above, brought up and down in order | `StartSip`, `app_exit` |
| Status monitor, volume | `SoftPhone.cpp` (`checkEventsThread`, `setSlotVolume`) | `m_PttPressed`, `SLOT_VOLUME`, the displays, `count`; the levels of the conference ports | one loop, the volume and frequency buttons |
| Spectrum plotter | `Plotter.cpp`, `Plotter.h` | the view (`m_SampleFreq`, `m_Span`, `m_FftCenter`, `m_CenterFreq`), the grid, `m_DrawOverlay`, what the mouse has captured | mouse and wheel handlers, `draw`, `drawOverlay`, the setters a confirmed call runs |
| INI configuration | `IniFileIterator.cpp`, `FileItem.cpp`, … | sections and entries | parse a file, look values up |
| SNMP client, utilities, audio devices, Asterisk files | `SnmpStack.cpp`, `Utility.cpp`, `AudioManager.cpp`, `asterisk/` | little or none of the program's own | – |

### How the parts interact

Six kinds of thread share the fields of one `SoftPhone` object, nowhere with a lock:

* the **window's thread** runs button handlers and slots;
* **pjsua's worker** runs the SIP callbacks (`on_incoming_call`,
  `on_call_state`, `on_reg_state`, media creation), which call straight into
  the window;
* the **push-to-talk thread** calls `pttPressed`/`pttReleased` of the window through `PttAdapter`;
* the **sound device's clock** sends RTP through `transport_send_rtp`, and the
  **media worker** receives it in `transport_rtp_cb`, from where the tap, the
  recorder and the UDP link are called;
* the **monitor** sets the volume of every line's port, polls the transmitter's
  adapter for the label and asks the radios for their frequency;
* two **`io_service` threads** serve both links.

```
 device --HID--> PttManager --pttPressed--> SoftPhone --setAdapterPtt--> TransportAdapter --RTP--> radio
 user  --click--> SoftPhone --pjsua_call_...--> pjsua --callbacks--> SoftPhone
 radio --RTP--> TransportAdapter --setIncomingRTP--> recorder, UDP, spectrum
                       \--ed137_value--> monitor --> label
 pjsua --stateRegChanged (queued)--> SoftPhone;  pjsua --call confirmed--> Plotter <--mouse, draw-- window
 user  --send--> TCPCommunicator --> client
```

### What is hard, and what makes it right

* *Call control.* Handlers of two threads overlap; call ids are reused; one
  flag (`enableEd137`) and one ring tone serve all calls; `make_call` fails
  at two places; DISCONNECTED may dial again. Right means: tone, button text,
  WAV file and adapter map follow the calls that are really up, a tracked call
  id is live, push-to-talk keys the transmitter only, a hang-up frees its slot.
* *Push-to-talk.* A state is tested before it is initialised, short presses
  are slept out, the device is lost and found. Right means: whatever the
  device said last is what the radio is told; presses are not cut short.
* *Adapter.* Five threads, one static pointer, two-field updates read field by
  field. Right means: a packet to a radio carries header and key; an adapter
  keeps its own radio's word; the stream's callback is set when it is needed.
* *TCP link.* One write at a time on a socket shared by threads, lines in
  order, failed writes, a pointer to a temporary.
* *Configuration.* One list of entries is carried from section to section,
  stored at two places and cleared at one; a missing key stops `configurate`
  half-way. Right means: what a well-formed file says is what the settings get.
* *Incoming audio.* One worker taps every packet for three purposes; the
  window uses the same UDP link, and the worker that ends calls patches the WAV
  header while packets may still be written. Right means: spectra are not
  mixed, a datagram and a recording are whole.
* *Registration and exit.* What `on_reg_state` emits is delivered later;
  `acc_id` is overwritten while an account is still there; pjsua refuses
  removals and the code goes on; calls come and end while `app_exit` runs, and a
  `Uinit` in the middle of it throws. Right means: calls always have an
  account to go out from, the button tells whether there is a user account, nothing
  is left up at the end.
* *Monitor and volume.* Monitor and buttons both look a port up and use it
  later, each by its own copy of the volume; media restarts give a port its
  level back. Right means: displays and ports settle on what was asked for.
* *Plotter.* Two threads set the view member by member; long sequences of zooms,
  pans and calls with another clock rate take it anywhere. Right means: drawing
  finds its data, the grid is that of the view, a drag follows the pointer.

`PROJECT.json` lists each hazard at its line.

## 2. Modules

| Module | What it is |
|---|---|
| `CallControl` | call control, the adapter map and push-to-talk from button to adapter |
| `MCCallControl` | its instances |
| `PttKey` | what the device thread promises its listener |
| `PttManager`, `MCPttManager` | the device thread; implements `PttKey` |
| `PttPath` (EXTENDS `CallControl`, `PttManager`) | the two put together: from the key to the air |
| `PttPathProofs` | types, eight safety invariants and an action property of call control, for every number of calls; the device thread and its refinement; the composition |
| `Ed137` | the 32-bit word as pure operators |
| `TransportAdapter` (EXTENDS `Ed137`), `MCTransportAdapter`, `TransportAdapterProofs` | the adapter and its threads; the proofs about the word as well |
| `LossyFifo` | what the TCP link promises |
| `TcpCommunicator`, `MCTcpCommunicator`, `TcpCommunicatorProofs` | the TCP link; implements `LossyFifo` |
| `RtpTap`, `MCRtpTap`, `RtpTapProofs` | incoming audio: spectrum, UDP copy, WAV recorder |
| `IniFile`, `MCIniFile`, `IniFileProofs` | the parser of `settings.ini`, the look-up and `configurate` |
| `Registration`, `MCRegistration`, `RegistrationProofs` | start-up, accounts, exit |
| `StatusMonitor`, `MCStatusMonitor`, `StatusMonitorProofs` | volume, label and frequency display |
| `Plotter`, `MCPlotter`, `PlotterProofs` | the horizontal axis of the spectrum |

Each models its own slice of the shared window object. What one takes from another is
external in it and as free as the other allows: `CallControl` hears any press and
release (`PttPath` makes them those of `PttManager`), `StatusMonitor` sees any word that
`TransportAdapter` may hold, and `Registration` has `Uinit` of both links as
steps of `app_exit`.

### CallControl

The variables have the source's names where it has one. `current` and `button`
put the three ids and texts into functions from the line: "rx", "tx", "phone".
`st`, `remote`, `uac`, `hungup` are what pjsua knows of a slot and `owner`,
`radiostatus`, `pttstatus` the adapter objects; they are external and modelled
from how the code uses them. A pjsua callback runs in full before pjsua frees
the slot (`StateDisconnected`, then the redial, `DisconnectedTail`, `FreeSlot`).

`pc[t]` says where thread t is in its handler. A handler is one action where
no other thread can tell the difference and is split where one can: between
`make_call` and the assignment of its result (`MakeCall`, `DialReturns`,
`RedialReturns`); between the adapter being created and `on_incoming_call`; between
the lookup of an adapter and its use (`PttFind`, `PttSet`); between
`call_answer` and the text that follows it. `Preemptive` chooses whether
handlers of different threads overlap at those points.

A URI is abstracted to its line, since the code only searches it for "sip:rx"
and "sip:tx". A user may type any URI into a field: `RxUri`, `TxUri`,
`PhoneUri` and `PeerUri` say what a run allows. `LateFailure` allows `make_call` to fail after
pjsua created the media transport.

### PttManager

One action per kind of report and per step of the loop; `phase` is where the
thread is. Times are kept as the code compares them, against `m_PttDelay`:
`age` is the time since the press and `gap` the difference of the two stamps.
What a test of the uninitialised `*state` does is a choice (`UsbPress`,
`UsbRelease`, `Joystick`). A release with no press before it subtracts zero
from a clock and converts the result to `unsigned int`: `gap` is then any value.
The stamps come from the local wall clock. `ClockStep` sets it, after which the press is
any time ago or still to come; `stepped` is a history variable that says so. `ahead`: the
last release may be later than now, so that the next press finds a negative difference, which
counts as any, and may itself be taken for short (`StampPress`).

`PttKey` is what a listener may rely on: reports alternate, each is of a change, and the
thread waits for the device again only when its last report is what the device said last.
`ImplementsKey` maps `key` to `m_PttStatus`, `reported` to `m_PttStatusMp` and `waiting`
to the thread being in `read`. Nothing of the delay, the handlers and the device is left.

### PttPath

`CallControl` lets the device thread call `pttPressed` and `pttReleased` at any
time; `PttPath` lets it do so exactly when `PttManager` reports. The names of
`PttManager` that every module has (`Init`, `Next`, `Spec` …) begin with "Device" so that
both can be extended. A report begins the call (`Ptt`), the thread goes on with its loop when
the call has returned (`pc["ptt"]` is "idle" again), and everybody else goes on meanwhile as in
`CallControl`. The constructor starts pjsua before it registers for
push-to-talk and ends before the first click. `pressedOn` is a history variable, the transmitter
that was tracked at the press told last; `clicked` is another, the box was clicked since.

`AirFollowsKey` is what the program is for: with the key up the transmitter that is
tracked is not keyed; with the key down the one of the press is, as long as its call has a
slot. (A redial with the key held gets a new adapter that is not keyed until the next press, and
a second click on "Tx" tracks another call while the first may stay keyed: the property claims
neither away.)

### Ed137 and TransportAdapter

A machine word is the set of its one-bits, so masks and shifts are set
operations, and bits that leave the word are dropped. `Ed137Word` is the part
of `transport_send_rtp` that composes the word, byte order included; the
`get_IPRadio…` operators are the getters.

`TransportAdapter` has one variable per thread telling where it is. The file has one static
pointer, `rtphdr`, which send and receive of all calls assign and then use.
The Makefile builds with `-O2`; the compiler keeps the address just assigned
in a register, so each thread uses its own packet. That is what `SenderPacket` and
`ReceiverPacket` say; the same code compiled to read the pointer again
(`SenderPacketShared`, `ReceiverPacketShared`) breaks `PacketCarriesHeader` and
`ValueIsReported`, and the mutants show it: correctness here rests on the optimiser.

The program always passes priority 1 and never sets an id; the model keeps
that. `quiet` and `reported` are history variables: no key change
happened since the packet was begun; the last word each radio sent.
`Report(f)` is the word of a radio that puts the values f into its fields, and
`RadioIsRead` says that the getters find those values in what the adapter keeps.

### TcpCommunicator

Lines are numbers in the order they were sent. `write()` posts to the strand a
pointer into a string that dies when `write()` returns; a `writeImpl` that runs
later finds the line or `Garbage`. `strand` is the queue of posted handlers;
`Complete` is the network finishing an `async_write`, well or not. The refinement
mapping to `LossyFifo`: `pending` is `_outbox` without the line whose
`handleWrite` is due, `delivered` is what reached the network.

### RtpTap

Samples are numbered in the order they are tapped, so order and loss can be
seen. `Tap` is `setIncomingRTP` up to the UDP copy: only the media worker touches the
spectrum's buffer. `Fed(n)` is its loop over the samples of a packet, as a recursive
function. `UDPCommunicator::write` sets two members and then hands
both to the socket, one action each, since the window and the media worker
may both be in it. `WavWriter` has one action per step of `start` and `stop` that
a packet can fall between; the FILE position is a sample's number or 0 for the
header, and a sample written there spoils it. A write to a closed FILE is
`"crashed"`. `mixed` and `torn` are history variables: two threads were inside
`write()`; a packet met `start()` or `stop()`. The FILE is taken to accept every
byte, and the socket to send at once.

### IniFile

The variables are the locals of `load` and the map it fills; one action per kind
of line, one for the end of the file and one per setting `configurate` assigns.
A line is a sequence of tokens, which the parsing operators take apart as
the C++ does (`Trim`, `KeyOf`, `ValueOf`, `SectionOf`), and it carries besides
what its author meant: that is the reference definition `Says`, which looks at
the meaning only, against which `ReadsBack` and `SettingsFollowFile` compare the
code. `LineAssumption` is the grammar that ties the meaning to the text: a blank
line, a comment, a header `[name]` and an entry `key = value`, with blanks where
`settings.ini` may have them and a comment after a value. Lines nobody gave a meaning are
"odd": their text may be anything, they occur in the runs, and `StoredOnce` holds of
them too. A line of nothing but `=` ends the program (`components[0]` of an
empty vector).

An entry in a list carries the number of its line, which the code does not keep: with
it `StoredOnce` says that a list holds entries in the order of the file and that no
line is in two of them.

### Registration

`window` is the window's thread: the constructor step by step, then one slot of
the event loop at a time, then `app_exit` call by call. pjsua takes its lock for
each of its functions and holds it while it calls `on_reg_state`, so one pjsua
call is one step; between two of them its worker may do anything (`RegAccepted`,
`RegLost`, `CallUp`, `Disconnected` …). `signals` is Qt's queue. The account
table, the registration clients and the default account are pjsua's and
external; what the model says of them (a removal is refused without a client or with a
request under way; deleting the default account makes account 0 the default)
is what the code meets. The phone's own account, number 0, has no client,
so removing it is always refused: `DefaultIsLive` rests on that. `hasty` is a history
variable, see *What is conditional*.

### StatusMonitor

A port is known by its line and a volume is counted in steps of 0.1. Monitor and
window are records that say at which statement, for which line, and whether the
look-up found a port. `setSlotVolume` reads the shared volume twice, for the text and for
the level (`ReadVolume`, `ClickRead`), and uses each copy in a later step, when the other thread may
have changed the volume or returned; `vol` is that copy. A port that went between look-up and use has
a number that may be another's by now (`Adjust`). A stream that starts, or starts again after
a re-INVITE, gets a port with the level of the bridge. A request to a radio may be
lost, and a poll may get no answer.

### Plotter

Each member of the view is written on its own, and two threads do it. A handler is
therefore a list of steps in `todo`, each the write of one member, the reading of what a later
one uses, or the drawing of the overlay. `setFftCenterFreq` reads the rate, then the span, then
writes the centre (`ReadRate`, `ReadSpan`, `WriteCenter`), and a setter's argument is read before
that (`ReadArgument`); `arg` carries what was read. A thread begins a handler when its list is empty. The filter box is switched off after its
first drawing, so the zones in which the mouse captures something are fixed: a point
has a column and a zone. Width is constant and floats are exact. `Multiplier(n)` is the power of ten by which
`calcDivSize` scales its 1, 2, 5 in its n-th trial. `lost`, `stale` and
`twice` are history variables: the worker changed the view after the last
drawing; the last centre was written by a limit that the other thread had made out of date, and
is not what the present limit asks for; a button was released while another was held. A drawing
of the overlay is one step, although two threads may be in it (hazard at `Plotter.cpp:910`).

## 3. Runs

| Run | Instance | What it shows |
|---|---|---|
| `call_preempt` | two slots, two adapters, handlers overlap, `make_call` fails early or late, transmitter calls out, telephone calls out and in, recording on | `RingHasCause`, `EndMeansConfirmed`, `RecordingCallIsUp`, `IdleIsClean` |
| `call_serial` | the same calls, handlers do not overlap, `make_call` fails early if at all, push-to-talk from the box, fair | `TrackedCallIsLive`, `BoxClearMeansUnkeyed`, `DialledKind`, `MapFollowsMedia`, `PttKeysOnlyTx`, `HangUpFreesSlot` |
| `ptt_manager` | the whole state space, fair | `ImplementsKey`, `ShortPressIsStretched`, `ReleaseIsReported`, `DeviceComesBack` |
| `tcp_safe` | four lines sent, two received, fair | `OneWriteAtATime`, `ShownInOrder`, `ImplementsFifo`, `OutboxDrains` |
| `tcp_backlog` | three lines sent | a counterexample, see *Findings* |
| `ed137_adapter` | a receiver and a transmitter call, two status words | `CallbackIsSet`, `PacketCarriesHeader`, `PacketCarriesKey`, `ValueIsReported`, `RadioIsRead` |
| `rtp_tap` | spectra of two samples, four samples in packets of one and three | `SpectrumLosesOne`, `DatagramIsWhole`, `HeaderTellsData`, `RecordingIsGapless` |
| `ini_file` | every file of up to five lines out of eleven forms | `StoredOnce`, `ReadsBack`, `SettingsFollowFile` |
| `registration` | four accounts, three signals waiting | `DefaultIsLive`, `UnregisterHasAccount`, `ExitHangsUp` |
| `registration_exit` | three accounts, two signals waiting | a counterexample, see *Findings* |
| `status_monitor` | the transmitter's line, two volumes, two frequencies, a poll every other round, fair | `OverrunByMonitorOnly`, `VolumeSettles`, `LabelSettles`, `FrequencySettles` |
| `plotter` | two columns, four bins, 2 Hz at the start and 1 Hz in calls, one division, zoom by 2 and by 1/2, left and middle button | `BinsInRange`, `GridFitsView`, `PanFollowsPointer` |

### Bounds and why they are enough

* **Two slots, two adapters.** Every hazard of call control is between one
  call and one other: two calls of one line, an ending call and its redial, a
  reused slot. `PttPathProofs` covers any number. With both in use a
  further dial fails as it does in pjsua when all slots are taken.
* **Buttons.** The runs press Tx and the telephone button; Rx and Tx run the
  same code on another member, and the theorems cover all lines and calls in from radios.
* **Push-to-talk.** The check box presses; the device's thread makes the same call and then sets
  the box, and handlers do not overlap in that run, so that between them both ways are one.
* **Four lines out, two in.** Overtaking needs two lines in the outbox and one
  on its way; a fourth lets one fail with two behind it.
* **Words of a radio.** Two, a keyed transmitter's and a receiver's with open squelch;
  between them they set the lowest and the highest bit of each field. `TransportAdapterProofs`
  covers every word.
* **Five lines.** Two sections with all three settings, or with a key or a
  header repeated and a comment between them. `IniFileProofs` covers files of any length and
  every line of the grammar.
* **Four samples.** A spectrum, the sample lost after it and the start of the next,
  in one packet or several; three samples let a packet be met at its first, a middle
  and its last sample. Any number of recordings; `RtpTapProofs` covers any number
  of samples.
* **Four accounts, three signals.** The phone's own and three users': one account
  more than a hasty Register leaves behind, and a full table. An answer, its loss
  and a refreshed one can wait together. `RegistrationProofs` covers any number.
* **One line, two volumes.** The monitor treats lines one after the other; the
  transmitter's is the one with the label as well. The two volumes are the ends of the range, so
  that every click meets a clamp or a neighbour of one. One round without a poll between two
  with it. That a level goes to the port of another call takes two lines: a receiver's and a
  transmitter's with one frequency and a poll in each round have 4.3 million states,
  in which TLC found `OverrunByMonitorOnly` to hold, and `StatusMonitorProofs` covers any lines.
* **The plotter.** Two columns are the fewest with a left and a right; zooming by 2 from
  2 Hz reaches the least and the greatest range, and the clamp of the centre on both sides, by
  limits in and out of date.
  `MaxFreq` bounds `m_CenterFreq`, on both sides of 0, where the mouse sets it. The left and the middle button
  pan in their two ways and can be held together; the right one only resets the view, by
  setters that a confirmed call runs as well. `PlotterProofs` covers any width, any rates and
  any zooms.
* `PttManager` is finite as it stands.
* Symmetry is declared for `call_preempt` only, which checks no temporal property; the two
  sets it permutes occur in no other constant and no property names a member of them.

`CHECK_DEADLOCK FALSE` stands in the TCP runs, where after the bounds are used
up, or after `Uinit`, the component stops; in `ini_file`, where configuring ends;
and in both registration runs, where the program does.

### Fairness and why the code justifies it

* `CallControl` (in `call_serial`): a thread inside a handler goes on (nothing in a
  handler waits for another thread), and a call that was hung up is ended by SIP's
  transaction timers. That callback waits for the worker, which the
  peers may keep busy with others, so it is strong fairness.
* `PttManager`: the thread leaves every step that does not wait for the
  device. No fairness of the user or of the device.
* `TcpCommunicator`: the `io_service` threads run what is ready, an
  `async_write` completes, well or not, and `write()` returns.
* `StatusMonitor`: the monitor loops forever, and a slot of the window that has
  begun goes on. None of the user, the calls or the radios.

## 4. Proofs

All are for every value of the constants (any number of calls, adapters,
accounts, lines, any set of URIs), from the named assumptions of the modules: an invalid
id is no slot, "not in the map" is no adapter, URI classes are lines, flags are Boolean,
pjsua's table has room for two accounts, a line of the file that has a meaning is written by the
grammar, a wanted setting is a section and a key, and in the plotter the screen has columns, the
FFT an even number of bins, a clock rate is above 1 Hz and a zoom step is positive.

* **PttPathProofs**, call control. Whether or not handlers overlap: `TypeCorrect`, `RingSafe`,
  `EndSafe`, `RecordingSafe`, `MapSafe`, `IdleSafe`. Their properties need the others'
  support: the strengthening adds what the program counter promises. A worker in the
  DISCONNECTED callback has a `closing` call in state "disconnected", and only
  then is there one (`WorkerOK`); a live adapter serves a slot in use, and the
  map has forgotten the closing call once the callback is over (`OwnerOK`); a call
  that is up has its adapter, and a freed adapter is not keyed (`MediaOK`). For handlers
  that do not overlap and URIs in their own fields: `TrackedSafe`, `KindSafe`,
  `BoxSafe`, `KeySafe`. Here the locals of a handler must be right: the id held over a
  return is a live call's of the right line, a dial under way has set
  `enableEd137` for its kind (`HandlersOK`); what push-to-talk looked up is still
  the transmitter and its adapter when it is used (`KeysOK`); and a clear
  box means an unkeyed transmitter between any two steps of other handlers, if `make_call` does
  not fail late (`ClearOK`).
  Each part has a lemma with one step per action.
* **PttPathProofs**, device thread. `DeviceTypeCorrect`, `Stretched` and `KeyRefined`: the
  initial state of the thread is one of `PttKey`, and every step is one of its steps or a
  stutter. At the head of the loop a difference between what was told and what the device
  said is possible only with `m_shortPress` set, and the three records of the last report
  always agree; that is the invariant. `KeyCaughtUp` spells out what the promise comes to.
* **PttPathProofs**, composition. `PathIsBoth`: each step of `PttPath` is one of call control
  or a stutter, and one of the device thread or a stutter, so that every invariant of either is
  one of the two together. `AirFollows` rests on them and on two parts more. `LinkOK`: the argument of
  the call under way and, once it has returned, the check box are what was told, unless the
  box was clicked. `PressOK`: the call that `pttPressed` acts on is `pressedOn`, and it is on the
  air from the return of `pttPressed` to the next report or the end of its slot. The
  theorem is for a device thread that does push to talk (`"ptt" \in PttThread`).
* **TransportAdapterProofs.** First the word: push-to-talk and id read back for every
  id and priority, and the fields of a radio's word are read apart. Words are sets, so each is
  elementwise arithmetic on bit numbers. Then `TypeCorrect`, `CallbackSafe`, `HeaderSafe`,
  `KeySafe`, `ValueSafe`, for any set of adapters and words, and `ReadSafe`
  (`RadioIsRead`), which joins both parts. The strengthening follows a packet through the
  sender's steps and says that a set priority is the program's constant, so that status
  and priority read apart still make a word that tells the key.
* **RtpTapProofs.** `TypeCorrect`, `DatagramSafe`, `HeaderSafe`, `RecordingSafe`,
  `SpectrumSafe`. The strengthening says what each step of `start` and `stop` finds
  (`Patched`), that an untorn packet is written while the other worker rests, and that data
  and the rest of the packet together end at the last sample tapped. For the spectra, the
  loop over a packet keeps its invariant from sample to sample (`FedFills`): there would
  otherwise be a least sample at which it breaks.
* **RegistrationProofs.** `TypeCorrect`, `DefaultSafe`, `UnregisterSafe`, `ExitSafe`.
  `AccountInv`: only a user account has a registration client, so the removal, which goes
  on only after "ok", never meets account 0, and the default account exists.
  `ButtonInv`: without haste there is one user account at most, `acc_id` names it, and the
  button and the last signal waiting agree with it. `HangupInv`: from the hang-up of
  `pjsua_destroy` to the end no call is up but an auto-call's.
* **TcpCommunicatorProofs.** `TypeCorrect`, `OneWriteSafe`, `ShownSafe` and
  `FifoRefined`: the initial states of the link are initial states of `LossyFifo` and
  every step is one of its steps or a stutter. `OneWriteAtATime` is
  inductive: a line being written is the head of `_outbox`, and there is a write
  under way, or one posted `handleWrite`, or neither. `ReadInv` says that a line read and
  not yet printed is newer than all that was.
* **PlotterProofs.** `TypeCorrect` for the view, the lists of steps and the mouse
  (not the grid, whose type needs a division to exist), and `PanSafe`: during a drag, and
  unless a second button was released, `m_Xzero` is the pointer's column (`DragInv`).
  `BinsSafe` and `GridSafe` rest on `ViewInv`, which says what is still to come of a
  handler that has begun: a write of the rate or the span is followed by a clamp, and that by
  a drawing (`Orderly`); unless a clamp is to come, or the last was by a limit out of date
  (`stale`), the centre is in its limits; the grid fits
  the view, or a drawing is to come, or `draw` will see the flag, or the change was lost
  (`Covered`). The arithmetic under `GridSafe` says that a step of 1, 2 or 5
  times a power of ten, found by division, fits any span into the divisions allowed.
* **IniFileProofs.** `TypeCorrect`, `ListsSafe` (`StoredOnce`), `ReadBackSafe`
  (`ReadsBack`), `SettingsSafe` (`SettingsFollowFile`). Lemmas about text (what `Trim`
  leaves, where the first `=` or comment mark is) lead to `LineMeans`: of each kind of the grammar the
  parser reads exactly the meaning. `Kept`: every stored list and the current one hold
  entries of the file in their order, and while the file is read the current one shares none
  with a stored one. That is where `closeSection` may go wrong, as it stores the list at two places and
  clears it at one. `Right`: for a well-formed file, the current list is that of the
  last header and every list stored holds all entries under its header so far.
  `Assigned`: the settings assigned are a prefix of those wanted, each what the look-up gives.

* **StatusMonitorProofs.** `TypeCorrect` and `OverrunSafe`. That a volume is at most one step
  out of range needs the step's direction (`StepOK`): a click up is clamped above only.
  What a click has read is in range, as nobody else moves the volume (`CopyOK`). An overrun is
  followed into the monitor's copy, and from there to the display and the ports (`Carried`).

A module whose type invariant is a theorem does not check it again in its run.

### Only model-checked

Liveness (`HangUpFreesSlot`, `ReleaseIsReported`, `DeviceComesBack`, `OutboxDrains`,
`VolumeSettles`, `LabelSettles`, `FrequencySettles`) is out of the provers' reach. Every
safety property that a passing run checks is also a theorem. The two runs with
counterexamples are TLC's alone.

### Only proved

`PttPath` has no run. Its two parts have one each, and their product is large: two slots,
a Tipro device, a clock left alone and the Tx button make 650,000 states. On that instance TLC found
`AirFollowsKey` to hold before it was proved, and to fail when releases are not passed on.

### What is conditional

`TrackedCallIsLive`, `DialledKind`, `BoxClearMeansUnkeyed` and `PttKeysOnlyTx`
hold while handlers of different threads do not overlap and each field holds a
URI of its own line. With overlap they are false: the id that `make_call`
returns is stored after the call may already have ended. The repository
promises nothing for that case, so it is a hazard and no finding.
`AirFollowsKey` is claimed under the same conditions, and where `make_call` does not fail late.
`ShortPressIsStretched` excepts a clock set since the press.
`MapFollowsMedia` is claimed for the case that `make_call` does not fail after
it created media; otherwise the map keeps an address that is dead.
`ValueIsReported` and `RadioIsRead` are claimed of radios that send the ED-137 header.
`DatagramIsWhole`, `HeaderTellsData` and `RecordingIsGapless` are claimed where
no two threads met (`mixed`, `torn`); where they did, a datagram may have
another's size, and samples may land in the header.

`UnregisterHasAccount` excepts the hasty: who presses Register with a user account there
already, or Unregister with a success on its way, may be left with a button that reads
"Unregister" and nothing behind it. `LabelSettles` speaks of a transmitter's call that stays
up; when it ends, the label keeps what it said. `BinsInRange` excepts two
cases. From the worker's new rate until `setSpanFreq` has clamped, nothing limits the view. And a
window that computed its limit before the worker's setters and writes the centre after them
leaves the view where it may miss the data (`stale`); the worker is done by then, and only
the next clamp that is not disturbed puts it right. `OverrunByMonitorOnly` does not say that the
display is in range once a click has returned: the monitor may show an older copy later, and
`VolumeSettles` says that this passes. `GridFitsView` excepts a
change by the worker that was not drawn (`lost`) and a span of no more hertz than divisions;
`PanFollowsPointer` excepts a drag during which a second button was released
(`twice`), after which the view jumps.

## 5. Findings

* **A backlog that is never written** (`tcp_backlog`). `writeImpl` starts a
  line only if it is alone, with the comment "outstanding async_write"
  (`TCPCommunicator.cpp:151`); `handleWrite` returns on an error without
  starting the next line (`:187`). After a failed write with a line behind it,
  nothing is outstanding and nothing is written again. Clicking "send" three
  times before a client connects is enough.
* **An exit that is not clean** (`registration_exit`). `app_exit` is the "clean application
  exit" (`Functions.cpp:728`), but its second call, `Uinit` of the TCP link, begins
  with `m_socket.cancel()` (`TCPCommunicator.cpp:70`), which throws on a socket
  that was never opened. It is opened by the first client that connects. Without one the
  program aborts there: hanging up, unregistering and `pjsua_destroy` are
  skipped, and the other end keeps its call. `ExitHangsUp` shows that every other way
  through `app_exit` is clean.

## 6. What is not modelled, and the plan

Left out for good: formatting and clock helpers, sound card enumeration
(`AudioManager.cpp` is not in the build), the Asterisk files (data of another program), SNMP
sessions, object ids and string requests, log lines, repainting and the touching of
widgets from foreign threads. RTCP and the calls that are only handed to the slave transport
change no state of the adapter. In the plotter: the vertical axis, the filter of the
demodulator, bookmarks, peaks, `saveWaterfall` and resizing, none of which the program
shows or calls.

Not modelled yet, in the order in which it would add most:

1. `TransportAdapter`: creation, the SDP attributes; the UDP read loop, which ends for good on
   most receive errors.
2. Conference ports: which port is connected with which after `connectCallToSoundCard`.
3. `Plotter`: the vertical axis, which follows the same pattern.
