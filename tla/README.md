# A verification development for the TAUREON Synth Tool V4

TLA+ models of the parts of this program whose correctness depends on the order in which threads, callbacks,
polls and devices act; TLC runs that check them on small instances; and theorems, checked by the TLA+ proof
system, that hold for every value of the constants. Every definition is translated from the C++ under `src/src`
and `src/include`; `PROJECT.json` names, for each one, the file and the lines it stands for.

Contents: [the system](#1-the-system), [the modules](#2-modules-and-code), [the runs](#3-runs),
[where code and documents differ](#4-where-the-code-departs-from-its-documents), [the proofs](#5-proofs),
[hazards](#6-hazards), [what is not modelled](#7-what-is-not-modelled-and-why), [the plan](#8-plan).

## 1. The system

A desktop tool that receives, keeps and sends MIDI System Exclusive (SysEx) data through one of two Windows
backends. The Qt thread never calls MIDI: it posts commands to one application worker and polls their futures.

```
 MainWindow, SysExTransferPanel            (Qt thread: futures polled by 25 ms timers)
        |  commands, futures
 ConnectionWorker ------- State: controller, transport, SysExTransferSession, Raw Send
        |  calls               ^ stream events (bounded queue, loss markers)
 ConnectionController          |
        |                      |
 IMidiTransport: WmsTransport, WinmmTransport, FakeMidiTransport
        |  native callbacks (service or driver thread), transport worker thread
 Windows MIDI Services / WinMM

 TransferEngine  (own worker thread; sends messages with pacing, deadline, cancellation)
```

| Component | State it keeps | Operations | What makes it correct |
|---|---|---|---|
| `TransferEngine` | progress, result, cancel flag, worker thread | start, wait, request_cancel, destroy; worker loop | in-order sends, truthful result, prompt cancel, final snapshot, joined before destroyed |
| SysEx capture: `SysExStreamParser`, `SysEx7Assembler`, `SysExCaptureSession` | per lane: inside a frame, its bytes, loss flags | consume byte/packet/loss, finish, reset | a complete frame is one that was sent whole; nothing lost silently |
| `SysExTransferSession` | receiving, capture, document, profile | begin/consume/finish receive, clear, load, save, Raw Send | only one capture, document changes only when idle, verified save |
| `ConnectionWorker` | command queue, stream queue, owed loss markers, worker thread | select/connect/disconnect/snapshot, receive, Raw Send, load/save; destructor | commands in order, every event or its marker, drains before it ends a capture |
| `ConnectionController` | presented snapshot | refresh, select/clear route, connect, disconnect, endpoint change | what is presented is true of the transport |
| `TransportStateMachine` | life cycle closed/opening/open/closing/failed | begin/complete open and close, fail | only legal moves |
| `WmsTransport` | callback gate, receive queue, marker set, worker | open, close, send, enumerate, callback | events in stream order, overflow marked, close drains |
| `WinmmTransport` | long buffers, callback queue, quarantine, worker | the same, plus buffers the driver owns | the same, and no buffer freed while the driver owns it |
| `MainWindow` connection bar, `SysExTransferPanel` | pending futures, what is enabled and shown | choose backend, connect toggle, poll; transfer panel | shows the truth in the end, older answers never replace newer ones |
| `ProfileRegistry`, `ProfileSelectionService` | profiles, the choices of the user | match, select for now, remember | the profile shown is the one the precedence rules give for the document shown |
| `SysExManager` and its page | items, raw-byte totals, duplicate evidence, selection | add, remove, export, merge | evidence names what is there, limits hold, only verified frames are written |
| `SyxFile`, `SettingsStore`, `DiagnosticBundle` | files on disk | write a temporary, move it | a file is saved whole or left alone, through failures and crashes |
| `Settings` and its page, persisted routes | preferences, applied settings | load, validate, fall back, save, apply | what is applied is what the next start loads |
| `MonitorEventQueue`, `MonitorEventBridge`, `MidiMonitorModel` | bounded queue, counters, rows, the SysEx in progress | push, drain, pause, clear, limit, shutdown | every message displayed or counted once; rows a gapless end of it |
| `Librarian`, row filters, diagnostics text, native adapters | – | – | presentation, thin wrappers (section 7) |

Interactions that matter: commands posted by the Qt thread and answered through futures; stream events from the
transport's thread into a bounded queue; the endpoint-change callback on the transport's thread; the mutexes of
the engine, the worker, the controller, the life cycle and the WMS gate; condition variables; joins in destructors;
the disk, which the program shares with other programs and with its own next start.

## 2. Modules and code

| Module | Models | How state and actions correspond |
|---|---|---|
| `OneShotTransfer` | what a transfer attempt promises | abstract: a phase, a total, a count |
| `TransferEngine` | `core/transfer/TransferEngine.cpp` | one action per critical section of `mutex_`; the pacing wait is split into predicate test, block, wake, because it holds the mutex between the first two; the store to `cancel_requested_` outside the mutex is its own step |
| `TransferEngineProofs` | – | theorems about the engine, and that it implements `OneShotTransfer` |
| `SysExCapture` | `SysExStreamParser`, `SysEx7Assembler`, `SysExCaptureSession`, receive half of `SysExTransferSession` | operators on a session record; parser and assembler groups are "lanes" with the same four facts; a byte or packet is its kind and its place in the stream |
| `SysExReceive` | the capture alone, fed with anything a wire may carry | the session is `receiver`; `BeginCapture`, `Hear`, `FinishCapture`, `ClearCapture` are its methods |
| `StreamQueue` | `ConnectionWorker`: both queues, owed markers, receive commands, draining, shutdown | `Publish` on the transport thread, `Enqueue`/`Stop` on the Qt thread, the worker's steps; taking an event (under the mutex) and consuming it (without) are two steps |
| `WmsReceive` | `WmsTransport`: callback to capture, and `close()` | the callback is three steps (acceptance read, gate, queue) and may throw in each (`CallbackThrows`, `EnqueueThrows`: its `catch (...)` keeps nothing but a count); closing stores `accepting` without either mutex |
| `ReceiveProofs` | – | theorems about both queues and the capture |
| `TransportLifecycle` | `core/midi/TransportState.cpp` | one operator per method; `Refused` is `invalid_state` |
| `Connection` | `ConnectionWorker` backend/connect/disconnect/snapshot commands, `ConnectionController`, `open`/`close` of a transport, lost endpoints | a command is cut into actions where another thread can change what it sees: before and after native open/close, before the outcome is recorded, before the final snapshot is taken |
| `ConnectionUi` | the connection bar of `MainWindow` over `Connection` | `ChooseBackend`, `Connect`, `Disconnect` post a command; one timer poll is two steps, because it looks at the background future and at the user's future at different instants |
| `ConnectionProofs` | – | theorems about `ConnectionUi` |
| `WinmmMidiHeader` | `WinmmMidiHeader.cpp` | a buffer is prepared or not, submitted or not; one operator per method |
| `WinmmTransport` | `WinmmTransport.cpp`: open, send, close, the destructor, both callbacks, for both routes | the callback is two steps, because it draws its sequence number before it takes `queue_mutex`; what the worker does between two points where it could meet a callback is one action, so a close is cut where it drains, waits, resets and closes; a native call may fail, and a callback or a completion may throw (`QueueThrows`, `CompleteThrows`), while fewer than `MaxFaults` have; the driver keeps its buffers as long as it likes, and drops long input for which it has none (`DropLong`) |
| `WinmmTransportProofs` | – | theorems about the WinMM transport |
| `WmsTransport` | `WmsTransport.cpp`: construction, open, close, send, the destructor, callbacks, across connections | a call is an action per call into the service that can fail, the callback is its three steps and may throw; what is connected is kept per connection, so that what an earlier one left over is visible |
| `WmsTransportProofs` | – | theorems about the WMS transport across connections |
| `ProfileMatch` | `ProfileRegistry.cpp`: `match()` | one operator: the frame's candidates, the remembered and the momentary choice give a result |
| `SysExSession` | `SysExTransferSession.cpp`, `ProfileSelectionService.cpp` | the session is a record, each method an operator, its refusal a condition beside it |
| `TransferDesk` | `SysExTransferPanel`, `ProfileMatchPanel`, the session commands of `ConnectionWorker` | a click posts a command with what is on the screen, the worker takes one command at a time, the transfer runs beside it as `OneShotTransfer`, the connection bar sends requests through the same queue; a poll takes a refresh or an answer |
| `TransferDeskProofs` | – | theorems about the desk |
| `MonitorCategory` | the `*_category` functions of `MidiMonitorModel.cpp` | status byte to category; the state of one classifier |
| `Monitor` | `MonitorEventQueue.cpp`, `MonitorEventBridge.cpp`, `MidiMonitorModel.cpp` | `Arrive` on the transport's thread, `DrainOnce`, `Pause`, `Clear`, `SetHistoryLimit` and the two steps of a shutdown on the GUI thread; nothing is queued or drained once `shut` |
| `MonitorProofs` | – | theorems about the monitor |
| `FileWrite` | the three `write_atomic()` (`SyxFile.cpp`, `Settings.cpp`, `Diagnostics.cpp`), which differ in what is checked and what may be replaced | check, create, fill, remove (not on Windows), move: a step each, each may fail, a crash may come between any two |
| `SysExManager` | `SysExManager.cpp` | the workspace is a record; a file is a sequence of pieces, `Parsed` gives the frame of each, less its real-time bytes, or none; files are compared and counted by their raw bytes, frames by their own; adding, removing, evidence, limits, what may be written |
| `Routes` | `RoutePersistence.cpp`, `is_valid()` | a text is its fields in order, a field the value it decodes to or `Broken` |
| `Settings` | `Settings.cpp` but for saving | a file is a function of its keys to typed words; loading, range checks, fallback, migration; a path in bad UTF-8 (`Garbled`) makes a load on Windows throw |
| `Storage` | `SysExManagerPanel`, `SettingsPanel`, `DiagnosticsPanel`, `BoundedLog`, `DiagnosticBundle` over the five above | the GUI thread writes one file at a time through `FileWrite`; the save dialog's answer (`ChooseDestination`) and the look whether the file exists (`WriteFrames`) are two steps; the program crashes and starts, another program meddles with .syx files at any time |
| `StorageProofs` | – | theorems about routes, settings and their texts, files and what is applied, and the evidence of duplicates |
| `MC*` | – | model values, scripts, devices and files for TLC |

Composition: `SysExCapture` is extended by `SysExReceive`, `StreamQueue` and `WmsReceive`, so all three end in the
same capture; `TransportLifecycle` by `Connection` and `WinmmTransport`, `WinmmMidiHeader` by `WinmmTransport`, `Connection`
by `ConnectionUi`; `ProfileMatch` by `SysExSession`, and that with `OneShotTransfer` by `TransferDesk`: the desk relies on the
attempt as `TransferEngine` is proved to implement it. `WmsTransport` too extends `TransportLifecycle`. `Storage` puts `FileWrite`,
`SysExManager` and `Settings` (which extends `Routes`) on one disk. The desk condenses the steps of `Connection` to what
a transfer can tell apart. Each module also holds a few
operators that its specification does not use: plausible mistakes (a dropped guard, a wrong order) that the
properties are tested against, named under "mutants" in `PROJECT.json`.

Abstractions. Bytes and texts: a message is a model value or its kind and place. Endpoints are routes; the two
directions of a connection are a set of routes. The 8192 and 1024 entry queues are `Capacity`. Ten idle ticks before a
background snapshot are left to chance, made fair. Native calls succeed or fail freely. History variables
(`delivered`, `sending`, `taken`, `began`, `late`, `blurred`, `cut`, `overtaken`, `misled`, `leftover`, `sent`, `attempt`, `confirmed`,
`given`, `seen`, `torn`, `unmarked`, `silent`, `unrevoked`, `asked`, `raced`) record what properties compare and
guard no action; `meddled`, `clicks`, `starts` and the like count what the bounds allow.

That a frame was sent whole is said in two ways. `SentWhole` judges pieces that the capture put together, for "each complete frame is
whole". `FrameSent` takes only the places of a start and an end, with nothing but data of the lane between them, losses not looked at, for "each whole frame is
kept": `InDocument` then asks for one frame, and only one, with every piece between (`Spans`), complete or marked as hit by a loss. `Published` are the
events that the transports make: bytes not by WMS, packets not by WinMM and one at a time; a script of `StreamQueue` has no other.

## 3. Runs

| Run | Instance | What it shows |
|---|---|---|
| `transfer_engine` | lists of 0–3 messages, the owner and one other canceller, pacing and deadline on and off | results are truthful, sends are in order, at most the send under way follows a cancel, the handler's last snapshot is the final one, cancelling always ends the attempt, and the engine implements `OneShotTransfer` |
| `sysex_receive` | every stream of up to 5 byte events, or 4 packets of two groups, or 4 of a mixture, with losses | complete frames are whole, whole frames are kept once, all pieces are conserved, a loss is reported |
| `stream_queue` | a queue of 2, scripts of 4–5 events, 2 commands and the destructor at any moment | each event or its marker arrives in order, frames are whole (unless markers of two addresses were owed at once), Stop keeps frames sent before, shutdown leaves nothing and returns |
| `wms_receive` | a queue of 2, 2 scripts of 7 messages and all scripts of 4 packets of a start, a continuation or an end; a callback that may throw at each of its steps, `close()` at any moment | a frame called complete misses only messages that were lost unmarked, close drains and returns |
| `connection_ui` | two backends with one and two routes, three requests after the constructor's, one device lost, every native call able to fail | presented "connected" is true, no connection is hidden, nothing is replaced while open, every request is answered, the window ends up accurate |
| `winmm_transport` | a queue of one, two long buffers, four scenarios (what the device sends, what the owner calls), up to two native calls or allocations that fail, the destructor at any moment | data are delivered in order, with a loss where something is missing unless all of it was lost silently (number 5 of section 4); a buffer the driver holds stays alive and marked, handlers are quiet after close, every call returns |
| `wms_transport` | three connections, for receiving, sending or both on two devices, three messages, every call into the service able to fail, callbacks able to throw | unless a close broke off, open means connected to the routes asked for and no other, and a closed or failed transport holds nothing; no message goes elsewhere; of a closed connection only a callback that was running delivers, or one that a failed close left registered, into the next connection |
| `transfer_desk` | two clicks on the page, one request of the connection bar or lost device, two profiles, whole and broken frames | a transfer keeps its document and route, what is sent and remembered is what was on the screen and confirmed, the profile fits the document, each command is answered, the page becomes accurate |
| `monitor` | five messages, a queue of two, batches of two, histories of one and three rows, two clicks and the shutdown | each message is shown, waiting or counted as lost, and none waits after a shutdown; rows are a gapless end of what was shown; pieces of a SysEx are recognised across batches and clears |
| `storage` | two .syx files, one of them also with a real-time byte inside; a settings file of an older version, damaged, with a garbled path, or missing; three clicks that do more than select, one act of another program, two starts, failures and crashes anywhere, both builds | saves are whole or nothing and replace only what the user was asked about or another program made after the answer; what is applied is stored; duplicate evidence is true of the files' bytes |
| `retry_connect`, `winmm_timeout` | as `connection_ui`, `winmm_transport` | a documented promise the code does not keep (next section) |

Why the bounds are enough. The engine's loop has one message before, at and after each race; one canceller beside
the owner already interleaves with every step (the proofs cover any number). A queue of two overflows inside a frame,
fills again and drains. Streams of four or five events hold a frame that is interrupted, spoiled and followed by
another. Three requests are needed for the deepest behaviours of the connection bar: connect, change the backend
while a background snapshot is out, then act on what the stale snapshot showed.
Scripts of seven and of four WMS messages reach a drop while a marker is queued with newer data behind it, a drop after a marker that could not
be allocated, and a message that throws inside a frame.
For WinMM, a queue of one overflows on the second event; the scenarios are an overflow around a long message, more long messages than buffers,
a send after one that timed out, and a close that is retried before the device is opened again. Two faults reach what takes a failure
after a failure: a failed open whose clean-up fails, a buffer that can neither be submitted nor unprepared, a callback that throws twice.
Three WMS connections are one whose close breaks off, one that starts on its leftovers, and one after that.
On the desk the sessions to begin with stand for the commands that make them, so two clicks are enough for a confirmation with
a change between it and the send. Five messages overflow a queue of two, fall out of a history of one and end a SysEx that
began two batches before. Three clicks of storage, beside any selecting, are add, add and merge, or add, add and remove, or two saves and a bundle
with crashes between. The ASSUMEs of
`MCMonitor` and `MCStorage` compare the pure algorithms with what they must agree with on bounded inputs: a
message has one category in whichever packet it comes; what is saved is read back; no text but a route's is read as a route; a settings file of a newer
version is not read, and when a garbled path ends the load.

The type invariants of `SysExReceive`, `StreamQueue`, `WmsReceive`, `ConnectionUi`, `WinmmTransport` and `TransferDesk`
(`TypeOK`, in `SysExReceive` `CaptureTypeOK`, in `WmsReceive` `WmsTypeOK`) hold in these instances too, but no run lists them: they say little that the other properties do not need. To
check one, name it as the INVARIANT of the component's configuration. `TransferEngine`'s is a theorem.

Deadlock checking is off where a system ends (engine destroyed, worker exited, transport closed, clicks used up);
`sysex_receive`, `transfer_desk` and the connection runs check it: a window always polls.

Fairness. Threads the program starts are scheduled: `WF` on the engine's worker, on each caller inside
`request_cancel()` and on the join; on the application worker; on the WMS worker; on the poll timer; on the thread that
delivers an endpoint notice; for WinMM on the worker, on a callback that has begun and on the destructor. The pacing wait is timed, so the engine's worker is never blocked for ever. An idle
poll posts a background snapshot every tenth tick, hence `SF` on doing so; the transfer page does so likewise. The desk's
attempt ends (`WF` on the engine) because sends return, and `TransferEngine` is checked to end it once it is
cancelled (`CancelEndsAttempt`). Native calls return: the code has no
recovery if a driver hangs, and neither has the model. The five-second waits of the WinMM
transport are timed, so a wait may always end by its timeout. Nothing is assumed of users and devices. The scripts
are finite, so a drain ends; the code sets no bound against a device that outpaces it (see hazards).

Properties with a condition. Some promises the code does not keep in general; their properties state what is left, with the exception named in the formula:

| Property | Exception |
|---|---|
| `WholeUnlessBlurred` | markers of two addresses were owed at once (number 3 of section 4) |
| `WholeButUnmarked` | `unmarked`: messages that were dropped with no marker to tell of it behind the data before them, or swallowed by `catch (...)` (number 4). It is for each such message, not for a run that has one: a complete frame may miss these and no other |
| `LossSeparates` | `silent`: data swallowed by a `catch (...)`, or that found the driver without a buffer (number 5). If anything else is missing in the same place, a loss stands there |
| parts of properties that begin with `~misled` or name `stale` | a refresh shown after a newer one (numbers 6 and 7) |
| `NothingAfterClose` | a callback that was running when the close began; a connection whose close failed before it had revoked its callback, up to the next close that ends whole (number 9) |
| `ConnectedAsRequested` | all but its last part: `leftover`, from a close that broke off to the next one that ends whole |
| `SavedWholeOrNotAtAll` | not for Windows: an old .syx file between removing and renaming; a file made between the dialog's answer and the look that follows it (number 10) |
| `HonestConnection` | a connection that lost its route may stay presented (number 8) |

The liveness properties have no such condition.

## 4. Where the code departs from its documents

Two are runs of their own, which TLC finds violated:

1. `retry_connect`: a failed `open()` leaves the life cycle `failed`, which refuses every `begin_open()`; nothing closes
   the transport, so Connect stays enabled and cannot succeed until the backend is selected again. Against
   `Stage5ConnectionUiTests.cpp:587` (which does not press it again) and `CHANGELOG.md:48`.
2. `winmm_timeout`: a long message not returned after five seconds makes `send_on_worker()` reset the device
   (`WinmmTransport.cpp:736`), which ends the message and returns its buffer; the second wait succeeds and the send is reported
   as transmitted. Against `STAGE_3_BRIEF.md:894`.

The others can be seen by checking the property given (`LossPresented` is a temporal one, `NothingAfterClose` and `SavedWholeOrNotAtAll` are action
properties) in place of those the run's configuration lists:

3. `OnlyWholeFrames` in `stream_queue`: the worker keeps one address for all owed loss markers (`ConnectionWorker.cpp:179-192`).
   Drops in two lanes mark the wrong one and a frame with a hole is reported complete. Against `ARCHITECTURE.md:77`.
4. `DeliveredWhole` in `wms_receive`, in three ways. `enqueue_received()` (`WmsTransport.cpp:162`) adds no marker while one of the group is
   queued, also if newer data stands behind it. It sets the group's bit before it queues the marker: if that allocation throws,
   the bit stays and later drops of the group have no marker at all. And the callback's `catch (...)` (`WmsTransport.cpp:454`) counts a message
   that it could not read or keep and tells nobody. The frame is complete although it misses a packet. Against `STAGE_3_BRIEF.md:532`.
5. `LossSeparates` in `winmm_transport`, when the condition `p \notin silent` is left out of it: the input callback's `catch (...)`
   (`WinmmTransport.cpp:295`) counts what it could not queue, and a long message that finds no buffer queued is dropped by
   the driver, of which the program hears nothing. Data stand side by side where something is missing. Against `RISK_REGISTER.md:10` ("native loss → capture taint").
6. `LaterRequestStands` in `connection_ui`: between its two looks (`MainWindow.cpp:661` and `684`) the worker may finish both
   an older background snapshot and the user's command; the newer result is shown, then replaced by the older one. Against the
   comment at `MainWindow.cpp:664`. `EventuallyAccurate` shows that the next snapshot repairs it unless the user acts first.
7. `OlderRefreshNeverShown` in `transfer_desk`: the same two looks on the transfer page (`SysExTransferPanel.cpp:367` and
   `384`), against the comment at `SysExTransferPanel.cpp:370`. `ActsAsShown` shows what then may differ: the document sent and
   the profile remembered, never the route.
8. `LossPresented` in `connection_ui`, with `Reporting` set to no backend: the two native transports store the endpoint-change
   handler and never call it (`WmsTransport.cpp:656`, `WinmmTransport.cpp:909`), so a lost route stays "connected". With every backend reporting
   it is violated too: a change between `open()` and the assignment of `connected` is overwritten (`ConnectionController.cpp:71`). Against
   `STAGE_5_BRIEF.md:233`. The runs give `Reporting` every backend, which is how `FakeMidiTransport` behaves.
9. `NothingAfterClose` in `wms_transport` without its last alternative (`unrevoked`): a close that breaks off while it revokes a callback
   (`WmsTransport.cpp:496`) drops the connection with its callback registered. The gate is shared, so once the next open lets messages in, what
   the old connection sends is given to the handler as the new one's. Against "no callbacks after close", `STAGE_3_BRIEF.md:695`.
10. `SavedWholeOrNotAtAll` in `storage` with `asked` alone in its last line: the save dialog asks about the files that are there when the user answers;
   `choose_save_destination()` looks again when it has closed (`SysExManagerPanel.cpp:77`) and takes what it finds as leave to replace. A file made
   in between is overwritten unasked.
11. `Settings.cpp:125` decodes a path with `u8path`, which throws on bad UTF-8 in a Windows build. Nothing catches it, so a damaged settings
   file ends each start of the program, where other damage gives the defaults (`LoadThrows`; the last part of `AppliedIsStored` shows that
   the program never writes such a file). Against `ARCHITECTURE.md:336`.

## 5. Proofs

All are proofs of `Spec`, without fairness, for every value of the constants that satisfies the named assumptions.

**`TransferEngineProofs`** (any set of totals, any cancelling threads; `TotalsAssumption`, `OwnerAssumption`).
`TypeCorrect` is inductive by itself. The safety properties are not: what the counters and the state may be depends on
where the worker is, e.g. between accepting a message and accounting for it, or between deciding an outcome
and publishing it. The invariant `PlaceInv` says so place by place, in parts (`CountInv`, `StateInv`, `ReasonInv`,
`LateInv`, `CallInv`, `OwnerInv`), each preserved with the help of the earlier ones. From it follow `AcceptedInOrder`,
`TruthfulResults`, `PromptCancellation`, `FinalSnapshot`, `JoinedBeforeGone`, `TerminalIsFinal`, and `Refinement`: initial
states map to initial states of `OneShotTransfer` and every step to a step or a stutter.

**`ReceiveProofs`** (any lanes, capacity, scripts, feeds and number of commands; `LanesDistinct`, `CapacityAssumption`,
`ScriptsAssumption`, `FeedsAssumption`). First the queue. `Placed` relates
each position of "taken, then queued, then owed" to the published event of that number, and bounds the address an owed
marker may name. `NoSilentGap` is the property `EachEventOrItsMarker`; `QueueBounded` is the bound on `stream_events_`.
`ExitIsComplete` (`ExitLeavesNothing`) needs more: the worker leaves its loop only from a place where both queues were seen
empty under the mutex after the stop, and since then nobody may add to them; the invariant follows that promise from the
destructor's flag through each place of the worker's last drain.
`CompleteIsWhole` (`WholeUnlessBlurred`) is about bytes and packets, whatever lanes there are: it needs to know what the capture holds
between two events. `Clean` says it for a session and a place of the stream: each frame called complete was sent whole, and
each frame that is being read, unless a loss has hit it, is a start and data with nothing of its lane left out up to that
place. One lemma per method of the capture (`StartFrameClean`, `ExtendClean`, `EndClean`, `SingleClean`, `LossClean`, ...) moves `Clean` one piece on,
`DataClean` moves it over all pieces of an event and `FinishKept` over the lanes of a finish, by induction over numbers. A marker does in the
capture what the event it stands for would have: it taints each lane for which the event has anything (`MarkerTaints`), provided it carries that event's
address, and `Addressed` says that all that is queued or owed does until an owed address is overwritten.
(`StopKeepsFrames` comes last, below.) Then the capture by itself, which hears any events at all, also such as no transport makes. `HeardWhole` (`CompleteOnesWhole`) uses the same lemmas,
on a stream that grows as it is heard: what is whole stays whole when the stream goes on (`SentWholeLonger`, `CleanLonger`).
The other direction, that nothing which was heard is missing, is `PiecesKept` (`PiecesConserved`) and `WholeFramesKept`
(`EveryWholeFrameKept`). `Shelved` says of a lane that its pieces up to some place stand in its frames and behind them in what it is reading, in
order, and nothing else does; `Found`, that each frame that was sent by then has one that reaches from its start to its end and is reported; `Reads`, that a frame
which was started and not ended is the one being read. Neither of the last two is kept without the other, and `Reads` does not survive a
finish. All methods of the parser and of the assembler come down to five things a piece can do to a lane (`Opens`, `Continues`, `Ends`,
`Entire`, `Breaks`); `TookFiled` shows that these keep the three, `ByteTakes` and `PacketTakes` that there is no sixth.
`NoLossForgotten` (`LossReported`) is about the flags of a lane, `current_data_loss_` and `pending_data_loss_`: `GoesOn` says of two sessions that
frames were only added, and that each lane with a flag kept one or emitted a frame marked as affected. Every method of the
parser and of the assembler goes on in this sense (`ByteGoesOn`, `PacketGoesOn`), but only because a lane inside a frame has nothing pending and
one outside nothing lost (`Sound`): else an interrupted frame or a start would drop a flag. `FinishGoesOn` shows that a finish answers every flag.
`StopKeepsFrames` (`StopKeepsEarlierFrames`) joins the queue and the capture. What the worker took is a stream of its own, with a marker in the place of each event that
was dropped (`Renumbered`). While a capture runs, what was consumed of it since the begin stands in the document (`Captured`). A command that ends the capture
first drains, and by then everything that had been published when it was given has been taken (`Stamped`, `Placed`); a frame of which nothing was dropped is the same in both streams (`SameFrame`).
Unlike `CompleteIsWhole` this holds whatever address an owed marker has: a marker cannot take a frame out of the document.
Last `WmsReceive` (any capacity, endpoints and message counts; `ReceiveCapacityAssumption`, `EndpointScriptsAssumption`, `SelectedAssumption`). What waits for the
handler is the event the worker holds and then the queue (`Waiting`). `HandlerInSequence`: its numbers go on from those that were delivered, and together they are all that were drawn but for `torn`, the numbers drawn for an event that could not be allocated (`Ordered`); `CloseDrains`
(`CloseDelivers`): a closed transport has nothing waiting but what a late callback put there (`Late`). `DeliveredIsWhole` (`WholeButUnmarked`) compares numbers
with messages, which drift apart when drops are summed up in one marker, and when a message is lost with no marker. `Heard` is the stream with those
that were lost unmarked made blank, which the capture must agree with in all else: `Covering` relates each waiting item to the messages it stands for, `Accounted` leaves no message
of the selected group without an item unless it is unmarked, and `Traced` says that the capture is `Clean` with respect to `Heard` up to the
message the next item begins with. A message that is lost unmarked comes after all that waits, so making it blank changes nothing of what the capture
has seen; `Delivery` moves `Traced` one item on.

**`ConnectionProofs`** (any backends, routes, devices and bounds; `ConnectionAssumption`, `BackendsAssumption`). What is presented is
decided steps after the transport opened or closed, so `IInv` carries, for each place of the worker, what it may rely
on: a select or connect command is well formed (`Shape`), only a transport that is neither closed nor opening holds
routes (`Holding`), and after a successful open the held routes are the presented ones and the life cycle is open unless a
route was lost (`Places`). `Honest` and `OnlyClosedReplaced` follow. `NoneHidden` (`NoHiddenConnection`) is about the window,
which hears of the worker by futures: `OneRequestEach` shows that of the user's requests and of the background snapshots
at most one is on its way, in exactly one of the queue, the worker's hands and the answered future; `WInv` adds what each
answer says of the state at the time it is looked at, so that a window with nothing pending, and not misled, knows of an open transport.

**`WinmmTransportProofs`** (any capacity, set of buffers, scenarios and number of failing calls; `WinmmAssumption`).
`QuietAfterClose` is not inductive: a failed `open()` may leave delivery switched on, and a close that reports success must be
known to have closed both devices. `IInv` therefore carries three parts: `Calling` (which call, life cycle and place of
the worker go together), `Errors` (at each step of a close, a device still open means that an error is recorded), and
`Quiet` (closed, or failed with delivery on, or opening and not begun: no event is in a callback, in the queue
or with the worker, and the input is closed). `QuietOnceClosed` follows because only `Process` delivers.
`NothingFreedInUse` (`OwnedUntilReturned`) follows from `OInv`, which extends `IInv` by who holds each buffer: the driver, a callback
on its way, the worker, or nobody, never two of them; that a buffer of the worker is still in the table; and that at each
step of a close or a failed open what is about to be freed is with nobody. `LossMarksItsPlace` (`LossSeparates`) follows from
`LInv`: along the chain "delivered, with the worker, queued, in a callback, still with the device" the places of data grow, and
wherever something that was not lost silently is missing between two neighbours of that chain (`Gap`) a loss stands between them or is owed by whoever
adds the next one.

**`WmsTransportProofs`** (any requests, number of connections, messages and failing calls, no assumption; `ConnectedAsRequested` and
`NothingAfterClose`). Neither is inductive: `open()` connects output and input one after the other and undoes both if a
later step fails. `IInv` says for each place of a call what it has made and not yet undone (`Calling`, `Connecting`), that
connections, listeners and the transmit connection belong to the current attempt unless a close broke off
(`Connections`), that whatever is listening belongs to the current attempt or to one whose close failed before it was revoked (`unrevoked`), and that a
callback that holds a message holds one of such an attempt, or was running when a close began (`Events`, `Current`).

**`TransferDeskProofs`** (any frames, profiles, routes, connections, clicks and requests; `DeskAssumption`). That a transfer
keeps its route is not inductive: it needs that a link presented as connected has an open device behind it, and that without
a controller the device is closed (`Linked`). `Good` says that the session is one whose match is that of its document.
The invariant is `Good(session) /\ Linked /\ TransferIsolated`; `IsolatedTransfer` and `CurrentMatch` are two of its parts.
Commands that leave connection and transfer alone are one lemma (`Quiet`), so the proof has the shape of the code's argument:
what refuses during a transfer, and what first waits for its end.

`ActedAsShown` (`ActsAsShown`) relates what the worker does to what was on the screen clicks, polls and commands earlier. Its
invariant `VInv` adds to the above where each command of the page is (`SInv`: at most one per kind, in one place, and none that
could change the document is ahead of a confirmed send), what every snapshot on its way to the screen may differ in from the session
(`Views`), and that a command carries what was shown when it was given (`Asked`). The attempt to prove it showed
that the model was wrong, not the program: a confirmation that opens over an overtaken refresh and is confirmed
after a newer one replaced it sends a document that was never shown with it. With one request of the connection bar TLC could not
reach this. `confirmed.stale` is now taken when the dialog opens as well as when it is answered. `DeskAssumption` was made to say
what the code's first sessions satisfy: with a document, the profile last recommended is that of its match.

**`MonitorProofs`** (any capacity, batch size, limits and messages; `MonitorAssumption`). The queue holds numbers that grow and
have arrived (`Line`); once a shutdown has begun the queue takes nothing more, and once it has ended it is empty (`Shutting`); arrivals are what was accepted, dropped and rejected, and acceptances what was displayed, discarded
and still waits (`Counts`); what was displayed came before what waits (`Shown`); the rows stand at the end of what was given
to the model (`History`). `Accounted` is a matter of `Counts`, `Shown` and `Shutting`, `HistoryFaithful` of `History`, which needs `Shown` to
know that a new batch is newer than every row. `PiecesRecognised` (`PiecesListed`) needs `Pieces`: whatever stands in the queue between
a piece and the start of its SysEx keeps it open, and if that start was shown and all that came since was shown too or is
queued, the model has it open. A batch folds its classifier over the messages; that such a fold exists and what it gives is
shown by the smallest place at which it would fail.

**`StorageProofs`**. First routes, settings and their texts (texts whose values are typed words; the assumptions on `Max16` and
`Max32`): a valid route of any backend is read back as it was written; any content of a settings file gives settings that are in
range and can be saved, unless the load ends the program, as it does in the Windows build exactly when the decoding comes to a garbled path
(`LoadThrows`); settings that can be saved are read back as they were, neither migrated nor fallen back, and do not end the load (`LoadsLegible`).
Then files (any paths, disks, other programs, crashes and starts; `StorageAssumption`). A temporary file that is about to be
moved holds all that is to be saved, and a removal happens only to a .syx file on another system than Windows (`Writes`); a write that may replace
a .syx file has asked the user, or another program wrote there after the answer (`Asked`): `WholeSaves`. The settings that are being written do not change until the write has ended, and what is stored is what is
applied, except between the move and the page hearing of it (`Stored`); with `SettingsReadBack` this gives `AppliedSettings`.
Last the workspace (any files, bytes and hashes, also ones that collide; `ManagerAssumption`: sizes and limits are numbers).
`EvidenceTrue` says which frames are marked, not how they are found; `refresh_duplicate_evidence()` does it in one pass, which marks
each frame with the earlier ones it is like and each of those with it. After the first n frames every frame has the list, in the order of
items and frames, of those among the n it is like (`Listed`, `MetBy`): what comes later is later in that order, since ids only grow
(`Shelf`), so that a list stays in order when it grows at its end. A search finds all anew, so the evidence is true after an
addition and after a removal, and the total grows and shrinks by the size of one item (`AddedKept`, `RemovedKept`: `WellKept`). Files
are compared and counted by their raw bytes, frames by their own; that what a file is parsed to is a sequence of frames is `ParsesFrames` (from `Flattened`). That
`TrueEvidence` holds of all that the pages do needs `KeptInv`: what is, or is about to be, a .syx file is a sequence of bytes (`Contents`), also one
that was written from the workspace, and the item that may be removed is in the workspace.

Every safety property of the passing runs is a theorem. Only model-checked: every liveness property
(`CancelEndsAttempt`, `StopReturns`, `CloseReturns`, `CallsReturn`, `RequestAnswered`, `ActionAnswered`, `EventuallyAccurate`), which is
out of the prover's reach, as is `ENABLED`. The induction theorems of the
library cannot be used; an induction over numbers is done by a smallest counterexample (`Smallest`). Of the
WinMM stream the order of data and of losses between them is proved; the order of
the sequence numbers alone is not claimed, since a failed requeue may number a loss before an earlier event is queued.

## 6. Hazards

`PROJECT.json` lists each with its line and the properties that cover it. Four have no property:

- `drain_stream_events()` (`ConnectionWorker.cpp:216`) has no bound against a device that outpaces it; the models' scripts are
  finite.
- A notice to a destroyed controller (`ConnectionWorker.cpp:249`) is modelled in `Connection` with either outcome, which no
  property forbids; only the fake transport gives such notices.
- A lost endpoint that nobody reports (`WmsTransport.cpp:656`), and a report that `connect()` overwrites (`ConnectionController.cpp:71`): that a loss is
  presented (`LossPresented`) is not so (number 8 of section 4), and `HonestConnection` lets a connection whose route was lost stay presented.

A message after a close in WMS (`WmsTransport.cpp:453`) is what `NothingAfterClose` bounds: the handler is given what a callback that
was running when the close began had accepted, and, from an open after a close that failed at `WmsTransport.cpp:496`, what the old connection goes on to send
(number 9 of section 4); nothing else. The unsynchronised read of `last_synthetic_loss_sequence_`
(`ConnectionWorker.cpp:212`) reaches no decision and is left out.

## 7. What is not modelled, and why

- `ProfileLoader`: JSON schema validation of profile files, text in and a registry or an error out; `ProfileMatch` takes any registry.
- WinMM and WMS enumeration, resolution of routes, packing of short messages; WinMM requests for one route only: data, or a part
  of what is modelled. The search for the WMS API on disk is reduced to whether it succeeds.
- Splitting a .syx file into frames is the parser of `SysExCapture`; in `Storage` a file is a sequence of pieces, of which `Parsed` says what frames they
  hold: one each, less the real-time bytes, which the parser drops, or none. A hash is a function that may collide. A file's size and its limits are numbers, small ones.
- Texts: escaping and decoding of words, reports, log lines, status messages; a word is its value, or `Broken`.
- Librarian, row filters, layout, colours, dialogs: presentation. A dialog is what the user answers.
- Native API adapters, transport factory, `taureon_app_main.cpp` but for the monitor's hand-over: thin wrappers and start-up. The
  spikes and the hardware tools are programs of their own.
- In `FakeMidiTransport`, injected messages and the send hook: test scaffolding.

Assumptions that the code does not state: one page at a time writes a .syx file (the window hides the Manager page while
another is shown, `MainWindow.cpp:486`); the ranges of the settings' spin boxes are those that loading checks; a WMS connection
object lives while something refers to it; the moves of a file system are atomic, as `write_atomic()` takes them to be.

## 8. Plan

Done: the transfer engine, the capture, the application queue, both WMS modules, the connection, the WinMM transport, the transfer
page with profiles, the monitor, files and settings. Next, in order of importance:

1. That `TransferDesk`'s connection is an abstraction of `Connection`, as a refinement: both would need a common notion of what
   a route is, as one keeps sets and the other pairs.
2. `ProfileLoader`: which files enter the registry, in which order, and what a broken one costs.
3. WinMM requests for one route only, and the addresses of WinMM devices that come and go between enumeration and open.
