# Verification of smply

TLA+ models of smply, a client for the MCUmgr Simple Management Protocol (SMP)
that updates the firmware of devices with an MCUboot bootloader. The modules are
translated from the repository's source. TLC checks them on small instances.
TLAPS proves ten theorems for every value of the constants.

## The system

| part | source | what it does |
|---|---|---|
| SMP client | `src/smp/client.cpp` | correlates requests and answers by sequence number; timeouts, cancellation, deferred callbacks, disconnects, rebinding |
| upload | `src/groups/image/upload_*.cpp`, `image_management.cpp` | sends an image chunk by chunk; retries, restarts, rewinds, suspends and resumes |
| update state machine | `src/dfu/update_state_machine.cpp` | decides an update: events in, steps out, with its own deadlines |
| firmware updater | `src/dfu/firmware_updater.cpp` | carries out the steps over the client and talks to the application |
| boot model | `support/boot_model/boot_model.cpp` | predicts a device: slots, swaps, direct-XIP, images another MCU applies |
| test server | `tests/support/server_simulator.cpp` | the device side of the commands, in front of the boot model |
| transports, send queue, dispatcher | `transports`, `src/util` | POSIX and Win32 serial ports and WinRT BLE: threads or coroutines that write queued messages and post what they read |
| update run, reconnect policy | `support/dfu_app` | an application loop around the updater, with its reconnects and deadline |
| tools and stub device | `examples` | three programs that run an update, and a device to run it against |
| framing, assembler | `transports/serial`, `transports/common`, `src/smp/assembler.cpp` | messages to lines or fragments, and back |
| CBOR and groups | `src/cbor`, `src/groups` | arguments to requests, answers to results |
| async adapters | `include/smply/async` | callbacks as coroutines |
| images and packages | `src/image`, `support/dfu_package` | what a file says of itself, and the targets a package names |

The library runs on one client context: the application calls in, and the
library calls back from `poll()`, `on_bytes()`, `on_disconnected()` and
destructors. A callback may call in again. Calls made by the application complete
on a later `poll()`. What interleaves there is calls, callbacks, messages, link
events and the device. Threads exist below it: a transport's I/O thread, or the
system's pool, hands closures to the client context through the dispatcher, and
the stub device and its pseudo-terminal have a thread each.

## Modules

| module | models | state and actions |
|---|---|---|
| `RequestLifecycle` | what a request promises | a status per request: unissued, issued, completed |
| `SmpClient` | `SmpClient::Impl` | the slot table `pending`, the retired set (`flags`, `ring`, `head`), the deferred queue, and a program counter for the loops that run callbacks. One action per path of `request()`, and one each for `cancel()`, `poll()`'s phases, `on_bytes()`, `on_disconnected()`, `rebind_transport()` and the destructor. While `inCallback` holds, every application call may occur |
| `UploadSession` | `upload_session.cpp` | pure operators, state in and step out, named as the functions |
| `Upload` | `UploadDriver`, the upload part of `ImageManagement` | the session composed with the client's contract, a losing link and the server's upload handler |
| `BootModel` | `boot_model.cpp` | pure operators over a device |
| `UpdateMachine` | `dfu::Machine` | pure operators over a plan and the machine's context, named as the functions. Deadlines count down in polls |
| `Update` | `FirmwareUpdater` | the machine composed with the updater, the client's contract, the link, the device and the application |
| `SendQueue` | `send_queue.hpp` | pure operators: the waiting message and the writer's claim |
| `Transport` | what the adapters share: `send()`, `set_listener()`, `close()`, `LinkState`, the dispatcher | the client context's steps, split where another thread can tell; the medium |
| `PosixSerialPort`, `Win32SerialPort`, `WinRtBle` | the three adapters | the I/O thread by its program counter, overlapped operations, write coroutines and handlers |
| `Links` | | one adapter with client, dispatcher and medium |
| `ReconnectPolicy` | `reconnect_policy.hpp` | pure operators |
| `UpdateRun` | `update_run.cpp`, `dispatcher_wait.cpp` | the loop by its program counter; the updater cut down to its decisions about one image the client confirms |
| `StubDevice` | `stub_device.cpp`, `loopback_transport.cpp`, `pty_stub.cpp` | the device's thread, with the image absent, stored, on trial or kept, and the pseudo-terminal's reader |
| `DfuTool` | the `main()` of the three tools | hooks, exit code, tear-down; composes the two before it |
| `ChunkSize` | `compute_chunk_size()` and the packets it leads to | the upload's offset; real byte sizes |
| `FramePlan`, `SerialFraming` | `serial_framing.hpp`, `serial_link.hpp` | framer, line, splitter and deframer, with losses and other console output |
| `Assembler`, `Stream` | `assembler.cpp`; `ble_framing.hpp` and a link that drops | one action per pass of `feed()` |
| `Cbor`, `Groups` | `src/cbor`, `src/groups` | one action per lookup, element or return of a call |
| `Async` | `task.hpp` | coroutine frames, the call stack, the state shared with a callback |
| `ImageTlv`, `ImageFile` | `src/image`, `image_reader.cpp`, the packages' dependency reader | the scan one entry at a time; the other readers as operators |
| `Package` | `stored_zip.cpp`, `dfu_package.cpp`, `update_inputs.cpp` | one action per record, file and check |
| `Formats` | | the seven above, one at a time |
| `*Proofs` | | theorems about the module they are named after |
| `MC*` | | constants for TLC: flash contents, devices, plans, tools, inputs |

The compositions are layered. `Upload` and `Update` use the client by its
contract: one completion per request, by answer, timeout, cancellation or
disconnect. `SmpClient` is checked to keep it. `Update` takes an upload as one
command that begins with an erase and ends with the image stored, which `Upload`
checks. `DfuTool` takes the updater by its states, its one outstanding request
and what it waits for, and by what it decides in each mode from what the device
says of one image. Packages, images the device commits and the bootloader modes
are `Update`'s.

Data is abstract. A message is a request identity, a sequence number and a key
(group, command, operation). An image is a few units of flash. A firmware file
is its hash and version. Errors are the classes the code tells apart. In the
format modules a byte is what it stands for (the i-th byte of a message, its
length field, its CRC), an image file is a sequence of 16-bit cells, a CBOR item
is a record named for its type, and only `ChunkSize` and the request buffers of
`Groups` count real bytes, because their properties are about those counts.

## Runs

| run | question | bounds |
|---|---|---|
| `client_safety` | does every request complete once and with its own answer, whatever callbacks do | 3 requests, 2 slots, 2 sequence numbers, so that they wrap and run out, a retired ring of 1, so that it evicts, 2 links |
| `client_expiry` | is a request told `Timeout` only at its own deadline, also when a callback of the same `poll()` reuses a slot that had expired | 4 requests, which that takes, and 3 sequence numbers; one key, one link |
| `client_liveness` | does every request complete; does the client implement `RequestLifecycle` | 2 requests, 3 sequence numbers, one key, with fairness |
| `upload_safety` | is a completed upload stored, and is none stranded or told twice | 2 chunks, 2 attempts, budgets of 1, 2 messages each way |
| `upload_liveness` | does every upload end that does not go forward for ever | 3 chunks, a device that may ask for any offset at any time, budgets of 1, one attempt, with fairness |
| `update_safety` | is a completed update installed, asked for, its trials reported, a refused one without effect, and a package never half confirmed | one update; every scenario below; one drop, one unrequested reboot, send faults, cancel, destroy |
| `update_again` | do late answers of one update harm the next | two updates of one image |
| `update_ends` | does an update end when the device never does its part | a package, one drop, with fairness |
| `links` | do messages leave whole and in turn, do packets arrive in order, and is a closed link clean and silent | each adapter; 2 messages of 2 pieces, so that one waits behind the other, 2 packets on a serial port and 1 over BLE; `send()`, `close()`, detaching and a hang-up at any step, every failure of opening |
| `links_liveness` | does `close()` return, is a loss noticed, is a message settled and a packet heard | each adapter; 2 messages of 1 piece, 1 packet on a serial port and none over BLE, with fairness |
| `update_run` | is no reconnect forgotten, late or on the wrong link, is no work slept on, does the tool end, and does the device hold the image as asked when it reports success | 11 applications: the three tools, the three modes, a stop before confirming, a run called again, no approval hook; a device with the image in any state; 3 links, 3 calls, 2 updates, delays that would overflow at 7 ticks |
| `formats` | does each conversion keep to its limits, refuse what is malformed, and mean what was sent | the inputs of `MCFormats`, chosen around each limit; the messages, losses, cuts, answers, files and archives are enumerated from them |

The scenarios of `update_safety` are one image in three modes on five flash
contents an earlier process may have left; a package whose second image the
device applies or not, and commits or not; two images smply confirms, one perhaps
older than the one running; and every bootloader mode with what a plan permits:
overwriting, silent, unsupported, downgrade prevention, direct-XIP from either
slot.

The properties by run, each explained where it is defined:

| run | properties |
|---|---|
| `client_safety` | `TypeOK`, `ExactlyOnce`, `SeqsSound`, `AnswersAreOwn`, `HandlesInert`, `NoneOutlivesItsLink` |
| `client_expiry` | `TimeoutsDue` |
| `client_liveness` | `EveryRequestCompletes`, `ImplementsLifecycle` |
| `upload_safety` | `DoneOnce`, `NeverStranded`, `FirstPacketRule`, `StoredAsReported` |
| `upload_liveness` | `UploadEnds` |
| `update_safety` | `EndsTruly`, `RefusedUntouched`, `TrialReported`, `NoIllegalEvent`, `ConfirmsRightly` |
| `update_again` | `EndsTruly` |
| `update_ends` | `UpdateEnds` |
| `links` | `PacketsSound`, `MessagesWhole`, `ClosedIsClean`, `ClosedIsQuiet` |
| `links_liveness` | `LinkEnds`, `NothingStranded` |
| `update_run` | `ResumesRightly`, `SleepsOwingNothing`, `ReconnectsInTime`, `StubOutlivesItsUsers`, `ExitTellsTruth`, `ToolEnds` |
| `formats` | `EveryPacketFits`, `SerialSound`, `StreamSound`, `CallsSound`, `CoroutinesSound`, `ImageReadSound`, `PackageSound` |

Some hold within stated limits and not beyond, most of them because an
observation below breaks them there:

- `NoIllegalEvent`: one update, without repeated `confirm()`.
- `UploadEnds`: no device that asks for a later offset again and again. Repeats,
  rewinds and restarts without that are bounded.
- `AlreadyPresentTruthful`, of `StoredAsReported`: an image of more than one chunk.
- `NeverRefused`, of `ResumesRightly`: no update cancelled while its reconnect was
  owed.
- `ClosedIsSilent`, of `ClosedIsQuiet`: no BLE write that outlasts the grace of
  `close()`.
- `ErrorIsNeverSuccess`, of `CallsSound`: an answer with at most one `err`.
- `ReadersAgree`, of `ImageReadSound`: files whose entries fill their areas.

The bounds are small because the hazards need few actors: one request reusing
the number of another, one lost answer, one drop, one reboot, one message behind
another. Each budget of the code (retries, restarts, no-progress, retired
numbers, reconnect attempts, nesting, entries) is set so that it is exhausted
within the bound. Deadlock is not checked in the runs of systems that end, which
is all but the client's.

`formats` is one run because its parts share no state: a behaviour is one of
them at work while the others stay idle.

Each property of these runs is paired in `PROJECT.json` with a fault of the
code, written as an operator next to the definition it replaces (`\* Fault:`),
under which TLC finds the property violated. Many of the properties are
conjunctions of named definitions (`SerialSound`, `ClosedIsQuiet`); the modules
keep faults for the conjuncts too, and `PROJECT.json` pairs the conjunction with
one of them. `TypeOK` is in a run for the client only, where a theorem rests on
it; the other modules' hold under their runs' configurations and belong to none.

### Fairness

- `client_liveness`: the application keeps polling (`SF` on `Poll`, since other
  calls may occur in between), time passes (`SF` on `Tick`), and a loop of the
  library that has begun runs on (`WF`).
- `upload_liveness`: the client delivers what it has queued, and requests that
  are not answered time out. Nothing is assumed of the link or the device.
- `update_ends`: as before, and the application answers `ReconnectRequired`
  (resume or give up) and `ConfirmationRequired` (confirm or cancel). The updater
  has no deadline of its own in those two states, so without this an update may
  wait for ever by design. Nothing is assumed of the device.
- `links_liveness`: threads and the pool run, the application goes on draining
  the dispatcher, the system completes or cancels an operation it was given, and
  a port that is there takes bytes. Nobody has to send, close or hang up.
- `update_run`: the loop, the device's thread and the pseudo-terminal's reader
  run, and a wait ends when its time has come. That the device answers, or comes
  back, is not assumed. `ToolEnds` therefore discharges, for these applications,
  what `update_ends` assumes of one.

## Observations

Sentences of the documentation, or expectations of a reviewer, that the models
show the code not to keep. Each is a definition that TLC finds violated when it
is put in a configuration; none belongs to a run.

| property | configuration | what happens |
|---|---|---|
| `Upload!RewindsBounded` | `upload_liveness` | each advance resets `consecutive_no_progress` (`upload_session.cpp:289`), so a device alternating between two offsets is followed for ever; `limits.hpp:173` says "Bounds a server that rewinds or repeats forever." |
| `Update!RestartAnnounced` | `update_again` with `MaxRounds = 1`, no cancel, no drops, no reboots | a lost answer to the mark leaves a swap scheduled, and the report says nothing is pending (`update_state_machine.cpp:733`); `firmware_updater.hpp:308` says a caller "must be able to tell apart" the two |
| `Update!BuildFits` | the same with `Scenarios <- OtherSlot`, one drop, one reboot | a direct-XIP upload resumed after the device changed slots sends the build of the slot now running (`update_state_machine.cpp:550`); `firmware_updater.hpp:169` says "The updater sends the one for the slot the device is not running from" |
| `Update!NoIllegalEvent` | `update_again` | the answer to a command of a cancelled update is dispatched into the next one and ends it as `Internal` (`firmware_updater.cpp:562`), which `error.hpp:49` calls "A bug in smply." |
| `Update!NoIllegalEvent` | `update_safety` with `Repeats = TRUE` | a repeated `confirm()` ends the update as `Internal` |
| `Update!NoUploadLeft` | `update_safety` | `cancel()` just before the answer that starts the upload ends the update and leaves the upload running |
| `Update!RevertMeansTrial` | `update_safety` | `revert_pending` is reported although no trial runs; the comment of `cancel()` describes this, that of `revert_pending` does not |
| `Update!RunningIsHeard` | `update_again` with `RestartInCallback = TRUE` | `start()` from `UpdateFinished` loses its callback |
| `Update!BuildsCheckedFirst` | a plan whose second image has a build per slot, on a swapping device | the build per slot is rejected only after the first image was changed |
| `SmpClient!DestructorCompletesAll` | `client_safety` | a request made from a callback in the destructor is never completed |
| `SmpClient!RebindLeavesNoneBehind` | `client_safety` | a request made from a callback in `rebind_transport()` goes out on the old transport |
| `Upload!CancelAbandons` | `upload_safety` | `cancel()` from the progress callback is lost |
| `Upload!NoneDropped` | `upload_safety` | the completion of a failed start is dropped with its driver |
| `Upload!ProgressForward` | `upload_safety` | progress goes back after a device reboot |
| `Upload!AlreadyPresentTruthful` | `upload_safety`, `ImageSize = 1` | a one-chunk image just stored is reported as already present |
| `Groups!RepeatedErrorHeard` | `formats` | an answer whose `err` key occurs twice is heard as a success: `enter_map()` takes a repeated key for a missing one and clears the error (`reader.cpp:86`), and `mgmt_error.cpp:18` goes on; `cbor.hpp:130` says "a missing or non-map value returns a failed Result" and names no third case |
| `Links!BleKeepsWhole` | `links` | a BLE write that fails part-way without ending the link releases the writer's claim, and the next `send()` follows half a message (`winrt_ble_transport.cpp:336`); `transport.hpp` says the link is then still usable |

Met while modelling, and stated by no definition:

- After a timed-out run with a reconnect owed, an update cancelled and another
  started, the next run begins with an episode for the old one; the new update
  refuses to resume and the run ends `Internal`, although `update_run.cpp:209`
  says that the state always accepts it. `NeverRefused` names the exception.
- `StubDevice::run()` posts a disconnect before it forgets its link, so a link
  attached in between would be forgotten. The delay before `cli_dfu` reconnects
  hides it.
- `cli_dfu` destroys its links before it stops the device's thread;
  `TornDownInOrder` is about `serial_dfu`, whose order is right.
- A fatal BLE failure with no listener leaves the link open.
- A device error code wider than 16 bits is cut to them. It is still reported as
  an error, possibly with number 0 (`ErrorIsNeverSuccess`).
- The dependencies of a direct-XIP package's second build are not compared; those
  of the first are.
- A protected TLV that runs past its area is followed by `find_image_tlv_hash()`
  and ends the boot model's reading; a hash in the protected area is accepted by
  the client and not reported by the boot model.

## Proofs

Each theorem holds for every value of the constants that the named assumption of
its module allows. TLC evaluates those assumptions in the runs. The argument is
the same throughout: an inductive invariant, one lemma for `Init`, one for
`Next` with a case per action, and one step from it to the property.

| theorem | states | invariant, and why it is needed |
|---|---|---|
| `SmpClientProofs!TypeCorrect` | the state keeps its types; the ring never outgrows its capacity | itself |
| `SmpClientProofs!RetiredSetCorrect` | the flags and the ring of retired numbers agree | with `TypeOK`; carries that ring entries differ, without which evicting one could clear the flag of another copy |
| `SmpClientProofs!SeqsDistinct` | outstanding requests have different numbers, none retired | with `TypeOK` |
| `SmpClientProofs!SeqsAlwaysSound` | both of these | from both |
| `SmpClientProofs!CompletedExactlyOnce` | a request is in the table, in the queue or told, one of them and once | with `TypeOK`; carries that no two slots and no two queue entries hold one request, without which removing one would not end its presence |
| `ChunkSizeProofs!PacketsAlwaysFit` | every packet of an upload fits the device's buffer and the transport | `Sized`: the chunk is the one computed at the start and the offset is inside the image, so that a later packet's offset costs no more than the size field the first was sized for |
| `SerialFramingProofs!FramesAlwaysSound` | every frame fits the line, stays inside the message and moves on | `Framing`: the framer stands inside the message; the arithmetic is the lemma `EveryFrameSound` |
| `AssemblerProofs!AssemblerAlwaysBounded` | the assembler holds at most its limit and waits on no header it would refuse | `Holding`: what the buffer holds at each stage of `feed()`; between stages it is not yet known to be acceptable |
| `ImageTlvProofs!ScanAlwaysInside` | the scan reads inside the areas and the file | `Scanning`: the file is a file, and its header was checked against the limit before the layout is read |
| `ImageTlvProofs!ScanAlwaysAdvances` | a pass that goes on moves by a header or more | from `Scanning` |

The theorems about the formats are about the component's own specification
(`ChunkSpec`, `SerialSpec`, `AssemblerSpec`, `TlvSpec`), with inputs left open;
the run checks the same definitions in `Formats`, as conjuncts of `SerialSound`,
`StreamSound` and `ImageReadSound`. `ScanAdvances` is proved only.

Only model-checked: the other client properties, the refinement of
`RequestLifecycle`, and everything about uploads, updates, links, tools, CBOR,
coroutines and packages. Liveness is outside the proof system's reach, and so is
what a recursive definition computes for every input: `Cbor`, `Groups` and
`ImageFile` use recursion and hold no theorem.

## Not modelled, and limits

- Arithmetic on bytes: CRC-16 and CRC-32 (a damaged packet or entry always fails
  its check), SHA-256, base64's alphabet, and QCBOR's reading of bytes.
- Grammars: JSON (`json.cpp`), mini CBOR, and command-line arguments.
- Files: opening, reading and their errors; a source that fails to read is in
  `ImageTlv` and `Upload`. In `Package` a file's TLVs are well formed or not;
  `ImageTlv` has the scan.
- An explicit `chunk_size` option, which skips `compute_chunk_size()`.
- `future.hpp` (a `std::promise`), `expected.hpp`, text and version formatting,
  serial port settings, the BLE scanner, and the demo images and packages.
- The stub device's flash and its echo; of its image only whether it is absent,
  stored, on trial or kept.
- A serial message above `kMaxSerialPacket`, which the framer would refuse: a port
  whose configuration allows one is not opened (`serial_port_config.cpp:41`).
- Coroutines that start a child and await it later: in `Async` a parent awaits its
  child at once.
- Coroutines destroyed from inside the operation they started.
- A command the device carries out after the client gave up on it: in `Update`
  a timeout forgets a command the device has not begun.
- `reconnect_failed()` and `resume_after_reconnect()` outside `AwaitingReconnect`
  or repeated; the destructor called from a callback; `rebind_transport()` called
  from a message's callback.
- Commands an application sends beside an update, and a second client.
- `erase()`, the hashless confirm, and the `bootable` and `permanent` flags of
  the boot model; no decision of the updater depends on them.
- Hazards no property of a run covers, for the reasons `PROJECT.json` gives: a
  callback that always defers again (`client.cpp:415`), an update started from
  the callback that ends one (`firmware_updater.cpp:530`), and the two that the
  observations on `BuildFits` and `BleKeepsWhole` show.
