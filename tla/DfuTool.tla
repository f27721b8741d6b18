----------------------------- MODULE DfuTool -----------------------------
(***************************************************************************)
(* The tools that run an update: examples/cli_dfu over the loopback link,  *)
(* examples/serial_dfu over the stub's UART or CDC port,                   *)
(* examples/winrt_ble_dfu over a radio, and an application that calls      *)
(* run() again after a timeout or a stop and updates twice.  Composes the  *)
(* update run with the device's threads, and checks the two together.      *)
(***************************************************************************)
EXTENDS StubDevice

CONSTANTS
  Tools,       \* the applications
  MaxLinks,    \* bound: links opened
  MaxCalls,    \* bound: calls of run() by an application of its own
  MaxUpdates   \* bound: updates it starts

ASSUME ToolBounds == {MaxLinks, MaxCalls, MaxUpdates} \subseteq Nat \ {0}

FreshUp == [state |-> "Idle", req |-> NoReq, due |-> FALSE, staged |-> FALSE,
            approved |-> FALSE, reread |-> FALSE, posts |-> <<>>]

Init ==
  /\ tool \in Tools
  /\ run = [pc |-> "main", running |-> FALSE, reconnect |-> FALSE, confirm |-> FALSE,
            finished |-> "none", internal |-> FALSE, left |-> Off, gaveUp |-> FALSE,
            policy |-> NewPolicy(tool.first, tool.ceiling, tool.max),
            inbox |-> <<>>, end |-> "none", result |-> "none"]
  /\ up = FreshUp
  /\ client = [bound |-> 1, connected |-> TRUE]
  /\ links = <<[open |-> TRUE, listener |-> TRUE, gen |-> 1]>>
  /\ disp = [queue |-> <<>>, batch |-> <<>>]
  /\ signal = [woken |-> FALSE, waking |-> 0]
  \* The stub runs the image named or another one; a device of its own may have
  \* been left half-way by an earlier process.
  /\ \E image \in IF tool.shape = "radio" THEN {"none", "stored", "trial", "kept"}
                  ELSE {"none", "kept"} : device = FreshDevice(1, image)
  /\ pty = FreshPty
  /\ hist = [waits |-> <<>>, resetOn |-> 0, calls |-> 0, updates |-> 0, cancelled |-> FALSE,
             code |-> "none"]
-----------------------------------------------------------------------------
(* Calling the run *)

App == tool.kind = "app"
Entering(r) == [r EXCEPT !.pc = "poll", !.left = tool.overall, !.gaveUp = FALSE]
Called == [hist EXCEPT !.calls = IF App THEN @ + 1 ELSE @]

\* run(targets, plan): start(), which may refuse, and the loop.
RunUpdate ==
  /\ run.pc = "main"
  /\ tool.kind # "confirm"
  /\ hist.updates < MaxUpdates /\ hist.calls < MaxCalls
  /\ \/ run' = Returned(run, "Refused") /\ UNCHANGED <<up, hist>>
     \/ /\ run' = Entering([run EXCEPT !.running = TRUE])
        /\ up' = Post(FreshUp, "start")
        /\ hist' = [Called EXCEPT !.updates = @ + 1, !.resetOn = 0]
  /\ UNCHANGED <<tool, client, links, disp, signal, device, pty>>

\* winrt_ble_dfu --mode confirm-only: one request, naming no image, and a pump
\* of its own.
ConfirmOnly ==
  /\ run.pc = "main"
  /\ tool.kind = "confirm"
  /\ Take(Asks(up, "ConfirmOnly", "confirmRunning"), Entering(run))
  /\ UNCHANGED <<tool, client, links, disp, signal>>

\* run(): carries on what a stop or a timeout left running.  After a stop the
\* application has approved or cancelled the update itself.
CarryOn ==
  /\ App
  /\ run.pc = "returned"
  /\ run.end \in {"TimedOut", "StoppedBeforeConfirm"}
  /\ hist.calls < MaxCalls
  /\ run' = Entering(run)
  /\ hist' \in {Called, [Called EXCEPT !.cancelled = TRUE]}
  /\ up' = IF hist'.cancelled /\ ~hist.cancelled THEN Post(up, "cancel")
           ELSE IF up.state = "AwaitingConfirmation" THEN Post(up, "confirm") ELSE up
  /\ UNCHANGED <<tool, client, links, disp, signal, device, pty>>

Again ==
  /\ App
  /\ run.pc = "returned"
  /\ run.end = "Finished"
  /\ hist.updates < MaxUpdates /\ hist.calls < MaxCalls
  /\ run' = [run EXCEPT !.pc = "main", !.end = "none", !.result = "none"]
  /\ UNCHANGED <<tool, up, client, links, disp, signal, device, pty, hist>>
-----------------------------------------------------------------------------
(* The open-a-link hooks *)

NewLink(ls, gen) == Append(ls, [open |-> TRUE, listener |-> FALSE, gen |-> gen])
Retry == run' = [run EXCEPT !.pc = "episode"]
RoomForLink == Len(links) < MaxLinks

\* cli_dfu: a new loopback link, attached; or one of the refusals asked for.
OpenLoopback ==
  /\ run.pc = "open"
  /\ tool.shape = "loop"
  /\ \/ /\ RoomForLink
        /\ Rebind(Len(links) + 1, NewLink(links, 0))
        /\ device' = [device EXCEPT !.attached = Len(links) + 1]
     \/ Retry /\ UNCHANGED <<up, client, links, device>>
  /\ UNCHANGED <<tool, disp, signal, pty, hist>>

\* winrt_ble_dfu: a device that is booting cannot be connected to.
Connect ==
  /\ run.pc = "open"
  /\ tool.shape = "radio"
  /\ \/ /\ RoomForLink
        /\ device.pc = "wait"
        /\ Rebind(Len(links) + 1, NewLink(links, 0))
        /\ device' = [device EXCEPT !.attached = Len(links) + 1]
     \/ Retry /\ UNCHANGED <<up, client, links, device>>
  /\ UNCHANGED <<tool, disp, signal, pty, hist>>

\* serial_dfu: the old port is closed once per episode.  A path that is not
\* there is tried again; a port that refuses ends the episode.
Reopen ==
  /\ run.pc = "open"
  /\ Serial
  /\ \E held \in {IF run.policy.attempts = 1
                  THEN [links EXCEPT ![Len(links)].open = FALSE, ![Len(links)].listener = FALSE]
                  ELSE links} :
       \/ /\ RoomForLink
          /\ pty.published # 0
          /\ Rebind(Len(links) + 1, NewLink(held, pty.published))
       \/ /\ pty.published = 0
          /\ Retry
          /\ links' = held
          /\ UNCHANGED <<up, client>>
       \/ GaveUp /\ links' = held /\ UNCHANGED client
  /\ UNCHANGED <<tool, disp, signal, device, pty, hist>>
-----------------------------------------------------------------------------
(* The end of main() *)

\* The tools' exit codes; only winrt_ble_dfu names a lost device.
ExitCode(r) ==
  CASE r.end = "Finished" /\ r.result = "completed" -> "ok"
    [] r.end = "Finished" /\ r.result # "completed" ->
         IF tool.kind = "winrt" /\ r.gaveUp THEN "reconnect" ELSE "failed"
    [] r.end = "StoppedBeforeConfirm" -> IF tool.kind = "winrt" THEN "ok" ELSE "failed"
    [] OTHER -> "failed"

\* main() returns: the client and the links go first.
Return ==
  /\ run.pc = "returned"
  /\ run' = [run EXCEPT !.pc = "stopPty"]
  /\ hist' = [hist EXCEPT !.code = ExitCode(run)]
  /\ up' = [up EXCEPT !.posts = <<>>, !.req = NoReq]
  /\ links' = [n \in DOMAIN links |-> [links[n] EXCEPT !.open = FALSE, !.listener = FALSE]]
  /\ pty' = [pty EXCEPT !.stop = TRUE, !.woken = TRUE]
  /\ UNCHANGED <<tool, client, disp, signal, device>>

\* Fault: the device is stopped without waiting for the reader.
StopDeviceFirst ==
  /\ run.pc = "stopPty"
  /\ run' = [run EXCEPT !.pc = "stopDevice"]
  /\ device' = [device EXCEPT !.stop = TRUE]
  /\ UNCHANGED <<tool, up, client, links, disp, signal, pty, hist>>

\* PtyStub::stop() has joined the reader; StubDevice::stop() begins.
StopDevice ==
  /\ run.pc = "stopPty"
  /\ Serial => pty.pc = "done"
  /\ run' = [run EXCEPT !.pc = "stopDevice"]
  /\ device' = [device EXCEPT !.stop = TRUE]
  /\ UNCHANGED <<tool, up, client, links, disp, signal, pty, hist>>

\* The device thread is joined, and what is left is destroyed.
Gone ==
  /\ run.pc = "stopDevice"
  /\ device.pc = "done"
  /\ run' = [run EXCEPT !.pc = "gone"]
  /\ UNCHANGED <<tool, up, client, links, disp, signal, device, pty, hist>>

Main ==
  \/ RunUpdate \/ ConfirmOnly \/ OpenLoopback \/ Connect \/ Reopen \/ Return \/ StopDevice \/ Gone

Next == Loop \/ Timers \/ Main \/ CarryOn \/ Again \/ DeviceThread \/ Reader \/ Wake \/ RadioDrops

Spec == Init /\ [][Next]_vars

\* Every thread runs on; the timers of a wait that nothing signals run out.
Fairness ==
  /\ WF_vars(Loop) /\ WF_vars(Main) /\ WF_vars(WaitDue) /\ WF_vars(WaitOverall)
  /\ WF_vars(DeviceThread) /\ WF_vars(Reader) /\ WF_vars(Wake)

FairSpec == Spec /\ Fairness
-----------------------------------------------------------------------------
Pcs == {"main", "poll", "decide", "approve", "episode", "open", "wait", "take", "drain",
        "returned", "stopPty", "stopDevice", "gone"}

\* The run, its policy and its client stay within their types: an episode
\* never makes more attempts than the settings allow, and the client is bound
\* to a link that exists.
TypeOK ==
  /\ tool \in Tools
  /\ run.pc \in Pcs
  /\ run.left \in {Off} \cup 0..tool.overall
  /\ run.policy.attempts \in 0..tool.max
  /\ client.bound \in DOMAIN links
  /\ up.state \in {"Idle", "Asking", "Resetting", "AwaitingDisconnect", "AwaitingReconnect",
                   "Verifying", "AwaitingConfirmation", "Confirming", "ConfirmOnly", "Ended"}
  /\ up.req = NoReq \/ up.req.link \in 0..Len(links)
  /\ device.attached \in 0..Len(links)
  /\ device.image \in {"none", "stored", "trial", "kept"}

\* confirm() and resume_after_reconnect() are called only in the state that
\* accepts them (update_run.cpp's "still waiting for exactly this"), unless the
\* application cancelled an update whose reconnect was owed.
NeverRefused == run.internal => hist.cancelled

\* The run never sleeps while the update waits for the application: nothing
\* would wake it, as the updater has no deadline in those states.
NeverSleepsOwing ==
  run.pc = "wait" => up.state \notin {"AwaitingReconnect", "AwaitingConfirmation"}

\* No link is opened once the overall deadline has passed: a delay that would
\* reach it ends the episode there.
NoLinkAfterDeadline == run.pc = "open" => run.left # 0

\* The delays of an episode double from the first one, stop at the ceiling and
\* never wrap round, whatever the width of the counter.
PatientDelays ==
  \A i \in DOMAIN hist.waits :
    LET doubled == tool.first * 2^(i - 1) IN
    hist.waits[i] = IF doubled < tool.ceiling THEN doubled ELSE tool.ceiling

\* An episode keeps to its times: the delays between its attempts and the
\* deadline over all of them (reconnect(), delay_for()).
ReconnectsInTime == NoLinkAfterDeadline /\ PatientDelays

\* After the reset, the update is continued only over a link opened since.
SendsOnFreshLink ==
  up.state \in {"Verifying", "AwaitingConfirmation", "Confirming"} => client.bound > hist.resetOn

\* An update is resumed in the state that waits for it, and over the link that
\* was opened for it (reconnect()).
ResumesRightly == NeverRefused /\ SendsOnFreshLink

\* What a thread has posted and signalled is never slept on: the client context
\* waits with work queued only while the signal is up or on its way.
NoSleepOnWork ==
  run.pc = "wait" /\ disp.queue # <<>> => signal.woken \/ signal.waking > 0

\* The loop waits only when there is nothing for it to do (run(), next_wake(),
\* DispatcherWait).
SleepsOwingNothing == NeverSleepsOwing /\ NoSleepOnWork

\* The reader never polls a pseudo-terminal that was closed under it: only the
\* reader itself closes the one a reset retires.
ReaderOwnsPort == pty.pc = "poll" => pty.held \notin pty.closed

\* The path an application opens never names a port that has gone.
PathIsLive == pty.published \notin pty.closed

\* Both of the stub's threads have ended when the first of the two objects is
\* destroyed (serial_dfu's StubRig).
TornDownInOrder == run.pc = "gone" => device.pc = "done" /\ (Serial => pty.pc = "done")

\* Nobody uses a port or an object of the stub that has gone: not its reader,
\* not the tool that reconnects, not its threads as it is destroyed
\* (device_resetting(), read_loop(), ~StubRig()).
StubOutlivesItsUsers == ReaderOwnsPort /\ PathIsLive /\ TornDownInOrder

\* A tool that exits with success (the return of each main()) leaves the device
\* as its mode promises, whatever was lost, refused or reverted on the way: the
\* image is stored after upload-only, on trial after test-only, and running and
\* confirmed otherwise; after confirm-only nothing is left on trial.
ExitTellsTruth ==
  hist.code = "ok" =>
    device.image \in CASE tool.kind = "confirm" -> {"none", "stored", "kept"}
                       [] tool.mode = "upload" -> {"stored", "trial", "kept"}
                       [] run.end = "StoppedBeforeConfirm" -> {"trial"}
                       [] OTHER -> {"kept"}

\* Every tool comes to its end: no update, reconnect or shutdown waits for ever.
ToolEnds == <>(run.pc = "gone")
=============================================================================
