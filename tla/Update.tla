------------------------------- MODULE Update -------------------------------
(***************************************************************************)
(* An update end to end: FirmwareUpdater carrying out the machine's steps  *)
(* (UpdateMachine), the client's contract towards the one command an       *)
(* update has outstanding, a link that loses messages and drops, the       *)
(* device (BootModel) with resets of its own, and the application.         *)
(*                                                                         *)
(* An upload is one command here: Upload.tla shows that it completes once  *)
(* and that completed means stored.                                        *)
(***************************************************************************)
EXTENDS UpdateMachine

CONSTANTS
  Scenarios,   \* [plan, device, content]: what may be run against what
  MaxRounds,   \* bound: updates started one after the other
  MaxDrops,    \* bound: link drops
  MaxReboots,  \* bound: reboots nobody asked for
  SendFaults,  \* the transport may refuse to send
  MayCancel,   \* the application may cancel, or destroy the updater
  Repeats,     \* the application may repeat confirm() before the next poll()
  RestartInCallback  \* the application may call start() from UpdateFinished

ASSUME UpdateAssumption ==
  /\ MaxRounds \in Nat \ {0} /\ MaxDrops \in Nat /\ MaxReboots \in Nat
  /\ {SendFaults, MayCancel, Repeats, RestartInCallback} \subseteq BOOLEAN

VARIABLES
  p, g,        \* the plan of every update, and the device's configuration
  dev,         \* the device
  resetting,   \* it accepted a reset it has not carried out yet
  m,           \* machine_
  running, subscribed,  \* running_, and whether on_event_ is set
  finishing,   \* UpdateFinished is being delivered
  alive,       \* the updater exists
  round,       \* updates started so far
  cmd,         \* per update, the command the client still waits for
  queue,       \* the client's deferred completions and posts, as events
  link,        \* connected_
  drops, reboots,
  told,        \* per update, how often UpdateFinished was delivered
  changed,     \* this update sent a command that changes the device
  reset,       \* this update sent a reset
  approved     \* the application approved this update's image

vars == <<p, g, dev, resetting, m, running, subscribed, finishing, alive, round,
          cmd, queue, link, drops, reboots, told, changed, reset, approved>>
device == <<dev, resetting, reboots>>
fixed == <<p, g>>

Rounds == 1 .. MaxRounds
NoCommand == [kind |-> "None"]
Outstanding == {r \in Rounds : cmd[r] # NoCommand}

Init ==
  /\ \E sc \in Scenarios : p = sc.plan /\ g = sc.device /\ dev = sc.content
  /\ resetting = FALSE /\ m = NewMachine(p)
  /\ running = FALSE /\ subscribed = FALSE /\ finishing = FALSE /\ alive = TRUE
  /\ round = 0 /\ cmd = [r \in Rounds |-> NoCommand] /\ queue = <<>>
  /\ link = TRUE /\ drops = 0 /\ reboots = 0
  /\ told = [r \in Rounds |-> 0]
  /\ changed = FALSE /\ reset = FALSE /\ approved = FALSE
-----------------------------------------------------------------------------
(* FirmwareUpdater: carrying out a step *)

CommandOf(effect) ==
  CASE effect = "QueryParameters" -> "Parameters"
    [] effect = "QueryBootloader" -> "Bootloader"
    [] effect = "ReadState" -> "Read"
    [] effect \in {"StartUpload", "ResumeUpload"} -> "Upload"
    [] effect = "MarkForTest" -> "Mark"
    [] effect = "Confirm" -> "Confirm"
    [] effect \in {"Reset", "ForceReset"} -> effect
    [] OTHER -> "None"

Changes == {"Upload", "Mark", "Confirm", "Reset", "ForceReset"}

\* Fault: any dropped link is taken to have suspended an upload.
SuspendedByCode(kind, error) ==
  CASE kind = "Parameters" -> Plain("ParametersUnavailable")
    [] kind # "Parameters" /\ error = "Disconnected" -> Plain("UploadSuspended")
    [] OTHER -> Failed(error)

\* What the callback of a command makes of an error.  A dropped link suspends
\* an upload: ImageManagement::resumable().
OnError(kind, error) ==
  CASE kind = "Parameters" -> Plain("ParametersUnavailable")
    [] kind = "Upload" /\ error = "Disconnected" -> Plain("UploadSuspended")
    [] OTHER -> Failed(error)

\* The request of step c: sent, refused by the transport, made while down, or
\* an upload refused because an earlier one still runs.
Issue(c, q, cs) ==
  LET kind == CommandOf(c.effect)
      busy == kind = "Upload" /\ \E r \in Rounds : cs[r].kind = "Upload"
      sent == [kind |-> kind, stage |-> "Sent", answer |-> Plain("None"),
               image |-> ImageOf(p, IF c.current \in Targets(p) THEN c.current ELSE 1),
               hash |-> c.hash[IF c.current \in Targets(p) THEN c.current ELSE 1]]
  IN /\ \/ link /\ ~busy /\ cmd' = [cs EXCEPT ![round] = sent] /\ queue' = q
        \/ link /\ ~busy /\ SendFaults
           /\ queue' = Append(q, OnError(kind, "SendFailed")) /\ cmd' = cs
        \/ ~link /\ ~busy /\ queue' = Append(q, OnError(kind, "Disconnected")) /\ cmd' = cs
        \/ busy /\ queue' = Append(q, Failed("InvalidState")) /\ cmd' = cs
     /\ changed' = (changed \/ kind \in Changes)
     /\ reset' = (reset \/ kind \in {"Reset", "ForceReset"})

\* finish(), up to the UpdateFinished it emits.
Finish ==
  /\ running' = FALSE
  /\ finishing' = TRUE
  /\ told' = [told EXCEPT ![round] = IF subscribed THEN @ + 1 ELSE @]

\* apply(): carry out the step c.  q and cs are the queue and the commands
\* without what led here.
CarryOut(c, q, cs) ==
  /\ m' = c
  /\ IF c.effect = "Finish" THEN Finish ELSE UNCHANGED <<running, finishing, told>>
  /\ IF CommandOf(c.effect) # "None" THEN Issue(c, q, cs)
     ELSE queue' = q /\ cmd' = cs /\ UNCHANGED <<changed, reset>>
  /\ UNCHANGED subscribed

\* dispatch(): hand ev to the machine and carry out the step.
Dispatch(ev, q, cs) ==
  IF running /\ alive THEN \E c \in {Apply(p, m, ev)} : CarryOut(c, q, cs)
  ELSE /\ queue' = q /\ cmd' = cs
       /\ UNCHANGED <<m, running, subscribed, finishing, told, changed, reset>>

\* Nothing of the library is on the stack.
Free == m.effect # "Continue" /\ ~finishing /\ (link \/ Outstanding = {})

Without(r) == [cmd EXCEPT ![r] = NoCommand]

\* The loop of dispatch(): a decision that needed no I/O goes on at once.
Continue ==
  /\ m.effect = "Continue" /\ running
  /\ Dispatch(Plain("Continue"), queue, cmd)
  /\ UNCHANGED <<fixed, device, alive, round, link, drops, approved>>

\* The rest of finish(), after the application's callback returned.
FinishReturns ==
  /\ finishing
  /\ finishing' = FALSE /\ subscribed' = FALSE
  /\ UNCHANGED <<fixed, device, m, running, alive, round, cmd, queue, link, drops,
                 told, changed, reset, approved>>
-----------------------------------------------------------------------------
(* FirmwareUpdater: calls of the application *)

Start ==
  /\ alive /\ ~running /\ round < MaxRounds
  /\ finishing => RestartInCallback
  /\ round' = round + 1
  /\ m' = NewMachine(p) /\ running' = TRUE /\ subscribed' = TRUE
  /\ queue' = Append(queue, Plain("Start"))
  /\ changed' = FALSE /\ reset' = FALSE /\ approved' = FALSE
  /\ UNCHANGED <<fixed, device, finishing, alive, cmd, link, drops, told>>

Post(event) ==
  /\ queue' = Append(queue, event)
  /\ UNCHANGED <<fixed, device, m, running, subscribed, finishing, alive, round, drops,
                 told, changed, reset>>

Queued(kind) == \E i \in DOMAIN queue : queue[i].kind = kind
\* A call that was accepted is repeated at most once, and only with Repeats.
MayCall(kind) ==
  Cardinality({i \in DOMAIN queue : queue[i].kind = kind}) <= IF Repeats THEN 1 ELSE 0

ConfirmUpdate ==
  /\ alive /\ running /\ m.state = "AwaitingConfirmation" /\ MayCall("ConfirmApproved")
  /\ approved' = TRUE
  /\ Post(Plain("ConfirmApproved"))
  /\ UNCHANGED <<cmd, link>>

\* The application answers ReconnectRequired: rebind_transport(), then
\* resume_after_reconnect().
ResumeAfterReconnect ==
  /\ alive /\ running /\ m.state = "AwaitingReconnect" /\ Free
  /\ ~Queued("Reconnected") /\ ~Queued("ReconnectFailed")
  /\ link' = TRUE
  /\ Post(Plain("Reconnected"))
  /\ UNCHANGED <<cmd, approved>>

ReconnectFailed ==
  /\ alive /\ running /\ m.state = "AwaitingReconnect"
  /\ ~Queued("Reconnected") /\ ~Queued("ReconnectFailed")
  /\ Post(Plain("ReconnectFailed"))
  /\ UNCHANGED <<cmd, link, approved>>

Uploads(r) == r \in Rounds /\ cmd[r].kind = "Upload"

\* cancel(): a running upload's own completion is queued first.
Cancel ==
  /\ MayCancel /\ alive /\ running /\ ~Queued("Cancel")
  /\ IF Uploads(round)
       THEN /\ cmd' = Without(round)
            /\ queue' = queue \o <<Failed("Cancelled"), Plain("Cancel")>>
       ELSE /\ queue' = Append(queue, Plain("Cancel")) /\ UNCHANGED cmd
  /\ UNCHANGED <<fixed, device, m, running, subscribed, finishing, alive, round, link,
                 drops, told, changed, reset, approved>>

\* Fault: the destructor drops a running update.
DestroyQuietly ==
  /\ MayCancel /\ alive /\ Free
  /\ alive' = FALSE /\ running' = FALSE /\ subscribed' = FALSE
  /\ UNCHANGED <<fixed, device, m, finishing, round, cmd, queue, link, drops, told,
                 changed, reset, approved>>

\* ~FirmwareUpdater(): abandon() dispatches the cancel inline.
Destroy ==
  /\ MayCancel /\ alive /\ Free
  /\ alive' = FALSE
  /\ IF running
       THEN /\ m' = Apply(p, m, Plain("Cancel"))
            /\ running' = FALSE
            /\ told' = [told EXCEPT ![round] = IF subscribed THEN @ + 1 ELSE @]
            /\ cmd' = IF Uploads(round) THEN Without(round) ELSE cmd
       ELSE UNCHANGED <<m, running, told, cmd>>
  /\ subscribed' = FALSE
  /\ UNCHANGED <<fixed, device, finishing, round, queue, link, drops, changed, reset,
                 approved>>
-----------------------------------------------------------------------------
(* The client and the updater driven by poll(), and the link *)

RunQueued ==
  /\ Free /\ queue # <<>>
  /\ Dispatch(Head(queue), Tail(queue), cmd)
  /\ UNCHANGED <<fixed, device, alive, round, link, drops, approved>>

\* poll() of the updater, one poll period later.
Poll ==
  /\ Free /\ alive /\ running
  /\ LET c == Elapse(m)
         dropped == m.state = "AwaitingDisconnect" /\ ~link
     IN \/ dropped /\ Dispatch(Plain("Disconnected"), queue, cmd)
        \/ /\ ~dropped /\ NextDeadline(m) # Off
           /\ \E d \in {IF NextDeadline(c) = 0 THEN Apply(p, c, Plain("Tick")) ELSE Stay(c)} :
                CarryOut(d, queue, cmd)
  /\ UNCHANGED <<fixed, device, alive, round, link, drops, approved>>

\* A request or its answer was lost, and the client gives up on it.
Timeout(r) ==
  /\ Free /\ r \in Outstanding
  /\ Dispatch(OnError(cmd[r].kind, "Timeout"), queue, Without(r))
  /\ UNCHANGED <<fixed, device, alive, round, link, drops, approved>>

Receive(r) ==
  /\ Free /\ link /\ r \in Outstanding /\ cmd[r].stage = "Done"
  /\ Dispatch(cmd[r].answer, queue, Without(r))
  /\ UNCHANGED <<fixed, device, alive, round, link, drops, approved>>

Disconnect ==
  /\ Free /\ link /\ drops < MaxDrops
  /\ link' = FALSE /\ drops' = drops + 1
  /\ UNCHANGED <<fixed, device, m, running, subscribed, finishing, alive, round, cmd,
                 queue, told, changed, reset, approved>>

\* on_disconnected(): what is outstanding fails at once.
FailOutstanding(r) ==
  /\ ~link /\ m.effect # "Continue" /\ ~finishing /\ r = Min(Outstanding \cup {MaxRounds})
  /\ r \in Outstanding
  /\ Dispatch(OnError(cmd[r].kind, "Disconnected"), queue, Without(r))
  /\ UNCHANGED <<fixed, device, alive, round, link, drops, approved>>

\* The application's transport comes back by itself: rebind_transport().
Rebind ==
  /\ Free /\ ~link
  /\ link' = TRUE
  /\ UNCHANGED <<fixed, device, m, running, subscribed, finishing, alive, round, cmd,
                 queue, drops, told, changed, reset, approved>>
-----------------------------------------------------------------------------
(* The device *)

Respond(r, event) ==
  cmd' = [cmd EXCEPT ![r].stage = "Done", ![r].answer = event]

\* A set-state command: the refreshed table, or the refusal.
SetStateAnswer(r, kind, confirm) ==
  LET s == SetState(g, dev, cmd[r].hash, confirm) IN
  /\ dev' = s.d
  /\ Respond(r, IF s.rc = "Ok" THEN WithTable(kind, Listing(g, s.d)) ELSE Failed(s.rc))
  /\ UNCHANGED resetting

Execute(r) ==
  /\ link /\ r \in Outstanding /\ cmd[r].stage = "Sent"
  /\ \/ /\ cmd[r].kind = "Parameters"
        /\ Respond(r, Plain("ParametersRead")) /\ UNCHANGED <<dev, resetting>>
     \/ /\ cmd[r].kind = "Bootloader"
        /\ Respond(r, IF g.answersMode
                        THEN [kind |-> "BootloaderRead", mode |-> g.mode,
                              noDowngrade |-> g.noDowngrade]
                        ELSE Failed("Refused"))
        /\ UNCHANGED <<dev, resetting>>
     \/ /\ cmd[r].kind = "Read"
        /\ dev' = AdvanceApplies(g, dev)
        /\ Respond(r, WithTable("StateRead", Listing(g, dev')))
        /\ UNCHANGED resetting
     \/ cmd[r].kind = "Mark" /\ SetStateAnswer(r, "MarkedForTest", FALSE)
     \/ cmd[r].kind = "Confirm" /\ SetStateAnswer(r, "Confirmed", TRUE)
     \/ /\ cmd[r].kind \in {"Reset", "ForceReset"}
        /\ resetting' = TRUE
        /\ Respond(r, Plain("ResetAccepted")) /\ UNCHANGED dev
     \/ /\ cmd[r].kind = "Reset" /\ g.busyOnReset
        /\ Respond(r, Failed("Busy")) /\ UNCHANGED <<dev, resetting>>
  /\ UNCHANGED <<fixed, reboots, m, running, subscribed, finishing, alive, round, queue,
                 link, drops, told, changed, reset, approved>>

\* An upload: found in the slot, begun with the erase, or stored whole.
StoreUpload(r) ==
  LET image == cmd[r].image
      slot == UploadSlot(g, dev, image)
      held == dev.slots[image][slot] = cmd[r].hash
      done(present) == Respond(r, [kind |-> "UploadFinished", present |-> present])
  IN /\ link /\ r \in Outstanding /\ cmd[r].kind = "Upload"
     /\ \/ cmd[r].stage = "Sent" /\ held /\ done(TRUE) /\ UNCHANGED dev
        \/ /\ cmd[r].stage = "Sent" /\ ~held
           /\ dev' = Write(g, dev, image, None)
           /\ cmd' = [cmd EXCEPT ![r].stage = "Begun"]
        \/ /\ cmd[r].stage = "Begun"
           /\ dev' = Write(g, dev, image, cmd[r].hash)
           /\ done(FALSE)
     /\ UNCHANGED <<fixed, resetting, reboots, m, running, subscribed, finishing, alive,
                    round, queue, link, drops, told, changed, reset, approved>>

\* The device reboots: it was asked to, or its power or watchdog did it.  An
\* upload session ends with it, and the client starts over.
Reboots ==
  /\ \/ resetting /\ UNCHANGED reboots
     \/ ~resetting /\ reboots < MaxReboots /\ reboots' = reboots + 1
  /\ dev' = Reboot(g, dev) /\ resetting' = FALSE
  /\ cmd' = [r \in Rounds |-> IF cmd[r] # NoCommand /\ cmd[r].stage = "Begun"
                              THEN [cmd[r] EXCEPT !.stage = "Sent"] ELSE cmd[r]]
  /\ UNCHANGED <<fixed, m, running, subscribed, finishing, alive, round, queue, link,
                 drops, told, changed, reset, approved>>
-----------------------------------------------------------------------------
Next ==
  \/ Continue \/ FinishReturns
  \/ Start \/ ConfirmUpdate \/ ResumeAfterReconnect \/ ReconnectFailed \/ Cancel \/ Destroy
  \/ RunQueued \/ Poll \/ Disconnect \/ Rebind
  \/ \E r \in Rounds : Timeout(r) \/ Receive(r) \/ FailOutstanding(r)
  \/ \E r \in Rounds : Execute(r) \/ StoreUpload(r)
  \/ Reboots

Spec == Init /\ [][Next]_vars

\* The application's answer to ConfirmationRequired.
Answers == ConfirmUpdate \/ (m.state = "AwaitingConfirmation" /\ Cancel)

\* The application polls client and updater, answers ReconnectRequired and
\* ConfirmationRequired one way or another, and requests time out.
FairSpec ==
  /\ Spec
  /\ WF_vars(Continue) /\ WF_vars(FinishReturns) /\ WF_vars(RunQueued) /\ WF_vars(Poll)
  /\ \A r \in Rounds : WF_vars(Timeout(r)) /\ WF_vars(FailOutstanding(r))
  /\ WF_vars(ResumeAfterReconnect \/ ReconnectFailed)
  /\ WF_vars(Answers)
-----------------------------------------------------------------------------
(* Properties *)

States ==
  {"Idle", "QueryingParameters", "QueryingBootloader", "InspectingImages", "Planning",
   "Uploading", "VerifyingUpload", "MarkingForTest", "Resetting", "AwaitingDisconnect",
   "AwaitingReconnect", "VerifyingBooted", "AwaitingDeviceApply", "AwaitingConfirmation",
   "Confirming", "VerifyingConfirmed", "AwaitingDeviceCommit"} \cup Terminal

Runs(d, i) == IF DirectXip(g) /\ i = 0 THEN d.slots[0][d.active] ELSE d.slots[i][0]
Trial(d, i) == IF DirectXip(g) /\ i = 0 THEN d.trial ELSE d.swap[i] = "Revert"
RunsTarget(d, n) == Runs(d, ImageOf(p, n)) = m.hash[n]
OnTrialNow(d, n) == RunsTarget(d, n) /\ Trial(d, ImageOf(p, n))
Ended == m.state \in Terminal

\* The machine is in one of its states, works on one of its targets or is past
\* the last, and keeps a deadline only where tick() looks for it.
TypeOK ==
  /\ m.state \in States /\ m.current \in 1 .. Len(p.targets) + 1
  /\ dev.slots \in [Images -> [{0, 1} -> Contents]]
  /\ m.inTrial \cup m.applied \cup m.committed \cup m.rolledBack \subseteq Targets(p)
  /\ m.grace # Off => m.state = "AwaitingDisconnect"
  /\ m.applyPoll # Off => m.state \in {"AwaitingDeviceApply", "AwaitingDeviceCommit"}

\* An update that ends Completed left the device running every image of it for
\* good, whatever state it found the device in and whatever was lost on the
\* way; an UploadOnly one left every image in a slot (await_commit(),
\* staged()).
CompletedIsInstalled ==
  m.state = "Completed" =>
    \A n \in Targets(p) :
      IF UploadOnly(p) THEN \E s \in {0, 1} : dev.slots[ImageOf(p, n)][s] = m.hash[n]
      ELSE RunsTarget(dev, n) /\ ~Trial(dev, ImageOf(p, n))

\* The trial of target n is ended for good by this step.
Confirms(n) == OnTrialNow(dev, n) /\ RunsTarget(dev', n) /\ ~Trial(dev', ImageOf(p, n))

\* ADR-0021: a Client image is confirmed only while the device runs every
\* Device image of the package (await_device()).
NoHalfPackage ==
  (\E n \in Clients(p) : Confirms(n)) => \A k \in Devices(p) : RunsTarget(dev, k)

\* ADR-0014: in TestThenConfirm no trial becomes permanent before the
\* application approved it (confirmation_fork()).
AskedFirst ==
  p.mode = "TestThenConfirm" /\ (\E n \in Clients(p) : Confirms(n)) => approved

\* A confirm is sent only when the rest of the package runs and, where it must
\* be, approved (await_device(), confirmation_fork()).
ConfirmsRightly == [][NoHalfPackage /\ AskedFirst]_vars

\* A refused update sent no command that changes the device
\* (check_preconditions()).
RefusedUntouched == m.refusal # "None" => ~changed

\* An update that resets the device and ends while the device runs one of its
\* images on trial says that it will revert (fail(), confirm_failed()).
TrialReported ==
  Ended /\ m.state # "Completed" /\ reset /\ (\E n \in Clients(p) : OnTrialNow(dev, n))
    => m.revertPending

\* No event finds the machine in a state without a rule for it
\* (decide()'s ErrorCode::Internal).
NoIllegalEvent == m.cause # "Internal"

\* UpdateFinished is delivered exactly once per update that is over, the
\* destructor's included (finish(), abandon()).
FinishedOnce ==
  \A r \in Rounds : told[r] = IF r < round \/ (r = round /\ ~running) THEN 1 ELSE 0

\* Every update ends once, and one that ends Completed is installed (finish(),
\* await_commit()).
EndsTruly == CompletedIsInstalled /\ FinishedOnce

\* Every update ends, if the application answers ReconnectRequired and
\* ConfirmationRequired and the link drops only so often: a device that never
\* finishes applying an image is given up on (keep_time(), tick()).
UpdateEnds == running ~> ~running

\* Direct-XIP: the build that is stored is the one linked for the slot it is
\* stored in (choose_build()).
BuildFits ==
  \A n \in Targets(p) : Builds(p, n) # <<>> =>
    \A s \in {0, 1} : dev.slots[ImageOf(p, n)][s] # Builds(p, n)[2 - s]

\* firmware_updater.hpp, revert_pending: a caller can tell "nothing happened"
\* from "something will happen when this device next restarts".
RestartAnnounced ==
  Ended /\ m.state # "Completed" /\ ~resetting
    /\ (\E n \in Clients(p) : RunsTarget(Reboot(g, dev), n) # RunsTarget(dev, n))
    => m.revertPending

\* firmware_updater.hpp, revert_pending: the device holds a swapped-in image
\* that nobody confirmed.
RevertMeansTrial ==
  Ended /\ m.revertPending => \E n \in Clients(p) : OnTrialNow(dev, n)

\* firmware_updater.hpp, secondary_source: on a device that is not direct-XIP
\* the update fails with InvalidArgument before anything is sent.
BuildsCheckedFirst == m.cause = "InvalidArgument" => ~changed

\* firmware_updater.hpp, start(): the source must outlive the update, and no
\* longer.  No upload of an update that is over still reads it.
NoUploadLeft == \A r \in Rounds : cmd[r].kind = "Upload" => r = round /\ running

\* firmware_updater.hpp, start(): the first event arrives on the next poll(),
\* so a running update has its callback.
RunningIsHeard == running /\ ~finishing => subscribed
=============================================================================
