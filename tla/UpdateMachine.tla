---------------------------- MODULE UpdateMachine ----------------------------
(***************************************************************************)
(* The decisions of an update: dfu::Machine of                             *)
(* src/src/dfu/update_state_machine.cpp, events in, steps out.             *)
(*                                                                         *)
(* Operators over an update plan p and the machine's context c.  A step is *)
(* the context it leaves: c.state and c.effect are Step::next and          *)
(* Step::effect, and the effect's parameters are read from the context.    *)
(* Targets are numbered from 1; a deadline counts down to its time from    *)
(* the updater's last poll, and Off is one that is not armed.              *)
(***************************************************************************)
EXTENDS BootModel, Sequences, FiniteSetsExt

CONSTANTS
  DisconnectGrace, ApplyPollInterval, ApplyTimeout  \* UpdatePlan's, in polls

ASSUME MachineAssumption ==
  {DisconnectGrace, ApplyPollInterval, ApplyTimeout} \subseteq Nat \ {0}

Off == -1
Terminal == {"Completed", "Failed", "Cancelled"}
Targets(p) == DOMAIN p.targets
Clients(p) == {n \in Targets(p) : p.targets[n].commit = "Client"}
Devices(p) == Targets(p) \ Clients(p)
UploadOnly(p) == p.mode = "UploadOnly"

\* Before any slot table was read, nothing is found in it.
NoTable == [i \in Images |-> [s \in {0, 1} |-> Unlisted]]

NewMachine(p) ==
  [state |-> "Idle", effect |-> "None", current |-> 1, table |-> NoTable,
   hash |-> [n \in Targets(p) |-> p.targets[n].hash],
   chosen |-> [n \in Targets(p) |-> Off], inTrial |-> {},
   mode |-> "Unknown", noDowngrade |-> FALSE,
   uploading |-> FALSE, swapScheduled |-> FALSE, markRetried |-> FALSE,
   resetForced |-> FALSE, approved |-> FALSE, reread |-> FALSE, checked |-> FALSE,
   grace |-> Off, applyPoll |-> Off, applyDeadline |-> Off, applyPhase |-> "None",
   skipped |-> {}, applied |-> {}, committed |-> {}, rolledBack |-> {},
   revertPending |-> FALSE, refusal |-> "None", cause |-> "None"]

Go(c, state, effect) == [c EXCEPT !.state = state, !.effect = effect]
Stay(c) == Go(c, c.state, "None")

Fail(c, cause) ==
  Go([c EXCEPT !.revertPending = c.swapScheduled, !.cause = cause], "Failed", "Finish")

\* F(v).  Binding v makes TLC evaluate it once, also where it decides ENABLED.
Once(F(_), v) == CHOOSE r \in {F(x) : x \in {v}} : TRUE

Abandon(c) ==
  Go([c EXCEPT !.revertPending = c.swapScheduled], "Cancelled", "Finish")
-----------------------------------------------------------------------------
(* What the last slot table says *)

ImageOf(p, n) == p.targets[n].image

\* The running slot of an image, or Unlisted.
ActiveOf(c, i) ==
  IF \E s \in {0, 1} : c.table[i][s].active
    THEN c.table[i][CHOOSE s \in {0, 1} : c.table[i][s].active]
    ELSE Unlisted

AnythingPending(c, i) == \E s \in {0, 1} : c.table[i][s].pending

Running(p, c, n) == ActiveOf(c, ImageOf(p, n)).hash = c.hash[n]

\* The first slot of the target's own image that holds its file, or Unlisted.
Holder(p, c, n) ==
  LET at == {s \in {0, 1} : c.table[ImageOf(p, n)][s].hash = c.hash[n]}
  IN IF at = {} THEN Unlisted ELSE c.table[ImageOf(p, n)][Min(at)]

RunningOnTrial(p, c, n) ==
  n \in Clients(p) /\ Running(p, c, n) /\ ~ActiveOf(c, ImageOf(p, n)).confirmed

WithoutSetState(c) == c.mode = "DirectXip"

NextInTrial(p, c, from) ==
  Min({n \in c.inTrial : n >= from} \cup {Len(p.targets) + 1})
-----------------------------------------------------------------------------
(* Refusals *)

ModeRefusal(p, c) ==
  LET noRevert == ~UploadOnly(p) /\ ~p.allowNoRevert IN
  CASE c.mode = "Unsupported" -> "UnsupportedMode"
    [] c.mode = "UpgradeOnly" -> IF noRevert THEN "RevertUnavailable" ELSE "None"
    [] c.mode = "DirectXip" ->
         IF Len(p.targets) > 1 THEN "MultiImageUnsupported"
         ELSE IF noRevert THEN "RevertUnavailable" ELSE "None"
    [] c.mode = "DirectXipWithRevert" ->
         IF Len(p.targets) > 1 THEN "MultiImageUnsupported" ELSE "None"
    [] c.mode \in {"Unknown", "Swap"} -> "None"

IsDowngrade(p, c) ==
  /\ p.checkDowngrade /\ c.noDowngrade
  /\ \E n \in Targets(p) :
       LET running == ActiveOf(c, ImageOf(p, n)).hash
       IN running \notin {None, c.hash[n]} /\ Version[c.hash[n]] < Version[running]

\* Fault: the preconditions are only looked at before the reset.
RefusalBeforeReset(p, c) ==
  IF ~c.swapScheduled THEN "None"
  ELSE IF ModeRefusal(p, c) # "None" THEN ModeRefusal(p, c)
  ELSE IF IsDowngrade(p, c) THEN "Downgrade" ELSE "None"

Refusal(p, c) ==
  IF c.checked THEN "None"
  ELSE IF ModeRefusal(p, c) # "None" THEN ModeRefusal(p, c)
  ELSE IF IsDowngrade(p, c) THEN "Downgrade" ELSE "None"

\* check_preconditions(): ends the update, or remembers that it may go on.
CheckPreconditions(p, c) ==
  LET why == Refusal(p, c)
      e == [c EXCEPT !.checked = TRUE]
  IN IF why = "None" THEN e ELSE Fail([e EXCEPT !.refusal = why], "UpdateRefused")
Refused(p, c) == Refusal(p, c) # "None"
-----------------------------------------------------------------------------
(* After the reset *)

\* Fault: the application is not asked.
ConfirmUnasked(p, c) ==
  Go([c EXCEPT !.current = NextInTrial(p, c, 1)], "Confirming", "Confirm")

ConfirmationFork(p, c) ==
  LET e == [c EXCEPT !.current = NextInTrial(p, c, 1)] IN
  IF p.mode = "ConfirmImmediately" \/ c.approved THEN Go(e, "Confirming", "Confirm")
  ELSE Go(e, "AwaitingConfirmation", "RequestConfirmation")

ApplyOf(p, c, n) ==
  IF Running(p, c, n)
    THEN IF ActiveOf(c, ImageOf(p, n)).confirmed THEN "Committed" ELSE "OnTrial"
    ELSE IF Holder(p, c, n).pending THEN "Applying" ELSE "Failed"

\* The first Device target with one of the verdicts, which ends the loops of
\* await_device() and await_commit(), or a number past the last target.
FirstWith(p, c, verdicts) ==
  Min({n \in Devices(p) : ApplyOf(p, c, n) \in verdicts} \cup {Len(p.targets) + 1})

\* c with what those loops report of the Device targets before stop.
Seen(p, c, stop) ==
  LET with(verdicts) == {n \in Devices(p) : n < stop /\ ApplyOf(p, c, n) \in verdicts} IN
  [c EXCEPT !.applied = @ \cup with({"Committed", "OnTrial"}),
            !.committed = @ \cup with({"Committed"})]

\* await_commit(), its loop ended at stop.
CommitSeen(p, c, stop) ==
  IF stop \in Targets(p) THEN Fail([c EXCEPT !.applied = @ \ {stop}], "UpdateFailed")
  ELSE IF \E n \in Devices(p) : ApplyOf(p, c, n) = "OnTrial"
    THEN Go(c, "AwaitingDeviceCommit", "AwaitApply")
  ELSE Go(c, "Completed", "Finish")

\* Fault: the images the device commits itself are not waited for.
CommittedAlready(p, c) == Go(c, "Completed", "Finish")

AwaitCommit(p, c) ==
  LET stop == FirstWith(p, c, {"Applying", "Failed"}) IN CommitSeen(p, Seen(p, c, stop), stop)

\* await_device(), its loop ended at stop.
DeviceSeen(p, c, stop) ==
  IF stop \in Targets(p) THEN Fail(c, "UpdateFailed")
  ELSE IF \E n \in Devices(p) : ApplyOf(p, c, n) = "Applying"
    THEN Go(c, "AwaitingDeviceApply", "AwaitApply")
  ELSE IF ~c.swapScheduled THEN AwaitCommit(p, c)
  ELSE ConfirmationFork(p, c)

\* Fault: the images the device applies itself are not waited for.
ConfirmAtOnce(p, c) ==
  IF ~c.swapScheduled THEN AwaitCommit(p, c) ELSE ConfirmationFork(p, c)

AwaitDevice(p, c) ==
  LET stop == FirstWith(p, c, {"Failed"}) IN DeviceSeen(p, Seen(p, c, stop), stop)

WaitReadFailed(c, error) ==
  CASE error = "Disconnected" -> Go(c, "AwaitingReconnect", "RequestReconnect")
    [] error = "Timeout" -> Go(c, c.state, "AwaitApply")
    [] OTHER -> Fail(c, error)

ConfirmFailed(c, error) ==
  LET e == [c EXCEPT !.swapScheduled = TRUE] IN
  CASE error = "Disconnected" -> Go(e, "AwaitingReconnect", "RequestReconnect")
    [] error = "Timeout" /\ ~c.reread ->
         Go([e EXCEPT !.reread = TRUE], "VerifyingBooted", "ReadState")
    [] OTHER -> Fail(e, error)

\* Fault: an image that runs counts as installed.
RunsIsInstalled(p, c) ==
  IF \A n \in Clients(p) : Running(p, c, n) THEN AwaitCommit(p, c)
  ELSE Fail(c, "UpdateFailed")

InspectBoot(p, c) ==
  LET active(n) == ActiveOf(c, ImageOf(p, n))
      missed == {n \in Clients(p) : ~Running(p, c, n)}
      queued == {n \in missed : AnythingPending(c, ImageOf(p, n))}
      trial == {n \in Clients(p) \ missed : ~WithoutSetState(c) /\ ~active(n).confirmed}
      e == [c EXCEPT !.inTrial = trial, !.rolledBack = @ \cup (missed \ queued),
                     !.swapScheduled = queued # {} \/ trial # {}]
  IN IF \E n \in Clients(p) : active(n) = Unlisted THEN Fail(c, "UpdateFailed")
     ELSE IF missed # {} THEN Fail(e, "UpdateFailed")
     ELSE AwaitDevice(p, e)
-----------------------------------------------------------------------------
(* Staging *)

Staged(p, c) ==
  IF UploadOnly(p) THEN Go(c, "Completed", "Finish")
  ELSE IF ~c.swapScheduled THEN InspectBoot(p, c)
  ELSE IF Refused(p, c) THEN CheckPreconditions(p, c)
  ELSE Go(CheckPreconditions(p, c), "Resetting", "Reset")

NextTarget(p, c) ==
  LET e == [c EXCEPT !.current = @ + 1, !.markRetried = FALSE] IN
  IF e.current \in Targets(p) THEN Go(e, "Planning", "Continue") ELSE Staged(p, e)

MarkOrSkip(p, c) ==
  IF WithoutSetState(c) THEN NextTarget(p, [c EXCEPT !.swapScheduled = TRUE])
  ELSE Go(c, "MarkingForTest", "MarkForTest")

Builds(p, n) == p.targets[n].builds

\* choose_build(): 0 or 1, the build this update is about.
ChosenBuild(p, c, n) ==
  LET slot(s) == c.table[ImageOf(p, n)][s]
      inPlace == {s \in {0, 1} : slot(s).hash # None /\ slot(s).hash = Builds(p, n)[s + 1]}
      running == {s \in inPlace : slot(s).active}
  IN IF running # {} THEN Max(running)
     ELSE IF inPlace # {} THEN Min(inPlace)
     ELSE IF slot(1).active THEN 0 ELSE 1

Unchosen(p, c, n) == Builds(p, n) # <<>> /\ c.chosen[n] = Off

\* c with the builds of the targets ns chosen.
Choose(p, c, ns) ==
  LET due == {n \in ns : Unchosen(p, c, n)} IN
  [c EXCEPT !.chosen = [n \in Targets(p) |->
                          IF n \in due THEN ChosenBuild(p, c, n) ELSE @[n]],
            !.hash = [n \in Targets(p) |->
                        IF n \in due THEN Builds(p, n)[ChosenBuild(p, c, n) + 1] ELSE @[n]]]

\* What the planner finds for target n, its build chosen.
Finding(p, c, n) ==
  LET e == Choose(p, c, {n})
      holder == Holder(p, e, n)
  IN CASE Unchosen(p, c, n) /\ ~(c.mode \in {"DirectXip", "DirectXipWithRevert"}) -> "NoBuild"
       [] holder # Unlisted /\ holder.active -> "Runs"
       [] holder # Unlisted /\ ~holder.active /\ holder.pending -> "Marked"
       [] holder # Unlisted /\ ~holder.active /\ ~holder.pending /\ p.skipIfPresent -> "Present"
       [] OTHER -> "Missing"

\* Targets the planner passes over.
Settled(p, c, n) ==
  \/ Finding(p, c, n) \in {"Runs", "Marked"}
  \/ Finding(p, c, n) = "Present" /\ UploadOnly(p)

FirstUnsettled(p, c) ==
  Min({n \in c.current .. Len(p.targets) : ~Settled(p, c, n)} \cup {Len(p.targets) + 1})

\* c at target stop, with those before it passed over.
PassOver(p, c, stop) ==
  LET passed == c.current .. stop - 1 IN
  [Choose(p, c, passed) EXCEPT
     !.current = stop, !.skipped = @ \cup passed,
     !.swapScheduled = \/ @
                       \/ ~UploadOnly(p) /\ \E n \in passed : Finding(p, c, n) = "Marked"]

\* The current target is to be marked, or uploaded first.
Stage(p, c, found) ==
  IF Refused(p, c) THEN CheckPreconditions(p, c)
  ELSE IF found = "Present" THEN MarkOrSkip(p, CheckPreconditions(p, c))
  ELSE Go([CheckPreconditions(p, c) EXCEPT !.uploading = TRUE], "Uploading", "StartUpload")

PlanTarget(p, c, found) ==
  IF found = "NoBuild" THEN Fail(c, "InvalidArgument")
  ELSE Stage(p, [Choose(p, c, {c.current}) EXCEPT
                   !.skipped = IF found = "Present" THEN @ \cup {c.current} ELSE @], found)

\* plan_from_state(), the settled targets passed over.
PlanRest(p, c) ==
  IF c.current \in Targets(p) THEN PlanTarget(p, c, Finding(p, c, c.current)) ELSE Staged(p, c)

PlanFromState(p, c) ==
  IF c.current = 1 /\ ~UploadOnly(p) /\ \E n \in Targets(p) : RunningOnTrial(p, c, n)
    THEN InspectBoot(p, [c EXCEPT !.skipped = Targets(p)])
    ELSE Once(LAMBDA e : PlanRest(p, e), PassOver(p, c, FirstUnsettled(p, c)))

UploadFinished(p, c, present) ==
  LET e == [c EXCEPT !.uploading = FALSE,
                     !.skipped = IF present THEN @ \cup {c.current} ELSE @]
  IN IF UploadOnly(p) THEN NextTarget(p, e) ELSE Go(e, "VerifyingUpload", "ReadState")

MarkRefused(c, error) ==
  IF error = "AlreadyPending" /\ ~c.markRetried
    THEN Go([c EXCEPT !.markRetried = TRUE], "InspectingImages", "ReadState")
    ELSE Fail(c, error)

ResetRefused(c, error) ==
  CASE error = "Busy" /\ ~c.resetForced ->
         Go([c EXCEPT !.resetForced = TRUE], "Resetting", "ForceReset")
    [] error \in {"Disconnected", "Timeout"} ->
         Go(c, "AwaitingDisconnect", "AwaitDisconnect")
    [] OTHER -> Fail(c, error)
-----------------------------------------------------------------------------
(* Time *)

Elapse(c) ==
  LET less(t) == IF t > 0 THEN t - 1 ELSE t IN
  [c EXCEPT !.grace = less(@), !.applyPoll = less(@), !.applyDeadline = less(@)]

NextDeadline(c) == IF c.grace # Off THEN c.grace ELSE c.applyPoll

Tick(c) ==
  LET waiting == c.state \in {"AwaitingDeviceApply", "AwaitingDeviceCommit"}
      e == [c EXCEPT !.applyPoll = Off]
  IN IF c.state = "AwaitingDisconnect" /\ c.grace = 0
       THEN Go(c, "AwaitingReconnect", "RequestReconnect")
     ELSE IF ~waiting \/ c.applyPoll # 0 THEN Stay(c)
     ELSE IF c.applyDeadline = 0 THEN Fail(e, "Timeout")
     ELSE Go(e, c.state, "ReadState")

\* Fault: every wait for the device starts the timeout again.
RearmEachWait(c) ==
  LET e == [c EXCEPT !.grace = IF c.state # "AwaitingDisconnect" THEN Off ELSE @] IN
  CASE c.effect = "AwaitDisconnect" -> [e EXCEPT !.grace = DisconnectGrace]
    [] c.effect = "AwaitApply" ->
         [e EXCEPT !.applyPoll = ApplyPollInterval, !.applyPhase = c.state,
                   !.applyDeadline = ApplyTimeout]
    [] c.effect = "Finish" ->
         [e EXCEPT !.applyPoll = Off, !.applyDeadline = Off, !.applyPhase = "None"]
    [] OTHER -> e

\* Fault: the reconnect grace is not cleared when the link drops first.
KeepsGrace(c) ==
  CASE c.effect = "AwaitDisconnect" -> [c EXCEPT !.grace = DisconnectGrace]
    [] c.effect = "AwaitApply" ->
         [c EXCEPT !.applyPoll = ApplyPollInterval, !.applyPhase = c.state,
                   !.applyDeadline = IF c.applyPhase # c.state THEN ApplyTimeout ELSE @]
    [] c.effect = "Finish" ->
         [c EXCEPT !.applyPoll = Off, !.applyDeadline = Off, !.applyPhase = "None"]
    [] OTHER -> c

\* Arms or clears the deadlines of the step just decided.
KeepTime(c) ==
  LET e == [c EXCEPT !.grace = IF c.state # "AwaitingDisconnect" THEN Off ELSE @] IN
  CASE c.effect = "AwaitDisconnect" -> [e EXCEPT !.grace = DisconnectGrace]
    [] c.effect = "AwaitApply" ->
         [e EXCEPT !.applyPoll = ApplyPollInterval, !.applyPhase = c.state,
                   !.applyDeadline = IF c.applyPhase # c.state THEN ApplyTimeout ELSE @]
    [] c.effect = "Finish" ->
         [e EXCEPT !.applyPoll = Off, !.applyDeadline = Off, !.applyPhase = "None"]
    [] OTHER -> e
-----------------------------------------------------------------------------
(* Events *)

Plain(kind) == [kind |-> kind]
Failed(error) == [kind |-> "Failed", error |-> error]
WithTable(kind, table) == [kind |-> kind, table |-> table]

RecordMode(p, c, reported) ==
  [c EXCEPT !.mode = IF reported # "Unknown" THEN reported ELSE p.fallback]

\* Fault: the first confirm is taken to have ended every trial.
ConfirmedClearsEarly(p, c) ==
  LET e == [c EXCEPT !.inTrial = @ \ {c.current}, !.swapScheduled = FALSE]
      next == NextInTrial(p, e, c.current)
  IN IF next \in Targets(p) THEN Go([e EXCEPT !.current = next], "Confirming", "Confirm")
     ELSE Go([e EXCEPT !.current = next], "VerifyingConfirmed", "ReadState")

Confirmed(p, c) ==
  LET e == [c EXCEPT !.inTrial = @ \ {c.current}]
      next == NextInTrial(p, e, c.current)
  IN IF next \in Targets(p) THEN Go([e EXCEPT !.current = next], "Confirming", "Confirm")
     ELSE Go([e EXCEPT !.current = next, !.swapScheduled = FALSE],
             "VerifyingConfirmed", "ReadState")

VerifyConfirmed(p, c) ==
  IF \A n \in Clients(p) : Running(p, c, n) /\ ActiveOf(c, ImageOf(p, n)).confirmed
    THEN AwaitCommit(p, c)
    ELSE Fail([c EXCEPT !.swapScheduled = TRUE], "UpdateFailed")

\* The rules of each state.  An event a state has no rule for ends the update.
OnEvent(p, c, ev) ==
  LET at(state, kind) == c.state = state /\ ev.kind = kind
      failed(states) == c.state \in states /\ ev.kind = "Failed"
      read == IF "table" \in DOMAIN ev THEN [c EXCEPT !.table = ev.table] ELSE c
  IN CASE at("Idle", "Start") -> Go(c, "QueryingParameters", "QueryParameters")
       [] at("QueryingParameters", "ParametersRead")
            \/ at("QueryingParameters", "ParametersUnavailable") ->
            Go(c, "QueryingBootloader", "QueryBootloader")
       [] at("QueryingBootloader", "BootloaderRead") ->
            Go([RecordMode(p, c, ev.mode) EXCEPT !.noDowngrade = ev.noDowngrade],
               "InspectingImages", "ReadState")
       [] at("QueryingBootloader", "Failed") /\ ev.error = "Refused" ->
            Go(RecordMode(p, c, "Unknown"), "InspectingImages", "ReadState")
       [] at("QueryingBootloader", "Failed") /\ ev.error # "Refused" -> Fail(c, ev.error)
       [] at("InspectingImages", "StateRead") -> Go(read, "Planning", "Continue")
       [] at("Planning", "Continue") -> PlanFromState(p, c)
       [] at("Uploading", "UploadFinished") -> UploadFinished(p, c, ev.present)
       [] at("Uploading", "UploadSuspended") -> Go(c, "AwaitingReconnect", "RequestReconnect")
       [] at("VerifyingUpload", "StateRead") ->
            IF Holder(p, read, c.current) = Unlisted THEN Fail(read, "ImageMismatch")
            ELSE MarkOrSkip(p, read)
       [] at("MarkingForTest", "MarkedForTest") ->
            NextTarget(p, [read EXCEPT !.swapScheduled = TRUE])
       [] at("MarkingForTest", "Failed") -> MarkRefused(c, ev.error)
       [] at("Resetting", "ResetAccepted") -> Go(c, "AwaitingDisconnect", "AwaitDisconnect")
       [] at("Resetting", "Failed") -> ResetRefused(c, ev.error)
       [] at("AwaitingDisconnect", "Disconnected") ->
            Go(c, "AwaitingReconnect", "RequestReconnect")
       [] at("AwaitingReconnect", "Reconnected") ->
            IF c.uploading THEN Go(c, "Uploading", "ResumeUpload")
            ELSE Go(c, "VerifyingBooted", "ReadState")
       [] at("AwaitingReconnect", "ReconnectFailed") -> Fail(c, "ReconnectFailed")
       [] at("VerifyingBooted", "StateRead") -> InspectBoot(p, read)
       [] at("AwaitingDeviceApply", "StateRead") -> AwaitDevice(p, read)
       [] at("AwaitingDeviceCommit", "StateRead") -> AwaitCommit(p, read)
       [] failed({"AwaitingDeviceApply", "AwaitingDeviceCommit"}) ->
            WaitReadFailed(c, ev.error)
       [] at("AwaitingConfirmation", "ConfirmApproved") ->
            Go([c EXCEPT !.approved = TRUE], "Confirming", "Confirm")
       [] at("Confirming", "Confirmed") -> Confirmed(p, read)
       [] at("VerifyingConfirmed", "StateRead") -> VerifyConfirmed(p, read)
       [] failed({"Confirming", "VerifyingConfirmed"}) -> ConfirmFailed(c, ev.error)
       [] failed({"InspectingImages", "Uploading", "VerifyingUpload", "VerifyingBooted"}) ->
            Fail(c, ev.error)
       [] OTHER -> Fail(c, "Internal")

Decide(p, c, ev) ==
  CASE c.state \in Terminal -> Stay(c)
    [] c.state \notin Terminal /\ ev.kind = "Cancel" -> Abandon(c)
    [] c.state \notin Terminal /\ ev.kind = "Tick" -> Tick(c)
    [] OTHER -> OnEvent(p, c, ev)

\* An effect on the current target needs one.
Aimed(p, c) ==
  IF c.effect \in {"StartUpload", "MarkForTest", "Confirm"} /\ c.current \notin Targets(p)
    THEN Fail(c, "Internal") ELSE c

\* Machine::apply()
Apply(p, c, ev) ==
  LET onTarget == {"Uploading", "VerifyingUpload", "MarkingForTest", "Confirming"} IN
  Once(LAMBDA step : KeepTime(Aimed(p, step)),
       IF c.state \in onTarget /\ c.current \notin Targets(p)
         THEN Fail(c, "Internal") ELSE Decide(p, c, ev))
=============================================================================
