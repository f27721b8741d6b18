------------------------------- MODULE Upload -------------------------------
(***************************************************************************)
(* An image upload end to end: ImageManagement and UploadDriver, the       *)
(* session's decisions (UploadSession), the client's contract towards the  *)
(* one request an upload has outstanding, a link that loses messages and   *)
(* drops, and the device's upload handler as the repository's simulator    *)
(* has it.                                                                 *)
(*                                                                         *)
(* A message carries live: whether the client still waits for its answer.  *)
(* It stands for the sequence number, which SmpClient shows to be          *)
(* unambiguous.                                                            *)
(***************************************************************************)
EXTENDS UploadSession, Sequences, FiniteSets

CONSTANTS
  MaxAttempts,   \* bound: calls of upload() and resume()
  MaxWire,       \* bound: messages in one direction of the link
  CheckEnabled,  \* the device is built with the image check
  FlashFaults,   \* the flash may store something else than what was written
  SourceFaults,  \* ImageSource::read() may fail
  LinkDrops,     \* the link may go down and come back
  ForcedOffsets  \* offsets a device may ask for out of turn

ASSUME UploadAssumption ==
  /\ MaxAttempts \in Nat \ {0} /\ MaxWire \in Nat \ {0}
  /\ {CheckEnabled, FlashFaults, SourceFaults, LinkDrops} \subseteq BOOLEAN
  /\ ForcedOffsets \subseteq Offsets

VARIABLES
  st,         \* UploadState of the current driver
  driver,     \* gen, attempt, active, starting, reported: the current driver
  step,       \* the Step advance() is about to carry out; NoStep between calls
  inProgress, \* the progress callback is running
  awaiting,   \* the client holds the driver's request: request_ resolves
  queue,      \* the client's deferred completions
  connected,
  gone,       \* the ImageManagement was destroyed
  attempts,   \* calls so far
  told,       \* per attempt, what on_done received
  cancelled,  \* attempts whose cancel() reached a running upload
  dropped,    \* attempts whose queued completion found its driver gone
  toDevice, toClient,  \* the link, one queue each way
  session,    \* the device's upload session
  flash,      \* the upload slot, per unit: "none", "good" or "bad"
  wrote       \* the device has stored data of the current driver

clientVars == <<st, driver, step, inProgress, awaiting, queue, gone, attempts,
                told, cancelled, dropped>>
deviceVars == <<session, flash, wrote>>
vars == <<clientVars, connected, toDevice, toClient, deviceVars>>

Units == 1 .. ImageSize
Attempts == 1 .. MaxAttempts
Reasons == {"Timeout", "Busy", "Error", "Disconnected", "Cancelled", "SendFailed"}
Outcomes == Reasons \cup
  {"Transferred", "AlreadyPresent", "ImageMismatch", "UpdateFailed",
   "MalformedMessage", "InvalidState", "SourceError"}

NoStep == Step(NewSession, "none", NoRequest, "")
NoSession == [active |-> FALSE, off |-> 0]
Filled(k) == [i \in Units |-> IF i <= k THEN "good" ELSE "none"]
Whole == \A i \in Units : flash[i] = "good"

\* The application may call in: nothing of the library is on the stack, or
\* only a progress callback.
Free == step = NoStep

Stale(ms) == [i \in DOMAIN ms |-> [ms[i] EXCEPT !.live = FALSE]]

\* The client stops waiting: a completion, a timeout, a cancel or a drop.
Forget == /\ awaiting' = FALSE
          /\ toDevice' = Stale(toDevice)
          /\ toClient' = Stale(toClient)

Init ==
  /\ st = NewSession
  /\ driver = [gen |-> 0, attempt |-> 0, active |-> FALSE, starting |-> FALSE,
               reported |-> 0]
  /\ step = NoStep /\ inProgress = FALSE /\ awaiting = FALSE /\ queue = <<>>
  /\ connected = TRUE /\ gone = FALSE /\ attempts = 0
  /\ told = [a \in Attempts |-> <<>>] /\ cancelled = {} /\ dropped = {}
  /\ toDevice = <<>> /\ toClient = <<>> /\ wrote = FALSE
  \* An empty slot, this very image, or an earlier client's unfinished upload.
  /\ \/ session = NoSession /\ flash \in {Filled(0), Filled(ImageSize)}
     \/ \E k \in 1 .. ImageSize - 1 :
          session = [active |-> TRUE, off |-> k] /\ flash = Filled(k)
-----------------------------------------------------------------------------
(* UploadDriver *)

\* Fault: the callback is kept after it ran inside upload().
FinishInline(why) ==
  /\ driver' = [driver EXCEPT !.active = FALSE, !.starting = FALSE]
  /\ step' = NoStep /\ inProgress' = FALSE
  /\ told' = [told EXCEPT ![driver.attempt] = Append(@, why)]
  /\ queue' = IF driver.starting
                THEN Append(queue, [kind |-> "done", gen |-> driver.gen,
                                    attempt |-> driver.attempt, why |-> why])
                ELSE queue

\* finish(): inside upload() or resume() the callback is deferred, and the
\* deferral holds only a weak reference to the driver.
Finish(why) ==
  /\ driver' = [driver EXCEPT !.active = FALSE, !.starting = FALSE]
  /\ step' = NoStep /\ inProgress' = FALSE
  /\ \/ /\ driver.starting
        /\ queue' = Append(queue, [kind |-> "done", gen |-> driver.gen,
                                   attempt |-> driver.attempt, why |-> why])
        /\ UNCHANGED told
     \/ /\ ~driver.starting
        /\ told' = [told EXCEPT ![driver.attempt] = Append(@, why)]
        /\ UNCHANGED queue

\* handle(), up to the progress callback it may make: decide, and leave the
\* step to advance().
Decide(a) ==
  LET d == OnResponse(st, a)
      moved == d.act \in {"send", "complete"} /\ d.st.confirmed # driver.reported
  IN /\ st' = d.st
     /\ step' = d
     /\ inProgress' = moved
     /\ driver' = IF moved THEN [driver EXCEPT !.reported = d.st.confirmed] ELSE driver

\* send(): the source is read before anything else happens.
SendReadFails ==
  /\ SourceFaults
  /\ Finish("SourceError")
  /\ UNCHANGED <<st, awaiting, toDevice>>

\* send(), of a request the client refuses or the transport does not take:
\* completed on the next poll().
SendRefused ==
  /\ \E why \in {"Disconnected", "SendFailed"} :
       /\ (why = "Disconnected") = ~connected
       /\ queue' = Append(queue, [kind |-> "handle", gen |-> driver.gen,
                                  attempt |-> driver.attempt, why |-> why])
  /\ st' = RecordSent(st, step.req)
  /\ driver' = [driver EXCEPT !.starting = FALSE]
  /\ step' = NoStep /\ inProgress' = FALSE
  /\ UNCHANGED <<told, awaiting, toDevice>>

SendOnWire ==
  /\ connected /\ Len(toDevice) < MaxWire
  /\ toDevice' = Append(toDevice, [req |-> step.req, gen |-> driver.gen, live |-> TRUE])
  /\ awaiting' = TRUE
  /\ st' = RecordSent(st, step.req)
  /\ driver' = [driver EXCEPT !.starting = FALSE]
  /\ step' = NoStep /\ inProgress' = FALSE
  /\ UNCHANGED <<told, queue>>

Advance ==
  /\ step # NoStep
  /\ IF step.act = "send" THEN SendReadFails \/ SendRefused \/ SendOnWire
     ELSE Finish(step.why) /\ UNCHANGED <<st, awaiting, toDevice>>
  /\ UNCHANGED <<gone, attempts, cancelled, dropped, connected, toClient, deviceVars>>
-----------------------------------------------------------------------------
(* ImageManagement, called by the application *)

StartUpload ==
  /\ Free /\ ~gone /\ ~driver.active /\ attempts < MaxAttempts
  /\ attempts' = attempts + 1
  /\ driver' = [gen |-> driver.gen + 1, attempt |-> attempts + 1, active |-> TRUE,
                starting |-> TRUE, reported |-> 0]
  /\ st' = NewSession
  /\ step' = PlanNext(NewSession)
  /\ wrote' = FALSE
  /\ UNCHANGED <<inProgress, awaiting, queue, gone, told, cancelled, dropped,
                 connected, toDevice, toClient, session, flash>>

Resumable == driver.gen > 0 /\ st.phase = "Suspended"

ResumeUpload ==
  /\ Free /\ ~gone /\ Resumable /\ attempts < MaxAttempts
  /\ attempts' = attempts + 1
  /\ driver' = [driver EXCEPT !.attempt = attempts + 1, !.active = TRUE,
                              !.starting = TRUE]
  /\ LET d == Resume(st) IN st' = d.st /\ step' = d
  /\ UNCHANGED <<inProgress, awaiting, queue, gone, told, cancelled, dropped,
                 connected, toDevice, toClient, deviceVars>>

\* upload() or resume() with an argument it refuses, or while one is running:
\* only the deferred callback. No driver is involved.
Reject ==
  /\ (Free \/ inProgress) /\ ~gone /\ attempts < MaxAttempts
  /\ attempts' = attempts + 1
  /\ queue' = Append(queue, [kind |-> "done", gen |-> 0, attempt |-> attempts + 1,
                             why |-> "InvalidState"])
  /\ UNCHANGED <<st, driver, step, inProgress, awaiting, gone, told, cancelled,
                 dropped, connected, toDevice, toClient, deviceVars>>

\* Fault: the client forgets the request and completes nothing.
CancelCompletesNothing ==
  /\ Forget
  /\ UNCHANGED queue

\* The client's cancel(): a request that resolves completes on the next poll().
CancelRequest ==
  IF awaiting
    THEN /\ Forget
         /\ queue' = Append(queue, [kind |-> "handle", gen |-> driver.gen,
                                    attempt |-> driver.attempt, why |-> "Cancelled"])
    ELSE UNCHANGED <<awaiting, toDevice, toClient, queue>>

\* cancel() of the running upload, also from its progress callback.
Cancel ==
  /\ (Free \/ inProgress) /\ ~gone /\ driver.active
  /\ cancelled' = cancelled \cup {driver.attempt}
  /\ CancelRequest
  /\ UNCHANGED <<st, driver, step, inProgress, gone, attempts, told, dropped,
                 connected, deviceVars>>

\* ~ImageManagement: a running upload is abandoned, its callback runs inline.
Destroy ==
  /\ Free /\ ~gone
  /\ gone' = TRUE
  /\ IF driver.active
       THEN /\ CancelRequest
            /\ told' = [told EXCEPT ![driver.attempt] = Append(@, "Cancelled")]
            /\ driver' = [driver EXCEPT !.active = FALSE]
       ELSE UNCHANGED <<awaiting, toDevice, toClient, queue, told, driver>>
  /\ UNCHANGED <<st, step, inProgress, attempts, cancelled, dropped, connected,
                 deviceVars>>
-----------------------------------------------------------------------------
(* The client, towards the upload *)

\* The driver a deferred completion belongs to still exists.
Alive(q) == q.gen = 0 \/ (q.gen = driver.gen /\ ~gone)

\* poll() runs the oldest deferred completion.
RunQueued ==
  /\ Free /\ queue # <<>>
  /\ queue' = Tail(queue)
  /\ LET q == Head(queue) IN
       \/ /\ q.kind = "handle" /\ Alive(q) /\ driver.active
          /\ Decide(Failure(q.why))
          /\ UNCHANGED <<told, dropped>>
       \/ /\ q.kind = "handle" /\ ~(Alive(q) /\ driver.active)
          /\ UNCHANGED <<st, driver, step, inProgress, told, dropped>>
       \/ /\ q.kind = "done" /\ Alive(q)
          /\ told' = [told EXCEPT ![q.attempt] = Append(@, q.why)]
          /\ UNCHANGED <<st, driver, step, inProgress, dropped>>
       \/ /\ q.kind = "done" /\ ~Alive(q)
          /\ dropped' = dropped \cup {q.attempt}
          /\ UNCHANGED <<st, driver, step, inProgress, told>>
  /\ UNCHANGED <<awaiting, gone, attempts, cancelled, connected, toDevice, toClient,
                 deviceVars>>

Timeout ==
  /\ Free /\ awaiting
  /\ Forget
  /\ Decide(Failure("Timeout"))
  /\ UNCHANGED <<queue, gone, attempts, told, cancelled, dropped, connected, deviceVars>>

\* An answer to the request the client waits for; a late one is discarded.
Receive ==
  /\ Free /\ toClient # <<>>
  /\ IF Head(toClient).live
       THEN /\ awaiting' = FALSE
            /\ toDevice' = Stale(toDevice)
            /\ toClient' = Stale(Tail(toClient))
            /\ Decide(Head(toClient).ans)
       ELSE /\ toClient' = Tail(toClient)
            /\ UNCHANGED <<awaiting, toDevice, st, step, inProgress, driver>>
  /\ UNCHANGED <<queue, gone, attempts, told, cancelled, dropped, connected, deviceVars>>

Disconnect ==
  /\ Free /\ LinkDrops /\ connected
  /\ connected' = FALSE
  /\ Forget
  /\ IF awaiting THEN Decide(Failure("Disconnected"))
     ELSE UNCHANGED <<st, step, inProgress, driver>>
  /\ UNCHANGED <<queue, gone, attempts, told, cancelled, dropped, deviceVars>>

\* rebind_transport(), once the application has a new link.
Reconnect ==
  /\ Free /\ ~connected
  /\ connected' = TRUE
  /\ UNCHANGED <<clientVars, toDevice, toClient, deviceVars>>
-----------------------------------------------------------------------------
(* The link and the device *)

LoseRequest ==
  /\ toDevice # <<>> /\ toDevice' = Tail(toDevice)
  /\ UNCHANGED <<clientVars, connected, toClient, deviceVars>>

LoseAnswer ==
  /\ toClient # <<>> /\ toClient' = Tail(toClient)
  /\ UNCHANGED <<clientVars, connected, toDevice, deviceVars>>

Reply(a) ==
  /\ Len(toClient) < MaxWire
  /\ toClient' = Append(toClient, [ans |-> a, live |-> Head(toDevice).live])
  /\ toDevice' = Tail(toDevice)
  /\ UNCHANGED <<clientVars, connected>>

\* The write of one chunk at the session's offset, and the answer to it: the
\* last one ends the session and carries the device's verdict.
Store(m, base) ==
  \E bits \in {"good"} \cup (IF FlashFaults THEN {"bad"} ELSE {}) :
    LET end == base.off + m.req.len
        content == [i \in Units |->
                      IF i \in base.off + 1 .. end THEN bits ELSE base.flash[i]]
        last == end = ImageSize
        match == IF ~(last /\ CheckEnabled) THEN "absent"
                 ELSE IF \A i \in Units : content[i] = "good" THEN "yes" ELSE "no"
    IN /\ flash' = content
       /\ session' = IF last THEN NoSession ELSE [active |-> TRUE, off |-> end]
       /\ wrote' = (wrote \/ m.gen = driver.gen)
       /\ Reply(Answer(end, match))

\* handle_upload(), off = 0. A session of another image is replaced like none.
DeviceFirst ==
  /\ toDevice # <<>> /\ Head(toDevice).req.off = 0
  /\ \/ /\ session.active
        /\ Reply(Answer(session.off, "absent"))
        /\ UNCHANGED deviceVars
     \/ /\ ~session.active /\ CheckEnabled /\ Whole
        /\ Reply(Answer(ImageSize, "yes"))
        /\ UNCHANGED deviceVars
     \/ /\ ~session.active /\ ~(CheckEnabled /\ Whole)
        /\ Store(Head(toDevice), [off |-> 0, flash |-> Filled(0)])

\* handle_upload(), off > 0: out of turn, the device says what it wants.
DeviceContinues ==
  /\ toDevice # <<>> /\ Head(toDevice).req.off > 0
  /\ LET m == Head(toDevice) IN
       \/ /\ ~session.active \/ m.req.off # session.off
          /\ Reply(Answer(session.off, "absent"))
          /\ UNCHANGED deviceVars
       \/ /\ session.active /\ m.req.off = session.off
          /\ Store(m, [off |-> session.off, flash |-> flash])

\* An error answer: busy, out of memory, or any refusal.
DeviceRefuses ==
  /\ toDevice # <<>>
  /\ \E why \in {"Busy", "Error"} : Reply(Failure(why))
  /\ UNCHANGED deviceVars

\* A device that asks for some other offset than the one it holds.
DeviceForces ==
  /\ toDevice # <<>>
  /\ \E off \in ForcedOffsets : Reply(Answer(off, "absent"))
  /\ UNCHANGED deviceVars

\* The session does not survive a reboot; the flash does.
DeviceReboots ==
  /\ session.active
  /\ session' = NoSession
  /\ UNCHANGED <<clientVars, connected, toDevice, toClient, flash, wrote>>
-----------------------------------------------------------------------------
App == StartUpload \/ ResumeUpload \/ Reject \/ Cancel \/ Destroy

Link == Disconnect \/ Reconnect \/ LoseRequest \/ LoseAnswer

Device == DeviceFirst \/ DeviceContinues \/ DeviceRefuses \/ DeviceForces
          \/ DeviceReboots

Next == Advance \/ App \/ RunQueued \/ Timeout \/ Receive \/ Link \/ Device

Spec == Init /\ [][Next]_vars

\* The application polls: what is deferred runs, and a deadline passes. What
\* advance() does follows at once. Nothing is assumed of the device or the link.
FairSpec == Spec /\ WF_vars(Advance) /\ WF_vars(RunQueued) /\ WF_vars(Timeout)
-----------------------------------------------------------------------------
(* Properties *)

Requests == [off : Offsets, len : 0 .. ChunkSize, first : BOOLEAN]
States == [confirmed : Offsets, sent : Requests, noProgress : 0 .. MaxNoProgress + 1,
           restarts : 0 .. MaxRestarts, retries : 0 .. MaxRetries,
           progressed : BOOLEAN, firstPending : BOOLEAN,
           phase : {"Idle", "Sending", "Suspended", "Done", "Failed"}]
Answers == [why : Reasons \cup {"ok"}, off : Offsets, match : {"absent", "yes", "no"}]

\* Every variable keeps its type: the offsets stay in the image, a chunk is no
\* longer than chunk_size, and the three budgets are never exceeded.
TypeOK ==
  /\ st \in States
  /\ driver \in [gen : 0 .. MaxAttempts, attempt : 0 .. MaxAttempts, active : BOOLEAN,
                 starting : BOOLEAN, reported : Offsets]
  /\ step \in [st : States, act : {"none", "send", "complete", "fail", "suspend"},
               req : Requests, why : Outcomes \cup {""}]
  /\ {inProgress, awaiting, connected, gone, wrote} \subseteq BOOLEAN
  /\ queue \in Seq([kind : {"handle", "done"}, gen : 0 .. MaxAttempts,
                    attempt : Attempts, why : Outcomes])
  /\ attempts \in 0 .. MaxAttempts
  /\ told \in [Attempts -> Seq(Outcomes)]
  /\ cancelled \subseteq Attempts /\ dropped \subseteq Attempts
  /\ toDevice \in Seq([req : Requests, gen : 1 .. MaxAttempts, live : BOOLEAN])
  /\ toClient \in Seq([ans : Answers, live : BOOLEAN])
  /\ session \in [active : BOOLEAN, off : Offsets]
  /\ flash \in [Units -> {"none", "good", "bad"}]

Queued(a) == {i \in DOMAIN queue : queue[i].kind = "done" /\ queue[i].attempt = a}
Running(a) == driver.active /\ driver.attempt = a

\* "on_done fires exactly once" (image.hpp), up to a completion dropped with
\* its driver: each attempt is running, has one completion queued, was told
\* once, or was dropped, and only one of these.
DoneOnce ==
  \A a \in 1 .. attempts :
    (IF Running(a) THEN 1 ELSE 0) + Cardinality(Queued(a)) + Len(told[a])
      + (IF a \in dropped THEN 1 ELSE 0) = 1

\* Between calls a running upload has a request outstanding or a completion of
\* its own driver queued: whatever is cancelled, refused or lost, some later
\* poll() moves it on.
NeverStranded ==
  driver.active /\ Free =>
    \/ awaiting
    \/ \E i \in DOMAIN queue : queue[i].kind = "handle" /\ Alive(queue[i])

\* Rule 7 (send_from()): what goes out at offset zero carries the first
\* packet's fields, and only that does; retransmissions and resumptions too.
FirstPacketRule ==
  \A i \in DOMAIN toDevice : toDevice[i].req.first <=> toDevice[i].req.off = 0

\* "nor overstate what the device holds" (image.hpp, on_progress): unless a
\* first packet is about to ask, every unit up to confirmed_off is in flash,
\* through lost and late answers, reboots and uploads that were cancelled.
ConfirmedIsStored ==
  driver.active /\ ~st.firstPending =>
    \A i \in 1 .. st.confirmed : flash[i] # "none"

\* An upload reported complete is stored, and on a device that checks images
\* is stored intact (on_response(), the match field).
CompleteIsStored ==
  step.act = "complete" =>
    \A i \in Units : flash[i] # "none" /\ (CheckEnabled => flash[i] = "good")

\* already_present (image_upload.hpp) is said only when the device finished
\* "before this session had transferred anything": it stored nothing for it.
AlreadyPresentTruthful == step.why = "AlreadyPresent" => ~wrote

\* What an upload says of the device is so: its progress is in flash, its
\* success is the whole image, and "already present" is not its own doing
\* (on_response()).
StoredAsReported == ConfirmedIsStored /\ CompleteIsStored /\ AlreadyPresentTruthful

\* "bounded, or a server stuck on one offset would loop here forever"
\* (on_response()): with an application that polls, every attempt ends,
\* whatever is lost or rebooted and whichever offsets the device asks for,
\* unless it asks for a later one again and again.
UploadEnds ==
  \/ driver.active ~> ~driver.active
  \/ []<><<st'.confirmed > st.confirmed>>_st

\* "Bounds a server that rewinds or repeats forever" (limits.hpp): without the
\* exception.
RewindsBounded == driver.active ~> ~driver.active

\* "Abandons an upload" (image.hpp, cancel()): a cancelled upload has no
\* request on its way.
CancelAbandons == awaiting => driver.attempt \notin cancelled

\* "fires exactly once, including [...] when this object is destroyed"
\* (image.hpp): no completion is dropped.
NoneDropped == dropped = {}

\* "it cannot move backwards" (image.hpp): the progress one upload reports
\* never decreases.
ProgressForward ==
  [][driver'.gen = driver.gen => driver'.reported >= driver.reported]_driver
=============================================================================
