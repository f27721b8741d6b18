---------------------------- MODULE UpdateRun ----------------------------
(***************************************************************************)
(* The application's side of an update (support/dfu_app): UpdateRun's      *)
(* loop, its reconnect episodes and its deadline, and DispatcherWait.      *)
(* Everything here runs on the client context; StubDevice adds the threads *)
(* that post to the dispatcher, DfuTool the hooks of the three tools.      *)
(*                                                                         *)
(* The updater is Update.tla's FirmwareUpdater cut down to what an         *)
(* application can tell apart: one request outstanding, whether it waits   *)
(* for a link or an approval, and how it ends.  What it decides from is    *)
(* what the device says of the image: not there, stored, running on trial  *)
(* or kept (running and confirmed).  Every image is the client's to        *)
(* confirm; those the device commits are in Update.tla.                    *)
(*                                                                         *)
(* up.due says that the deadline it waits under (the request's, or the     *)
(* disconnect grace) has passed; run.left is what is left of the run's own *)
(* deadline.                                                               *)
(***************************************************************************)
EXTENDS ReconnectPolicy, Sequences, FiniteSets

VARIABLES
  tool,    \* the application: kind, settings, hooks and the port's shape
  run,     \* the UpdateRun, and the place of the client context in it
  up,      \* the updater: [state, req, due, staged, approved,
           \* reread, posts]
  client,  \* the SmpClient: [bound, connected]
  links,   \* every link opened, in order: [open, listener, gen]
  disp,    \* the dispatcher: [queue, batch]
  signal,  \* DispatcherWait: [woken, waking]; waking counts unsignalled posts
  device,  \* the device and its thread
  pty,     \* the pseudo-terminal in front of the stub, and its reader
  hist     \* history: [waits, resetOn, calls, updates, cancelled, code]

vars == <<tool, run, up, client, links, disp, signal, device, pty, hist>>

Off == -1
NoReq == [name |-> "none", link |-> 0, n |-> 0]
Quiet(u) == u.state \in {"Idle", "Ended"}
Serial == tool.shape \in {"uart", "cdc"}
-----------------------------------------------------------------------------
(* The updater.  A step is the updater after it and the event it raises. *)

Step(u, event) == [u |-> u, event |-> event]

\* A request goes out on the bound link; link 0 is a send that was refused.
Asks(u, state, name) ==
  LET up_ == client.connected /\ links[client.bound].open IN
  Step([u EXCEPT !.state = state, !.due = FALSE,
                 !.req = [name |-> name, link |-> IF up_ THEN client.bound ELSE 0,
                          n |-> hist.updates]], "none")
Waits(u, state, event) == Step([u EXCEPT !.state = state, !.due = FALSE, !.req = NoReq], event)
Ends(u, result) == Waits(u, "Ended", result)
WantsLink(u) == Waits(u, "AwaitingReconnect", "ReconnectRequired")

\* confirmation_fork(): ask, or confirm without asking.
ConfirmationFork(u) ==
  IF tool.mode = "immediately" \/ u.approved THEN Asks(u, "Confirming", "confirm")
  ELSE Waits(u, "AwaitingConfirmation", "ConfirmationRequired")

\* Fault: an image that runs counts as confirmed.
RunningIsEnough(u, says) ==
  IF says \in {"trial", "kept"} THEN Ends(u, "completed") ELSE Ends(u, "failed")

\* inspect_boot(): after a reset, or without one, what the device runs decides.
InspectBoot(u, says) ==
  CASE says = "kept" -> Ends(u, "completed")
    [] says = "trial" -> ConfirmationFork(u)
    [] OTHER -> Ends(u, "failed")

\* plan_from_state() and staged(), once the image is on the device: done, a
\* reset to make, or nothing a reset would change.
Planned(u, says) ==
  CASE tool.mode = "upload" -> Ends(u, "completed")
    [] tool.mode # "upload" /\ says = "stored" -> Asks(u, "Resetting", "reset")
    [] OTHER -> InspectBoot(u, says)

\* The device answered the request.
Answered(u, says) ==
  CASE says = "refused" -> Ends(u, "failed")
    [] says # "refused" /\ u.state = "Asking" -> Planned([u EXCEPT !.staged = TRUE], says)
    [] says # "refused" /\ u.state = "Resetting" -> Waits(u, "AwaitingDisconnect", "none")
    [] says # "refused" /\ u.state = "Verifying" -> InspectBoot(u, says)
    [] says # "refused" /\ u.state = "Confirming" ->
         Ends(u, IF says = "kept" THEN "completed" ELSE "failed")
    [] says # "refused" /\ u.state = "ConfirmOnly" -> Ends(u, "completed")

\* The request failed: the link dropped, or no answer came in time.
Failed(u, why) ==
  CASE u.state = "Resetting" -> {Waits(u, "AwaitingDisconnect", "none")}
    [] u.state = "Asking" /\ why = "Disconnected" -> {WantsLink(u), Ends(u, "failed")}
    [] u.state = "Confirming" /\ why = "Disconnected" -> {WantsLink(u)}
    [] u.state = "Confirming" /\ why = "Timeout" /\ ~u.reread ->
         {Asks([u EXCEPT !.reread = TRUE], "Verifying", "verify")}
    [] OTHER -> {Ends(u, "failed")}

\* A call of the application, posted to the client's next poll().
Posted(u, call) ==
  CASE Quiet(u) /\ call # "start" -> Step(u, "none")
    [] call = "start" -> Asks(u, "Asking", "ask")
    [] call = "resume" /\ u.state = "AwaitingReconnect" ->
         IF u.staged THEN Asks(u, "Verifying", "verify") ELSE Asks(u, "Asking", "ask")
    [] call = "confirm" /\ u.state = "AwaitingConfirmation" ->
         Asks([u EXCEPT !.approved = TRUE], "Confirming", "confirm")
    [] call = "cancel" -> Ends(u, "cancelled")
    [] OTHER -> Ends(u, "failed")

Post(u, call) == [u EXCEPT !.posts = Append(@, call)]

\* What a request does once it leaves the client: to the device's inbox, or
\* onto the line its link has open.
Transmit(old, new) ==
  IF new.req = old.req \/ new.req.link = 0 THEN UNCHANGED <<device, pty>>
  ELSE IF Serial
    THEN /\ pty' = [pty EXCEPT !.line =
                      Append(@, [req |-> new.req, gen |-> links[new.req.link].gen])]
         /\ UNCHANGED device
    ELSE device' = [device EXCEPT !.inbox = Append(@, new.req)] /\ UNCHANGED pty

\* The step s of the updater, and the event queued for the run r.
Take(s, r) ==
  /\ up' = s.u
  /\ run' = IF s.event = "none" THEN r ELSE [r EXCEPT !.inbox = Append(@, s.event)]
  /\ hist' = IF s.u.req.name = "reset" /\ s.u.req # up.req
             THEN [hist EXCEPT !.resetOn = client.bound] ELSE hist
  /\ Transmit(up, s.u)
-----------------------------------------------------------------------------
(* run(): poll the client, poll the updater, act on what they raised *)

PollPosts ==
  /\ run.pc = "poll"
  /\ up.posts # <<>>
  /\ Take(Posted([up EXCEPT !.posts = Tail(@)], Head(up.posts)), run)
  /\ UNCHANGED <<tool, client, links, disp, signal>>

Expired == up.req # NoReq /\ (up.req.link = 0 \/ up.due)

PollExpires ==
  /\ run.pc = "poll"
  /\ up.posts = <<>>
  /\ Expired
  /\ \E s \in Failed(up, IF up.req.link = 0 THEN "Disconnected" ELSE "Timeout") : Take(s, run)
  /\ UNCHANGED <<tool, client, links, disp, signal>>

PollUpdater ==
  /\ run.pc = "poll"
  /\ up.posts = <<>>
  /\ ~Expired
  /\ LET gone == up.state = "AwaitingDisconnect" /\ (~client.connected \/ up.due)
     IN Take(IF gone THEN WantsLink(up) ELSE Step(up, "none"), [run EXCEPT !.pc = "decide"])
  /\ UNCHANGED <<tool, client, links, disp, signal>>

\* deliver(): every queued event, noting the ones the run acts on.
Results == {"completed", "failed", "cancelled"}
Deliver(r) ==
  LET raised == {r.inbox[i] : i \in DOMAIN r.inbox} IN
  [r EXCEPT !.inbox = <<>>,
            !.reconnect = @ \/ "ReconnectRequired" \in raised,
            !.confirm = @ \/ "ConfirmationRequired" \in raised,
            !.finished = IF raised \cap Results = {} THEN @
                         ELSE CHOOSE e \in raised : e \in Results]

Returned(r, end) == [r EXCEPT !.pc = "returned", !.end = end]

\* The outcome of a finished run: the updater's result, or the refused call.
Finished(r) ==
  [Returned(r, "Finished") EXCEPT !.running = FALSE, !.finished = "none", !.internal = FALSE,
                                  !.result = IF r.internal THEN "internal" ELSE r.finished]

BeginEpisode(r) == [r EXCEPT !.pc = "episode", !.policy = Begin(@)]

\* Fault: an approval asked for stays noted.
AskApprovalAgain(r) == [r EXCEPT !.pc = "approve"]

AskApproval(r) == [r EXCEPT !.pc = "approve", !.confirm = FALSE]

Decide ==
  /\ run.pc = "decide"
  /\ \E r \in {Deliver(run)} :
       run' = IF r.finished # "none" THEN Finished(r)
              ELSE IF r.reconnect THEN BeginEpisode(r)
              ELSE IF r.confirm THEN AskApproval(r)
              ELSE IF r.left = 0 THEN Returned(r, "TimedOut")
              ELSE [r EXCEPT !.pc = "wait"]
  /\ hist' = [hist EXCEPT !.waits = IF run'.pc = "episode" THEN <<>> ELSE @]
  /\ UNCHANGED <<tool, up, client, links, disp, signal, device, pty>>

\* The approve hook, and confirm(), which the updater may refuse.
Approve ==
  /\ run.pc = "approve"
  /\ IF tool.stop THEN run' = Returned(run, "StoppedBeforeConfirm") /\ UNCHANGED up
     ELSE IF up.state = "AwaitingConfirmation"
       THEN run' = [run EXCEPT !.pc = "poll"] /\ up' = Post(up, "confirm")
       ELSE run' = [run EXCEPT !.pc = "poll", !.internal = TRUE] /\ up' = Post(up, "cancel")
  /\ UNCHANGED <<tool, client, links, disp, signal, device, pty, hist>>
-----------------------------------------------------------------------------
(* reconnect(): one episode *)

\* Fault: the updater is not told that its link will not come back.
GaveUpSilently ==
  /\ run' = [run EXCEPT !.pc = "poll", !.reconnect = FALSE, !.gaveUp = TRUE]
  /\ UNCHANGED up

GaveUp ==
  /\ run' = [run EXCEPT !.pc = "poll", !.reconnect = FALSE, !.gaveUp = TRUE]
  /\ up' = IF Quiet(up) THEN up ELSE Post(up, "gaveup")

\* Fault: the run that timed out forgets the reconnect it owes.
EpisodeForgotten(r) == Returned([r EXCEPT !.reconnect = FALSE], "TimedOut")

EpisodeTimedOut(r) == Returned(r, "TimedOut")

\* Fault: a delay that just reaches the deadline is waited out.
DelayReachesLate(delay) == run.left # Off /\ delay > run.left

DelayReaches(delay) == run.left # Off /\ delay >= run.left

\* The next attempt's delay, slept until the attempt or until the deadline.
Sleep ==
  /\ run.pc = "episode"
  /\ tool.hook /\ ~Exhausted(run.policy)
  /\ \E delay \in {NextDelay(run.policy)}, next \in {Consume(run.policy)} :
       \/ /\ run.left = 0
          /\ run' = EpisodeTimedOut(run)
          /\ UNCHANGED hist
       \/ /\ run.left # 0 /\ DelayReaches(delay)
          /\ run' = EpisodeTimedOut([run EXCEPT !.left = 0, !.policy = next])
          /\ UNCHANGED hist
       \/ /\ run.left # 0 /\ ~DelayReaches(delay)
          /\ run' = [run EXCEPT !.pc = "open", !.policy = next,
                                !.left = IF @ = Off THEN Off ELSE @ - delay]
          /\ hist' = [hist EXCEPT !.waits = Append(@, delay)]
  /\ UNCHANGED <<tool, up, client, links, disp, signal, device, pty>>

OutOfAttempts ==
  /\ run.pc = "episode"
  /\ ~tool.hook \/ Exhausted(run.policy)
  /\ GaveUp
  /\ UNCHANGED <<tool, client, links, disp, signal, device, pty, hist>>

\* Fault: the client keeps the link it had.
ResumedOnly(n, opened) ==
  /\ run' = [run EXCEPT !.pc = "poll", !.policy = Begin(@), !.reconnect = FALSE]
  /\ up' = Post(up, "resume")
  /\ links' = opened
  /\ UNCHANGED client

\* rebind_transport() fails what is outstanding in place and detaches the old
\* link; then resume_after_reconnect(), which the updater may refuse.
Rebind(n, opened) ==
  /\ \E s \in IF up.req = NoReq THEN {Step(up, "none")} ELSE Failed(up, "Disconnected") :
       LET waiting == s.u.state = "AwaitingReconnect"
           heard == IF s.event = "none" THEN run.inbox ELSE Append(run.inbox, s.event)
       IN /\ up' = IF waiting THEN Post(s.u, "resume")
                   ELSE IF Quiet(s.u) THEN s.u ELSE Post(s.u, "cancel")
          /\ run' = [run EXCEPT !.pc = "poll", !.policy = Begin(@), !.reconnect = FALSE,
                                !.internal = @ \/ ~waiting, !.inbox = heard]
  /\ links' = [opened EXCEPT ![client.bound].listener = FALSE, ![n].listener = TRUE]
  /\ client' = [bound |-> n, connected |-> TRUE]
-----------------------------------------------------------------------------
(* DispatcherWait *)

HasDeadline == up.req # NoReq \/ up.state = "AwaitingDisconnect"

\* wait_until() returns: signalled, or at the earliest deadline; or after a
\* short while when nobody has one.
Waited(r, u, s) ==
  /\ run' = [r EXCEPT !.pc = "take"]
  /\ up' = u
  /\ signal' = s
  /\ UNCHANGED <<tool, client, links, disp, device, pty, hist>>

Cleared == [signal EXCEPT !.woken = FALSE]

WaitWoken == run.pc = "wait" /\ signal.woken /\ Waited(run, up, Cleared)

WaitDue ==
  /\ run.pc = "wait"
  /\ \E left \in IF run.left = Off THEN {Off} ELSE 1..run.left :
       Waited([run EXCEPT !.left = left], [up EXCEPT !.due = HasDeadline], Cleared)

WaitOverall ==
  /\ run.pc = "wait"
  /\ run.left # Off
  /\ Waited([run EXCEPT !.left = 0], up, Cleared)

\* drain(): the queue as it is now, then one closure after the other.
TakeBatch ==
  /\ run.pc = "take"
  /\ disp' = [queue |-> <<>>, batch |-> disp.queue]
  /\ run' = [run EXCEPT !.pc = "drain"]
  /\ UNCHANGED <<tool, up, client, links, signal, device, pty, hist>>

\* Fault: the signal is cleared again once the dispatcher was drained.
DrainForgets ==
  /\ run.pc = "drain"
  /\ disp.batch = <<>>
  /\ run' = [run EXCEPT !.pc = "poll"]
  /\ signal' = Cleared
  /\ UNCHANGED <<tool, up, client, links, disp, device, pty, hist>>

DrainEnds ==
  /\ run.pc = "drain"
  /\ disp.batch = <<>>
  /\ run' = [run EXCEPT !.pc = "poll"]
  /\ UNCHANGED <<tool, up, client, links, disp, signal, device, pty, hist>>

\* A closure of a link that is closed or detached does nothing.  Bytes
\* complete the request they answer; a loss ends the link, then fails it.
RunClosure ==
  /\ run.pc = "drain"
  /\ disp.batch # <<>>
  /\ disp' = [disp EXCEPT !.batch = Tail(@)]
  /\ \E c \in {Head(disp.batch)} :
       LET deaf == ~links[c.link].open \/ ~links[c.link].listener IN
       \/ /\ deaf
          /\ UNCHANGED <<run, up, client, links, device, pty, hist>>
       \/ /\ ~deaf /\ c.what = "bytes"
          /\ IF c.req = up.req THEN Take(Answered(up, c.says), run)
             ELSE UNCHANGED <<run, up, device, pty, hist>>
          /\ UNCHANGED <<client, links>>
       \/ /\ ~deaf /\ c.what = "lost"
          /\ links' = [links EXCEPT ![c.link].open = FALSE, ![c.link].listener = FALSE]
          /\ client' = [client EXCEPT !.connected = FALSE]
          /\ IF up.req = NoReq THEN UNCHANGED <<run, up, device, pty, hist>>
             ELSE \E s \in Failed(up, "Disconnected") : Take(s, run)
  /\ UNCHANGED <<tool, signal>>

Loop ==
  \/ PollPosts \/ PollExpires \/ PollUpdater \/ Decide \/ Approve \/ Sleep \/ OutOfAttempts
  \/ WaitWoken \/ TakeBatch \/ DrainEnds \/ RunClosure
Timers == WaitDue \/ WaitOverall
=============================================================================
