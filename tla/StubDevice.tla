---------------------------- MODULE StubDevice ----------------------------
(***************************************************************************)
(* The device an application updates: the stub's own thread                *)
(* (examples/stub_device), the loopback link (examples/cli_dfu) and the    *)
(* pseudo-terminal with its reader thread (examples/serial_dfu).  Over a   *)
(* radio the device is external: it answers and reboots the same way, and  *)
(* its link may also drop by itself.                                       *)
(*                                                                         *)
(* A pseudo-terminal is a generation number; a CDC reset replaces it.      *)
(***************************************************************************)
EXTENDS UpdateRun

\* The device, with what it has of the image, and the pseudo-terminal, before
\* anything was sent.
FreshDevice(attached, image) ==
  [pc |-> "wait", inbox |-> <<>>, attached |-> attached, to |-> 0, req |-> NoReq,
   stop |-> FALSE, image |-> image, drops |-> 0]
FreshPty == [gen |-> 1, published |-> 1, next |-> 0, retiring |-> 0, closed |-> {}, line |-> <<>>,
             pc |-> "top", held |-> 0, woken |-> FALSE, stop |-> FALSE]

\* post(): the closure is queued, then the client context is signalled.
PostAll(cs) ==
  /\ disp' = [disp EXCEPT !.queue = @ \o cs]
  /\ signal' = IF cs = <<>> THEN signal ELSE [signal EXCEPT !.waking = @ + 1]

Wake ==
  /\ signal.waking > 0
  /\ signal' = [woken |-> TRUE, waking |-> signal.waking - 1]
  /\ UNCHANGED <<tool, run, up, client, links, disp, device, pty, hist>>

Bytes(n, req, says) == [link |-> n, what |-> "bytes", req |-> req, says |-> says]
Lost(n) == [link |-> n, what |-> "lost", req |-> NoReq, says |-> "none"]

\* The links with generation g open: at most one, the port being exclusive.
OnLine(g) == {n \in DOMAIN links : links[n].open /\ links[n].gen = g}

\* write_locked(): what the port says, if anyone has it open.
WriteLocked(g, closure) ==
  IF OnLine(g) = {} THEN <<>> ELSE <<[closure EXCEPT !.link = CHOOSE n \in OnLine(g) : TRUE]>>

\* A poster is inside post() until it has signalled.
Between == Serial \/ signal.waking = 0
-----------------------------------------------------------------------------
(* StubDevice::run() *)

TakeRequest ==
  /\ device.pc = "wait"
  /\ ~device.stop
  /\ device.inbox # <<>>
  /\ Between
  /\ device' = [device EXCEPT !.inbox = Tail(@), !.to = device.attached,
                              !.req = IF device.attached = 0 THEN NoReq ELSE Head(device.inbox),
                              !.pc = IF device.attached = 0 THEN "wait" ELSE "answer"]
  /\ UNCHANGED <<tool, run, up, client, links, disp, signal, pty, hist>>

\* What a request makes of the image: "ask" stands for the commands up to the
\* mark, the upload among them.
Carried(name, image) ==
  CASE name = "ask" /\ image = "none" -> "stored"
    [] name \in {"confirm", "confirmRunning"} /\ image = "trial" -> "kept"
    [] OTHER -> image

\* How a request may go: [image, says], the image after it and the answer,
\* which tells of the image unless it is an error.  The stub always accepts a
\* reset and a read; an upload may be stored and its mark refused.
Outcomes(name, image) ==
  LET done == Carried(name, image) IN
  {[image |-> done, says |-> done]} \cup
  {[image |-> after, says |-> "refused"] :
     after \in IF name \in {"reset", "verify"} /\ tool.shape # "radio" THEN {}
              ELSE IF name = "ask" THEN {image, done} ELSE {image}}

\* answer() and deliver().  A reset is accepted first, and carried out after.
Answer ==
  /\ device.pc = "answer"
  /\ \E o \in Outcomes(device.req.name, device.image) :
       /\ device' = [device EXCEPT !.pc = IF device.req.name = "reset" /\ o.says # "refused"
                                          THEN "resetting" ELSE "wait",
                                   !.image = o.image,
                                   !.req = NoReq]
       /\ LET reply == Bytes(device.to, device.req, o.says) IN
          PostAll(IF Serial THEN WriteLocked(pty.gen, reply) ELSE <<reply>>)
  /\ UNCHANGED <<tool, run, up, client, links, pty, hist>>

\* Fault: the device closes the old port itself.
PtyClosesOld ==
  [pty EXCEPT !.gen = @ + 1, !.next = pty.gen + 1, !.published = 0, !.closed = @ \cup {pty.gen},
              !.woken = TRUE]

\* Fault: the path keeps naming the port that goes.
PtyKeepsPath ==
  [pty EXCEPT !.gen = @ + 1, !.next = pty.gen + 1, !.retiring = pty.gen, !.woken = TRUE]

\* PtyStub::device_resetting() of a CDC port: the path goes, the next
\* pseudo-terminal is made, and the old one is left to the reader.
PtyResets ==
  [pty EXCEPT !.gen = @ + 1, !.next = pty.gen + 1, !.published = 0, !.retiring = pty.gen,
              !.woken = TRUE]

\* device_resetting(): a UART goes quiet, a CDC port is replaced (or, when
\* no pseudo-terminal can be had, only loses its path), a radio link drops.
Resetting ==
  /\ device.pc = "resetting"
  /\ Between
  /\ device' = [device EXCEPT !.pc = "forget"]
  /\ CASE tool.shape = "uart" -> UNCHANGED <<pty, disp, signal>>
       [] tool.shape = "cdc" -> /\ pty' \in {PtyResets, [pty EXCEPT !.published = 0]}
                                /\ UNCHANGED <<disp, signal>>
       [] OTHER -> PostAll(<<Lost(device.to)>>) /\ UNCHANGED pty
  /\ UNCHANGED <<tool, run, up, client, links, hist>>

\* The dead link and what is queued for it are forgotten before the reboot.
Forget ==
  /\ device.pc = "forget"
  /\ Between
  /\ device' = [device EXCEPT !.pc = "reboot", !.inbox = <<>>,
                              !.attached = IF Serial THEN @ ELSE 0]
  /\ UNCHANGED <<tool, run, up, client, links, disp, signal, pty, hist>>

\* What a boot makes of the image: on trial, kept by a bootloader that cannot
\* revert, or not booted; a trial that was not confirmed is reverted.
Boots(image) ==
  CASE image = "stored" -> {"stored", "trial", "kept"}
    [] image = "trial" -> {"stored"}
    [] OTHER -> {image}

\* reboot(), then device_booted(): a CDC port's path appears again.
Booted ==
  /\ device.pc = "reboot"
  /\ \E image \in Boots(device.image) :
       device' = [device EXCEPT !.pc = "wait", !.to = 0, !.image = image]
  /\ pty' = IF tool.shape = "cdc" /\ pty.next # 0
            THEN [pty EXCEPT !.published = pty.next, !.next = 0] ELSE pty
  /\ UNCHANGED <<tool, run, up, client, links, disp, signal, hist>>

DeviceStops ==
  /\ device.pc = "wait"
  /\ device.stop
  /\ device' = [device EXCEPT !.pc = "done", !.inbox = <<>>]
  /\ UNCHANGED <<tool, run, up, client, links, disp, signal, pty, hist>>

\* A radio link drops with nobody's doing (tool.drops bounds how often).
RadioDrops ==
  /\ tool.shape = "radio"
  /\ device.pc = "wait"
  /\ device.attached # 0
  /\ device.drops < tool.drops
  /\ device' = [device EXCEPT !.drops = @ + 1, !.attached = 0, !.inbox = <<>>]
  /\ PostAll(<<Lost(device.attached)>>)
  /\ UNCHANGED <<tool, run, up, client, links, pty, hist>>
-----------------------------------------------------------------------------
(* PtyStub::read_loop() *)

\* The top of the loop: the retired port is closed, which its client hears as
\* a hang-up, and the current one is polled.
ReaderTop ==
  /\ Serial
  /\ pty.pc = "top"
  /\ pty' = IF pty.stop THEN [pty EXCEPT !.pc = "done"]
            ELSE [pty EXCEPT !.pc = "poll", !.held = pty.gen, !.retiring = 0,
                             !.closed = IF pty.retiring = 0 THEN @ ELSE @ \cup {pty.retiring},
                             !.line = SelectSeq(@, LAMBDA m : m.gen # pty.retiring)]
  /\ PostAll(IF pty.stop \/ pty.retiring = 0 THEN <<>> ELSE WriteLocked(pty.retiring, Lost(0)))
  /\ UNCHANGED <<tool, run, up, client, links, device, hist>>

Readable == pty.line # <<>> /\ Head(pty.line).gen = pty.held

\* poll() returns: the wake pipe is drained, and what came in is submitted.
ReaderPolls ==
  /\ pty.pc = "poll"
  /\ pty.woken \/ Readable
  /\ pty' = [pty EXCEPT !.pc = "top", !.woken = FALSE, !.held = 0,
                        !.line = IF Readable THEN Tail(@) ELSE @]
  /\ device' = IF Readable THEN [device EXCEPT !.inbox = Append(@, Head(pty.line).req)] ELSE device
  /\ UNCHANGED <<tool, run, up, client, links, disp, signal, hist>>

DeviceThread ==
  \/ TakeRequest \/ Answer \/ Resetting \/ Forget \/ Booted \/ DeviceStops
Reader == ReaderTop \/ ReaderPolls
=============================================================================
