------------------------------ MODULE Links ------------------------------
(***************************************************************************)
(* One link of any of the three adapters, from open() or connect() to the  *)
(* end, with the client context, the adapter's threads, the dispatcher     *)
(* between them and a medium that may go away.                             *)
(***************************************************************************)
EXTENDS PosixSerialPort, Win32SerialPort, WinRtBle

Init == kind \in {"posix", "win32", "winrt"} /\ Unopened

Next ==
  \/ ClientNext \/ PosixClient \/ Win32Client \/ WinRtClient
  \/ PosixThread \/ Win32Thread \/ WinRtPool
  \/ Win32System \/ MediumNext

(***************************************************************************)
(* Fairness.  Threads run, the application goes on draining and returns    *)
(* from its calls, the system completes what it was given, a medium that   *)
(* is there takes bytes.  Nobody has to send, detach, close or hang up,    *)
(* and poll() and the wait need not fail.                                  *)
(***************************************************************************)
ClientContext ==
  \/ Drain \/ DrainEnds \/ RunClosure \/ OfferMessage \/ PublishStop
  \/ PosixClient \/ Win32Client \/ WinRtClient

Fairness ==
  /\ WF_vars(ClientContext)
  /\ WF_vars(PosixSteps \/ Win32Steps)
  /\ WF_vars(CompleteRead)
  /\ WF_vars(CompleteWrite \/ MediumDrains)
  /\ \A m \in Msgs : WF_vars(kind = "winrt" /\ WriterNext(m))
  /\ WF_vars(kind = "winrt" /\ HandlerNext)

Spec == Init /\ [][Next]_vars /\ Fairness

(***************************************************************************)
(* Properties.                                                             *)
(***************************************************************************)
Pcs == {"unopened", "discover", "cccd", "idle", "offer", "start", "stop", "nudge", "join"}
IoPcs == {"none", "top", "take", "poll", "drain", "read", "post", "write", "hup", "exit", "done",
          "begin", "wtop", "wtake", "issue", "wait", "rd", "wpost", "wr", "cancel", "wexit"}

\* Types; a message waits only while the claim is taken
\* (SendQueue: "that pairing is the invariant").
TypeOK ==
  /\ link.phase \in {"Open", "Closing", "Closed"}
  /\ outq \in [waiting : 0..MaxMsgs, writing : BOOLEAN]
  /\ outq.waiting # NoMsg => outq.writing
  /\ client.pc \in Pcs /\ io.pc \in IoPcs
  /\ io.writing \in 0..MaxMsgs /\ io.written \in 0..Parts
  /\ \A i \in 1..Len(disp.queue) : disp.queue[i] \in Closures

Heard == hist.heard

\* close(): "After it returns, no listener method can fire", and none but the
\* report of the loss itself once a link is lost (transport.hpp).  A listener
\* hears something only over an open link, or the loss as shutdown() ends.
QuietOnceClosing ==
  Heard' # Heard =>
    \/ link.phase = "Open" /\ link.listener
    \/ client.pc = "join" /\ client.tell /\ Heard'[Len(Heard')].k = "lost"

\* Packets reach the listener in the order the device sent them, each once and
\* with none left out, across read(), post(), drain() and re-entrant calls.
PacketsInOrder ==
  LET packets == SelectSeq(Heard, LAMBDA c : c.n > 0)
  IN \A i \in 1..Len(packets) : packets[i].n = i

\* "a packet the listener has seen is always one counters() already shows"
\* (serial_port_posix.cpp:224): the count is published before the closure.
CountedBeforeHeard ==
  kind \in Serial => \A i \in 1..Len(Heard) : Heard[i].n <= hist.counted

\* What a listener hears is what arrived: in order, once, and counted
\* (read_port(), post_packet(), drain()).
PacketsSound == PacketsInOrder /\ CountedBeforeHeard

\* Two writers would interleave two messages' fragments: on the wire a piece
\* is followed by the next piece of its message or the first of another.
NeverInterleaved ==
  \A i \in 1..(Len(hist.wire) - 1) :
     \/ hist.wire[i + 1] = <<hist.wire[i][1], hist.wire[i][2] + 1>>
     \/ hist.wire[i + 1][1] > hist.wire[i][1] /\ hist.wire[i + 1][2] = 1

\* After a message abandoned part-way nothing more is written: on a serial
\* port a failed write ends the link rather than carrying on.
NothingAfterPartial(wire) ==
  \A i \in 1..(Len(wire) - 1) : wire[i][2] < Parts => wire[i + 1][1] = wire[i][1]

SerialKeepsWhole == kind \in Serial => NothingAfterPartial(hist.wire)

\* Messages leave one at a time, and on a serial port whole or as the last
\* thing that leaves (next_for_writer(), take_next(), write_message()).
MessagesWhole == NeverInterleaved /\ SerialKeepsWhole

\* What write_message() says of a failed message, "the next message's bytes
\* would be consumed as that one's tail -- a mis-framing nothing reports"
\* (winrt_ble_transport.cpp:338): it stops the writer so that this cannot be.
BleKeepsWhole == kind = "winrt" => NothingAfterPartial(hist.wire)

\* close() leaves nothing behind: every handle, the tty's exclusive use, the
\* thread, and no overlapped operation that could still write into State.
ClosedIsClean ==
  link.phase = "Closed" =>
    /\ link.held = {} /\ ~link.listener
    /\ io.pc \in {"none", "done"}
    /\ io.rd = "none" /\ io.wr = "none"

\* A closed link puts nothing more on the medium, unless close() gave up on a
\* stuck BLE write after its grace.
ClosedIsSilent == link.phase = "Closed" /\ ~hist.late => hist.wire' = hist.wire

\* Once a link closes its listener hears no more of it than the loss, and once
\* it is closed the medium hears nothing (shutdown()).
ClosedIsQuiet == [][QuietOnceClosing /\ ClosedIsSilent]_vars

\* close() returns: the join, or the wait for a writer, never blocks for ever.
CloseReturns == (client.pc \in {"stop", "nudge", "join"}) ~> (client.pc = "idle")

\* A peer that goes away is noticed: the link is closed, unless its listener
\* has left it.
LossIsNoticed == port.hung ~> (link.phase = "Closed" \/ ~link.listener)

\* A link that should end does: close() returns, and a lost link is closed
\* (shutdown(), run()).
LinkEnds == CloseReturns /\ LossIsNoticed

Sent(m) == \E i \in 1..Len(hist.wire) : hist.wire[i] = <<m, Parts>>

\* No message accepted by send() is forgotten: it goes out, or the link closes,
\* or the listener hears of a failure, or has left.
AcceptedIsSettled ==
  \A m \in Msgs :
    (m \in hist.accepted) ~>
      \/ Sent(m) \/ link.phase = "Closed" \/ ~link.listener
      \/ \E i \in 1..Len(Heard) : Heard[i] = [k |-> "error", n |-> 0]

\* No packet is stranded in the dispatcher or the driver: it is heard, or the
\* link closes or its listener leaves.
PacketsAreHeard ==
  \A p \in 1..MaxIn :
    (port.came >= p) ~>
      \/ \E i \in 1..Len(Heard) : Heard[i].n = p
      \/ link.phase = "Closed" \/ ~link.listener

\* Nothing taken in either direction is stranded on the way (offer(),
\* next_for_writer(), post(), drain()).
NothingStranded == AcceptedIsSettled /\ PacketsAreHeard
=============================================================================
