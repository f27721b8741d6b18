---------------------------- MODULE Transport ----------------------------
(***************************************************************************)
(* What the three link adapters share: the client context's side of a      *)
(* Transport (send, set_listener, close), the LinkState behind close(),    *)
(* the application's Dispatcher that carries closures to the client        *)
(* context, and the medium.  PosixSerialPort, Win32SerialPort and WinRtBle *)
(* add the threads; Links runs each of them.                                *)
(*                                                                         *)
(* The client context is one thread, so its steps are atomic except where  *)
(* another thread can tell: send() reads accepting before it takes the     *)
(* lock and wakes the writer after it; shutdown() publishes accepting and  *)
(* stop in turn, wakes the thread and then waits for it.  A listener may   *)
(* call send() and close() from a callback: the callback is the last       *)
(* statement of every closure, so that is a call between two closures.     *)
(*                                                                         *)
(* A message is a number, written to the medium in Parts pieces; inbound   *)
(* packets are numbered as they arrive.                                    *)
(***************************************************************************)
EXTENDS SendQueue, Sequences, FiniteSets

CONSTANTS
  MaxMsgs,  \* bound: calls of send()
  MaxIn,    \* bound: packets that arrive over a serial port
  MaxNotify,  \* bound: notifications that arrive over BLE
  Parts     \* pieces one message is written in

ASSUME TransportBounds ==
  /\ MaxMsgs \in Nat \ {0} /\ MaxIn \in Nat
  /\ MaxNotify \in 0..MaxIn /\ Parts \in Nat \ {0}

VARIABLES
  kind,     \* which adapter: "posix", "win32" or "winrt"
  link,     \* [phase, listener, accepting, stop, held]; held: what is open
  outq,     \* the SendQueue, under the adapter's mutex
  disp,     \* the Dispatcher: [queue, batch, draining]
  client,   \* the client context: [pc, msg, tell, tries]
  port,     \* the medium: [came, unread, hung, room]
  io,       \* the serial I/O thread
  writers,  \* the write coroutines, by the message that started each
  handler,  \* the BLE event handlers
  hist      \* history: [wire, heard, counted, accepted, late]

vars == <<kind, link, outq, disp, client, port, io, writers, handler, hist>>
threads == <<io, writers, handler>>

Msgs == 1..MaxMsgs
Serial == {"posix", "win32"}

(***************************************************************************)
(* LinkState.                                                              *)
(***************************************************************************)
MaySend == link.phase = "Open"
MayDeliver == link.phase = "Open"

(***************************************************************************)
(* Dispatcher.  post() appends under the lock; drain() takes the whole     *)
(* queue under the lock and runs it outside, one closure at a time; a      *)
(* drain() inside a closure is refused.                                    *)
(***************************************************************************)
Post(d, c) == [d EXCEPT !.queue = Append(@, c)]

\* Fault: drain() called again from a closure runs the new work at once.
DrainNested ==
  /\ client.pc = "idle"
  /\ disp.queue # <<>>
  /\ disp' = [queue |-> <<>>, batch |-> disp.queue \o disp.batch, draining |-> TRUE]
  /\ UNCHANGED <<kind, link, outq, client, port, threads, hist>>

Drain ==
  /\ client.pc = "idle"
  /\ ~disp.draining
  /\ disp.queue # <<>>
  /\ disp' = [queue |-> <<>>, batch |-> disp.queue, draining |-> TRUE]
  /\ UNCHANGED <<kind, link, outq, client, port, threads, hist>>

DrainEnds ==
  /\ client.pc = "idle"
  /\ disp.draining
  /\ disp.batch = <<>>
  /\ disp' = [disp EXCEPT !.draining = FALSE]
  /\ UNCHANGED <<kind, link, outq, client, port, threads, hist>>

\* The application drops what is queued once the link has closed.
Clear ==
  /\ client.pc = "idle"
  /\ link.phase = "Closed"
  /\ disp.queue # <<>>
  /\ disp' = [disp EXCEPT !.queue = <<>>]
  /\ UNCHANGED <<kind, link, outq, client, port, threads, hist>>

(***************************************************************************)
(* shutdown(): begin_close() and the store to accepting; then stop (cancel *)
(* in the BLE adapter), the wake-up, the wait and the release.             *)
(***************************************************************************)
BeginClose(tell) ==
  /\ link' = [link EXCEPT !.phase = "Closing", !.accepting = FALSE]
  /\ client' = [client EXCEPT !.pc = "stop", !.tell = tell]

Close ==
  /\ client.pc = "idle"
  /\ link.phase = "Open"
  /\ BeginClose(FALSE)
  /\ UNCHANGED <<kind, outq, disp, port, threads, hist>>

PublishStop ==
  /\ client.pc = "stop"
  /\ link' = [link EXCEPT !.stop = TRUE]
  /\ client' = [client EXCEPT !.pc = "nudge"]
  /\ UNCHANGED <<kind, outq, disp, port, threads, hist>>

\* The listener captured by the closure that lost the link is told last.
Told(h) == IF client.tell THEN [h EXCEPT !.heard = Append(@, [k |-> "lost", n |-> 0])] ELSE h

\* Fault: the port is closed without giving up its exclusive use.
ReleasedButExclusive(l) ==
  [l EXCEPT !.phase = "Closed", !.listener = FALSE, !.held = @ \cap {"exclusive"}]

\* Everything opened is let go of, the listener forgotten, the link Closed.
\* TIOCEXCL belongs to the tty and outlives the descriptor: given up first.
Released(l) == [l EXCEPT !.phase = "Closed", !.listener = FALSE, !.held = {}]

(***************************************************************************)
(* The closures, run by drain() on the client context.                     *)
(***************************************************************************)
Closures == [k : {"bytes", "error", "lost"}, n : 0..MaxIn]

\* Fault: the closure does not ask the link again before it delivers.
DeliverUnasked(c) ==
  /\ c.k = "bytes"
  /\ hist' = [hist EXCEPT !.heard = Append(@, c)]
  /\ UNCHANGED <<link, client>>

RunBytes(c) ==
  /\ c.k = "bytes"
  /\ hist' = IF MayDeliver /\ link.listener THEN [hist EXCEPT !.heard = Append(@, c)] ELSE hist
  /\ UNCHANGED <<link, client>>

\* post_lost() of the serial adapters closes the link even unheard; the BLE
\* adapter's post_failure() does nothing without a listener.
RunLost(c) ==
  /\ c.k = "lost"
  /\ IF MayDeliver /\ (kind \in Serial \/ link.listener)
     THEN BeginClose(link.listener)
     ELSE UNCHANGED <<link, client>>
  /\ UNCHANGED hist

RunError(c) ==
  /\ c.k = "error"
  /\ hist' = IF MayDeliver /\ link.listener THEN [hist EXCEPT !.heard = Append(@, c)] ELSE hist
  /\ UNCHANGED <<link, client>>

RunClosure ==
  /\ client.pc = "idle"
  /\ disp.batch # <<>>
  /\ disp' = [disp EXCEPT !.batch = Tail(@)]
  /\ LET c == Head(disp.batch) IN RunBytes(c) \/ RunLost(c) \/ RunError(c)
  /\ UNCHANGED <<kind, outq, port, threads>>

(***************************************************************************)
(* send(): the checks, the offer under the lock, and the wake-up or the    *)
(* new writer on StartWriter.                                              *)
(***************************************************************************)
Send ==
  /\ client.pc = "idle"
  /\ client.msg < MaxMsgs
  /\ MaySend
  /\ kind \in Serial => link.accepting
  /\ client' = [client EXCEPT !.pc = "offer", !.msg = @ + 1]
  /\ UNCHANGED <<kind, link, outq, disp, port, threads, hist>>

OfferMessage ==
  /\ client.pc = "offer"
  /\ LET admission == Admission(outq) IN
     /\ client' = [client EXCEPT !.pc = IF admission = "StartWriter" THEN "start" ELSE "idle"]
     /\ hist' = IF admission = "Busy" THEN hist
                ELSE [hist EXCEPT !.accepted = @ \cup {client.msg}]
  /\ outq' = Offer(outq, client.msg)
  /\ UNCHANGED <<kind, link, disp, port, threads>>

\* set_listener(nullptr): the client detaches, to die or to be rebound.
Detach ==
  /\ client.pc = "idle"
  /\ link.listener
  /\ link' = [link EXCEPT !.listener = FALSE]
  /\ UNCHANGED <<kind, outq, disp, client, port, threads, hist>>

(***************************************************************************)
(* The medium: packets arrive, the peer goes away, the buffer drains.      *)
(***************************************************************************)
\* The packet that came first of those not read.
Oldest == port.came - port.unread + 1

Arrive ==
  /\ link.phase = "Open"
  /\ "live" \in link.held
  /\ ~port.hung
  /\ port.came < IF kind \in Serial THEN MaxIn ELSE MaxNotify
  /\ port' = [port EXCEPT !.came = @ + 1, !.unread = @ + 1]
  /\ UNCHANGED <<kind, link, outq, disp, client, threads, hist>>

HangUp ==
  /\ link.phase = "Open"
  /\ "live" \in link.held
  /\ ~port.hung
  /\ port' = [port EXCEPT !.hung = TRUE]
  /\ UNCHANGED <<kind, link, outq, disp, client, threads, hist>>

MediumDrains ==
  /\ ~port.room
  /\ port' = [port EXCEPT !.room = TRUE]
  /\ UNCHANGED <<kind, link, outq, disp, client, threads, hist>>

(***************************************************************************)
(* The adapter before open() or connect().                                 *)
(***************************************************************************)
NoWriter == [pc |-> "none", msg |-> NoMsg, written |-> 0, failed |-> "no"]

Unopened ==
  /\ link = [phase |-> "Open", listener |-> FALSE, accepting |-> TRUE, stop |-> FALSE,
             held |-> {}]
  /\ outq = Idle
  /\ disp = [queue |-> <<>>, batch |-> <<>>, draining |-> FALSE]
  /\ client = [pc |-> "unopened", msg |-> 0, tell |-> FALSE, tries |-> 0]
  /\ port = [came |-> 0, unread |-> 0, hung |-> FALSE, room |-> TRUE]
  /\ io = [pc |-> "none", writing |-> NoMsg, written |-> 0, woken |-> FALSE, ev |-> {},
           packets |-> <<>>, rd |-> "none", wr |-> "none"]
  /\ writers = [m \in Msgs |-> NoWriter]
  /\ handler = [packet |-> 0, drop |-> "no"]
  /\ hist = [wire |-> <<>>, heard |-> <<>>, counted |-> 0, accepted |-> {}, late |-> FALSE]

\* open() or connect() failed part-way: shutdown() with no thread to join.
OpenFails ==
  /\ link' = Released([link EXCEPT !.accepting = FALSE, !.stop = TRUE])
  /\ client' = [client EXCEPT !.pc = "idle", !.tries = 0]

ClientNext ==
  \/ Drain \/ DrainEnds \/ Clear \/ Close \/ PublishStop \/ RunClosure
  \/ Send \/ OfferMessage \/ Detach

MediumNext == Arrive \/ HangUp \/ MediumDrains
=============================================================================
