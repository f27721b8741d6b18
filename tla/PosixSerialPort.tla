------------------------- MODULE PosixSerialPort -------------------------
(***************************************************************************)
(* SerialPortTransport over POSIX                                          *)
(* (transports/serial_port/posix/serial_port_posix.cpp): one I/O thread    *)
(* running poll() over the port and a wake-up pipe.  io.pc is the place in *)
(* run(), io.ev the events the last poll() returned, io.woken a byte in    *)
(* the pipe, io.packets what a read completed and has not posted yet.      *)
(* EINTR, which only goes round a loop again, is left out.                 *)
(***************************************************************************)
EXTENDS Transport

posixOnly == <<kind, writers, handler>>

\* open_wake_pipe(): no pipe, a pipe that cannot be configured, or a pipe.
OpenWakePipe == {[held |-> {}, ok |-> FALSE],
                 [held |-> {"wake"}, ok |-> FALSE],
                 [held |-> {"wake"}, ok |-> TRUE]}

\* open_port(): no port, a port that cannot be configured, or one that is
\* ready, and exclusive (a driver without TIOCEXCL has less to give up).
OpenPort == {[held |-> {}, ok |-> FALSE],
             [held |-> {"port"}, ok |-> FALSE],
             [held |-> {"port", "live", "exclusive"}, ok |-> TRUE]}

\* open(): the pipe, the port, the thread; the caller binds its client at once.
OpenPosix ==
  /\ kind = "posix"
  /\ client.pc = "unopened"
  /\ \E w \in OpenWakePipe, p \in OpenPort :
        IF w.ok /\ p.ok
        THEN /\ link' = [link EXCEPT !.held = w.held \cup p.held, !.listener = TRUE]
             /\ io' = [io EXCEPT !.pc = "top"]
             /\ client' = [client EXCEPT !.pc = "idle"]
        ELSE OpenFails /\ UNCHANGED io
  /\ UNCHANGED <<posixOnly, outq, disp, port, hist>>

\* Fault: shutdown() does not wake the thread it is about to join.
NoWakeToStop ==
  /\ kind = "posix"
  /\ client.pc \in {"start", "nudge"}
  /\ io' = [io EXCEPT !.woken = @ \/ client.pc = "start"]
  /\ client' = [client EXCEPT !.pc = IF @ = "start" THEN "idle" ELSE "join"]
  /\ UNCHANGED <<posixOnly, link, outq, disp, port, hist>>

\* wake(): a byte in the pipe.
WakePosix ==
  /\ kind = "posix"
  /\ client.pc \in {"start", "nudge"}
  /\ io' = [io EXCEPT !.woken = TRUE]
  /\ client' = [client EXCEPT !.pc = IF @ = "start" THEN "idle" ELSE "join"]
  /\ UNCHANGED <<posixOnly, link, outq, disp, port, hist>>

\* The end of shutdown(): the thread has returned.
JoinPosix ==
  /\ kind = "posix"
  /\ client.pc = "join"
  /\ io.pc = "done"
  /\ outq' = DiscardQueued(outq)
  /\ link' = Released(link)
  /\ client' = [client EXCEPT !.pc = "idle", !.tell = FALSE]
  /\ hist' = Told(hist)
  /\ UNCHANGED <<posixOnly, disp, port, io>>

\* post_lost(), after which run() leaves its loop.
LosePosix ==
  /\ disp' = Post(disp, [k |-> "lost", n |-> 0])
  /\ io' = [io EXCEPT !.pc = "exit", !.ev = {}]
  /\ UNCHANGED <<posixOnly, link, outq, client, port, hist>>

IoTop ==
  /\ io.pc = "top"
  /\ io' = IF link.stop THEN [io EXCEPT !.pc = "done", !.writing = NoMsg, !.written = 0]
           ELSE [io EXCEPT !.pc = "take"]
  /\ UNCHANGED <<posixOnly, link, outq, disp, client, port, hist>>

\* take_next(), when no message is part-written.
TakeNext ==
  /\ io.pc = "take"
  /\ IF io.writing = NoMsg
     THEN /\ outq' = NextForWriter(outq)
          /\ io' = [io EXCEPT !.pc = "poll", !.writing = outq.waiting, !.written = 0]
     ELSE /\ io' = [io EXCEPT !.pc = "poll"]
          /\ UNCHANGED outq
  /\ UNCHANGED <<posixOnly, link, disp, client, port, hist>>

\* What poll() can report: a hang-up may or may not come with POLLIN.
PollResults ==
  {e \in SUBSET {"in", "out", "hup", "wake"} :
     /\ e # {}
     /\ port.unread > 0 => "in" \in e
     /\ "in" \in e => port.unread > 0 \/ port.hung
     /\ "out" \in e <=> io.writing # NoMsg /\ (port.room \/ port.hung)
     /\ "hup" \in e <=> port.hung
     /\ "wake" \in e <=> io.woken}

\* The first of run()'s checks that these events pass, after stage.
Then(e, stage) ==
  CASE stage = "poll" /\ "wake" \in e -> "drain"
    [] stage \in {"poll", "drain"} /\ "in" \in e -> "read"
    [] stage \in {"poll", "drain", "read"} /\ "out" \in e -> "write"
    [] stage \in {"poll", "drain", "read", "write"} /\ "hup" \in e /\ "in" \notin e -> "hup"
    [] OTHER -> "top"

\* The thread goes on from stage; events are of no use once they are handled.
GoOn(i, stage) ==
  LET next == Then(i.ev, stage)
  IN [i EXCEPT !.pc = next, !.ev = IF next \in {"top", "hup"} THEN {} ELSE @]

Poll ==
  /\ io.pc = "poll"
  /\ \E e \in PollResults : io' = GoOn([io EXCEPT !.ev = e], "poll")
  /\ UNCHANGED <<posixOnly, link, outq, disp, client, port, hist>>

PollFails == kind = "posix" /\ io.pc = "poll" /\ LosePosix

\* Fault: the pipe is drained, and then the thread goes back to sleep.
DrainWakeAndSleep ==
  /\ io.pc = "drain"
  /\ io' = [io EXCEPT !.pc = IF io.ev = {"wake"} THEN "poll" ELSE Then(io.ev, "drain"),
                      !.woken = FALSE]
  /\ UNCHANGED <<posixOnly, link, outq, disp, client, port, hist>>

DrainWake ==
  /\ io.pc = "drain"
  /\ io' = GoOn([io EXCEPT !.woken = FALSE], "drain")
  /\ UNCHANGED <<posixOnly, link, outq, disp, client, port, hist>>

(***************************************************************************)
(* read_port(): read() until it would block; packets are counted under the *)
(* lock and only then posted.                                              *)
(***************************************************************************)
\* Fault: the packets are posted first and counted after.
ReadUncounted ==
  /\ io.pc = "read"
  /\ port.unread > 0
  /\ \E n \in 1..port.unread :
        /\ port' = [port EXCEPT !.unread = @ - n]
        /\ io' = [io EXCEPT !.pc = "post", !.packets = [i \in 1..n |-> Oldest + i - 1]]
  /\ UNCHANGED <<posixOnly, link, outq, disp, client, hist>>

ReadPackets ==
  /\ io.pc = "read"
  /\ port.unread > 0
  /\ \E n \in 1..port.unread :
        /\ port' = [port EXCEPT !.unread = @ - n]
        /\ io' = [io EXCEPT !.pc = "post", !.packets = [i \in 1..n |-> Oldest + i - 1]]
        /\ hist' = [hist EXCEPT !.counted = @ + n]
  /\ UNCHANGED <<posixOnly, link, outq, disp, client>>

PostPackets ==
  /\ io.pc = "post"
  /\ disp' = Post(disp, [k |-> "bytes", n |-> Head(io.packets)])
  /\ io' = [io EXCEPT !.packets = Tail(@), !.pc = IF Len(io.packets) = 1 THEN "read" ELSE "post"]
  /\ UNCHANGED <<posixOnly, link, outq, client, port, hist>>

ReadHungUp == io.pc = "read" /\ port.unread = 0 /\ port.hung /\ LosePosix

ReadEnds ==
  /\ io.pc = "read"
  /\ port.unread = 0 /\ ~port.hung
  /\ io' = GoOn(io, "read")
  /\ UNCHANGED <<posixOnly, link, outq, disp, client, port, hist>>

(***************************************************************************)
(* write_port(): write() until the message is out or the port is full.     *)
(***************************************************************************)
WritePart ==
  /\ io.pc = "write"
  /\ io.written < Parts /\ port.room /\ ~port.hung
  /\ hist' = [hist EXCEPT !.wire = Append(@, <<io.writing, io.written + 1>>)]
  /\ io' = [io EXCEPT !.written = @ + 1]
  /\ port' = [port EXCEPT !.room = FALSE]
  /\ UNCHANGED <<posixOnly, link, outq, disp, client>>

WriteFails == io.pc = "write" /\ io.written < Parts /\ port.hung /\ LosePosix

WriteEnds ==
  /\ io.pc = "write"
  /\ \/ /\ io.written = Parts
        /\ io' = GoOn([io EXCEPT !.writing = NoMsg, !.written = 0], "write")
     \/ /\ io.written < Parts /\ ~port.room /\ ~port.hung
        /\ io' = GoOn(io, "write")
  /\ UNCHANGED <<posixOnly, link, outq, disp, client, port, hist>>

\* Fault: POLLHUP alone is left for a read to find.
HupIgnored ==
  /\ io.pc = "hup"
  /\ io' = [io EXCEPT !.pc = "top"]
  /\ UNCHANGED <<posixOnly, link, outq, disp, client, port, hist>>

\* Hung up with nothing left to read.
HupLoses == io.pc = "hup" /\ LosePosix

\* The thread's own state goes with it.
IoExit ==
  /\ io.pc = "exit"
  /\ link' = [link EXCEPT !.accepting = FALSE]
  /\ io' = [io EXCEPT !.pc = "done", !.writing = NoMsg, !.written = 0]
  /\ UNCHANGED <<posixOnly, outq, disp, client, port, hist>>

PosixSteps ==
  /\ kind = "posix"
  /\ \/ IoTop \/ TakeNext \/ Poll \/ DrainWake
     \/ ReadPackets \/ PostPackets \/ ReadHungUp \/ ReadEnds
     \/ WritePart \/ WriteFails \/ WriteEnds \/ HupLoses \/ IoExit

PosixThread == PosixSteps \/ PollFails

PosixClient == OpenPosix \/ WakePosix \/ JoinPosix
=============================================================================
