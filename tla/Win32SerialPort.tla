------------------------- MODULE Win32SerialPort -------------------------
(***************************************************************************)
(* SerialPortTransport over Win32                                          *)
(* (transports/serial_port/win32/serial_port_win32.cpp): one I/O thread    *)
(* with an overlapped read always outstanding, an overlapped write while a *)
(* message is part-written, and an auto-reset wake event (io.woken).       *)
(* io.rd and io.wr are the two operations: "none", "pending", or complete  *)
(* with "done" or "failed" (the event signalled).  The operating system    *)
(* completes them; io.packets holds what a completed read put in the       *)
(* buffer, then what is still to be posted.                                *)
(***************************************************************************)
EXTENDS Transport

win32Only == <<kind, writers, handler>>

\* open_events(): some event could not be made, or all three.
OpenEvents == {[held |-> {}, ok |-> FALSE],
               [held |-> {"wake"}, ok |-> FALSE],
               [held |-> {"wake", "read_done", "write_done"}, ok |-> TRUE]}

\* open_port(): no port, a port that cannot be configured, or a port.
OpenComPort == {[held |-> {}, ok |-> FALSE],
                [held |-> {"port"}, ok |-> FALSE],
                [held |-> {"port", "live"}, ok |-> TRUE]}

OpenWin32 ==
  /\ kind = "win32"
  /\ client.pc = "unopened"
  /\ \E e \in OpenEvents, p \in OpenComPort :
        IF e.ok /\ p.ok
        THEN /\ link' = [link EXCEPT !.held = e.held \cup p.held, !.listener = TRUE]
             /\ io' = [io EXCEPT !.pc = "begin"]
             /\ client' = [client EXCEPT !.pc = "idle"]
        ELSE OpenFails /\ UNCHANGED io
  /\ UNCHANGED <<win32Only, outq, disp, port, hist>>

\* wake(): SetEvent().
WakeWin32 ==
  /\ kind = "win32"
  /\ client.pc \in {"start", "nudge"}
  /\ io' = [io EXCEPT !.woken = TRUE]
  /\ client' = [client EXCEPT !.pc = IF @ = "start" THEN "idle" ELSE "join"]
  /\ UNCHANGED <<win32Only, link, outq, disp, port, hist>>

JoinWin32 ==
  /\ kind = "win32"
  /\ client.pc = "join"
  /\ io.pc = "done"
  /\ outq' = DiscardQueued(outq)
  /\ link' = Released(link)
  /\ client' = [client EXCEPT !.pc = "idle", !.tell = FALSE]
  /\ hist' = Told(hist)
  /\ UNCHANGED <<win32Only, disp, port, io>>

\* post_lost(), after which run() leaves its loop to cancel what is pending.
LoseWin32 ==
  /\ disp' = Post(disp, [k |-> "lost", n |-> 0])
  /\ io' = [io EXCEPT !.pc = "cancel", !.packets = <<>>]
  /\ UNCHANGED <<win32Only, link, outq, client, port, hist>>

\* start_read() at the top of run(); a failure returns without the loop.
FirstRead ==
  /\ io.pc = "begin"
  /\ io' = [io EXCEPT !.pc = "wtop", !.rd = "pending"]
  /\ UNCHANGED <<win32Only, link, outq, disp, client, port, hist>>

FirstReadFails ==
  /\ io.pc = "begin"
  /\ disp' = Post(disp, [k |-> "lost", n |-> 0])
  /\ io' = [io EXCEPT !.pc = "wexit"]
  /\ UNCHANGED <<win32Only, link, outq, client, port, hist>>

WinTop ==
  /\ io.pc = "wtop"
  /\ io' = [io EXCEPT !.pc = IF link.stop THEN "cancel" ELSE "wtake"]
  /\ UNCHANGED <<win32Only, link, outq, disp, client, port, hist>>

\* Fault: the next message is taken although one is part-written.
TakeOver ==
  /\ io.pc = "wtake"
  /\ outq' = NextForWriter(outq)
  /\ io' = [io EXCEPT !.pc = "issue", !.writing = outq.waiting, !.written = 0]
  /\ UNCHANGED <<win32Only, link, disp, client, port, hist>>

WinTakeNext ==
  /\ io.pc = "wtake"
  /\ IF io.writing = NoMsg
     THEN /\ outq' = NextForWriter(outq)
          /\ io' = [io EXCEPT !.pc = "issue", !.writing = outq.waiting, !.written = 0]
     ELSE /\ io' = [io EXCEPT !.pc = "issue"]
          /\ UNCHANGED outq
  /\ UNCHANGED <<win32Only, link, disp, client, port, hist>>

\* start_write(): what is left of the message, if none is outstanding.
StartWrite ==
  /\ io.pc = "issue"
  /\ io' = [io EXCEPT !.pc = "wait",
                      !.wr = IF io.writing # NoMsg /\ @ = "none" THEN "pending" ELSE @]
  /\ UNCHANGED <<win32Only, link, outq, disp, client, port, hist>>

StartWriteFails == io.pc = "issue" /\ io.writing # NoMsg /\ io.wr = "none" /\ port.hung /\ LoseWin32

Complete(op) == op \in {"done", "failed"}

\* WaitForMultipleObjects(): the wake event has the first index, so it is
\* reset whenever it is signalled.
Wait ==
  /\ io.pc = "wait"
  /\ io.woken \/ Complete(io.rd) \/ Complete(io.wr)
  /\ io' = [io EXCEPT !.pc = "rd", !.woken = FALSE]
  /\ UNCHANGED <<win32Only, link, outq, disp, client, port, hist>>

WaitFails == kind = "win32" /\ io.pc = "wait" /\ LoseWin32

\* finish_read(): counted under the lock, posted after; an empty completion
\* is the read timing out.
FinishRead ==
  /\ io.pc = "rd" /\ io.rd = "done"
  /\ hist' = [hist EXCEPT !.counted = @ + Len(io.packets)]
  /\ io' = [io EXCEPT !.pc = "wpost", !.rd = "none"]
  /\ UNCHANGED <<win32Only, link, outq, disp, client, port>>

WinPostPackets ==
  /\ io.pc = "wpost" /\ io.packets # <<>>
  /\ disp' = Post(disp, [k |-> "bytes", n |-> Head(io.packets)])
  /\ io' = [io EXCEPT !.packets = Tail(@)]
  /\ UNCHANGED <<win32Only, link, outq, client, port, hist>>

\* Fault: a read that brought something is not followed by another.
NoNextRead ==
  /\ io.pc = "wpost" /\ io.packets = <<>>
  /\ io' = [io EXCEPT !.pc = "wr"]
  /\ UNCHANGED <<win32Only, link, outq, disp, client, port, hist>>

NextRead ==
  /\ io.pc = "wpost" /\ io.packets = <<>>
  /\ io' = [io EXCEPT !.pc = "wr", !.rd = "pending"]
  /\ UNCHANGED <<win32Only, link, outq, disp, client, port, hist>>

ReadLost ==
  /\ \/ io.pc = "rd" /\ io.rd = "failed"
     \/ io.pc = "wpost" /\ io.packets = <<>> /\ port.hung
  /\ disp' = Post(disp, [k |-> "lost", n |-> 0])
  /\ io' = [io EXCEPT !.pc = "cancel", !.rd = "none"]
  /\ UNCHANGED <<win32Only, link, outq, client, port, hist>>

NoRead ==
  /\ io.pc = "rd" /\ ~Complete(io.rd)
  /\ io' = [io EXCEPT !.pc = "wr"]
  /\ UNCHANGED <<win32Only, link, outq, disp, client, port, hist>>

\* finish_write(): the message is finished with when all of it has gone.
FinishWrite ==
  /\ io.pc = "wr" /\ io.wr # "failed"
  /\ LET over == io.wr = "done" /\ io.written = Parts IN
     io' = [io EXCEPT !.pc = "wtop", !.wr = IF @ = "done" THEN "none" ELSE @,
                      !.writing = IF over THEN NoMsg ELSE @, !.written = IF over THEN 0 ELSE @]
  /\ UNCHANGED <<win32Only, link, outq, disp, client, port, hist>>

WriteLost ==
  /\ io.pc = "wr" /\ io.wr = "failed"
  /\ disp' = Post(disp, [k |-> "lost", n |-> 0])
  /\ io' = [io EXCEPT !.pc = "cancel", !.wr = "none"]
  /\ UNCHANGED <<win32Only, link, outq, client, port, hist>>

\* cancel_pending(): cancels, and waits until neither can touch State.
CancelPending ==
  /\ io.pc = "cancel"
  /\ io' = [io EXCEPT !.pc = "wexit", !.rd = "none", !.wr = "none", !.packets = <<>>]
  /\ UNCHANGED <<win32Only, link, outq, disp, client, port, hist>>

WinExit ==
  /\ io.pc = "wexit"
  /\ link' = [link EXCEPT !.accepting = FALSE]
  /\ io' = [io EXCEPT !.pc = "done", !.writing = NoMsg, !.written = 0]
  /\ UNCHANGED <<win32Only, outq, disp, client, port, hist>>

\* The operating system completes the read: with packets, with none after a
\* second, or with a failure once the port is gone.
CompleteRead ==
  /\ kind = "win32"
  /\ io.rd = "pending"
  /\ \/ /\ port.unread > 0
        /\ \E n \in 1..port.unread :
              /\ port' = [port EXCEPT !.unread = @ - n]
              /\ io' = [io EXCEPT !.rd = "done", !.packets = [i \in 1..n |-> Oldest + i - 1]]
     \/ port.unread = 0 /\ ~port.hung /\ io' = [io EXCEPT !.rd = "done"] /\ UNCHANGED port
     \/ port.unread = 0 /\ port.hung /\ io' = [io EXCEPT !.rd = "failed"] /\ UNCHANGED port
  /\ UNCHANGED <<win32Only, link, outq, disp, client, hist>>

\* ... and the write, with all or part of what was asked for.
CompleteWrite ==
  /\ kind = "win32"
  /\ io.wr = "pending"
  /\ \/ /\ ~port.hung
        /\ \E n \in 1..(Parts - io.written) :
              /\ io' = [io EXCEPT !.wr = "done", !.written = @ + n]
              /\ hist' = [hist EXCEPT !.wire =
                            @ \o [i \in 1..n |-> <<io.writing, io.written + i>>]]
     \/ port.hung /\ io' = [io EXCEPT !.wr = "failed"] /\ UNCHANGED hist
  /\ UNCHANGED <<win32Only, link, outq, disp, client, port>>

Win32Steps ==
  /\ kind = "win32"
  /\ \/ FirstRead \/ FirstReadFails \/ WinTop \/ WinTakeNext \/ StartWrite \/ StartWriteFails
     \/ Wait \/ FinishRead \/ WinPostPackets \/ NextRead \/ ReadLost \/ NoRead
     \/ FinishWrite \/ WriteLost \/ CancelPending \/ WinExit

Win32Thread == Win32Steps \/ WaitFails

Win32Client == OpenWin32 \/ WakeWin32 \/ JoinWin32

Win32System == CompleteRead \/ CompleteWrite
=============================================================================
