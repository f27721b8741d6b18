----------------------------- MODULE WinRtBle -----------------------------
(***************************************************************************)
(* WinRtBleTransport (transports/winrt_ble/winrt_ble_transport.cpp): no    *)
(* thread of its own.  Write coroutines and event handlers run on the      *)
(* system's pool.  writers[m] is the coroutine that send() of m started,   *)
(* handler.packet what a ValueChanged handler has accepted and not posted, *)
(* handler.drop the place of the ConnectionStatusChanged handler.          *)
(* Notifications are handled one at a time, in the order they came.        *)
(***************************************************************************)
EXTENDS Transport

CONSTANT DiscoveryAttempts  \* kDiscoveryAttempts

ASSUME SomeAttempts == DiscoveryAttempts \in Nat \ {0}

winrtOnly == <<kind, io>>

\* connect(): resolve the device, then discovery.
Connect ==
  /\ kind = "winrt"
  /\ client.pc = "unopened"
  /\ \/ /\ link' = [link EXCEPT !.held = {"device"}]
        /\ client' = [client EXCEPT !.pc = "discover", !.tries = 1]
     \/ OpenFails
  /\ UNCHANGED <<winrtOnly, outq, disp, port, writers, handler, hist>>

\* discover_smp(): a bad status fails at once; an empty answer is the
\* platform's cache and is asked again, with the service let go of first.
DiscoverFails ==
  /\ client.pc = "discover"
  /\ OpenFails
  /\ UNCHANGED <<winrtOnly, outq, disp, port, writers, handler, hist>>

DiscoverEmpty ==
  /\ client.pc = "discover"
  /\ IF client.tries < DiscoveryAttempts
     THEN /\ client' = [client EXCEPT !.tries = @ + 1]
          /\ \E service \in {{}, {"service"}} :
                link' = [link EXCEPT !.held = {"device"} \cup service]
     ELSE OpenFails
  /\ UNCHANGED <<winrtOnly, outq, disp, port, writers, handler, hist>>

\* Found: the session, and the handlers before the descriptor write.
Subscribe ==
  /\ client.pc = "discover"
  /\ link' = [link EXCEPT !.held = {"device", "service", "session", "handlers"}]
  /\ client' = [client EXCEPT !.pc = "cccd", !.tries = 0]
  /\ UNCHANGED <<winrtOnly, outq, disp, port, writers, handler, hist>>

\* The descriptor write turns notifications on, or is refused.
EnableNotify ==
  /\ client.pc = "cccd"
  /\ \/ /\ link' = [link EXCEPT !.held = @ \cup {"live"}, !.listener = TRUE]
        /\ client' = [client EXCEPT !.pc = "idle"]
     \/ OpenFails
  /\ UNCHANGED <<winrtOnly, outq, disp, port, writers, handler, hist>>

\* send() on StartWriter: a detached coroutine.
StartWriter ==
  /\ kind = "winrt"
  /\ client.pc = "start"
  /\ writers' = [writers EXCEPT ![client.msg].pc = "take"]
  /\ client' = [client EXCEPT !.pc = "idle"]
  /\ UNCHANGED <<winrtOnly, link, outq, disp, port, handler, hist>>

\* shutdown() goes on: the handlers are revoked, which does not wait for one
\* that runs, and the waiting message is dropped under the lock.
Revoke ==
  /\ kind = "winrt"
  /\ client.pc = "nudge"
  /\ link' = [link EXCEPT !.held = @ \ {"handlers"}]
  /\ outq' = DiscardQueued(outq)
  /\ client' = [client EXCEPT !.pc = "join"]
  /\ UNCHANGED <<winrtOnly, disp, port, writers, handler, hist>>

Finish ==
  /\ link' = Released(link)
  /\ client' = [client EXCEPT !.pc = "idle", !.tell = FALSE]
  /\ UNCHANGED <<winrtOnly, outq, disp, port, writers, handler>>

\* Fault: shutdown() does not wait for the writer.
NoWaitForWriter == kind = "winrt" /\ client.pc = "join" /\ Finish /\ hist' = Told(hist)

\* The wait on send_done ends when no writer holds the claim ...
WriterReleased ==
  /\ kind = "winrt"
  /\ client.pc = "join"
  /\ ~outq.writing
  /\ Finish
  /\ hist' = Told(hist)

\* ... or when kCloseWriteGrace has passed.
GraceExpires ==
  /\ kind = "winrt"
  /\ client.pc = "join"
  /\ outq.writing
  /\ Finish
  /\ hist' = [Told(hist) EXCEPT !.late = TRUE]

(***************************************************************************)
(* write_message().                                                        *)
(***************************************************************************)
Writer(m, w) == writers' = [writers EXCEPT ![m] = w]

\* Under the lock: a failed or cancelled link puts nothing further on the air.
TakeMessage(m) ==
  /\ writers[m].pc = "take"
  /\ LET w == writers[m]
         q == IF w.failed # "no" \/ link.stop THEN DiscardQueued(outq) ELSE outq
     IN /\ outq' = NextForWriter(q)
        /\ Writer(m, IF q.waiting = NoMsg
                     THEN [NoWriter EXCEPT !.pc = "notify", !.failed = w.failed]
                     ELSE [w EXCEPT !.pc = "frag", !.msg = q.waiting, !.written = 0])
  /\ UNCHANGED <<winrtOnly, link, disp, client, port, handler, hist>>

\* Between two fragments: done, cancelled, or the next write is issued.
Go(w) == [w EXCEPT !.pc = IF w.written = Parts \/ link.stop THEN "take" ELSE "await"]

FirstFragment(m) ==
  /\ writers[m].pc = "frag"
  /\ Writer(m, Go(writers[m]))
  /\ UNCHANGED <<winrtOnly, link, outq, disp, client, port, handler, hist>>

FragmentWritten(m) ==
  /\ writers[m].pc = "await"
  /\ ~port.hung
  /\ hist' = [hist EXCEPT !.wire = Append(@, <<writers[m].msg, writers[m].written + 1>>)]
  /\ Writer(m, Go([writers[m] EXCEPT !.written = @ + 1]))
  /\ UNCHANGED <<winrtOnly, link, outq, disp, client, port, handler>>

\* A bad status or an exception: fatal when the device is gone or the stack
\* raised an error, otherwise not.
FragmentFails(m) ==
  /\ writers[m].pc = "await"
  /\ \E how \in {"soft", "fatal"} :
        Writer(m, [writers[m] EXCEPT !.pc = "take", !.failed = how])
  /\ UNCHANGED <<winrtOnly, link, outq, disp, client, port, handler, hist>>

\* notify_all() wakes a waiting close(), which looks at the claim; then the
\* failure, if the link still accepts anything.
WriterNotifies(m) ==
  /\ writers[m].pc = "notify"
  /\ Writer(m, IF writers[m].failed # "no" /\ link.accepting
               THEN [writers[m] EXCEPT !.pc = "report"] ELSE NoWriter)
  /\ UNCHANGED <<winrtOnly, link, outq, disp, client, port, handler, hist>>

WriterReports(m) ==
  /\ writers[m].pc = "report"
  /\ disp' = Post(disp, [k |-> IF writers[m].failed = "fatal" THEN "lost" ELSE "error", n |-> 0])
  /\ Writer(m, NoWriter)
  /\ UNCHANGED <<winrtOnly, link, outq, client, port, handler, hist>>

(***************************************************************************)
(* subscribe()'s handlers.                                                 *)
(***************************************************************************)
\* A notification with no handler, or to one that finds accepting cleared.
NotifyUnheard ==
  /\ port.unread > 0 /\ handler.packet = 0
  /\ "handlers" \notin link.held \/ ~link.accepting
  /\ port' = [port EXCEPT !.unread = @ - 1]
  /\ UNCHANGED <<winrtOnly, link, outq, disp, client, writers, handler, hist>>

Notify ==
  /\ port.unread > 0 /\ handler.packet = 0
  /\ "handlers" \in link.held /\ link.accepting
  /\ handler' = [handler EXCEPT !.packet = Oldest]
  /\ port' = [port EXCEPT !.unread = @ - 1]
  /\ UNCHANGED <<winrtOnly, link, outq, disp, client, writers, hist>>

\* The copied bytes are posted, or an unusable notification is reported.
HandlerPosts ==
  /\ handler.packet # 0
  /\ \E k \in {"bytes", "error"} : disp' = Post(disp, [k |-> k, n |-> handler.packet])
  /\ handler' = [handler EXCEPT !.packet = 0]
  /\ UNCHANGED <<winrtOnly, link, outq, client, port, writers, hist>>

\* ConnectionStatusChanged, once the link has dropped.
LinkDropped ==
  /\ port.hung /\ handler.drop = "no"
  /\ "handlers" \in link.held /\ link.accepting
  /\ handler' = [handler EXCEPT !.drop = "seen"]
  /\ UNCHANGED <<winrtOnly, link, outq, disp, client, port, writers, hist>>

DropPosts ==
  /\ handler.drop = "seen"
  /\ disp' = Post(disp, [k |-> "lost", n |-> 0])
  /\ handler' = [handler EXCEPT !.drop = "posted"]
  /\ UNCHANGED <<winrtOnly, link, outq, client, port, writers, hist>>

WriterNext(m) ==
  \/ TakeMessage(m) \/ FirstFragment(m) \/ FragmentWritten(m) \/ FragmentFails(m)
  \/ WriterNotifies(m) \/ WriterReports(m)

HandlerNext == NotifyUnheard \/ Notify \/ HandlerPosts \/ LinkDropped \/ DropPosts

WinRtPool ==
  /\ kind = "winrt"
  /\ \/ \E m \in Msgs : WriterNext(m)
     \/ HandlerNext

WinRtClient ==
  \/ Connect \/ StartWriter \/ Revoke \/ WriterReleased \/ GraceExpires
  \/ kind = "winrt" /\ (DiscoverFails \/ DiscoverEmpty \/ Subscribe \/ EnableNotify)
=============================================================================
