---------------------------- MODULE SendQueue ----------------------------
(***************************************************************************)
(* Admission control for a transport with one background writer            *)
(* (transports/common/send_queue.hpp).  A queue is a record: the message   *)
(* that waits, and whether a writer holds the claim.  Messages are         *)
(* positive numbers; NoMsg stands for std::nullopt.  The two diagnostic    *)
(* counters are left out.  Every operator is one call made under the       *)
(* adapter's mutex.                                                        *)
(***************************************************************************)
EXTENDS Naturals

NoMsg == 0

Idle == [waiting |-> NoMsg, writing |-> FALSE]

\* What offer() answers: start a writer, leave it to the one that runs, refuse.
Admission(q) ==
  IF ~q.writing THEN "StartWriter"
  ELSE IF q.waiting = NoMsg THEN "Queued" ELSE "Busy"

\* Fault: the message is stored and the claim left to the writer.
StoreUnclaimed(q, m) ==
  IF Admission(q) = "Busy" THEN q ELSE [q EXCEPT !.waiting = m]

Offer(q, m) ==
  IF Admission(q) = "Busy" THEN q ELSE [waiting |-> m, writing |-> TRUE]

\* Fault: the claim is given up with the last message taken, not
\* with the call that finds none left.
ReleasesEarly(q) == Idle

\* next_for_writer() hands out q.waiting; finding nothing releases the claim.
NextForWriter(q) ==
  IF q.waiting = NoMsg THEN [q EXCEPT !.writing = FALSE] ELSE [q EXCEPT !.waiting = NoMsg]

DiscardQueued(q) == [q EXCEPT !.waiting = NoMsg]
=============================================================================
