------------------------------ MODULE SmpClient ------------------------------
(***************************************************************************)
(* The request lifecycle of smply::SmpClient (src/src/smp/client.cpp): the *)
(* pending table, 8-bit sequence allocation, the bounded set of retired    *)
(* sequence numbers, deadlines, cancellation, deferred completions, loss   *)
(* and rebinding of the link, and destruction.                             *)
(*                                                                         *)
(* The client is single-threaded, but a callback may call back into it     *)
(* ("A callback may issue new requests, cancel others", smp_client.hpp).   *)
(* So poll(), fail_all() and the destructor are split at the callbacks     *)
(* they run: pc names the loop on the stack, and inCallback says that its  *)
(* last step ended in a callback. Until its next step the application may  *)
(* act; nothing else may.                                                  *)
(*                                                                         *)
(* The device answers any message that reached it, any number of times, at *)
(* any later time, over this link or a later one: wire only grows.         *)
(***************************************************************************)
EXTENDS Naturals, Sequences

CONSTANTS
  MaxInFlight,   \* SmpClientConfig::max_in_flight, the slots of the table
  SeqSpace,      \* 256 in the code: the values of the sequence field
  MaxRetired,    \* SmpClientConfig::max_retired_seqs
  Keys,          \* what an answer must match: group, command, operation
  NoKey,         \* the key of an empty slot
  Timeouts,      \* the timeouts a request may carry, in ticks
  MaxRequests,   \* bound: request() and defer() calls in a behaviour
  MaxLinks       \* bound: transports bound in a behaviour

ASSUME ClientAssumption ==
  /\ MaxInFlight \in Nat \ {0}
  /\ SeqSpace \in Nat \ {0}
  /\ MaxRetired \in Nat
  /\ NoKey \notin Keys
  /\ Timeouts \subseteq Nat
  /\ MaxRequests \in Nat
  /\ MaxLinks \in Nat \ {0}

Slots == 0 .. MaxInFlight - 1
Seqs == 0 .. SeqSpace - 1
Requests == 1 .. MaxRequests

\* Generation 0 is never issued: a slot with request 0 is not active.
NoEntry == [req |-> 0, seq |-> 0, key |-> NoKey, left |-> 0]

\* The slot of a handle that names no request.
NoSlot == MaxInFlight

\* Why a callback is told there is no answer.
Reasons == {"Disconnected", "MessageTooLarge", "InvalidState", "SendFailed",
            "Cancelled", "Timeout", "Framing", "Work"}

DrainPhases == {"poll_drain", "poll_redrain", "dtor_drain", "dtor_redrain"}
FailPhases == {"framing", "down", "rebind", "dtor_fail"}
Phases == {"idle", "poll_expire", "destroyed"} \cup DrainPhases \cup FailPhases

VARIABLES
  pending,      \* pending_: one entry per slot, left = ticks to its deadline
  deferred,     \* deferred_: completions waiting for poll(), oldest first
  flags,        \* retired_flags_
  ring,         \* retired_ring_
  head,         \* retired_head_
  nextSeq,      \* next_seq_
  connected,    \* connected_
  pc,           \* the loop on the stack, "idle" for none
  cursor,       \* the slot fail_all() has reached
  expired,      \* poll()'s snapshot: the request expired in each slot, or 0
  inCallback,   \* a callback of that loop is running
  link,         \* the number of the transport bound
  wire,         \* the answers the device may give
  nreq,         \* request() and defer() calls made so far
  handle,       \* the slot in the handle each returned
  told,         \* what each callback was told, one element per invocation
  asked,        \* history: the requests whose handle cancel() acted on
  before,       \* history: nreq when the last fail_all() or destructor began
  retirements,  \* history: sequence numbers retired so far
  past          \* history of each request: link and retirements when sent,
                \* retirements when its number was retired

retired == <<flags, ring, head, retirements>>
client == <<pending, deferred, retired, nextSeq, connected>>
control == <<pc, cursor, expired, inCallback>>
vars == <<client, control, link, wire, nreq, handle, told, asked, before, past>>

-----------------------------------------------------------------------------
(* The pending table and the sequence numbers.                             *)

Active(s) == pending[s].req # 0
FreeSlots == {s \in Slots : ~Active(s)}
Lowest(S) == CHOOSE s \in S : \A t \in S : s <= t

\* Fault: resolve() trusts the slot and forgets the generation.
ResolvesAnyGeneration(s, r) == s \in Slots /\ Active(s)

\* resolve(): the handle (slot s, generation r) still names a live request.
Resolves(s, r) == s \in Slots /\ Active(s) /\ pending[s].req = r

\* find_by_seq(): the slots whose request carries q (at most one).
SlotsWithSeq(q) == {s \in Slots : Active(s) /\ pending[s].seq = q}

\* Fault: the allocator does not look at the retired set.
IgnoresRetired(q) == SlotsWithSeq(q) = {}

\* allocate_seq(): the first number from next_seq_ on, cyclically, that is
\* neither pending nor retired.
SeqAvailable(q) == SlotsWithSeq(q) = {} /\ ~flags[q]
Candidate(k) == (nextSeq + k) % SeqSpace
Attempts == {k \in Seqs : SeqAvailable(Candidate(k))}
AllocatedSeq == Candidate(Lowest(Attempts))

\* Fault: the number evicted from the ring keeps its flag.
FlagNeverCleared(q) == [flags EXCEPT ![q] = TRUE]

FlagsRemembering(q) ==
  IF Len(ring) = MaxRetired
    THEN [flags EXCEPT ![ring[head + 1]] = FALSE, ![q] = TRUE]
    ELSE [flags EXCEPT ![q] = TRUE]

\* Fault: the ring grows without bound.
RetireNeverEvicts(q) ==
  /\ retirements' = retirements + 1
  /\ flags' = [flags EXCEPT ![q] = TRUE]
  /\ ring' = Append(ring, q)
  /\ UNCHANGED head

\* retire(): remember q, in the place of the oldest number of a full ring.
Retire(q) ==
  /\ retirements' = retirements + 1
  /\ IF MaxRetired = 0 \/ flags[q]
       THEN UNCHANGED <<flags, ring, head>>
       ELSE /\ flags' = FlagsRemembering(q)
            /\ IF Len(ring) = MaxRetired
                 THEN /\ ring' = [ring EXCEPT ![head + 1] = q]
                      /\ head' = (head + 1) % Len(ring)
                 ELSE ring' = Append(ring, q) /\ UNCHANGED head

\* Fault: detach() leaves the entry in the table.
DetachKeepsEntry(s) ==
  /\ UNCHANGED pending
  /\ Retire(pending[s].seq)
  /\ past' = [past EXCEPT ![pending[s].req].retiredAt = retirements + 1]

\* detach(): empty the slot and retire its number, before any callback runs.
Detach(s) ==
  /\ pending' = [pending EXCEPT ![s] = NoEntry]
  /\ Retire(pending[s].seq)
  /\ past' = [past EXCEPT ![pending[s].req].retiredAt = retirements + 1]

\* The callback of request r runs; answer is the request the device was
\* answering, 0 when there is no answer.
Tell(r, why, answer) ==
  told' = [told EXCEPT ![r] = Append(@, [why |-> why, answer |-> answer])]

\* complete(): detach, then run the callback.
Complete(s, why, answer) == Detach(s) /\ Tell(pending[s].req, why, answer)

\* defer(): the callback of r runs from a later poll().
Defer(r, why) == deferred' = Append(deferred, [req |-> r, why |-> why])

-----------------------------------------------------------------------------
(* What the application calls, from its own turn or from a callback.       *)

AppTurn == pc = "idle" \/ inCallback

\* The call is request number nreq + 1.
NewRequest == AppTurn /\ nreq < MaxRequests /\ nreq' = nreq + 1

\* request() refuses: an invalid handle now, the reason from the next poll().
Refuse(why) ==
  /\ NewRequest
  /\ Defer(nreq + 1, why)
  /\ UNCHANGED <<pending, connected, control, link, handle, told, asked, before>>

RefuseUnsent(why) ==
  Refuse(why) /\ UNCHANGED <<retired, nextSeq, wire, past>>

RequestWhileDown == ~connected /\ RefuseUnsent("Disconnected")

\* The payload exceeds max_smp_payload.
RequestTooLarge == connected /\ RefuseUnsent("MessageTooLarge")

RequestTableFull ==
  connected /\ FreeSlots = {} /\ RefuseUnsent("InvalidState")

RequestNoSeq ==
  /\ connected /\ FreeSlots # {} /\ Attempts = {}
  /\ RefuseUnsent("InvalidState")

\* Fault: the link is not looked at.
TransmitWhileDown(key) ==
  /\ FreeSlots # {} /\ Attempts # {}
  /\ nextSeq' = (AllocatedSeq + 1) % SeqSpace
  /\ wire' = wire \cup {[req |-> nreq + 1, seq |-> AllocatedSeq, key |-> key]}

\* The message is encoded and handed to the transport.
Transmit(key) ==
  /\ connected /\ FreeSlots # {} /\ Attempts # {}
  /\ nextSeq' = (AllocatedSeq + 1) % SeqSpace
  /\ wire' = wire \cup {[req |-> nreq + 1, seq |-> AllocatedSeq, key |-> key]}

\* The message may have reached the device although send() failed.
RequestSendFails(key) ==
  /\ Transmit(key)
  /\ Refuse("SendFailed")
  /\ Retire(AllocatedSeq)
  /\ past' = [past EXCEPT ![nreq + 1].retiredAt = retirements + 1]

RequestSent(key, timeout) ==
  /\ Transmit(key)
  /\ NewRequest
  /\ LET s == Lowest(FreeSlots)
     IN /\ pending' = [pending EXCEPT ![s] =
                         [req |-> nreq + 1, seq |-> AllocatedSeq,
                          key |-> key, left |-> timeout]]
        /\ handle' = [handle EXCEPT ![nreq + 1] = s]
  /\ past' = [past EXCEPT ![nreq + 1].link = link,
                          ![nreq + 1].sentAt = retirements]
  /\ UNCHANGED <<deferred, retired, connected, control, link, told, asked,
                 before>>

\* cancel() through the handle of request r; one that resolves to nothing is
\* a no-op.
Cancel(r) ==
  /\ AppTurn
  /\ Resolves(handle[r], r)
  /\ asked' = asked \cup {r}
  /\ Detach(handle[r])
  /\ Defer(pending[handle[r]].req, "Cancelled")
  /\ UNCHANGED <<nextSeq, connected, control, link, wire, nreq, handle, told,
                 before>>

\* SmpClient::defer(): work of a layer above, which has no message.
DeferWork == RefuseUnsent("Work")

-----------------------------------------------------------------------------
(* The loops that run callbacks.                                           *)

\* deliver_deferred(): a batch is run to its end, and what its callbacks
\* queue is the next batch, which makes one first-in-first-out queue.
RunDeferred ==
  /\ pc \in DrainPhases /\ deferred # <<>>
  /\ deferred' = Tail(deferred)
  /\ Tell(Head(deferred).req, Head(deferred).why, 0)
  /\ inCallback' = TRUE
  /\ UNCHANGED <<pending, retired, nextSeq, connected, pc, cursor, expired,
                 link, wire, nreq, handle, asked, before, past>>

\* poll(): complete the next expired handle with Timeout, unless a callback
\* of this poll() already completed it.
ExpiredAhead == {s \in Slots : expired[s] # 0}

ExpireNext ==
  /\ pc = "poll_expire" /\ ExpiredAhead # {}
  /\ LET s == Lowest(ExpiredAhead)
     IN /\ expired' = [expired EXCEPT ![s] = 0]
        /\ inCallback' = Resolves(s, expired[s])
        /\ IF Resolves(s, expired[s])
             THEN Complete(s, "Timeout", 0)
             ELSE UNCHANGED <<pending, retired, told, past>>
  /\ UNCHANGED <<deferred, nextSeq, connected, pc, cursor, link, wire, nreq,
                 handle, asked, before>>

\* Fault: the loop starts one slot late.
ActiveAfter == {s \in Slots : s > cursor /\ Active(s)}

\* fail_all(): the slots its loop has not reached that are active by now.
ActiveAhead == {s \in Slots : s >= cursor /\ Active(s)}

FailReason(p) == CASE p = "framing"   -> "Framing"
                   [] p = "dtor_fail" -> "Cancelled"
                   [] OTHER           -> "Disconnected"

FailNext ==
  /\ pc \in FailPhases /\ ActiveAhead # {}
  /\ LET s == Lowest(ActiveAhead)
     IN cursor' = s + 1 /\ Complete(s, FailReason(pc), 0)
  /\ inCallback' = TRUE
  /\ UNCHANGED <<deferred, nextSeq, connected, pc, expired, link, wire, nreq,
                 handle, asked, before>>

\* What follows a loop: poll() drains, expires and drains again; the
\* destructor drains, fails everything and drains again.
After(p) ==
  CASE p = "poll_drain"   -> "poll_expire"
    [] p = "poll_expire"  -> "poll_redrain"
    [] p = "dtor_drain"   -> "dtor_fail"
    [] p = "dtor_fail"    -> "dtor_redrain"
    [] p = "dtor_redrain" -> "destroyed"
    [] OTHER              -> "idle"

\* Fault: the comparison with the deadline never holds.
NothingExpires == [s \in Slots |-> 0]

\* poll()'s snapshot of the requests whose deadline has passed.
Snapshot == [s \in Slots |-> IF pending[s].left = 0 THEN pending[s].req ELSE 0]

\* A loop has nothing left to do. rebind_transport() takes the new transport
\* only after its fail_all().
LoopDone ==
  /\ pc \notin {"idle", "destroyed"}
  /\ pc \in DrainPhases => deferred = <<>>
  /\ pc = "poll_expire" => ExpiredAhead = {}
  /\ pc \in FailPhases => ActiveAhead = {}
  /\ pc' = After(pc)
  /\ cursor' = 0
  /\ inCallback' = FALSE
  /\ expired' = IF pc = "poll_drain" THEN Snapshot ELSE expired
  /\ link' = IF pc = "rebind" THEN link + 1 ELSE link
  /\ connected' = (connected \/ pc = "rebind")
  /\ UNCHANGED <<pending, deferred, retired, nextSeq, wire, nreq, handle, told,
                 asked, before, past>>

-----------------------------------------------------------------------------
(* What starts them, while no client code is running.                      *)

Begin(phase) ==
  /\ pc = "idle"
  /\ pc' = phase
  /\ UNCHANGED <<pending, deferred, retired, nextSeq, cursor, expired,
                 inCallback, link, wire, nreq, handle, told, asked, past>>

Poll == Begin("poll_drain") /\ UNCHANGED <<connected, before>>

\* on_bytes(): the assembler refused the stream.
OnFramingError ==
  Begin("framing") /\ before' = nreq /\ UNCHANGED connected

OnDisconnected ==
  Begin("down") /\ before' = nreq /\ connected' = FALSE

RebindTransport ==
  link < MaxLinks /\ Begin("rebind") /\ before' = nreq /\ UNCHANGED connected

\* ~SmpClient()
Destroy == Begin("dtor_drain") /\ before' = nreq /\ UNCHANGED connected

Destroyed == pc = "destroyed" /\ UNCHANGED vars

\* Fault: a response is matched by its sequence number alone.
MatchesSeqOnly(m) == SlotsWithSeq(m.seq)

\* on_message(): the slots whose request m answers (at most one).
Matches(m) == {s \in SlotsWithSeq(m.seq) : pending[s].key = m.key}

OnMessage(m) ==
  /\ pc = "idle"
  /\ Matches(m) # {}
  /\ Complete(Lowest(Matches(m)), "Answered", m.req)
  /\ UNCHANGED <<deferred, nextSeq, connected, control, link, wire, nreq,
                 handle, asked, before>>

\* Late, unmatched or mismatched: the message is dropped.
OnMessageDropped(m) ==
  pc = "idle" /\ Matches(m) = {} /\ UNCHANGED vars

Tick ==
  /\ pc = "idle"
  /\ \E s \in Slots : pending[s].left > 0
  /\ pending' = [s \in Slots |->
                   [pending[s] EXCEPT !.left = IF @ > 0 THEN @ - 1 ELSE 0]]
  /\ UNCHANGED <<deferred, retired, nextSeq, connected, control, link, wire,
                 nreq, handle, told, asked, before, past>>

-----------------------------------------------------------------------------
Init ==
  /\ pending = [s \in Slots |-> NoEntry]
  /\ deferred = <<>>
  /\ flags = [q \in Seqs |-> FALSE]
  /\ ring = <<>> /\ head = 0 /\ retirements = 0
  /\ nextSeq = 0
  /\ connected = TRUE
  /\ pc = "idle" /\ cursor = 0 /\ inCallback = FALSE
  /\ expired = [s \in Slots |-> 0]
  /\ link = 1
  /\ wire = {}
  /\ nreq = 0
  /\ handle = [r \in Requests |-> NoSlot]
  /\ told = [r \in Requests |-> <<>>]
  /\ asked = {} /\ before = 0
  /\ past = [r \in Requests |-> [link |-> 0, sentAt |-> 0, retiredAt |-> 0]]

App ==
  \/ RequestWhileDown
  \/ RequestTooLarge
  \/ RequestTableFull
  \/ RequestNoSeq
  \/ \E key \in Keys : RequestSendFails(key)
  \/ \E key \in Keys, timeout \in Timeouts : RequestSent(key, timeout)
  \/ \E r \in Requests : Cancel(r)
  \/ DeferWork

\* The rest of a call that is on the stack.
Run == RunDeferred \/ ExpireNext \/ FailNext \/ LoopDone

Environment ==
  \/ Tick
  \/ \E m \in wire : OnMessage(m) \/ OnMessageDropped(m)
  \/ OnFramingError
  \/ OnDisconnected
  \/ RebindTransport
  \/ Destroy
  \/ Destroyed

Next == App \/ Poll \/ Run \/ Environment

Spec == Init /\ [][Next]_vars

\* A call that has begun runs on, the application keeps calling poll()
\* ("Must be called regularly from the application's pump"), time passes.
FairSpec == Spec /\ WF_vars(Run) /\ SF_vars(Poll) /\ SF_vars(Tick)

-----------------------------------------------------------------------------
(* Properties                                                              *)

Entry == [req : 0 .. MaxRequests, seq : Seqs, key : Keys \cup {NoKey}, left : Nat]
Deferral == [req : Requests, why : Reasons]
Message == [req : Requests, seq : Seqs, key : Keys]
Telling == [why : Reasons \cup {"Answered"}, answer : 0 .. MaxRequests]
History == [link : Nat, sentAt : Nat, retiredAt : Nat]

\* Every variable keeps its type: the table, the ring within its bound, the
\* control state of poll(), fail_all() and the destructor.
TypeOK ==
  /\ pending \in [Slots -> Entry]
  /\ deferred \in Seq(Deferral)
  /\ flags \in [Seqs -> BOOLEAN]
  /\ ring \in Seq(Seqs) /\ Len(ring) <= MaxRetired
  /\ head \in Nat /\ (head = 0 \/ head < Len(ring))
  /\ nextSeq \in Seqs
  /\ connected \in BOOLEAN
  /\ pc \in Phases
  /\ cursor \in 0 .. MaxInFlight
  /\ expired \in [Slots -> 0 .. MaxRequests]
  /\ inCallback \in BOOLEAN
  /\ link \in Nat
  /\ wire \subseteq Message
  /\ nreq \in 0 .. MaxRequests
  /\ handle \in [Requests -> 0 .. MaxInFlight]
  /\ told \in [Requests -> Seq(Telling)]
  /\ asked \subseteq Requests
  /\ before \in 0 .. MaxRequests
  /\ retirements \in Nat
  /\ past \in [Requests -> History]

InTable(r) == \E s \in Slots : pending[s].req = r
InQueue(r) == \E i \in 1 .. Len(deferred) : deferred[i].req = r

\* A callback is "invoked exactly once per request": whatever order answers,
\* timeouts, cancellations, link losses and callbacks that call back into the
\* client take, a request that was issued is in exactly one place: in the
\* table, in the deferred queue, or completed, and each of them once.
ExactlyOnce ==
  /\ \A r \in Requests :
       IF r > nreq THEN ~InTable(r) /\ ~InQueue(r) /\ told[r] = <<>>
       ELSE IF told[r] = <<>> THEN ~(InTable(r) <=> InQueue(r))
       ELSE Len(told[r]) = 1 /\ ~InTable(r) /\ ~InQueue(r)
  /\ \A s, t \in Slots : Active(s) /\ pending[s].req = pending[t].req => s = t
  /\ \A i, j \in 1 .. Len(deferred) :
       deferred[i].req = deferred[j].req => i = j

\* No two requests in flight share a sequence number, and none has a number
\* the client remembers as retired, so find_by_seq() is unambiguous and an
\* answer to a remembered number can only be counted as late.
SeqsUnambiguous ==
  \A s, t \in Slots : Active(s) =>
    /\ ~flags[pending[s].seq]
    /\ Active(t) /\ pending[s].seq = pending[t].seq => s = t

\* The flags and the ring of the retired set agree: exactly the numbers in
\* the ring are remembered, each once.
RetiredSetAgrees ==
  /\ \A q \in Seqs : flags[q] <=> \E i \in 1 .. Len(ring) : ring[i] = q
  /\ \A i, j \in 1 .. Len(ring) : ring[i] = ring[j] => i = j

\* A number names one request: those in flight are different and none is
\* remembered as retired, and what is remembered is what was retired
\* (allocate_seq(), retire(), find_by_seq()).
SeqsSound == SeqsUnambiguous /\ RetiredSetAgrees

Tellings(r) == {told[r][i] : i \in 1 .. Len(told[r])}

\* What the retired set buys: a request that is completed by the answer to
\* another one was sent only after max_retired_seqs further numbers had been
\* retired, that is, when the ring had forgotten the other's number.
LateAnswerWindow ==
  \A r \in Requests : \A t \in Tellings(r) :
    t.answer \notin {0, r} =>
      past[r].sentAt >= past[t.answer].retiredAt + MaxRetired

\* A request that is answered got an answer for its own group, command and
\* operation, even when it is a late answer to another request.
AnswerMatches ==
  \A r \in Requests : \A t \in Tellings(r) : \A m, n \in wire :
    (m.req = t.answer /\ n.req = r) => m.key = n.key

\* A request is completed by its own answer; or, once the retired set has
\* forgotten the number, by a late one to the same command (on_message()).
AnswersAreOwn == LateAnswerWindow /\ AnswerMatches

\* A handle is inert once its request completed: outside the destructor only
\* a request whose own handle was passed to cancel() is told Cancelled.
HandlesInert ==
  \A r \in Requests : \A t \in Tellings(r) :
    t.why = "Cancelled" =>
      r \in asked \/ pc \in {"dtor_fail", "dtor_redrain", "destroyed"}

\* A request is told Timeout only when its own deadline has passed, even when
\* a callback of the same poll() put it into a slot that had expired.
TimeoutsDue ==
  [][\A s \in Slots : (Active(s) /\ told'[pending[s].req] # <<>>) =>
       \/ told'[pending[s].req][1].why # "Timeout"
       \/ pending[s].left = 0]_vars

\* When fail_all(), rebind_transport() or the destructor has returned, no
\* request issued before it is still in the table.
FailAllSweeps ==
  pc \in {"idle", "destroyed"} =>
    \A s \in Slots : Active(s) => pending[s].req > before

\* A client whose link is down has nothing in flight once on_disconnected()
\* has returned, and its callbacks cannot have put anything there.
DownMeansEmpty ==
  (~connected /\ pc # "down") => \A s \in Slots : ~Active(s)

\* No request outlives its link, or the sweep that should have ended it,
\* whatever callbacks do meanwhile (fail_all(), on_disconnected()).
NoneOutlivesItsLink == FailAllSweeps /\ DownMeansEmpty

\* The promise of smp_client.hpp, "issue a request and get exactly one
\* answer": every step is, for an observer of the callbacks, the issue of one
\* request, the one completion of one outstanding request, or nothing.
Lifecycle == INSTANCE RequestLifecycle
  WITH Outcomes <- Reasons \cup {"Answered"},
       status <- [r \in Requests |-> IF r > nreq THEN "unissued"
                                     ELSE IF told[r] = <<>> THEN "outstanding"
                                     ELSE told[r][Len(told[r])].why]
ImplementsLifecycle == Lifecycle!Spec

\* Every request is completed sooner or later, as long as the application
\* keeps polling a client it has not destroyed.
EveryRequestCompletes ==
  \A r \in Requests : (r <= nreq) ~> (told[r] # <<>> \/ pc = "destroyed")

\* smp_client.hpp of the destructor: "Completes every outstanding request
\* with `Cancelled` before returning".
DestructorCompletesAll ==
  pc = "destroyed" => \A r \in 1 .. nreq : told[r] # <<>>

\* smp_client.hpp of rebind_transport(): "Any request still outstanding is
\* failed with `Disconnected`", so none that was sent on the old transport is
\* outstanding on the new one.
RebindLeavesNoneBehind ==
  pc = "idle" => \A s \in Slots : Active(s) => past[pending[s].req].link = link
=============================================================================
