--------------------------- MODULE SmpClientProofs ---------------------------
(***************************************************************************)
(* Theorems about SmpClient, for every size of the table, the sequence     *)
(* space and the retired set.                                              *)
(***************************************************************************)
EXTENDS SmpClient, TLAPS, WellFoundedInduction, SequenceTheorems

\* free_slot(), find_by_seq(), allocate_seq() and the loops of poll() and
\* fail_all() take the first index there is: it exists and is the least.
LEMMA LowestIsLeast ==
  ASSUME NEW S, S \subseteq Nat, S # {}
  PROVE  Lowest(S) \in S /\ \A t \in S : Lowest(S) <= t
<1> DEFINE Below == OpToRel(<, Nat)
<1>1. PICK s \in S : \A t \in S : ~(<<t, s>> \in Below)
  BY NatLessThanWellFounded, WFMin, Zenon
<1>2. \A t, u \in Nat : t < u => <<t, u>> \in Below
  BY DEF OpToRel
<1> HIDE DEF Below
<1>3. \A t \in S : ~(t < s)
  BY <1>1, <1>2, Zenon
<1>4. \A t \in S : s <= t
  BY <1>3
<1> QED
  BY <1>4 DEF Lowest

RetiredType ==
  /\ flags \in [Seqs -> BOOLEAN]
  /\ ring \in Seq(Seqs) /\ Len(ring) <= MaxRetired
  /\ head \in Nat /\ (head = 0 \/ head < Len(ring))
  /\ retirements \in Nat

LEMMA RetireType ==
  ASSUME TypeOK, NEW q \in Seqs, Retire(q)
  PROVE  RetiredType'
<1> USE ClientAssumption DEF TypeOK, RetiredType
<1>1. CASE MaxRetired = 0 \/ flags[q]
  BY <1>1 DEF Retire
<1>2. CASE ~(MaxRetired = 0 \/ flags[q]) /\ Len(ring) = MaxRetired
  <2>1. head + 1 \in 1 .. Len(ring) /\ ring[head + 1] \in Seqs
    BY <1>2
  <2>2. flags' \in [Seqs -> BOOLEAN]
    BY <1>2, <2>1 DEF Retire, FlagsRemembering
  <2>3. ring' \in Seq(Seqs) /\ Len(ring') = Len(ring)
    <3>1. ring' = [ring EXCEPT ![head + 1] = q]
      BY <1>2 DEF Retire
    <3> QED
      BY <2>1, <3>1, ExceptSeq
  <2>4. head' \in 0 .. Len(ring) - 1
    BY <1>2, <2>1 DEF Retire
  <2>5. retirements' \in Nat
    BY DEF Retire
  <2> QED
    BY <2>2, <2>3, <2>4, <2>5, <1>2
<1>3. CASE ~(MaxRetired = 0 \/ flags[q]) /\ Len(ring) # MaxRetired
  <2>1. ring' = Append(ring, q) /\ head' = head
    BY <1>3 DEF Retire
  <2>2. ring' \in Seq(Seqs) /\ Len(ring') = Len(ring) + 1
    BY <2>1, AppendProperties
  <2>3. flags' = [flags EXCEPT ![q] = TRUE] /\ retirements' = retirements + 1
    BY <1>3 DEF Retire, FlagsRemembering
  <2>4. Len(ring) + 1 <= MaxRetired
    BY <1>3
  <2> QED
    BY <2>1, <2>2, <2>3, <2>4
<1> QED
  BY <1>1, <1>2, <1>3

\* allocate_seq() yields a number that is neither pending nor retired.
LEMMA AllocatedIsAvailable ==
  ASSUME nextSeq \in Seqs, Attempts # {}
  PROVE  AllocatedSeq \in Seqs /\ SeqAvailable(AllocatedSeq)
<1>1. Lowest(Attempts) \in Attempts
  BY LowestIsLeast, ClientAssumption DEF Attempts, Seqs
<1>2. \A k \in Seqs : Candidate(k) \in Seqs
  BY ClientAssumption DEF Candidate, Seqs
<1> QED
  BY <1>1, <1>2 DEF Attempts, AllocatedSeq

LEMMA LowestSlot ==
  ASSUME NEW S \in SUBSET Slots, S # {}
  PROVE  Lowest(S) \in S
<1>1. S \subseteq Nat
  BY ClientAssumption DEF Slots
<1> QED
  BY <1>1, LowestIsLeast

LEMMA EntryType ==
  ASSUME TypeOK, NEW s \in Slots, Active(s)
  PROVE  pending[s] \in Entry /\ pending[s].seq \in Seqs /\ pending[s].req \in Requests
<1>1. pending[s] \in Entry
  BY DEF TypeOK
<1> QED
  BY <1>1, ClientAssumption DEF Entry, Active, Requests

LEMMA PastType ==
  ASSUME TypeOK, NEW r \in Requests
  PROVE  [past EXCEPT ![r].retiredAt = retirements + 1] \in [Requests -> History]
<1>1. past \in [Requests -> History] /\ retirements \in Nat
  BY DEF TypeOK
<1>2. [past[r] EXCEPT !.retiredAt = retirements + 1] \in History
  BY <1>1 DEF History
<1> QED
  BY <1>1, <1>2

LEMMA DetachType ==
  ASSUME TypeOK, NEW s \in Slots, Active(s), Detach(s)
  PROVE  /\ pending' \in [Slots -> Entry]
         /\ past' \in [Requests -> History]
         /\ Retire(pending[s].seq)
<1>1. NoEntry \in Entry
  BY ClientAssumption DEF NoEntry, Entry, Seqs
<1>2. pending \in [Slots -> Entry]
  BY DEF TypeOK
<1>3. past' \in [Requests -> History]
  BY EntryType, PastType DEF Detach
<1> QED
  BY <1>1, <1>2, <1>3 DEF Detach

LEMMA TellType ==
  ASSUME TypeOK, NEW r \in Requests, NEW why \in Reasons \cup {"Answered"},
         NEW answer \in 0 .. MaxRequests, Tell(r, why, answer)
  PROVE  told' \in [Requests -> Seq(Telling)]
<1>1. told \in [Requests -> Seq(Telling)]
  BY DEF TypeOK
<1>2. [why |-> why, answer |-> answer] \in Telling
  BY DEF Telling
<1>3. Append(told[r], [why |-> why, answer |-> answer]) \in Seq(Telling)
  BY <1>1, <1>2, AppendProperties
<1> QED
  BY <1>1, <1>3 DEF Tell

LEMMA DeferType ==
  ASSUME TypeOK, NEW r \in Requests, NEW why \in Reasons, Defer(r, why)
  PROVE  deferred' \in Seq(Deferral)
<1>1. deferred \in Seq(Deferral)
  BY DEF TypeOK
<1>2. [req |-> r, why |-> why] \in Deferral
  BY DEF Deferral
<1> QED
  BY <1>1, <1>2, AppendProperties DEF Defer

-----------------------------------------------------------------------------
(* Type correctness.                                                       *)

LEMMA TypeInit == Init => TypeOK
<1> SUFFICES ASSUME Init PROVE TypeOK
  OBVIOUS
<1>1. pending \in [Slots -> Entry] /\ 0 \in Seqs
  BY ClientAssumption DEF Init, NoEntry, Entry, Seqs
<1>2. past \in [Requests -> History]
  BY DEF Init, History
<1>3. deferred \in Seq(Deferral) /\ told \in [Requests -> Seq(Telling)]
  BY EmptySeq DEF Init
<1>4. ring \in Seq(Seqs) /\ Len(ring) = 0
  BY EmptySeq DEF Init
<1>5. handle \in [Requests -> 0 .. MaxInFlight] /\ expired \in [Slots -> 0 .. MaxRequests]
  BY ClientAssumption DEF Init, NoSlot
<1>6. flags \in [Seqs -> BOOLEAN] /\ pc \in Phases
  BY DEF Init, Phases
<1>7. nreq \in 0 .. MaxRequests /\ before \in 0 .. MaxRequests /\ cursor \in 0 .. MaxInFlight
  BY ClientAssumption DEF Init
<1> QED
  BY <1>1, <1>2, <1>3, <1>4, <1>5, <1>6, <1>7, ClientAssumption DEF Init, TypeOK

\* A request() that is refused.
LEMMA RefuseType ==
  ASSUME TypeOK, NEW why \in Reasons, RefuseUnsent(why)
  PROVE  TypeOK'
<1>1. nreq + 1 \in Requests /\ nreq' \in 0 .. MaxRequests
  BY ClientAssumption DEF TypeOK, RefuseUnsent, Refuse, NewRequest, Requests
<1>2. deferred' \in Seq(Deferral)
  BY <1>1, DeferType DEF RefuseUnsent, Refuse
<1> QED
  BY <1>1, <1>2 DEF TypeOK, RefuseUnsent, Refuse, retired, control

LEMMA TransmitType ==
  ASSUME TypeOK, NEW key \in Keys, Transmit(key), NewRequest
  PROVE  /\ nreq + 1 \in Requests /\ nreq' \in 0 .. MaxRequests
         /\ AllocatedSeq \in Seqs /\ nextSeq' \in Seqs /\ wire' \subseteq Message
<1>1. nreq + 1 \in Requests /\ nreq' \in 0 .. MaxRequests
  BY ClientAssumption DEF TypeOK, NewRequest, Requests
<1>2. AllocatedSeq \in Seqs
  BY AllocatedIsAvailable DEF TypeOK, Transmit
<1>3. nextSeq' \in Seqs
  BY <1>2, ClientAssumption DEF Transmit, Seqs
<1>4. [req |-> nreq + 1, seq |-> AllocatedSeq, key |-> key] \in Message
  BY <1>1, <1>2 DEF Message
<1> QED
  BY <1>1, <1>2, <1>3, <1>4 DEF TypeOK, Transmit

LEMMA AppType ==
  ASSUME TypeOK, App
  PROVE  TypeOK'
<1>1. CASE RequestWhileDown \/ RequestTooLarge \/ RequestTableFull \/ RequestNoSeq \/ DeferWork
  <2>1. PICK why \in Reasons : RefuseUnsent(why)
    BY <1>1 DEF RequestWhileDown, RequestTooLarge, RequestTableFull, RequestNoSeq,
                DeferWork, Reasons
  <2> QED
    BY <2>1, RefuseType
<1>2. ASSUME NEW key \in Keys, RequestSendFails(key)
      PROVE  TypeOK'
  <2>1. Transmit(key) /\ Refuse("SendFailed") /\ NewRequest /\ Retire(AllocatedSeq)
    BY <1>2 DEF RequestSendFails, Refuse
  <2>2. /\ nreq + 1 \in Requests /\ nreq' \in 0 .. MaxRequests
        /\ AllocatedSeq \in Seqs /\ nextSeq' \in Seqs /\ wire' \subseteq Message
    BY <2>1, TransmitType
  <2>3. deferred' \in Seq(Deferral)
    BY <2>1, <2>2, DeferType DEF Refuse, Reasons
  <2>4. past' \in [Requests -> History]
    BY <1>2, <2>2, PastType DEF RequestSendFails
  <2>5. RetiredType'
    BY <2>1, <2>2, RetireType
  <2> QED
    BY <2>1, <2>2, <2>3, <2>4, <2>5 DEF TypeOK, RetiredType, Refuse, control
<1>3. ASSUME NEW key \in Keys, NEW timeout \in Timeouts, RequestSent(key, timeout)
      PROVE  TypeOK'
  <2> DEFINE s == Lowest(FreeSlots)
  <2>1. Transmit(key) /\ NewRequest
    BY <1>3 DEF RequestSent
  <2>2. /\ nreq + 1 \in Requests /\ nreq' \in 0 .. MaxRequests
        /\ AllocatedSeq \in Seqs /\ nextSeq' \in Seqs /\ wire' \subseteq Message
    BY <2>1, TransmitType
  <2>3. s \in Slots
    BY <2>1, LowestSlot DEF Transmit, FreeSlots
  <2>4. [req |-> nreq + 1, seq |-> AllocatedSeq, key |-> key, left |-> timeout] \in Entry
    BY <2>2, ClientAssumption DEF Entry, Requests
  <2>5. pending' \in [Slots -> Entry]
    BY <1>3, <2>3, <2>4 DEF RequestSent, TypeOK
  <2>6. handle' \in [Requests -> 0 .. MaxInFlight]
    <3>1. handle' = [handle EXCEPT ![nreq + 1] = s] /\ s \in 0 .. MaxInFlight
      BY <1>3, <2>3, ClientAssumption DEF RequestSent, Slots
    <3> QED
      BY <3>1, <2>2 DEF TypeOK
  <2>7. past' \in [Requests -> History]
    <3>1. past \in [Requests -> History] /\ link \in Nat /\ retirements \in Nat
      BY DEF TypeOK
    <3>2. past' = [past EXCEPT ![nreq + 1].link = link, ![nreq + 1].sentAt = retirements]
      BY <1>3 DEF RequestSent
    <3> QED
      BY <3>1, <3>2, <2>2 DEF History
  <2> QED
    BY <1>3, <2>2, <2>5, <2>6, <2>7 DEF TypeOK, RequestSent, retired, control
<1>4. ASSUME NEW r \in Requests, Cancel(r)
      PROVE  TypeOK'
  <2> DEFINE s == handle[r]
  <2>1. s \in Slots /\ Active(s) /\ pending[s].req = r /\ Detach(s) /\ Defer(r, "Cancelled")
    BY <1>4 DEF Cancel, Resolves
  <2>2. /\ pending' \in [Slots -> Entry] /\ past' \in [Requests -> History]
        /\ Retire(pending[s].seq) /\ pending[s].seq \in Seqs
    BY <2>1, DetachType, EntryType
  <2>3. deferred' \in Seq(Deferral)
    BY <2>1, DeferType DEF Reasons
  <2>5. RetiredType'
    BY <2>2, RetireType
  <2>6. asked' \subseteq Requests
    BY <1>4 DEF Cancel, TypeOK
  <2> QED
    BY <1>4, <2>2, <2>3, <2>5, <2>6 DEF TypeOK, RetiredType, Cancel, control
<1> QED
  BY <1>1, <1>2, <1>3, <1>4 DEF App

\* complete(): what poll(), fail_all() and on_message() do to one entry.
LEMMA CompleteType ==
  ASSUME TypeOK, NEW s \in Slots, Active(s), NEW why \in Reasons \cup {"Answered"},
         NEW answer \in 0 .. MaxRequests, Complete(s, why, answer)
  PROVE  /\ pending' \in [Slots -> Entry] /\ past' \in [Requests -> History]
         /\ told' \in [Requests -> Seq(Telling)]
         /\ RetiredType'
<1>1. Detach(s) /\ Tell(pending[s].req, why, answer)
  BY DEF Complete
<1>2. /\ pending' \in [Slots -> Entry] /\ past' \in [Requests -> History]
      /\ Retire(pending[s].seq) /\ pending[s].seq \in Seqs /\ pending[s].req \in Requests
  BY <1>1, DetachType, EntryType
<1> QED
  BY <1>1, <1>2, TellType, RetireType

LEMMA RunType ==
  ASSUME TypeOK, Run
  PROVE  TypeOK'
<1>1. CASE RunDeferred
  <2>1. deferred \in Seq(Deferral) /\ deferred # <<>>
    BY <1>1 DEF RunDeferred, TypeOK
  <2>2. Head(deferred) \in Deferral /\ deferred' \in Seq(Deferral)
    BY <1>1, <2>1, HeadTailProperties DEF RunDeferred
  <2>3. told' \in [Requests -> Seq(Telling)]
    BY <1>1, <2>2, TellType, ClientAssumption DEF RunDeferred, Deferral
  <2> QED
    BY <1>1, <2>2, <2>3 DEF TypeOK, RunDeferred, retired
<1>2. CASE ExpireNext
  <2> DEFINE s == Lowest(ExpiredAhead)
  <2>1. s \in Slots
    BY <1>2, LowestSlot DEF ExpireNext, ExpiredAhead
  <2>2. expired' \in [Slots -> 0 .. MaxRequests]
    BY <1>2, <2>1, ClientAssumption DEF ExpireNext, TypeOK
  <2>3. inCallback' \in BOOLEAN
    BY <1>2 DEF ExpireNext, Resolves
  <2>4. CASE Resolves(s, expired[s])
    <3>1. Active(s) /\ Complete(s, "Timeout", 0)
      BY <1>2, <2>4 DEF ExpireNext, Resolves
    <3>2. /\ pending' \in [Slots -> Entry] /\ past' \in [Requests -> History]
          /\ told' \in [Requests -> Seq(Telling)]
          /\ RetiredType'
      BY <2>1, <3>1, CompleteType, ClientAssumption DEF Reasons
    <3> QED
      BY <1>2, <2>2, <2>3, <3>2 DEF TypeOK, RetiredType, ExpireNext
  <2>5. CASE ~Resolves(s, expired[s])
    BY <1>2, <2>2, <2>3, <2>5 DEF TypeOK, ExpireNext, retired
  <2> QED
    BY <2>4, <2>5
<1>3. CASE FailNext
  <2> DEFINE s == Lowest(ActiveAhead)
  <2>1. s \in ActiveAhead
    BY <1>3, LowestSlot DEF FailNext, ActiveAhead
  <2>2. s \in Slots /\ Active(s) /\ Complete(s, FailReason(pc), 0)
    BY <1>3, <2>1 DEF FailNext, ActiveAhead
  <2>3. FailReason(pc) \in Reasons
    BY DEF FailReason, Reasons
  <2>4. /\ pending' \in [Slots -> Entry] /\ past' \in [Requests -> History]
        /\ told' \in [Requests -> Seq(Telling)]
        /\ RetiredType'
    BY <2>2, <2>3, CompleteType, ClientAssumption
  <2>5. cursor' \in 0 .. MaxInFlight
    BY <1>3, <2>2, ClientAssumption DEF FailNext, Slots
  <2> QED
    BY <1>3, <2>4, <2>5 DEF TypeOK, RetiredType, FailNext
<1>4. CASE LoopDone
  <2>1. After(pc) \in Phases
    BY DEF After, Phases, DrainPhases, FailPhases
  <2>2. Snapshot \in [Slots -> 0 .. MaxRequests]
    <3>1. \A s \in Slots : pending[s].req \in 0 .. MaxRequests
      BY DEF TypeOK, Entry
    <3> QED
      BY <3>1, ClientAssumption DEF Snapshot
  <2>3. expired' \in [Slots -> 0 .. MaxRequests]
    BY <1>4, <2>2 DEF LoopDone, TypeOK
  <2>4. link' \in Nat /\ cursor' \in 0 .. MaxInFlight
    BY <1>4, ClientAssumption DEF LoopDone, TypeOK
  <2>5. connected' \in BOOLEAN /\ inCallback' \in BOOLEAN
    BY <1>4 DEF LoopDone
  <2> QED
    BY <1>4, <2>1, <2>3, <2>4, <2>5 DEF LoopDone, TypeOK, retired
<1> QED
  BY <1>1, <1>2, <1>3, <1>4 DEF Run

LEMMA BeginType ==
  ASSUME TypeOK, NEW phase \in Phases, Begin(phase),
         before' \in 0 .. MaxRequests, connected' \in BOOLEAN
  PROVE  TypeOK'
BY DEF TypeOK, Begin, retired

LEMMA EnvironmentType ==
  ASSUME TypeOK, Poll \/ Environment
  PROVE  TypeOK'
<1>1. CASE Poll \/ OnFramingError \/ OnDisconnected \/ RebindTransport \/ Destroy
  <2>1. PICK phase \in Phases : Begin(phase)
    BY <1>1 DEF Poll, OnFramingError, OnDisconnected, RebindTransport, Destroy, Phases,
                DrainPhases, FailPhases
  <2>2. before' \in 0 .. MaxRequests /\ connected' \in BOOLEAN
    BY <1>1 DEF Poll, OnFramingError, OnDisconnected, RebindTransport, Destroy, TypeOK
  <2> QED
    BY <2>1, <2>2, BeginType
<1>2. CASE Tick
  <2>1. pending' \in [Slots -> Entry]
    <3>1. pending \in [Slots -> Entry]
      BY DEF TypeOK
    <3>2. ASSUME NEW s \in Slots
          PROVE  [pending[s] EXCEPT !.left = IF @ > 0 THEN @ - 1 ELSE 0] \in Entry
      BY <3>1 DEF Entry
    <3> QED
      BY <1>2, <3>2 DEF Tick
  <2> QED
    BY <1>2, <2>1 DEF Tick, TypeOK, retired, control
<1>3. ASSUME NEW m \in wire, OnMessage(m)
      PROVE  TypeOK'
  <2> DEFINE s == Lowest(Matches(m))
  <2>1. s \in Matches(m)
    BY <1>3, LowestSlot DEF OnMessage, Matches, SlotsWithSeq
  <2>2. s \in Slots /\ Active(s) /\ Complete(s, "Answered", m.req)
    BY <1>3, <2>1 DEF OnMessage, Matches, SlotsWithSeq
  <2>3. m.req \in 0 .. MaxRequests
    BY ClientAssumption DEF TypeOK, Message, Requests
  <2>4. /\ pending' \in [Slots -> Entry] /\ past' \in [Requests -> History]
        /\ told' \in [Requests -> Seq(Telling)]
        /\ RetiredType'
    BY <2>2, <2>3, CompleteType
  <2> QED
    BY <1>3, <2>4 DEF TypeOK, RetiredType, OnMessage, control
<1>4. CASE UNCHANGED vars
  BY <1>4 DEF TypeOK, vars, client, retired, control
<1> QED
  BY <1>1, <1>2, <1>3, <1>4 DEF Environment, OnMessageDropped, Destroyed

\* Every variable keeps its type; in particular the retired ring of
\* client.cpp never outgrows max_retired_seqs and its head stays inside it.
THEOREM TypeCorrect == Spec => []TypeOK
<1>1. TypeOK /\ [Next]_vars => TypeOK'
  <2> SUFFICES ASSUME TypeOK, [Next]_vars PROVE TypeOK'
    OBVIOUS
  <2>1. CASE UNCHANGED vars
    BY <2>1 DEF TypeOK, vars, client, retired, control
  <2> QED
    BY <2>1, AppType, RunType, EnvironmentType DEF Next
<1> QED
  BY <1>1, TypeInit, PTL DEF Spec

-----------------------------------------------------------------------------
(* The steps as the table, the queue and the retired set see them.         *)

Quiet ==
  /\ UNCHANGED <<flags, ring, head, deferred, told, nreq>>
  /\ \A s \in Slots : pending'[s].req = pending[s].req /\ pending'[s].seq = pending[s].seq

Completion(s) ==
  /\ Active(s) /\ Detach(s)
  /\ \E why \in Reasons \cup {"Answered"}, answer \in 0 .. MaxRequests :
       Tell(pending[s].req, why, answer)
  /\ UNCHANGED <<deferred, nreq>>

LEMMA StepCases ==
  ASSUME TypeOK, [Next]_vars
  PROVE  \/ Quiet
         \/ \E why \in Reasons : RefuseUnsent(why)
         \/ \E key \in Keys : RequestSendFails(key)
         \/ \E key \in Keys, timeout \in Timeouts : RequestSent(key, timeout)
         \/ \E r \in Requests : Cancel(r)
         \/ RunDeferred
         \/ \E s \in Slots : Completion(s)
<1>1. CASE RequestWhileDown \/ RequestTooLarge \/ RequestTableFull \/ RequestNoSeq \/ DeferWork
  BY <1>1 DEF RequestWhileDown, RequestTooLarge, RequestTableFull, RequestNoSeq, DeferWork,
              Reasons
<1>2. CASE ExpireNext
  <2> DEFINE s == Lowest(ExpiredAhead)
  <2>1. s \in Slots
    BY <1>2, LowestSlot DEF ExpireNext, ExpiredAhead
  <2>2. CASE Resolves(s, expired[s])
    <3>1. Active(s) /\ Complete(s, "Timeout", 0) /\ UNCHANGED <<deferred, nreq>>
      BY <1>2, <2>2 DEF ExpireNext, Resolves
    <3> QED
      BY <2>1, <3>1, ClientAssumption DEF Completion, Complete, Reasons
  <2>3. CASE ~Resolves(s, expired[s])
    BY <1>2, <2>3 DEF ExpireNext, Quiet, retired
  <2> QED
    BY <2>2, <2>3
<1>3. CASE FailNext
  <2> DEFINE s == Lowest(ActiveAhead)
  <2>1. s \in ActiveAhead
    BY <1>3, LowestSlot DEF FailNext, ActiveAhead
  <2>2. /\ s \in Slots /\ Active(s) /\ Complete(s, FailReason(pc), 0)
        /\ UNCHANGED <<deferred, nreq>>
    BY <1>3, <2>1 DEF FailNext, ActiveAhead
  <2>3. FailReason(pc) \in Reasons
    BY DEF FailReason, Reasons
  <2> QED
    BY <2>2, <2>3, ClientAssumption DEF Completion, Complete
<1>4. ASSUME NEW m \in wire, OnMessage(m)
      PROVE  \E s \in Slots : Completion(s)
  <2> DEFINE s == Lowest(Matches(m))
  <2>1. s \in Matches(m)
    BY <1>4, LowestSlot DEF OnMessage, Matches, SlotsWithSeq
  <2>2. /\ s \in Slots /\ Active(s) /\ Complete(s, "Answered", m.req)
        /\ UNCHANGED <<deferred, nreq>>
    BY <1>4, <2>1 DEF OnMessage, Matches, SlotsWithSeq
  <2>3. m.req \in 0 .. MaxRequests
    BY ClientAssumption DEF TypeOK, Message, Requests
  <2> QED
    BY <2>2, <2>3 DEF Completion, Complete
<1>5. CASE Tick
  <2>1. pending \in [Slots -> Entry]
    BY DEF TypeOK
  <2>2. \A s \in Slots : pending'[s].req = pending[s].req /\ pending'[s].seq = pending[s].seq
    BY <1>5, <2>1 DEF Tick, Entry
  <2> QED
    BY <1>5, <2>2 DEF Tick, Quiet, retired
<1>6. CASE LoopDone
  BY <1>6 DEF LoopDone, Quiet, retired
<1>7. CASE Poll \/ OnFramingError \/ OnDisconnected \/ RebindTransport \/ Destroy
  BY <1>7 DEF Poll, OnFramingError, OnDisconnected, RebindTransport, Destroy, Begin, Quiet,
              retired
<1>8. CASE UNCHANGED vars
  BY <1>8 DEF vars, client, retired, Quiet
<1> QED
  BY <1>1, <1>2, <1>3, <1>4, <1>5, <1>6, <1>7, <1>8
     DEF Next, App, Run, Environment, OnMessageDropped, Destroyed

-----------------------------------------------------------------------------
(* The retired set and the sequence numbers.                               *)

LEMMA RetireAgrees ==
  ASSUME TypeOK, RetiredSetAgrees, NEW q \in Seqs, Retire(q)
  PROVE  RetiredSetAgrees'
<1>0. /\ flags \in [Seqs -> BOOLEAN] /\ ring \in Seq(Seqs) /\ MaxRetired \in Nat
      /\ Len(ring) <= MaxRetired /\ head \in Nat /\ (head = 0 \/ head < Len(ring))
  BY ClientAssumption DEF TypeOK
<1>1. CASE MaxRetired = 0 \/ flags[q]
  BY <1>1 DEF Retire, RetiredSetAgrees
<1>2. CASE ~(MaxRetired = 0 \/ flags[q]) /\ Len(ring) = MaxRetired
  <2> DEFINE h == head + 1
  <2>1. h \in 1 .. Len(ring) /\ ring[h] \in Seqs /\ ~flags[q]
    BY <1>0, <1>2
  <2>2. ring' = [ring EXCEPT ![h] = q]
    BY <1>2 DEF Retire
  <2>3. flags' = [flags EXCEPT ![ring[h]] = FALSE, ![q] = TRUE]
    BY <1>2 DEF Retire, FlagsRemembering
  <2> HIDE DEF h
  <2>4. /\ Len(ring') = Len(ring)
        /\ \A i \in 1 .. Len(ring) : ring'[i] = IF i = h THEN q ELSE ring[i]
    BY <1>0, <2>1, <2>2, ExceptSeq
  <2>5. \A p \in Seqs : flags'[p] <=> p = q \/ (flags[p] /\ p # ring[h])
    BY <1>0, <2>1, <2>3
  <2> QED
    BY <2>1, <2>4, <2>5 DEF RetiredSetAgrees
<1>3. CASE ~(MaxRetired = 0 \/ flags[q]) /\ Len(ring) # MaxRetired
  <2>1. ring' = Append(ring, q) /\ flags' = [flags EXCEPT ![q] = TRUE] /\ ~flags[q]
    BY <1>3 DEF Retire, FlagsRemembering
  <2>2. /\ Len(ring') = Len(ring) + 1 /\ Len(ring) \in Nat
        /\ \A i \in 1 .. Len(ring) : ring'[i] = ring[i]
        /\ ring'[Len(ring) + 1] = q
    BY <1>0, <2>1, AppendProperties, LenProperties
  <2>3. \A p \in Seqs : flags'[p] <=> p = q \/ flags[p]
    BY <1>0, <2>1
  <2> QED
    BY <2>1, <2>2, <2>3 DEF RetiredSetAgrees
<1> QED
  BY <1>1, <1>2, <1>3

\* The flags and the ring that retire() maintains always agree, whatever the
\* order in which numbers are retired, evicted and reused.
THEOREM RetiredSetCorrect == Spec => []RetiredSetAgrees
<1>1. Init => RetiredSetAgrees
  BY EmptySeq DEF Init, RetiredSetAgrees
<1>2. TypeOK /\ RetiredSetAgrees /\ [Next]_vars => RetiredSetAgrees'
  <2> SUFFICES ASSUME TypeOK, RetiredSetAgrees, [Next]_vars PROVE RetiredSetAgrees'
    OBVIOUS
  <2>1. UNCHANGED <<flags, ring>> \/ \E q \in Seqs : Retire(q)
    <3>1. ASSUME NEW key \in Keys, RequestSendFails(key)
          PROVE  \E q \in Seqs : Retire(q)
      <4>1. AllocatedSeq \in Seqs
        BY <3>1, AllocatedIsAvailable DEF RequestSendFails, Transmit, TypeOK
      <4> QED
        BY <3>1, <4>1 DEF RequestSendFails
    <3>2. ASSUME NEW s \in Slots, Active(s), Detach(s)
          PROVE  \E q \in Seqs : Retire(q)
      BY <3>2, EntryType DEF Detach
    <3>3. ASSUME NEW r \in Requests, Cancel(r)
          PROVE  \E q \in Seqs : Retire(q)
      BY <3>2, <3>3 DEF Cancel, Resolves
    <3>4. ASSUME NEW s \in Slots, Completion(s)
          PROVE  \E q \in Seqs : Retire(q)
      BY <3>2, <3>4 DEF Completion
    <3> QED
      BY <3>1, <3>3, <3>4, StepCases
         DEF Quiet, RefuseUnsent, RequestSent, RunDeferred, retired
  <2> QED
    BY <2>1, RetireAgrees DEF RetiredSetAgrees
<1> QED
  BY <1>1, <1>2, TypeCorrect, PTL DEF Spec

\* retire(q) remembers no number but q that was not remembered before.
LEMMA RetireFlags ==
  ASSUME TypeOK, NEW q \in Seqs, Retire(q)
  PROVE  \A p \in Seqs : flags'[p] => flags[p] \/ p = q
<1>0. /\ flags \in [Seqs -> BOOLEAN] /\ ring \in Seq(Seqs) /\ MaxRetired \in Nat
      /\ Len(ring) <= MaxRetired /\ head \in Nat /\ (head = 0 \/ head < Len(ring))
  BY ClientAssumption DEF TypeOK
<1>1. CASE MaxRetired = 0 \/ flags[q]
  BY <1>1 DEF Retire
<1>2. CASE ~(MaxRetired = 0 \/ flags[q]) /\ Len(ring) = MaxRetired
  <2>1. flags' = [flags EXCEPT ![ring[head + 1]] = FALSE, ![q] = TRUE]
    BY <1>2 DEF Retire, FlagsRemembering
  <2> QED
    BY <1>0, <2>1
<1>3. CASE ~(MaxRetired = 0 \/ flags[q]) /\ Len(ring) # MaxRetired
  <2>1. flags' = [flags EXCEPT ![q] = TRUE]
    BY <1>3 DEF Retire, FlagsRemembering
  <2> QED
    BY <1>0, <2>1
<1> QED
  BY <1>1, <1>2, <1>3

LEMMA DetachUnambiguous ==
  ASSUME TypeOK, SeqsUnambiguous, NEW d \in Slots, Active(d), Detach(d)
  PROVE  SeqsUnambiguous'
<1>1. pending[d].seq \in Seqs /\ Retire(pending[d].seq)
  BY EntryType DEF Detach
<1>2. \A p \in Seqs : flags'[p] => flags[p] \/ p = pending[d].seq
  BY <1>1, RetireFlags
<1>3. ASSUME NEW s \in Slots, Active(s)'
      PROVE  s # d /\ pending'[s] = pending[s] /\ Active(s) /\ pending[s].seq \in Seqs
  <2>1. pending' = [pending EXCEPT ![d] = NoEntry] /\ pending \in [Slots -> Entry]
    BY DEF Detach, TypeOK
  <2>2. s # d /\ pending'[s] = pending[s] /\ Active(s)
    BY <1>3, <2>1 DEF Active, NoEntry
  <2> QED
    BY <2>2, EntryType
<1> QED
  BY <1>2, <1>3 DEF SeqsUnambiguous

\* No two requests in flight share a sequence number and none has a number
\* remembered as retired: find_by_seq() names at most one request.
THEOREM SeqsDistinct == Spec => []SeqsUnambiguous
<1>1. Init => SeqsUnambiguous
  BY DEF Init, SeqsUnambiguous, Active, NoEntry
<1>2. TypeOK /\ SeqsUnambiguous /\ [Next]_vars => SeqsUnambiguous'
  <2> SUFFICES ASSUME TypeOK, SeqsUnambiguous, [Next]_vars PROVE SeqsUnambiguous'
    OBVIOUS
  <2>1. CASE Quiet
    BY <2>1 DEF Quiet, SeqsUnambiguous, Active
  <2>2. ASSUME NEW why \in Reasons, RefuseUnsent(why)
        PROVE  SeqsUnambiguous'
    BY <2>2 DEF RefuseUnsent, Refuse, retired, SeqsUnambiguous, Active
  <2>3. ASSUME NEW key \in Keys, RequestSendFails(key)
        PROVE  SeqsUnambiguous'
    <3>1. AllocatedSeq \in Seqs /\ SeqAvailable(AllocatedSeq)
      BY <2>3, AllocatedIsAvailable DEF RequestSendFails, Transmit, TypeOK
    <3>2. \A p \in Seqs : flags'[p] => flags[p] \/ p = AllocatedSeq
      BY <2>3, <3>1, RetireFlags DEF RequestSendFails
    <3>3. \A s \in Slots : Active(s) => pending[s].seq \in Seqs /\ pending[s].seq # AllocatedSeq
      BY <3>1, EntryType DEF SeqAvailable, SlotsWithSeq
    <3>4. pending' = pending
      BY <2>3 DEF RequestSendFails, Refuse
    <3> QED
      BY <3>2, <3>3, <3>4 DEF SeqsUnambiguous, Active
  <2>4. ASSUME NEW key \in Keys, NEW timeout \in Timeouts, RequestSent(key, timeout)
        PROVE  SeqsUnambiguous'
    <3> DEFINE f == Lowest(FreeSlots)
               e == [req |-> nreq + 1, seq |-> AllocatedSeq, key |-> key, left |-> timeout]
    <3>1. AllocatedSeq \in Seqs /\ SeqAvailable(AllocatedSeq)
      BY <2>4, AllocatedIsAvailable DEF RequestSent, Transmit, TypeOK
    <3>2. pending' = [pending EXCEPT ![f] = e] /\ flags' = flags
      BY <2>4 DEF RequestSent, retired
    <3>3. pending \in [Slots -> Entry] /\ e.seq = AllocatedSeq
      BY DEF TypeOK
    <3>4. \A s \in Slots : pending'[s] = IF s = f THEN e ELSE pending[s]
      BY <3>2, <3>3
    <3> HIDE DEF f, e
    <3>5. \A s \in Slots : Active(s) => pending[s].seq # AllocatedSeq
      BY <3>1 DEF SeqAvailable, SlotsWithSeq
    <3>6. ~flags[AllocatedSeq]
      BY <3>1 DEF SeqAvailable
    <3> QED
      BY <3>2, <3>3, <3>4, <3>5, <3>6 DEF SeqsUnambiguous, Active
  <2>5. ASSUME NEW r \in Requests, Cancel(r)
        PROVE  SeqsUnambiguous'
    BY <2>5, DetachUnambiguous DEF Cancel, Resolves
  <2>6. CASE RunDeferred
    BY <2>6 DEF RunDeferred, retired, SeqsUnambiguous, Active
  <2>7. ASSUME NEW s \in Slots, Completion(s)
        PROVE  SeqsUnambiguous'
    BY <2>7, DetachUnambiguous DEF Completion
  <2> QED
    BY <2>1, <2>2, <2>3, <2>4, <2>5, <2>6, <2>7, StepCases
<1> QED
  BY <1>1, <1>2, TypeCorrect, PTL DEF Spec

\* A sequence number names at most one request, and the client's memory of
\* retired numbers (allocate_seq(), retire()) is in order.
THEOREM SeqsAlwaysSound == Spec => []SeqsSound
  BY SeqsDistinct, RetiredSetCorrect, PTL DEF SeqsSound

-----------------------------------------------------------------------------
(* Exactly one completion per request.                                     *)

\* The first conjunct of ExactlyOnce, for one request.
OnePlace(r) ==
  /\ r > nreq => ~InTable(r) /\ ~InQueue(r) /\ told[r] = <<>>
  /\ r <= nreq /\ told[r] = <<>> => ~(InTable(r) <=> InQueue(r))
  /\ told[r] # <<>> => Len(told[r]) = 1 /\ ~InTable(r) /\ ~InQueue(r)

TableDistinct ==
  \A s, t \in Slots : Active(s) /\ pending[s].req = pending[t].req => s = t

QueueDistinct ==
  \A i, j \in 1 .. Len(deferred) : deferred[i].req = deferred[j].req => i = j

LEMMA ExactlyOnceParts ==
  ASSUME TypeOK
  PROVE  ExactlyOnce <=> (\A r \in Requests : OnePlace(r)) /\ TableDistinct /\ QueueDistinct
<1>1. nreq \in Nat /\ Requests \subseteq Nat
  BY ClientAssumption DEF TypeOK, Requests
<1> QED
  BY <1>1 DEF ExactlyOnce, OnePlace, TableDistinct, QueueDistinct

\* A request in the table was issued, is not queued and was not completed.
LEMMA TablePlace ==
  ASSUME NEW r \in Requests, TypeOK, OnePlace(r), InTable(r)
  PROVE  told[r] = <<>> /\ ~InQueue(r) /\ r <= nreq
<1>1. nreq \in Nat /\ r \in Nat
  BY ClientAssumption DEF TypeOK, Requests
<1>2. r <= nreq
  BY <1>1 DEF OnePlace
<1>3. told[r] = <<>>
  BY DEF OnePlace
<1> QED
  BY <1>2, <1>3 DEF OnePlace

\* A queued request was issued, is not in the table and was not completed.
LEMMA QueuePlace ==
  ASSUME NEW r \in Requests, TypeOK, OnePlace(r), InQueue(r)
  PROVE  told[r] = <<>> /\ ~InTable(r) /\ r <= nreq
<1>1. nreq \in Nat /\ r \in Nat
  BY ClientAssumption DEF TypeOK, Requests
<1>2. r <= nreq
  BY <1>1 DEF OnePlace
<1>3. told[r] = <<>>
  BY DEF OnePlace
<1> QED
  BY <1>2, <1>3 DEF OnePlace

LEMMA QueueAppend ==
  ASSUME TypeOK, QueueDistinct, NEW r \in Requests, NEW why \in Reasons, Defer(r, why),
         ~InQueue(r)
  PROVE  QueueDistinct' /\ \A p \in Requests : InQueue(p)' <=> InQueue(p) \/ p = r
<1> DEFINE e == [req |-> r, why |-> why]
<1>1. deferred \in Seq(Deferral) /\ e \in Deferral /\ deferred' = Append(deferred, e)
  BY DEF TypeOK, Deferral, Defer
<1>2. /\ Len(deferred') = Len(deferred) + 1 /\ Len(deferred) \in Nat
      /\ \A i \in 1 .. Len(deferred) : deferred'[i] = deferred[i]
      /\ deferred'[Len(deferred) + 1] = e
  BY <1>1, AppendProperties, LenProperties
<1>3. e.req = r
  OBVIOUS
<1> HIDE DEF e
<1>4. \A i \in 1 .. Len(deferred) : deferred[i].req # r
  BY DEF InQueue
<1>5. QueueDistinct'
  BY <1>2, <1>3, <1>4 DEF QueueDistinct
<1>6. ASSUME NEW p \in Requests
      PROVE  InQueue(p)' <=> InQueue(p) \/ p = r
  BY <1>2, <1>3 DEF InQueue
<1> QED
  BY <1>5, <1>6

LEMMA QueueTail ==
  ASSUME TypeOK, QueueDistinct, deferred # <<>>, deferred' = Tail(deferred)
  PROVE  /\ QueueDistinct' /\ Head(deferred) \in Deferral /\ InQueue(Head(deferred).req)
         /\ \A p \in Requests : InQueue(p)' <=> InQueue(p) /\ p # Head(deferred).req
<1>1. deferred \in Seq(Deferral)
  BY DEF TypeOK
<1>2. /\ Head(deferred) = deferred[1] /\ Head(deferred) \in Deferral
      /\ Len(deferred') = Len(deferred) - 1 /\ Len(deferred) \in Nat \ {0}
      /\ \A i \in 1 .. Len(deferred') : deferred'[i] = deferred[i + 1]
  BY <1>1, HeadTailProperties, EmptySeq
<1>3. InQueue(Head(deferred).req)
  BY <1>2 DEF InQueue
<1>4. QueueDistinct'
  BY <1>2 DEF QueueDistinct
<1>5. ASSUME NEW p \in Requests
      PROVE  InQueue(p)' <=> InQueue(p) /\ p # Head(deferred).req
  <2>1. ASSUME InQueue(p)'
        PROVE  InQueue(p) /\ p # Head(deferred).req
    <3>1. PICK i \in 1 .. Len(deferred') : deferred'[i].req = p
      BY <2>1 DEF InQueue
    <3>2. i + 1 \in 1 .. Len(deferred) /\ i + 1 # 1 /\ deferred[i + 1].req = p
      BY <1>2, <3>1
    <3> QED
      BY <1>2, <3>2 DEF InQueue, QueueDistinct
  <2>2. ASSUME InQueue(p), p # Head(deferred).req
        PROVE  InQueue(p)'
    <3>1. PICK i \in 1 .. Len(deferred) : deferred[i].req = p
      BY <2>2 DEF InQueue
    <3>2. i - 1 \in 1 .. Len(deferred') /\ deferred'[i - 1].req = p
      BY <1>2, <2>2, <3>1
    <3> QED
      BY <3>2 DEF InQueue
  <2> QED
    BY <2>1, <2>2
<1> QED
  BY <1>2, <1>3, <1>4, <1>5

LEMMA TableRemove ==
  ASSUME TypeOK, TableDistinct, NEW d \in Slots, Active(d), Detach(d)
  PROVE  /\ TableDistinct' /\ InTable(pending[d].req)
         /\ \A p \in Requests : InTable(p)' <=> InTable(p) /\ p # pending[d].req
<1>1. pending' = [pending EXCEPT ![d] = NoEntry] /\ pending \in [Slots -> Entry]
  BY DEF Detach, TypeOK
<1>2. \A s \in Slots : pending'[s] = IF s = d THEN NoEntry ELSE pending[s]
  BY <1>1
<1>3. NoEntry.req = 0 /\ 0 \notin Requests
  BY ClientAssumption DEF NoEntry, Requests
<1>4. TableDistinct'
  BY <1>2, <1>3 DEF TableDistinct, Active
<1>5. ASSUME NEW p \in Requests
      PROVE  InTable(p)' <=> InTable(p) /\ p # pending[d].req
  BY <1>2, <1>3 DEF TableDistinct, InTable, Active
<1> QED
  BY <1>4, <1>5 DEF InTable

LEMMA TellOnce ==
  ASSUME TypeOK, NEW r \in Requests, told[r] = <<>>, NEW why \in Reasons \cup {"Answered"},
         NEW answer \in 0 .. MaxRequests, Tell(r, why, answer)
  PROVE  /\ told'[r] # <<>> /\ Len(told'[r]) = 1
         /\ \A p \in Requests : p # r => told'[p] = told[p]
<1> DEFINE t == [why |-> why, answer |-> answer]
<1>1. told \in [Requests -> Seq(Telling)] /\ t \in Telling
  BY DEF TypeOK, Telling
<1>2. told' = [told EXCEPT ![r] = Append(told[r], t)]
  BY <1>1 DEF Tell
<1> HIDE DEF t
<1>3. Append(told[r], t) # <<>> /\ Len(Append(told[r], t)) = 1
  BY <1>1, AppendProperties, EmptySeq
<1> QED
  BY <1>1, <1>2, <1>3

\* The count of requests is a number, before a step and after it.
LEMMA CountBefore ==
  ASSUME TypeOK
  PROVE  nreq \in Nat /\ Requests \subseteq Nat /\ 0 \notin Requests
<1>1. nreq \in 0 .. MaxRequests
  BY DEF TypeOK
<1> QED
  BY <1>1, ClientAssumption DEF Requests

\* The same, after a step.
LEMMA CountAfter ==
  ASSUME TypeOK'
  PROVE  nreq' \in Nat
<1>1. nreq' \in 0 .. MaxRequests
  BY DEF TypeOK
<1> QED
  BY <1>1, ClientAssumption

LEMMA ExactlyOnceStep ==
  ASSUME TypeOK, TypeOK', ExactlyOnce, [Next]_vars
  PROVE  ExactlyOnce'
<1>0. /\ \A r \in Requests : OnePlace(r)
      /\ TableDistinct /\ QueueDistinct
      /\ nreq \in Nat /\ Requests \subseteq Nat /\ 0 \notin Requests
  <2>1. nreq \in Nat /\ Requests \subseteq Nat /\ 0 \notin Requests
    BY CountBefore
  <2> QED
    BY <2>1, ExactlyOnceParts
<1> SUFFICES (\A r \in Requests : OnePlace(r)') /\ TableDistinct' /\ QueueDistinct'
  <2>1. nreq' \in Nat
    BY CountAfter
  <2>2. ASSUME NEW r \in Requests, OnePlace(r)'
        PROVE  IF r > nreq' THEN ~InTable(r)' /\ ~InQueue(r)' /\ told'[r] = <<>>
               ELSE IF told'[r] = <<>> THEN ~(InTable(r)' <=> InQueue(r)')
               ELSE Len(told'[r]) = 1 /\ ~InTable(r)' /\ ~InQueue(r)'
    <3>1. r \in Nat
      BY <1>0
    <3>2. ~(r > nreq') => r <= nreq'
      BY <2>1, <3>1
    <3> QED
      BY <2>2, <3>2, ZenonT(60) DEF OnePlace
  <2> QED
    BY <2>2 DEF ExactlyOnce, TableDistinct, QueueDistinct
<1>1. CASE Quiet
  <2>1. UNCHANGED <<deferred, told, nreq>> /\ \A s \in Slots : pending'[s].req = pending[s].req
    BY <1>1 DEF Quiet
  <2>2. \A p : InTable(p)' <=> InTable(p)
    BY <2>1 DEF InTable
  <2>3. \A p : InQueue(p)' <=> InQueue(p)
    BY <2>1 DEF InQueue
  <2>4. TableDistinct' /\ QueueDistinct'
    BY <1>0, <2>1 DEF TableDistinct, QueueDistinct, Active
  <2> QED
    BY <1>0, <2>1, <2>2, <2>3, <2>4 DEF OnePlace
<1>2. ASSUME NEW why \in Reasons, Refuse(why)
      PROVE  (\A r \in Requests : OnePlace(r)') /\ TableDistinct' /\ QueueDistinct'
  <2>1. /\ nreq + 1 \in Requests /\ nreq' = nreq + 1
        /\ Defer(nreq + 1, why) /\ UNCHANGED <<pending, told>>
    BY <1>0, <1>2, ClientAssumption DEF Refuse, NewRequest, Requests
  <2>2. OnePlace(nreq + 1) /\ nreq + 1 > nreq
    BY <1>0, <2>1
  <2>3. QueueDistinct' /\ \A p \in Requests : InQueue(p)' <=> InQueue(p) \/ p = nreq + 1
    BY <1>0, <2>1, <2>2, QueueAppend DEF OnePlace
  <2>4. TableDistinct' /\ \A p : InTable(p)' <=> InTable(p)
    BY <1>0, <2>1 DEF TableDistinct, InTable, Active
  <2> QED
    BY <1>0, <2>1, <2>3, <2>4 DEF OnePlace
<1>3. ASSUME NEW key \in Keys, NEW timeout \in Timeouts, RequestSent(key, timeout)
      PROVE  (\A r \in Requests : OnePlace(r)') /\ TableDistinct' /\ QueueDistinct'
  <2> DEFINE f == Lowest(FreeSlots)
             e == [req |-> nreq + 1, seq |-> AllocatedSeq, key |-> key, left |-> timeout]
  <2>1. /\ nreq + 1 \in Requests /\ nreq' = nreq + 1
        /\ pending' = [pending EXCEPT ![f] = e] /\ UNCHANGED <<deferred, told>>
    BY <1>0, <1>3, ClientAssumption DEF RequestSent, NewRequest, Requests
  <2>2. OnePlace(nreq + 1) /\ nreq + 1 > nreq
    BY <1>0, <2>1
  <2>3. f \in FreeSlots
    BY <1>3, LowestSlot DEF RequestSent, Transmit, FreeSlots
  <2>4. e.req = nreq + 1 /\ \A s \in Slots : pending'[s] = IF s = f THEN e ELSE pending[s]
    BY <2>1 DEF TypeOK
  <2>5. f \in Slots /\ pending[f].req = 0
    BY <2>3 DEF FreeSlots, Active
  <2> HIDE DEF f, e
  <2>6. \A s \in Slots : pending[s].req # nreq + 1
    BY <1>0, <2>2 DEF OnePlace, InTable
  <2>7. TableDistinct'
    BY <1>0, <2>4, <2>5, <2>6, ZenonT(60) DEF TableDistinct, Active
  <2>8. \A p \in Requests : InTable(p)' <=> InTable(p) \/ p = nreq + 1
    BY <1>0, <2>4, <2>5 DEF InTable
  <2>9. QueueDistinct' /\ \A p : InQueue(p)' <=> InQueue(p)
    BY <1>0, <2>1 DEF QueueDistinct, InQueue
  <2>10. ASSUME NEW p \in Requests
         PROVE  OnePlace(p)'
    <3>1. OnePlace(p) /\ p \in Nat /\ nreq \in Nat
      BY <1>0
    <3>2. /\ nreq' = nreq + 1 /\ told' = told /\ (InQueue(p)' <=> InQueue(p))
          /\ (InTable(p)' <=> InTable(p) \/ p = nreq + 1)
      BY <2>1, <2>8, <2>9
    <3>3. CASE p = nreq + 1
      <4>1. ~(p > nreq')
        BY <3>1, <3>2, <3>3
      <4>2. told[p] = <<>> /\ ~InTable(p) /\ ~InQueue(p)
        BY <2>2, <3>3, ZenonT(60) DEF OnePlace
      <4> QED
        BY <3>2, <3>3, <4>1, <4>2, ZenonT(60) DEF OnePlace
    <3>4. CASE p # nreq + 1
      BY <3>1, <3>2, <3>4 DEF OnePlace
    <3> QED
      BY <3>3, <3>4
  <2> QED
    BY <2>7, <2>9, <2>10
<1>4. ASSUME NEW r \in Requests, Cancel(r)
      PROVE  (\A p \in Requests : OnePlace(p)') /\ TableDistinct' /\ QueueDistinct'
  <2> DEFINE s == handle[r]
  <2>1. /\ s \in Slots /\ Active(s) /\ pending[s].req = r /\ Detach(s)
        /\ Defer(r, "Cancelled") /\ UNCHANGED <<told, nreq>>
    BY <1>4 DEF Cancel, Resolves
  <2>2. /\ TableDistinct' /\ InTable(r)
        /\ \A p \in Requests : InTable(p)' <=> InTable(p) /\ p # r
    BY <1>0, <2>1, TableRemove
  <2>3. ~InQueue(r) /\ r <= nreq /\ told[r] = <<>>
    <3>1. OnePlace(r)
      BY <1>0
    <3> QED
      BY <2>2, <3>1, TablePlace
  <2>4. QueueDistinct' /\ \A p \in Requests : InQueue(p)' <=> InQueue(p) \/ p = r
    BY <1>0, <2>1, <2>3, QueueAppend DEF Reasons
  <2> QED
    BY <1>0, <2>1, <2>2, <2>3, <2>4 DEF OnePlace
<1>5. CASE RunDeferred
  <2> DEFINE r == Head(deferred).req
  <2>1. /\ deferred # <<>> /\ deferred' = Tail(deferred) /\ UNCHANGED <<pending, nreq>>
        /\ Tell(r, Head(deferred).why, 0)
    BY <1>5 DEF RunDeferred
  <2>2. /\ QueueDistinct' /\ r \in Requests /\ Head(deferred).why \in Reasons /\ InQueue(r)
        /\ \A p \in Requests : InQueue(p)' <=> InQueue(p) /\ p # r
    BY <1>0, <2>1, QueueTail DEF Deferral
  <2> HIDE DEF r
  <2>3. told[r] = <<>> /\ ~InTable(r) /\ r <= nreq
    <3>1. OnePlace(r)
      BY <1>0, <2>2
    <3> QED
      BY <2>2, <3>1, QueuePlace
  <2>4. /\ told'[r] # <<>> /\ Len(told'[r]) = 1
        /\ \A p \in Requests : p # r => told'[p] = told[p]
    <3>1. 0 \in 0 .. MaxRequests
      BY ClientAssumption
    <3>2. Head(deferred).why \in Reasons \cup {"Answered"}
      BY <2>2
    <3> QED
      BY <2>1, <2>2, <2>3, <3>1, <3>2, TellOnce, ZenonT(60)
  <2>5. TableDistinct' /\ \A p : InTable(p)' <=> InTable(p)
    BY <1>0, <2>1 DEF TableDistinct, InTable, Active
  <2>6. ASSUME NEW p \in Requests
        PROVE  OnePlace(p)'
    BY <1>0, <2>1, <2>2, <2>3, <2>4, <2>5 DEF OnePlace
  <2> QED
    BY <2>2, <2>5, <2>6
<1>6. ASSUME NEW s \in Slots, Completion(s)
      PROVE  (\A p \in Requests : OnePlace(p)') /\ TableDistinct' /\ QueueDistinct'
  <2> DEFINE r == pending[s].req
  <2>1. PICK why \in Reasons \cup {"Answered"}, answer \in 0 .. MaxRequests :
          Tell(r, why, answer)
    BY <1>6 DEF Completion
  <2>2. Active(s) /\ Detach(s) /\ UNCHANGED <<deferred, nreq>> /\ r \in Requests
    BY <1>6, EntryType DEF Completion
  <2>3. /\ TableDistinct' /\ InTable(r)
        /\ \A p \in Requests : InTable(p)' <=> InTable(p) /\ p # r
    BY <1>0, <2>2, TableRemove
  <2> HIDE DEF r
  <2>4. told[r] = <<>> /\ ~InQueue(r) /\ r <= nreq
    <3>1. OnePlace(r)
      BY <1>0, <2>2
    <3> QED
      BY <2>2, <2>3, <3>1, TablePlace
  <2>5. /\ told'[r] # <<>> /\ Len(told'[r]) = 1
        /\ \A p \in Requests : p # r => told'[p] = told[p]
    BY <2>1, <2>2, <2>4, TellOnce
  <2>6. QueueDistinct' /\ \A p : InQueue(p)' <=> InQueue(p)
    BY <1>0, <2>2 DEF QueueDistinct, InQueue
  <2>7. ASSUME NEW p \in Requests
        PROVE  OnePlace(p)'
    BY <1>0, <2>2, <2>3, <2>4, <2>5, <2>6 DEF OnePlace
  <2> QED
    BY <2>3, <2>6, <2>7
<1> QED
  BY <1>1, <1>2, <1>3, <1>4, <1>5, <1>6, StepCases DEF RefuseUnsent, RequestSendFails, Reasons

\* "Invoked exactly once per request" (smp_client.hpp): every request that was
\* issued is in the table, in the deferred queue or completed, in one of them
\* and once, for any number of requests, slots and sequence numbers.
THEOREM CompletedExactlyOnce == Spec => []ExactlyOnce
<1>1. Init => ExactlyOnce
  <2> SUFFICES ASSUME Init PROVE ExactlyOnce
    OBVIOUS
  <2>1. \A s \in Slots : pending[s].req = 0
    BY DEF Init, NoEntry
  <2>2. Len(deferred) = 0 /\ nreq = 0 /\ \A r \in Requests : told[r] = <<>>
    BY EmptySeq DEF Init
  <2>3. \A r \in Requests : r > 0 /\ r # 0
    BY ClientAssumption DEF Requests
  <2>4. \A r \in Requests : ~InTable(r) /\ ~InQueue(r)
    BY <2>1, <2>2, <2>3 DEF InTable, InQueue
  <2>5. TableDistinct /\ QueueDistinct
    BY <2>1, <2>2 DEF TableDistinct, QueueDistinct, Active
  <2> QED
    BY <2>2, <2>3, <2>4, <2>5 DEF ExactlyOnce, TableDistinct, QueueDistinct
<1> QED
  BY <1>1, ExactlyOnceStep, TypeCorrect, PTL DEF Spec
=============================================================================
