------------------------- MODULE ReconnectPolicy -------------------------
(***************************************************************************)
(* How patiently a link is tried again                                     *)
(* (support/dfu_app/reconnect_policy.hpp).  A policy is a record: the      *)
(* settings first, ceiling and max, and the attempts of this episode.      *)
(* Delays are ticks of a signed counter whose largest value is MaxTicks.   *)
(***************************************************************************)
EXTENDS Integers

CONSTANT MaxTicks  \* kMaxTicks

ASSUME TicksAssumption == MaxTicks \in Nat \ {0}

NewPolicy(first, ceiling, max) ==
  [first |-> first, ceiling |-> ceiling, max |-> max, attempts |-> 0]

\* begin() and succeeded().
Begin(p) == [p EXCEPT !.attempts = 0]

\* Fault: one attempt more than the settings allow.
ExhaustedLate(p) == p.attempts > p.max

Exhausted(p) == p.attempts >= p.max

Capped == -1

\* Fault: the doubling trusts the counter, and wraps.
DelayWraps(p, attempt) ==
  LET delay[i \in 0..attempt] ==
        IF i = 0 THEN p.first
        ELSE IF delay[i - 1] = Capped \/ delay[i - 1] >= p.ceiling THEN Capped
        ELSE (2 * delay[i - 1]) % (MaxTicks + 1)
  IN IF p.first <= 0 THEN 0
     ELSE IF delay[attempt] = Capped \/ delay[attempt] >= p.ceiling THEN p.ceiling
     ELSE delay[attempt]

\* delay_for(): doubled once per attempt, until it meets the ceiling or
\* doubling again would not fit.
DelayFor(p, attempt) ==
  LET delay[i \in 0..attempt] ==
        IF i = 0 THEN p.first
        ELSE IF \/ delay[i - 1] = Capped
                \/ delay[i - 1] >= p.ceiling
                \/ delay[i - 1] > MaxTicks \div 2 THEN Capped
        ELSE 2 * delay[i - 1]
  IN IF p.first <= 0 THEN 0
     ELSE IF delay[attempt] = Capped \/ delay[attempt] >= p.ceiling THEN p.ceiling
     ELSE delay[attempt]

\* next_delay(): the wait, and the policy with one attempt used.
NextDelay(p) == IF Exhausted(p) THEN p.ceiling ELSE DelayFor(p, p.attempts)
Consume(p) == IF Exhausted(p) THEN p ELSE [p EXCEPT !.attempts = @ + 1]
=============================================================================
