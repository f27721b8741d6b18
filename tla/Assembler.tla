------------------------------ MODULE Assembler ------------------------------
(* MessageAssembler (src/smp/assembler.cpp): SMP messages out of a byte       *)
(* stream that is cut anywhere.  feed() is a loop; one action is one pass     *)
(* through it, or one stage of the slow path, so that the state between two   *)
(* stages and during the sink's call is visible.                              *)
EXTENDS Integers, Sequences

CONSTANTS
  HeaderSize,    \* kHeaderSize
  MaxPayload,    \* AssemblerLimits::max_payload
  MaxBuffer      \* AssemblerLimits::max_buffer

ASSUME AssemblerAssumption ==
  /\ HeaderSize \in Nat \ {0} /\ MaxPayload \in Nat
  /\ MaxBuffer \in Nat /\ HeaderSize <= MaxBuffer

VARIABLES
  buffer,   \* buffer_
  input,    \* what is left of the bytes the feed() under way was given
  stage,    \* where feed() stands; "idle" is feeding_ = false
  heard     \* the messages the sink was given

asm == <<buffer, input, stage, heard>>

Malformed == -1

(* A byte knows the message it is of, its place there, and what that          *)
(* message's header says: a payload length, or Malformed.                     *)
Byte == [of : Nat, at : Nat, says : Int]

(* decode_header() on the first bytes of what is held: the payload length, or *)
(* Malformed.  Bytes that are not the beginning of a message still decode to  *)
(* something, which depends on where in a message they come from.             *)
DecodeHeader(bytes) ==
  IF \A i \in 1 .. HeaderSize : bytes[i].of = bytes[1].of /\ bytes[i].at = i
    THEN bytes[1].says
    ELSE IF bytes[1].at % 2 = 0 THEN Malformed ELSE bytes[1].at

Total(bytes) == HeaderSize + DecodeHeader(bytes)

\* Fault: the payload's limit alone is checked, not the buffer's.
PayloadLimitOnly(bytes) == DecodeHeader(bytes) \in 0 .. MaxPayload

(* decode_header() and message_size() both accept. *)
Acceptable(bytes) ==
  DecodeHeader(bytes) \in 0 .. MaxPayload /\ Total(bytes) <= MaxBuffer

Lesser(a, b) == IF a <= b THEN a ELSE b

First(bytes, n) == SubSeq(bytes, 1, n)
Beyond(bytes, n) == SubSeq(bytes, n + 1, Len(bytes))

AssemblerInit ==
  /\ buffer = <<>> /\ input = <<>> /\ stage = "idle" /\ heard = <<>>

\* Fault: a partial message survives the session.
KeepPartial == UNCHANGED buffer

(* reset(). *)
Reset == buffer' = <<>>

(* feed(): the outermost call, on bytes of the transport. *)
Feed(bytes) ==
  /\ stage = "idle"
  /\ input' = bytes /\ stage' = "loop" /\ UNCHANGED <<buffer, heard>>

(* feed() returns: what it was given is spent. *)
Return == input' = <<>> /\ stage' = "idle" /\ UNCHANGED heard

(* Fast path, less than a header, or less than the message it announces: the  *)
(* rest of the input is kept.                                                 *)
FastStash ==
  /\ stage = "loop" /\ buffer = <<>>
  /\ \/ Len(input) < HeaderSize
     \/ /\ Len(input) >= HeaderSize /\ Acceptable(input)
        /\ Len(input) < Total(input)
  /\ buffer' = input /\ Return

(* Fast path, a whole message at the front of the input. *)
FastDeliver ==
  /\ stage = "loop" /\ buffer = <<>>
  /\ Len(input) >= HeaderSize /\ Acceptable(input) /\ Len(input) >= Total(input)
  /\ heard' = Append(heard, First(input, Total(input)))
  /\ stage' = "fast sink" /\ UNCHANGED <<buffer, input>>

\* Fault: one message for each feed.
OneMessageOnly ==
  /\ stage = "fast sink"
  /\ input' = <<>> /\ stage' = "idle" /\ UNCHANGED <<buffer, heard>>

(* The sink returns, and the message is taken off the input. *)
FastDelivered ==
  /\ stage = "fast sink"
  /\ input' = Beyond(input, Total(input))
  /\ stage' = "loop" /\ UNCHANGED <<buffer, heard>>

(* Slow path: top the buffer up to `size', and return if that is not enough.  *)
TopUp(size, then) ==
  LET take == Lesser(size - Len(buffer), Len(input))
  IN  /\ buffer' = buffer \o First(input, take)
      /\ IF Len(buffer) + take < size THEN Return
         ELSE input' = Beyond(input, take) /\ stage' = then /\ UNCHANGED heard

SlowHeader ==
  /\ stage = "loop" /\ buffer # <<>> /\ Len(buffer) < HeaderSize
  /\ TopUp(HeaderSize, "loop")

SlowPayload ==
  /\ stage = "loop" /\ Len(buffer) >= HeaderSize /\ Acceptable(buffer)
  /\ TopUp(Total(buffer), "slow ready")

SlowDeliver ==
  /\ stage = "slow ready"
  /\ heard' = Append(heard, First(buffer, Total(buffer)))
  /\ stage' = "slow sink" /\ UNCHANGED <<buffer, input>>

SlowDelivered ==
  /\ stage = "slow sink"
  /\ buffer' = <<>> /\ stage' = "loop" /\ UNCHANGED <<input, heard>>

(* Either path, a header that does not decode or that claims too much. *)
FeedFails ==
  /\ stage = "loop"
  /\ \/ buffer = <<>> /\ Len(input) >= HeaderSize /\ ~Acceptable(input)
     \/ Len(buffer) >= HeaderSize /\ ~Acceptable(buffer)
  /\ Reset /\ Return

(* feed() from inside the sink is refused, and its bytes are not looked at. *)
FeedAgain == stage \in {"fast sink", "slow sink"} /\ UNCHANGED asm

FeedSteps ==
  \/ FastStash \/ FastDeliver \/ FastDelivered \/ SlowHeader \/ SlowPayload
  \/ SlowDeliver \/ SlowDelivered

(* The assembler alone, over any bytes at all, reset between two feeds. *)
AssemblerNext ==
  \/ \E bytes \in Seq(Byte) : Feed(bytes)
  \/ FeedSteps \/ FeedFails
  \/ stage = "idle" /\ Reset /\ UNCHANGED <<input, stage, heard>>

AssemblerSpec == AssemblerInit /\ [][AssemblerNext]_asm

(* What is held never exceeds the limit, and between two feeds a held header  *)
(* is one whose message can still be completed within the limit: the stream   *)
(* never waits for bytes that would be refused on arrival.                    *)
AssemblerBounded ==
  /\ Len(buffer) <= MaxBuffer
  /\ stage = "idle" /\ Len(buffer) >= HeaderSize =>
       Acceptable(buffer) /\ Len(buffer) < Total(buffer)
=============================================================================
