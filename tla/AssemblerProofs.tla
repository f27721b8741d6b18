--------------------------- MODULE AssemblerProofs ---------------------------
(* For every header size, every pair of limits and every stream of bytes: the *)
(* assembler's buffer stays within its limit, and it never waits for a        *)
(* message it would refuse.                                                   *)
EXTENDS Assembler, SequenceTheorems, TLAPS

Stages == {"idle", "loop", "fast sink", "slow ready", "slow sink"}

(* A held header announces a message that fits and is not there yet. *)
Awaited(bytes) == Acceptable(bytes) /\ Len(bytes) < Total(bytes)

(* While feed() runs the buffer may for a moment hold exactly a header that   *)
(* has not been looked at; otherwise what is held is awaited.                 *)
Held(b, i, s) ==
  /\ b \in Seq(Byte) /\ i \in Seq(Byte) /\ s \in Stages
  /\ Len(b) <= MaxBuffer
  /\ s = "idle" /\ Len(b) >= HeaderSize => Awaited(b)
  /\ s = "loop" /\ Len(b) > HeaderSize => Awaited(b)
  /\ s = "fast sink" => b = <<>> /\ Acceptable(i)

Holding == Held(buffer, input, stage)

(* More bytes behind a header do not change what it says. *)
LEMMA HeaderStays ==
  ASSUME NEW b \in Seq(Byte), NEW x \in Seq(Byte), Len(b) >= HeaderSize
  PROVE  DecodeHeader(b \o x) = DecodeHeader(b)
<1>1. \A i \in 1 .. HeaderSize : (b \o x)[i] = b[i]
  BY AssemblerAssumption
<1>2. 1 \in 1 .. HeaderSize
  BY AssemblerAssumption
<1> QED BY <1>1, <1>2 DEF DecodeHeader

(* What an acceptable header announces. *)
LEMMA AcceptableTotal ==
  ASSUME NEW b, Acceptable(b)
  PROVE  Total(b) \in Nat /\ Total(b) >= HeaderSize /\ Total(b) <= MaxBuffer
BY AssemblerAssumption DEF Acceptable, Total

(* Cutting a sequence of bytes gives sequences of bytes. *)
LEMMA Cuts ==
  ASSUME NEW b \in Seq(Byte), NEW n \in Nat
  PROVE  /\ Beyond(b, n) \in Seq(Byte)
         /\ n <= Len(b) => First(b, n) \in Seq(Byte) /\ Len(First(b, n)) = n
<1>1. Beyond(b, n) \in Seq(Byte)
  BY SubSeqProperties DEF Beyond
<1>2. n <= Len(b) => First(b, n) \in Seq(Byte) /\ Len(First(b, n)) = n
  BY SubSeqProperties DEF First
<1> QED BY <1>1, <1>2

(* Nothing held is held well. *)
LEMMA EmptyHeld ==
  ASSUME NEW i \in Seq(Byte), NEW s \in {"idle", "loop"}
  PROVE  Held(<<>>, i, s)
<1>1. <<>> \in Seq(Byte) /\ Len(<<>>) = 0
  BY EmptySeq
<1>2. Len(<<>>) <= MaxBuffer /\ ~(Len(<<>>) >= HeaderSize) /\ ~(Len(<<>>) > HeaderSize)
  BY <1>1, AssemblerAssumption
<1>3. s \in Stages /\ s # "fast sink"
  BY DEF Stages
<1> HIDE DEF Stages
<1> QED BY <1>1, <1>2, <1>3, Zenon DEF Held

(* Topping up takes what is missing, or all there is. *)
LEMMA TopUpHolds ==
  ASSUME buffer \in Seq(Byte), input \in Seq(Byte), NEW size \in Nat, NEW then \in Stages,
         Len(buffer) <= size, TopUp(size, then)
  PROVE  /\ buffer' \in Seq(Byte) /\ input' \in Seq(Byte)
         /\ \E x \in Seq(Byte) : buffer' = buffer \o x
         /\ \/ stage' = "idle" /\ Len(buffer') < size
            \/ stage' = then /\ Len(buffer') = size
<1> DEFINE take == Lesser(size - Len(buffer), Len(input))
<1>1. Len(buffer) \in Nat /\ Len(input) \in Nat
  OBVIOUS
<1>2. take \in Nat /\ take <= Len(input) /\ Len(buffer) + take <= size
  BY <1>1 DEF Lesser
<1>3. /\ First(input, take) \in Seq(Byte) /\ Len(First(input, take)) = take
      /\ Beyond(input, take) \in Seq(Byte)
  BY <1>2, Cuts
<1>4. buffer' = buffer \o First(input, take)
  BY DEF TopUp
<1>5. buffer' \in Seq(Byte) /\ Len(buffer') = Len(buffer) + take
  <2> DEFINE piece == First(input, take)
  <2>1. piece \in Seq(Byte) /\ Len(piece) = take
    BY <1>3
  <2> HIDE DEF piece
  <2>2. buffer \o piece \in Seq(Byte) /\ Len(buffer \o piece) = Len(buffer) + Len(piece)
    BY <2>1, ConcatProperties
  <2> QED BY <1>4, <2>1, <2>2, Zenon DEF piece
<1>6. IF Len(buffer) + take < size
        THEN input' = <<>> /\ stage' = "idle"
        ELSE input' = Beyond(input, take) /\ stage' = then
  BY DEF TopUp, Return
<1> HIDE DEF take
<1>7. input' \in Seq(Byte)
  <2>1. <<>> \in Seq(Byte)
    BY EmptySeq
  <2> QED BY <1>3, <1>6, <2>1, Zenon
<1>8. \/ stage' = "idle" /\ Len(buffer') < size
      \/ stage' = then /\ Len(buffer') = size
  BY <1>1, <1>2, <1>5, <1>6
<1> QED BY <1>3, <1>4, <1>5, <1>7, <1>8

(* A fresh assembler holds nothing. *)
LEMMA HoldingInit == AssemblerInit => Holding
<1>1. <<>> \in Seq(Byte)
  BY EmptySeq
<1> QED BY <1>1, EmptyHeld DEF AssemblerInit, Holding

(* Every stage of feed(), and reset(), keeps the buffer so. *)
LEMMA HoldingNext == Holding /\ [AssemblerNext]_asm => Holding'
<1> SUFFICES ASSUME Holding, [AssemblerNext]_asm PROVE Held(buffer', input', stage')
  BY DEF Holding, Held, Awaited, Acceptable, Total, DecodeHeader
<1>0. /\ Held(buffer, input, stage) /\ buffer \in Seq(Byte) /\ input \in Seq(Byte)
      /\ Len(buffer) \in Nat /\ Len(input) \in Nat /\ <<>> \in Seq(Byte)
      /\ Len(buffer) <= MaxBuffer
  <2>1. <<>> \in Seq(Byte)
    BY EmptySeq
  <2>2. Held(buffer, input, stage)
    BY DEF Holding
  <2>3. buffer \in Seq(Byte) /\ input \in Seq(Byte) /\ Len(buffer) <= MaxBuffer
    BY <2>2 DEF Held
  <2> QED BY <2>1, <2>2, <2>3, LenProperties
<1>1. ASSUME NEW bytes \in Seq(Byte), Feed(bytes) PROVE Held(buffer', input', stage')
  <2>1. Len(buffer) > HeaderSize => Awaited(buffer)
    BY <1>0, <1>1, AssemblerAssumption DEF Feed, Held
  <2> QED BY <1>0, <1>1, <2>1 DEF Feed, Held, Stages
<1>2. CASE FastStash
  <2>1. buffer' = input /\ input' = <<>> /\ stage' = "idle"
    BY <1>2 DEF FastStash, Return
  <2>2. Len(input) < HeaderSize \/ Awaited(input)
    BY <1>2 DEF FastStash, Awaited
  <2>3. Len(input) <= MaxBuffer
    BY <1>0, <2>2, AcceptableTotal, AssemblerAssumption DEF Awaited
  <2>4. Len(input) >= HeaderSize => Awaited(input)
    BY <1>0, <2>2, AssemblerAssumption
  <2> QED BY <1>0, <2>1, <2>3, <2>4 DEF Held, Stages
<1>3. CASE FastDeliver
  <2>1. buffer' = <<>> /\ input' = input /\ stage' = "fast sink" /\ Acceptable(input)
    BY <1>3 DEF FastDeliver
  <2>2. <<>> \in Seq(Byte) /\ Len(<<>>) = 0
    BY EmptySeq
  <2>3. Len(<<>>) <= MaxBuffer
    BY <2>2, AssemblerAssumption
  <2> QED BY <1>0, <2>1, <2>2, <2>3, Zenon DEF Held, Stages
<1>4. CASE FastDelivered
  <2>1. buffer = <<>> /\ Acceptable(input)
    BY <1>0, <1>4 DEF FastDelivered, Held
  <2>2. Beyond(input, Total(input)) \in Seq(Byte)
    BY <1>0, <2>1, AcceptableTotal, Cuts
  <2>3. buffer' = <<>> /\ input' = Beyond(input, Total(input)) /\ stage' = "loop"
    BY <1>4, <2>1 DEF FastDelivered
  <2> QED BY <2>2, <2>3, EmptyHeld
<1>5. CASE SlowHeader
  <2>1. /\ buffer' \in Seq(Byte) /\ input' \in Seq(Byte)
        /\ \/ stage' = "idle" /\ Len(buffer') < HeaderSize
           \/ stage' = "loop" /\ Len(buffer') = HeaderSize
    <3>1. HeaderSize \in Nat /\ "loop" \in Stages /\ Len(buffer) <= HeaderSize
          /\ TopUp(HeaderSize, "loop")
      BY <1>0, <1>5, AssemblerAssumption DEF SlowHeader, Stages
    <3> QED BY <1>0, <3>1, TopUpHolds
  <2>2. Len(buffer') \in Nat
    BY <2>1
  <2>3. /\ Len(buffer') <= MaxBuffer /\ ~(Len(buffer') > HeaderSize)
        /\ stage' = "idle" => ~(Len(buffer') >= HeaderSize)
    BY <2>1, <2>2, AssemblerAssumption
  <2> QED BY <2>1, <2>3 DEF Held, Stages
<1>6. CASE SlowPayload
  <2>1. Acceptable(buffer) /\ Len(buffer) >= HeaderSize /\ stage = "loop"
        /\ TopUp(Total(buffer), "slow ready")
    BY <1>6 DEF SlowPayload
  <2>2. Total(buffer) \in Nat /\ Total(buffer) >= HeaderSize /\ Total(buffer) <= MaxBuffer
    BY <2>1, AcceptableTotal
  <2>3. Len(buffer) > HeaderSize => Len(buffer) < Total(buffer)
    BY <1>0, <2>1 DEF Held, Awaited
  <2>4. Len(buffer) <= Total(buffer)
    BY <1>0, <2>2, <2>3, AssemblerAssumption
  <2>5. "slow ready" \in Stages
    BY DEF Stages
  <2>6. /\ buffer' \in Seq(Byte) /\ input' \in Seq(Byte)
        /\ \E x \in Seq(Byte) : buffer' = buffer \o x
        /\ \/ stage' = "idle" /\ Len(buffer') < Total(buffer)
           \/ stage' = "slow ready" /\ Len(buffer') = Total(buffer)
    BY <1>0, <2>1, <2>2, <2>4, <2>5, TopUpHolds
  <2>7. DecodeHeader(buffer') = DecodeHeader(buffer)
    BY <1>0, <2>1, <2>6, HeaderStays
  <2>8. stage' = "idle" => Awaited(buffer')
    BY <2>1, <2>6, <2>7 DEF Awaited, Acceptable, Total
  <2>9. Len(buffer') \in Nat /\ Len(buffer') <= Total(buffer)
    <3>1. Len(buffer') \in Nat
      BY <2>6, LenProperties
    <3> DEFINE length == Len(buffer')  total == Total(buffer)
    <3>2. length < total \/ length = total
      BY <2>6
    <3>3. length \in Nat /\ total \in Nat
      BY <2>2, <3>1
    <3> HIDE DEF length, total
    <3>4. length <= total
      BY <3>2, <3>3
    <3> QED BY <3>1, <3>4 DEF length, total
  <2>10. Len(buffer') <= MaxBuffer
    BY <2>2, <2>9, AssemblerAssumption
  <2> QED BY <2>6, <2>8, <2>10 DEF Held, Stages
<1>7. CASE SlowDeliver
  BY <1>0, <1>7 DEF SlowDeliver, Held, Stages
<1>8. CASE SlowDelivered
  BY <1>0, <1>8, EmptyHeld DEF SlowDelivered
<1>9. CASE FeedFails
  BY <1>0, <1>9, EmptyHeld DEF FeedFails, Reset, Return
<1>10. CASE stage = "idle" /\ Reset /\ UNCHANGED <<input, stage, heard>>
  BY <1>0, <1>10, EmptyHeld DEF Reset
<1>11. CASE UNCHANGED asm
  BY <1>0, <1>11 DEF asm
<1> QED
  BY <1>1, <1>2, <1>3, <1>4, <1>5, <1>6, <1>7, <1>8, <1>9, <1>10, <1>11
     DEF AssemblerNext, FeedSteps

(* Whatever a device sends and however it is cut: the assembler holds at most *)
(* max_buffer bytes, and never waits on a header it would refuse (feed(),     *)
(* message_size(), reset()).                                                  *)
THEOREM AssemblerAlwaysBounded == AssemblerSpec => []AssemblerBounded
<1>1. Holding => AssemblerBounded
  BY DEF Holding, Held, AssemblerBounded, Awaited
<1> QED BY <1>1, HoldingInit, HoldingNext, PTL DEF AssemblerSpec
=============================================================================
