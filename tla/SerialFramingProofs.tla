------------------------- MODULE SerialFramingProofs -------------------------
(* For every message size and every frame limit: the framer's frames fit,     *)
(* stay inside the message and come to an end.                                *)
EXTENDS SerialFraming, TLAPS

(* What the frame limit leaves for groups. *)
LEMMA GroupsFit ==
  MaxGroups \in Nat /\ MaxGroups >= 2 /\ 4 * MaxGroups + 3 <= MaxFrame
BY FrameAssumption DEF MaxGroups, MarkerSize

(* Any message, from anywhere in it. *)
LEMMA EveryFrameSound ==
  ASSUME NEW size \in Nat \ {0}, NEW off \in Nat, off < size
  PROVE  FrameSound(size, off)
<1> DEFINE q     == MaxGroups
           open  == IF off = 0 THEN 1 ELSE 0
           room  == Room(off)
           start == Start(off)
           left  == Left(size, off)
           n     == Triplets(size, off)
           crc   == CarriesCrc(size, off)
<1>1. q \in Nat /\ q >= 2 /\ 4 * q + 3 <= MaxFrame
  BY GroupsFit
<1>2. /\ open \in 0 .. 1 /\ room \in Nat /\ room = 3 * q - 3 * open
      /\ start \in Nat /\ start >= off /\ start <= size /\ left = size - start
      /\ open = 1 => start > off
  BY <1>1 DEF Room, Start, Left, MaxRaw
<1>3. CASE crc
  <2>1. left + 2 <= room
    BY <1>2, <1>3 DEF CarriesCrc
  <2>2. n = left \div 3
    BY <1>2, <1>3, <2>1 DEF Triplets
  <2>3. n \in Nat /\ 3 * n <= left /\ left < 3 * n + 3
    BY <1>2, <2>2
  <2>4. Advance(size, off) = size
    BY <1>3 DEF Advance
  <2>5. FrameLength(size, off)
          = 3 + 4 * open + 4 * n + (IF left - 3 * n = 2 THEN 8 ELSE 4)
    BY <1>3, <2>3, <1>2 DEF FrameLength, TailLength, TailBytes, MarkerSize
  <2> HIDE DEF q, open, room, start, left, n, crc
  <2>6. 3 + 4 * open + 4 * n + (IF left - 3 * n = 2 THEN 8 ELSE 4) <= MaxFrame
    BY <1>1, <1>2, <2>1, <2>3, FrameAssumption
  <2> QED BY <2>4, <2>5, <2>6 DEF FrameSound
<1>4. CASE ~crc
  <2> DEFINE data == IF room < left THEN room ELSE left - 1
  <2>1. left + 1 >= room
    BY <1>2, <1>4 DEF CarriesCrc
  <2>2. n = data \div 3 /\ data \in Nat /\ data <= room /\ data <= left
        /\ data >= room - 2
    BY <1>1, <1>2, <1>4, <2>1 DEF Triplets
  <2>3. n \in Nat /\ 3 * n <= data /\ data < 3 * n + 3
    BY <2>2
  <2>4. Advance(size, off) = start + 3 * n
    BY <1>4 DEF Advance
  <2>5. FrameLength(size, off) = 3 + 4 * open + 4 * n
    BY <1>4, <2>3, <1>2 DEF FrameLength, TailLength, MarkerSize
  <2> HIDE DEF q, open, room, start, left, n, crc, data
  <2>6. 3 + 4 * open + 4 * n <= MaxFrame
    BY <1>1, <1>2, <2>2, <2>3, FrameAssumption
  <2>7. start + 3 * n \in off + 1 .. size
    BY <1>1, <1>2, <2>2, <2>3
  <2> QED BY <2>4, <2>5, <2>6, <2>7 DEF FrameSound
<1> QED BY <1>3, <1>4

(* The framer stands inside the message it is sending. *)
Framing ==
  /\ framer \in [sizes : Seq(Nat \ {0}), m : Nat \ {0}, off : Nat,
                 frames : Int, used : Int]
  /\ Sending => framer.off < Size(framer.m)

(* A framer starts at the beginning of its first message. *)
LEMMA FramingInit == SerialInit => Framing
<1> SUFFICES ASSUME SerialInit PROVE Framing
  OBVIOUS
<1>1. PICK sizes \in Packets : framer = FramerOf(sizes, 1)
  BY DEF SerialInit
<1>2. sizes \in Seq(Nat \ {0})
  BY SerialAssumption
<1>3. 1 <= Len(sizes) => sizes[1] \in Nat \ {0}
  BY <1>2
<1> QED BY <1>1, <1>2, <1>3 DEF Framing, FramerOf, FramerAt, Sending, Size, Messages

(* The message being sent has a size. *)
LEMMA SendingSize ==
  ASSUME Framing, Sending
  PROVE  Size(framer.m) \in Nat \ {0} /\ framer.off \in Nat
                                     /\ framer.off < Size(framer.m)
BY DEF Framing, Sending, Size, Messages

(* Every frame, and everything the line does, leaves the framer so. *)
LEMMA FramingNext == Framing /\ [SerialNext]_serialVars => Framing'
<1> SUFFICES ASSUME Framing, [SerialNext]_serialVars PROVE Framing'
  OBVIOUS
<1>1. CASE NextFrame
  <2> DEFINE m == framer.m  size == Size(m)  off == Advance(size, framer.off)
             frame == Frame(m, size, framer.off)
  <2>1. Sending /\ size \in Nat \ {0} /\ m \in Nat \ {0} /\ m <= Len(framer.sizes)
    BY <1>1, SendingSize DEF NextFrame, Sending, Messages, Framing
  <2>2. off \in Nat /\ off > framer.off /\ off <= size
    BY <2>1, SendingSize, EveryFrameSound DEF FrameSound
  <2> HIDE DEF off, frame, size
  <2>3. CASE off >= size
    <3>1. framer' = FramerOf(framer.sizes, m + 1)
      BY <1>1, <2>3 DEF NextFrame, off, size
    <3>2. m + 1 <= Len(framer.sizes) => framer.sizes[m + 1] \in Nat \ {0}
      BY <2>1 DEF Framing
    <3> QED BY <2>1, <3>1, <3>2 DEF Framing, FramerOf, FramerAt, Sending, Size, Messages
  <2>4. CASE ~(off >= size)
    <3>1. framer' = FramerAt(framer.sizes, m, off, framer.frames + 1,
                           framer.used + Len(frame))
      BY <1>1, <2>4 DEF NextFrame, off, size, frame
    <3>2. Len(frame) \in Int
      BY DEF frame, Frame
    <3>3. /\ framer'.sizes = framer.sizes /\ framer'.m = m /\ framer'.off = off
          /\ framer' \in [sizes : Seq(Nat \ {0}), m : Nat \ {0}, off : Nat,
                          frames : Int, used : Int]
      BY <2>2, <3>1, <3>2 DEF Framing, FramerAt
    <3>4. off < size
      BY <2>1, <2>2, <2>4
    <3>5. Size(framer.m)' = size
      BY <3>3, Zenon DEF Size, size
    <3> QED BY <3>3, <3>4, <3>5 DEF Framing
  <2> QED BY <2>3, <2>4
<1>2. CASE UNCHANGED framer
  BY <1>2 DEF Framing, Sending, Size, Messages
<1>3. (Noise \/ Lose \/ ReadChunk \/ UNCHANGED serialVars) => UNCHANGED framer
  BY DEF Noise, Lose, ReadChunk, serialVars
<1> QED BY <1>1, <1>2, <1>3 DEF SerialNext

(* Every frame of every message fits the limit, stays inside the message and  *)
(* moves on (plan_frame(), next_frame()), whatever the sizes and the limit.   *)
THEOREM FramesAlwaysSound == SerialSpec => []FramesSound
<1>1. Framing => FramesSound
  BY SendingSize, EveryFrameSound DEF FramesSound
<1> QED BY <1>1, FramingInit, FramingNext, PTL DEF SerialSpec
=============================================================================
