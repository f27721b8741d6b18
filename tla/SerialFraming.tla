---------------------------- MODULE SerialFraming ----------------------------
(* The console framing of serial SMP (transports/serial/serial_framing.hpp,   *)
(* base64.hpp, crc16.hpp and transports/serial_port/serial_link.hpp): a       *)
(* message leaves as lines of base64, crosses a line that loses characters    *)
(* and carries other output too, and is put together again.                   *)
(*                                                                            *)
(* A raw byte is <<m, i>>: 1 .. size are message m's own bytes, -1 and 0 its  *)
(* length field, size+1 and size+2 its CRC.  A character is <<kind, m, a, n,  *)
(* k>>: the k-th of the four that encode the n raw bytes from a on.           *)
EXTENDS FramePlan, Sequences, SequencesExt

CONSTANTS
  MaxPacket,     \* SerialDeframer's max_packet
  Packets,       \* what is sent: sequences of message sizes
  Losses,        \* the lengths of the bursts the line may lose, once
  Reads          \* how much one read of the port returns

ASSUME SerialAssumption ==
  /\ MaxPacket \in Nat
  /\ \A sizes \in Packets : sizes \in Seq(Nat \ {0})
  /\ Losses \subseteq Nat \ {0} /\ Reads \subseteq Nat \ {0}

VARIABLES
  framer,   \* the sender: its messages, and how far it is in one of them
  line      \* the characters under way, and the receiver

----------------------------------------------------------------------------
(* The sender. *)

\* Fault: the last byte is not counted when it is deferred.
CountRounded(size) == 1 + (size + 1) \div MaxRaw

(* count(). *)
Count(size) ==
  LET c[off \in 0 .. size] == IF off = size THEN 0 ELSE 1 + c[Advance(size, off)]
  IN  c[0]

(* base64_encode() of one group of at most three bytes. *)
Quartet(m, a, n) == [k \in 1 .. 4 |-> <<"b64", m, a, n, k>>]

Marker(m, first) ==
  [k \in 1 .. MarkerSize |-> <<IF first THEN "start" ELSE "more", m, 0, 0, k>>]

Newline(m) == <<"newline", m, 0, 0, 0>>
CarriageReturn(m)  == <<"return", m, 0, 0, 0>>
Text       == <<"text", 0, 0, 0, 0>>

(* encode_tail(): up to two last bytes and the CRC, in one group or two. *)
EncodeTail(m, size, from) ==
  IF size - from = 2 THEN Quartet(m, from + 1, 3) \o Quartet(m, size + 2, 1)
                     ELSE Quartet(m, from + 1, size - from + 2)

(* next_frame(): the characters of the frame, newline included. *)
Frame(m, size, off) ==
  LET group == [g \in 1 .. Triplets(size, off) |-> Quartet(m, Start(off) + 3 * g - 2, 3)]
      tail  == size - TailBytes(size, off)
  IN  Marker(m, off = 0)
        \o (IF off = 0 THEN Quartet(m, -1, 3) ELSE <<>>)
        \o FlattenSeq(group)
        \o (IF CarriesCrc(size, off) THEN EncodeTail(m, size, tail) ELSE <<>>)
        \o <<Newline(m)>>

----------------------------------------------------------------------------
(* The receiver. *)

Padding(c) == c[1] = "b64" /\ c[5] > c[4] + 1
InAlphabet(c) == (c[1] = "b64" \/ c[1] = "text") /\ ~Padding(c)

(* base64_decode() of one quartet: its bytes, junk ones if its characters are *)
(* not of one group, or <<>> if it is refused.                                *)
DecodeQuartet(q, final) ==
  LET bytes == IF Padding(q[3]) THEN 1 ELSE IF Padding(q[4]) THEN 2 ELSE 3
      legal == /\ InAlphabet(q[1]) /\ InAlphabet(q[2])
               /\ bytes = 3 => InAlphabet(q[3]) /\ InAlphabet(q[4])
               /\ bytes = 2 => final /\ InAlphabet(q[3])
               /\ bytes = 1 => final /\ Padding(q[4])
      whole == \A k \in 1 .. 4 : q[k] = <<"b64", q[1][2], q[1][3], q[1][4], k>>
  IN  IF ~legal THEN <<>>
      ELSE [i \in 1 .. bytes |-> IF whole THEN <<q[1][2], q[1][3] + i - 1>> ELSE <<0, 0>>]

(* base64_decode(): refused if one quartet is, or if a part of one is left.   *)
Decode(body) ==
  LET count  == Len(body) \div 4
      pieces == [g \in 1 .. count |->
                   DecodeQuartet(SubSeq(body, 4 * g - 3, 4 * g), g = count)]
      legal  == Len(body) % 4 = 0 /\ \A g \in 1 .. count : pieces[g] # <<>>
  IN  [legal |-> legal, raw |-> IF legal THEN FlattenSeq(pieces) ELSE <<>>]

Size(m) == framer.sizes[m]
Messages == Len(framer.sizes)

(* crc16_xmodem() over data and CRC is zero: they are one message's, whole.   *)
(* Abstracted to a CRC that never misses an error.                            *)
CrcHolds(raw) ==
  /\ raw[1][1] # 0
  /\ Len(raw) = Size(raw[1][1]) + 2
  /\ \A i \in 1 .. Len(raw) : raw[i] = <<raw[1][1], i>>

(* The length field of an opening frame; a junk one may say anything.         *)
Declared(raw, junk) ==
  IF \E m \in 1 .. Messages : raw[1] = <<m, -1>> /\ raw[2] = <<m, 0>>
    THEN Size(raw[1][1]) + 2 ELSE junk

EmptyDeframer == [buf |-> <<>>, declared |-> 0, ready |-> 0]

(* A violation, or a bad CRC: partial state is discarded. *)
DeframeError == EmptyDeframer

NoPacket(d) == [def |-> d, packet |-> <<>>]

(* The end of feed_line(): more to come, a bad CRC, or a packet. *)
Complete(d) ==
  CASE Len(d.buf) < d.declared -> NoPacket(d)
    [] Len(d.buf) > d.declared \/ ~CrcHolds(d.buf) -> NoPacket(DeframeError)
    [] OTHER -> [def |-> [d EXCEPT !.ready = Len(d.buf) - 2, !.declared = 0],
                 packet |-> SubSeq(d.buf, 1, Len(d.buf) - 2)]

\* Fault: an opening frame's length is not compared with the limit.
UncheckedLength(raw, junk) ==
  LET declared == Declared(raw, junk)
  IN  IF Len(raw) < 2 \/ declared <= 2 \/ Len(raw) - 2 > declared
        THEN NoPacket(DeframeError)
        ELSE Complete([buf |-> SubSeq(raw, 3, Len(raw)), declared |-> declared, ready |-> 0])

(* An opening frame: take_declared_length(). *)
OpenPacket(raw, junk) ==
  LET declared == Declared(raw, junk)
  IN  IF \/ Len(raw) < 2 \/ declared <= 2 \/ declared > MaxPacket
         \/ Len(raw) - 2 > declared
        THEN NoPacket(DeframeError)
        ELSE Complete([buf |-> SubSeq(raw, 3, Len(raw)), declared |-> declared, ready |-> 0])

(* A continuation: the body may not pass the declared length. *)
ContinuePacket(d, raw) ==
  IF d.declared # 0 /\ Len(d.buf) + Len(raw) > d.declared THEN NoPacket(DeframeError)
  ELSE Complete([d EXCEPT !.buf = @ \o raw])

HasMarker(text, kind) ==
  /\ Len(text) >= MarkerSize
  /\ \A k \in 1 .. MarkerSize : text[k][1] = kind /\ text[k][5] = k

(* feed_line(): what one line makes of the packet in progress. *)
FeedLine(was, text, junk) ==
  LET d    == IF was.ready # 0 THEN [was EXCEPT !.buf = <<>>, !.ready = 0] ELSE was
      body == Decode(SubSeq(text, MarkerSize + 1, Len(text)))
  IN  CASE ~HasMarker(text, "start") /\ ~HasMarker(text, "more") -> NoPacket(d)
        [] HasMarker(text, "more") /\ d.buf = <<>> -> NoPacket(DeframeError)
        [] Len(text) > MaxFrame - 1 \/ ~body.legal -> NoPacket(DeframeError)
        [] HasMarker(text, "start") -> OpenPacket(body.raw, junk)
        [] OTHER -> ContinuePacket(d, body.raw)

EmptyReceiver == [text |-> <<>>, discarding |-> FALSE, def |-> EmptyDeframer, heard |-> <<>>]

WithoutReturn(text) ==
  IF text # <<>> /\ Last(text)[1] = "return" THEN Front(text) ELSE text

\* Fault: a line as long as a frame is already too long to be one.
KeepShort(r, c) ==
  IF r.discarding THEN r
  ELSE IF Len(r.text) = MaxFrame - 1
         THEN [r EXCEPT !.text = <<>>, !.discarding = TRUE]
         ELSE [r EXCEPT !.text = Append(@, c)]

(* next_line(), on a character that does not end the line. *)
Keep(r, c) ==
  IF r.discarding THEN r
  ELSE IF Len(r.text) = MaxFrame
         THEN [r EXCEPT !.text = <<>>, !.discarding = TRUE]
         ELSE [r EXCEPT !.text = Append(@, c)]

(* next_line() on a newline, and SerialInbound::feed() on the line it ends. *)
EndLine(r, junk) ==
  IF r.discarding THEN [r EXCEPT !.discarding = FALSE]
  ELSE LET fed == FeedLine(r.def, WithoutReturn(r.text), junk)
       IN  [r EXCEPT !.text = <<>>, !.def = fed.def,
              !.heard = IF fed.packet = <<>> THEN @ ELSE Append(@, fed.packet)]

Receive(r, c, junk) == IF c[1] = "newline" THEN EndLine(r, junk) ELSE Keep(r, c)

(* SerialInbound::feed(): a read's worth. *)
FeedChunk(r, chunk, junk) ==
  LET fed[i \in 0 .. Len(chunk)] ==
        IF i = 0 THEN r ELSE Receive(fed[i - 1], chunk[i], junk)
  IN  fed[Len(chunk)]

----------------------------------------------------------------------------
(* The line between them. *)

FramerAt(sizes, m, off, frames, used) ==
  [sizes |-> sizes, m |-> m, off |-> off, frames |-> frames, used |-> used]
FramerOf(sizes, m) == FramerAt(sizes, m, 0, 0, 0)

LineOf(crlf, noise) ==
  [crlf |-> crlf, wire |-> <<>>, in |-> EmptyReceiver, lost |-> FALSE,
   merged |-> FALSE, noise |-> noise, hurt |-> {}]

SerialIdle == framer = FramerOf(<<>>, 1) /\ line = LineOf(FALSE, 0)

SerialInit ==
  /\ \E sizes \in Packets : framer = FramerOf(sizes, 1)
  /\ \E crlf \in BOOLEAN : line = LineOf(crlf, 1)

Sending == framer.m <= Messages

(* The wire takes a whole line at a time; a line that follows a lost newline  *)
(* is merged into the one before.                                             *)
PutOnLine(l, text, m) ==
  [l EXCEPT !.wire = @ \o text, !.merged = FALSE,
            !.hurt = IF l.merged THEN @ \union {m} ELSE @]

(* A peer may end its lines with CRLF. *)
OnConsole(frame, m) ==
  IF line.crlf THEN Front(frame) \o <<CarriageReturn(m), Newline(m)>> ELSE frame

RoomOnWire == Len(line.wire) <= MaxFrame

(* One turn of frame_message()'s loop.  Its buffer holds count() frames of    *)
(* MaxFrame, and next_frame() writes nothing unless a whole MaxFrame is left. *)
NextFrame ==
  LET m     == framer.m
      size  == Size(m)
      frame == Frame(m, size, framer.off)
      off   == Advance(size, framer.off)
  IN  /\ Sending /\ RoomOnWire
      /\ Count(size) * MaxFrame - framer.used >= MaxFrame
      /\ line' = PutOnLine(line, OnConsole(frame, m), m)
      /\ framer' = IF off >= size
                     THEN FramerOf(framer.sizes, m + 1)
                     ELSE FramerAt(framer.sizes, m, off, framer.frames + 1,
                                   framer.used + Len(frame))

(* A line of a log or a shell: short, empty, or longer than any frame. *)
Noise ==
  \E length \in {0, 1, MaxFrame + 1} :
    /\ line.noise > 0 /\ RoomOnWire
    /\ line' = [PutOnLine(line, Append([i \in 1 .. length |-> Text], Newline(0)), 0)
                  EXCEPT !.noise = @ - 1]
    /\ UNCHANGED framer

(* The line loses a burst, and with it perhaps the end of the line being read. *)
Lose ==
  \E n \in Losses :
    LET lost   == SubSeq(line.wire, 1, n)
        rest   == SubSeq(line.wire, n + 1, Len(line.wire))
        ended  == \E i \in 1 .. n : lost[i][1] = "newline"
        joined == ended /\ (line.in.text # <<>> \/ line.in.discarding)
    IN  /\ ~line.lost /\ n <= Len(line.wire)
        /\ line' = [line EXCEPT
             !.wire = rest, !.lost = TRUE, !.merged = joined /\ rest = <<>>,
             !.hurt = @ \union {lost[i][2] : i \in 1 .. n}
                        \union (IF joined /\ rest # <<>> THEN {rest[1][2]} ELSE {})]
        /\ UNCHANGED framer

(* A read of the port, and SerialInbound::feed() on it. *)
ReadChunk ==
  \E n \in Reads, junk \in {0, 3, MaxPacket + 1} :
    LET taken == IF n < Len(line.wire) THEN n ELSE Len(line.wire)
    IN  /\ taken > 0
        /\ line' = [line EXCEPT
             !.wire = SubSeq(@, taken + 1, Len(@)),
             !.in = FeedChunk(@, SubSeq(line.wire, 1, taken), junk)]
        /\ UNCHANGED framer

SerialNext == NextFrame \/ Noise \/ Lose \/ ReadChunk

serialVars == <<framer, line>>

SerialSpec == SerialInit /\ [][SerialNext]_serialVars

(* However long the message: no frame of it exceeds MaxFrame, none reads past *)
(* its end, and each moves on, so the framer is done at last (plan_frame(),   *)
(* next_frame()).                                                             *)
FramesSound == Sending => FrameSound(Size(framer.m), framer.off)

(* Until a message is done, frame_message() has room for another whole frame: *)
(* count() never promises fewer frames than next_frame() writes, so its loop  *)
(* does not spin on a buffer next_frame() refuses.                            *)
FramesFit ==
  Sending =>
    LET size == Size(framer.m)
    IN  /\ framer.frames < Count(size)
        /\ Count(size) * MaxFrame - framer.used >= MaxFrame
        /\ Len(Frame(framer.m, size, framer.off)) = FrameLength(size, framer.off)

(* Once the line is read out, every message none of whose characters were     *)
(* lost, and that is not above the largest packet, has been heard exactly     *)
(* once and in order, whatever was lost of the                                *)
(* others, wherever the reads were cut, whether lines end in CRLF, and        *)
(* whatever else the console carried between its frames; and nothing that was *)
(* damaged is heard at all, or only whole.                                    *)
IntactIsHeard ==
  line.wire = <<>> /\ framer.off = 0 =>
    LET heard  == [i \in 1 .. Len(line.in.heard) |-> line.in.heard[i][1][1]]
        intact == {m \in 1 .. Messages : m < framer.m /\ m \notin line.hurt
                                       /\ Size(m) + 2 <= MaxPacket}
    IN  /\ \A m \in intact : \E i \in 1 .. Len(heard) : heard[i] = m
        /\ \A i, j \in 1 .. Len(heard) : i < j => heard[i] < heard[j]
        /\ \A i \in 1 .. Len(heard) : Len(line.in.heard[i]) = Size(heard[i])

(* However the line mangles what is sent, the receiver holds at most a line   *)
(* of MaxFrame and a packet of MaxPacket.                                     *)
SerialBounded ==
  /\ Len(line.in.text) <= MaxFrame
  /\ Len(line.in.def.buf) <= MaxPacket
  /\ line.in.def.ready # 0 => line.in.def.ready = Len(line.in.def.buf) - 2

(* The serial line carries a message whole or not at all: its frames fit, the *)
(* receiver stays within its limits, and what arrives intact is heard         *)
(* (frame_message(), next_line(), feed_line()).                               *)
SerialSound == FramesSound /\ FramesFit /\ IntactIsHeard /\ SerialBounded
=============================================================================
