------------------------------ MODULE ChunkSize ------------------------------
(* How an upload chooses the size of its chunks, and what each packet then    *)
(* costs on the wire (src/groups/image/upload_session.cpp and                 *)
(* upload_driver.cpp).  The sizes are the real ones: bytes of CBOR, of the    *)
(* SMP header, of the device's buffer and of the transport's limit.           *)
EXTENDS Integers, FiniteSets

CONSTANTS
  ChunkMin,        \* limits::kUploadChunkMin
  ChunkMax,        \* limits::kUploadChunkMax
  DefaultBudget,   \* limits::kDefaultSmpMessageBudget
  SmpHeader,       \* kHeaderSize
  Budgets,         \* the budgets a run tries
  FirstFields      \* the first packets a run tries

NoLimit == 0

Budget == [device : Nat, transport : Nat, framing : Nat]

PacketFields ==
  [size : Nat \ {0}, image : Nat, sha : BOOLEAN, upgrade : BOOLEAN]

ASSUME ChunkAssumption ==
  /\ ChunkMin \in Nat \ {0} /\ ChunkMax \in Nat /\ ChunkMin <= ChunkMax
  /\ DefaultBudget \in Nat /\ SmpHeader \in Nat
  /\ IsFiniteSet(Budgets) /\ Budgets \subseteq Budget
  /\ IsFiniteSet(FirstFields) /\ FirstFields \subseteq PacketFields

VARIABLE sizing   \* the upload: its budget, its fields, its chunk and offset

(* The head CBOR writes before a number, or before a string of that length. *)
HeadSize(n) ==
  IF n < 24 THEN 1 ELSE IF n <= 255 THEN 2 ELSE IF n <= 65535 THEN 3 ELSE 5

(* What a packet costs besides its data: the map's own head, the keys and     *)
(* their values.  Only a first packet carries image, len, sha and upgrade.    *)
Envelope(f, first, off) ==
  1 + (IF first THEN 6 + HeadSize(f.image) + 4 + HeadSize(f.size) ELSE 0)
    + 4 + HeadSize(off)
    + (IF first /\ f.sha THEN 4 + 2 + 32 ELSE 0)
    + (IF first /\ f.upgrade THEN 8 + 1 ELSE 0)
    + 5

(* The request UploadDriver::send() encodes for `length' bytes from `off'. *)
PacketSize(f, first, off, length) ==
  Envelope(f, first, off) + HeadSize(length) + length

\* Fault: the probe's own empty data string is taken for the chunk's.
OverheadOfProbe(f) == Envelope(f, TRUE, 0) + HeadSize(0)

(* first_packet_overhead(): a probe with no data, less the head of its empty  *)
(* string, plus the head a full chunk needs.                                  *)
FirstPacketOverhead(f) == Envelope(f, TRUE, 0) + HeadSize(ChunkMax)

DeviceBuffer(b) == IF b.device > 0 THEN b.device ELSE DefaultBudget

Least(a, b) == IF a <= b THEN a ELSE b

(* The largest SMP message both ends take: the transport's framing comes off  *)
(* the device's buffer, never off the transport's own limit.                  *)
MessageBudget(b) ==
  LET device == DeviceBuffer(b) - b.framing
  IN  IF b.transport = NoLimit THEN device ELSE Least(device, b.transport)

NoRoom == 0

(* compute_chunk_size(): the chunk, or NoRoom (MessageTooLarge). *)
ComputeChunkSize(b, f) ==
  LET overhead == SmpHeader + FirstPacketOverhead(f)
      capped   == Least(MessageBudget(b) - overhead, ChunkMax)
  IN  IF DeviceBuffer(b) <= b.framing \/ MessageBudget(b) <= overhead
         \/ capped < ChunkMin
        THEN NoRoom ELSE capped

ChunkIdle ==
  sizing = [budget |-> [device |-> 0, transport |-> 0, framing |-> 0],
            fields |-> [size |-> 1, image |-> 0, sha |-> FALSE, upgrade |-> FALSE],
            chunk |-> NoRoom, off |-> 0, first |-> TRUE]

ChunkInit ==
  \E b \in Budgets, f \in FirstFields :
    sizing = [budget |-> b, fields |-> f, chunk |-> ComputeChunkSize(b, f),
              off |-> 0, first |-> TRUE]

(* send_from(): what is left, or a whole chunk. *)
ChunkLength(off, size, chunk) ==
  IF size - off < chunk THEN size - off ELSE chunk

(* The device confirms what it was sent, and the session sends from there. *)
SendNextChunk ==
  /\ sizing.chunk # NoRoom /\ sizing.off < sizing.fields.size
  /\ sizing' = [sizing EXCEPT
       !.off = @ + ChunkLength(@, sizing.fields.size, sizing.chunk),
       !.first = FALSE]

ChunkNext == SendNextChunk

ChunkSpec == ChunkInit /\ [][ChunkNext]_sizing

(* The packet in preparation. *)
NextPacket ==
  PacketSize(sizing.fields, sizing.first, sizing.off,
             ChunkLength(sizing.off, sizing.fields.size, sizing.chunk))

(* Every packet of an upload, the first with all its fields and the later     *)
(* ones with their larger offsets, fits the device's buffer next to the       *)
(* transport's framing, and fits the transport: compute_chunk_size() reserves *)
(* enough for the worst of them.                                              *)
EveryPacketFits ==
  sizing.chunk # NoRoom /\ sizing.off < sizing.fields.size =>
    LET b == sizing.budget  message == SmpHeader + NextPacket
    IN  /\ message + b.framing <= DeviceBuffer(b)
        /\ b.transport # NoLimit => message <= b.transport
=============================================================================
