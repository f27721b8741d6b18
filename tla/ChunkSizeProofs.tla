--------------------------- MODULE ChunkSizeProofs ---------------------------
(* For every budget, image and chunk bound, not only those a run tries: the   *)
(* chunk size compute_chunk_size() answers leaves room for every packet of    *)
(* the upload.                                                                *)
EXTENDS ChunkSize, TLAPS

(* The upload keeps the chunk it was started with, its offset never passes    *)
(* the image, and only the packet at offset zero is a first packet.           *)
Sized ==
  /\ sizing \in [budget : Budgets, fields : FirstFields, chunk : Int,
                 off : Nat, first : BOOLEAN]
  /\ sizing.chunk = ComputeChunkSize(sizing.budget, sizing.fields)
  /\ sizing.off <= sizing.fields.size
  /\ sizing.first => sizing.off = 0

(* A larger number never has a smaller CBOR head. *)
LEMMA HeadGrows ==
  ASSUME NEW m \in Nat, NEW n \in Nat, m <= n
  PROVE  HeadSize(m) <= HeadSize(n) /\ HeadSize(m) \in 1 .. 5 /\ HeadSize(n) \in 1 .. 5
BY DEF HeadSize

(* What compute_chunk_size() answers, when it answers a chunk: at least the   *)
(* minimum, at most the maximum, and within the message budget next to the    *)
(* header and the first packet's overhead.                                    *)
LEMMA ChunkFits ==
  ASSUME NEW b \in Budget, NEW f \in PacketFields, ComputeChunkSize(b, f) # NoRoom
  PROVE  /\ ComputeChunkSize(b, f) \in ChunkMin .. ChunkMax
         /\ ComputeChunkSize(b, f) + SmpHeader + FirstPacketOverhead(f)
              <= MessageBudget(b)
<1>1. /\ MessageBudget(b) \in Int /\ FirstPacketOverhead(f) \in Int
      /\ DeviceBuffer(b) \in Nat /\ b.framing \in Nat
  BY ChunkAssumption, HeadGrows
     DEF MessageBudget, FirstPacketOverhead, Envelope, DeviceBuffer, Budget, PacketFields,
         Least, HeadSize, NoLimit
<1> QED
  BY <1>1, ChunkAssumption DEF ComputeChunkSize, Least, NoRoom

(* A packet of at most a chunk costs no more than the first packet's overhead *)
(* allows, whichever packet of the upload it is.                              *)
LEMMA PacketWithinOverhead ==
  ASSUME NEW f \in PacketFields, NEW first \in BOOLEAN, NEW off \in Nat,
         NEW length \in Nat, off <= f.size, first => off = 0, length <= ChunkMax
  PROVE  PacketSize(f, first, off, length) <= FirstPacketOverhead(f) + length
<1>1. f.size \in Nat /\ f.image \in Nat /\ f.sha \in BOOLEAN /\ f.upgrade \in BOOLEAN
  BY DEF PacketFields
<1>2. HeadSize(length) <= HeadSize(ChunkMax)
  BY ChunkAssumption, HeadGrows
<1>3. HeadSize(off) <= HeadSize(f.size)
  BY <1>1, HeadGrows
<1>4. /\ HeadSize(off) \in 1 .. 5 /\ HeadSize(f.size) \in 1 .. 5
      /\ HeadSize(f.image) \in 1 .. 5 /\ HeadSize(0) \in 1 .. 5
      /\ HeadSize(length) \in 1 .. 5 /\ HeadSize(ChunkMax) \in 1 .. 5
  BY <1>1, ChunkAssumption DEF HeadSize
<1> DEFINE worst  == Envelope(f, TRUE, 0)
           packet == PacketSize(f, first, off, length)
<1>5. FirstPacketOverhead(f) = worst + HeadSize(ChunkMax)
  BY Zenon DEF FirstPacketOverhead
<1>6. worst \in Int /\ worst >= 20 + HeadSize(f.size)
  BY <1>1, <1>4 DEF Envelope
<1>7. CASE first
  <2>1. packet = worst + HeadSize(length) + length
    BY <1>7, Zenon DEF PacketSize, Envelope
  <2> HIDE DEF worst, packet
  <2>2. packet <= worst + HeadSize(ChunkMax) + length
    BY <2>1, <1>2, <1>4, <1>6
  <2> QED BY <2>2, <1>5, Zenon DEF packet
<1>8. CASE ~first
  <2>1. Envelope(f, first, off) = 10 + HeadSize(off)
    BY <1>8, <1>4 DEF Envelope
  <2>2. packet = 10 + HeadSize(off) + HeadSize(length) + length
    BY <2>1, Zenon DEF PacketSize
  <2> HIDE DEF worst, packet
  <2>3. packet <= worst + HeadSize(ChunkMax) + length
    BY <2>2, <1>2, <1>3, <1>4, <1>6
  <2> QED BY <2>3, <1>5, Zenon DEF packet
<1> QED BY <1>7, <1>8

(* A started upload is sized. *)
LEMMA SizedInit == ChunkInit => Sized
<1> SUFFICES ASSUME ChunkInit PROVE Sized
  OBVIOUS
<1>1. PICK b \in Budgets, f \in FirstFields :
        sizing = [budget |-> b, fields |-> f, chunk |-> ComputeChunkSize(b, f),
                  off |-> 0, first |-> TRUE]
  BY DEF ChunkInit
<1>2. b \in Budget /\ f \in PacketFields
  BY ChunkAssumption
<1>3. ComputeChunkSize(b, f) \in Int
  BY <1>2, ChunkFits, ChunkAssumption DEF NoRoom
<1>4. f.size \in Nat
  BY <1>2 DEF PacketFields
<1> QED BY <1>1, <1>3, <1>4 DEF Sized

(* Sending a chunk keeps it so. *)
LEMMA SizedNext == Sized /\ [ChunkNext]_sizing => Sized'
<1> SUFFICES ASSUME Sized, [ChunkNext]_sizing PROVE Sized'
  OBVIOUS
<1>1. CASE SendNextChunk
  <2>1. /\ sizing.fields \in PacketFields /\ sizing.budget \in Budget
        /\ sizing.fields.size \in Nat /\ sizing.chunk \in Int /\ sizing.off \in Nat
    BY ChunkAssumption DEF Sized, PacketFields
  <2>2. sizing.chunk \in Nat
    BY <1>1, <2>1, ChunkFits, ChunkAssumption DEF Sized, SendNextChunk
  <2> DEFINE off == sizing.off + ChunkLength(sizing.off, sizing.fields.size, sizing.chunk)
  <2>3. off \in Nat /\ off <= sizing.fields.size
    BY <1>1, <2>1, <2>2 DEF ChunkLength, SendNextChunk
  <2>4. sizing' = [sizing EXCEPT !.off = off, !.first = FALSE]
    BY <1>1 DEF SendNextChunk
  <2> HIDE DEF off
  <2> QED BY <2>3, <2>4 DEF Sized
<1>2. CASE UNCHANGED sizing
  BY <1>2 DEF Sized
<1> QED BY <1>1, <1>2 DEF ChunkNext

(* A sized upload's next packet fits both ends. *)
LEMMA SizedFits == Sized => EveryPacketFits
<1> SUFFICES ASSUME Sized, sizing.chunk # NoRoom, sizing.off < sizing.fields.size
             PROVE  /\ SmpHeader + NextPacket + sizing.budget.framing
                         <= DeviceBuffer(sizing.budget)
                    /\ sizing.budget.transport # NoLimit =>
                         SmpHeader + NextPacket <= sizing.budget.transport
  BY DEF EveryPacketFits
<1> DEFINE b == sizing.budget
           f == sizing.fields
           length == ChunkLength(sizing.off, f.size, sizing.chunk)
<1>1. /\ b \in Budget /\ f \in PacketFields /\ f.size \in Nat /\ sizing.off \in Nat
      /\ sizing.first \in BOOLEAN /\ b.framing \in Nat /\ b.transport \in Nat
  BY ChunkAssumption DEF Sized, PacketFields, Budget
<1>2. /\ sizing.chunk \in ChunkMin .. ChunkMax
      /\ sizing.chunk + SmpHeader + FirstPacketOverhead(f) <= MessageBudget(b)
  BY <1>1, ChunkFits DEF Sized
<1>3. length \in Nat /\ length <= sizing.chunk /\ length <= ChunkMax
  BY <1>1, <1>2, ChunkAssumption DEF ChunkLength
<1>4. PacketSize(f, sizing.first, sizing.off, length) <= FirstPacketOverhead(f) + length
  BY <1>1, <1>3, PacketWithinOverhead DEF Sized
<1>5. FirstPacketOverhead(f) \in Int /\ NextPacket \in Int
  BY <1>1, <1>3, ChunkAssumption
     DEF FirstPacketOverhead, Envelope, NextPacket, PacketSize, HeadSize, PacketFields
<1>6. /\ MessageBudget(b) + b.framing <= DeviceBuffer(b)
      /\ b.transport # NoLimit => MessageBudget(b) <= b.transport
      /\ MessageBudget(b) \in Int /\ DeviceBuffer(b) \in Int
  BY <1>1, ChunkAssumption DEF MessageBudget, DeviceBuffer, Least, NoLimit, Budget
<1>7. SmpHeader + NextPacket <= MessageBudget(b)
  <2> DEFINE packet == NextPacket
             head   == FirstPacketOverhead(f)
             most   == MessageBudget(b)
  <2>1. packet <= head + length
    BY <1>4, Zenon DEF NextPacket
  <2>2. packet \in Int /\ head \in Int /\ most \in Int
    BY <1>5, <1>6
  <2>3. sizing.chunk + SmpHeader + head <= most
    BY <1>2
  <2> HIDE DEF packet, head, most, length
  <2>4. SmpHeader + packet <= most
    BY <2>1, <2>2, <2>3, <1>2, <1>3, ChunkAssumption
  <2> QED BY <2>4 DEF packet, most
<1>8. SmpHeader \in Nat
  BY ChunkAssumption
<1> HIDE DEF b
<1>9. /\ SmpHeader + NextPacket + b.framing <= DeviceBuffer(b)
      /\ b.transport # NoLimit => SmpHeader + NextPacket <= b.transport
  BY <1>1, <1>5, <1>6, <1>7, <1>8
<1> QED BY <1>9 DEF b

(* Whatever budget the device and the transport state, and whatever image is  *)
(* sent: every packet of an upload fits the device's buffer next to the       *)
(* transport's framing, and fits the transport (compute_chunk_size() and      *)
(* UploadDriver::send()).                                                     *)
THEOREM PacketsAlwaysFit == ChunkSpec => []EveryPacketFits
<1>1. Sized /\ UNCHANGED sizing => Sized'
  BY DEF Sized
<1> QED BY SizedInit, SizedNext, SizedFits, PTL DEF ChunkSpec
=============================================================================
