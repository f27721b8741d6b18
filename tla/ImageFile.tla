------------------------------ MODULE ImageFile ------------------------------
(* The other readers of an image's TLV areas, and what all of them should     *)
(* make of a file: describe() of the boot model (support/boot_model), which   *)
(* is what the device will say of the image, and read_dependencies() of the   *)
(* packages (support/dfu_package).  Both are pure.                            *)
EXTENDS ImageTlv

CONSTANTS DeviceHash,      \* the hash TLV the boot model knows (kTlvSha256)
          DependencyType, DependencySize   \* kTlvDependency, kDependencySize

EntryValue(at) ==
  SubSeq(file.cells, at + TlvHeader + 1, at + TlvHeader + Cell(at + 1))

(* describe(): the entries of one area, as long as they fit in it; the last   *)
(* hash of the unprotected area is kept.                                      *)
RECURSIVE DescribeArea(_, _, _, _)
DescribeArea(entry, areaEnd, magic, hash) ==
  IF entry + TlvHeader > areaEnd
     \/ entry + TlvHeader + Cell(entry + 1) > areaEnd
  THEN hash
  ELSE DescribeArea(entry + TlvHeader + Cell(entry + 1), areaEnd, magic,
         IF Cell(entry) = DeviceHash /\ magic = InfoMagic
         THEN EntryValue(entry) ELSE hash)

\* Fault: only the first area is read.
DescribeFirst(at, areas) ==
  IF Readable(at, TlvHeader) /\ Cell(at) = InfoMagic
     /\ Cell(at + 1) >= TlvHeader /\ Readable(at, Cell(at + 1))
  THEN DescribeArea(at + TlvHeader, at + Cell(at + 1), Cell(at), NoHash)
  ELSE NoHash

(* The areas one after the other, two at most, up to the unprotected one. *)
RECURSIVE DescribeAreas(_, _)
DescribeAreas(at, areas) ==
  IF /\ areas > 0
     /\ Readable(at, TlvHeader)
     /\ Cell(at) \in {InfoMagic, ProtMagic}
     /\ Cell(at + 1) >= TlvHeader /\ Readable(at, Cell(at + 1))
  THEN IF Cell(at) = InfoMagic
       THEN DescribeArea(at + TlvHeader, at + Cell(at + 1), InfoMagic, NoHash)
       ELSE DescribeAreas(at + Cell(at + 1), areas - 1)
  ELSE NoHash

Describe == DescribeAreas(BodyEnd, 2)

Bad == [ok |-> FALSE, list |-> <<>>]

(* read_dependencies(): its own walk over both areas.  The dependencies of a  *)
(* file whose TLVs are sound, or Bad.                                         *)
RECURSIVE WalkDependencies(_, _, _)
WalkDependencies(at, passes, list) ==
  LET to == UnprotectedAt + Cell(UnprotectedAt + 1)
  IN CASE at >= to -> [ok |-> TRUE, list |-> list]
       [] at < to /\ passes = MaxTlvs -> Bad
       [] at < to /\ passes < MaxTlvs /\ file.protect # 0 /\ at = UnprotectedAt ->
            WalkDependencies(at + TlvHeader, passes + 1, list)
       [] OTHER ->
            IF TlvHeader > to - at \/ Cell(at + 1) > to - at - TlvHeader
               \/ (Cell(at) = DependencyType /\ Cell(at + 1) # DependencySize)
            THEN Bad
            ELSE WalkDependencies(at + TlvHeader + Cell(at + 1), passes + 1,
                   IF Cell(at) = DependencyType
                   THEN Append(list, EntryValue(at)) ELSE list)

ReadDependencies ==
  IF LayoutSound THEN WalkDependencies(BodyEnd + TlvHeader, 0, <<>>) ELSE Bad

-----------------------------------------------------------------------------
(* The reference: an area is tiled when its entries fill it exactly, and then *)
(* it holds those entries.                                                    *)
RECURSIVE Entries(_, _)
Entries(at, to) ==
  IF at = to THEN [ok |-> TRUE, list |-> <<>>]
  ELSE IF at + TlvHeader > to \/ at + TlvHeader + Cell(at + 1) > to THEN Bad
  ELSE LET rest == Entries(at + TlvHeader + Cell(at + 1), to)
       IN [ok |-> rest.ok,
           list |-> <<[type |-> Cell(at), value |-> EntryValue(at)]>> \o rest.list]

ProtectedEntries ==
  IF file.protect = 0 THEN [ok |-> TRUE, list |-> <<>>]
  ELSE Entries(BodyEnd + TlvHeader, UnprotectedAt)

PlainEntries ==
  Entries(UnprotectedAt + TlvHeader, UnprotectedAt + Cell(UnprotectedAt + 1))

Tiled == LayoutSound /\ ProtectedEntries.ok /\ PlainEntries.ok

AllEntries == ProtectedEntries.list \o PlainEntries.list

HashesAmong(list) == SelectSeq(list, LAMBDA e : e.type \in HashTypes)

(* A file the scan has no ground to refuse. *)
SoundFile ==
  /\ HeaderSound
  /\ \/ file.encrypted
     \/ /\ Tiled
        /\ Len(AllEntries) + (IF file.protect = 0 THEN 0 ELSE 1) <= MaxTlvs
        /\ Len(HashesAmong(AllEntries)) <= 1
        /\ \A i \in 1..Len(AllEntries) : AllEntries[i].type \in HashTypes =>
             Len(AllEntries[i].value) = HashLength[AllEntries[i].type]

(* What the scan answers is what the file holds: the one hash of a file whose *)
(* areas are tiled, or none, never one of several, and a file it refuses gives*)
(* it a reason (find_image_tlv_hash()).                                       *)
HashIsTheFiles ==
  /\ step = "done" /\ ~file.encrypted /\ Tiled =>
       /\ Len(HashesAmong(AllEntries)) <= 1
       /\ found = IF HashesAmong(AllEntries) = <<>> THEN NoHash
                  ELSE HashesAmong(AllEntries)[1].value
  /\ step = "refused" => ~SoundFile

(* The three walks over the same bytes agree: the hash the client will look   *)
(* for is the one the device reports, and the dependencies are read from the  *)
(* entries the hash was, when the areas are tiled; an image the scan takes    *)
(* fails read_dependencies() only over a dependency's length                  *)
(* (describe(), read_dependencies(), find_image_tlv_hash()).                  *)
ReadersAgree ==
  step = "done" /\ ~file.encrypted =>
    /\ Tiled /\ (\E i \in 1..Len(PlainEntries.list) :
                   PlainEntries.list[i].type = DeviceHash) =>
         Describe = found
    /\ Tiled =>
         ReadDependencies.ok = (\A i \in 1..Len(AllEntries) :
            AllEntries[i].type = DependencyType =>
              Len(AllEntries[i].value) = DependencySize)
    /\ Tiled /\ ReadDependencies.ok =>
         ReadDependencies.list =
           LET is == SelectSeq(AllEntries, LAMBDA e : e.type = DependencyType)
           IN [i \in 1..Len(is) |-> is[i].value]

(* An image's TLVs are read inside the file, and client, boot model and       *)
(* packages read the same in them (find_image_tlv_hash(), describe(),         *)
(* read_dependencies()).                                                      *)
ImageReadSound == ScanInside /\ HashIsTheFiles /\ ReadersAgree
=============================================================================
