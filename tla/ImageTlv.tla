------------------------------ MODULE ImageTlv -------------------------------
(* An image file read by the client: parse_mcuboot_header() and               *)
(* find_image_tlv_hash() (src/image), one action per pass of the scan.  A     *)
(* file is a sequence of 16-bit cells; a TLV or area header is two of them,   *)
(* a type or magic and a length, and lengths count cells.  An entry may have  *)
(* any length, so a header may be read from anywhere.                         *)
EXTENDS Integers, Sequences, FiniteSets

CONSTANTS
  Images,              \* the files, with the fields of their headers
  HeaderMin,           \* kMcubootHeaderSize
  MaxImage,            \* limits::kMaxImageSize
  InfoMagic, ProtMagic,\* the magics of the unprotected and the protected area
  HashTypes,           \* the hash TLVs, ...
  HashLength,          \* ... and the digest each one carries (kHashTlvs)
  MaxTlvs              \* limits::kMaxImageTlvs

TlvHeader == 2   \* kTlvHeaderSize

ImageFiles ==
  [cells : Seq(Nat), signed : BOOLEAN, header : Nat, body : Nat,
   protect : Nat, encrypted : BOOLEAN]

ASSUME TlvAssumption ==
  /\ HeaderMin \in Nat /\ MaxImage \in Nat /\ MaxTlvs \in Nat
  /\ InfoMagic # ProtMagic
  /\ Images \subseteq ImageFiles

VARIABLES
  file,      \* the image
  step,      \* where the scan is: "header", "layout", "walk", ..., and
             \* "done", "refused" or "failed" once it has answered
  offset, visited, found,   \* find_image_tlv_hash()'s locals
  protectedEnd, end         \* the TlvLayout

tlvVars == <<file, step, offset, visited, found, protectedEnd, end>>

NoHash == <<>>

TlvIdle ==
  /\ file = [cells |-> <<>>, signed |-> FALSE, header |-> 0, body |-> 0,
             protect |-> 0, encrypted |-> FALSE]
  /\ step = "over" /\ offset = 0 /\ visited = 0 /\ found = NoHash
  /\ protectedEnd = 0 /\ end = 0

TlvInit ==
  /\ file \in Images
  /\ step = "header" /\ offset = 0 /\ visited = 0 /\ found = NoHash
  /\ protectedEnd = 0 /\ end = 0

FileSize == Len(file.cells)

(* read_exact(): all of it, or a failure. *)
Readable(at, count) == at + count <= FileSize

Cell(at) == file.cells[at + 1]

(* Where the TLV areas begin: the sum is taken in 64 bits. *)
BodyEnd == file.header + file.body

HeaderSound ==
  /\ FileSize >= HeaderMin /\ file.signed
  /\ file.header >= HeaderMin /\ BodyEnd <= MaxImage

ParseHeader ==
  /\ step = "header"
  /\ step' = IF HeaderSound THEN "layout" ELSE "refused"
  /\ UNCHANGED <<file, offset, visited, found, protectedEnd, end>>

(* An encrypted image is not scanned: no hash of the file could match. *)
SkipEncrypted ==
  /\ step = "layout" /\ file.encrypted
  /\ step' = "done"
  /\ UNCHANGED <<file, offset, visited, found, protectedEnd, end>>

(* Where the unprotected area's header is: first, or behind the protected     *)
(* area, whose size the image header and the area's own must agree on.        *)
UnprotectedAt == BodyEnd + file.protect

AreasAgree ==
  /\ Readable(BodyEnd, TlvHeader)
  /\ \/ /\ Cell(BodyEnd) = ProtMagic
        /\ file.protect = Cell(BodyEnd + 1) /\ file.protect >= TlvHeader
        /\ Readable(UnprotectedAt, TlvHeader)
     \/ Cell(BodyEnd) # ProtMagic /\ file.protect = 0
  /\ Cell(UnprotectedAt) = InfoMagic
  /\ Cell(UnprotectedAt + 1) >= TlvHeader

(* resolve_layout(): the areas fit in the file. *)
LayoutSound ==
  AreasAgree /\ UnprotectedAt + Cell(UnprotectedAt + 1) <= FileSize

ResolveLayout ==
  /\ step = "layout" /\ ~file.encrypted
  /\ IF LayoutSound
     THEN /\ step' = "walk" /\ offset' = BodyEnd + TlvHeader
          /\ protectedEnd' = UnprotectedAt
          /\ end' = UnprotectedAt + Cell(UnprotectedAt + 1)
     ELSE step' = "refused" /\ UNCHANGED <<offset, protectedEnd, end>>
  /\ UNCHANGED <<file, visited, found>>

AtAreaHeader == file.protect # 0 /\ offset = protectedEnd
Walking == step = "walk" /\ offset < end /\ visited < MaxTlvs

TooManyTlvs ==
  /\ step = "walk" /\ offset < end /\ visited >= MaxTlvs
  /\ step' = "refused"
  /\ UNCHANGED <<file, offset, visited, found, protectedEnd, end>>

(* The unprotected area's own header sits between the two runs of entries. *)
StepOverHeader ==
  /\ Walking /\ AtAreaHeader
  /\ visited' = visited + 1 /\ offset' = offset + TlvHeader
  /\ UNCHANGED <<file, step, found, protectedEnd, end>>

EntryLength == Cell(offset + 1)

\* Fault: an entry's length is tested against the area without its header.
EntryFitsBare ==
  TlvHeader <= end - offset /\ EntryLength <= end - offset

(* The entry's header, then its value, end within the areas. *)
EntryFits ==
  TlvHeader <= end - offset /\ EntryLength <= end - offset - TlvHeader

EntryOverruns ==
  /\ Walking /\ ~AtAreaHeader /\ ~EntryFits
  /\ step' = "refused"
  /\ UNCHANGED <<file, offset, visited, found, protectedEnd, end>>

\* Fault: the entry's header is not counted.
VisitOtherValueOnly ==
  /\ Walking /\ ~AtAreaHeader /\ EntryFits /\ Cell(offset) \notin HashTypes
  /\ visited' = visited + 1 /\ offset' = offset + EntryLength
  /\ UNCHANGED <<file, step, found, protectedEnd, end>>

VisitOther ==
  /\ Walking /\ ~AtAreaHeader /\ EntryFits /\ Cell(offset) \notin HashTypes
  /\ visited' = visited + 1 /\ offset' = offset + TlvHeader + EntryLength
  /\ UNCHANGED <<file, step, found, protectedEnd, end>>

\* Fault: the last hash TLV wins.
LastHashWins == EntryLength = HashLength[Cell(offset)]

(* Of the right length for its type, and the only one. *)
HashSound == EntryLength = HashLength[Cell(offset)] /\ found = NoHash

VisitHash ==
  /\ Walking /\ ~AtAreaHeader /\ EntryFits /\ Cell(offset) \in HashTypes
  /\ IF HashSound
     THEN /\ visited' = visited + 1
          /\ found' = SubSeq(file.cells, offset + TlvHeader + 1,
                             offset + TlvHeader + EntryLength)
          /\ offset' = offset + TlvHeader + EntryLength
          /\ UNCHANGED step
     ELSE step' = "refused" /\ UNCHANGED <<visited, found, offset>>
  /\ UNCHANGED <<file, protectedEnd, end>>

ScanEnds ==
  /\ step = "walk" /\ offset >= end
  /\ step' = "done"
  /\ UNCHANGED <<file, offset, visited, found, protectedEnd, end>>

(* The source fails, or breaks its contract with a short read. *)
SourceFails ==
  /\ step \in {"header", "layout", "walk"}
  /\ step' = "failed"
  /\ UNCHANGED <<file, offset, visited, found, protectedEnd, end>>

TlvNext ==
  \/ ParseHeader \/ SkipEncrypted \/ ResolveLayout \/ TooManyTlvs
  \/ StepOverHeader \/ EntryOverruns \/ VisitOther \/ VisitHash \/ ScanEnds
  \/ SourceFails

TlvSpec == TlvInit /\ [][TlvNext]_tlvVars

(* The scan stays inside the areas, the areas inside the file, and no claim   *)
(* of the file moves it out: neither an entry's length, nor the areas' sizes, *)
(* nor the header between them (resolve_layout(), find_image_tlv_hash()).     *)
ScanInside ==
  step = "walk" =>
    /\ BodyEnd <= MaxImage
    /\ BodyEnd + TlvHeader <= offset /\ offset <= end
    /\ protectedEnd + TlvHeader <= end /\ end <= FileSize

(* Every pass of the scan moves on by at least a header, so that it ends,     *)
(* whatever the lengths in the file are.                                      *)
ScanAdvances ==
  [][step = "walk" /\ step' = "walk" => offset' >= offset + TlvHeader]_tlvVars
=============================================================================
