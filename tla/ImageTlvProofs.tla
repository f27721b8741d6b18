--------------------------- MODULE ImageTlvProofs ----------------------------
(* The scan of an image's TLVs stays inside the file and always moves on, for *)
(* every file and every value of the limits.                                  *)
EXTENDS ImageTlv, TLAPS

(* The inductive invariant: the locals are numbers, the file is a file, and   *)
(* the scan is inside it.                                                     *)
Scanning ==
  /\ file \in ImageFiles
  /\ offset \in Nat /\ visited \in Nat /\ protectedEnd \in Nat /\ end \in Nat
  /\ step = "layout" => BodyEnd <= MaxImage
  /\ ScanInside

(* A cell that may be read is a number (load_le16()). *)
LEMMA CellIsNumber ==
  ASSUME file \in ImageFiles, NEW at \in Nat, NEW count \in Nat,
         Readable(at, count), NEW k \in Nat, k < count
  PROVE  Cell(at + k) \in Nat
<1>1. file.cells \in Seq(Nat)
  BY DEF ImageFiles
<1>2. at + k + 1 \in 1..Len(file.cells)
  BY <1>1 DEF Readable, FileSize
<1> QED BY <1>1, <1>2 DEF Cell

(* Where the areas are, once the headers agree: every number resolve_layout() *)
(* computes is one, and the area headers are inside the file.                 *)
LEMMA LayoutIsSound ==
  ASSUME file \in ImageFiles, LayoutSound
  PROVE  /\ BodyEnd \in Nat /\ UnprotectedAt \in Nat
         /\ Cell(UnprotectedAt + 1) \in Nat
         /\ BodyEnd <= UnprotectedAt
         /\ Cell(UnprotectedAt + 1) >= TlvHeader
         /\ UnprotectedAt + Cell(UnprotectedAt + 1) <= FileSize
<1>1. file.header \in Nat /\ file.body \in Nat /\ file.protect \in Nat
  BY DEF ImageFiles
<1>2. BodyEnd \in Nat /\ UnprotectedAt \in Nat /\ BodyEnd <= UnprotectedAt
  BY <1>1 DEF BodyEnd, UnprotectedAt
<1>3. Readable(UnprotectedAt, TlvHeader)
  BY <1>1, <1>2 DEF LayoutSound, AreasAgree, UnprotectedAt
<1>4. Cell(UnprotectedAt + 1) \in Nat
  BY <1>2, <1>3, CellIsNumber DEF TlvHeader
<1> QED BY <1>2, <1>4 DEF LayoutSound, AreasAgree

(* An entry that fits has a length, and ends within the areas. *)
LEMMA EntryIsInside ==
  ASSUME Scanning, Walking, EntryFits
  PROVE  /\ EntryLength \in Nat
         /\ offset + TlvHeader + EntryLength <= end
<1>1. Readable(offset, TlvHeader)
  BY DEF Scanning, ScanInside, Walking, EntryFits, Readable, FileSize,
         TlvHeader, ImageFiles
<1>2. Cell(offset + 1) \in Nat
  BY <1>1, CellIsNumber DEF Scanning, TlvHeader
<1> QED BY <1>2 DEF Scanning, EntryFits, EntryLength, TlvHeader

(* The scan begins with nothing read (find_image_tlv_hash()). *)
LEMMA ScanningInit == TlvInit => Scanning
  BY TlvAssumption DEF TlvInit, Scanning, ScanInside

(* Every pass keeps the invariant, and a pass that goes on advances. *)
LEMMA ScanningNext ==
  ASSUME Scanning, [TlvNext]_tlvVars
  PROVE  /\ Scanning'
         /\ step = "walk" /\ step' = "walk" /\ tlvVars' # tlvVars =>
              offset' >= offset + TlvHeader
<1> USE DEF Scanning
<1>0. file.header \in Nat /\ file.body \in Nat /\ file.protect \in Nat
  BY DEF ImageFiles
<1>1. CASE ParseHeader
  BY <1>1 DEF ParseHeader, HeaderSound, ScanInside, BodyEnd, FileSize
<1>2. CASE SkipEncrypted
  BY <1>2 DEF SkipEncrypted, ScanInside
<1>3. CASE ResolveLayout
  <2>1. CASE LayoutSound
    <3>1. /\ step = "layout" /\ step' = "walk" /\ file' = file
          /\ visited' = visited
          /\ offset' = BodyEnd + TlvHeader /\ protectedEnd' = UnprotectedAt
          /\ end' = UnprotectedAt + Cell(UnprotectedAt + 1)
      BY <1>3, <2>1 DEF ResolveLayout
    <3>2. BodyEnd' = BodyEnd /\ FileSize' = FileSize
      BY <3>1 DEF BodyEnd, FileSize
    <3>3. /\ offset' \in Nat /\ protectedEnd' \in Nat /\ end' \in Nat
      BY <2>1, <3>1, LayoutIsSound DEF TlvHeader
    <3>4. /\ BodyEnd <= MaxImage
          /\ BodyEnd + TlvHeader <= offset' /\ offset' <= end'
          /\ protectedEnd' + TlvHeader <= end' /\ end' <= FileSize
      BY <2>1, <3>1, LayoutIsSound DEF TlvHeader
    <3> QED BY <3>1, <3>2, <3>3, <3>4 DEF ScanInside
  <2>2. CASE ~LayoutSound
    BY <1>3, <2>2 DEF ResolveLayout, ScanInside
  <2> QED BY <2>1, <2>2
<1>4. CASE TooManyTlvs
  BY <1>4 DEF TooManyTlvs, ScanInside
<1>5. CASE StepOverHeader
  BY <1>0, <1>5 DEF StepOverHeader, Walking, AtAreaHeader, ScanInside, BodyEnd,
     FileSize, TlvHeader
<1>6. CASE EntryOverruns
  BY <1>6 DEF EntryOverruns, ScanInside
<1>7. ASSUME Walking, EntryFits, step' = "walk", visited' = visited + 1,
             offset' = offset + TlvHeader + EntryLength,
             UNCHANGED <<file, protectedEnd, end>>
      PROVE  Scanning' /\ offset' >= offset + TlvHeader
  <2>1. /\ EntryLength \in Nat
        /\ offset + TlvHeader + EntryLength <= end
    BY <1>7, EntryIsInside
  <2> QED BY <1>0, <1>7, <2>1 DEF Walking, ScanInside, BodyEnd, FileSize, TlvHeader
<1>8. CASE VisitOther
  BY <1>7, <1>8 DEF VisitOther, Walking
<1>9. CASE VisitHash
  <2>1. CASE HashSound
    BY <1>7, <1>9, <2>1 DEF VisitHash, Walking
  <2>2. CASE ~HashSound
    BY <1>9, <2>2 DEF VisitHash, ScanInside
  <2> QED BY <2>1, <2>2
<1>10. CASE ScanEnds
  BY <1>10 DEF ScanEnds, ScanInside
<1>11. CASE SourceFails
  BY <1>11 DEF SourceFails, ScanInside
<1>12. CASE UNCHANGED tlvVars
  BY <1>12 DEF tlvVars, ScanInside, BodyEnd, FileSize
<1> QED
  BY <1>1, <1>2, <1>3, <1>4, <1>5, <1>6, <1>8, <1>9, <1>10, <1>11, <1>12
  DEF TlvNext

(* Whatever a file says of its own sizes, find_image_tlv_hash() reads inside  *)
(* its TLV areas and inside the file.                                         *)
THEOREM ScanAlwaysInside == TlvSpec => []ScanInside
<1>1. TlvInit => Scanning
  BY ScanningInit
<1>2. Scanning /\ [TlvNext]_tlvVars => Scanning'
  BY ScanningNext
<1>3. Scanning => ScanInside
  BY DEF Scanning
<1> QED BY <1>1, <1>2, <1>3, PTL DEF TlvSpec

(* Every pass of its loop that goes on advances by a header or more, so the   *)
(* loop ends for every file.                                                  *)
THEOREM ScanAlwaysAdvances == TlvSpec => ScanAdvances
<1>1. TlvInit => Scanning
  BY ScanningInit
<1>2. Scanning /\ [TlvNext]_tlvVars => Scanning'
  BY ScanningNext
<1>3. Scanning /\ [TlvNext]_tlvVars =>
        [step = "walk" /\ step' = "walk" => offset' >= offset + TlvHeader]_tlvVars
  BY ScanningNext
<1> QED BY <1>1, <1>2, <1>3, PTL DEF TlvSpec, ScanAdvances
=============================================================================
