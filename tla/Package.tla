------------------------------- MODULE Package -------------------------------
(* A DFU package becomes an update's targets: read_stored_zip() and           *)
(* read_package() (support/dfu_package), then UpdateInputs::from_package_     *)
(* bytes() and set_commit() (support/dfu_app), one action per record, file    *)
(* and check.                                                                 *)
(*                                                                            *)
(* An archive is its end records, and the central and local headers found at  *)
(* its offsets; the manifest is the list of files its JSON says, and a file   *)
(* what its header and TLVs say.  Sizes are small: a header is one or two     *)
(* units.  A version is a pair <<v, build>>: v stands for major, minor and    *)
(* revision.  A board is its name and its qualifiers.  A CRC holds or does    *)
(* not.                                                                       *)
EXTENDS Integers, Sequences, FiniteSets, SequencesExt

CONSTANTS
  Archives,                        \* the archives
  Boards,                          \* the boards a user may expect
  LocalSize, CentralSize, EndSize, \* the fixed sizes of the zip's records
  MaxPackage,                      \* kMaxPackageSize
  MaxEntries, MaxName,             \* kMaxZipEntries, kMaxZipNameLength
  MaxImageIndex                    \* kMaxImageIndex

ASSUME PackageAssumption ==
  /\ {LocalSize, CentralSize, EndSize} \subseteq Nat \ {0}
  /\ {MaxPackage, MaxEntries, MaxName, MaxImageIndex} \subseteq Nat

Manifest == "manifest.json"
Missing == -1   \* a manifest number that is not there
NoText == "none"   \* no second build
AnyBoard == "any"   \* no --board was given

VARIABLE pack

Fresh(archive, board) ==
  [phase |-> "zip", archive |-> archive, expected |-> board,
   directory |-> [offset |-> 0, size |-> 0, entries |-> 0],
   cursor |-> 0, index |-> 0, entries |-> <<>>,
   read |-> 0, images |-> <<>>, targets |-> <<>>]

PackageIdle ==
  pack = [phase |-> "idle"]

PackageInit ==
  \E archive \in Archives, board \in Boards \cup {AnyBoard} :
    pack = Fresh(archive, board)

PackAt(phase) == pack.phase = phase
Refuse == pack' = [pack EXCEPT !.phase = "refused"]
Archive == pack.archive

-----------------------------------------------------------------------------
(* The zip. *)

(* The end record is the last whose comment reaches the end of the archive. *)
EndRecords ==
  {e \in Archive.ends : e.at + EndSize + e.comment = Archive.size}

EndRecord ==
  CHOOSE e \in EndRecords : \A other \in EndRecords : other.at <= e.at

(* Neither zip64 nor several disks, and inside the archive. *)
DirectorySound(e) ==
  /\ e.plain /\ e.entries <= MaxEntries
  /\ e.offset <= e.at /\ e.size <= e.at - e.offset

(* read_package(): too large an archive is not looked into. *)
PackageFits == Archive.size <= MaxPackage

FindDirectory ==
  /\ PackAt("zip")
  /\ IF PackageFits /\ EndRecords # {} /\ DirectorySound(EndRecord)
     THEN pack' = [pack EXCEPT
            !.phase = "entries", !.cursor = EndRecord.offset,
            !.directory = [offset |-> EndRecord.offset, size |-> EndRecord.size,
                           entries |-> EndRecord.entries]]
     ELSE Refuse

DirectoryEnd == pack.directory.offset + pack.directory.size

(* A central header stands at the cursor, whole and inside the directory. *)
CentralSound ==
  /\ CentralSize <= DirectoryEnd - pack.cursor
  /\ pack.cursor \in DOMAIN Archive.central
  /\ LET c == Archive.central[pack.cursor]
     IN /\ c.length + c.extra <= DirectoryEnd - pack.cursor - CentralSize
        /\ c.length \in 1..MaxName
        /\ c.stored /\ c.sameSizes

\* Fault: the data may run into the directory.
LocalAnywhere(c) ==
  /\ c.local \in DOMAIN Archive.local
  /\ Archive.local[c.local].name = c.name

(* The local header and the data after it lie before the directory, and the   *)
(* two headers name the same file.                                            *)
LocalSound(c) ==
  /\ c.local + LocalSize <= pack.directory.offset
  /\ c.local \in DOMAIN Archive.local
  /\ LET l == Archive.local[c.local]
         room == pack.directory.offset - c.local - LocalSize
     IN /\ l.length = c.length /\ l.length + l.extra <= room
        /\ c.size <= room - l.length - l.extra
        /\ l.name = c.name

DataAt(c) == c.local + LocalSize + c.length + Archive.local[c.local].extra

Taken(name) ==
  \E i \in 1..Len(pack.entries) : pack.entries[i].name = name

(* read_entry(), and what read_stored_zip() does with it: a directory is      *)
(* skipped, and a name that came before is refused.                           *)
ReadEntry ==
  /\ PackAt("entries") /\ pack.index < pack.directory.entries
  /\ IF CentralSound
     THEN LET c == Archive.central[pack.cursor]
              entry == [name |-> c.name, at |-> DataAt(c), size |-> c.size]
              next == [pack EXCEPT
                         !.index = @ + 1,
                         !.cursor = @ + CentralSize + c.length + c.extra]
          IN IF ~LocalSound(c) \/ ~c.intact THEN Refuse
             ELSE IF c.folder THEN pack' = next
             ELSE IF Taken(c.name) THEN Refuse
             ELSE pack' = [next EXCEPT !.entries = Append(@, entry)]
     ELSE Refuse

ZipEntry(name) ==
  CHOOSE e \in Range(pack.entries) : e.name = name

-----------------------------------------------------------------------------
(* The manifest's files. *)

Files == Archive.manifest.files

(* manifest.json is there, parses, and lists some files but not too many. *)
OpenManifest ==
  /\ PackAt("entries") /\ pack.index = pack.directory.entries
  /\ IF Taken(Manifest) /\ Archive.manifest.sound /\ Len(Files) \in 1..MaxEntries
     THEN pack' = [pack EXCEPT !.phase = "files"]
     ELSE Refuse

(* small_number(): not there, or a number within its range. *)
NumberSound(n, max) == n \in {Missing} \cup 0..max

(* read_image(): the file is in the zip and has the size the entry says, its  *)
(* header is one, its version is the one the entry says, and its TLVs can be  *)
(* walked.  An index may be left out by the only file.                        *)
FileSound(f) ==
  /\ Taken(f.file)
  /\ f.size \in {Missing, ZipEntry(f.file).size}
  /\ NumberSound(f.image, MaxImageIndex)
  /\ f.image # Missing \/ Len(Files) = 1
  /\ NumberSound(f.slot, 2 * MaxImageIndex + 1)
  /\ LET content == Archive.contents[f.file]
     IN /\ content.header
        /\ f.version \in {<<>>, content.version}
        /\ content.tlvs

(* The PackageImage of an entry. *)
ImageOf(f) ==
  [file |-> f.file, image |-> IF f.image = Missing THEN 0 ELSE f.image,
   slot |-> f.slot, board |-> f.board,
   version |-> Archive.contents[f.file].version,
   needs |-> Archive.contents[f.file].needs, second |-> NoText]

\* Fault: the second build's version is not compared.
PairsAnyVersion(a, b) ==
  a.second = NoText /\ {a.slot, b.slot} = {2 * a.image, 2 * a.image + 1}
    /\ a.board = b.board

\* Fault: the second build's board is not compared.
PairsAnyBoard(a, b) ==
  a.second = NoText /\ {a.slot, b.slot} = {2 * a.image, 2 * a.image + 1}
    /\ a.version = b.version

(* pair_builds(): one build for each slot of the image, alike. *)
Pairs(a, b) ==
  /\ a.second = NoText
  /\ {a.slot, b.slot} = {2 * a.image, 2 * a.image + 1}
  /\ a.version = b.version /\ a.board = b.board

\* Fault: the first file read stays the primary build.
JoinedAsRead(a, b) == [a EXCEPT !.second = b.file]

(* The primary slot's build speaks for both. *)
Joined(a, b) ==
  IF a.slot = 2 * a.image THEN [a EXCEPT !.second = b.file]
  ELSE [b EXCEPT !.second = a.file]

ReadImage ==
  /\ PackAt("files") /\ pack.read < Len(Files)
  /\ LET f == Files[pack.read + 1]
     IN IF FileSound(f)
        THEN LET image == ImageOf(f)
                 same == {i \in 1..Len(pack.images) :
                            pack.images[i].image = image.image}
             IN \/ /\ same = {}
                   /\ pack' = [pack EXCEPT !.read = @ + 1,
                                           !.images = Append(@, image)]
                \/ \E i \in same :
                     IF Pairs(pack.images[i], image)
                     THEN pack' = [pack EXCEPT !.read = @ + 1,
                            !.images[i] = Joined(@, image)]
                     ELSE Refuse
        ELSE Refuse

(* satisfies(): the build number does not count. *)
Satisfies(version, minimum) == version[1] >= minimum[1]

(* check_dependencies(): what one image needs of another is there. *)
DependenciesHold(images) ==
  \A a, b \in Range(images) : \A need \in a.needs :
    need.image = b.image => Satisfies(b.version, need.minimum)

(* The end of read_package(): one pair at most, sorted, consistent. *)
SettlePackage ==
  /\ PackAt("files") /\ pack.read = Len(Files)
  /\ IF /\ Cardinality({i \in 1..Len(pack.images) :
                          pack.images[i].second # NoText}) <= 1
        /\ DependenciesHold(pack.images)
     THEN pack' = [pack EXCEPT !.phase = "package",
            !.images = SortSeq(@, LAMBDA a, b : a.image < b.image)]
     ELSE Refuse

-----------------------------------------------------------------------------
(* The update's inputs. *)

(* check_board(): every image names a board, and it is the one expected; a    *)
(* board is compared by its name, without its qualifiers.                     *)
BoardHolds ==
  pack.expected = AnyBoard
  \/ \A image \in Range(pack.images) :
       image.board # <<>> /\ image.board[1] = pack.expected

(* The device's own application is the client's to confirm, every other image *)
(* the device's.                                                              *)
CommitBy(image) == IF image = 0 THEN "client" ELSE "device"

(* UpdateInputs::from_package_bytes(), after read_package(). *)
MakeTargets ==
  /\ PackAt("package")
  /\ IF BoardHolds
     THEN pack' = [pack EXCEPT !.phase = "ready",
            !.targets = [i \in 1..Len(pack.images) |->
               [image |-> pack.images[i].image, source |-> pack.images[i].file,
                second |-> pack.images[i].second,
                commit |-> CommitBy(pack.images[i].image), chosen |-> FALSE]]]
     ELSE Refuse

(* set_commit(): an image the inputs hold; any other is refused and nothing   *)
(* changes.                                                                   *)
SetCommit ==
  /\ PackAt("ready")
  /\ \E i \in 1..Len(pack.targets), by \in {"client", "device"} :
       pack' = [pack EXCEPT !.targets[i] =
                  [@ EXCEPT !.commit = by, !.chosen = TRUE]]

PackageNext ==
  \/ FindDirectory \/ ReadEntry \/ OpenManifest \/ ReadImage \/ SettlePackage
  \/ MakeTargets \/ SetCommit

PackageSpec == PackageInit /\ [][PackageNext]_pack

-----------------------------------------------------------------------------
(* What an entry hands out lies in the archive and before its directory,      *)
(* whatever the headers claim, and no two entries have one name, so that the  *)
(* manifest's file names mean one file each (read_entry(), read_stored_zip()).*)
EntriesInside ==
  pack.phase \notin {"idle", "zip"} =>
    /\ DirectoryEnd <= Archive.size
    /\ \A i \in 1..Len(pack.entries) :
         pack.entries[i].at + pack.entries[i].size <= pack.directory.offset
    /\ \A i, j \in 1..Len(pack.entries) :
         pack.entries[i].name = pack.entries[j].name => i = j

(* Every file the manifest lists is sent for the image and the slot it names: *)
(* each is one target's build, the targets are in the order of their images   *)
(* and no two are for one image, and of two builds the first is for the       *)
(* primary slot, in whatever order the manifest lists them; only image 0 is   *)
(* the client's to confirm unless the user said so (pair_builds(),            *)
(* read_package(), from_package_bytes()).                                     *)
TargetsAreTheFiles ==
  PackAt("ready") =>
    LET T == pack.targets
        Slot(name) == {Files[i].slot : i \in {k \in 1..Len(Files) :
                                                Files[k].file = name}}
    IN /\ \A i \in 1..Len(Files) : \E t \in Range(T) :
            /\ t.image = (IF Files[i].image = Missing THEN 0 ELSE Files[i].image)
            /\ Files[i].file \in {t.source, t.second}
       /\ \A i, j \in 1..Len(T) : i < j => T[i].image < T[j].image
       /\ \A t \in Range(T) : t.second # NoText =>
            2 * t.image \in Slot(t.source) /\ 2 * t.image + 1 \in Slot(t.second)
       /\ \A t \in Range(T) : ~t.chosen => (t.commit = "client") = (t.image = 0)

(* Whichever build of a target is sent, it was made for the board the user    *)
(* expects, though check_board() looks at one of the two (check_board(),      *)
(* pair_builds()).                                                            *)
EveryBuildFitsBoard ==
  PackAt("ready") /\ pack.expected # AnyBoard =>
    \A i \in 1..Len(Files) :
      Files[i].board # <<>> /\ Files[i].board[1] = pack.expected

(* Whichever build of an image is sent, it is as new as the primary builds of *)
(* the packaged images need it to be, though check_dependencies() compares    *)
(* only those (check_dependencies(), pair_builds()).                          *)
EveryBuildSatisfies ==
  PackAt("ready") =>
    \A t, u \in Range(pack.targets) :
      \A need \in Archive.contents[t.source].needs : need.image = u.image =>
        \A name \in {u.source, u.second} \ {NoText} :
          Satisfies(Archive.contents[name].version, need.minimum)

(* A package that is accepted is sent as its manifest says: the bytes are in  *)
(* the archive, each file goes to its image and slot, and whichever build is  *)
(* sent fits the board and the other images (read_stored_zip(), pair_builds(),*)
(* check_board(), check_dependencies()).                                      *)
PackageSound ==
  EntriesInside /\ TargetsAreTheFiles /\ EveryBuildFitsBoard /\ EveryBuildSatisfies
=============================================================================
