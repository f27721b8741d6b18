------------------------------- MODULE Formats -------------------------------
(* The parts of the library that turn bytes into values and back, each on its *)
(* own: the size of an upload's chunks, the serial framing, the assembler fed *)
(* by a transport, the groups' requests and answers over CBOR, an image's     *)
(* TLVs, a DFU package, and the coroutine adapters.  They share no state; a   *)
(* behaviour is one of them at work, the others idle.                         *)
EXTENDS ChunkSize, SerialFraming, Stream, Groups, Async, ImageFile, Package

VARIABLE subject   \* the part at work

Init ==
  \/ /\ subject = "chunks" /\ ChunkInit
     /\ SerialIdle /\ StreamIdle /\ GroupsIdle /\ AsyncIdle /\ TlvIdle /\ PackageIdle
  \/ /\ subject = "serial" /\ SerialInit
     /\ ChunkIdle /\ StreamIdle /\ GroupsIdle /\ AsyncIdle /\ TlvIdle /\ PackageIdle
  \/ /\ subject = "stream" /\ StreamInit
     /\ ChunkIdle /\ SerialIdle /\ GroupsIdle /\ AsyncIdle /\ TlvIdle /\ PackageIdle
  \/ /\ subject = "groups" /\ GroupsInit
     /\ ChunkIdle /\ SerialIdle /\ StreamIdle /\ AsyncIdle /\ TlvIdle /\ PackageIdle
  \/ /\ subject = "async" /\ AsyncInit
     /\ ChunkIdle /\ SerialIdle /\ StreamIdle /\ GroupsIdle /\ TlvIdle /\ PackageIdle
  \/ /\ subject = "image" /\ TlvInit
     /\ ChunkIdle /\ SerialIdle /\ StreamIdle /\ GroupsIdle /\ AsyncIdle /\ PackageIdle
  \/ /\ subject = "package" /\ PackageInit
     /\ ChunkIdle /\ SerialIdle /\ StreamIdle /\ GroupsIdle /\ AsyncIdle /\ TlvIdle

ChunkStep ==
  /\ subject = "chunks" /\ ChunkNext
  /\ UNCHANGED <<subject, serialVars, streamVars, asked, asyncVars, tlvVars, pack>>

SerialStep ==
  /\ subject = "serial" /\ SerialNext
  /\ UNCHANGED <<subject, sizing, streamVars, asked, asyncVars, tlvVars, pack>>

StreamStep ==
  /\ subject = "stream" /\ StreamNext
  /\ UNCHANGED <<subject, sizing, serialVars, asked, asyncVars, tlvVars, pack>>

GroupsStep ==
  /\ subject = "groups" /\ GroupsNext
  /\ UNCHANGED <<subject, sizing, serialVars, streamVars, asyncVars, tlvVars, pack>>

AsyncStep ==
  /\ subject = "async" /\ AsyncNext
  /\ UNCHANGED <<subject, sizing, serialVars, streamVars, asked, tlvVars, pack>>

ImageStep ==
  /\ subject = "image" /\ TlvNext
  /\ UNCHANGED <<subject, sizing, serialVars, streamVars, asked, asyncVars, pack>>

PackageStep ==
  /\ subject = "package" /\ PackageNext
  /\ UNCHANGED <<subject, sizing, serialVars, streamVars, asked, asyncVars, tlvVars>>

Next ==
  \/ ChunkStep \/ SerialStep \/ StreamStep \/ GroupsStep \/ AsyncStep
  \/ ImageStep \/ PackageStep

vars ==
  <<subject, sizing, serialVars, streamVars, asked, asyncVars, tlvVars, pack>>

Spec == Init /\ [][Next]_vars
=============================================================================
