------------------------------ MODULE FramePlan ------------------------------
(* How one SMP message is divided into console frames: plan_frame() of        *)
(* transports/serial/serial_framing.hpp, and what the framer makes of a plan. *)
EXTENDS Integers

CONSTANT MaxFrame   \* kMaxFrame, marker and newline included

ASSUME FrameAssumption == MaxFrame \in Nat /\ MaxFrame >= 11

MarkerSize == 2
MaxGroups == (MaxFrame - MarkerSize - 1) \div 4
MaxRaw == 3 * MaxGroups

(* The opening frame spends a group on the length and the first byte. *)
Room(off) == IF off = 0 THEN MaxRaw - 3 ELSE MaxRaw
Start(off) == IF off = 0 THEN 1 ELSE off
Left(size, off) == size - Start(off)

\* Fault: the CRC goes along whenever the data does.
CrcAtOnce(size, off) == Room(off) >= Left(size, off)

(* plan_frame(): the CRC goes with the last of the data only if it fits whole. *)
CarriesCrc(size, off) == Room(off) - Left(size, off) > 1

(* plan_frame(): the whole groups of three after the opening one; a byte is   *)
(* deferred rather than the CRC split.                                        *)
Triplets(size, off) ==
  (IF Room(off) < Left(size, off) THEN Room(off)
   ELSE IF CarriesCrc(size, off) THEN Left(size, off) ELSE Left(size, off) - 1) \div 3

(* next_frame(): where the framer stands afterwards. *)
Advance(size, off) ==
  IF CarriesCrc(size, off) THEN size ELSE Start(off) + 3 * Triplets(size, off)

(* What is left for encode_tail(), and the characters it writes. *)
TailBytes(size, off) == Left(size, off) - 3 * Triplets(size, off)
TailLength(size, off) ==
  IF ~CarriesCrc(size, off) THEN 0 ELSE IF TailBytes(size, off) = 2 THEN 8 ELSE 4

(* next_frame(): the characters it writes, marker and newline included.       *)
FrameLength(size, off) ==
  MarkerSize + (IF off = 0 THEN 4 ELSE 0) + 4 * Triplets(size, off)
    + TailLength(size, off) + 1

(* From anywhere in a message the next frame fits the limit, moves on, and    *)
(* does not pass the message's end.                                           *)
FrameSound(size, off) ==
  /\ FrameLength(size, off) <= MaxFrame
  /\ Advance(size, off) \in off + 1 .. size
=============================================================================
