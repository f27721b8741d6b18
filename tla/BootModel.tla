------------------------------ MODULE BootModel ------------------------------
(***************************************************************************)
(* The device an update talks to, as src/support/boot_model predicts it:   *)
(* two flash slots per image, MCUboot's swap, overwrite and direct-XIP     *)
(* decisions, the set-state command and the slot listing, and images that  *)
(* another MCU applies and commits.                                        *)
(*                                                                         *)
(* Operators over a device d and its configuration g:                      *)
(*   d.slots[i][s]  content of slot s of image i: a hash, or None          *)
(*   d.swap[i]      the swap scheduled for image i                         *)
(*   d.applying[i], d.committing[i]  reads left, or Idle                   *)
(*   d.active, d.xip, d.trial        direct-XIP: the running slot of image *)
(*                  0, the slots' boot state, an unconfirmed trial         *)
(***************************************************************************)
EXTENDS Integers, FiniteSets

CONSTANTS
  NImages,   \* images of the device
  Hashes,    \* image files, told apart by their hash
  None,      \* an erased or half-written slot
  Version    \* a file's version: major, minor and revision, as one number

ASSUME BootAssumption ==
  /\ NImages \in Nat \ {0}
  /\ None \notin Hashes
  /\ Version \in [Hashes -> Nat]

Images == 0 .. NImages - 1
Contents == Hashes \cup {None}
Idle == -1

DirectXip(g) == g.behaviour \in {"DirectXip", "DirectXipWithRevert"}

\* A device whose slots hold content, running slot 0 of every image for good.
Booted(content) ==
  [slots |-> content, swap |-> [i \in Images |-> "None"],
   applying |-> [i \in Images |-> Idle], committing |-> [i \in Images |-> Idle],
   active |-> 0, xip |-> <<"Forever", "Unset">>, trial |-> FALSE]

\* The boot state of slot s, kept from 1 in d.xip.
XipState(d, s) == d.xip[s + 1]
WithXip(d, s, state) == [d EXCEPT !.xip[s + 1] = state]
-----------------------------------------------------------------------------
(* Uploads *)

UploadSlot(g, d, image) == IF DirectXip(g) /\ image = 0 THEN 1 - d.active ELSE 1

\* begin_upload() and the writes: what the slot holds afterwards is content.
Write(g, d, image, content) ==
  LET s == UploadSlot(g, d, image)
      e == [d EXCEPT !.slots[image][s] = content]
  IN IF DirectXip(g) /\ image = 0 THEN WithXip(e, s, "Unset") ELSE e
-----------------------------------------------------------------------------
(* Direct-XIP *)

XipPrefersOther(d) ==
  LET ours == d.slots[0][d.active]
      theirs == d.slots[0][1 - d.active]
  IN /\ theirs # None
     /\ \/ ours = None
        \/ Version[ours] < Version[theirs]
        \/ Version[ours] = Version[theirs] /\ 1 - d.active < d.active

XipNext(g, d) ==
  IF ~XipPrefersOther(d) THEN "Stay"
  ELSE IF g.behaviour = "DirectXip" THEN "OtherForGood"
  ELSE CASE XipState(d, 1 - d.active) = "Once" -> "OtherOnTrial"
         [] XipState(d, 1 - d.active) = "Forever" -> "OtherForGood"
         [] XipState(d, 1 - d.active) = "Unset" -> "Stay"

XipReboot(g, d) ==
  LET next == XipNext(g, d) IN
  IF g.behaviour = "DirectXipWithRevert" /\ d.trial
    THEN [WithXip(d, d.active, "Unset") EXCEPT
            !.slots[0][d.active] = None, !.active = 1 - d.active, !.trial = FALSE]
  ELSE IF next = "Stay" THEN d
  ELSE [d EXCEPT !.active = 1 - d.active, !.trial = (next = "OtherOnTrial")]

XipSetNext(g, d, image, s, confirm) ==
  IF image # 0 THEN [rc |-> "Refused", d |-> d]
  ELSE IF confirm /\ s # d.active /\ ~g.confirmOtherSlot THEN [rc |-> "Refused", d |-> d]
  ELSE IF ~confirm /\ s = d.active THEN [rc |-> "Refused", d |-> d]
  ELSE IF confirm
    THEN [rc |-> "Ok", d |-> [WithXip(d, s, "Forever") EXCEPT
                                !.trial = IF s = d.active THEN FALSE ELSE @]]
  ELSE IF d.trial \/ XipState(d, s) = "Forever" THEN [rc |-> "AlreadyPending", d |-> d]
  ELSE [rc |-> "Ok", d |-> WithXip(d, s, "Once")]
-----------------------------------------------------------------------------
(* Set-state, with swap *)

OnTrial(g, d, i) == i \in g.devices /\ d.swap[i] = "Revert" /\ d.applying[i] = Idle

\* The coordinating MCU starts committing what it applied to the other one.
StartDeviceCommits(g, d) ==
  [d EXCEPT !.committing =
     [i \in Images |-> IF OnTrial(g, d, i) /\ g.commits /\ @[i] = Idle
                       THEN g.commitReads ELSE @[i]]]

\* boot_set_next(): confirming the running slot ends its trial, marking the
\* other one schedules a swap.
SetNext(g, d, i, s, confirm) ==
  IF s = 0 /\ d.swap[i] = "Revert"
    THEN LET e == [d EXCEPT !.swap[i] = "None", !.applying[i] = Idle,
                            !.committing[i] = Idle]
         IN IF i = 0 THEN StartDeviceCommits(g, e) ELSE e
  ELSE IF s # 0 /\ d.swap[i] = "None"
    THEN [d EXCEPT !.swap[i] = IF confirm THEN "Perm" ELSE "Test"]
  ELSE d

NextBootSlot(d, i) == IF d.swap[i] = "None" THEN 0 ELSE 1

\* Confirming an image that does not run, or a slot that does not.
ConfirmDenied(g, i, s) ==
  \/ i # 0 /\ ~g.confirmAnyImage /\ (~g.confirmOtherSecondary \/ s = 0)
  \/ s # 0 /\ ~g.confirmOtherSlot

\* What is scheduled stands; asking for exactly that changes nothing.
Scheduled(d, i, s, confirm) ==
  LET next == NextBootSlot(d, i) IN
  CASE d.swap[i] = "Test" -> IF ~confirm /\ s = next THEN "Same" ELSE "Conflict"
    [] d.swap[i] = "Revert" -> IF confirm THEN "Free" ELSE "Conflict"
    [] d.swap[i] \in {"None", "Perm"} ->
         IF confirm /\ s = next THEN "Same"
         ELSE IF (s = 0 /\ next # 0) \/ (~confirm /\ s # 0 /\ s = next) THEN "Conflict"
         ELSE "Free"

SetNextBootSlot(g, d, i, s, confirm) ==
  IF (confirm /\ ConfirmDenied(g, i, s)) \/ (~confirm /\ s = 0)
    THEN [rc |-> "Refused", d |-> d]
  ELSE CASE Scheduled(d, i, s, confirm) = "Same" -> [rc |-> "Ok", d |-> d]
         [] Scheduled(d, i, s, confirm) = "Conflict" -> [rc |-> "AlreadyPending", d |-> d]
         [] Scheduled(d, i, s, confirm) = "Free" ->
              [rc |-> "Ok", d |-> SetNext(g, d, i, s, confirm)]

\* find_by_hash(): the lowest slot of any image that holds the file.
Holding(d, hash) == {p \in Images \X {0, 1} : d.slots[p[1]][p[2]] = hash}
FindByHash(d, hash) ==
  CHOOSE p \in Holding(d, hash) :
    \A q \in Holding(d, hash) : 2 * p[1] + p[2] <= 2 * q[1] + q[2]

SetState(g, d, hash, confirm) ==
  IF g.behaviour = "DirectXip" \/ Holding(d, hash) = {} THEN [rc |-> "Refused", d |-> d]
  ELSE LET p == FindByHash(d, hash) IN
       IF DirectXip(g) THEN XipSetNext(g, d, p[1], p[2], confirm)
       ELSE SetNextBootSlot(g, d, p[1], p[2], confirm)
-----------------------------------------------------------------------------
(* Reboot *)

RefusesDowngrade(g, d, i) ==
  /\ g.noDowngrade
  /\ d.slots[i][0] # None /\ d.slots[i][1] # None
  /\ Version[d.slots[i][1]] < Version[d.slots[i][0]]

\* What one image's boot decision leaves: [slots, swap, applying, committing].
BootOf(g, d, i) ==
  LET swapped == [s \in {0, 1} |-> d.slots[i][1 - s]]
      kept == [slots |-> d.slots[i], swap |-> d.swap[i], applying |-> d.applying[i],
               committing |-> d.committing[i]]
      scheduled == d.swap[i] \in {"Test", "Perm"} /\ i \notin g.devices
      ended(first) == [kept EXCEPT !.slots = [s \in {0, 1} |->
                                                IF s = 0 THEN first ELSE None],
                                   !.swap = "None"]
  IN IF scheduled /\ RefusesDowngrade(g, d, i) THEN ended(d.slots[i][0])
     ELSE IF scheduled /\ g.behaviour = "Overwrite" THEN ended(d.slots[i][1])
     ELSE IF d.swap[i] = "None" THEN kept
     ELSE IF d.swap[i] = "Test" /\ i \in g.devices
       THEN [kept EXCEPT !.applying = g.applyReads]
     ELSE IF d.swap[i] = "Test" THEN [kept EXCEPT !.slots = swapped, !.swap = "Revert"]
     ELSE [slots |-> swapped, swap |-> "None", applying |-> Idle, committing |-> Idle]

Reboot(g, d) ==
  IF DirectXip(g) THEN XipReboot(g, d)
  ELSE [d EXCEPT !.slots = [i \in Images |-> BootOf(g, d, i).slots],
                 !.swap = [i \in Images |-> BootOf(g, d, i).swap],
                 !.applying = [i \in Images |-> BootOf(g, d, i).applying],
                 !.committing = [i \in Images |-> BootOf(g, d, i).committing]]
-----------------------------------------------------------------------------
(* State reads *)

\* advance_applies(), one image.
Advanced(g, d, i) ==
  LET kept == [slots |-> d.slots[i], swap |-> d.swap[i], applying |-> d.applying[i],
               committing |-> d.committing[i]]
  IN IF d.committing[i] > 0 THEN [kept EXCEPT !.committing = @ - 1]
     ELSE IF d.committing[i] = 0 THEN [kept EXCEPT !.committing = Idle, !.swap = "None"]
     ELSE IF d.applying[i] > 0 THEN [kept EXCEPT !.applying = @ - 1]
     ELSE IF d.applying[i] = Idle THEN kept
     ELSE IF i \in g.devices /\ g.applies
       THEN [kept EXCEPT !.applying = Idle, !.swap = "Revert",
                         !.slots = [s \in {0, 1} |-> d.slots[i][1 - s]]]
     ELSE [kept EXCEPT !.applying = Idle, !.swap = "None"]

\* The other MCU gets on with it: one step of "a while" per state read.
AdvanceApplies(g, d) ==
  LET e == [d EXCEPT !.slots = [i \in Images |-> Advanced(g, d, i).slots],
                     !.swap = [i \in Images |-> Advanced(g, d, i).swap],
                     !.applying = [i \in Images |-> Advanced(g, d, i).applying],
                     !.committing = [i \in Images |-> Advanced(g, d, i).committing]]
  IN IF e.swap[0] # "Revert" THEN StartDeviceCommits(g, e) ELSE e

Unlisted == [hash |-> None, pending |-> FALSE, confirmed |-> FALSE, active |-> FALSE]

XipFlags(g, d, s) ==
  LET active == s = d.active
      pending == ~active /\ XipNext(g, d) # "Stay"
  IN [hash |-> d.slots[0][s], active |-> active,
      pending |-> pending /\ (g.behaviour = "DirectXip" \/ ~d.trial),
      confirmed |-> g.behaviour = "DirectXipWithRevert"
                      /\ (IF d.trial THEN ~active ELSE active)]

SwapFlags(d, i, s) ==
  [hash |-> d.slots[i][s], active |-> s = 0,
   pending |-> s = 1 /\ d.swap[i] \in {"Test", "Perm"},
   confirmed |-> (d.swap[i] = "Revert") = (s = 1)]

\* The slot table: a slot without a valid image is not listed.
Listing(g, d) ==
  [i \in Images |-> [s \in {0, 1} |->
     IF d.slots[i][s] = None THEN Unlisted
     ELSE IF DirectXip(g) /\ i = 0 THEN XipFlags(g, d, s)
     ELSE SwapFlags(d, i, s)]]
=============================================================================
