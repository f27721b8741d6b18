------------------------------ MODULE MCUpdate ------------------------------
(***************************************************************************)
(* The devices, plans and flash contents the runs of Update take.          *)
(***************************************************************************)
EXTENDS Update

\* Files: v1 and v2 of the application, v2 again as linked for the secondary
\* slot, and n1 and n2 of the second image.
Files == {"v1", "v2", "v2s", "n1", "n2"}
FileVersion == [h \in Files |-> IF h \in {"v1", "n1"} THEN 1 ELSE 2]

SwapDevice ==
  [behaviour |-> "SwapWithRevert", noDowngrade |-> FALSE, answersMode |-> TRUE, mode |-> "Swap",
   devices |-> {}, applies |-> TRUE, applyReads |-> 1, commits |-> TRUE, commitReads |-> 1,
   confirmAnyImage |-> FALSE, confirmOtherSecondary |-> FALSE, confirmOtherSlot |-> FALSE,
   busyOnReset |-> TRUE]

Client(image, hash) == [image |-> image, commit |-> "Client", hash |-> hash, builds |-> <<>>]
ByDevice(image, hash) == [Client(image, hash) EXCEPT !.commit = "Device"]

PlanOf(mode, targets) ==
  [mode |-> mode, fallback |-> "Unknown", allowNoRevert |-> FALSE, checkDowngrade |-> TRUE,
   skipIfPresent |-> TRUE, targets |-> targets]

Modes == {"TestThenConfirm", "ConfirmImmediately", "UploadOnly"}

\* The slots of the images: two of the application, then two of the second.
Flash(a, b, c, d) ==
  Booted([i \in Images |-> IF i = 0 THEN [s \in {0, 1} |-> IF s = 0 THEN a ELSE b]
                           ELSE [s \in {0, 1} |-> IF s = 0 THEN c ELSE d]])
OneImage(a, b) == Flash(a, b, None, None)

\* A device as an earlier process may have left it: new, with the file in the
\* other slot, marked, on trial, or done.
Earlier ==
  {OneImage("v1", None), OneImage("v1", "v2"), OneImage("v2", "v1"),
   [OneImage("v1", "v2") EXCEPT !.swap[0] = "Test"],
   [OneImage("v2", "v1") EXCEPT !.swap[0] = "Revert"]}

Single ==
  {[plan |-> PlanOf(mode, <<Client(0, "v2")>>), device |-> SwapDevice, content |-> d] :
     mode \in Modes, d \in Earlier}

\* Both images of a package: the second one smply's or the device's to commit.
TwoDevice == [SwapDevice EXCEPT !.devices = {1}, !.busyOnReset = FALSE]
Package ==
  {[plan |-> PlanOf(mode, <<Client(0, "v2"), ByDevice(1, "n2")>>),
    device |-> [TwoDevice EXCEPT !.applies = a, !.commits = c],
    content |-> Flash("v1", None, "n1", None)] :
     mode \in {"TestThenConfirm", "ConfirmImmediately"}, a \in BOOLEAN, c \in BOOLEAN}
PackageAsked == {sc \in Package : sc.plan.mode = "TestThenConfirm" /\ sc.device.applies}

\* Bootloaders other than a swapping one, and what a plan allows them.
Reports(behaviour, mode) == [SwapDevice EXCEPT !.behaviour = behaviour, !.mode = mode]
Overwriting == Reports("Overwrite", "UpgradeOnly")
Silent == [Overwriting EXCEPT !.answersMode = FALSE]
NoWayBack == [SwapDevice EXCEPT !.noDowngrade = TRUE]

Permits(targets) ==
  {[PlanOf("TestThenConfirm", targets) EXCEPT !.allowNoRevert = a, !.checkDowngrade = c,
                                              !.fallback = f] :
     a \in BOOLEAN, c \in BOOLEAN, f \in {"Unknown", "UpgradeOnly"}}

\* One build per slot, and the application running from either.
PerSlot == [Client(0, "v2") EXCEPT !.builds = <<"v2", "v2s">>]
FromSlot(s) ==
  [OneImage(IF s = 0 THEN "v1" ELSE None, IF s = 1 THEN "v1" ELSE None) EXCEPT
     !.active = s, !.xip = IF s = 0 THEN <<"Forever", "Unset">> ELSE <<"Unset", "Forever">>]

Bootloaders ==
  {[plan |-> pl, device |-> d, content |-> OneImage("v1", None)] :
     pl \in Permits(<<Client(0, "v2")>>),
     d \in {Overwriting, Silent, Reports("SwapWithRevert", "Unsupported")}}
  \cup
  {[plan |-> pl, device |-> NoWayBack, content |-> OneImage("v2", None)] :
     pl \in Permits(<<Client(0, "v1")>>)}
  \cup
  {[plan |-> pl, device |-> Reports(b, b), content |-> FromSlot(s)] :
     pl \in Permits(<<PerSlot>>), s \in {0, 1}, b \in {"DirectXip", "DirectXipWithRevert"}}

\* Two images smply commits, the second perhaps older than the one running.
TwoClients ==
  {[plan |-> pl,
    device |-> [NoWayBack EXCEPT !.confirmAnyImage = a],
    content |-> Flash("v1", None, n, None)] :
     pl \in {PlanOf("TestThenConfirm", <<Client(0, "v2"), Client(1, h)>>) : h \in {"n1", "n2"}},
     n \in {"n1", "n2"}, a \in BOOLEAN}

\* One new image for one device, and the same with a build per slot.
Plainly ==
  {[plan |-> PlanOf("TestThenConfirm", <<Client(0, "v2")>>), device |-> SwapDevice,
    content |-> OneImage("v1", None)]}
OtherSlot ==
  {[plan |-> [PlanOf("TestThenConfirm", <<PerSlot>>) EXCEPT !.allowNoRevert = TRUE],
    device |-> Reports("DirectXip", "DirectXip"), content |-> FromSlot(0)]}

Every == Single \cup Package \cup TwoClients \cup Bootloaders
=============================================================================
