-------------------------- MODULE VolumeDeploySafety --------------------------
(***************************************************************************)
(* VolumeDeploy for every set of deploys and sizes and every bound: the    *)
(* types, that the record names what is in app/, that a container runs     *)
(* what is recorded, that the file system has its size, and that           *)
(* VersionStore is implemented.                                            *)
(***************************************************************************)
EXTENDS VolumeDeploy, TLAPS

ApplySteps == VolumeSteps \cup DeploySteps \cup {"converge"}

\* What is mounted has a file system, and what needs the volume finds it mounted.
MountOK ==
  /\ mounted => image # Nil /\ image.fs # 0
  /\ pc \in {"extend", "resize", "layout", "converge"} \cup DeploySteps => mounted
  /\ pc \in {"create", "truncate", "mkfs", "unlink"} => ~mounted

\* How far next/ and app/ are at each step of a deploy of another version than the recorded one.
SwapOK ==
  /\ pc \in ApplySteps => spec # Nil
  /\ pc \in DeploySteps => spec.deploy \in Deploys /\ spec.deploy # record
  /\ pc = "fetch" => tree["next"] = [of |-> spec.deploy, code |-> "part"]
  /\ pc = "install" => tree["next"] = [of |-> spec.deploy, code |-> "fetched"]
  /\ pc \in {"trim", "aside", "swap"} => tree["next"] = [of |-> spec.deploy, code |-> "whole"]
  /\ pc \in {"swap", "restore"} => tree["app"] = Nil
  /\ pc = "record" => tree["app"] = [of |-> spec.deploy, code |-> "whole"]

\* The version that counts is the recorded one, also while it is moved aside.
Named(slot) == IF tree[slot] = Nil THEN record = Nil ELSE tree[slot].of = record
RecordOK == ~torn => Named(IF InSwap THEN "prev" ELSE "app")

\* A container that has outlived no deploy is of the recorded one and follows its directory.
BoxOK ==
  /\ pc \in {"unmount", "unlink"} => box = Nil
  /\ box # Nil /\ ~stale =>
       /\ pc # "converge" => box.label = record
       /\ ~torn /\ box.up /\ box.label = record => box.dir = IF InSwap THEN "prev" ELSE "app"

\* What ensureVolume knows of the image at each step.
SizeOK ==
  /\ outcome = "ok" => pc = "idle"
  /\ image # Nil /\ image.fs # 0 /\ ~halfGrown /\ pc # "resize" => image.fs = image.size
  /\ pc = "create" => image = Nil /\ st = Nil
  /\ pc = "truncate" => image = [size |-> 0, fs |-> 0] /\ st = Nil
  /\ pc = "mkfs" => image = [size |-> spec.size, fs |-> 0] /\ st = Nil
  /\ pc = "mount" => image # Nil /\ image.size = IF st = Nil THEN spec.size ELSE st
  /\ pc = "extend" => st # Nil /\ st < spec.size
  /\ pc \in {"resize", "layout", "converge"} \cup DeploySteps =>
       image.size = IF st = Nil \/ st < spec.size THEN spec.size ELSE st
  /\ outcome = "ok" => image # Nil /\ image.size = spec.size /\ image.fs # 0

-----------------------------------------------------------------------------
(* The types, and what each step may rely on.                              *)

Core == TypeOK /\ MountOK /\ SwapOK /\ SizeOK

Counts == [applies : 0 .. MaxApplies, faults : 0 .. MaxFaults, crashes : 0 .. MaxCrashes]

LEMMA SpendOK ==
  ASSUME TypeOK,
         Spend("applies", MaxApplies) \/ Spend("faults", MaxFaults) \/ Spend("crashes", MaxCrashes)
  PROVE  used' \in Counts
  <1>1. used \in Counts /\ MaxApplies \in Nat /\ MaxFaults \in Nat /\ MaxCrashes \in Nat
    BY VolumeConstants DEF TypeOK, Counts
  <1>2. ASSUME Spend("applies", MaxApplies) PROVE used' \in Counts
    BY <1>1, <1>2 DEF Spend, Counts
  <1>3. ASSUME Spend("faults", MaxFaults) PROVE used' \in Counts
    BY <1>1, <1>3 DEF Spend, Counts
  <1>4. ASSUME Spend("crashes", MaxCrashes) PROVE used' \in Counts
    BY <1>1, <1>4 DEF Spend, Counts
  <1> QED  BY <1>2, <1>3, <1>4

LEMMA NilOK ==
  /\ Nil \notin Tree /\ Nil \notin Image /\ Nil \notin Box /\ Nil \notin ApplySpec
  /\ Nil \notin Sizes /\ Nil # 0 /\ Nil \notin Deploys
  /\ \A n \in Sizes : n \in Nat /\ n > 0
  BY NilAssumption, VolumeConstants

LEMMA ApplyCore == ASSUME Core, NEW d \in Deploys \cup {Nil}, NEW s \in Sizes, Apply(d, s) PROVE Core'
  <1>1. TypeOK'
    BY NilOK, SpendOK DEF Core, Apply, Goto, Return, volume, observers, TypeOK, Image, ApplySpec, Steps,
       VolumeSteps, Counts
  <1>2. MountOK'
    BY NilOK DEF Core, MountOK, Apply, volume, DeploySteps
  <1>3. SwapOK'
    BY NilOK DEF SwapOK, Apply, ApplySpec, DeploySteps
  <1>4. SizeOK'
    BY NilOK DEF Core, SizeOK, Apply, volume, observers, TypeOK, Image, DeploySteps
  <1> QED  BY <1>1, <1>2, <1>3, <1>4 DEF Core

LEMMA CreateImageCore == ASSUME Core, CreateImage PROVE Core'
  <1>1. TypeOK'
    BY NilOK, SpendOK DEF Core, CreateImage, Goto, At, observers, TypeOK, Image, Steps, VolumeSteps
  <1>2. MountOK'
    BY NilOK DEF Core, MountOK, CreateImage, Goto, At, DeploySteps
  <1>3. SwapOK'
    BY NilOK DEF Core, SwapOK, ApplySteps, CreateImage, Goto, At, VolumeSteps, DeploySteps
  <1>4. SizeOK'
    BY NilOK DEF Core, SizeOK, CreateImage, Goto, At, DeploySteps
  <1> QED  BY <1>1, <1>2, <1>3, <1>4 DEF Core

LEMMA TruncateImageCore == ASSUME Core, TruncateImage PROVE Core'
  <1>1. TypeOK'
    BY NilOK, SpendOK DEF Core, SwapOK, SizeOK, ApplySteps, TruncateImage, Goto, At, observers, TypeOK,
       Image, ApplySpec, Steps, VolumeSteps
  <1>2. MountOK'
    BY NilOK DEF Core, MountOK, TruncateImage, Goto, At, DeploySteps
  <1>3. SwapOK'
    BY NilOK DEF Core, SwapOK, ApplySteps, TruncateImage, Goto, At, VolumeSteps, DeploySteps
  <1>4. SizeOK'
    BY NilOK DEF Core, SizeOK, TruncateImage, Goto, At
  <1> QED  BY <1>1, <1>2, <1>3, <1>4 DEF Core

LEMMA MakeFileSystemCore == ASSUME Core, MakeFileSystem PROVE Core'
  <1>1. TypeOK'
    BY NilOK, SpendOK DEF Core, SwapOK, SizeOK, ApplySteps, MakeFileSystem, Goto, At, observers, TypeOK,
       Image, ApplySpec, Steps, VolumeSteps
  <1>2. MountOK'
    BY NilOK DEF Core, MountOK, MakeFileSystem, Goto, At, DeploySteps
  <1>3. SwapOK'
    BY NilOK DEF Core, SwapOK, ApplySteps, MakeFileSystem, Goto, At, VolumeSteps, DeploySteps
  <1>4. SizeOK'
    BY NilOK DEF Core, SizeOK, MakeFileSystem, Goto, At, TypeOK, Image
  <1> QED  BY <1>1, <1>2, <1>3, <1>4 DEF Core

LEMMA MountCore == ASSUME Core, Mount PROVE Core'
  <1>1. TypeOK'
    <2>1. UNCHANGED <<image, tree, record, box, spec, st, torn, stale, halfGrown, used>>
      BY DEF Mount, At, Goto, Return, observers
    <2>2. mounted' \in BOOLEAN
      BY DEF Mount, Core, TypeOK
    <2>3. pc' \in Steps \cup {"idle"} /\ outcome' \in {outcome, "failed"}
      BY DEF Mount, Goto, Return, AfterMount, Steps, VolumeSteps
    <2> QED  BY <2>1, <2>2, <2>3 DEF Core, TypeOK
  <1>2. MountOK'
    BY NilOK DEF Core, MountOK, SizeOK, Mount, AfterMount, Goto, Return, At, DeploySteps
  <1>3. SwapOK'
    BY NilOK DEF Core, SwapOK, ApplySteps, Mount, AfterMount, Goto, Return, At, VolumeSteps, DeploySteps
  <1>4. SizeOK'
    BY NilOK DEF Core, SizeOK, Mount, AfterMount, Goto, Return, At, observers, DeploySteps
  <1> QED  BY <1>1, <1>2, <1>3, <1>4 DEF Core

LEMMA ExtendImageCore == ASSUME Core, ExtendImage PROVE Core'
  <1>1. TypeOK'
    BY NilOK, SpendOK DEF Core, MountOK, SwapOK, ApplySteps, ExtendImage, Goto, At, observers, TypeOK,
       Image, ApplySpec, Steps, VolumeSteps
  <1>2. MountOK'
    BY NilOK DEF Core, MountOK, SwapOK, ApplySteps, ExtendImage, Goto, At, TypeOK, Image, ApplySpec, VolumeSteps
  <1>3. SwapOK'
    BY NilOK DEF Core, SwapOK, ApplySteps, ExtendImage, Goto, At, VolumeSteps, DeploySteps
  <1>4. SizeOK'
    BY NilOK DEF Core, SizeOK, ExtendImage, Goto, At
  <1> QED  BY <1>1, <1>2, <1>3, <1>4 DEF Core

LEMMA GrowFileSystemCore == ASSUME Core, GrowFileSystem PROVE Core'
  <1>1. TypeOK'
    BY NilOK, SpendOK DEF Core, MountOK, GrowFileSystem, Goto, At, TypeOK, Image, Steps, VolumeSteps
  <1>2. MountOK'
    BY NilOK DEF Core, MountOK, SwapOK, SizeOK, ApplySteps, GrowFileSystem, Goto, At, TypeOK, Image,
       ApplySpec, VolumeSteps
  <1>3. SwapOK'
    BY NilOK DEF Core, SwapOK, ApplySteps, GrowFileSystem, Goto, At, VolumeSteps, DeploySteps
  <1>4. SizeOK'
    BY NilOK DEF Core, SizeOK, GrowFileSystem, Goto, At
  <1> QED  BY <1>1, <1>2, <1>3, <1>4 DEF Core

LEMMA LayoutCore == ASSUME Core, Layout PROVE Core'
  <1>1. TypeOK'
    BY ZenonT(60), NilOK, SpendOK DEF Core, Layout, Empty, Goto, At, observers, TypeOK, Tree, Steps, DeploySteps
  <1>2. MountOK'
    BY NilOK DEF Core, MountOK, Layout, Empty, Goto, At
  <1>3. SwapOK'
    BY NilOK DEF Core, SwapOK, ApplySteps, Layout, Empty, Goto, At, TypeOK, ApplySpec, VolumeSteps, DeploySteps
  <1>4. SizeOK'
    BY NilOK DEF Core, SizeOK, Layout, Empty, Goto, At, observers
  <1> QED  BY <1>1, <1>2, <1>3, <1>4 DEF Core

LEMMA ClearNextCore == ASSUME Core, ClearNext PROVE Core'
  <1>1. TypeOK'
    BY ZenonT(60), NilOK, SpendOK DEF Core, SwapOK, ClearNext, Goto, At, observers, TypeOK, Tree, Steps, DeploySteps
  <1>2. MountOK'
    BY NilOK DEF Core, MountOK, ClearNext, Goto, At, DeploySteps
  <1>3. SwapOK'
    BY NilOK DEF Core, SwapOK, ApplySteps, ClearNext, Goto, At, TypeOK, Slot, DeploySteps
  <1>4. SizeOK'
    BY NilOK DEF Core, SizeOK, ClearNext, Goto, At, observers, DeploySteps
  <1> QED  BY <1>1, <1>2, <1>3, <1>4 DEF Core

LEMMA FetchCore == ASSUME Core, NEW v \in Served, Fetch(v) PROVE Core'
  <1>1. TypeOK'
    <2>1. UNCHANGED <<image, mounted, record, box, spec, st, outcome, torn, stale, halfGrown, used>>
      BY DEF Fetch, GiveUp, At, Goto, observers
    <2>2. pc' \in {"install", "converge"}
      BY DEF Fetch, GiveUp, Goto
    <2>3. tree' \in [Slot -> Tree \cup {Nil}]
      <3>1. tree \in [Slot -> Tree \cup {Nil}] /\ "next" \in Slot /\ tree["next"] \in Tree
        BY DEF Fetch, At, Core, TypeOK, SwapOK, ApplySteps, DeploySteps, Tree, Slot
      <3>2. CASE \E c \in {"fetched", "part"} : tree' = [tree EXCEPT !["next"] = [tree["next"] EXCEPT !.code = c]]
        BY <3>1, <3>2 DEF Tree
      <3>3. CASE \E left \in {Nil, tree["next"]} : tree' = [tree EXCEPT !["next"] = left]
        BY <3>1, <3>3
      <3> QED  BY <3>2, <3>3 DEF Fetch, GiveUp
    <2> QED  BY <2>1, <2>2, <2>3 DEF Core, TypeOK, Steps, DeploySteps
  <1>2. MountOK'
    BY NilOK DEF Core, MountOK, Fetch, GiveUp, Accepted, Served, Goto, At, DeploySteps
  <1>3. SwapOK'
    BY NilOK DEF Core, SwapOK, ApplySteps, Fetch, GiveUp, Accepted, Served, Goto, At, TypeOK, Slot, DeploySteps
  <1>4. SizeOK'
    BY NilOK DEF Core, SizeOK, Fetch, GiveUp, Accepted, Served, Goto, At, observers, DeploySteps
  <1> QED  BY <1>1, <1>2, <1>3, <1>4 DEF Core

LEMMA InstallCore == ASSUME Core, Install PROVE Core'
  <1>1. TypeOK'
    BY NilOK, SpendOK DEF Core, SwapOK, Install, Goto, At, observers, TypeOK, Tree, Slot, Steps, DeploySteps
  <1>2. MountOK'
    BY NilOK DEF Core, MountOK, Install, Goto, At, DeploySteps
  <1>3. SwapOK'
    BY NilOK DEF Core, SwapOK, ApplySteps, Install, Goto, At, TypeOK, Slot, DeploySteps
  <1>4. SizeOK'
    BY NilOK DEF Core, SizeOK, Install, Goto, At, observers, DeploySteps
  <1> QED  BY <1>1, <1>2, <1>3, <1>4 DEF Core

LEMMA TrimPreviousCore == ASSUME Core, TrimPrevious PROVE Core'
  <1>1. TypeOK'
    BY ZenonT(60), NilOK, SpendOK DEF Core, SwapOK, ApplySteps, TrimPrevious, Moved, Goto, At, observers, TypeOK, Box,
       Steps, DeploySteps
  <1>2. MountOK'
    BY NilOK DEF Core, MountOK, TrimPrevious, Moved, Goto, At, DeploySteps
  <1>3. SwapOK'
    BY NilOK DEF Core, SwapOK, ApplySteps, TrimPrevious, Moved, Goto, At, DeploySteps
  <1>4. SizeOK'
    BY NilOK DEF Core, SizeOK, TrimPrevious, Moved, Goto, At, observers, DeploySteps
  <1> QED  BY <1>1, <1>2, <1>3, <1>4 DEF Core

LEMMA MoveAsideCore == ASSUME Core, MoveAside PROVE Core'
  <1>1. TypeOK'
    BY NilOK, SpendOK DEF Core, MoveAside, Moved, Goto, At, observers, TypeOK, Box, Slot, Steps, DeploySteps
  <1>2. MountOK'
    BY NilOK DEF Core, MountOK, MoveAside, Moved, Goto, At, DeploySteps
  <1>3. SwapOK'
    BY NilOK DEF Core, SwapOK, ApplySteps, MoveAside, Moved, Goto, At, TypeOK, Slot, DeploySteps
  <1>4. SizeOK'
    BY NilOK DEF Core, SizeOK, MoveAside, Moved, Goto, At, observers, DeploySteps
  <1> QED  BY <1>1, <1>2, <1>3, <1>4 DEF Core

LEMMA MoveInCore == ASSUME Core, MoveIn PROVE Core'
  <1>1. TypeOK'
    BY NilOK, SpendOK DEF Core, MoveIn, Goto, At, observers, TypeOK, Slot, Steps, DeploySteps
  <1>2. MountOK'
    BY NilOK DEF Core, MountOK, MoveIn, Goto, At, DeploySteps
  <1>3. SwapOK'
    BY NilOK DEF Core, SwapOK, ApplySteps, MoveIn, Goto, At, TypeOK, Slot, DeploySteps
  <1>4. SizeOK'
    BY NilOK DEF Core, SizeOK, MoveIn, Goto, At, observers, DeploySteps
  <1> QED  BY <1>1, <1>2, <1>3, <1>4 DEF Core

LEMMA RestoreCore == ASSUME Core, Restore PROVE Core'
  <1>1. TypeOK'
    BY NilOK, SpendOK DEF Core, Restore, Moved, Restored, Goto, At, observers, TypeOK, Box, Slot, Steps
  <1>2. MountOK'
    BY NilOK DEF Core, MountOK, Restore, Moved, Restored, Goto, At, DeploySteps
  <1>3. SwapOK'
    BY NilOK DEF Core, SwapOK, ApplySteps, Restore, Moved, Restored, Goto, At, DeploySteps
  <1>4. SizeOK'
    BY NilOK DEF Core, SizeOK, Restore, Moved, Restored, Goto, At, observers, DeploySteps
  <1> QED  BY <1>1, <1>2, <1>3, <1>4 DEF Core

LEMMA RecordDeployCore == ASSUME Core, RecordDeploy PROVE Core'
  <1>1. TypeOK'
    BY NilOK, SpendOK DEF Core, SwapOK, RecordDeploy, Goto, At, TypeOK, Steps, DeploySteps
  <1>2. MountOK'
    BY NilOK DEF Core, MountOK, RecordDeploy, Goto, At, DeploySteps
  <1>3. SwapOK'
    BY NilOK DEF Core, SwapOK, ApplySteps, RecordDeploy, Goto, At, DeploySteps
  <1>4. SizeOK'
    BY NilOK DEF Core, SizeOK, RecordDeploy, Goto, At, DeploySteps
  <1> QED  BY <1>1, <1>2, <1>3, <1>4 DEF Core

LEMMA DestroyBoxCore == ASSUME Core, DestroyBox PROVE Core'
  <1>1. TypeOK'
    BY NilOK, SpendOK DEF Core, DestroyBox, Outdated, Goto, At, volume, TypeOK
  <1>2. MountOK'
    BY NilOK DEF Core, MountOK, DestroyBox, Outdated, Goto, At, volume
  <1>3. SwapOK'
    BY NilOK DEF Core, SwapOK, DestroyBox, Outdated, Goto, At, DeploySteps
  <1>4. SizeOK'
    BY NilOK DEF Core, SizeOK, DestroyBox, Outdated, Goto, At, volume
  <1> QED  BY <1>1, <1>2, <1>3, <1>4 DEF Core

LEMMA ConvergeCore == ASSUME Core, Converge PROVE Core'
  <1>1. TypeOK'
    <2>1. UNCHANGED <<image, mounted, record, spec, st, torn, halfGrown, used>> /\ pc' = "idle"
      BY DEF Converge, At, Return
    <2>2. outcome' \in {"ok", "failed"}
      BY DEF Converge, Return
    <2>3. stale' \in BOOLEAN
      BY DEF Converge, Core, TypeOK
    <2>4. box' \in Box \cup {Nil}
      <3>1. box' = box \/ (record # Nil /\ box' = Started(record))
        BY DEF Converge, NothingToRun
      <3>2. record # Nil => Started(record) \in Box
        BY DEF Started, Core, TypeOK, Box
      <3> QED  BY <3>1, <3>2 DEF Core, TypeOK
    <2>5. tree' \in [Slot -> Tree \cup {Nil}]
      BY DEF Converge, TreeAtStart, Empty, Core, TypeOK, Slot, Tree
    <2> QED  BY <2>1, <2>2, <2>3, <2>4, <2>5 DEF Core, TypeOK
  <1>2. MountOK'
    BY NilOK DEF Core, MountOK, Converge, Outdated, NothingToRun, Started, TreeAtStart, Empty, Return, At
  <1>3. SwapOK'
    BY NilOK DEF Core, SwapOK, ApplySteps, Converge, Outdated, NothingToRun, Started, TreeAtStart, Empty,
       Return, At, DeploySteps
  <1>4. SizeOK'
    BY NilOK DEF Core, MountOK, SwapOK, SizeOK, ApplySteps, Converge, Outdated, NothingToRun, Started,
       TreeAtStart, Empty, Return, At, TypeOK, ApplySpec
  <1> QED  BY <1>1, <1>2, <1>3, <1>4 DEF Core

LEMMA BoxExitsCore == ASSUME Core, BoxExits PROVE Core'
  <1>1. TypeOK'
    <2>1. UNCHANGED <<image, mounted, tree, record, pc, spec, st, outcome, torn, stale, halfGrown, used>>
      BY DEF BoxExits, volume, call, observers
    <2>2. box' \in Box
      BY DEF BoxExits, Core, TypeOK, Box
    <2> QED  BY <2>1, <2>2 DEF Core, TypeOK
  <1>2. MountOK'
    BY NilOK DEF Core, MountOK, BoxExits, volume, call
  <1>3. SwapOK'
    BY NilOK DEF Core, SwapOK, BoxExits, volume, call
  <1>4. SizeOK'
    BY NilOK DEF Core, SizeOK, BoxExits, volume, call, observers
  <1> QED  BY <1>1, <1>2, <1>3, <1>4 DEF Core

LEMMA RestartBoxCore == ASSUME Core, RestartBox PROVE Core'
  <1>1. TypeOK'
    BY NilOK, SpendOK DEF Core, RestartBox, Started, TreeAtStart, Empty, call, TypeOK, Tree, Box
  <1>2. MountOK'
    BY NilOK DEF Core, MountOK, RestartBox, Started, TreeAtStart, Empty, call
  <1>3. SwapOK'
    BY NilOK DEF Core, SwapOK, RestartBox, Started, TreeAtStart, Empty, call
  <1>4. SizeOK'
    BY NilOK DEF Core, SizeOK, RestartBox, Started, TreeAtStart, Empty, call
  <1> QED  BY <1>1, <1>2, <1>3, <1>4 DEF Core

LEMMA RemoveCore == ASSUME Core, Remove PROVE Core'
  <1>1. TypeOK'
    BY NilOK, SpendOK DEF Core, Remove, volume, observers, TypeOK, Steps, RemoveSteps
  <1>2. MountOK'
    BY NilOK DEF Core, MountOK, Remove, volume, DeploySteps
  <1>3. SwapOK'
    BY NilOK DEF SwapOK, ApplySteps, Remove, VolumeSteps, DeploySteps
  <1>4. SizeOK'
    BY NilOK DEF Core, SizeOK, Remove, volume, observers, DeploySteps
  <1> QED  BY <1>1, <1>2, <1>3, <1>4 DEF Core

LEMMA RemoveBoxCore == ASSUME Core, RemoveBox PROVE Core'
  <1>1. TypeOK'
    BY NilOK, SpendOK DEF Core, RemoveBox, Goto, At, volume, TypeOK, Steps, RemoveSteps
  <1>2. MountOK'
    BY NilOK DEF Core, MountOK, RemoveBox, Goto, volume, DeploySteps
  <1>3. SwapOK'
    BY NilOK DEF SwapOK, ApplySteps, RemoveBox, Goto, VolumeSteps, DeploySteps
  <1>4. SizeOK'
    BY NilOK DEF Core, SizeOK, RemoveBox, Goto, At, volume, DeploySteps
  <1> QED  BY <1>1, <1>2, <1>3, <1>4 DEF Core

LEMMA UnmountCore == ASSUME Core, Unmount PROVE Core'
  <1>1. TypeOK'
    <2>1. UNCHANGED <<image, tree, record, box, spec, st, outcome, torn, stale, halfGrown, used>>
      BY DEF Unmount, At, Goto, observers
    <2>2. mounted' = FALSE /\ pc' \in Steps
      BY DEF Unmount, Goto, Steps, RemoveSteps
    <2> QED  BY ZenonT(60), <2>1, <2>2 DEF Core, TypeOK
  <1>2. MountOK'
    BY NilOK DEF MountOK, Unmount, Goto, DeploySteps
  <1>3. SwapOK'
    BY NilOK DEF SwapOK, ApplySteps, Unmount, Goto, VolumeSteps, DeploySteps
  <1>4. SizeOK'
    BY NilOK DEF Core, SizeOK, Unmount, Goto, At, observers, DeploySteps
  <1> QED  BY <1>1, <1>2, <1>3, <1>4 DEF Core

LEMMA UnlinkCore == ASSUME Core, Unlink PROVE Core'
  <1>1. TypeOK'
    BY NilOK, SpendOK DEF Core, Unlink, NoTrees, Return, At, TypeOK
  <1>2. MountOK'
    BY NilOK DEF Core, MountOK, Unlink, NoTrees, Return, At, DeploySteps
  <1>3. SwapOK'
    BY NilOK DEF SwapOK, ApplySteps, Unlink, NoTrees, Return, VolumeSteps, DeploySteps
  <1>4. SizeOK'
    BY NilOK DEF SizeOK, Unlink, NoTrees, Return, DeploySteps
  <1> QED  BY <1>1, <1>2, <1>3, <1>4 DEF Core

LEMMA CreateFailsCore == ASSUME Core, CreateFails PROVE Core'
  <1>1. TypeOK'
    BY NilOK, SpendOK DEF Core, CreateFails, Goto, Return, Fault, observers, TypeOK, Counts
  <1>2. MountOK'
    BY NilOK DEF Core, MountOK, CreateFails, Return, DeploySteps
  <1>3. SwapOK'
    BY NilOK DEF SwapOK, ApplySteps, CreateFails, Return, VolumeSteps, DeploySteps
  <1>4. SizeOK'
    BY NilOK DEF SizeOK, CreateFails, Return, DeploySteps
  <1> QED  BY <1>1, <1>2, <1>3, <1>4 DEF Core

LEMMA VolumeFailsCore == ASSUME Core, VolumeFails PROVE Core'
  <1>1. TypeOK'
    BY NilOK, SpendOK DEF Core, VolumeFails, Goto, Return, Fault, volume, TypeOK, Counts
  <1>2. MountOK'
    BY NilOK DEF Core, MountOK, VolumeFails, Return, volume, DeploySteps
  <1>3. SwapOK'
    BY NilOK DEF SwapOK, ApplySteps, VolumeFails, Return, VolumeSteps, DeploySteps
  <1>4. SizeOK'
    BY NilOK DEF Core, SizeOK, VolumeFails, Return, volume, DeploySteps
  <1> QED  BY <1>1, <1>2, <1>3, <1>4 DEF Core

LEMMA DeployFailsCore == ASSUME Core, DeployFails PROVE Core'
  <1>1. TypeOK'
    BY NilOK, SpendOK DEF Core, DeployFails, GiveUp, Goto, Return, Fault, observers, TypeOK, Slot, Steps, Counts
  <1>2. MountOK'
    BY NilOK DEF Core, MountOK, DeployFails, GiveUp, Goto, DeploySteps
  <1>3. SwapOK'
    BY NilOK DEF Core, SwapOK, ApplySteps, DeployFails, GiveUp, Goto, DeploySteps
  <1>4. SizeOK'
    BY NilOK DEF Core, SizeOK, DeployFails, GiveUp, Goto, observers, DeploySteps
  <1> QED  BY <1>1, <1>2, <1>3, <1>4 DEF Core

LEMMA MoveInFailsCore == ASSUME Core, MoveInFails PROVE Core'
  <1>1. TypeOK'
    BY NilOK, SpendOK DEF Core, MoveInFails, Goto, Return, Fault, volume, observers, TypeOK, Steps,
       DeploySteps, Counts
  <1>2. MountOK'
    BY NilOK DEF Core, MountOK, MoveInFails, Goto, volume, DeploySteps
  <1>3. SwapOK'
    BY NilOK DEF Core, SwapOK, ApplySteps, MoveInFails, Goto, volume, DeploySteps
  <1>4. SizeOK'
    BY NilOK DEF Core, SizeOK, MoveInFails, Goto, volume, observers, DeploySteps
  <1> QED  BY <1>1, <1>2, <1>3, <1>4 DEF Core

LEMMA SwapFailsCore == ASSUME Core, SwapFails PROVE Core'
  <1>1. TypeOK'
    BY NilOK, SpendOK DEF Core, SwapFails, Goto, Return, Fault, TypeOK, Slot, Steps, Counts
  <1>2. MountOK'
    BY NilOK DEF Core, MountOK, SwapFails, Goto, DeploySteps
  <1>3. SwapOK'
    BY NilOK DEF Core, SwapOK, ApplySteps, SwapFails, Goto, DeploySteps
  <1>4. SizeOK'
    BY NilOK DEF Core, SizeOK, SwapFails, Goto, DeploySteps
  <1> QED  BY <1>1, <1>2, <1>3, <1>4 DEF Core

LEMMA ConvergeFailsCore == ASSUME Core, ConvergeFails PROVE Core'
  <1>1. TypeOK'
    BY NilOK, SpendOK DEF Core, ConvergeFails, Goto, Return, Fault, volume, TypeOK, Counts
  <1>2. MountOK'
    BY NilOK DEF Core, MountOK, ConvergeFails, Return, volume
  <1>3. SwapOK'
    BY NilOK DEF Core, SwapOK, ApplySteps, ConvergeFails, Return, DeploySteps
  <1>4. SizeOK'
    BY NilOK DEF Core, SizeOK, ConvergeFails, Return, volume
  <1> QED  BY <1>1, <1>2, <1>3, <1>4 DEF Core

LEMMA RemoveFailsCore == ASSUME Core, RemoveFails PROVE Core'
  <1>1. TypeOK'
    BY NilOK, SpendOK DEF Core, RemoveFails, Goto, Return, Fault, volume, observers, TypeOK, Counts
  <1>2. MountOK'
    BY NilOK DEF Core, MountOK, RemoveFails, Return, volume, DeploySteps
  <1>3. SwapOK'
    BY NilOK DEF SwapOK, ApplySteps, RemoveFails, Return, VolumeSteps, DeploySteps
  <1>4. SizeOK'
    BY NilOK DEF Core, SizeOK, RemoveFails, Return, volume, observers, DeploySteps, RemoveSteps
  <1> QED  BY <1>1, <1>2, <1>3, <1>4 DEF Core

LEMMA CrashCore == ASSUME Core, NEW n \in BOOLEAN, Crash(n) PROVE Core'
  <1>1. TypeOK'
    BY NilOK, SpendOK DEF Core, Crash, Goto, Return, TypeOK, Box, Counts
  <1>2. MountOK'
    BY NilOK DEF Core, MountOK, Crash, DeploySteps
  <1>3. SwapOK'
    BY NilOK DEF SwapOK, ApplySteps, Crash, VolumeSteps, DeploySteps
  <1>4. SizeOK'
    BY NilOK DEF Core, SizeOK, Crash, DeploySteps
  <1> QED  BY <1>1, <1>2, <1>3, <1>4 DEF Core

LEMMA StartAgentCore == ASSUME Core, StartAgent PROVE Core'
  <1>1. TypeOK'
    <2>1. UNCHANGED <<image, tree, record, box, spec, st, outcome, torn, stale, halfGrown>> /\ pc' = "idle"
      BY DEF StartAgent, observers
    <2>2. mounted' \in BOOLEAN
      BY DEF StartAgent, Core, TypeOK
    <2>3. used' \in Counts
      BY SpendOK DEF StartAgent, Fault, Core, TypeOK, Counts
    <2> QED  BY <2>1, <2>2, <2>3 DEF Core, TypeOK, Counts
  <1>2. MountOK'
    BY NilOK DEF Core, MountOK, StartAgent, TypeOK, DeploySteps
  <1>3. SwapOK'
    BY NilOK DEF SwapOK, ApplySteps, StartAgent, VolumeSteps, DeploySteps
  <1>4. SizeOK'
    BY NilOK DEF Core, SizeOK, StartAgent, observers, DeploySteps
  <1> QED  BY <1>1, <1>2, <1>3, <1>4 DEF Core

LEMMA InitCore == Init => Core
  <1> SUFFICES ASSUME Init PROVE Core
    OBVIOUS
  <1>1. TypeOK
    <2>1. /\ image = Nil /\ mounted = FALSE /\ tree \in [Slot -> Tree \cup {Nil}] /\ record = Nil /\ box = Nil
          /\ pc = "idle" /\ spec = Nil /\ st = Nil /\ outcome = "none"
          /\ torn = FALSE /\ stale = FALSE /\ halfGrown = FALSE
      BY DEF Init, NoTrees
    <2>2. used \in Counts
      BY VolumeConstants DEF Init, Counts
    <2> QED  BY <2>1, <2>2 DEF TypeOK, Counts
  <1> QED  BY <1>1 DEF Init, Core, MountOK, SwapOK, SizeOK, ApplySteps, VolumeSteps, DeploySteps

LEMMA NextCore == ASSUME Core, [Next]_vars PROVE Core'
  <1>1. CASE UNCHANGED vars
    <2>1. UNCHANGED <<image, mounted, tree, record, box, pc, spec, st, outcome, torn, stale, halfGrown, used>>
      BY <1>1 DEF vars, volume, call, observers
    <2> QED  BY <2>1 DEF Core, TypeOK, MountOK, SwapOK, SizeOK
  <1>2. CASE Next
    BY <1>2, ApplyCore, CreateImageCore, TruncateImageCore, MakeFileSystemCore, MountCore, ExtendImageCore,
       GrowFileSystemCore, LayoutCore, ClearNextCore, FetchCore, InstallCore, TrimPreviousCore, MoveAsideCore,
       MoveInCore, RestoreCore, RecordDeployCore, DestroyBoxCore, ConvergeCore, BoxExitsCore, RestartBoxCore,
       RemoveCore, RemoveBoxCore, UnmountCore, UnlinkCore, CreateFailsCore, VolumeFailsCore, DeployFailsCore,
       MoveInFailsCore, SwapFailsCore, ConvergeFailsCore, RemoveFailsCore, CrashCore, StartAgentCore DEF Next
  <1> QED  BY <1>1, <1>2

LEMMA CoreHolds == Spec => []Core
  BY InitCore, NextCore, PTL DEF Spec

\* Every variable stays in its range; what is in a directory, in the record and in the
\* container is of a deploy that was asked for.
THEOREM TypeCorrect == Spec => []TypeOK
  <1>1. Core => TypeOK
    BY DEF Core
  <1> QED  BY <1>1, CoreHolds, PTL

\* After an Apply without error the file system has the size that was asked for, unless an
\* earlier growth stopped half-way: what ensureVolume found and did brings both there.
THEOREM VolumeHasItsSize == Spec => []HasItsSize
  <1>1. Core => HasItsSize
    BY DEF Core, SizeOK, HasItsSize
  <1> QED  BY <1>1, CoreHolds, PTL

-----------------------------------------------------------------------------
(* The version that counts, and its record.                                *)

Home == IF InSwap THEN "prev" ELSE "app"

Kept ==
  /\ UNCHANGED <<record, torn>>
  /\ tree'[Home'] = tree[Home] \/ (tree[Home] = Nil /\ tree'[Home'] = Empty)
Recorded ==
  /\ ~InSwap' /\ torn' = FALSE /\ record' \in Deploys
  /\ tree'["app"] = [of |-> record', code |-> "whole"]
CutShort ==
  /\ ~InSwap' /\ torn' = TRUE /\ record' = record
  /\ tree'["app"] = Nil \/ \E d \in Deploys : tree'["app"] = [of |-> d, code |-> "whole"]
Wiped == ~InSwap' /\ torn' = FALSE /\ record' = Nil /\ tree'["app"] = Nil

LEMMA TreeFacts ==
  ASSUME Core
  PROVE  /\ tree \in [Slot -> Tree \cup {Nil}] /\ torn \in BOOLEAN
         /\ "app" \in Slot /\ "prev" \in Slot /\ "next" \in Slot
  BY DEF Core, TypeOK, Slot

\* Steps outside of a swap leave app/ alone, or make it when it is not there.
LEMMA OutsideKeeps ==
  ASSUME UNCHANGED <<record, torn>>, ~InSwap, ~InSwap',
         tree'["app"] = tree["app"] \/ (tree["app"] = Nil /\ tree'["app"] = Empty)
  PROVE  Kept
  BY DEF Kept, Home

LEMMA VersionSteps == ASSUME Core, [Next]_vars PROVE Kept \/ Recorded \/ CutShort \/ Wiped
  <1>1. CASE UNCHANGED vars
    BY <1>1 DEF vars, volume, observers, call, Kept, Home, InSwap
  \* The volume's own steps, those of the container and of a removal.
  <1>2. CASE \/ \E d \in Deploys \cup {Nil}, s \in Sizes : Apply(d, s)
             \/ CreateImage \/ TruncateImage \/ MakeFileSystem \/ Mount \/ ExtendImage \/ GrowFileSystem
             \/ DestroyBox \/ Remove \/ RemoveBox \/ Unmount \/ CreateFails \/ VolumeFails \/ ConvergeFails
             \/ RemoveFails \/ StartAgent
    <2>1. UNCHANGED <<tree, record, torn>>
      BY <1>2 DEF Apply, CreateImage, TruncateImage, MakeFileSystem, Mount, ExtendImage, GrowFileSystem,
         DestroyBox,
         Remove, RemoveBox, Unmount, CreateFails, VolumeFails, ConvergeFails, RemoveFails, StartAgent,
         volume, observers
    <2>2. ~InSwap /\ ~InSwap'
      BY <1>2 DEF Apply, CreateImage, TruncateImage, MakeFileSystem, Mount, ExtendImage, GrowFileSystem,
         DestroyBox,
         Remove, RemoveBox, Unmount, CreateFails, VolumeFails, ConvergeFails, RemoveFails, StartAgent,
         Goto, Return, At,
         AfterMount, RemoveSteps, InSwap
    <2> QED  BY <2>1, <2>2, OutsideKeeps
  <1>3. CASE Layout \/ Converge \/ RestartBox
    <2>1. UNCHANGED <<record, torn>>
      BY <1>3 DEF Layout, Converge, RestartBox, observers
    <2>2. ~InSwap /\ ~InSwap'
      BY <1>3 DEF Layout, Converge, RestartBox, Goto, Return, At, InSwap, call
    <2>3. tree'["app"] = tree["app"] \/ (tree["app"] = Nil /\ tree'["app"] = Empty)
      BY <1>3, TreeFacts DEF Layout, Converge, RestartBox, TreeAtStart
    <2> QED  BY <2>1, <2>2, <2>3, OutsideKeeps
  <1>4. CASE BoxExits
    BY <1>4 DEF BoxExits, volume, call, observers, Kept, Home, InSwap
  <1>5. CASE ClearNext \/ (\E v \in Served : Fetch(v)) \/ Install \/ TrimPrevious \/ DeployFails
    <2>1. UNCHANGED <<record, torn>>
      BY <1>5 DEF ClearNext, Fetch, Install, TrimPrevious, DeployFails, GiveUp, observers
    <2>2. ~InSwap /\ ~InSwap'
      BY <1>5 DEF ClearNext, Fetch, Install, TrimPrevious, DeployFails, GiveUp, Goto, At, InSwap
    <2>3. tree'["app"] = tree["app"]
      BY <1>5, TreeFacts DEF ClearNext, Fetch, Install, TrimPrevious, DeployFails, GiveUp
    <2> QED  BY <2>1, <2>2, <2>3, OutsideKeeps
  \* The swap.
  <1>6. CASE MoveAside
    <2>1. ~InSwap /\ InSwap' /\ tree'["prev"] = tree["app"] /\ UNCHANGED <<record, torn>>
      BY <1>6, TreeFacts DEF MoveAside, At, Goto, InSwap, observers
    <2> QED  BY <2>1 DEF Kept, Home
  <1>7. CASE MoveIn \/ MoveInFails
    <2>1. InSwap /\ InSwap' /\ tree'["prev"] = tree["prev"] /\ UNCHANGED <<record, torn>>
      BY <1>7, TreeFacts DEF MoveIn, MoveInFails, At, Goto, InSwap, observers, volume
    <2> QED  BY <2>1 DEF Kept, Home
  <1>8. CASE Restore
    <2>1. InSwap /\ ~InSwap' /\ tree'["app"] = tree["prev"] /\ UNCHANGED <<record, torn>>
      BY <1>8, TreeFacts DEF Restore, Restored, At, Goto, InSwap, observers
    <2> QED  BY <2>1 DEF Kept, Home
  <1>9. CASE RecordDeploy
    BY <1>9 DEF RecordDeploy, At, Goto, InSwap, Recorded, Core, SwapOK, DeploySteps
  \* In a swap app/ is gone, or the new code is in it.
  <1>10. InSwap => tree["app"] = Nil \/ \E d \in Deploys : tree["app"] = [of |-> d, code |-> "whole"]
    BY DEF InSwap, Core, SwapOK, DeploySteps
  <1>11. CASE SwapFails
    <2>1. InSwap /\ ~InSwap' /\ tree'["app"] = tree["app"] /\ torn' = TRUE /\ record' = record
      BY <1>11, TreeFacts DEF SwapFails, Goto, InSwap
    <2> QED  BY <1>10, <2>1 DEF CutShort
  <1>12. CASE \E n \in BOOLEAN : Crash(n)
    <2>1. /\ ~InSwap' /\ UNCHANGED <<tree, record>>
          /\ InSwap => torn' = TRUE
          /\ ~InSwap => torn' = torn
      BY <1>12, TreeFacts DEF Crash, InSwap
    <2> QED  BY <1>10, <2>1, OutsideKeeps DEF CutShort
  <1>13. CASE Unlink
    BY <1>13, TreeFacts DEF Unlink, Return, InSwap, Wiped, NoTrees
  <1> QED  BY <1>1, <1>2, <1>3, <1>4, <1>5, <1>6, <1>7, <1>8, <1>9, <1>11, <1>12, <1>13 DEF Next

LEMMA NextRecord == ASSUME Core, RecordOK, [Next]_vars PROVE RecordOK'
  <1>1. RecordOK <=> (~torn => Named(Home))
    BY DEF RecordOK, Home
  <1>2. RecordOK' <=> (~torn' => Named(Home)')
    BY DEF RecordOK, Home
  <1>3. CASE Kept
    BY <1>1, <1>2, <1>3, NilOK DEF Kept, Named, Empty, Tree
  <1>4. CASE Recorded
    BY <1>2, <1>4, NilOK DEF Recorded, Named, Home, Tree
  <1>5. CASE CutShort
    BY <1>2, <1>5 DEF CutShort
  <1>6. CASE Wiped
    BY <1>2, <1>6 DEF Wiped, Named, Home
  <1> QED  BY <1>3, <1>4, <1>5, <1>6, VersionSteps

\* Outside of a swap the record names what is in app/, unless one was cut short: while the
\* old version is moved aside the record is its, and it changes only with the new one in place.
THEOREM RecordNamesApp == Spec => []RecordedIsInApp
  <1>1. Init => RecordOK
    BY DEF Init, NoTrees, Slot, RecordOK, Named, InSwap
  <1>2. RecordOK => RecordedIsInApp
    BY DEF RecordOK, RecordedIsInApp, Named
  <1> QED  BY <1>1, <1>2, NextRecord, CoreHolds, PTL DEF Spec

\* VolumeDeploy implements VersionStore: every step leaves version and record alone,
\* replaces both, is a swap cut short, or removes the bot.
THEOREM DeploysAreAtomic == Spec => ImplementsStore
  <1>1. Version = Content(Home)
    BY DEF Version, Home, InSwap
  <1>2. (Version)' = Content(Home)'
    BY DEF Version, Home, InSwap
  <1>3. Init => Store!Init
    BY <1>1 DEF Init, Store!Init, Content, Home, InSwap, NoTrees, Slot
  <1>4. ASSUME Core, [Next]_vars PROVE [Store!Next]_(Store!store)
    <2>1. CASE Kept
      <3>1. (Version)' = Version
        BY <1>1, <1>2, <2>1, NilOK DEF Kept, Content, Empty, Tree
      <3> QED  BY <2>1, <3>1 DEF Kept, Store!store
    <2>2. CASE Recorded
      <3>1. (Version)' = record'
        BY <1>2, <2>2, NilOK DEF Recorded, Content, Home, Tree
      <3>2. Store!Replace(record')
        BY <2>2, <3>1 DEF Recorded, Store!Replace
      <3> QED  BY <2>2, <3>2 DEF Recorded, Store!Next
    <2>3. CASE CutShort
      <3>1. CASE tree'["app"] = Nil
        <4>1. (Version)' = Nil
          BY <1>2, <2>3, <3>1 DEF CutShort, Content, Home
        <4> QED  BY <2>3, <4>1 DEF CutShort, Store!Lose, Store!Next
      <3>2. ASSUME NEW d \in Deploys, tree'["app"] = [of |-> d, code |-> "whole"]
            PROVE  Store!Unrecorded(d)
        <4>1. (Version)' = d
          BY <1>2, <2>3, <3>2, NilOK DEF CutShort, Content, Home, Tree
        <4> QED  BY <2>3, <4>1 DEF CutShort, Store!Unrecorded
      <3> QED  BY <2>3, <3>1, <3>2 DEF CutShort, Store!Next
    <2>4. CASE Wiped
      <3>1. (Version)' = Nil
        BY <1>2, <2>4 DEF Wiped, Content, Home
      <3> QED  BY <2>4, <3>1 DEF Wiped, Store!Wipe, Store!Next
    <2> QED  BY <1>4, <2>1, <2>2, <2>3, <2>4, VersionSteps
  <1> QED  BY <1>3, <1>4, CoreHolds, PTL DEF Spec, ImplementsStore, Store!Spec

-----------------------------------------------------------------------------
(* What the container runs.                                                *)

LEMMA InitBox == Init => BoxOK
  BY DEF Init, BoxOK

LEMMA NextBox == ASSUME Core, BoxOK, [Next]_vars PROVE BoxOK'
  <1>1. CASE UNCHANGED vars
    BY <1>1 DEF vars, volume, observers, call, BoxOK, InSwap
  <1>2. ASSUME NEW d \in Deploys \cup {Nil}, NEW s \in Sizes, Apply(d, s) PROVE BoxOK'
    BY <1>2 DEF Apply, volume, observers, BoxOK, InSwap
  <1>3. ASSUME NEW v \in Served, Fetch(v) PROVE BoxOK'
    BY <1>3 DEF Fetch, GiveUp, At, Goto, observers, BoxOK, InSwap
  <1>4. ASSUME NEW n \in BOOLEAN, Crash(n) PROVE BoxOK'
    BY <1>4, NilOK DEF Crash, OutOfStep, BoxOK, InSwap, Core, TypeOK, Box
  <1>5. CASE CreateImage
    BY <1>5, NilOK DEF CreateImage, Goto, At, observers, BoxOK, InSwap
  <1>6. CASE TruncateImage
    BY <1>6, NilOK DEF TruncateImage, Goto, At, observers, BoxOK, InSwap
  <1>7. CASE MakeFileSystem
    BY <1>7, NilOK DEF MakeFileSystem, Goto, At, observers, BoxOK, InSwap
  <1>8. CASE Mount
    BY <1>8, NilOK DEF Mount, AfterMount, Goto, Return, At, observers, BoxOK, InSwap
  <1>9. CASE ExtendImage
    BY <1>9, NilOK DEF ExtendImage, Goto, At, observers, BoxOK, InSwap
  <1>10. CASE GrowFileSystem
    BY <1>10, NilOK DEF GrowFileSystem, Goto, At, BoxOK, InSwap
  <1>11. CASE Layout
    BY <1>11, NilOK DEF Layout, Goto, At, observers, BoxOK, InSwap
  <1>12. CASE ClearNext
    BY <1>12, NilOK DEF ClearNext, Goto, At, observers, BoxOK, InSwap
  <1>13. CASE Install
    BY <1>13, NilOK DEF Install, Goto, At, observers, BoxOK, InSwap
  <1>14. CASE TrimPrevious
    BY <1>14, NilOK DEF TrimPrevious, Moved, Goto, At, observers, BoxOK, InSwap
  <1>15. CASE MoveAside
    BY <1>15, NilOK DEF MoveAside, Moved, Goto, At, observers, BoxOK, InSwap
  <1>16. CASE MoveIn
    BY <1>16, NilOK DEF MoveIn, Goto, At, observers, BoxOK, InSwap
  <1>17. CASE Restore
    BY <1>17, NilOK DEF Restore, Moved, Goto, observers, BoxOK, InSwap
  <1>18. CASE RecordDeploy
    BY <1>18, NilOK DEF RecordDeploy, Goto, At, BoxOK, Core, SwapOK, DeploySteps
  <1>19. CASE DestroyBox
    BY <1>19, NilOK DEF DestroyBox, Outdated, Goto, BoxOK
  <1>20. CASE Converge
    BY <1>20, NilOK DEF Converge, Outdated, NothingToRun, Started, Return, At, BoxOK, InSwap, Core, MountOK
  <1>21. CASE BoxExits
    BY <1>21, NilOK DEF BoxExits, volume, call, observers, BoxOK
  <1>22. CASE RestartBox
    BY <1>22, NilOK DEF RestartBox, Started, call, BoxOK, InSwap
  <1>23. CASE Remove
    BY <1>23, NilOK DEF Remove, volume, observers, BoxOK, InSwap
  <1>24. CASE RemoveBox
    BY <1>24, NilOK DEF RemoveBox, Goto, BoxOK
  <1>25. CASE Unmount
    BY <1>25, NilOK DEF Unmount, Goto, At, BoxOK
  <1>26. CASE Unlink
    BY <1>26, NilOK DEF Unlink, Return, At, BoxOK
  <1>27. CASE CreateFails
    BY <1>27, NilOK DEF CreateFails, Return, observers, BoxOK, InSwap
  <1>28. CASE VolumeFails
    BY <1>28, NilOK DEF VolumeFails, Return, volume, BoxOK, InSwap
  <1>29. CASE DeployFails
    BY <1>29, NilOK DEF DeployFails, GiveUp, Goto, observers, BoxOK, InSwap
  <1>30. CASE MoveInFails
    BY <1>30, NilOK DEF MoveInFails, Goto, volume, observers, BoxOK, InSwap
  <1>31. CASE SwapFails
    BY <1>31, NilOK DEF SwapFails, Goto, BoxOK
  <1>32. CASE ConvergeFails
    BY <1>32, NilOK DEF ConvergeFails, OutOfStep, Return, volume, BoxOK, InSwap
  <1>33. CASE RemoveFails
    BY <1>33, NilOK DEF RemoveFails, RemoveSteps, Return, volume, observers, BoxOK, InSwap
  <1>34. CASE StartAgent
    BY <1>34, NilOK DEF StartAgent, observers, BoxOK, InSwap
  <1> QED  BY <1>1, <1>2, <1>3, <1>4, <1>5, <1>6, <1>7, <1>8, <1>9, <1>10, <1>11, <1>12, <1>13, <1>14,
     <1>15, <1>16, <1>17, <1>18, <1>19, <1>20, <1>21, <1>22, <1>23, <1>24, <1>25, <1>26, <1>27, <1>28,
        <1>29, <1>30, <1>31, <1>32, <1>33, <1>34 DEF Next

\* After an Apply without error a container that runs has the recorded deploy in its
\* directory, unless a swap was cut short or the container had outlived one.
THEOREM RunsTheRecorded == Spec => []RunsWhatIsRecorded
  <1>1. ASSUME Core, RecordOK, BoxOK, pc = "idle", box # Nil, box.up, ~torn, ~stale
        PROVE  box.dir = "app" /\ box.label = record /\ tree["app"].of = record
    <2>1. ~InSwap /\ box.label = record /\ box.dir = "app"
      BY <1>1 DEF BoxOK, InSwap
    <2>2. record # Nil
      BY <1>1, <2>1, NilOK DEF Core, TypeOK, Box
    <2> QED  BY <1>1, <2>1, <2>2 DEF RecordOK, Named
  <1>2. Core /\ RecordOK /\ BoxOK => RunsWhatIsRecorded
    BY <1>1 DEF RunsWhatIsRecorded
  <1>3. Init => RecordOK
    BY DEF Init, NoTrees, Slot, RecordOK, Named, InSwap
  <1> QED  BY <1>2, <1>3, InitBox, NextRecord, NextBox, CoreHolds, PTL DEF Spec
===============================================================================
