----------------------------- MODULE VolumeDeploy -----------------------------
(***************************************************************************)
(* The volume of one bot and the deploys on it: Docker.Apply and Remove    *)
(* with every step they take on disk (internal/runtime/volume.go,          *)
(* deploy.go). BotWorker takes a whole deploy for one step; here it is     *)
(* made of system calls, each of which can fail, and the agent or the node *)
(* can die between any two.                                                *)
(*                                                                         *)
(* A running container has its directory by inode: it follows the renames  *)
(* of a swap, and goes away under the container when it is deleted. A      *)
(* container that is started looks the path up again.                      *)
(*                                                                         *)
(* A cancelled context ends a call the way a failing step does and is      *)
(* counted as one. Left out: stopped bots (BotWorker), the configuration   *)
(* of the container other than its deploy, owners and modes of the         *)
(* directories, data/, the install container and its output.               *)
(*                                                                         *)
(* An operator named Bug_X is X with a bug; no definition uses it.         *)
(***************************************************************************)
EXTENDS Naturals

CONSTANTS
  Deploys,      \* deploy IDs
  Sizes,        \* disk sizes a spec can ask for
  Nil,          \* no deploy, no directory, no container, no image
  MaxApplies,   \* bound: specs applied
  MaxFaults,    \* bound: failing or cancelled steps
  MaxCrashes    \* bound: crashes of the agent or the node

ASSUME VolumeConstants ==
  /\ Sizes \subseteq Nat \ {0}
  /\ Nil \notin Deploys
  /\ MaxApplies \in Nat /\ MaxFaults \in Nat /\ MaxCrashes \in Nat

VARIABLES
  image,      \* the image file: its size, and the size of the file system in it (0: none yet)
  mounted,
  tree,       \* app/, .mechon/prev and .mechon/next
  record,     \* .mechon/deploy
  box,        \* the bot's container: deploy in its label, its directory, running or not
  pc,         \* the step the worker's call to the runtime is at
  spec,       \* the call's spec
  st,         \* the call's first look at the image: its size
  outcome,    \* how the last Apply ended
  \* observers and bounds
  torn,       \* a swap was cut short and none has completed since
  stale,      \* the container has outlived the deploy it was made of
  halfGrown,  \* the image was extended and its file system was not
  used

volume == <<image, mounted, tree, record>>
call == <<pc, spec, st, outcome>>
observers == <<torn, stale, halfGrown>>
vars == <<volume, box, call, observers, used>>

Slot == {"app", "prev", "next"}
Tree == [of : Deploys \cup {Nil}, code : {"part", "fetched", "whole"}]
Empty == [of |-> Nil, code |-> "whole"]
Image == [size : Sizes \cup {0}, fs : Sizes \cup {0}]
Box == [label : Deploys, dir : {"app", "prev", "lost"}, up : BOOLEAN]
ApplySpec == [deploy : Deploys \cup {Nil}, size : Sizes]
ASSUME NilAssumption ==
  Nil \notin Tree \cup Image \cup Box \cup ApplySpec \cup Sizes \cup {0}
NoTrees == [s \in Slot |-> Nil]

VolumeSteps == {"create", "truncate", "mkfs", "mount", "extend", "resize", "layout"}
DeploySteps == {"clear", "fetch", "install", "trim", "aside", "swap", "restore", "record"}
RemoveSteps == {"unbox", "unmount", "unlink"}
Steps == VolumeSteps \cup DeploySteps \cup RemoveSteps \cup {"converge"}

TypeOK ==
  /\ image \in Image \cup {Nil} /\ mounted \in BOOLEAN
  /\ tree \in [Slot -> Tree \cup {Nil}]
  /\ record \in Deploys \cup {Nil}
  /\ box \in Box \cup {Nil}
  /\ pc \in Steps \cup {"idle", "down"}
  /\ spec \in ApplySpec \cup {Nil}
  /\ st \in Sizes \cup {0, Nil}
  /\ outcome \in {"ok", "failed", "none"}
  /\ torn \in BOOLEAN /\ stale \in BOOLEAN /\ halfGrown \in BOOLEAN
  /\ used \in [applies : 0 .. MaxApplies, faults : 0 .. MaxFaults, crashes : 0 .. MaxCrashes]

Init ==
  /\ image = Nil /\ mounted = FALSE /\ tree = NoTrees /\ record = Nil /\ box = Nil
  /\ pc = "idle" /\ spec = Nil /\ st = Nil /\ outcome = "none"
  /\ torn = FALSE /\ stale = FALSE /\ halfGrown = FALSE
  /\ used = [applies |-> 0, faults |-> 0, crashes |-> 0]

Spend(what, bound) == used[what] < bound /\ used' = [used EXCEPT ![what] = @ + 1]
Fault == Spend("faults", MaxFaults)

Goto(step) == pc' = step /\ UNCHANGED <<spec, st, outcome>>
Return(result) == pc' = "idle" /\ outcome' = result /\ UNCHANGED <<spec, st>>
At(step) == pc = step /\ UNCHANGED used

\* A rename takes a running container along; a deleted directory is lost to it.
Moved(from, to) == IF box # Nil /\ box.up /\ box.dir = from THEN [box EXCEPT !.dir = to] ELSE box

-----------------------------------------------------------------------------
(* ensureVolume.                                                           *)

Apply(d, s) ==
  /\ pc = "idle" /\ Spend("applies", MaxApplies)
  /\ spec' = [deploy |-> d, size |-> s]
  /\ st' = IF image = Nil THEN Nil ELSE image.size
  /\ pc' = IF image = Nil THEN "create" ELSE "mount"
  /\ outcome' = "none"
  /\ UNCHANGED <<volume, box, observers>>

CreateImage ==
  /\ At("create") /\ Goto("truncate")
  /\ image' = [size |-> 0, fs |-> 0]
  /\ UNCHANGED <<mounted, tree, record, box, observers>>

TruncateImage ==
  /\ At("truncate") /\ Goto("mkfs")
  /\ image' = [image EXCEPT !.size = spec.size]
  /\ UNCHANGED <<mounted, tree, record, box, observers>>

MakeFileSystem ==
  /\ At("mkfs") /\ Goto("mount")
  /\ image' = [image EXCEPT !.fs = image.size]
  /\ UNCHANGED <<mounted, tree, record, box, observers>>

\* After mounting: grow an image that was there and is too small.
Bug_AfterMount == "layout"      \* never grows
AfterMount == IF st # Nil /\ st < spec.size THEN "extend" ELSE "layout"

\* A file without a file system cannot be mounted, however often it is tried.
Mount ==
  /\ At("mount")
  /\ IF mounted \/ image.fs > 0
     THEN mounted' = TRUE /\ Goto(AfterMount)
     ELSE UNCHANGED mounted /\ Return("failed")
  /\ UNCHANGED <<image, tree, record, box, observers>>

ExtendImage ==
  /\ At("extend") /\ Goto("resize")
  /\ image' = [image EXCEPT !.size = spec.size]
  /\ UNCHANGED <<mounted, tree, record, box, observers>>

\* losetup -c and resize2fs.
GrowFileSystem ==
  /\ At("resize") /\ Goto("layout")
  /\ image' = [image EXCEPT !.fs = image.size]
  /\ halfGrown' = FALSE
  /\ UNCHANGED <<mounted, tree, record, box, torn, stale>>

\* A spec of another deploy than the recorded one is deployed.
Layout ==
  /\ At("layout")
  /\ Goto(IF spec.deploy # Nil /\ spec.deploy # record THEN "clear" ELSE "converge")
  /\ tree' = IF tree["app"] = Nil THEN [tree EXCEPT !["app"] = Empty] ELSE tree
  /\ UNCHANGED <<image, mounted, record, box, observers>>

-----------------------------------------------------------------------------
(* deploy.                                                                 *)

ClearNext ==
  /\ At("clear") /\ Goto("fetch")
  /\ tree' = [tree EXCEPT !["next"] = [of |-> spec.deploy, code |-> "part"]]
  /\ UNCHANGED <<image, mounted, record, box, observers>>

\* What the panel may serve, and what fetchAndExtract lets through.
Served == {"artifact", "otherBytes", "tooLarge", "notOK"}
Bug_Accepted == Served \ {"notOK"}      \* no check of digest and size
Accepted == {"artifact"}

\* A deploy that failed; its deferred removal of next/ may fail as well.
GiveUp ==
  /\ Goto("converge")
  /\ \E left \in {Nil, tree["next"]} : tree' = [tree EXCEPT !["next"] = left]
  /\ UNCHANGED <<image, mounted, record, box, observers>>

Fetch(served) ==
  /\ At("fetch")
  /\ \/ /\ served \in Accepted
        /\ Goto("install")
        /\ tree' = [tree EXCEPT !["next"].code = IF served = "artifact" THEN "fetched" ELSE "part"]
        /\ UNCHANGED <<image, mounted, record, box, observers>>
     \/ served \notin Accepted /\ GiveUp

\* ensureImage and the install script, which runs over next/.
Install ==
  /\ At("install") /\ Goto("trim")
  /\ tree' = [tree EXCEPT !["next"].code = IF @ = "fetched" THEN "whole" ELSE @]
  /\ UNCHANGED <<image, mounted, record, box, observers>>

TrimPrevious ==
  /\ At("trim") /\ Goto("aside")
  /\ tree' = [tree EXCEPT !["prev"] = Nil]
  /\ box' = Moved("prev", "lost")
  /\ UNCHANGED <<image, mounted, record, observers>>

MoveAside ==
  /\ At("aside") /\ Goto("swap")
  /\ tree' = [tree EXCEPT !["prev"] = tree["app"], !["app"] = Nil]
  /\ box' = Moved("app", "prev")
  /\ UNCHANGED <<image, mounted, record, observers>>

MoveIn ==
  /\ At("swap") /\ Goto("record")
  /\ tree' = [tree EXCEPT !["app"] = tree["next"], !["next"] = Nil]
  /\ UNCHANGED <<image, mounted, record, box, observers>>

\* next/ could not be moved in: the old version goes back.
Bug_Restored == tree
Restored == [tree EXCEPT !["app"] = tree["prev"], !["prev"] = Nil]
Restore ==
  /\ At("restore") /\ Goto("converge")
  /\ \E left \in {Nil, tree["next"]} : tree' = [Restored EXCEPT !["next"] = left]
  /\ box' = Moved("prev", "app")
  /\ UNCHANGED <<image, mounted, record, observers>>

RecordDeploy ==
  /\ At("record") /\ Goto("converge")
  /\ record' = spec.deploy
  /\ torn' = FALSE
  /\ UNCHANGED <<image, mounted, tree, box, stale, halfGrown>>

-----------------------------------------------------------------------------
(* converge, in short, and what happens to the container.                  *)

\* Only a container made of the recorded deploy stays.
Bug_Outdated == box # Nil /\ record = Nil
Outdated == box # Nil /\ (record = Nil \/ box.label # record)

\* A container that is left alone now has outlived the deploy it was made of.
OutOfStep == box # Nil /\ (box.label # record \/ (box.up /\ box.dir # "app"))

DestroyBox ==
  /\ At("converge") /\ Outdated /\ Goto("converge")
  /\ box' = Nil /\ stale' = FALSE
  /\ UNCHANGED <<volume, torn, halfGrown>>

\* dockerd makes a bind's directory that is not there; without the mount it is none of the volume's.
Started(label) == [label |-> label, dir |-> IF mounted THEN "app" ELSE "lost", up |-> TRUE]
TreeAtStart ==
  tree' = IF mounted /\ tree["app"] = Nil THEN [tree EXCEPT !["app"] = Empty] ELSE tree

\* Without a deploy there is nothing to run.
NothingToRun == record = Nil

\* Apply's error joins those of the deploy, of converge and of a volume that is too large.
Converge ==
  /\ At("converge") /\ ~Outdated
  /\ IF NothingToRun \/ (box # Nil /\ box.up)
     THEN UNCHANGED <<tree, box, stale>>
     ELSE box' = Started(record) /\ TreeAtStart /\ stale' = FALSE
  /\ Return(IF spec.deploy \in {Nil, record} /\ (st = Nil \/ st <= spec.size)
            THEN "ok" ELSE "failed")
  /\ UNCHANGED <<image, mounted, record, torn, halfGrown>>

BoxExits ==
  /\ box # Nil /\ box.up
  /\ box' = [box EXCEPT !.up = FALSE]
  /\ UNCHANGED <<volume, call, observers, used>>

\* Docker.Restart, by hand or after a crash.
RestartBox ==
  /\ pc = "idle" /\ box # Nil
  /\ box' = Started(box.label) /\ TreeAtStart
  /\ stale' = (~mounted \/ stale)
  /\ UNCHANGED <<image, mounted, record, call, torn, halfGrown, used>>

-----------------------------------------------------------------------------
(* Remove.                                                                 *)

Remove ==
  /\ pc = "idle" /\ pc' = "unbox" /\ outcome' = "none"
  /\ UNCHANGED <<volume, box, spec, st, observers, used>>

RemoveBox ==
  /\ At("unbox") /\ Goto("unmount")
  /\ box' = Nil /\ stale' = FALSE
  /\ UNCHANGED <<volume, torn, halfGrown>>

Unmount ==
  /\ At("unmount") /\ Goto("unlink")
  /\ mounted' = FALSE
  /\ UNCHANGED <<image, tree, record, box, observers>>

Unlink ==
  /\ At("unlink") /\ Return("none")
  /\ image' = Nil /\ tree' = NoTrees /\ record' = Nil
  /\ torn' = FALSE /\ halfGrown' = FALSE
  /\ UNCHANGED <<mounted, box, stale>>

-----------------------------------------------------------------------------
(* What goes wrong.                                                        *)

\* Creating the image fails: the half-made file is removed.
CreateFails ==
  /\ pc \in {"create", "truncate", "mkfs"} /\ Fault /\ Return("failed")
  /\ image' = Nil
  /\ UNCHANGED <<mounted, tree, record, box, observers>>

VolumeFails ==
  /\ pc \in {"mount", "extend", "resize", "layout"} /\ Fault /\ Return("failed")
  /\ halfGrown' = (pc = "resize" \/ halfGrown)
  /\ UNCHANGED <<volume, box, torn, stale>>

DeployFails == pc \in {"clear", "fetch", "install", "trim", "aside"} /\ Fault /\ GiveUp

MoveInFails ==
  /\ pc = "swap" /\ Fault /\ Goto("restore")
  /\ UNCHANGED <<volume, box, observers>>

\* The error of putting the old version back is ignored; that of the record is the deploy's.
SwapFails ==
  /\ pc \in {"restore", "record"} /\ Fault /\ Goto("converge")
  /\ torn' = TRUE
  /\ \E left \in {Nil, tree["next"]} : tree' = [tree EXCEPT !["next"] = left]
  /\ UNCHANGED <<image, mounted, record, box, stale, halfGrown>>

ConvergeFails ==
  /\ pc = "converge" /\ Fault /\ Return("failed")
  /\ stale' = (stale \/ OutOfStep)
  /\ UNCHANGED <<volume, box, torn, halfGrown>>

RemoveFails ==
  /\ pc \in RemoveSteps /\ Fault /\ Return("none")
  /\ UNCHANGED <<volume, box, observers>>

\* The agent dies; when the node does, mounts and containers go with it.
Crash(node) ==
  /\ pc # "down" /\ Spend("crashes", MaxCrashes)
  /\ pc' = "down" /\ outcome' = "none"
  /\ torn' = (torn \/ pc \in {"swap", "restore", "record"})
  /\ halfGrown' = (halfGrown \/ pc = "resize")
  /\ stale' = (stale \/ OutOfStep)
  /\ mounted' = (mounted /\ ~node)
  /\ box' = IF node /\ box # Nil THEN [box EXCEPT !.up = FALSE] ELSE box
  /\ UNCHANGED <<image, tree, record, spec, st>>

\* NewDocker: remountAll, whose errors are logged.
StartAgent ==
  /\ pc = "down" /\ pc' = "idle"
  /\ \/ mounted' = (mounted \/ (image # Nil /\ image.fs > 0)) /\ UNCHANGED used
     \/ Fault /\ UNCHANGED mounted
  /\ UNCHANGED <<image, tree, record, box, spec, st, outcome, observers>>

Next ==
  \/ \E d \in Deploys \cup {Nil}, s \in Sizes : Apply(d, s)
  \/ CreateImage \/ TruncateImage \/ MakeFileSystem
  \/ Mount \/ ExtendImage \/ GrowFileSystem \/ Layout
  \/ ClearNext \/ (\E served \in Served : Fetch(served)) \/ Install
  \/ TrimPrevious \/ MoveAside \/ MoveIn \/ Restore \/ RecordDeploy
  \/ DestroyBox \/ Converge \/ BoxExits \/ RestartBox
  \/ Remove \/ RemoveBox \/ Unmount \/ Unlink
  \/ CreateFails \/ VolumeFails \/ DeployFails \/ MoveInFails \/ SwapFails
  \/ ConvergeFails \/ RemoveFails
  \/ (\E node \in BOOLEAN : Crash(node)) \/ StartAgent

Spec == Init /\ [][Next]_vars

-----------------------------------------------------------------------------
(* Properties.                                                             *)

\* volume.go:21 ".mechon/deploy: id of the deploy in app/". Outside of a swap the record names what
\* is in app/, unless one was cut short and none has completed since.
InSwap == pc \in {"swap", "restore", "record"}
RecordedIsInApp ==
  (~InSwap /\ ~torn) =>
    IF tree["app"] = Nil THEN record = Nil ELSE tree["app"].of = record

\* docker.go:177. After an Apply without error a container that runs has the recorded deploy, unless
\* a swap was cut short or the container had outlived one.
RunsWhatIsRecorded ==
  (pc = "idle" /\ outcome = "ok" /\ box # Nil /\ box.up /\ ~torn /\ ~stale) =>
    box.dir = "app" /\ box.label = record /\ tree["app"].of = record

\* volume.go:74. After an Apply without error the file system has the size that was asked for,
\* unless an earlier growth stopped half-way.
HasItsSize ==
  (pc = "idle" /\ outcome = "ok" /\ ~halfGrown) =>
    image # Nil /\ image.fs = spec.size /\ image.size = spec.size

\* deploy.go:67 the running container is replaced: until the new code is recorded, the version
\* that counts is the one moved aside. Code that is not whole is no version.
Content(slot) ==
  IF tree[slot] = Nil THEN Nil ELSE IF tree[slot].code = "whole" THEN tree[slot].of ELSE "broken"
Version ==
  CASE pc \in {"swap", "restore", "record"} -> Content("prev")
    [] OTHER -> Content("app")
Store == INSTANCE VersionStore WITH version <- Version

\* VolumeDeploy implements VersionStore: a deploy replaces the version and its record at once or
\* leaves both alone, and only an interruption in the swap can part them. The version is never half
\* an artifact, bytes of another digest or a failed installation (deploy.go:25, volume.go:21),
\* whatever fails and whenever the agent dies.
ImplementsStore == Store!Spec
===============================================================================
