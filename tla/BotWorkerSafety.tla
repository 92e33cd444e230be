--------------------------- MODULE BotWorkerSafety ---------------------------
(***************************************************************************)
(* BotWorker for every value of its constants: its types, and its safety.  *)
(* No request is slept through, the retry timer is only set for a bot      *)
(* wanted running, what is taken as applied is in force, a stopped bot     *)
(* stays down, a bot whose worker retired left nothing behind, a container *)
(* that goes down on its own is noticed, and Supervisor is implemented.    *)
(*                                                                         *)
(* None of them is inductive, not even TypeOK: that a container is created *)
(* from a deploy, and that spec.desired means something when Docker is to  *)
(* converge on it, hangs on which runtime call is in flight and how far it *)
(* is.  CallAt says so, and Core, the two together, is inductive.          *)
(* Applying adds how far an apply has got in making the spec true, and     *)
(* CancelledHasWork that whoever cancels a call leaves something to do     *)
(* after it.  Watched follows an exit from Docker to what run makes of it. *)
(***************************************************************************)
EXTENDS BotWorker, TLAPS

\* The runtime call in flight and the step it is at belong together.
CallAt ==
  /\ pc \in {"gone", "select", "work"} <=> call = "none"
  /\ pc \in {"volume", "deploy", "create"} => call = "apply"
  /\ pc \in {"start", "stop", "look"} => call \in {"apply", "restart", "crashRestart"}
  /\ pc = "destroy" => call \in {"apply", "remove"}
  /\ pc = "erase" => call = "remove"
  /\ pc \in {"destroy", "start", "stop", "look"} => box # NoBox
  /\ pc \in {"create", "erase"} => box = NoBox
  /\ call = "apply" => spec # NoSpec /\ (pc # "volume" => disk # NoVolume)
  /\ pc = "create" => disk # NoDeploy
  /\ call = "crashRestart" => spec # NoSpec /\ spec.desired = "running"
  /\ call = "remove" => ~retry
  /\ call = "restart" => handRun

Core == TypeOK /\ CallAt

-----------------------------------------------------------------------------
(* What is done to the worker's fields, one idea a lemma.                  *)

\* A request or an exit is recorded and the worker is poked.
Noted ==
  /\ pend' \in Pending /\ HasWork' /\ kick' = TRUE
  /\ cancelled' \in BOOLEAN /\ (cancelled' => cancelled \/ call # "none")
  /\ pc' = IF pc = "gone" THEN "select" ELSE pc
NotNoted == UNCHANGED <<pend, cancelled, kick, pc>>

LEMMA ApplyIsNoted == ASSUME WorkerTypes, NEW s \in BotSpec, RecordApply(s) PROVE Noted
  BY NilSpecAssumption DEF RecordApply, WorkerTypes, Intent, Poke, Pending, HasWork, Noted

LEMMA RemoveIsNoted == ASSUME WorkerTypes, RecordRemove PROVE Noted
  BY DEF RecordRemove, WorkerTypes, Poke, Pending, HasWork, Noted

LEMMA RestartIsNoted == ASSUME WorkerTypes, RecordRestart PROVE Noted
  BY DEF RecordRestart, WorkerTypes, Poke, Pending, HasWork, Noted

LEMMA ExitIsNoted == ASSUME WorkerTypes, NEW id \in Nat, RecordExit(id) PROVE Noted
<1>1. pend.exits \in Seq(Nat)
  BY DEF WorkerTypes, Pending
<1>2. Append(pend.exits, id) \in Seq(Nat)
  BY <1>1
<1>3. Append(pend.exits, id) # <<>>
  BY <1>1
<1>4. pend' \in Pending /\ pend'.exits # <<>>
  BY <1>2, <1>3 DEF RecordExit, WorkerTypes, Pending
<1> QED
  BY <1>4 DEF RecordExit, WorkerTypes, Poke, HasWork, Noted

LEMMA RequestIsNoted == ASSUME WorkerTypes, Request PROVE Noted
  BY ApplyIsNoted, RemoveIsNoted, RestartIsNoted DEF Request

LEMMA SyncIsNoted == ASSUME TypeOK, Sync PROVE Noted \/ NotNoted
  BY ApplyIsNoted, RemoveIsNoted DEF Sync, TypeOK, EnvironmentTypes, NotNoted

LEMMA DieIsNoted == ASSUME TypeOK, WatchDie PROVE Noted \/ NotNoted
<1>1. dies \in Seq(Die) /\ dies # <<>>
  BY DEF WatchDie, TypeOK, DockerTypes
<1>2. Head(dies) \in Die
  BY <1>1
<1>3. Head(dies).id \in Nat
  BY <1>2 DEF Die
<1> QED
  BY <1>3, ExitIsNoted DEF WatchDie, TypeOK, NotNoted

\* A call goes on to its next step, or it ends.
Ended == call' = "none" /\ pc' \in {"work", "gone"}

LEMMA GoOnTypes == ASSUME WorkerTypes, NEW at, GoOn(at),
    at \in {"inspect", "destroy", "create", "start", "stop", "look", "erase", "deploy"}
  PROVE WorkerTypes'
  BY DEF WorkerTypes, GoOn

LEMMA StepInRange == ASSUME NEW b \in 0 .. BackoffCap PROVE Step(b) \in 0 .. BackoffCap
  BY BoundAssumption DEF Step

LEMMA ObserveTypes == ASSUME WorkerTypes, NEW inst \in Container \cup {NoBox}, NEW failed \in BOOLEAN,
    NEW desired \in {"running", "stopped"}, Observe(inst, desired, failed)
  PROVE container' \in Nat /\ report' \in BotState /\ aged' \in BOOLEAN
<1>1. container' \in Nat
  BY DEF Observe, Container
<1>2. StateOf(inst, desired) \in {"pending", "running", "stopped", "crashed"}
  BY DEF StateOf
<1>3. report' \in BotState
  BY <1>2 DEF Observe, BotState
<1>4. aged' \in BOOLEAN
  BY DEF Observe, WorkerTypes
<1> QED
  BY <1>1, <1>3, <1>4

LEMMA FinishCallTypes == ASSUME Core, NEW inst \in Container \cup {NoBox}, NEW failed \in BOOLEAN,
    call \in {"apply", "crashRestart", "restart"}, FinishCall(inst, failed)
  PROVE WorkerTypes' /\ Ended
<1> USE DEF Core, TypeOK
<1>1. Ended
  BY DEF FinishCall, Ended
<1>2. WorkerTypes'
  <2>0. /\ pend' \in Pending /\ job' \in Pending /\ kick' \in BOOLEAN /\ cancelled' \in BOOLEAN
        /\ softErr' \in BOOLEAN /\ opDeploy' \in Deploys \cup {NoDeploy}
        /\ spec' \in BotSpec \cup {NoSpec} /\ pc' = "work" /\ call' = "none"
    BY DEF FinishCall, WorkerTypes
  <2>1. CASE call = "apply"
    <3>1. spec \in BotSpec /\ spec.desired \in {"running", "stopped"}
      BY <2>1 DEF WorkerTypes, CallAt, BotSpec
    <3>2. Observe(inst, spec.desired, failed) /\ UNCHANGED <<backoff, retry>>
      BY <2>1 DEF FinishCall
    <3>3. applied' \in BotSpec \cup {NoSpec}
      BY <2>1 DEF FinishCall, AppliedAfter, WorkerTypes
    <3> QED
      BY <2>0, <3>1, <3>2, <3>3, ObserveTypes DEF WorkerTypes
  <2>2. CASE call = "crashRestart"
    <3>1. Observe(inst, "running", failed) /\ retry' = failed /\ applied' = applied
      BY <2>2 DEF FinishCall
    <3>2. backoff' \in 0 .. BackoffCap
      BY <2>2, StepInRange DEF FinishCall, WorkerTypes
    <3> QED
      BY <2>0, <3>1, <3>2, ObserveTypes DEF WorkerTypes
  <2>3. CASE call = "restart"
    <3> DEFINE d == IF failed /\ spec # NoSpec THEN spec.desired ELSE "running"
    <3>1. d \in {"running", "stopped"}
      BY DEF WorkerTypes, BotSpec
    <3>2. Observe(inst, d, failed) /\ backoff' = 0 /\ UNCHANGED <<applied, retry>>
      BY <2>3 DEF FinishCall
    <3>3. backoff' \in 0 .. BackoffCap
      BY <3>2, BoundAssumption
    <3> HIDE DEF d
    <3> QED
      BY <2>0, <3>1, <3>2, <3>3, ObserveTypes DEF WorkerTypes
  <2> QED
    BY <2>1, <2>2, <2>3
<1> QED
  BY <1>1, <1>2

LEMMA FinishRemoveTypes == ASSUME WorkerTypes, NEW failed \in BOOLEAN, FinishRemove(failed)
  PROVE WorkerTypes' /\ Ended
<1>1. NoWork \in Pending
  BY DEF NoWork, Pending
<1>2. /\ call' = "none" /\ job' = job /\ softErr' = FALSE /\ cancelled' = FALSE
      /\ spec' = NoSpec /\ applied' = NoSpec /\ container' = 0 /\ opDeploy' = NoDeploy
  BY DEF FinishRemove
<1>3. CASE MayRetire
  <2>1. backoff' \in 0 .. BackoffCap
    BY <1>3, BoundAssumption DEF FinishRemove
  <2>2. /\ pc' = "gone" /\ report' = NoReport /\ pend' = NoWork
        /\ kick' = FALSE /\ retry' = FALSE /\ aged' = TRUE
    BY <1>3 DEF FinishRemove
  <2> QED
    BY <1>1, <1>2, <2>1, <2>2 DEF WorkerTypes, Ended
<1>4. CASE ~MayRetire
  <2>1. report' \in BotState \cup {NoReport}
    <3>1. [st |-> "stopped", err |-> TRUE] \in BotState
      BY DEF BotState
    <3> QED
      BY <1>4, <3>1 DEF FinishRemove, WorkerTypes
  <2>2. pc' = "work" /\ UNCHANGED <<pend, kick, backoff, retry, aged>>
    BY <1>4 DEF FinishRemove
  <2> QED
    BY <1>2, <2>1, <2>2 DEF WorkerTypes, Ended
<1> QED
  BY <1>3, <1>4

LEMMA AbortTypes == ASSUME Core, call # "none", Abort PROVE WorkerTypes' /\ Ended
<1>1. CASE call = "remove"
  BY <1>1, FinishRemoveTypes DEF Abort, Core, TypeOK
<1>2. CASE call # "remove"
  <2>1. call \in {"apply", "crashRestart", "restart"}
    BY <1>2 DEF Core, TypeOK, WorkerTypes
  <2> QED
    BY <1>2, <2>1, FinishCallTypes DEF Abort
<1> QED
  BY <1>1, <1>2

LEMMA BudgetTypes == ASSUME used \in Counters,
    Fails \/ Breaks \/ Works \/ UNCHANGED used
  PROVE used' \in Counters
  BY DEF Fails, Breaks, Works, Spend, Counters

-----------------------------------------------------------------------------
(* Type correctness: every action preserves Core.                          *)

LEMMA InitCore == Init => Core
<1> SUFFICES ASSUME Init PROVE TypeOK /\ CallAt
  BY DEF Core
<1>1. pend \in Pending /\ job \in Pending
  BY DEF Init, NoWork, Pending
<1>2. dies \in Seq(Die) /\ used \in Counters
  BY DEF Init, Counters
<1>3. nextId \in Nat \ {0} /\ backoff \in 0 .. BackoffCap /\ container \in Nat
  BY BoundAssumption DEF Init
<1>4. WorkerTypes
  BY <1>1, <1>3 DEF Init, WorkerTypes
<1>5. DockerTypes
  BY <1>2, <1>3 DEF Init, DockerTypes
<1>6. EnvironmentTypes
  BY <1>2 DEF Init, EnvironmentTypes
<1>7. CallAt
  BY DEF Init, CallAt
<1> QED
  BY <1>4, <1>5, <1>6, <1>7 DEF TypeOK

\* What is recorded never disturbs the call in flight.
LEMMA NotedCore == ASSUME Core, Recorded, Noted \/ NotNoted,
    UNCHANGED <<disk, handRun>>, box' = box \/ (box # NoBox /\ box' # NoBox)
  PROVE WorkerTypes' /\ CallAt'
<1>1. CASE Noted
  BY <1>1 DEF Core, TypeOK, WorkerTypes, CallAt, Recorded, Noted
<1>2. CASE NotNoted
  BY <1>2 DEF Core, TypeOK, WorkerTypes, CallAt, Recorded, NotNoted
<1> QED
  BY <1>1, <1>2

LEMMA RequestCore == ASSUME Core, Request PROVE Core'
<1>1. Recorded /\ UNCHANGED <<docker, synced, swallowed, handRun>>
  BY DEF Request
<1>2. WorkerTypes' /\ CallAt'
  BY <1>1, RequestIsNoted, NotedCore DEF docker, Core, TypeOK
<1>3. DockerTypes'
  BY <1>1 DEF Core, TypeOK, DockerTypes, docker
<1>4. used' \in Counters
  <2>1. used \in Counters
    BY DEF Core, TypeOK, EnvironmentTypes
  <2>2. used.requests + 1 \in Nat /\ used.restarts + 1 \in Nat
    BY <2>1 DEF Counters
  <2>3. CASE Spend("requests")
    BY <2>1, <2>3 DEF Spend, Counters
  <2>4. CASE used' = [used EXCEPT !.requests = @ + 1, !.restarts = @ + 1]
    BY Zenon, <2>1, <2>2, <2>4 DEF Counters
  <2> QED
    BY <2>3, <2>4 DEF Request
<1>5. want' \in BotSpec \cup {NoSpec}
  BY DEF Request, Core, TypeOK, EnvironmentTypes
<1> QED
  BY <1>1, <1>2, <1>3, <1>4, <1>5 DEF Core, TypeOK, EnvironmentTypes

LEMMA SyncCore == ASSUME Core, Sync PROVE Core'
<1>1. Recorded /\ UNCHANGED <<docker, want, swallowed, handRun, used>> /\ synced' = TRUE
  BY DEF Sync
<1>2. WorkerTypes' /\ CallAt'
  BY <1>1, SyncIsNoted, NotedCore DEF docker, Core
<1> QED
  BY <1>1, <1>2 DEF Core, TypeOK, DockerTypes, EnvironmentTypes, docker

LEMMA BoxExitsCore == ASSUME Core, BoxExits PROVE Core'
<1>1. box \in Container /\ box' \in Container
  BY DEF BoxExits, Core, TypeOK, DockerTypes, Container
<1>2. [id |-> box.id, asked |-> FALSE] \in Die
  BY <1>1 DEF Die, Container
<1>3. dies' \in Seq(Die)
  BY <1>2 DEF BoxExits, Core, TypeOK, DockerTypes
<1>4. used' \in Counters
  BY DEF BoxExits, Spend, Core, TypeOK, EnvironmentTypes, Counters
<1>5. WorkerTypes' /\ EnvironmentTypes'
  BY <1>4 DEF BoxExits, worker, Core, TypeOK, WorkerTypes, EnvironmentTypes
<1>6. DockerTypes'
  BY <1>1, <1>3 DEF BoxExits, Core, TypeOK, DockerTypes
<1>7. CallAt'
  BY <1>1, NilSpecAssumption DEF BoxExits, worker, Core, CallAt
<1> QED
  BY <1>5, <1>6, <1>7 DEF Core, TypeOK

LEMMA WatchDieCore == ASSUME Core, WatchDie PROVE Core'
<1>1. Recorded /\ UNCHANGED <<box, disk, nextId, want, synced, handRun, used>>
  BY DEF WatchDie
<1>2. WorkerTypes' /\ CallAt'
  BY <1>1, DieIsNoted, NotedCore DEF Core
<1>3. dies' \in Seq(Die)
  BY DEF WatchDie, Core, TypeOK, DockerTypes
<1>4. expected' \in SUBSET Nat
  BY DEF WatchDie, Core, TypeOK, DockerTypes
<1>5. swallowed' \in BOOLEAN
  BY DEF WatchDie, Core, TypeOK, EnvironmentTypes
<1> QED
  BY <1>1, <1>2, <1>3, <1>4, <1>5 DEF Core, TypeOK, DockerTypes, EnvironmentTypes

LEMMA TimePassesCore == ASSUME Core, TimePasses PROVE Core'
<1>1. TypeOK'
  BY DEF TimePasses, docker, Core, TypeOK, WorkerTypes, DockerTypes, EnvironmentTypes
<1>2. CallAt'
  BY DEF TimePasses, docker, Core, CallAt
<1> QED
  BY <1>1, <1>2 DEF Core

LEMMA RebootCore == ASSUME Core, Reboot PROVE Core'
<1>1. NoWork \in Pending /\ 0 \in 0 .. BackoffCap
  BY BoundAssumption DEF NoWork, Pending
<1>2. /\ pc' \in {"gone", "select"} /\ container' \in Nat /\ report' \in BotState \cup {NoReport}
  <2>1. CASE box = NoBox /\ disk = NoVolume
    BY <2>1 DEF Reboot
  <2>2. CASE ~(box = NoBox /\ disk = NoVolume)
    <3>1. box = NoBox \/ box.id \in Nat
      BY DEF Core, TypeOK, DockerTypes, Container
    <3>2. pc' = "select" /\ container' = IF box = NoBox THEN 0 ELSE box.id
      BY <2>2 DEF Reboot
    <3>3. PICK st \in {"pending", "running", "stopped", "crashed"} : report' = [st |-> st, err |-> FALSE]
      BY <2>2 DEF Reboot
    <3>4. report' \in BotState
      BY <3>3 DEF BotState
    <3> QED
      BY <3>1, <3>2, <3>4
  <2> QED
    BY <2>1, <2>2
<1>3. /\ pend' = NoWork /\ kick' = FALSE /\ cancelled' = FALSE /\ opDeploy' = NoDeploy
      /\ spec' = NoSpec /\ applied' = NoSpec /\ backoff' = 0 /\ retry' = FALSE
      /\ call' = "none" /\ job' = NoWork /\ softErr' = FALSE /\ aged' = TRUE
  BY DEF Reboot
<1>4. WorkerTypes'
  BY <1>1, <1>2, <1>3 DEF WorkerTypes
<1>5. /\ UNCHANGED <<box, disk, nextId, want>> /\ expected' = {} /\ dies' = <<>>
      /\ synced' = FALSE /\ handRun' = FALSE /\ swallowed' = FALSE /\ Spend("reboots")
  BY DEF Reboot
<1>6. used' \in Counters
  BY <1>5 DEF Spend, Counters, Core, TypeOK, EnvironmentTypes
<1>7. dies' \in Seq(Die) /\ expected' \in SUBSET Nat
  BY <1>5
<1>8. DockerTypes'
  BY <1>5, <1>7 DEF Core, TypeOK, DockerTypes
<1>9. EnvironmentTypes'
  BY <1>5, <1>6 DEF Core, TypeOK, EnvironmentTypes
<1>10. CallAt'
  BY <1>2, <1>3 DEF CallAt
<1> QED
  BY <1>4, <1>8, <1>9, <1>10 DEF Core, TypeOK

\* The worker's loop between two calls.
LEMMA LoopCore == ASSUME Core, Wake \/ Take PROVE Core'
<1>1. UNCHANGED <<docker, environment, softErr, cancelled, opDeploy, call>> /\ call = "none"
  BY DEF Wake, Take, OpFree, Core, CallAt
<1>2. WorkerTypes'
  <2>1. NoWork \in Pending
    BY DEF NoWork, Pending
  <2>2. CASE Wake
    <3>1. kick' = FALSE /\ pc' = "work"
      BY <2>2 DEF Wake
    <3>2. UNCHANGED <<pend, report, spec, applied, container, backoff, retry, job, aged>>
      BY <2>2 DEF Wake
    <3> QED
      BY <1>1, <3>1, <3>2 DEF Core, TypeOK, WorkerTypes
  <2>3. CASE Take
    BY <2>1, <2>3 DEF Take, OpFree, Core, TypeOK, WorkerTypes
  <2> QED
    BY <2>2, <2>3
<1>3. DockerTypes' /\ EnvironmentTypes'
  BY <1>1 DEF Core, TypeOK, DockerTypes, EnvironmentTypes, docker, environment
<1>4. pc' \in {"select", "work"}
  BY DEF Wake, Take
<1>5. CallAt'
  BY <1>1, <1>4 DEF CallAt
<1> QED
  BY <1>2, <1>3, <1>5 DEF Core, TypeOK

LEMMA HandleExitCore == ASSUME Core, HandleExit PROVE Core'
<1>1. /\ UNCHANGED <<docker, environment, softErr, cancelled, opDeploy, call, pend, kick, spec,
                     applied, container, pc, aged>>
      /\ call = "none"
  BY DEF HandleExit, OpFree, Core, CallAt
<1>2. job' \in Pending
  <2>1. job \in Pending /\ job.exits \in Seq(Nat) /\ job.exits # <<>>
    BY DEF HandleExit, Core, TypeOK, WorkerTypes, Pending
  <2>2. Tail(job.exits) \in Seq(Nat)
    BY <2>1
  <2>3. job' = [job EXCEPT !.exits = Tail(job.exits)]
    BY DEF HandleExit
  <2> QED
    BY <2>1, <2>2, <2>3 DEF Pending
<1>3. report' \in BotState \cup {NoReport}
  <2>1. [st |-> "stopped", err |-> FALSE] \in BotState /\ [st |-> "crashed", err |-> FALSE] \in BotState
    BY DEF BotState
  <2> QED
    BY <2>1 DEF HandleExit, Core, TypeOK, WorkerTypes
<1>4. backoff' \in 0 .. BackoffCap /\ retry' \in BOOLEAN
  <2>1. 1 \in 0 .. BackoffCap /\ Step(backoff) \in 0 .. BackoffCap
    BY StepInRange, BoundAssumption DEF Core, TypeOK, WorkerTypes
  <2> QED
    BY <2>1 DEF HandleExit, Core, TypeOK, WorkerTypes
<1>5. WorkerTypes'
  BY <1>1, <1>2, <1>3, <1>4 DEF Core, TypeOK, WorkerTypes
<1>6. DockerTypes' /\ EnvironmentTypes'
  BY <1>1 DEF Core, TypeOK, DockerTypes, EnvironmentTypes, docker, environment
<1>7. CallAt'
  BY <1>1 DEF Core, CallAt
<1> QED
  BY <1>5, <1>6, <1>7 DEF Core, TypeOK

\* The start of a runtime call.
LEMMA RetryFiresCore == ASSUME Core, RetryFires PROVE Core'
<1>1. UNCHANGED <<docker, environment, pend, kick, report, spec, applied, container, backoff, job, aged>>
      /\ retry' = FALSE /\ call = "none" /\ pc = "select"
  BY DEF RetryFires, Core, CallAt
<1>2. DockerTypes' /\ EnvironmentTypes'
  BY <1>1 DEF Core, TypeOK, DockerTypes, EnvironmentTypes, docker, environment
<1>3. CASE spec # NoSpec /\ spec.desired = "running" /\ report # NoReport /\ report.st = "crashed"
  <2>1. /\ call' = "crashRestart" /\ opDeploy' = NoDeploy /\ cancelled' = FALSE
        /\ softErr' = FALSE /\ pc' = "inspect"
    BY <1>3 DEF RetryFires, BeginCall
  <2>2. WorkerTypes'
    BY <1>1, <2>1 DEF Core, TypeOK, WorkerTypes
  <2>3. CallAt'
    BY <1>1, <1>3, <2>1 DEF CallAt
  <2> QED
    BY <1>2, <2>2, <2>3 DEF Core, TypeOK
<1>4. CASE ~(spec # NoSpec /\ spec.desired = "running" /\ report # NoReport /\ report.st = "crashed")
  <2>1. pc' = "work" /\ UNCHANGED <<cancelled, opDeploy, call, softErr>>
    BY <1>4 DEF RetryFires, OpFree
  <2>2. WorkerTypes'
    BY <1>1, <2>1 DEF Core, TypeOK, WorkerTypes
  <2>3. CallAt'
    BY <1>1, <2>1 DEF CallAt
  <2> QED
    BY <1>2, <2>2, <2>3 DEF Core, TypeOK
<1> QED
  BY <1>3, <1>4

LEMMA BeginRemoveCore == ASSUME Core, BeginRemove PROVE Core'
<1>1. NoWork \in Pending
  BY DEF NoWork, Pending
<1>2. WorkerTypes'
  BY <1>1 DEF BeginRemove, BeginCall, Core, TypeOK, WorkerTypes
<1>3. DockerTypes' /\ EnvironmentTypes'
  BY DEF BeginRemove, Core, TypeOK, DockerTypes, EnvironmentTypes, docker, environment
<1>4. CallAt'
  BY DEF BeginRemove, BeginCall, CallAt
<1> QED
  BY <1>2, <1>3, <1>4 DEF Core, TypeOK

LEMMA BeginRestartCore == ASSUME Core, BeginRestart PROVE Core'
<1>1. job' \in Pending
  BY DEF BeginRestart, Core, TypeOK, WorkerTypes, Pending
<1>2. WorkerTypes'
  BY <1>1 DEF BeginRestart, BeginCall, Core, TypeOK, WorkerTypes
<1>3. DockerTypes' /\ EnvironmentTypes'
  BY DEF BeginRestart, Core, TypeOK, DockerTypes, EnvironmentTypes, docker
<1>4. CallAt'
  BY DEF BeginRestart, BeginCall, CallAt
<1> QED
  BY <1>2, <1>3, <1>4 DEF Core, TypeOK

LEMMA BeginApplyCore == ASSUME Core, BeginApply PROVE Core'
<1>1. job.apply \in BotSpec /\ job' \in Pending /\ job.apply.deploy \in Deploys \cup {NoDeploy}
  BY NilSpecAssumption DEF BeginApply, Core, TypeOK, WorkerTypes, Pending, BotSpec
<1>2. /\ UNCHANGED <<docker, pend, kick, report, applied, container, backoff, aged,
                     want, synced, swallowed, used>>
      /\ spec' = job.apply /\ call = "none" /\ pc = "work"
  BY DEF BeginApply, Core, CallAt
<1>3. DockerTypes'
  BY <1>2 DEF Core, TypeOK, DockerTypes, docker
<1>4. CASE Skipped
  <2>1. UNCHANGED <<pc, handRun, cancelled, opDeploy, call, softErr, retry>>
    BY <1>4 DEF BeginApply, OpFree, ApplyStopsRetry
  <2>2. WorkerTypes' /\ EnvironmentTypes'
    BY <1>1, <1>2, <2>1 DEF Core, TypeOK, WorkerTypes, EnvironmentTypes
  <2>3. CallAt'
    BY <1>2, <2>1 DEF CallAt
  <2> QED
    BY <1>3, <2>2, <2>3 DEF Core, TypeOK
<1>5. CASE ~Skipped
  <2>1. /\ handRun' = FALSE /\ retry' = FALSE /\ call' = "apply" /\ opDeploy' = job.apply.deploy
        /\ cancelled' = FALSE /\ softErr' = FALSE /\ pc' = "volume"
    BY <1>5 DEF BeginApply, BeginCall, ApplyStopsRetry
  <2>2. WorkerTypes' /\ EnvironmentTypes'
    BY <1>1, <1>2, <2>1 DEF Core, TypeOK, WorkerTypes, EnvironmentTypes
  <2>3. CallAt'
    BY <1>1, <1>2, <2>1, NilSpecAssumption DEF CallAt
  <2> QED
    BY <1>3, <2>2, <2>3 DEF Core, TypeOK
<1> QED
  BY <1>4, <1>5

\* Once a call has ended there is nothing left to relate.
LEMMA EndedCallAt == ASSUME Ended PROVE CallAt'
  BY DEF Ended, CallAt

\* However a step of a call ends, it leaves the panel's side alone.
LEMMA AbortKeeps == ASSUME Abort PROVE UNCHANGED <<want, synced, handRun>>
  BY DEF Abort, FinishCall, FinishRemove

LEMMA EnvironmentKept == ASSUME EnvironmentTypes, used' \in Counters,
    UNCHANGED <<want, synced, handRun>>, swallowed' \in BOOLEAN
  PROVE EnvironmentTypes'
  BY DEF EnvironmentTypes

LEMMA InCall == ASSUME Core,
    pc \in {"volume", "deploy", "inspect", "destroy", "create", "start", "stop", "look", "erase"}
  PROVE call # "none"
  BY DEF Core, CallAt

LEMMA VolumeCore == ASSUME Core, Volume PROVE Core'
<1>1. call = "apply" /\ spec \in BotSpec /\ spec.deploy \in Deploys \cup {NoDeploy}
  BY DEF Volume, Core, CallAt, TypeOK, WorkerTypes, BotSpec
<1>2. CASE Breaks /\ Abort /\ UNCHANGED <<docker, swallowed>>
  <2>1. used' \in Counters
    BY <1>2, BudgetTypes DEF Core, TypeOK, EnvironmentTypes
  <2>2. EnvironmentTypes'
    BY <1>2, <2>1, AbortKeeps, EnvironmentKept DEF Core, TypeOK, EnvironmentTypes
  <2>3. DockerTypes'
    BY <1>2 DEF Core, TypeOK, DockerTypes, docker
  <2> QED
    BY <1>1, <1>2, <2>2, <2>3, AbortTypes, EndedCallAt DEF Core, TypeOK
<1>3. CASE ~(Breaks /\ Abort /\ UNCHANGED <<docker, swallowed>>)
  <2>1. /\ UNCHANGED <<pend, kick, cancelled, opDeploy, spec, applied, container, backoff,
                       retry, call, job, aged, box, nextId, expected, dies,
                       want, synced, swallowed, handRun>>
        /\ disk' = IF disk = NoVolume THEN NoDeploy ELSE disk
        /\ pc' \in {"deploy", "inspect"}
    BY <1>3 DEF Volume
  <2>2. softErr' \in BOOLEAN /\ used' \in Counters
    BY <1>3, BudgetTypes DEF Volume, Core, TypeOK, WorkerTypes, EnvironmentTypes
  <2>3. report' \in BotState \cup {NoReport}
    <3>1. [st |-> "installing", err |-> FALSE] \in BotState
      BY DEF BotState
    <3> QED
      BY <1>3, <3>1 DEF Volume, Core, TypeOK, WorkerTypes
  <2>4. WorkerTypes'
    BY <2>1, <2>2, <2>3 DEF Core, TypeOK, WorkerTypes
  <2>5. DockerTypes' /\ EnvironmentTypes'
    BY <2>1, <2>2 DEF Core, TypeOK, DockerTypes, EnvironmentTypes
  <2>6. CallAt'
    BY <1>1, <2>1, NilSpecAssumption, NilAssumption DEF CallAt
  <2> QED
    BY <2>4, <2>5, <2>6 DEF Core, TypeOK
<1> QED
  BY <1>2, <1>3

LEMMA DeployCore == ASSUME Core, Deploy PROVE Core'
<1>1. call = "apply" /\ spec \in BotSpec /\ spec.deploy \in Deploys \cup {NoDeploy}
  BY DEF Deploy, Core, CallAt, TypeOK, WorkerTypes, BotSpec
<1>2. /\ UNCHANGED <<pend, kick, cancelled, opDeploy, report, spec, applied, container, backoff,
                     retry, call, job, aged, box, nextId, expected, dies,
                     want, synced, swallowed, handRun>>
      /\ pc' = "inspect" /\ pc = "deploy"
  BY DEF Deploy
<1>3. softErr' \in BOOLEAN /\ used' \in Counters
  BY BudgetTypes DEF Deploy, Core, TypeOK, WorkerTypes, EnvironmentTypes
<1>4. disk' \in {disk, spec.deploy}
  BY DEF Deploy
<1>5. WorkerTypes'
  BY <1>2, <1>3 DEF Core, TypeOK, WorkerTypes
<1>6. DockerTypes' /\ EnvironmentTypes'
  BY <1>1, <1>2, <1>3, <1>4 DEF Core, TypeOK, DockerTypes, EnvironmentTypes
<1>7. disk # NoVolume /\ spec.deploy # NoVolume
  BY <1>1, <1>2, NilAssumption DEF Core, CallAt
<1>8. CallAt'
  BY <1>1, <1>2, <1>4, <1>7 DEF Core, CallAt
<1> QED
  BY <1>5, <1>6, <1>8 DEF Core, TypeOK

\* The steps of a call that talk to Docker: what each leaves of Core once the worker's
\* part (Ended, or on to the next step) is known.
Advanced == WorkerTypes' /\ (Ended \/ CallAt') /\ UNCHANGED <<want, synced, handRun>>

LEMMA AbortAdvances == ASSUME Core, call # "none", Abort PROVE Advanced
  BY AbortTypes, AbortKeeps DEF Advanced

LEMMA FinishCallAdvances == ASSUME Core, NEW inst \in Container \cup {NoBox}, NEW failed \in BOOLEAN,
    call \in {"apply", "crashRestart", "restart"}, FinishCall(inst, failed)
  PROVE Advanced
  BY FinishCallTypes DEF Advanced, FinishCall

LEMMA FinishRemoveAdvances == ASSUME Core, NEW failed \in BOOLEAN, FinishRemove(failed)
  PROVE Advanced
  BY FinishRemoveTypes DEF Advanced, FinishRemove, Core, TypeOK

LEMMA GoOnAdvances == ASSUME Core, NEW at, GoOn(at), CallAt',
    at \in {"inspect", "destroy", "create", "start", "stop", "look", "erase", "deploy"}
  PROVE Advanced
  BY GoOnTypes DEF Advanced, GoOn, Core, TypeOK

LEMMA AdvancedCore == ASSUME Core, Advanced, DockerTypes', swallowed' \in BOOLEAN,
    Fails \/ Breaks \/ Works \/ UNCHANGED used
  PROVE Core'
<1>1. EnvironmentTypes'
  BY BudgetTypes, EnvironmentKept DEF Advanced, Core, TypeOK, EnvironmentTypes
<1> QED
  BY <1>1, EndedCallAt DEF Advanced, Core, TypeOK

LEMMA InspectCore == ASSUME Core, Inspect PROVE Core'
<1>1. UNCHANGED <<docker, swallowed>> /\ (Fails \/ Works) /\ call # "none" /\ pc = "inspect"
  BY InCall DEF Inspect
<1>2. DockerTypes' /\ swallowed' \in BOOLEAN
  BY <1>1 DEF Core, TypeOK, DockerTypes, EnvironmentTypes, docker
<1>3. Advanced
  <2>1. CASE Abort
    BY <1>1, <2>1, AbortAdvances
  <2>2. CASE call = "apply" /\ FinishCall(NoBox, softErr)
    BY <2>2, FinishCallAdvances DEF Core, TypeOK, WorkerTypes
  <2>3. CASE call = "apply" /\ ApplyNext # "nothing" /\ GoOn(ApplyNext)
    <3>1. /\ ApplyNext \in {"destroy", "create", "start", "stop", "look"}
          /\ ApplyNext # "create" => box # NoBox
          /\ ApplyNext = "create" => box = NoBox /\ disk # NoDeploy
      BY <2>3 DEF ApplyNext, Switch
    <3>2. CallAt'
      <4>1. pc' = ApplyNext /\ UNCHANGED <<call, spec, box, disk, retry, handRun>>
        BY <1>1, <2>3 DEF GoOn, docker
      <4> HIDE DEF ApplyNext
      <4> QED
        BY <1>1, <2>3, <3>1, <4>1 DEF Core, CallAt
    <3> QED
      BY <2>3, <3>1, <3>2, GoOnAdvances
  <2>4. CASE call \in {"crashRestart", "restart"} /\ FinishCall(NoBox, TRUE)
    BY <2>4, FinishCallAdvances
  <2>5. CASE /\ call \in {"crashRestart", "restart"} /\ box # NoBox
             /\ GoOn(IF box.running THEN "stop" ELSE "start")
    <3>1. PICK at \in {"stop", "start"} : GoOn(at)
      BY <2>5
    <3>2. CallAt'
      BY <1>1, <2>5, <3>1 DEF GoOn, docker, Core, CallAt
    <3> QED
      BY <3>1, <3>2, GoOnAdvances
  <2>6. CASE call = "remove" /\ GoOn(IF box = NoBox THEN "erase" ELSE "destroy")
    <3>1. PICK at \in {"erase", "destroy"} : GoOn(at) /\ (at = "erase" <=> box = NoBox)
      BY <2>6
    <3>2. CallAt'
      BY <1>1, <2>6, <3>1 DEF GoOn, docker, Core, CallAt
    <3> QED
      BY <3>1, <3>2, GoOnAdvances
  <2> QED
    BY <2>1, <2>2, <2>3, <2>4, <2>5, <2>6 DEF Inspect
<1> QED
  BY <1>1, <1>2, <1>3, AdvancedCore

\* A container that is up or down stays a container.
LEMMA Switched == ASSUME box \in Container, NEW b \in BOOLEAN
  PROVE [box EXCEPT !.running = b] \in Container
  BY DEF Container

LEMMA StoppedTypes == ASSUME DockerTypes, box \in Container, Stopped
  PROVE expected' \in SUBSET Nat /\ dies' \in Seq(Die)
<1>1. box.id \in Nat /\ [id |-> box.id, asked |-> TRUE] \in Die
  BY DEF Container, Die
<1>2. expected' \in SUBSET Nat
  BY <1>1 DEF Stopped, DockerTypes
<1>3. dies' \in Seq(Die)
  BY <1>1 DEF Stopped, DockerTypes
<1> QED
  BY <1>2, <1>3

LEMMA DestroyCore == ASSUME Core, Destroy PROVE Core'
<1>1. /\ UNCHANGED <<disk, nextId, swallowed>> /\ (Fails \/ Works) /\ call # "none"
      /\ pc = "destroy" /\ box \in Container
  BY InCall DEF Destroy, Core, CallAt, TypeOK, DockerTypes
<1>2. DockerTypes'
  <2>1. box' \in Container \cup {NoBox}
    BY <1>1, Switched DEF Destroy
  <2>2. CASE Stopped
    BY <1>1, <2>1, <2>2, StoppedTypes DEF Core, TypeOK, DockerTypes
  <2>3. CASE expected' = expected \cup {box.id} /\ dies' = dies
    <3>1. expected' \in SUBSET Nat
      BY <1>1, <2>3 DEF Core, TypeOK, DockerTypes, Container
    <3> QED
      BY <1>1, <2>1, <2>3, <3>1 DEF Core, TypeOK, DockerTypes
  <2> QED
    BY <2>2, <2>3 DEF Destroy
<1>3. Advanced
  <2>1. CASE Abort
    BY <1>1, <2>1, AbortAdvances
  <2>2. CASE box' = NoBox /\ call = "remove" /\ GoOn("erase")
    <3>1. CallAt'
      BY <1>1, <2>2 DEF GoOn, Core, CallAt
    <3> QED
      BY <2>2, <3>1, GoOnAdvances
  <2>3. CASE call # "remove" /\ FinishCall(NoBox, softErr)
    BY <1>1, <2>3, FinishCallAdvances DEF Core, CallAt, TypeOK, WorkerTypes
  <2>4. CASE box' = NoBox /\ call # "remove" /\ disk # NoDeploy /\ GoOn("create")
    <3>1. CallAt'
      BY <1>1, <2>4 DEF GoOn, Core, CallAt
    <3> QED
      BY <2>4, <3>1, GoOnAdvances
  <2> QED
    BY <2>1, <2>2, <2>3, <2>4 DEF Destroy
<1> QED
  BY <1>1, <1>2, <1>3, AdvancedCore DEF Core, TypeOK, EnvironmentTypes

LEMMA CreateCore == ASSUME Core, Create PROVE Core'
<1>1. /\ UNCHANGED <<disk, expected, dies, swallowed>> /\ (Fails \/ Works) /\ call = "apply"
      /\ pc = "create" /\ spec \in BotSpec /\ disk \in Deploys
  BY InCall DEF Create, Core, CallAt, TypeOK, WorkerTypes, DockerTypes
<1>2. NewBox \in Container
  BY <1>1 DEF NewBox, Container, BotSpec, Core, TypeOK, DockerTypes
<1>3. DockerTypes'
  <2>1. box' \in Container \cup {NoBox}
    BY <1>2 DEF Create, Core, TypeOK, DockerTypes
  <2>2. nextId' \in Nat \ {0}
    BY DEF Create, Core, TypeOK, DockerTypes
  <2> QED
    BY <1>1, <2>1, <2>2 DEF Core, TypeOK, DockerTypes
<1>4. Advanced
  <2>1. CASE Abort
    BY <1>1, <2>1, AbortAdvances
  <2>2. CASE box' = NewBox /\ GoOn(IF spec.desired = "running" THEN "start" ELSE "look")
    <3>1. PICK at \in {"start", "look"} : GoOn(at)
      BY <2>2
    <3>2. box' # NoBox
      BY <1>2, <2>2, NilSpecAssumption
    <3>3. CallAt'
      BY <1>1, <3>1, <3>2 DEF GoOn, Core, CallAt
    <3> QED
      BY <3>1, <3>3, GoOnAdvances
  <2> QED
    BY <2>1, <2>2 DEF Create
<1> QED
  BY <1>1, <1>3, <1>4, AdvancedCore DEF Core, TypeOK, EnvironmentTypes

LEMMA StartCore == ASSUME Core, Start PROVE Core'
<1>1. /\ UNCHANGED <<disk, nextId, expected, dies>> /\ (Fails \/ Works) /\ call # "none"
      /\ pc = "start" /\ box \in Container
  BY InCall DEF Start, Core, CallAt, TypeOK, DockerTypes
<1>2. box' \in Container /\ swallowed' \in BOOLEAN
  BY <1>1, Switched DEF Start, Core, TypeOK, EnvironmentTypes
<1>3. DockerTypes'
  BY <1>1, <1>2 DEF Core, TypeOK, DockerTypes
<1>4. Advanced
  <2>1. CASE Abort
    BY <1>1, <2>1, AbortAdvances
  <2>2. CASE GoOn("look")
    <3>1. CallAt'
      BY <1>1, <1>2, <2>2, NilSpecAssumption DEF GoOn, Core, CallAt
    <3> QED
      BY <2>2, <3>1, GoOnAdvances
  <2> QED
    BY <2>1, <2>2 DEF Start
<1> QED
  BY <1>1, <1>2, <1>3, <1>4, AdvancedCore

LEMMA StopCore == ASSUME Core, Stop PROVE Core'
<1>1. /\ UNCHANGED <<disk, nextId, swallowed>> /\ (Fails \/ Works) /\ call # "none"
      /\ pc = "stop" /\ box \in Container
  BY InCall DEF Stop, Core, CallAt, TypeOK, DockerTypes
<1>2. box' \in Container
  BY <1>1, Switched DEF Stop
<1>3. DockerTypes'
  <2>1. CASE Stopped
    BY <1>1, <1>2, <2>1, StoppedTypes DEF Core, TypeOK, DockerTypes
  <2>2. CASE expected' = expected \cup {box.id} /\ dies' = dies
    <3>1. expected' \in SUBSET Nat
      BY <1>1, <2>2 DEF Core, TypeOK, DockerTypes, Container
    <3> QED
      BY <1>1, <1>2, <2>2, <3>1 DEF Core, TypeOK, DockerTypes
  <2> QED
    BY <2>1, <2>2 DEF Stop
<1>4. Advanced
  <2>1. CASE Abort
    BY <1>1, <2>1, AbortAdvances
  <2>2. CASE GoOn(IF call = "apply" THEN "look" ELSE "start")
    <3>1. PICK at \in {"look", "start"} : GoOn(at)
      BY <2>2
    <3>2. CallAt'
      BY <1>1, <1>2, <3>1, NilSpecAssumption DEF GoOn, Core, CallAt
    <3> QED
      BY <3>1, <3>2, GoOnAdvances
  <2> QED
    BY <2>1, <2>2 DEF Stop
<1> QED
  BY <1>1, <1>3, <1>4, AdvancedCore DEF Core, TypeOK, EnvironmentTypes

LEMMA LookCore == ASSUME Core, Look PROVE Core'
<1>1. /\ UNCHANGED <<docker, swallowed>> /\ (Fails \/ Works) /\ call # "none"
      /\ pc = "look" /\ box \in Container
  BY InCall DEF Look, Core, CallAt, TypeOK, DockerTypes
<1>2. DockerTypes' /\ swallowed' \in BOOLEAN
  BY <1>1 DEF Core, TypeOK, DockerTypes, EnvironmentTypes, docker
<1>3. Advanced
  <2>1. CASE Abort
    BY <1>1, <2>1, AbortAdvances
  <2>2. CASE FinishCall(box, softErr)
    BY <1>1, <2>2, FinishCallAdvances DEF Core, CallAt, TypeOK, WorkerTypes
  <2> QED
    BY <2>1, <2>2 DEF Look
<1> QED
  BY <1>1, <1>2, <1>3, AdvancedCore

LEMMA EraseCore == ASSUME Core, Erase PROVE Core'
<1>1. /\ UNCHANGED <<box, nextId, expected, dies, swallowed>> /\ (Breaks \/ UNCHANGED used)
      /\ disk' \in {disk, NoVolume}
  BY DEF Erase
<1>2. DockerTypes' /\ swallowed' \in BOOLEAN
  BY <1>1 DEF Core, TypeOK, DockerTypes, EnvironmentTypes
<1>3. Advanced
  BY FinishRemoveAdvances DEF Erase
<1> QED
  BY <1>1, <1>2, <1>3, AdvancedCore

LEMMA NextCore == Core /\ [Next]_vars => Core'
<1> SUFFICES ASSUME Core, [Next]_vars PROVE Core'
  OBVIOUS
<1>1. CASE UNCHANGED vars
  BY <1>1 DEF vars, worker, docker, environment, Core, TypeOK, WorkerTypes, DockerTypes,
              EnvironmentTypes, CallAt
<1>2. CASE Request \/ Sync \/ BoxExits \/ WatchDie \/ TimePasses \/ Reboot
  BY <1>2, RequestCore, SyncCore, BoxExitsCore, WatchDieCore, TimePassesCore, RebootCore
<1>3. CASE WorkerStep
  BY <1>3, LoopCore, RetryFiresCore, HandleExitCore, BeginRemoveCore, BeginApplyCore,
     BeginRestartCore, VolumeCore, DeployCore, InspectCore, DestroyCore, CreateCore, StartCore,
     StopCore, LookCore, EraseCore
  DEF WorkerStep
<1> QED
  BY <1>1, <1>2, <1>3 DEF Next

\* Every variable stays in its range, whatever the constants: worker.go's fields, and
\* Docker's, whose containers are only ever created from a deploy that is in the volume.
THEOREM TypeCorrect == Spec => []TypeOK
<1>1. Core => TypeOK
  BY DEF Core
<1> QED
  BY InitCore, NextCore, <1>1, PTL DEF Spec

-----------------------------------------------------------------------------
(* What the safety properties rest on.                                     *)

\* How far an apply has got in making the spec true.
Applying == call = "apply" =>
  /\ /\ pc \in {"inspect", "destroy", "create", "start", "stop", "look"}
     /\ ~softErr /\ spec.deploy # NoDeploy
     => disk = spec.deploy
  /\ pc \in {"start", "stop", "look"} => box.deploy = disk /\ box.cfg = spec.cfg
  /\ pc = "start" => spec.desired = "running"
  /\ pc = "look" /\ spec.desired = "stopped" => ~box.running

\* Whoever cancels a call leaves something to do after it.
CancelledHasWork == cancelled => call # "none" /\ HasWork

-----------------------------------------------------------------------------
(* The three ways a step of a runtime call can end, as the worker sees it. *)

CallStep == Volume \/ Deploy \/ Inspect \/ Destroy \/ Create \/ Start \/ Stop \/ Look \/ Erase

Continues ==
  /\ pc' \in {"deploy", "inspect", "destroy", "create", "start", "stop", "look", "erase"}
  /\ UNCHANGED <<pend, kick, cancelled, spec, applied, retry, call, handRun>>
Returns ==
  /\ call \in {"apply", "crashRestart", "restart"}
  /\ \E inst \in Container \cup {NoBox}, failed \in BOOLEAN : FinishCall(inst, failed)
Removed == call = "remove" /\ \E failed \in BOOLEAN : FinishRemove(failed)

LEMMA AbortOutcomes == ASSUME Core, call # "none", Abort PROVE Returns \/ Removed
<1>1. CASE call = "remove"
  BY <1>1 DEF Abort, Removed
<1>2. CASE call # "remove"
  <2>1. call \in {"apply", "crashRestart", "restart"}
    BY <1>2 DEF Core, TypeOK, WorkerTypes
  <2> QED
    BY <1>2, <2>1 DEF Abort, Returns
<1> QED
  BY <1>1, <1>2

LEMMA CallStepOutcomes == ASSUME Core, CallStep PROVE Continues \/ Returns \/ Removed
<1>1. call # "none"
  BY InCall DEF CallStep, Volume, Deploy, Inspect, Destroy, Create, Start, Stop, Look, Erase
<1>2. CASE Abort
  BY <1>1, <1>2, AbortOutcomes
<1>3. softErr \in BOOLEAN /\ box \in Container \cup {NoBox}
  BY DEF Core, TypeOK, WorkerTypes, DockerTypes
<1>4. CASE Volume /\ ~Abort
  BY <1>4 DEF Volume, Continues
<1>5. CASE Deploy
  BY <1>5 DEF Deploy, Continues
<1>6. CASE Inspect /\ ~Abort
  <2>1. CASE \E inst \in Container \cup {NoBox}, failed \in BOOLEAN : FinishCall(inst, failed)
    <3>1. call # "remove"
      BY <1>6, <2>1 DEF Inspect, GoOn, FinishCall, Works
    <3> QED
      BY <1>1, <2>1, <3>1 DEF Returns, Core, TypeOK, WorkerTypes
  <2>2. CASE ~ \E inst \in Container \cup {NoBox}, failed \in BOOLEAN : FinishCall(inst, failed)
    <3>1. PICK at \in {"destroy", "create", "start", "stop", "look", "erase"} : GoOn(at)
      BY <1>3, <1>6, <2>2 DEF Inspect, ApplyNext, Switch
    <3> QED
      BY <3>1 DEF GoOn, Continues
  <2> QED
    BY <2>1, <2>2
<1>7. CASE Destroy /\ ~Abort
  BY <1>1, <1>3, <1>7 DEF Destroy, GoOn, Continues, Returns, Core, TypeOK, WorkerTypes
<1>8. CASE Create /\ ~Abort
  BY <1>8 DEF Create, GoOn, Continues
<1>9. CASE Start /\ ~Abort
  BY <1>9 DEF Start, GoOn, Continues
<1>10. CASE Stop /\ ~Abort
  BY <1>10 DEF Stop, GoOn, Continues
<1>11. CASE Look /\ ~Abort
  BY <1>1, <1>3, <1>11 DEF Look, Returns, Core, CallAt
<1>12. CASE Erase
  BY <1>12 DEF Erase, Removed, Core, CallAt
<1> QED
  BY <1>2, <1>4, <1>5, <1>6, <1>7, <1>8, <1>9, <1>10, <1>11, <1>12 DEF CallStep

\* What the environment does to the worker.
Outside == Request \/ Sync \/ BoxExits \/ WatchDie \/ TimePasses
OutsideKeeps == UNCHANGED <<spec, applied, retry, call, softErr, disk>>

LEMMA OutsideOutcomes == ASSUME Core, Outside PROVE (Noted \/ NotNoted) /\ OutsideKeeps
<1>1. CASE Request
  BY <1>1, RequestIsNoted DEF Request, Recorded, docker, OutsideKeeps, Core, TypeOK
<1>2. CASE Sync
  BY <1>2, SyncIsNoted DEF Sync, Recorded, docker, OutsideKeeps, Core
<1>3. CASE BoxExits
  BY <1>3 DEF BoxExits, worker, NotNoted, OutsideKeeps
<1>4. CASE WatchDie
  BY <1>4, DieIsNoted DEF WatchDie, Recorded, OutsideKeeps, Core
<1>5. CASE TimePasses
  BY <1>5 DEF TimePasses, docker, NotNoted, OutsideKeeps
<1> QED
  BY <1>1, <1>2, <1>3, <1>4, <1>5 DEF Outside

LEMMA NextCases == ASSUME [Next]_vars
  PROVE \/ UNCHANGED vars \/ Outside \/ Reboot
        \/ Wake \/ RetryFires \/ Take \/ HandleExit \/ BeginRemove \/ BeginApply \/ BeginRestart
        \/ CallStep
  BY DEF Next, WorkerStep, Outside, CallStep

-----------------------------------------------------------------------------
(* No request is slept through.                                            *)

LEMMA NoLostWakeupStep == Core /\ NoLostWakeup /\ [Next]_vars => NoLostWakeup'
<1> SUFFICES ASSUME Core, NoLostWakeup, [Next]_vars PROVE NoLostWakeup'
  OBVIOUS
<1>1. CASE UNCHANGED vars
  BY <1>1 DEF vars, worker, NoLostWakeup, HasWork
<1>2. CASE Outside
  <2>1. CASE Noted
    BY <2>1 DEF Noted, NoLostWakeup
  <2>2. CASE NotNoted
    BY <2>2 DEF NotNoted, NoLostWakeup, HasWork
  <2> QED
    BY <1>2, <2>1, <2>2, OutsideOutcomes
<1>3. CASE Reboot
  BY <1>3 DEF Reboot, NoLostWakeup, HasWork, NoWork
<1>4. CASE Wake \/ RetryFires \/ HandleExit \/ BeginRemove \/ BeginApply \/ BeginRestart
  <2>1. pc' \in {"work", "inspect", "volume"}
    BY <1>4 DEF Wake, RetryFires, HandleExit, BeginRemove, BeginApply, BeginRestart, BeginCall
  <2> QED
    BY <2>1 DEF NoLostWakeup
<1>5. CASE Take
  BY <1>5 DEF Take, NoLostWakeup, HasWork
<1>6. CASE CallStep
  <2>1. CASE Continues
    BY <2>1 DEF Continues, NoLostWakeup
  <2>2. CASE Returns
    BY <2>2 DEF Returns, FinishCall, NoLostWakeup
  <2>3. CASE Removed
    BY <2>3 DEF Removed, FinishRemove, NoLostWakeup, HasWork, NoWork
  <2> QED
    BY <1>6, <2>1, <2>2, <2>3, CallStepOutcomes
<1> QED
  BY <1>1, <1>2, <1>3, <1>4, <1>5, <1>6, NextCases

\* Whenever run sleeps with something recorded its channel holds a token, and a worker
\* that retired has nothing recorded (worker.go poke and run, agent.go retire).
THEOREM NoRequestIsSleptThrough == Spec => []NoLostWakeup
<1>1. Init => NoLostWakeup
  BY DEF Init, NoLostWakeup, HasWork, NoWork
<1> QED
  BY <1>1, InitCore, NextCore, NoLostWakeupStep, PTL DEF Spec

-----------------------------------------------------------------------------
(* What is taken as applied is in force.                                   *)

\* A step that moves neither spec, applied, call nor disk, and at most stops the
\* container, leaves all of it true, as long as the apply in flight stays where it is.
SameOrDown == box' = box \/ (box # NoBox /\ box' = [box EXCEPT !.running = FALSE])
LEMMA SameOrDownBox == ASSUME Core, SameOrDown
  PROVE /\ box' = NoBox <=> box = NoBox
        /\ box # NoBox => /\ box'.deploy = box.deploy /\ box'.cfg = box.cfg
                          /\ box'.running => box.running
<1>1. CASE box' = box
  BY <1>1
<1>2. CASE box # NoBox /\ box' = [box EXCEPT !.running = FALSE]
  <2>1. box \in Container /\ box' \in Container
    BY <1>2, Switched DEF Core, TypeOK, DockerTypes
  <2> QED
    BY <1>2, <2>1, NilSpecAssumption DEF Container
<1> QED
  BY <1>1, <1>2 DEF SameOrDown

LEMMA OutsideBox == ASSUME Outside PROVE SameOrDown
  BY DEF Outside, Request, Sync, BoxExits, WatchDie, TimePasses, docker, SameOrDown

SpecInForce == AppliedIsInForce /\ Applying

LEMMA ForceKept == ASSUME Core, SpecInForce, SameOrDown, UNCHANGED <<spec, applied, softErr, disk, call>>,
    pc' = pc \/ call = "none"
  PROVE SpecInForce'
<1>1. AppliedIsInForce'
  BY SameOrDownBox DEF SpecInForce, AppliedIsInForce
<1>2. Applying'
  <2>1. CASE call # "apply"
    BY <2>1 DEF Applying
  <2>2. CASE call = "apply"
    <3>1. pc' = pc /\ (pc \in {"start", "stop", "look"} => box # NoBox)
      BY <2>2 DEF Core, CallAt
    <3> QED
      BY <2>2, <3>1, SameOrDownBox DEF SpecInForce, Applying
  <2> QED
    BY <2>1, <2>2
<1> QED
  BY <1>1, <1>2 DEF SpecInForce

\* A call that starts is not an apply, or is at its very beginning.
LEMMA ForceAtBegin == ASSUME Core, SpecInForce, UNCHANGED <<box, disk, applied>>, call = "none",
    \/ spec' = spec /\ call' # "apply"
    \/ call' = "apply" /\ pc' = "volume"
  PROVE SpecInForce'
  BY DEF SpecInForce, AppliedIsInForce, Applying

\* An apply that returns without error has made the spec true.
Made == spec.deploy # NoDeploy => /\ disk = spec.deploy
                                  /\ box # NoBox /\ box.deploy = disk /\ box.cfg = spec.cfg

LEMMA ForceAtReturn == ASSUME Core, SpecInForce, NEW inst, NEW failed \in BOOLEAN, FinishCall(inst, failed),
    \/ call = "apply" /\ (failed \/ Made')
    \/ call \in {"crashRestart", "restart"} /\ SameOrDown /\ disk' = disk
  PROVE SpecInForce'
<1>1. call' = "none" /\ spec' = spec
  BY DEF FinishCall
<1>2. CASE call = "apply" /\ failed
  BY <1>1, <1>2 DEF FinishCall, AppliedAfter, SpecInForce, AppliedIsInForce, Applying
<1>3. CASE call = "apply" /\ ~failed
  BY <1>1, <1>3 DEF FinishCall, AppliedAfter, SpecInForce, AppliedIsInForce, Applying, Made
<1>4. CASE call \in {"crashRestart", "restart"} /\ SameOrDown /\ disk' = disk
  <2>1. applied' = applied
    BY <1>4 DEF FinishCall
  <2> QED
    BY <1>1, <1>4, <2>1, SameOrDownBox DEF SpecInForce, AppliedIsInForce, Applying
<1> QED
  BY <1>2, <1>3, <1>4

LEMMA ForceAtAbort == ASSUME Core, SpecInForce, call # "none", Abort, SameOrDown \/ call \in {"apply", "remove"},
                             disk' = disk
  PROVE SpecInForce'
<1>1. CASE call = "remove"
  BY <1>1 DEF Abort, FinishRemove, SpecInForce, AppliedIsInForce, Applying
<1>2. CASE call # "remove"
  BY <1>2, ForceAtReturn DEF Abort, Core, TypeOK, WorkerTypes
<1> QED
  BY <1>1, <1>2

\* While the bot is only restarted its container keeps its code and configuration.
LEMMA ForceInRestart == ASSUME Core, SpecInForce, call \in {"crashRestart", "restart", "remove"}, GoOn(pc'),
    disk' = disk, call # "remove" => box \in Container /\ \E b \in BOOLEAN : box' = [box EXCEPT !.running = b]
  PROVE SpecInForce'
<1>1. call' = call /\ UNCHANGED <<spec, applied>>
  BY DEF GoOn
<1>2. CASE call = "remove"
  BY <1>1, <1>2 DEF SpecInForce, AppliedIsInForce, Applying
<1>3. CASE call # "remove"
  <2>1. PICK b \in BOOLEAN : box' = [box EXCEPT !.running = b]
    BY <1>3
  <2>2. box' \in Container /\ box'.deploy = box.deploy /\ box'.cfg = box.cfg
    BY <1>3, <2>1 DEF Container
  <2> QED
    BY <1>1, <1>3, <2>2, NilSpecAssumption DEF SpecInForce, AppliedIsInForce, Applying
<1> QED
  BY <1>2, <1>3

LEMMA VolumeForce == ASSUME Core, SpecInForce, Volume PROVE SpecInForce'
<1>1. call = "apply" /\ spec \in BotSpec /\ spec.deploy \in Deploys \cup {NoDeploy} /\ pc = "volume"
  BY DEF Volume, Core, CallAt, TypeOK, WorkerTypes, BotSpec
<1>2. CASE Abort /\ UNCHANGED docker
  BY <1>1, <1>2, ForceAtAbort DEF docker
<1>3. CASE ~(Abort /\ UNCHANGED docker)
  <2>1. /\ call' = call /\ spec' = spec
        /\ disk' = IF disk = NoVolume THEN NoDeploy ELSE disk
        /\ IF spec.deploy # NoDeploy /\ spec.deploy # disk THEN pc' = "deploy" ELSE pc' = "inspect"
    BY <1>3 DEF Volume, Breaks
  <2>2. pc' = "inspect" /\ spec.deploy # NoDeploy => disk' = spec.deploy
    BY <1>1, <2>1, NilAssumption
  <2> QED
    BY <1>1, <2>1, <2>2 DEF SpecInForce, AppliedIsInForce, Applying
<1> QED
  BY <1>2, <1>3

LEMMA DeployForce == ASSUME Core, SpecInForce, Deploy PROVE SpecInForce'
<1>1. call = "apply" /\ call' = "apply" /\ pc' = "inspect" /\ spec' = spec
  BY DEF Deploy, Core, CallAt
<1>2. disk' = spec.deploy \/ softErr'
  BY DEF Deploy
<1> QED
  BY <1>1, <1>2 DEF SpecInForce, AppliedIsInForce, Applying

LEMMA InspectForce == ASSUME Core, SpecInForce, Inspect PROVE SpecInForce'
<1>1. pc = "inspect" /\ UNCHANGED <<box, disk>> /\ call # "none" /\ SameOrDown
  BY InCall DEF Inspect, docker, SameOrDown
<1>2. CASE Abort
  BY <1>1, <1>2, ForceAtAbort
<1>3. CASE call = "apply" /\ ApplyNext = "nothing" /\ FinishCall(NoBox, softErr)
  <2>1. disk = NoDeploy
    BY <1>3 DEF ApplyNext, Switch
  <2>2. softErr \/ Made'
    BY <1>1, <1>3, <2>1 DEF SpecInForce, Applying, Made, FinishCall
  <2> QED
    BY <1>3, <2>2, ForceAtReturn DEF Core, TypeOK, WorkerTypes
<1>4. CASE call = "apply" /\ ApplyNext # "nothing" /\ GoOn(ApplyNext)
  <2>1. pc' = ApplyNext /\ UNCHANGED <<call, spec, softErr, applied>>
    BY <1>4 DEF GoOn
  <2>2. ApplyNext \in {"start", "stop", "look"} => SpecHashMatches /\ ApplyNext = Switch
    BY DEF ApplyNext
  <2>3. /\ pc' \in {"start", "stop", "look"} => box.deploy = disk /\ box.cfg = spec.cfg
        /\ pc' = "start" => spec.desired = "running"
        /\ pc' = "look" /\ spec.desired = "stopped" => ~box.running
    BY <2>1, <2>2 DEF SpecHashMatches, Switch
  <2> HIDE DEF ApplyNext
  <2> QED
    BY <1>1, <1>4, <2>1, <2>3 DEF SpecInForce, AppliedIsInForce, Applying
<1>5. CASE call \in {"crashRestart", "restart"} /\ FinishCall(NoBox, TRUE)
  BY <1>1, <1>5, ForceAtReturn
<1>6. CASE call \in {"crashRestart", "restart", "remove"} /\ \E at : GoOn(at)
  <2>1. call' = call /\ UNCHANGED <<spec, applied, box, disk>>
    BY <1>1, <1>6 DEF GoOn
  <2> QED
    BY <1>6, <2>1 DEF SpecInForce, AppliedIsInForce, Applying
<1> QED
  BY <1>2, <1>3, <1>4, <1>5, <1>6 DEF Inspect

LEMMA DestroyForce == ASSUME Core, SpecInForce, Destroy PROVE SpecInForce'
<1>1. pc = "destroy" /\ call \in {"apply", "remove"} /\ disk' = disk
  BY DEF Destroy, Core, CallAt
<1>2. CASE Abort
  BY <1>1, <1>2, ForceAtAbort
<1>3. CASE call = "apply" /\ disk = NoDeploy /\ FinishCall(NoBox, softErr)
  <2>1. softErr \/ Made'
    BY <1>1, <1>3 DEF SpecInForce, Applying, Made, FinishCall
  <2> QED
    BY <1>3, <2>1, ForceAtReturn DEF Core, TypeOK, WorkerTypes
<1>4. CASE GoOn("erase") \/ GoOn("create")
  BY <1>1, <1>4 DEF GoOn, SpecInForce, AppliedIsInForce, Applying
<1> QED
  BY <1>1, <1>2, <1>3, <1>4 DEF Destroy

LEMMA CreateForce == ASSUME Core, SpecInForce, Create PROVE SpecInForce'
<1>1. pc = "create" /\ call = "apply" /\ disk' = disk /\ spec \in BotSpec
  BY DEF Create, Core, CallAt, TypeOK, WorkerTypes
<1>2. CASE Abort
  BY <1>1, <1>2, ForceAtAbort
<1>3. CASE box' = NewBox /\ GoOn(IF spec.desired = "running" THEN "start" ELSE "look")
  <2>1. box'.deploy = disk /\ box'.cfg = spec.cfg /\ box'.running = FALSE
    BY <1>3 DEF NewBox
  <2>2. spec.desired \in {"running", "stopped"}
    BY <1>1 DEF BotSpec
  <2> QED
    BY <1>1, <1>3, <2>1, <2>2 DEF GoOn, SpecInForce, AppliedIsInForce, Applying
<1> QED
  BY <1>2, <1>3 DEF Create

LEMMA StartForce == ASSUME Core, SpecInForce, Start PROVE SpecInForce'
<1>1. pc = "start" /\ call \in {"apply", "crashRestart", "restart"} /\ disk' = disk /\ box \in Container
  BY DEF Start, Core, CallAt, TypeOK, DockerTypes
<1>2. CASE Abort /\ box' = box
  BY <1>1, <1>2, ForceAtAbort DEF SameOrDown
<1>3. CASE box' = [box EXCEPT !.running = TRUE] /\ GoOn("look")
  <2>1. CASE call = "apply"
    <3>1. box'.deploy = box.deploy /\ box'.cfg = box.cfg
      BY <1>1, <1>3 DEF Container
    <3> QED
      BY <1>1, <1>3, <2>1, <3>1 DEF GoOn, SpecInForce, AppliedIsInForce, Applying
  <2>2. CASE call # "apply"
    BY <1>1, <1>3, <2>2, ForceInRestart DEF GoOn
  <2> QED
    BY <2>1, <2>2
<1> QED
  BY <1>2, <1>3 DEF Start

LEMMA StopForce == ASSUME Core, SpecInForce, Stop PROVE SpecInForce'
<1>1. /\ pc = "stop" /\ call \in {"apply", "crashRestart", "restart"} /\ disk' = disk
      /\ box \in Container /\ box # NoBox
  BY DEF Stop, Core, CallAt, TypeOK, DockerTypes
<1>2. box' = box \/ box' = [box EXCEPT !.running = FALSE]
  BY DEF Stop
<1>3. CASE Abort
  BY <1>1, <1>2, <1>3, ForceAtAbort DEF SameOrDown
<1>4. CASE box' = [box EXCEPT !.running = FALSE] /\ GoOn(IF call = "apply" THEN "look" ELSE "start")
  <2>1. CASE call = "apply"
    <3>1. box'.deploy = box.deploy /\ box'.cfg = box.cfg /\ ~box'.running
      BY <1>1, <1>4 DEF Container
    <3> QED
      BY <1>1, <1>4, <2>1, <3>1 DEF GoOn, SpecInForce, AppliedIsInForce, Applying
  <2>2. CASE call # "apply"
    BY <1>1, <1>4, <2>2, ForceInRestart DEF GoOn
  <2> QED
    BY <2>1, <2>2
<1> QED
  BY <1>3, <1>4 DEF Stop

LEMMA LookForce == ASSUME Core, SpecInForce, Look PROVE SpecInForce'
<1>1. pc = "look" /\ call \in {"apply", "crashRestart", "restart"} /\ UNCHANGED <<box, disk>> /\ box # NoBox
  BY DEF Look, docker, Core, CallAt
<1>2. CASE Abort
  BY <1>1, <1>2, ForceAtAbort DEF SameOrDown
<1>3. CASE FinishCall(box, softErr)
  <2>1. call = "apply" => softErr \/ Made'
    BY <1>1, <1>3 DEF SpecInForce, Applying, Made, FinishCall
  <2> QED
    BY <1>1, <1>3, <2>1, ForceAtReturn DEF SameOrDown, Core, TypeOK, WorkerTypes
<1> QED
  BY <1>2, <1>3 DEF Look

LEMMA EraseForce == ASSUME Erase PROVE SpecInForce'
  BY DEF Erase, FinishRemove, SpecInForce, AppliedIsInForce, Applying

LEMMA ForceStep == Core /\ SpecInForce /\ [Next]_vars => SpecInForce'
<1> SUFFICES ASSUME Core, SpecInForce, [Next]_vars PROVE SpecInForce'
  OBVIOUS
<1>1. CASE UNCHANGED vars
  BY <1>1 DEF vars, worker, docker, SpecInForce, AppliedIsInForce, Applying
<1>2. CASE Outside
  <2>1. pc' = pc \/ call = "none"
    BY <1>2, OutsideOutcomes DEF Noted, NotNoted, Core, CallAt
  <2> QED
    BY <1>2, <2>1, OutsideOutcomes, OutsideBox, ForceKept DEF OutsideKeeps
<1>3. CASE Reboot
  BY <1>3 DEF Reboot, SpecInForce, AppliedIsInForce, Applying
<1>4. CASE Wake \/ Take \/ HandleExit
  BY <1>4, ForceKept DEF Wake, Take, HandleExit, OpFree, docker, SameOrDown, Core, CallAt
<1>5. CASE RetryFires
  <2>1. call' = call \/ call' = "crashRestart"
    BY <1>5 DEF RetryFires, BeginCall, OpFree
  <2> QED
    BY <1>5, <2>1, ForceAtBegin DEF RetryFires, docker, Core, CallAt
<1>6. CASE BeginRemove \/ BeginRestart
  BY <1>6, ForceAtBegin DEF BeginRemove, BeginRestart, BeginCall, docker, Core, CallAt
<1>7. CASE BeginApply
  <2>1. call = "none" /\ UNCHANGED <<box, disk, applied>>
    BY <1>7 DEF BeginApply, docker, Core, CallAt
  <2>2. CASE Skipped
    <3>1. call' = call /\ spec' = applied
      BY <1>7, <2>2 DEF BeginApply, OpFree, Skipped
    <3> QED
      BY <2>1, <3>1 DEF SpecInForce, AppliedIsInForce, Applying
  <2>3. CASE ~Skipped
    BY <1>7, <2>1, <2>3, ForceAtBegin DEF BeginApply, BeginCall
  <2> QED
    BY <2>2, <2>3
<1>8. CASE CallStep
  BY <1>8, VolumeForce, DeployForce, InspectForce, DestroyForce, CreateForce, StartForce, StopForce,
     LookForce, EraseForce DEF CallStep
<1> QED
  BY <1>1, <1>2, <1>3, <1>4, <1>5, <1>6, <1>7, <1>8, NextCases

\* The spec doApply compares with is the one in force (worker.go:189): what is recorded as
\* applied is the newest spec taken, its code is in the volume and in the container.
THEOREM SkippingIsRight == Spec => []AppliedIsInForce
<1>1. Init => SpecInForce
  BY DEF Init, SpecInForce, AppliedIsInForce, Applying
<1>2. SpecInForce => AppliedIsInForce
  BY DEF SpecInForce
<1> QED
  BY <1>1, <1>2, InitCore, NextCore, ForceStep, PTL DEF Spec

-----------------------------------------------------------------------------
(* The retry timer is only set for a bot wanted running.                   *)

\* An apply or removal of any kind that ends that stops the timer first.
RetryOnlyWhenWanted == retry => spec # NoSpec /\ spec.desired = "running"

LEMMA RetryStep == Core /\ SpecInForce /\ RetryOnlyWhenWanted /\ [Next]_vars => RetryOnlyWhenWanted'
<1> SUFFICES ASSUME Core, SpecInForce, RetryOnlyWhenWanted, [Next]_vars PROVE RetryOnlyWhenWanted'
  OBVIOUS
<1>1. CASE UNCHANGED vars
  BY <1>1 DEF vars, worker, RetryOnlyWhenWanted
<1>2. CASE Outside
  BY <1>2, OutsideOutcomes DEF OutsideKeeps, RetryOnlyWhenWanted
<1>3. CASE Reboot \/ RetryFires \/ BeginRemove \/ BeginRestart
  <2>1. ~retry'
    BY <1>3 DEF Reboot, RetryFires, BeginRemove, BeginRestart
  <2> QED
    BY <2>1 DEF RetryOnlyWhenWanted
<1>4. CASE Wake \/ Take
  BY <1>4 DEF Wake, Take, RetryOnlyWhenWanted
<1>5. CASE HandleExit
  <2>1. CASE spec = NoSpec
    BY <1>5, <2>1 DEF HandleExit, RetryOnlyWhenWanted
  <2>2. CASE spec # NoSpec
    <3>1. spec.desired \in {"running", "stopped"}
      BY <2>2 DEF Core, TypeOK, WorkerTypes, BotSpec
    <3> QED
      BY <1>5, <2>2, <3>1 DEF HandleExit, RetryOnlyWhenWanted
  <2> QED
    BY <2>1, <2>2
<1>6. CASE BeginApply
  \* An equal spec leaves the timer alone: it equals the one in force, so it wants the same.
  <2>1. CASE Skipped
    <3>1. job.apply # NoSpec /\ applied = job.apply /\ spec' = applied /\ retry' = retry /\ call = "none"
      BY <1>6, <2>1 DEF BeginApply, Skipped, ApplyStopsRetry, Core, CallAt
    <3>2. applied = spec
      BY <3>1 DEF SpecInForce, AppliedIsInForce
    <3> QED
      BY <3>1, <3>2 DEF RetryOnlyWhenWanted
  <2>2. CASE ~Skipped
    BY <1>6, <2>2 DEF BeginApply, ApplyStopsRetry, RetryOnlyWhenWanted
  <2> QED
    BY <2>1, <2>2
<1>7. CASE CallStep
  <2>1. CASE Continues
    BY <2>1 DEF Continues, RetryOnlyWhenWanted
  <2>2. CASE Returns
    <3>1. spec' = spec
      BY <2>2 DEF Returns, FinishCall
    <3>2. CASE call = "crashRestart"
      BY <3>1, <3>2 DEF RetryOnlyWhenWanted, Core, CallAt
    <3>3. CASE call \in {"apply", "restart"}
      <4>1. retry' = retry
        BY <2>2, <3>3 DEF Returns, FinishCall
      <4> QED
        BY <3>1, <4>1 DEF RetryOnlyWhenWanted
    <3> QED
      BY <2>2, <3>2, <3>3 DEF Returns
  <2>3. CASE Removed
    BY <2>3 DEF Removed, FinishRemove, RetryOnlyWhenWanted, Core, CallAt
  <2> QED
    BY <1>7, <2>1, <2>2, <2>3, CallStepOutcomes
<1> QED
  BY <1>1, <1>2, <1>3, <1>4, <1>5, <1>6, <1>7, NextCases

\* The retry timer runs only for a bot whose newest spec wants it running (worker.go
\* stopRetry at 198, 319 and 340; doApply's early return at 189 leaves it alone).
THEOREM RetryIsWanted == Spec => []RetryOnlyWhenWanted
<1>1. Init => SpecInForce /\ RetryOnlyWhenWanted
  BY DEF Init, SpecInForce, AppliedIsInForce, Applying, RetryOnlyWhenWanted
<1> QED
  BY <1>1, InitCore, NextCore, ForceStep, RetryStep, PTL DEF Spec

-----------------------------------------------------------------------------
(* A stopped bot stays down.                                               *)

LEMMA StoppedKept == ASSUME Core, StoppedStaysDown, SameOrDown, UNCHANGED <<applied, handRun>>,
    call' = call \/ call = "none"
  PROVE StoppedStaysDown'
<1>1. CASE box = NoBox
  BY <1>1, SameOrDownBox DEF StoppedStaysDown
<1>2. CASE box # NoBox
  <2>1. box' # NoBox /\ (box'.running => box.running)
    BY <1>2, SameOrDownBox
  <2> QED
    BY <1>2, <2>1 DEF StoppedStaysDown
<1> QED
  BY <1>1, <1>2

LEMMA StoppedAtAbort == ASSUME Core, StoppedStaysDown, call # "none", Abort, SameOrDown \/ box' = NoBox
  PROVE StoppedStaysDown'
<1>1. CASE call \in {"apply", "remove"}
  <2>1. applied' = NoSpec
    BY <1>1 DEF Abort, FinishCall, FinishRemove, AppliedAfter
  <2> QED
    BY <2>1 DEF StoppedStaysDown
<1>2. CASE call \in {"crashRestart", "restart"}
  <2>1. UNCHANGED <<applied, handRun>>
    BY <1>2 DEF Abort, FinishCall
  <2>2. CASE box' = NoBox
    BY <2>2 DEF StoppedStaysDown
  <2>3. CASE SameOrDown
    <3>1. CASE box = NoBox
      BY <2>3, <3>1, SameOrDownBox DEF StoppedStaysDown
    <3>2. CASE box # NoBox
      <4>1. box' # NoBox /\ (box'.running => box.running)
        BY <2>3, <3>2, SameOrDownBox
      <4> QED
        BY <1>2, <2>1, <3>2, <4>1 DEF StoppedStaysDown
    <3> QED
      BY <3>1, <3>2
  <2> QED
    BY <2>2, <2>3
<1> QED
  BY <1>1, <1>2 DEF Core, TypeOK, WorkerTypes

\* Inside an apply or a removal there is nothing to keep; a restart is by hand, or of a
\* bot that is wanted running.
LEMMA StoppedInCall == ASSUME Core, SpecInForce, call # "none", call' = call, UNCHANGED <<applied, handRun>>
  PROVE StoppedStaysDown'
<1>1. CASE call = "crashRestart"
  BY <1>1 DEF Core, CallAt, SpecInForce, AppliedIsInForce, StoppedStaysDown
<1>2. CASE call = "restart"
  BY <1>2 DEF Core, CallAt, StoppedStaysDown
<1>3. CASE call \in {"apply", "remove"}
  BY <1>3 DEF StoppedStaysDown
<1> QED
  BY <1>1, <1>2, <1>3 DEF Core, TypeOK, WorkerTypes

LEMMA AbortBox == ASSUME Core, CallStep, Abort PROVE SameOrDown \/ box' = NoBox
<1>1. call # "none"
  BY InCall DEF CallStep, Volume, Deploy, Inspect, Destroy, Create, Start, Stop, Look, Erase
<1>2. call' = "none"
  BY DEF Abort, FinishCall, FinishRemove
<1>3. CASE Volume \/ Deploy \/ Inspect \/ Look \/ Erase
  BY <1>1, <1>2, <1>3 DEF Volume, Deploy, Inspect, Look, Erase, docker, SameOrDown
<1>4. CASE Create \/ Start
  BY <1>1, <1>2, <1>4 DEF Create, Start, GoOn, SameOrDown
<1>5. CASE Destroy \/ Stop
  <2>1. box # NoBox
    BY <1>5 DEF Destroy, Stop, Core, CallAt
  <2> QED
    BY <1>5, <2>1 DEF Destroy, Stop, SameOrDown
<1> QED
  BY <1>3, <1>4, <1>5 DEF CallStep

\* A call that returns without failing has no container, or one that is as it should be.
LEMMA ReturnStopped == ASSUME Core, SpecInForce, StoppedStaysDown, FinishCall(box, softErr), pc = "look",
    box' = box
  PROVE StoppedStaysDown'
<1>1. call \in {"apply", "crashRestart", "restart"} /\ call # "none"
  BY DEF Core, CallAt
<1>2. CASE call = "apply"
  <2>1. applied' \in {NoSpec, spec}
    BY <1>2 DEF FinishCall, AppliedAfter
  <2> QED
    BY <1>2, <2>1 DEF SpecInForce, Applying, StoppedStaysDown
<1>3. CASE call = "crashRestart"
  BY <1>3 DEF FinishCall, Core, CallAt, SpecInForce, AppliedIsInForce, StoppedStaysDown
<1>4. CASE call = "restart"
  BY <1>4 DEF FinishCall, Core, CallAt, StoppedStaysDown
<1> QED
  BY <1>1, <1>2, <1>3, <1>4

LEMMA CallStepStopped == ASSUME Core, SpecInForce, StoppedStaysDown, CallStep PROVE StoppedStaysDown'
<1>1. call # "none"
  BY InCall DEF CallStep, Volume, Deploy, Inspect, Destroy, Create, Start, Stop, Look, Erase
<1>2. CASE Continues
  BY <1>1, <1>2, StoppedInCall DEF Continues
<1>3. CASE Removed
  BY <1>3 DEF Removed, FinishRemove, StoppedStaysDown
<1>4. CASE Abort
  BY <1>1, <1>4, AbortBox, StoppedAtAbort
<1>5. CASE Returns /\ ~Abort /\ ~Continues
  <2>1. call # "remove"
    BY <1>5 DEF Returns
  <2>2. CASE Volume \/ Deploy \/ Create \/ Start \/ Stop \/ Erase
    BY <1>5, <2>1, <2>2 DEF Volume, Deploy, Create, Start, Stop, Erase, GoOn, Continues, Core, CallAt
  <2>3. CASE Inspect
    <3>1. box = NoBox /\ box' = box
      BY <1>1, <1>5, <2>1, <2>3 DEF Inspect, docker, ApplyNext, Switch, GoOn, Returns, FinishCall, Abort
    <3> QED
      BY <3>1 DEF StoppedStaysDown
  <2>4. CASE Destroy
    <3>1. box' = NoBox
      BY <1>5, <2>4 DEF Destroy
    <3> QED
      BY <3>1 DEF StoppedStaysDown
  <2>5. CASE Look
    BY <1>5, <2>5, ReturnStopped DEF Look, docker
  <2> QED
    BY <2>2, <2>3, <2>4, <2>5 DEF CallStep
<1> QED
  BY <1>2, <1>3, <1>4, <1>5, CallStepOutcomes

LEMMA StoppedStep == Core /\ SpecInForce /\ StoppedStaysDown /\ [Next]_vars => StoppedStaysDown'
<1> SUFFICES ASSUME Core, SpecInForce, StoppedStaysDown, [Next]_vars PROVE StoppedStaysDown'
  OBVIOUS
<1>1. CASE UNCHANGED vars
  BY <1>1 DEF vars, worker, docker, environment, StoppedStaysDown
<1>2. CASE Outside
  <2>1. UNCHANGED handRun
    BY <1>2 DEF Outside, Request, Sync, BoxExits, WatchDie, TimePasses
  <2> QED
    BY <1>2, <2>1, OutsideOutcomes, OutsideBox, StoppedKept DEF OutsideKeeps
<1>3. CASE Reboot
  BY <1>3 DEF Reboot, StoppedStaysDown
<1>4. CASE Wake \/ Take \/ HandleExit \/ RetryFires
  BY <1>4, StoppedKept DEF Wake, Take, HandleExit, RetryFires, OpFree, docker, environment, SameOrDown,
     Core, CallAt
<1>5. CASE BeginRemove \/ BeginRestart
  BY <1>5 DEF BeginRemove, BeginRestart, BeginCall, StoppedStaysDown
<1>6. CASE BeginApply
  <2>1. CASE Skipped
    BY <1>6, <2>1, StoppedKept DEF BeginApply, OpFree, docker, SameOrDown
  <2>2. CASE ~Skipped
    BY <1>6, <2>2 DEF BeginApply, BeginCall, StoppedStaysDown
  <2> QED
    BY <2>1, <2>2
<1>7. CASE CallStep
  BY <1>7, CallStepStopped
<1> QED
  BY <1>1, <1>2, <1>3, <1>4, <1>5, <1>6, <1>7, NextCases

\* Once a spec that wants the bot stopped is applied its container is down until a restart
\* by hand, whatever exits, retry timers and equal specs come after (worker.go, Apply and
\* Restart in docker.go).
THEOREM StoppedBotStaysDown == Spec => []StoppedStaysDown
<1>1. Init => SpecInForce /\ StoppedStaysDown
  BY DEF Init, SpecInForce, AppliedIsInForce, Applying, StoppedStaysDown
<1> QED
  BY <1>1, InitCore, NextCore, ForceStep, StoppedStep, PTL DEF Spec

-----------------------------------------------------------------------------
(* A bot whose worker retired left nothing behind.                         *)

LEMMA CancelledStep == Core /\ CancelledHasWork /\ [Next]_vars => CancelledHasWork'
<1> SUFFICES ASSUME Core, CancelledHasWork, [Next]_vars PROVE CancelledHasWork'
  OBVIOUS
<1>1. CASE UNCHANGED vars
  BY <1>1 DEF vars, worker, CancelledHasWork, HasWork
<1>2. CASE Outside
  <2>1. CASE Noted
    BY <1>2, <2>1, OutsideOutcomes DEF Noted, OutsideKeeps, CancelledHasWork
  <2>2. CASE NotNoted
    BY <1>2, <2>2, OutsideOutcomes DEF NotNoted, OutsideKeeps, CancelledHasWork, HasWork
  <2> QED
    BY <1>2, <2>1, <2>2, OutsideOutcomes
<1>3. CASE Reboot
  BY <1>3 DEF Reboot, CancelledHasWork
<1>4. CASE Wake \/ Take \/ HandleExit \/ RetryFires \/ BeginRemove \/ BeginRestart \/ BeginApply
  <2>1. call = "none" /\ ~cancelled
    BY <1>4 DEF Wake, Take, HandleExit, RetryFires, BeginRemove, BeginRestart, BeginApply, Core, CallAt,
                CancelledHasWork
  <2>2. cancelled' = cancelled \/ cancelled' = FALSE
    BY <1>4 DEF Wake, Take, HandleExit, RetryFires, BeginRemove, BeginRestart, BeginApply, OpFree, BeginCall
  <2> QED
    BY <2>1, <2>2 DEF CancelledHasWork
<1>5. CASE CallStep
  <2>1. CASE Continues
    BY <2>1 DEF Continues, CancelledHasWork, HasWork
  <2>2. CASE Returns \/ Removed
    BY <2>2 DEF Returns, Removed, FinishCall, FinishRemove, CancelledHasWork
  <2> QED
    BY <1>5, <2>1, <2>2, CallStepOutcomes
<1> QED
  BY <1>1, <1>2, <1>3, <1>4, <1>5, NextCases

LEMMA FaultIsCounted == ASSUME Core, Breaks PROVE used'.faults # 0
<1>1. used \in Counters
  BY DEF Core, TypeOK, EnvironmentTypes
<1>2. used.faults \in Nat /\ used'.faults = used.faults + 1
  BY <1>1 DEF Breaks, Spend, Counters
<1> QED
  BY <1>2

LEMMA OutsideIsNoFault == ASSUME Core, Outside PROVE used'.faults = used.faults
<1>1. used \in Counters
  BY DEF Core, TypeOK, EnvironmentTypes
<1>2. CASE Request
  <2>1. CASE Spend("requests")
    BY <1>1, <2>1 DEF Spend, Counters
  <2>2. CASE used' = [used EXCEPT !.requests = @ + 1, !.restarts = @ + 1]
    BY <1>1, <2>2 DEF Counters
  <2> QED
    BY <1>2, <2>1, <2>2 DEF Request
<1>3. CASE BoxExits
  BY <1>1, <1>3 DEF BoxExits, Spend, Counters
<1>4. CASE Sync \/ WatchDie \/ TimePasses
  BY <1>4 DEF Sync, WatchDie, TimePasses
<1> QED
  BY <1>2, <1>3, <1>4 DEF Outside

LEMMA RetiredStep ==
  Core /\ CancelledHasWork /\ RetiredLeavesNothing /\ [Next]_vars => RetiredLeavesNothing'
<1> SUFFICES ASSUME Core, CancelledHasWork, RetiredLeavesNothing, [Next]_vars,
                    pc' = "gone", used'.faults = 0
             PROVE  box' = NoBox /\ disk' = NoVolume
  BY DEF RetiredLeavesNothing
<1>1. CASE UNCHANGED vars
  BY <1>1 DEF vars, worker, docker, environment, RetiredLeavesNothing
<1>2. CASE Outside
  <2>1. pc = "gone" /\ used.faults = 0
    BY <1>2, OutsideOutcomes, OutsideIsNoFault DEF Noted, NotNoted
  <2> QED
    BY <1>2, <2>1, OutsideOutcomes, OutsideBox, SameOrDownBox DEF OutsideKeeps, RetiredLeavesNothing
<1>3. CASE Reboot
  BY <1>3 DEF Reboot
<1>4. CASE Wake \/ Take \/ HandleExit \/ RetryFires \/ BeginRemove \/ BeginRestart \/ BeginApply
  BY <1>4 DEF Wake, Take, HandleExit, RetryFires, BeginRemove, BeginRestart, BeginApply, BeginCall
<1>5. CASE CallStep
  <2>1. call = "remove" /\ call' = "none" /\ MayRetire /\ ~cancelled
    BY <1>5, CallStepOutcomes DEF Continues, Returns, Removed, FinishCall, FinishRemove, MayRetire,
       CancelledHasWork
  <2>2. ~Fails
    BY <2>1, FaultIsCounted DEF Fails
  <2>3. Erase
    BY <1>5, <2>1, <2>2 DEF CallStep, Volume, Deploy, Inspect, Destroy, Create, Start, Stop, Look,
       GoOn, Core, CallAt
  <2> QED
    BY <2>1, <2>3, FaultIsCounted DEF Erase, Core, CallAt
<1> QED
  BY <1>1, <1>2, <1>3, <1>4, <1>5, NextCases

\* A bot whose worker retired left neither container nor volume when no runtime call failed
\* on its own, also when the removal was cancelled by a second one (worker.go doRemove,
\* agent.go retire).
THEOREM RetiredBotLeavesNothing == Spec => []RetiredLeavesNothing
<1>1. Init => CancelledHasWork /\ RetiredLeavesNothing
  BY DEF Init, CancelledHasWork, RetiredLeavesNothing
<1> QED
  BY <1>1, InitCore, NextCore, CancelledStep, RetiredStep, PTL DEF Spec

-----------------------------------------------------------------------------
(* A container that goes down on its own is noticed.                       *)
(*                                                                         *)
(* Its exit goes from dockerd's events to what is recorded and then to     *)
(* what run has taken; one that the runtime did not ask for is only lost   *)
(* when swallowed says so.  Watched follows it: asleep or at work, a       *)
(* report that is wrong has its exit coming.  After a removal that does    *)
(* not retire the report is stale, and something is left to do that        *)
(* replaces it.                                                            *)

Among(id, s) == \E i \in 1 .. Len(s) : s[i] = id
OwnExit(id, s) == \E i \in 1 .. Len(s) : s[i].id = id /\ ~s[i].asked
Coming(id) == OwnExit(id, dies) \/ Among(id, pend.exits) \/ Among(id, job.exits)

Right ==
  /\ report # NoReport /\ report.st = "running" => box # NoBox /\ (box.running \/ Coming(box.id))
  /\ report # NoReport /\ report.st = "crashed" /\ spec # NoSpec /\ spec.desired = "running" =>
       retry \/ (box # NoBox /\ Coming(box.id))
Stale == pc = "work" /\ container = 0 /\ spec = NoSpec /\ applied = NoSpec /\ (HasWork \/ job # NoWork)

ToStop == call = "apply" /\ spec.desired = "stopped"
ContainerKnown == call = "none" /\ box # NoBox => container \in {0, box.id}
ExitsFirst == /\ pc # "work" => job.exits = <<>>
              /\ pc = "gone" => report = NoReport
Followed == /\ pc = "stop" /\ call = "apply" => spec.desired = "stopped"
            /\ pc = "look" /\ ~ToStop => box.running \/ Coming(box.id) \/ swallowed
Heeded == call = "none" /\ ~swallowed => Right \/ Stale

Watched == ContainerKnown /\ ExitsFirst /\ Followed /\ Heeded

LEMMA Added == ASSUME NEW S, NEW s \in Seq(S), NEW x \in S
  PROVE /\ Append(s, x) \in Seq(S) /\ Len(Append(s, x)) = Len(s) + 1 /\ Len(s) \in Nat
        /\ \A i \in 1 .. Len(s) : Append(s, x)[i] = s[i]
        /\ Append(s, x)[Len(s) + 1] = x
  OBVIOUS

LEMMA Taken == ASSUME NEW S, NEW s \in Seq(S), s # <<>>
  PROVE /\ Tail(s) \in Seq(S) /\ Len(s) \in Nat /\ Len(s) > 0 /\ Len(Tail(s)) = Len(s) - 1 /\ Head(s) = s[1]
        /\ \A i \in 2 .. Len(s) : i - 1 \in 1 .. Len(Tail(s)) /\ Tail(s)[i - 1] = s[i]
  OBVIOUS

LEMMA AmongAdded == ASSUME NEW s \in Seq(Nat), NEW x \in Nat, NEW id
  PROVE /\ Among(id, s) => Among(id, Append(s, x))
        /\ Among(x, Append(s, x))
<1>1. /\ Len(s) \in Nat /\ Len(Append(s, x)) = Len(s) + 1
      /\ \A i \in 1 .. Len(s) : Append(s, x)[i] = s[i]
      /\ Append(s, x)[Len(s) + 1] = x
  BY Added
<1>2. /\ \A i \in 1 .. Len(s) : i \in 1 .. Len(Append(s, x))
      /\ Len(s) + 1 \in 1 .. Len(Append(s, x))
  BY <1>1
<1> QED
  BY <1>1, <1>2 DEF Among

LEMMA AmongTail == ASSUME NEW s \in Seq(Nat), s # <<>>, NEW id, Among(id, s), id # Head(s)
  PROVE Among(id, Tail(s))
<1>1. PICK i \in 1 .. Len(s) : s[i] = id
  BY DEF Among
<1>2. i \in 2 .. Len(s)
  BY <1>1, Taken
<1>3. i - 1 \in 1 .. Len(Tail(s)) /\ Tail(s)[i - 1] = id
  BY <1>1, <1>2, Taken
<1> QED
  BY <1>3 DEF Among

LEMMA OwnAdded == ASSUME NEW s \in Seq(Die), NEW x \in Die, NEW id
  PROVE /\ OwnExit(id, s) => OwnExit(id, Append(s, x))
        /\ x.id = id /\ ~x.asked => OwnExit(id, Append(s, x))
<1>1. /\ Len(s) \in Nat /\ Len(Append(s, x)) = Len(s) + 1
      /\ \A i \in 1 .. Len(s) : Append(s, x)[i] = s[i]
      /\ Append(s, x)[Len(s) + 1] = x
  BY Added
<1>2. /\ \A i \in 1 .. Len(s) : i \in 1 .. Len(Append(s, x))
      /\ Len(s) + 1 \in 1 .. Len(Append(s, x))
  BY <1>1
<1> QED
  BY <1>1, <1>2 DEF OwnExit

LEMMA OwnTail == ASSUME NEW s \in Seq(Die), s # <<>>, NEW id, OwnExit(id, s)
  PROVE OwnExit(id, Tail(s)) \/ (Head(s).id = id /\ ~Head(s).asked)
<1>1. PICK i \in 1 .. Len(s) : s[i].id = id /\ ~s[i].asked
  BY DEF OwnExit
<1>2. CASE i = 1
  BY <1>1, <1>2, Taken
<1>3. CASE i # 1
  <2>1. i \in 2 .. Len(s)
    BY <1>1, <1>3, Taken
  <2>2. i - 1 \in 1 .. Len(Tail(s)) /\ Tail(s)[i - 1] = s[i]
    BY <2>1, Taken
  <2> QED
    BY <1>1, <2>2 DEF OwnExit
<1> QED
  BY <1>2, <1>3

\* What the environment does: an exit is on its way, or was swallowed.
Followers ==
  /\ UNCHANGED <<report, spec, applied, container, retry, call, job>>
  /\ pc' = IF pc = "gone" THEN pc' ELSE pc
  /\ pc = "gone" => pc' \in {"gone", "select"}
  /\ HasWork => HasWork'
  /\ swallowed => swallowed'
  /\ \A id \in Nat : Coming(id) => Coming(id)' \/ swallowed'
  /\ \/ box' = box
     \/ /\ box # NoBox /\ box' # NoBox /\ box'.id = box.id
        /\ box.running => box'.running \/ Coming(box.id)'

LEMMA RecordedExits == ASSUME Core,
    (\E s \in BotSpec : RecordApply(s)) \/ RecordRemove \/ RecordRestart \/ UNCHANGED <<pend, pc>>
  PROVE /\ pend'.exits = pend.exits /\ (HasWork => HasWork')
        /\ pc' = IF pc = "gone" THEN pc' ELSE pc
        /\ pc = "gone" => pc' \in {"gone", "select"}
  BY NilSpecAssumption
     DEF RecordApply, Intent, RecordRemove, RecordRestart, Poke, Core, TypeOK, WorkerTypes, Pending, HasWork

LEMMA OutsideFollows == ASSUME Core, Outside PROVE Followers
<1>0. /\ pend.exits \in Seq(Nat) /\ dies \in Seq(Die) /\ want \in BotSpec \cup {NoSpec}
  BY DEF Core, TypeOK, WorkerTypes, DockerTypes, EnvironmentTypes, Pending
<1>1. CASE Request
  <2>1. UNCHANGED <<report, spec, applied, container, retry, call, job, box, dies, swallowed>>
    BY <1>1 DEF Request, Recorded, docker
  <2>2. pend'.exits = pend.exits /\ (HasWork => HasWork')
        /\ pc' = (IF pc = "gone" THEN pc' ELSE pc) /\ (pc = "gone" => pc' \in {"gone", "select"})
    BY <1>1, RecordedExits DEF Request
  <2> QED
    BY <2>1, <2>2 DEF Followers, Coming
<1>2. CASE Sync
  <2>1. UNCHANGED <<report, spec, applied, container, retry, call, job, box, dies, swallowed>>
    BY <1>2 DEF Sync, Recorded, docker
  <2>2. pend'.exits = pend.exits /\ (HasWork => HasWork')
        /\ pc' = (IF pc = "gone" THEN pc' ELSE pc) /\ (pc = "gone" => pc' \in {"gone", "select"})
    BY <1>0, <1>2, RecordedExits DEF Sync
  <2> QED
    BY <2>1, <2>2 DEF Followers, Coming
<1>3. CASE BoxExits
  <2>1. UNCHANGED <<worker, swallowed>> /\ box \in Container /\ box # NoBox
        /\ box' = [box EXCEPT !.running = FALSE] /\ dies' = Append(dies, [id |-> box.id, asked |-> FALSE])
    BY <1>3 DEF BoxExits, Core, TypeOK, DockerTypes
  <2>2. [id |-> box.id, asked |-> FALSE] \in Die
    BY <2>1 DEF Die, Container
  <2>3. OwnExit(box.id, dies') /\ \A id \in Nat : OwnExit(id, dies) => OwnExit(id, dies')
    BY <1>0, <2>1, <2>2, OwnAdded
  <2>4. box' \in Container /\ box'.id = box.id
    BY <2>1 DEF Container
  <2>5. box' # NoBox
    BY <2>4, NilSpecAssumption
  <2> QED
    BY <2>1, <2>3, <2>4, <2>5 DEF Followers, Coming, worker, HasWork
<1>4. CASE WatchDie
  <2>1. UNCHANGED <<report, spec, applied, container, retry, call, job, box>> /\ dies # <<>> /\ dies' = Tail(dies)
    BY <1>4 DEF WatchDie, Recorded
  <2>2. Head(dies) \in Die /\ Head(dies).id \in Nat /\ Head(dies).asked \in BOOLEAN
    <3>1. Head(dies) \in Die
      BY <1>0, <2>1
    <3> QED
      BY <3>1 DEF Die
  <2>3. CASE Head(dies).id \in expected
    <3>1. swallowed' = (swallowed \/ ~Head(dies).asked) /\ UNCHANGED <<pend, pc>>
      BY <1>4, <2>3 DEF WatchDie
    <3>2. ASSUME NEW id \in Nat, Coming(id), ~swallowed' PROVE Coming(id)'
      BY <1>0, <2>1, <3>1, <3>2, OwnTail DEF Coming
    <3> QED
      BY <2>1, <3>1, <3>2 DEF Followers, HasWork
  <2>4. CASE Head(dies).id \notin expected
    <3>1. /\ pend' = [pend EXCEPT !.exits = Append(@, Head(dies).id)] /\ UNCHANGED swallowed
          /\ pc' = IF pc = "gone" THEN "select" ELSE pc
      BY <1>4, <2>4 DEF WatchDie, RecordExit, Poke
    <3>2. pend'.exits = Append(pend.exits, Head(dies).id)
      BY <3>1 DEF Core, TypeOK, WorkerTypes, Pending
    <3>3. ASSUME NEW id \in Nat, Coming(id) PROVE Coming(id)'
      BY <1>0, <2>1, <2>2, <3>2, <3>3, OwnTail, AmongAdded DEF Coming
    <3>4. HasWork'
      BY <1>4, <2>4, <2>2, ExitIsNoted DEF WatchDie, Noted, Core, TypeOK
    <3> QED
      BY <2>1, <3>1, <3>3, <3>4 DEF Followers
  <2> QED
    BY <2>3, <2>4
<1>5. CASE TimePasses
  BY <1>5 DEF TimePasses, docker, Followers, Coming, HasWork
<1> QED
  BY <1>1, <1>2, <1>3, <1>4, <1>5 DEF Outside

LEMMA OutsideWatched == ASSUME Core, Watched, Outside PROVE Watched'
<1>1. Followers
  BY OutsideFollows
<1>2. box # NoBox => box.id \in Nat /\ box.running \in BOOLEAN
  BY DEF Core, TypeOK, DockerTypes, Container
<1>3. ContainerKnown' /\ ExitsFirst'
  BY <1>1 DEF Followers, Watched, ContainerKnown, ExitsFirst
<1>4. Followed'
  <2>1. pc' \in {"stop", "look"} => pc' = pc /\ box # NoBox
    BY <1>1 DEF Followers, Core, CallAt
  <2> QED
    BY <1>1, <1>2, <2>1 DEF Followers, Watched, Followed, ToStop
<1>5. Heeded'
  <2> SUFFICES ASSUME call = "none", ~swallowed, ~swallowed' PROVE Right' \/ Stale'
    BY <1>1 DEF Followers, Heeded
  <2>1. CASE Right
    <3>1. box # NoBox => box' # NoBox /\ box'.id = box.id /\ (Coming(box.id) => Coming(box.id)')
      BY <1>1, <1>2 DEF Followers
    <3>2. box # NoBox /\ box.running => box'.running \/ Coming(box.id)'
      BY <1>1 DEF Followers
    <3> QED
      BY <1>1, <2>1, <3>1, <3>2 DEF Followers, Right
  <2>2. CASE Stale
    BY <1>1, <2>2 DEF Followers, Stale
  <2> QED
    BY <2>1, <2>2 DEF Watched, Heeded
<1> QED
  BY <1>3, <1>4, <1>5 DEF Watched

\* The loop's steps between calls.
LEMMA LoopTypes == ASSUME Core
  PROVE /\ pend.exits \in Seq(Nat) /\ job.exits \in Seq(Nat) /\ container \in Nat
        /\ pc \in {"gone", "select", "work"} <=> call = "none"
        /\ box # NoBox => box.id \in Nat /\ box.running \in BOOLEAN
  BY DEF Core, CallAt, TypeOK, WorkerTypes, DockerTypes, Pending, Container

\* A call that starts is watched once it is at its end.
LEMMA BeginsWatched == ASSUME Core, ExitsFirst, call' # "none", pc' \in {"volume", "inspect"},
    job.exits = <<>>, job' = job \/ job'.exits = <<>>
  PROVE Watched'
  BY DEF Watched, ContainerKnown, ExitsFirst, Followed, Heeded

LEMMA WakeWatched == ASSUME Core, Watched, Wake PROVE Watched'
<1>1. UNCHANGED <<pend, report, spec, applied, container, retry, call, job, docker, swallowed>>
      /\ pc = "select" /\ pc' = "work" /\ call = "none"
  BY DEF Wake, OpFree, environment, Core, CallAt
<1>2. ~swallowed => Right
  BY <1>1 DEF Watched, Heeded, Stale
<1> QED
  BY <1>1, <1>2 DEF docker, Watched, ContainerKnown, ExitsFirst, Followed, Heeded, Right, Coming

LEMMA TakeWatched == ASSUME Core, Watched, Take PROVE Watched'
<1>1. UNCHANGED <<report, spec, applied, container, retry, call, docker, swallowed>>
      /\ pc = "work" /\ call = "none" /\ job = NoWork
  BY DEF Take, OpFree, environment, Core, CallAt
<1>2. CASE HasWork
  <2>1. job' = pend /\ pend' = NoWork /\ pc' = "work"
    BY <1>1, <1>2 DEF Take
  <2>2. pend # NoWork
    BY <1>2 DEF HasWork, NoWork
  <2>3. \A id : Coming(id) => Coming(id)'
    BY <1>1, <2>1 DEF Coming, docker, NoWork, Among
  <2>4. Right => Right'
    BY <1>1, <2>3 DEF Right, docker
  <2>5. Stale => Stale'
    BY <1>1, <2>1, <2>2 DEF Stale
  <2> QED
    BY <1>1, <2>1, <2>4, <2>5 DEF docker, Watched, ContainerKnown, ExitsFirst, Followed, Heeded
<1>3. CASE ~HasWork
  <2>1. UNCHANGED <<job, pend>> /\ pc' = "select"
    BY <1>1, <1>3 DEF Take
  <2>2. ~Stale
    BY <1>1, <1>3 DEF Stale
  <2>3. job.exits = <<>>
    BY <1>1 DEF NoWork
  <2> QED
    BY <1>1, <2>1, <2>2, <2>3 DEF docker, Watched, ContainerKnown, ExitsFirst, Followed, Heeded, Right, Coming
<1> QED
  BY <1>2, <1>3

\* An exit of another container is ignored, and is not the one that is coming.
LEMMA HandleExitWatched == ASSUME Core, Watched, HandleExit PROVE Watched'
<1>1. /\ UNCHANGED <<pend, spec, applied, container, call, pc, docker, swallowed>>
      /\ pc = "work" /\ call = "none" /\ job.exits # <<>> /\ job.exits \in Seq(Nat)
  BY LoopTypes DEF HandleExit, OpFree, environment
<1>2. job'.exits = Tail(job.exits)
  BY DEF HandleExit, Core, TypeOK, WorkerTypes, Pending
<1>3. ContainerKnown' /\ ExitsFirst' /\ Followed'
  BY <1>1 DEF docker, Watched, ContainerKnown, ExitsFirst, Followed
<1>4. CASE container # 0 /\ Head(job.exits) # container
  <2>1. UNCHANGED <<report, retry>>
    BY <1>4 DEF HandleExit
  <2>2. ~Stale
    BY <1>4 DEF Stale
  <2>3. box # NoBox => (Coming(box.id) => Coming(box.id)')
    BY <1>1, <1>2, <1>4, AmongTail DEF Watched, ContainerKnown, Coming, docker
  <2>4. Right => Right'
    BY <1>1, <2>1, <2>3 DEF Right, docker
  <2> QED
    BY <1>1, <1>3, <2>2, <2>4 DEF Watched, Heeded
<1>5. CASE ~(container # 0 /\ Head(job.exits) # container)
  <2>1. spec # NoSpec => spec.desired \in {"running", "stopped"}
    BY DEF Core, TypeOK, WorkerTypes, BotSpec
  <2>2. Right'
    <3>1. CASE spec # NoSpec /\ spec.desired = "stopped"
      BY <1>1, <1>5, <3>1 DEF HandleExit, Right
    <3>2. CASE ~(spec # NoSpec /\ spec.desired = "stopped")
      BY <1>1, <1>5, <2>1, <3>2 DEF HandleExit, Right
    <3> QED
      BY <3>1, <3>2
  <2> QED
    BY <1>3, <2>2 DEF Watched, Heeded
<1> QED
  BY <1>4, <1>5

LEMMA RetryFiresWatched == ASSUME Core, Watched, RetryFires PROVE Watched'
<1>1. pc = "select" /\ call = "none" /\ job' = job /\ job.exits = <<>>
  BY DEF RetryFires, Core, CallAt, Watched, ExitsFirst
<1>2. CASE spec # NoSpec /\ spec.desired = "running" /\ report # NoReport /\ report.st = "crashed"
  BY <1>1, <1>2, BeginsWatched DEF RetryFires, BeginCall, Watched
<1>3. CASE ~(spec # NoSpec /\ spec.desired = "running" /\ report # NoReport /\ report.st = "crashed")
  <2>1. UNCHANGED <<pend, report, spec, applied, container, call, docker, swallowed>> /\ pc' = "work"
    BY <1>3 DEF RetryFires, OpFree, environment
  <2>2. ~swallowed => Right
    BY <1>1 DEF Watched, Heeded, Stale
  <2> QED
    BY <1>1, <1>3, <2>1, <2>2 DEF docker, Watched, ContainerKnown, ExitsFirst, Followed, Heeded, Right, Coming
<1> QED
  BY <1>2, <1>3

LEMMA BeginWatched == ASSUME Core, SpecInForce, Watched, BeginRemove \/ BeginApply \/ BeginRestart PROVE Watched'
<1>1. pc = "work" /\ call = "none" /\ job.exits = <<>>
  BY DEF BeginRemove, BeginApply, BeginRestart, Core, CallAt
<1>2. job'.exits = <<>>
  BY <1>1 DEF BeginRemove, BeginApply, BeginRestart, NoWork, Core, TypeOK, WorkerTypes, Pending
<1>3. CASE BeginRemove \/ BeginRestart \/ (BeginApply /\ ~Skipped)
  BY <1>1, <1>2, <1>3, BeginsWatched DEF BeginRemove, BeginApply, BeginRestart, BeginCall, Watched
<1>4. CASE BeginApply /\ Skipped
  <2>1. UNCHANGED <<pend, report, applied, container, retry, call, pc, docker, swallowed>>
        /\ job.apply # NoSpec /\ applied = job.apply /\ spec' = job.apply
    BY <1>4 DEF BeginApply, Skipped, ApplyStopsRetry, OpFree
  <2>2. spec' = spec /\ ~Stale
    BY <1>1, <2>1 DEF SpecInForce, AppliedIsInForce, Stale
  <2>3. Right => Right'
    BY <1>1, <1>2, <2>1, <2>2 DEF docker, Right, Coming
  <2> QED
    BY <1>1, <2>1, <2>2, <2>3 DEF docker, Watched, ContainerKnown, ExitsFirst, Followed, Heeded
<1> QED
  BY <1>3, <1>4

LEMMA RebootWatched == ASSUME Core, Reboot PROVE Watched'
<1>1. /\ job' = NoWork /\ spec' = NoSpec /\ box' = box /\ call' = "none"
      /\ pc' \in {"gone", "select"}
  BY DEF Reboot
<1>2. CASE box = NoBox
  BY <1>1, <1>2 DEF Reboot, Watched, ContainerKnown, ExitsFirst, Followed, Heeded, Right, NoWork
<1>3. CASE box # NoBox
  <2>1. PICK st \in IF box.running THEN {"running"} ELSE {"stopped", "crashed"} :
          report' = [st |-> st, err |-> FALSE]
    BY <1>3 DEF Reboot
  <2>2. container' = box.id /\ pc' = "select"
    BY <1>3 DEF Reboot
  <2>3. Right'
    BY <1>1, <1>3, <2>1 DEF Right
  <2> QED
    BY <1>1, <1>3, <2>2, <2>3 DEF Watched, ContainerKnown, ExitsFirst, Followed, Heeded, NoWork
<1> QED
  BY <1>2, <1>3

\* A call that failed or found no container leaves nothing to be noticed.
LEMMA EmptyHandedWatched ==
  ASSUME Core, ExitsFirst, pc # "work", NEW failed \in BOOLEAN, FinishCall(NoBox, failed),
    call \in {"apply", "crashRestart", "restart"}
  PROVE Watched'
<1>1. report' = [st |-> "pending", err |-> failed] /\ container' = 0 /\ call' = "none" /\ pc' = "work"
  BY DEF FinishCall, Observe, StateOf
<1>2. Right'
  BY <1>1 DEF Right
<1> QED
  BY <1>1, <1>2 DEF Watched, ContainerKnown, ExitsFirst, Followed, Heeded

\* A removal that does not retire has something left to do, and knows of no container.
LEMMA RemovedWatched == ASSUME Core, Watched, pc # "work", Removed PROVE Watched'
<1>1. PICK failed \in BOOLEAN : FinishRemove(failed)
  BY DEF Removed
<1>2. /\ job' = job /\ job.exits = <<>> /\ spec' = NoSpec /\ applied' = NoSpec /\ container' = 0 /\ call' = "none"
  BY <1>1 DEF FinishRemove, Watched, ExitsFirst
<1>3. CASE MayRetire
  <2>1. pc' = "gone" /\ report' = NoReport
    BY <1>1, <1>3 DEF FinishRemove
  <2> QED
    BY <1>2, <2>1 DEF Watched, ContainerKnown, ExitsFirst, Followed, Heeded, Right
<1>4. CASE ~MayRetire
  <2>1. pc' = "work" /\ pend' = pend /\ HasWork
    BY <1>1, <1>4 DEF FinishRemove, MayRetire
  <2>2. Stale'
    BY <1>2, <2>1 DEF Stale, HasWork
  <2> QED
    BY <1>2, <2>1, <2>2 DEF Watched, ContainerKnown, ExitsFirst, Followed, Heeded
<1> QED
  BY <1>3, <1>4

LEMMA AbortWatched == ASSUME Core, Watched, pc # "work", call # "none", Abort PROVE Watched'
<1>1. CASE call = "remove"
  BY <1>1, RemovedWatched DEF Abort, Removed
<1>2. CASE call # "remove"
  BY <1>2, EmptyHandedWatched DEF Abort, Watched, Core, TypeOK, WorkerTypes
<1> QED
  BY <1>1, <1>2

\* A call that goes on.
LEMMA GoesOnWatched == ASSUME Core, Watched, pc # "work", call # "none", call' = call, job' = job, Followed',
    pc' \notin {"work", "gone"}
  PROVE Watched'
  BY DEF Watched, ContainerKnown, ExitsFirst, Heeded

LEMMA InspectWatched == ASSUME Core, Watched, Inspect PROVE Watched'
<1>1. pc = "inspect" /\ UNCHANGED <<box, dies, swallowed>> /\ call # "none"
  BY InCall DEF Inspect, docker
<1>2. CASE Abort
  BY <1>1, <1>2, AbortWatched
<1>3. CASE \E failed \in BOOLEAN : FinishCall(NoBox, failed) /\ call \in {"apply", "crashRestart", "restart"}
  BY <1>1, <1>3, EmptyHandedWatched DEF Watched
<1>4. CASE call = "apply" /\ GoOn(ApplyNext) /\ ApplyNext # "nothing"
  <2>1. /\ pc' = ApplyNext /\ ApplyNext \in {"destroy", "create", "start", "stop", "look"}
        /\ UNCHANGED <<call, job, spec>>
    BY <1>4 DEF GoOn, ApplyNext, Switch
  <2>2. /\ ApplyNext = "stop" => spec.desired = "stopped"
        /\ ApplyNext = "look" => box.running \/ ~(spec.desired = "running")
    BY DEF ApplyNext, Switch
  <2>3. spec.desired \in {"running", "stopped"}
    BY <1>4 DEF Core, CallAt, TypeOK, WorkerTypes, BotSpec
  <2>4. Followed'
    <3> HIDE DEF ApplyNext
    <3> QED
      BY <1>1, <1>4, <2>1, <2>2, <2>3 DEF Followed, ToStop
  <2> HIDE DEF ApplyNext
  <2> QED
    BY <1>1, <2>1, <2>4, GoesOnWatched
<1>5. CASE call # "apply" /\ \E at \in {"stop", "start", "erase", "destroy"} : GoOn(at)
  <2>1. UNCHANGED <<call, job>> /\ pc' \in {"stop", "start", "erase", "destroy"}
    BY <1>5 DEF GoOn
  <2>2. Followed'
    BY <1>5, <2>1 DEF Followed
  <2> QED
    BY <1>1, <2>1, <2>2, GoesOnWatched
<1>6. softErr \in BOOLEAN
  BY DEF Core, TypeOK, WorkerTypes
<1> HIDE DEF ApplyNext
<1> QED
  BY <1>2, <1>3, <1>4, <1>5, <1>6 DEF Inspect

LEMMA CreateWatched == ASSUME Core, Watched, Create PROVE Watched'
<1>1. pc = "create" /\ call = "apply" /\ spec.desired \in {"running", "stopped"}
  BY DEF Create, Core, CallAt, TypeOK, WorkerTypes, BotSpec
<1>2. CASE Abort
  BY <1>1, <1>2, AbortWatched
<1>3. CASE GoOn(IF spec.desired = "running" THEN "start" ELSE "look")
  <2>1. UNCHANGED <<call, job, spec>> /\ pc' \in {"start", "look"} /\ (pc' = "look" => spec.desired = "stopped")
    BY <1>1, <1>3 DEF GoOn
  <2>2. Followed'
    BY <1>1, <2>1 DEF Followed, ToStop
  <2> QED
    BY <1>1, <2>1, <2>2, GoesOnWatched
<1> QED
  BY <1>2, <1>3 DEF Create

LEMMA StartWatched == ASSUME Core, Watched, Start PROVE Watched'
<1>1. pc = "start" /\ call # "none" /\ box \in Container
  BY DEF Start, Core, CallAt, TypeOK, DockerTypes
<1>2. CASE Abort
  BY <1>1, <1>2, AbortWatched
<1>3. CASE GoOn("look") /\ box' = [box EXCEPT !.running = TRUE]
  <2>1. UNCHANGED <<call, job>> /\ pc' = "look" /\ box'.running
    BY <1>1, <1>3 DEF GoOn, Container
  <2>2. Followed'
    BY <2>1 DEF Followed
  <2> QED
    BY <1>1, <2>1, <2>2, GoesOnWatched
<1> QED
  BY <1>2, <1>3 DEF Start

LEMMA StopWatched == ASSUME Core, Watched, Stop PROVE Watched'
<1>1. pc = "stop" /\ call # "none"
  BY DEF Stop, Core, CallAt
<1>2. CASE Abort
  BY <1>1, <1>2, AbortWatched
<1>3. CASE GoOn(IF call = "apply" THEN "look" ELSE "start")
  <2>1. UNCHANGED <<call, job, spec>> /\ pc' = IF call = "apply" THEN "look" ELSE "start"
    BY <1>3 DEF GoOn
  <2>2. Followed'
    BY <1>1, <2>1 DEF Watched, Followed, ToStop
  <2> QED
    BY <1>1, <2>1, <2>2, GoesOnWatched
<1> QED
  BY <1>2, <1>3 DEF Stop

\* What the call found is reported: a container that is down has its exit coming.
LEMMA LookWatched == ASSUME Core, Watched, Look PROVE Watched'
<1>1. /\ pc = "look" /\ call \in {"apply", "crashRestart", "restart"} /\ UNCHANGED <<docker, swallowed>>
      /\ box # NoBox /\ box \in Container
  BY DEF Look, Core, CallAt, TypeOK, DockerTypes
<1>2. CASE Abort
  BY <1>1, <1>2, AbortWatched
<1>3. CASE FinishCall(box, softErr)
  <2>1. call' = "none" /\ pc' = "work" /\ UNCHANGED <<pend, job, spec>>
    BY <1>3 DEF FinishCall
  <2>2. PICK desired \in {"running", "stopped"} : 
          /\ Observe(box, desired, softErr)
          /\ desired = "stopped" => spec # NoSpec /\ spec.desired = "stopped"
          /\ ToStop => desired = "stopped"
    BY <1>1, <1>3 DEF FinishCall, ToStop, Core, CallAt, TypeOK, WorkerTypes, BotSpec
  <2>3. /\ container' = box.id /\ report' = [st |-> StateOf(box, desired), err |-> softErr]
    BY <1>1, <2>2 DEF Observe
  <2>4. StateOf(box, desired) =
          IF box.running THEN "running" ELSE IF desired = "stopped" THEN "stopped" ELSE "crashed"
    BY <1>1 DEF StateOf
  <2>5. UNCHANGED <<box, dies>> /\ (Coming(box.id)' <=> Coming(box.id))
    BY <1>1, <2>1 DEF docker, Coming
  <2>6. ~swallowed => Right'
    <3>1. ~swallowed /\ ~ToStop => box.running \/ Coming(box.id)
      BY <1>1 DEF Watched, Followed
    <3>2. spec = NoSpec \/ spec.desired # "stopped" => ~ToStop
      BY DEF ToStop, Core, CallAt
    <3> QED
      BY <1>1, <2>1, <2>2, <2>3, <2>4, <2>5, <3>1, <3>2 DEF Right
  <2> QED
    BY <1>1, <2>1, <2>3, <2>5, <2>6 DEF Watched, ContainerKnown, ExitsFirst, Followed, Heeded
<1> QED
  BY <1>2, <1>3 DEF Look

LEMMA OtherCallsWatched == ASSUME Core, Watched, Volume \/ Deploy \/ Destroy \/ Erase PROVE Watched'
<1>1. call # "none" /\ pc # "work"
  BY InCall DEF Volume, Deploy, Destroy, Erase
<1>2. CASE Abort
  BY <1>1, <1>2, AbortWatched
<1>3. CASE Erase
  BY <1>1, <1>3, RemovedWatched DEF Erase, Removed, Core, CallAt
<1>4. CASE Destroy /\ FinishCall(NoBox, softErr) /\ call # "remove"
  BY <1>1, <1>4, EmptyHandedWatched DEF Watched, Core, TypeOK, WorkerTypes
<1>5. CASE UNCHANGED <<call, job>> /\ pc' \in {"deploy", "inspect", "erase", "create"}
  <2>1. Followed'
    BY <1>5 DEF Followed
  <2> QED
    BY <1>1, <1>5, <2>1, GoesOnWatched
<1> QED
  BY <1>2, <1>3, <1>4, <1>5 DEF Volume, Deploy, Destroy, GoOn

LEMMA WatchedStep == Core /\ SpecInForce /\ Watched /\ [Next]_vars => Watched'
<1> SUFFICES ASSUME Core, SpecInForce, Watched, [Next]_vars PROVE Watched'
  OBVIOUS
<1>1. CASE UNCHANGED vars
  BY <1>1 DEF vars, worker, docker, environment, Watched, ContainerKnown, ExitsFirst, Followed, Heeded, Right,
     Stale, Coming, ToStop, HasWork
<1>2. CASE CallStep
  BY <1>2, InspectWatched, CreateWatched, StartWatched, StopWatched, LookWatched, OtherCallsWatched DEF CallStep
<1> QED
  BY <1>1, <1>2, NextCases, OutsideWatched, RebootWatched, WakeWatched, RetryFiresWatched, TakeWatched,
     HandleExitWatched, BeginWatched

\* A container that went down on its own is noticed (worker.go recordExit, handleExit and
\* crashRestart; docker.go expect and watchEvents): whatever was restarted, applied or failed
\* around it, an asleep worker that reports its bot running is right or has the exit coming,
\* and one that reports it crashed has its retry set, unless an exit was taken for an
\* expected one.
THEOREM ExitsAreNoticed == Spec => []DownIsNoticed
<1>1. Init => SpecInForce /\ Watched
  BY DEF Init, SpecInForce, AppliedIsInForce, Applying, Watched, ContainerKnown, ExitsFirst, Followed, Heeded,
     Right, NoWork
<1>2. Core /\ Watched => DownIsNoticed
  <2> SUFFICES ASSUME Core, Watched, pc = "select", ~swallowed PROVE Noticed
    BY DEF DownIsNoticed
  <2>1. Right /\ job.exits = <<>>
    BY DEF Watched, Heeded, Stale, ExitsFirst, Core, CallAt
  <2>2. \A id : Coming(id) => ExitOnItsWay(id)
    BY <2>1 DEF Coming, Among, OwnExit, ExitOnItsWay
  <2> QED
    BY <2>1, <2>2 DEF Right, Noticed
<1> QED
  BY <1>1, <1>2, InitCore, NextCore, ForceStep, WatchedStep, PTL DEF Spec

-----------------------------------------------------------------------------
(* Supervisor is implemented.  Between the look at the container and the   *)
(* end of a swap or a destroy, nothing else decides on them.               *)

Due ==
  /\ pc = "deploy" => spec.deploy # NoDeploy
  /\ pc = "destroy" /\ call = "apply" => disk = NoDeploy \/ box.deploy # disk \/ box.cfg # spec.cfg

LEMMA AbortIsAway == ASSUME Core, call # "none", Abort PROVE pc' \in {"work", "gone"} /\ call' = "none"
  BY DEF Abort, FinishCall, FinishRemove

LEMMA FinishIsAway == ASSUME NEW inst, NEW failed, FinishCall(inst, failed) PROVE pc' = "work" /\ call' = "none"
  BY DEF FinishCall

LEMMA InspectDue == ASSUME Core, Due, Inspect PROVE Due'
<1>1. call # "none" /\ UNCHANGED <<box, disk>>
  BY InCall DEF Inspect, docker
<1>2. CASE Abort \/ FinishCall(NoBox, softErr) \/ FinishCall(NoBox, TRUE)
  BY <1>1, <1>2, AbortIsAway, FinishIsAway DEF Due
<1>3. CASE call = "apply" /\ GoOn(ApplyNext)
  BY <1>1, <1>3 DEF GoOn, ApplyNext, Switch, SpecHashMatches, Due
<1>4. CASE call \in {"crashRestart", "restart"} /\ GoOn(IF box.running THEN "stop" ELSE "start")
  BY <1>1, <1>4 DEF GoOn, Due
<1>5. CASE call = "remove" /\ GoOn(IF box = NoBox THEN "erase" ELSE "destroy")
  BY <1>1, <1>5 DEF GoOn, Due
<1> QED
  BY <1>2, <1>3, <1>4, <1>5 DEF Inspect

LEMMA DueStep == Core /\ Due /\ [Next]_vars => Due'
<1> SUFFICES ASSUME Core, Due, [Next]_vars PROVE Due'
  OBVIOUS
<1>1. CASE UNCHANGED vars
  BY <1>1 DEF vars, worker, docker, Due
<1>2. CASE Outside
  <2>1. pc' = pc \/ pc' = "select"
    BY <1>2, OutsideOutcomes DEF Noted, NotNoted
  <2>2. pc = "destroy" => box # NoBox
    BY DEF Core, CallAt
  <2> QED
    BY <1>2, <2>1, <2>2, OutsideOutcomes, OutsideBox, SameOrDownBox DEF OutsideKeeps, Due
<1>3. CASE Reboot
  BY <1>3 DEF Reboot, Due
<1>4. CASE Wake \/ RetryFires \/ Take \/ HandleExit \/ BeginRemove \/ BeginApply \/ BeginRestart
  <2>1. pc' \in {"select", "work", "inspect", "volume"}
    BY <1>4 DEF Wake, RetryFires, Take, HandleExit, BeginRemove, BeginApply, BeginRestart, BeginCall
  <2> QED
    BY <2>1 DEF Due
<1>5. CASE Volume
  <2>1. call # "none"
    BY <1>5, InCall DEF Volume
  <2>2. CASE Abort
    BY <2>1, <2>2, AbortIsAway DEF Due
  <2> QED
    BY <1>5, <2>2 DEF Volume, Due
<1>6. CASE Inspect
  BY <1>6, InspectDue
<1>7. CASE Deploy \/ Destroy \/ Create \/ Start \/ Stop \/ Look \/ Erase
  <2>1. call # "none"
    BY <1>7, InCall DEF Deploy, Destroy, Create, Start, Stop, Look, Erase
  <2>2. pc' \notin {"deploy", "destroy"}
    BY <1>7, <2>1, AbortIsAway, FinishIsAway
    DEF Deploy, Destroy, Create, Start, Stop, Look, Erase, GoOn, FinishRemove
  <2> QED
    BY <2>2 DEF Due
<1> QED
  BY <1>1, <1>2, <1>3, <1>4, <1>5, <1>6, <1>7, NextCases DEF CallStep

Follows == [Supervised!Next]_(Supervised!promise)

\* The order is left as it is, and the volume; the container at most goes down.
LEMMA KeepsOrder ==
  ASSUME UNCHANGED <<spec, handRun, disk>>, (call = "remove") <=> (call' = "remove"), SameOrDown
  PROVE  Follows
<1>1. (call = "remove")' = (call = "remove")
  OBVIOUS
<1>2. CASE box' = box
  BY <1>1, <1>2 DEF Follows, Supervised!promise
<1>3. CASE box # NoBox /\ box' = [box EXCEPT !.running = FALSE]
  <2>1. Supervised!GoDown
    BY <1>1, <1>3 DEF Supervised!GoDown, Supervised!Down, Supervised!Apart
  <2> QED
    BY <2>1 DEF Follows, Supervised!Next
<1> QED
  BY <1>2, <1>3 DEF SameOrDown

\* A call that fails or ends.
LEMMA EndFollows == ASSUME Core, call # "none", SameOrDown, disk' = disk,
    Abort \/ (call # "remove" /\ \E inst, failed : FinishCall(inst, failed))
  PROVE Follows
<1>1. call' = "none" /\ handRun' = handRun
  BY DEF Abort, FinishCall, FinishRemove
<1>2. CASE call # "remove"
  <2>1. spec' = spec
    BY <1>2 DEF Abort, FinishCall
  <2> QED
    BY <1>1, <1>2, <2>1, KeepsOrder
<1>3. CASE call = "remove"
  <2>1. spec' = NoSpec
    BY <1>3 DEF Abort, FinishRemove
  <2>2. Supervised!Removed
    BY <1>1, <1>3, <2>1 DEF Supervised!Removed, Supervised!Down, SameOrDown
  <2> QED
    BY <2>2 DEF Follows, Supervised!Next
<1> QED
  BY <1>2, <1>3

LEMMA OutsideFollowsOrder == ASSUME Core, Outside PROVE Follows
<1>1. handRun' = handRun
  BY DEF Outside, Request, Sync, BoxExits, WatchDie, TimePasses
<1> QED
  BY <1>1, OutsideOutcomes, OutsideBox, KeepsOrder DEF OutsideKeeps

LEMMA RebootFollows == ASSUME Reboot PROVE Follows
<1>1. Supervised!Crash
  BY DEF Reboot, Supervised!Crash
<1> QED
  BY <1>1 DEF Follows, Supervised!Next

LEMMA LoopFollows == ASSUME Core, Wake \/ RetryFires \/ Take \/ HandleExit PROVE Follows
<1>1. call = "none" /\ call' \in {"none", "crashRestart"}
  BY DEF Core, CallAt, Wake, RetryFires, Take, HandleExit, OpFree, BeginCall
<1>2. UNCHANGED <<spec, handRun, disk, box>>
  BY DEF Wake, RetryFires, Take, HandleExit, docker, environment
<1> QED
  BY <1>1, <1>2, KeepsOrder DEF SameOrDown

\* The worker takes an order, unless it is the one in force.
LEMMA BeginFollows == ASSUME Core, SpecInForce, BeginRemove \/ BeginApply \/ BeginRestart PROVE Follows
<1>1. call = "none" /\ UNCHANGED <<disk, box>>
  BY DEF Core, CallAt, BeginRemove, BeginApply, BeginRestart, docker
<1>2. CASE BeginRemove
  <2>1. Supervised!Remove
    BY <1>1, <1>2 DEF BeginRemove, BeginCall, Supervised!Remove, environment
  <2> QED
    BY <2>1 DEF Follows, Supervised!Next
<1>3. CASE BeginRestart
  <2>1. Supervised!Restart
    BY <1>1, <1>3 DEF BeginRestart, BeginCall, Supervised!Restart
  <2> QED
    BY <2>1 DEF Follows, Supervised!Next
<1>4. CASE BeginApply /\ Skipped
  <2>1. spec' = spec /\ handRun' = handRun /\ call' = call
    BY <1>1, <1>4 DEF BeginApply, Skipped, OpFree, SpecInForce, AppliedIsInForce
  <2> QED
    BY <1>1, <2>1, KeepsOrder DEF SameOrDown
<1>5. CASE BeginApply /\ ~Skipped
  <2>1. Supervised!Take
    BY <1>1, <1>5 DEF BeginApply, BeginCall, Supervised!Take
  <2> QED
    BY <2>1 DEF Follows, Supervised!Next
<1> QED
  BY <1>2, <1>3, <1>4, <1>5

-----------------------------------------------------------------------------
(* The steps of a call.                                                    *)

LEMMA VolumeFollows == ASSUME Core, Volume PROVE Follows
<1>1. call = "apply" /\ spec # NoSpec
  BY DEF Core, CallAt, Volume
<1>2. CASE Abort /\ UNCHANGED docker
  BY <1>1, <1>2, EndFollows DEF docker, SameOrDown
<1>3. CASE ~(Abort /\ UNCHANGED docker)
  <2>1. UNCHANGED <<spec, handRun, call, box>> /\ disk' = IF disk = NoVolume THEN NoDeploy ELSE disk
    BY <1>3 DEF Volume
  <2>2. CASE disk = NoVolume
    <3>1. Supervised!Prepare
      BY <1>1, <2>1, <2>2 DEF Supervised!Prepare, Supervised!Ordered, Supervised!Apart
    <3> QED
      BY <3>1 DEF Follows, Supervised!Next
  <2>3. CASE disk # NoVolume
    BY <2>1, <2>3, KeepsOrder DEF SameOrDown
  <2> QED
    BY <2>2, <2>3
<1> QED
  BY <1>2, <1>3

LEMMA DeployFollows == ASSUME Core, Due, Deploy PROVE Follows
<1>1. call = "apply" /\ spec # NoSpec /\ disk # NoVolume /\ spec.deploy # NoDeploy
  BY DEF Core, CallAt, Due, Deploy
<1>2. UNCHANGED <<spec, handRun, call, box>>
  BY DEF Deploy
<1>3. CASE disk' = disk
  BY <1>2, <1>3, KeepsOrder DEF SameOrDown
<1>4. CASE disk' = spec.deploy
  <2>1. Supervised!Install
    BY <1>1, <1>2, <1>4 DEF Supervised!Install, Supervised!Ordered, Supervised!Apart
  <2> QED
    BY <2>1 DEF Follows, Supervised!Next
<1> QED
  BY <1>3, <1>4 DEF Deploy

LEMMA LooksFollow == ASSUME Core, Inspect \/ Look PROVE Follows
<1>1. call # "none" /\ (Look => call # "remove") /\ UNCHANGED <<disk, box>>
  BY InCall DEF Core, CallAt, Inspect, Look, docker
<1>2. CASE \E at : GoOn(at)
  BY <1>1, <1>2, KeepsOrder DEF GoOn, SameOrDown
<1>3. CASE ~ \E at : GoOn(at)
  <2>1. Abort \/ (call # "remove" /\ \E inst, failed : FinishCall(inst, failed))
    <3>1. CASE Look
      BY <1>1, <3>1 DEF Look
    <3>2. CASE Inspect
      BY <1>3, <3>2 DEF Inspect
    <3> QED
      BY <3>1, <3>2
  <2> QED
    BY <1>1, <2>1, EndFollows DEF SameOrDown
<1> QED
  BY <1>2, <1>3

LEMMA DestroyFollows == ASSUME Core, Due, Destroy PROVE Follows
<1>1. call # "none" /\ box # NoBox /\ disk' = disk /\ (call # "remove" => call = "apply" /\ spec # NoSpec)
  BY InCall DEF Core, CallAt, Destroy
<1>2. CASE Abort /\ SameOrDown
  BY <1>1, <1>2, EndFollows
<1>3. CASE ~(Abort /\ SameOrDown)
  <2>1. /\ box' = NoBox
        /\ \/ call = "remove" /\ GoOn("erase")
           \/ call # "remove" /\ (FinishCall(NoBox, softErr) \/ GoOn("create"))
    BY <1>1, <1>3 DEF Destroy, SameOrDown
  <2>2. UNCHANGED <<spec, handRun>> /\ ((call = "remove")' = (call = "remove"))
    BY <2>1 DEF GoOn, FinishCall
  <2>3. call = "remove" \/ (spec # NoSpec /\ (disk = NoDeploy \/ ~(box.deploy = disk /\ box.cfg = spec.cfg)))
    BY <1>1 DEF Due, Destroy
  <2>4. Supervised!Destroy
    BY <1>1, <2>1, <2>2, <2>3 DEF Supervised!Destroy, Supervised!AsOrdered, Supervised!Apart
  <2> QED
    BY <2>4 DEF Follows, Supervised!Next
<1> QED
  BY <1>2, <1>3

LEMMA CreateFollows == ASSUME Core, Create PROVE Follows
<1>1. call = "apply" /\ spec # NoSpec /\ box = NoBox /\ disk \in Deploys /\ disk' = disk
  BY DEF Core, CallAt, Create, TypeOK, DockerTypes
<1>2. CASE Abort /\ box' = box
  BY <1>1, <1>2, EndFollows DEF SameOrDown
<1>3. CASE ~(Abort /\ box' = box)
  <2>1. box' = NewBox /\ UNCHANGED <<spec, handRun, call>>
    BY <1>3 DEF Create, GoOn
  <2>2. box' # NoBox
    <3>1. nextId \in Nat /\ spec.cfg \in Configs
      BY <1>1 DEF Core, TypeOK, DockerTypes, WorkerTypes, BotSpec
    <3>2. NewBox \in Container
      BY <1>1, <3>1 DEF NewBox, Container
    <3> QED
      BY <2>1, <3>2, NilSpecAssumption
  <2>3. box'.deploy = disk /\ box'.cfg = spec.cfg /\ ~box'.running
    BY <2>1 DEF NewBox
  <2>4. Supervised!Make
    BY <1>1, <2>1, <2>2, <2>3, NilAssumption
    DEF Supervised!Make, Supervised!Ordered, Supervised!AsOrdered, Supervised!Apart
  <2> QED
    BY <2>4 DEF Follows, Supervised!Next
<1> QED
  BY <1>2, <1>3

\* Nothing is started that nobody wants running.
LEMMA StartFollows == ASSUME Core, SpecInForce, Start PROVE Follows
<1>1. call \in {"apply", "restart", "crashRestart"} /\ box # NoBox /\ disk' = disk
  BY DEF Core, CallAt, Start
<1>2. handRun \/ (spec # NoSpec /\ spec.desired = "running")
  BY <1>1 DEF Core, CallAt, SpecInForce, Applying, Start
<1>3. CASE Abort /\ box' = box
  BY <1>1, <1>3, EndFollows DEF SameOrDown
<1>4. CASE ~(Abort /\ box' = box)
  <2>1. box' = [box EXCEPT !.running = TRUE] /\ UNCHANGED <<spec, handRun, call>>
    BY <1>4 DEF Start, GoOn
  <2>2. Supervised!Start
    BY <1>1, <1>2, <2>1 DEF Supervised!Start, Supervised!Wanted, Supervised!Apart
  <2> QED
    BY <2>2 DEF Follows, Supervised!Next
<1> QED
  BY <1>3, <1>4

LEMMA StopFollows == ASSUME Core, Stop PROVE Follows
<1>1. call # "none" /\ box # NoBox /\ disk' = disk /\ SameOrDown
  BY InCall DEF Core, CallAt, Stop, SameOrDown
<1>2. CASE \E at : GoOn(at)
  BY <1>1, <1>2, KeepsOrder DEF GoOn
<1>3. CASE Abort
  BY <1>1, <1>3, EndFollows
<1> QED
  BY <1>2, <1>3 DEF Stop

LEMMA EraseFollows == ASSUME Core, Erase PROVE Follows
<1>1. call = "remove" /\ box = NoBox /\ box' = box
  BY DEF Core, CallAt, Erase
<1>2. call' = "none" /\ spec' = NoSpec /\ handRun' = handRun
  BY DEF Erase, FinishRemove
<1>3. disk' \in {disk, NoVolume}
  BY DEF Erase
<1>4. Supervised!Removed
  BY <1>1, <1>2, <1>3 DEF Supervised!Removed
<1> QED
  BY <1>4 DEF Follows, Supervised!Next

\* The worker implements Supervisor: it starts a container only for an order that wants it
\* running or a restart by hand, replaces none that is as ordered, installs only the ordered
\* code and deletes data only for a removal and after the container, whatever is requested,
\* exits, fails or crashes in between (worker.go, docker.go converge).
THEOREM WorkerSupervises == Spec => ImplementsSupervisor
<1>1. Init => Supervised!Init /\ Due /\ SpecInForce
  BY DEF Init, Supervised!Init, Due, SpecInForce, AppliedIsInForce, Applying
<1>2. ASSUME Core, SpecInForce, Due, [Next]_vars PROVE [Supervised!Next]_(Supervised!promise)
  <2>1. CASE UNCHANGED vars
    BY <2>1, KeepsOrder DEF vars, worker, docker, environment, SameOrDown, Follows
  <2>2. CASE ~UNCHANGED vars
    BY <1>2, <2>2, NextCases, OutsideFollowsOrder, RebootFollows, LoopFollows, BeginFollows,
       VolumeFollows, DeployFollows, LooksFollow, DestroyFollows, CreateFollows, StartFollows,
       StopFollows, EraseFollows DEF CallStep, Follows
  <2> QED
    BY <2>1, <2>2
<1> QED
  BY <1>1, <1>2, InitCore, NextCore, ForceStep, DueStep, PTL DEF Spec, ImplementsSupervisor, Supervised!Spec
=============================================================================
