------------------------------ MODULE BotWorker ------------------------------
(***************************************************************************)
(* One bot on one node: the worker goroutine that owns it                  *)
(* (internal/agent/worker.go, with withWorker, retire and the priming part *)
(* of hello from internal/agent/agent.go), the Docker runtime calls it     *)
(* makes (Apply, Restart, Remove in internal/runtime/docker.go), and the   *)
(* Docker event stream that tells it about exits.                          *)
(*                                                                         *)
(* A request (bot.apply, bot.remove, bot.restart, an exit event) only      *)
(* records intent under the worker's mutex; the worker goroutine takes     *)
(* everything recorded at once and runs it.  Every Docker API call is one  *)
(* step, so requests, exits and a crash of the agent process fall between  *)
(* any two of them.                                                        *)
(*                                                                         *)
(* Left out: the exit code, the restart counter and the text of errors     *)
(* (a report says only whether it carries one); frames to the panel.       *)
(*                                                                         *)
(* An operator named Bug_X is X with a bug of the kind one makes in this   *)
(* code.  No definition uses it: it is there to be put in X's place, to    *)
(* see that a property notices.                                            *)
(***************************************************************************)
EXTENDS Integers, Sequences, FiniteSets

CONSTANTS
  Deploys,      \* deploy IDs
  Configs,      \* everything else of a spec that is hashed into the container
  NoDeploy,     \* the empty DeployID
  NoVolume,     \* the bot has no volume on this node
  NoSpec, NoBox, NoReport,    \* Go's nil
  BackoffCap,   \* doublings from backoffMin to backoffMax
  MaxRequests,  \* bound: bot.apply, bot.remove and bot.restart received
  MaxRestarts,  \* bound: how many of them may be bot.restart
  MaxExits,     \* bound: exits of the container on its own
  MaxFaults,    \* bound: failing runtime calls
  MaxReboots    \* bound: crashes of the agent process

ASSUME NilAssumption ==
  /\ NoDeploy \notin Deploys
  /\ NoVolume \notin Deploys \cup {NoDeploy}
ASSUME BoundAssumption ==
  /\ BackoffCap \in Nat \ {0}
  /\ MaxRequests \in Nat /\ MaxRestarts \in Nat /\ MaxExits \in Nat
  /\ MaxFaults \in Nat /\ MaxReboots \in Nat

BotSpec == [deploy : Deploys \cup {NoDeploy}, desired : {"running", "stopped"},
          cfg : Configs]
Container == [id : Nat, running : BOOLEAN, deploy : Deploys, cfg : Configs]
BotState == [st : {"pending", "installing", "running", "stopped", "crashed"},
            err : BOOLEAN]
Pending == [apply : BotSpec \cup {NoSpec}, remove : BOOLEAN, restart : BOOLEAN,
          exits : Seq(Nat)]
Die == [id : Nat, asked : BOOLEAN]    \* asked: by the runtime; no code reads it

ASSUME NilSpecAssumption == NoSpec \notin BotSpec /\ NoBox \notin Container /\ NoReport \notin BotState

VARIABLES
  \* guarded by worker.mu
  pend,       \* pendApply, pendRemove, pendRestrt, pendExits
  kick,       \* the one-slot channel run sleeps on
  cancelled,  \* the in-flight op's context has been cancelled
  opDeploy,   \* DeployID of the in-flight apply
  report,     \* the last state set by setState
  \* owned by run
  spec, applied, container, backoff, retry,
  pc,         \* where run is; "gone": the agent has no worker for this bot
  call,       \* the runtime call in flight
  job,        \* what run took from pend and has not handled yet
  softErr,    \* Apply's deployErr or volErr: it goes on, and fails at the end
  aged,       \* time.Since(startedAt) >= healthyAfter
  \* Docker, and the runtime's view of it
  box,        \* the bot's container
  disk,       \* DeployID recorded in the volume
  nextId,     \* container IDs are never reused
  expected,   \* Docker.expected
  dies,       \* die events dockerd has produced and watchEvents not yet read
  \* the environment
  want,       \* what the panel asked for last: a spec, or nothing
  synced,     \* the panel's sync has followed the agent's last start
  swallowed,  \* the container's own exit was taken for one the runtime asked for
  handRun,    \* a restart has run since the last apply that reached Docker
  used        \* how much of each bound is spent

worker == <<pend, kick, cancelled, opDeploy, report, spec, applied, container,
            backoff, retry, pc, call, job, softErr, aged>>
docker == <<box, disk, nextId, expected, dies>>
environment == <<want, synced, swallowed, handRun, used>>
vars == <<worker, docker, environment>>

NoWork == [apply |-> NoSpec, remove |-> FALSE, restart |-> FALSE, exits |-> <<>>]
HasWork == pend.apply # NoSpec \/ pend.remove \/ pend.restart \/ pend.exits # <<>>
Spend(what) == used' = [used EXCEPT ![what] = @ + 1]

Init ==
  /\ pend = NoWork /\ kick = FALSE /\ cancelled = FALSE /\ opDeploy = NoDeploy
  /\ report = NoReport /\ spec = NoSpec /\ applied = NoSpec /\ container = 0
  /\ backoff = 0 /\ retry = FALSE /\ pc = "gone" /\ call = "none" /\ job = NoWork
  /\ softErr = FALSE /\ aged = TRUE
  /\ box = NoBox /\ disk = NoVolume /\ nextId = 1 /\ expected = {} /\ dies = <<>>
  /\ want = NoSpec /\ synced = TRUE /\ swallowed = FALSE /\ handRun = FALSE
  /\ used = [requests |-> 0, restarts |-> 0, exits |-> 0, faults |-> 0, reboots |-> 0]

-----------------------------------------------------------------------------
(* Requests.  withWorker starts a worker when there is none, so a request  *)
(* to a "gone" worker finds a fresh one asleep in its select.              *)

Bug_Poke == UNCHANGED kick /\ pc' = IF pc = "gone" THEN "select" ELSE pc
Poke ==
  /\ kick' = TRUE
  /\ pc' = IF pc = "gone" THEN "select" ELSE pc

Bug_Intent(s) == [pend EXCEPT !.apply = s]    \* pendRemove is not taken back
Intent(s) == [pend EXCEPT !.apply = s, !.remove = FALSE]

\* A new deploy supersedes one still being fetched or installed.
RecordApply(s) ==
  /\ pend' = Intent(s)
  /\ cancelled' = (cancelled \/ (call # "none" /\ opDeploy # NoDeploy /\ s.deploy # opDeploy))
  /\ Poke

RecordRemove ==
  /\ pend' = [pend EXCEPT !.apply = NoSpec, !.restart = FALSE, !.remove = TRUE]
  /\ cancelled' = (cancelled \/ call # "none")
  /\ Poke

RecordRestart ==
  /\ pend' = [pend EXCEPT !.restart = TRUE]
  /\ Poke
  /\ UNCHANGED cancelled

Bug_RecordExit(id) ==     \* no poke
  /\ pend' = [pend EXCEPT !.exits = Append(@, id)]
  /\ pc' = IF pc = "gone" THEN "select" ELSE pc
  /\ UNCHANGED <<cancelled, kick>>
RecordExit(id) ==
  /\ pend' = [pend EXCEPT !.exits = Append(@, id)]
  /\ Poke
  /\ UNCHANGED cancelled

Recorded == UNCHANGED <<opDeploy, report, spec, applied, container, backoff, retry,
                        call, job, softErr, aged>>

Request ==
  /\ used.requests < MaxRequests
  /\ UNCHANGED <<docker, synced, swallowed, handRun>> /\ Recorded
  /\ \/ \E s \in BotSpec : RecordApply(s) /\ want' = s /\ Spend("requests")
     \/ RecordRemove /\ want' = NoSpec /\ Spend("requests")
     \/ /\ used.restarts < MaxRestarts
        /\ RecordRestart
        /\ used' = [used EXCEPT !.requests = @ + 1, !.restarts = @ + 1]
        /\ UNCHANGED want

\* The panel's sync after the agent came back: the bot is in the set, or every
\* bot the agent knows of and the set lacks is removed.
Sync ==
  /\ ~synced /\ synced' = TRUE
  /\ IF want # NoSpec THEN RecordApply(want)
     ELSE IF pc # "gone" THEN RecordRemove
     ELSE UNCHANGED <<pend, cancelled, kick, pc>>
  /\ Recorded /\ UNCHANGED <<docker, want, swallowed, handRun, used>>

-----------------------------------------------------------------------------
(* Docker: a container exits on its own, and the event stream.             *)

BoxExits ==
  /\ box # NoBox /\ box.running /\ used.exits < MaxExits
  /\ box' = [box EXCEPT !.running = FALSE]
  /\ dies' = Append(dies, [id |-> box.id, asked |-> FALSE])
  /\ Spend("exits")
  /\ UNCHANGED <<worker, disk, nextId, expected, want, synced, swallowed, handRun>>

\* An exit the runtime asked for is swallowed, any other goes to the worker.
WatchDie ==
  /\ dies # <<>> /\ dies' = Tail(dies)
  /\ expected' = expected \ {Head(dies).id}
  /\ IF Head(dies).id \in expected
     THEN /\ swallowed' = (swallowed \/ ~Head(dies).asked)
          /\ UNCHANGED <<pend, cancelled, kick, pc>>
     ELSE RecordExit(Head(dies).id) /\ UNCHANGED swallowed
  /\ Recorded /\ UNCHANGED <<box, disk, nextId, want, synced, handRun, used>>

\* Ten minutes pass since startedAt.
TimePasses ==
  /\ aged' = TRUE
  /\ UNCHANGED <<pend, kick, cancelled, opDeploy, report, spec, applied, container,
                 backoff, retry, pc, call, job, softErr, docker,
                 want, synced, swallowed, handRun, used>>

-----------------------------------------------------------------------------
(* The worker's loop.                                                      *)

OpFree == UNCHANGED <<cancelled, opDeploy, call, softErr>>

Wake ==
  /\ pc = "select" /\ kick
  /\ kick' = FALSE /\ pc' = "work"
  /\ OpFree
  /\ UNCHANGED <<pend, report, spec, applied, container, backoff, retry, job, aged,
                 docker, environment>>

\* opContext: from here on a request can cancel the call.
BeginCall(c, d, at) ==
  /\ call' = c /\ opDeploy' = d /\ cancelled' = FALSE /\ softErr' = FALSE
  /\ pc' = at

RetryFires ==
  /\ pc = "select" /\ retry /\ retry' = FALSE
  /\ IF spec # NoSpec /\ spec.desired = "running" /\ report # NoReport /\ report.st = "crashed"
     THEN BeginCall("crashRestart", NoDeploy, "inspect")
     ELSE pc' = "work" /\ OpFree
  /\ UNCHANGED <<pend, kick, report, spec, applied, container, backoff, job, aged,
                 docker, environment>>

Take ==
  /\ pc = "work" /\ job = NoWork
  /\ IF HasWork THEN job' = pend /\ pend' = NoWork /\ UNCHANGED pc
     ELSE pc' = "select" /\ UNCHANGED <<job, pend>>
  /\ OpFree
  /\ UNCHANGED <<kick, report, spec, applied, container, backoff, retry, aged,
                 docker, environment>>

Step(b) == IF b < BackoffCap THEN b + 1 ELSE BackoffCap

HandleExit ==
  /\ pc = "work" /\ job.exits # <<>>
  /\ job' = [job EXCEPT !.exits = Tail(@)]
  /\ IF container # 0 /\ Head(job.exits) # container
     THEN UNCHANGED <<report, backoff, retry>>
     ELSE IF spec # NoSpec /\ spec.desired = "stopped"
     THEN /\ report' = [st |-> "stopped", err |-> FALSE]
          /\ UNCHANGED <<backoff, retry>>
     ELSE /\ report' = [st |-> "crashed", err |-> FALSE]
          /\ IF spec = NoSpec THEN UNCHANGED <<backoff, retry>>
             ELSE /\ backoff' = IF backoff = 0 \/ aged THEN 1 ELSE Step(backoff)
                  /\ retry' = TRUE
  /\ OpFree
  /\ UNCHANGED <<pend, kick, spec, applied, container, pc, aged, docker, environment>>

BeginRemove ==
  /\ pc = "work" /\ job.exits = <<>> /\ job.remove
  /\ job' = NoWork      \* "continue": an apply or restart taken along is dropped
  /\ retry' = FALSE
  /\ BeginCall("remove", NoDeploy, "inspect")
  /\ UNCHANGED <<pend, kick, report, spec, applied, container, backoff, aged,
                 docker, environment>>

\* reflect.DeepEqual: nothing changed since it was applied.
Skipped == applied = job.apply

Bug_StopRetry == retry' = FALSE              \* before the comparison
ApplyStopsRetry == IF Skipped THEN UNCHANGED retry ELSE retry' = FALSE

BeginApply ==
  /\ pc = "work" /\ job.exits = <<>> /\ ~job.remove /\ job.apply # NoSpec
  /\ job' = [job EXCEPT !.apply = NoSpec]
  /\ spec' = job.apply
  /\ ApplyStopsRetry
  /\ IF Skipped
     THEN UNCHANGED <<pc, handRun>> /\ OpFree
     ELSE handRun' = FALSE /\ BeginCall("apply", job.apply.deploy, "volume")
  /\ UNCHANGED <<pend, kick, report, applied, container, backoff, aged,
                 docker, want, synced, swallowed, used>>

BeginRestart ==
  /\ pc = "work" /\ job.exits = <<>> /\ ~job.remove /\ job.apply = NoSpec /\ job.restart
  /\ job' = [job EXCEPT !.restart = FALSE]
  /\ retry' = FALSE /\ handRun' = TRUE
  /\ BeginCall("restart", NoDeploy, "inspect")
  /\ UNCHANGED <<pend, kick, report, spec, applied, container, backoff, aged,
                 docker, want, synced, swallowed, used>>

-----------------------------------------------------------------------------
(* The end of a runtime call, back on the worker.                          *)

\* observe: the instance the call returned becomes the reported state. NoBox is an
\* instance without a ContainerID: there is none, or the call failed.
StateOf(inst, desired) ==
  IF inst = NoBox THEN "pending"
  ELSE IF inst.running THEN "running"
  ELSE IF desired = "stopped" THEN "stopped" ELSE "crashed"

\* startedAt is set when the state becomes running, and by every bot.restart.
Restarted(st) ==
  call = "restart" \/ (st = "running" /\ ~(report # NoReport /\ report.st = "running"))

Observe(inst, desired, failed) ==
  LET st == StateOf(inst, desired) IN
  /\ container' = IF inst = NoBox THEN 0 ELSE inst.id
  /\ report' = [st |-> st, err |-> failed]
  /\ aged' = (aged /\ ~Restarted(st))

Bug_AppliedAfter(failed) == spec             \* not reset by an error
AppliedAfter(failed) == IF failed THEN NoSpec ELSE spec

FinishCall(inst, failed) ==
  /\ call' = "none" /\ opDeploy' = NoDeploy /\ cancelled' = FALSE /\ softErr' = FALSE
  /\ pc' = "work"
  /\ CASE call = "apply" ->
            /\ applied' = AppliedAfter(failed)
            /\ Observe(inst, spec.desired, failed)
            /\ UNCHANGED <<backoff, retry>>
       [] call = "crashRestart" ->
            /\ Observe(inst, "running", failed)
            /\ backoff' = IF failed THEN Step(backoff) ELSE backoff
            /\ retry' = failed
            /\ UNCHANGED applied
       [] call = "restart" ->
            /\ Observe(inst, IF failed /\ spec # NoSpec THEN spec.desired ELSE "running", failed)
            /\ backoff' = 0
            /\ UNCHANGED <<applied, retry>>
  /\ UNCHANGED <<pend, kick, spec, job, want, synced, handRun>>

\* retire: only a worker with nothing recorded goes.
Bug_MayRetire == TRUE
MayRetire == ~HasWork

\* A failing Remove is reported, and the worker retires all the same.
FinishRemove(failed) ==
  /\ call' = "none" /\ opDeploy' = NoDeploy /\ cancelled' = FALSE /\ softErr' = FALSE
  /\ spec' = NoSpec /\ applied' = NoSpec /\ container' = 0
  /\ IF MayRetire
     THEN /\ pc' = "gone" /\ report' = NoReport /\ pend' = NoWork /\ kick' = FALSE
          /\ backoff' = 0 /\ retry' = FALSE /\ aged' = TRUE
     ELSE /\ pc' = "work"
          /\ report' = IF failed THEN [st |-> "stopped", err |-> TRUE] ELSE report
          /\ UNCHANGED <<pend, kick, backoff, retry, aged>>
  /\ UNCHANGED <<job, want, synced, handRun>>

\* A failing call returns no ContainerID.
Abort == IF call = "remove" THEN FinishRemove(TRUE) ELSE FinishCall(NoBox, TRUE)

GoOn(at) ==
  /\ pc' = at
  /\ UNCHANGED <<pend, kick, cancelled, opDeploy, report, spec, applied, container,
                 backoff, retry, call, job, softErr, aged, want, synced, handRun>>

\* A call that honours the op's context fails once that is cancelled (or timed
\* out, one of the faults); any call may fail on its own.
Breaks == used.faults < MaxFaults /\ Spend("faults")
Fails == IF cancelled THEN UNCHANGED used ELSE Breaks
Works == ~cancelled /\ UNCHANGED used

-----------------------------------------------------------------------------
(* The runtime calls, one Docker or file-system step at a time.            *)

\* Apply's checks (hardened node, spec) and ensureVolume; then whether to deploy.
\* deployStarted reports "installing" unless the bot is running.
Volume ==
  /\ pc = "volume"
  /\ \/ /\ Breaks /\ Abort
        /\ UNCHANGED <<docker, swallowed>>
     \/ /\ disk' = IF disk = NoVolume THEN NoDeploy ELSE disk
        /\ \/ UNCHANGED <<softErr, used>>
           \/ Breaks /\ softErr' = TRUE     \* errShrink: the volume keeps its size
        /\ IF spec.deploy # NoDeploy /\ spec.deploy # disk
           THEN /\ pc' = "deploy"
                /\ report' = IF report # NoReport /\ report.st = "running" THEN report
                             ELSE [st |-> "installing", err |-> FALSE]
           ELSE pc' = "inspect" /\ UNCHANGED report
        /\ UNCHANGED <<pend, kick, cancelled, opDeploy, spec, applied, container, backoff,
                       retry, call, job, aged, box, nextId, expected, dies,
                       want, synced, swallowed, handRun>>

\* Fetch, install and swap.  A failure leaves the old version in place.
Deploy ==
  /\ pc = "deploy" /\ pc' = "inspect"
  /\ \/ Works /\ disk' = spec.deploy /\ UNCHANGED softErr
     \/ Fails /\ softErr' = TRUE /\ UNCHANGED disk
  /\ UNCHANGED <<pend, kick, cancelled, opDeploy, report, spec, applied, container, backoff,
                 retry, call, job, aged, box, nextId, expected, dies,
                 want, synced, swallowed, handRun>>

Bug_SpecHashMatches ==      \* a container that is down is replaced
  box.running /\ box.deploy = disk /\ box.cfg = spec.cfg
SpecHashMatches == box.deploy = disk /\ box.cfg = spec.cfg

\* What converge does after inspecting the container.
Bug_Switch ==      \* a running bot that is to stop is left alone
  IF spec.desired = "running" /\ ~box.running THEN "start" ELSE "look"
Switch ==
  IF spec.desired = "running" /\ ~box.running THEN "start"
  ELSE IF spec.desired = "stopped" /\ box.running THEN "stop" ELSE "look"

ApplyNext ==
  IF disk = NoDeploy THEN IF box = NoBox THEN "nothing" ELSE "destroy"
  ELSE IF box = NoBox THEN "create"
  ELSE IF SpecHashMatches THEN Switch ELSE "destroy"

Inspect ==
  /\ pc = "inspect" /\ UNCHANGED <<docker, swallowed>>
  /\ \/ Fails /\ Abort
     \/ /\ Works /\ call = "apply"
        /\ IF ApplyNext = "nothing" THEN FinishCall(NoBox, softErr) ELSE GoOn(ApplyNext)
     \/ /\ Works /\ call \in {"crashRestart", "restart"}
        /\ IF box = NoBox THEN FinishCall(NoBox, TRUE)
           ELSE GoOn(IF box.running THEN "stop" ELSE "start")
     \/ Works /\ call = "remove" /\ GoOn(IF box = NoBox THEN "erase" ELSE "destroy")

\* expect, then the stop call: dockerd emits a die event only for a container
\* that was still running.
Stopped ==
  /\ expected' = expected \cup {box.id}
  /\ dies' = IF box.running THEN Append(dies, [id |-> box.id, asked |-> TRUE]) ELSE dies

\* destroyContainer: stop, then remove.  A failure may come after the stop.
Destroy ==
  /\ pc = "destroy" /\ UNCHANGED <<disk, nextId, swallowed>>
  /\ \/ /\ Works /\ Stopped /\ box' = NoBox
        /\ IF call = "remove" THEN GoOn("erase")
           ELSE IF disk = NoDeploy THEN FinishCall(NoBox, softErr) ELSE GoOn("create")
     \/ Fails /\ Stopped /\ box' = [box EXCEPT !.running = FALSE] /\ Abort
     \/ Fails /\ expected' = expected \cup {box.id} /\ UNCHANGED <<box, dies>> /\ Abort

NewBox == [id |-> nextId, running |-> FALSE, deploy |-> disk, cfg |-> spec.cfg]

Create ==
  /\ pc = "create" /\ UNCHANGED <<disk, expected, dies, swallowed>>
  /\ \/ /\ Works
        /\ box' = NewBox
        /\ nextId' = nextId + 1
        /\ GoOn(IF spec.desired = "running" THEN "start" ELSE "look")
     \/ Fails /\ UNCHANGED <<box, nextId>> /\ Abort

Start ==
  /\ pc = "start" /\ UNCHANGED <<disk, nextId, expected, dies>>
  /\ \/ Works /\ box' = [box EXCEPT !.running = TRUE] /\ swallowed' = FALSE /\ GoOn("look")
     \/ Fails /\ UNCHANGED <<box, swallowed>> /\ Abort

Stop ==
  /\ pc = "stop" /\ UNCHANGED <<disk, nextId, swallowed>>
  /\ \/ /\ Works /\ Stopped /\ box' = [box EXCEPT !.running = FALSE]
        /\ GoOn(IF call = "apply" THEN "look" ELSE "start")
     \/ Fails /\ Stopped /\ box' = [box EXCEPT !.running = FALSE] /\ Abort
     \/ Fails /\ expected' = expected \cup {box.id} /\ UNCHANGED <<box, dies>> /\ Abort

\* The final inspect, whose instance the call returns.
Look ==
  /\ pc = "look" /\ UNCHANGED <<docker, swallowed>>
  /\ \/ Works /\ FinishCall(box, softErr)
     \/ Fails /\ Abort

\* Remove's tail: unmount and delete the volume.
Erase ==
  /\ pc = "erase" /\ UNCHANGED <<box, nextId, expected, dies, swallowed>>
  /\ \/ UNCHANGED used /\ disk' = NoVolume /\ FinishRemove(FALSE)
     \/ Breaks /\ UNCHANGED disk /\ FinishRemove(TRUE)

-----------------------------------------------------------------------------
(* The agent process dies and is started again.  Containers and volumes    *)
(* stay; the expected set, the events of the downtime and the worker are   *)
(* lost.  hello primes a worker from what the runtime lists: with no spec  *)
(* yet, a container that is down is "stopped" or "crashed" by exit code.   *)
Reboot ==
  /\ used.reboots < MaxReboots /\ Spend("reboots")
  /\ pend' = NoWork /\ kick' = FALSE /\ cancelled' = FALSE /\ opDeploy' = NoDeploy
  /\ spec' = NoSpec /\ applied' = NoSpec /\ backoff' = 0 /\ retry' = FALSE
  /\ call' = "none" /\ job' = NoWork /\ softErr' = FALSE /\ aged' = TRUE
  /\ expected' = {} /\ dies' = <<>> /\ synced' = FALSE /\ handRun' = FALSE /\ swallowed' = FALSE
  /\ IF box = NoBox /\ disk = NoVolume
     THEN pc' = "gone" /\ container' = 0 /\ report' = NoReport
     ELSE /\ pc' = "select"
          /\ container' = IF box = NoBox THEN 0 ELSE box.id
          /\ \E st \in IF box = NoBox THEN {"pending"}
                       ELSE IF box.running THEN {"running"} ELSE {"stopped", "crashed"} :
                report' = [st |-> st, err |-> FALSE]
  /\ UNCHANGED <<box, disk, nextId, want>>

WorkerStep ==
  \/ Wake \/ RetryFires \/ Take \/ HandleExit \/ BeginRemove \/ BeginApply \/ BeginRestart
  \/ Volume \/ Deploy \/ Inspect \/ Destroy \/ Create \/ Start \/ Stop \/ Look \/ Erase

Next ==
  \/ Request \/ Sync \/ BoxExits \/ WatchDie \/ TimePasses \/ Reboot
  \/ WorkerStep

Spec == Init /\ [][Next]_vars

\* The goroutines of the agent are scheduled, the retry timer fires, dockerd
\* delivers its events, and the panel syncs after a connect.  Requests, exits,
\* faults and reboots owe nothing.
Fairness == WF_vars(WorkerStep) /\ WF_vars(WatchDie) /\ WF_vars(Sync)
FairSpec == Spec /\ Fairness

-----------------------------------------------------------------------------
(* Properties.                                                             *)

WorkerTypes ==
  /\ pend \in Pending /\ job \in Pending
  /\ kick \in BOOLEAN /\ cancelled \in BOOLEAN /\ retry \in BOOLEAN
  /\ softErr \in BOOLEAN /\ aged \in BOOLEAN
  /\ opDeploy \in Deploys \cup {NoDeploy}
  /\ report \in BotState \cup {NoReport}
  /\ spec \in BotSpec \cup {NoSpec} /\ applied \in BotSpec \cup {NoSpec}
  /\ container \in Nat /\ backoff \in 0 .. BackoffCap
  /\ pc \in {"gone", "select", "work", "volume", "deploy", "inspect", "destroy", "create",
             "start", "stop", "look", "erase"}
  /\ call \in {"none", "apply", "crashRestart", "restart", "remove"}
DockerTypes ==
  /\ box \in Container \cup {NoBox}
  /\ disk \in Deploys \cup {NoDeploy, NoVolume}
  /\ nextId \in Nat \ {0} /\ expected \in SUBSET Nat /\ dies \in Seq(Die)
Counters == [{"requests", "restarts", "exits", "faults", "reboots"} -> Nat]
EnvironmentTypes ==
  /\ want \in BotSpec \cup {NoSpec} /\ synced \in BOOLEAN
  /\ swallowed \in BOOLEAN /\ handRun \in BOOLEAN
  /\ used \in Counters

\* Every variable stays in its range. For a container this is more than a type: one
\* is only created from a deploy, never from a volume without code.
TypeOK == WorkerTypes /\ DockerTypes /\ EnvironmentTypes

\* No request is slept through: whenever run is about to sleep with something
\* recorded, the kick channel holds a token, and a retired worker has nothing
\* recorded (poke, the inner loop of run and retire together).
NoLostWakeup ==
  /\ pc = "select" /\ HasWork => kick
  /\ pc = "gone" => ~HasWork

\* The spec doApply compares with is the one in force: outside an apply or a
\* removal, what is recorded as applied is the newest spec taken, and its code
\* and configuration are those of the container. Skipping an equal spec is right
\* only because of this.
AppliedIsInForce ==
  applied # NoSpec /\ call \notin {"apply", "remove"} =>
    /\ applied = spec
    /\ applied.deploy # NoDeploy =>
         /\ disk = applied.deploy
         /\ box # NoBox /\ box.deploy = disk /\ box.cfg = applied.cfg

\* Supervision never starts a bot that was stopped: once a spec that wants it
\* stopped is applied, the container is down until a restart by hand, whatever
\* exits, retry timers and equal specs come after.
StoppedStaysDown ==
  /\ applied # NoSpec /\ call \notin {"apply", "remove"}
  /\ applied.desired = "stopped" /\ ~handRun
  => box = NoBox \/ ~box.running

\* The exit of the current container is still on its way to the worker.
ExitOnItsWay(id) ==
  \/ \E i \in 1 .. Len(dies) : dies[i].id = id
  \/ \E i \in 1 .. Len(pend.exits) : pend.exits[i] = id

\* An asleep worker that reports its bot running, or crashed and to be retried,
\* is right or will hear otherwise.
Noticed ==
  /\ report # NoReport /\ report.st = "running" =>
       box # NoBox /\ (box.running \/ ExitOnItsWay(box.id))
  /\ report # NoReport /\ report.st = "crashed" /\ spec # NoSpec /\ spec.desired = "running" =>
       retry \/ (box # NoBox /\ ExitOnItsWay(box.id))

\* A container that went down on its own is noticed, whatever was restarted,
\* applied or failed around it, unless its exit was taken for an expected one.
DownIsNoticed == pc = "select" /\ ~swallowed => Noticed

\* A bot whose worker retired left neither container nor volume, when nothing
\* failed: also after a second remove cancelled the first, or an agent crash.
RetiredLeavesNothing ==
  pc = "gone" /\ used.faults = 0 => box = NoBox /\ disk = NoVolume

\* Every spec or removal recorded is taken, whatever the worker is doing.
RequestsAreServed == (pend.apply # NoSpec \/ pend.remove) ~> (pend.apply = NoSpec /\ ~pend.remove)

\* The last thing the panel was told is that a call failed.
ToldOfFailure == report # NoReport /\ report.err

\* What the panel asked for last comes true and stays true when no runtime call
\* fails: the bot is gone; or its container is down, unless a restart by hand came
\* last to Docker; or it runs the newest deploy, unless an exit was swallowed or
\* the panel was told that a call failed. The last exemption is needed without any
\* fault: a removal cancels a crash restart, an apply equal to the spec in force takes
\* it back and is skipped, and the retry finds the bot "pending" and does nothing
\* (worker.go:61, 195 and 309).
Fulfilled ==
  IF want = NoSpec THEN box = NoBox /\ disk = NoVolume
  ELSE IF want.desired = "stopped" THEN box = NoBox \/ ~box.running \/ handRun
  ELSE want.deploy # NoDeploy =>
         \/ ToldOfFailure
         \/ /\ box # NoBox /\ box.deploy = want.deploy /\ box.cfg = want.cfg
            /\ box.running \/ swallowed
Converges == <>(used.faults > 0) \/ <>[]Fulfilled

Supervised == INSTANCE Supervisor WITH
  order <- spec, removing <- call = "remove", byHand <- handRun, version <- disk

\* The worker implements Supervisor: whatever is requested, exits, fails or crashes in
\* between, it starts a container only for an order that wants it running or a restart by
\* hand, replaces none that is as ordered, and deletes data only to carry out a removal,
\* after the container.
ImplementsSupervisor == Supervised!Spec

\* What a comment says of the worker, and the code does not do.

\* worker.go:309 "Treat a failed start like another crash.": a retry that is
\* pending is for a bot reported crashed, the only kind crashRestart restarts.
FailedStartIsACrash == pc = "select" /\ retry => report # NoReport /\ report.st = "crashed"
=============================================================================
