----------------------------- MODULE PanelDeploys -----------------------------
(***************************************************************************)
(* The deploys of one bot, end to end: the rows the panel keeps            *)
(* (internal/panel/deploys.go, internal/db/queries/deploys.sql), the specs *)
(* it pushes over the node's connection (pushBot, removeBot and syncNode   *)
(* in internal/panel/hub.go), the agent that carries them out              *)
(* (internal/agent, BotWorker.tla in short) and the progress it reports    *)
(* back (onDeployProgress).                                                *)
(*                                                                         *)
(* A push reads the bot's row, then takes the connection there is by then  *)
(* and is sent from a goroutine of its own: frames to the agent overtake   *)
(* each other, and a spec read before a reconnect may be sent after it.    *)
(* Progress frames keep their order on a connection; they are lost with    *)
(* it, and dropped while there is none or the agent's queue is full.       *)
(* The statements of onDeployProgress are separate transactions, and each  *)
(* may fail: by itself, or because pingLoop has cancelled the connection's *)
(* context. The code goes on after most of these errors, as here.          *)
(*                                                                         *)
(* An operator named Bug_X is X with a bug; no definition uses it (see     *)
(* BotWorker.tla).                                                         *)
(*                                                                         *)
(* Left out: artifacts, the deploy log, webhooks; the phases fetching and  *)
(* installing are one; the removals of an agent's sync happen at once; the *)
(* failure of the statements in the HTTP handlers' one transaction.        *)
(***************************************************************************)
EXTENDS Integers, Sequences, FiniteSets, FiniteSetsExt

CONSTANTS
  MaxOps,       \* bound: what users do: deploys, starts, stops and the deletion, together
  MaxEvents,    \* bound: failing deploys and container starts, statements of the hub that fail,
                \* ping timeouts in a handler, and frames dropped from a full queue, together
  MaxConns,     \* bound: connections of the agent, one after the other
  NoSpec        \* Go's nil

ASSUME DeployBounds ==
  /\ MaxOps \in Nat /\ MaxEvents \in Nat /\ MaxConns \in Nat \ {0}

Deploy == 1 .. MaxOps       \* a deploy is known by its number
Conn == 1 .. MaxConns
DeployStatus == {"queued", "fetching", "live", "failed", "superseded"}
BotSpec == [deploy : {0} \cup Deploy, desired : {"running", "stopped"}]
Remove == [deploy |-> 0, desired |-> "removed"]     \* bot.remove, or absence from a sync
Frame == BotSpec \cup {Remove}
ASSUME NoSpecAssumption == NoSpec \notin Frame
NoFrames == [f \in Frame |-> 0]

VARIABLES
  \* the database
  status,     \* deploys.status of each deploy started, in order of number
  current,    \* bots.current_deploy_id, 0 when null
  desired, deleted,
  \* the panel's goroutines
  pushes,     \* pushBot calls that have not read the bot's row yet
  specs,      \* specs and removals whose call has not taken a connection yet: how many of each
  syncDue,    \* the connection's syncNode has not read it yet
  handler,    \* per connection: where its readLoop is in onDeployProgress
  stopped,    \* connections whose context pingLoop has cancelled in the middle of a handler
  \* the connection
  conn,       \* the live connection, 0 when there is none
  conns,      \* how many there have been
  down,       \* frames on their way to the agent, in no order: how many of each
  up,         \* per connection: progress on its way to the panel
  \* the agent
  pend,       \* the newest spec or removal not taken yet
  op,         \* the spec whose deploy is being fetched and installed
  cancelled,
  disk,       \* the deploy in app/, 0 when none
  applied,    \* the last spec that applied without error
  \* observers and bounds
  installed,  \* deploys whose code was swapped into app/
  calm,       \* since the connection was made the bot's row has not changed and the sync has
              \* not failed, and no spec read before was out of date by then
  left,       \* the latest SupersedeLiveDeploys failed
  kept,       \* the bot's deploy should have been pointed back, and has not been written since
  lost,       \* deploys whose last progress was dropped, lost, overtaken or not recorded
  changes, faults, errors

database == <<status, current, desired, deleted>>
panel == <<pushes, specs, syncDue, handler, stopped>>
link == <<conn, conns, down, up>>
agent == <<pend, op, cancelled, disk, applied>>
observers == <<installed, calm, left, kept, lost>>
bounds == <<changes, faults, errors>>
vars == <<database, panel, link, agent, observers, bounds>>

Idle == [at |-> "idle", deploy |-> 0, prev |-> 0]

Init ==
  /\ status = <<>> /\ current = 0 /\ desired = "running" /\ deleted = FALSE
  /\ pushes = 0 /\ specs = NoFrames /\ syncDue = FALSE
  /\ handler = [c \in Conn |-> Idle] /\ stopped = {}
  /\ conn = 0 /\ conns = 0 /\ down = NoFrames /\ up = [c \in Conn |-> <<>>]
  /\ pend = NoSpec /\ op = NoSpec /\ cancelled = FALSE /\ disk = 0 /\ applied = NoSpec
  /\ installed = {} /\ calm = TRUE /\ left = FALSE /\ kept = FALSE /\ lost = {}
  /\ changes = 0 /\ faults = 0 /\ errors = 0

\* buildSpec, from what the bot's row says now.
Wanted == IF deleted THEN Remove ELSE [deploy |-> current, desired |-> desired]

Transmit(f) == down' = IF conn = 0 THEN down ELSE [down EXCEPT ![f] = @ + 1]

UserActs == Len(status) + changes < MaxOps
Within == faults + errors < MaxEvents
Trouble == Within /\ errors' = errors + 1

-----------------------------------------------------------------------------
(* The panel's HTTP handlers.                                              *)

\* The statements, each on the rows it is given.
CreateDeploy(rows) == Append(rows, "queued")

SupersedePending(rows, new) ==
  [d \in DOMAIN rows |->
     IF d # new /\ rows[d] \in {"queued", "fetching"} THEN "superseded" ELSE rows[d]]

SetBotCurrentDeploy(d) == current' = d
PushBot == pushes' = pushes + 1         \* h.pushBot, on the caller's goroutine

\* startDeploy, one transaction and then pushBot. loadBot has looked at the bot before
\* the upload or the clone (deploys.go:91, 165), so the bot may be gone by now.
StartDeploy ==
  /\ UserActs
  /\ LET new == Len(status) + 1
     IN  /\ status' = SupersedePending(CreateDeploy(status), new)
         /\ SetBotCurrentDeploy(new)
  /\ PushBot /\ calm' = FALSE /\ kept' = FALSE
  /\ UNCHANGED <<desired, deleted, specs, syncDue, handler, stopped, link, agent,
                 installed, left, lost, bounds>>

\* createDeploy and createGitDeploy bring new code, rollbackDeploy that of an earlier
\* deploy of the bot, as a deploy of its own.
UploadDeploy == StartDeploy
RollbackDeploy == status # <<>> /\ StartDeploy

SetBotDesired == desired' \in {"running", "stopped"}

\* botAction: start and stop, after a loadBot that may be as old.
BotAction ==
  /\ UserActs /\ changes' = changes + 1
  /\ SetBotDesired
  /\ PushBot /\ calm' = FALSE
  /\ UNCHANGED <<status, current, deleted, specs, syncDue, handler, stopped, link, agent,
                 installed, left, kept, lost, faults, errors>>

SoftDeleteBot == deleted' = TRUE

HandTo(f) == specs' = [specs EXCEPT ![f] = @ + 1]

\* deleteBot: the row first, then removeBot.
DeleteBot ==
  /\ ~deleted /\ UserActs /\ changes' = changes + 1
  /\ SoftDeleteBot /\ calm' = FALSE
  /\ HandTo(Remove)
  /\ UNCHANGED <<status, current, desired, pushes, syncDue, handler, stopped, link, agent,
                 installed, left, kept, lost, faults, errors>>

\* pushBot reads the row; without it, or if the spec cannot be built, nothing is sent.
ReadBot ==
  /\ pushes > 0 /\ pushes' = pushes - 1
  /\ \/ HandTo(Wanted) /\ UNCHANGED errors
     \/ UNCHANGED specs /\ Trouble
  /\ UNCHANGED <<database, syncDue, handler, stopped, link, agent, observers, changes, faults>>

\* pushBot and removeBot: h.conn, the connection there is by now, then c.request.
SendSpec ==
  \E f \in Frame :
    /\ specs[f] > 0 /\ specs' = [specs EXCEPT ![f] = @ - 1]
    /\ Transmit(f)
    /\ UNCHANGED <<database, pushes, syncDue, handler, stopped, conn, conns, up, agent,
                   observers, bounds>>

-----------------------------------------------------------------------------
(* The connection.                                                         *)

Bug_SyncStarts == FALSE
SyncStarts == TRUE      \* go h.syncNode, after every hello

Connect ==
  /\ conn = 0 /\ conns < MaxConns
  /\ conns' = conns + 1 /\ conn' = conns + 1
  /\ syncDue' = SyncStarts /\ calm' = (\A f \in Frame : specs[f] > 0 => f = Wanted)
  /\ UNCHANGED <<database, pushes, specs, handler, stopped, down, up, agent,
                 installed, left, kept, lost, bounds>>

\* syncNode: to the connection it was started for, so when it is sent makes no difference
\* to frames in no order. If the rows cannot be listed nothing is sent; if the bot's spec
\* cannot be built the sync goes without it, and the agent removes the bot.
Sync ==
  /\ syncDue /\ syncDue' = FALSE
  /\ \/ Transmit(Wanted) /\ UNCHANGED <<calm, errors>>
     \/ (UNCHANGED down \/ Transmit(Remove)) /\ calm' = FALSE /\ Trouble
  /\ UNCHANGED <<database, pushes, specs, handler, stopped, conn, conns, up, agent,
                 installed, left, kept, lost, changes, faults>>

\* Deploys whose end the i-th or a later frame of a connection would have told.
Untold(c, i) == {up[c][j].deploy : j \in {k \in DOMAIN up[c] : k >= i /\ up[c][k].phase # "fetching"}}

\* The frames to the agent are lost, and so is a tail of those to the panel.
Disconnect ==
  /\ conn # 0 /\ conns < MaxConns
  /\ conn' = 0 /\ down' = NoFrames
  /\ \E k \in 0 .. Len(up[conn]) :
       up' = [up EXCEPT ![conn] = SubSeq(@, 1, k)] /\ lost' = lost \cup Untold(conn, k + 1)
  /\ UNCHANGED <<database, panel, conns, agent, installed, calm, left, kept, bounds>>

\* pingLoop finds the connection dead, maybe long after the agent has noticed, and cancels
\* its context in the middle of a handler, whose statements fail from now on; what was not
\* read is lost. Between two handlers this is a Disconnect that loses more.
PingTimeout(c) ==
  /\ handler[c].at # "idle" /\ c \notin stopped
  /\ stopped' = stopped \cup {c}
  /\ up' = [up EXCEPT ![c] = <<>>] /\ lost' = lost \cup Untold(c, 1)
  /\ \/ c = conn /\ conns < MaxConns /\ conn' = 0 /\ down' = NoFrames
     \/ c # conn /\ UNCHANGED <<conn, down>>
  /\ Trouble
  /\ UNCHANGED <<database, pushes, specs, syncDue, handler, conns, agent,
                 installed, calm, left, kept, changes, faults>>

-----------------------------------------------------------------------------
(* The agent.                                                              *)

\* DeployProgress, through Agent.send: dropped while there is no connection or when the
\* outbound queue is full. Fetching starts anew what may have been lost before.
Report(phase, d) ==
  \/ /\ conn # 0 /\ up' = [up EXCEPT ![conn] = Append(@, [phase |-> phase, deploy |-> d])]
     /\ lost' = IF phase = "fetching" THEN lost \ {d} ELSE lost
     /\ UNCHANGED errors
  \/ /\ IF conn = 0 THEN UNCHANGED errors ELSE Trouble
     /\ lost' = IF phase = "fetching" THEN lost \ {d} ELSE lost \cup {d}
     /\ UNCHANGED up

\* withWorker and worker.apply or worker.remove: the newest frame wins, and
\* cancels the deploy in flight unless it wants the same one.
Receive ==
  \E f \in Frame :
    /\ down[f] > 0 /\ down' = [down EXCEPT ![f] = @ - 1]
    /\ pend' = f
    /\ cancelled' = (cancelled \/ (op # NoSpec /\ f.deploy # op.deploy))
    /\ UNCHANGED <<database, panel, conn, conns, up, op, disk, applied, observers, bounds>>

AgentFree == UNCHANGED <<database, panel, conn, conns, down, calm, left, kept, changes>>
Silent == UNCHANGED <<up, lost, errors>>

\* doRemove and doApply up to the deploy; without one, converge at once.
Take ==
  /\ op = NoSpec /\ pend # NoSpec /\ pend' = NoSpec
  /\ \/ /\ pend = Remove
        /\ disk' = 0 /\ applied' = NoSpec /\ Silent /\ UNCHANGED <<op, faults>>
     \/ /\ pend = applied
        /\ Silent /\ UNCHANGED <<op, disk, applied, faults>>
     \/ /\ pend \notin {applied, Remove} /\ pend.deploy \in {0, disk}
        /\ \/ applied' = pend /\ UNCHANGED faults
           \/ Within /\ faults' = faults + 1 /\ applied' = NoSpec
        /\ Silent /\ UNCHANGED <<op, disk>>
     \/ /\ pend \notin {applied, Remove} /\ pend.deploy \notin {0, disk}
        /\ op' = pend /\ Report("fetching", pend.deploy)
        /\ UNCHANGED <<disk, applied, faults>>
  /\ cancelled' = FALSE
  /\ UNCHANGED installed /\ AgentFree

\* The deploy is swapped in and the container converges.
Finish ==
  /\ op # NoSpec /\ ~cancelled
  /\ disk' = op.deploy /\ installed' = installed \cup {op.deploy}
  /\ \/ applied' = op /\ Report("live", op.deploy) /\ UNCHANGED faults
     \/ /\ Within /\ faults' = faults + 1   \* the container does not start
        /\ applied' = NoSpec /\ Report("failed", op.deploy)
  /\ op' = NoSpec
  /\ UNCHANGED <<pend, cancelled>> /\ AgentFree

Bug_ReportFailed(d) == IF cancelled THEN Silent ELSE Report("failed", d)
ReportFailed(d) == Report("failed", d)

\* Fetch or install fails, on its own or because the deploy was cancelled.
Fail ==
  /\ op # NoSpec
  /\ \/ cancelled /\ UNCHANGED faults
     \/ ~cancelled /\ Within /\ faults' = faults + 1
  /\ applied' = NoSpec /\ ReportFailed(op.deploy)
  /\ op' = NoSpec /\ cancelled' = FALSE
  /\ UNCHANGED <<pend, disk, installed>> /\ AgentFree

-----------------------------------------------------------------------------
(* onDeployProgress, on the readLoop of connection c: one statement a step. *)

HandlerFree == UNCHANGED <<desired, deleted, specs, syncDue, conn, conns, down, agent, installed, changes, faults>>

\* A statement on the connection's context.
Works(c) == c \notin stopped /\ UNCHANGED errors
Fails(c) == IF c \in stopped THEN UNCHANGED errors ELSE Trouble

Bug_StatusOf(phase) == IF phase = "fetching" THEN "live" ELSE phase
StatusOf(phase) == phase        \* phaseStatus
SetDeployStatus(d, st) == status' = [status EXCEPT ![d] = st]

Return(c) == handler' = [handler EXCEPT ![c] = Idle] /\ stopped' = stopped \ {c}

\* An earlier connection's readLoop has still to handle that d is being fetched.
Overtakes(c, d) ==
  \E b \in Conn \ {c} : \E i \in DOMAIN up[b] : up[b][i] = [phase |-> "fetching", deploy |-> d]

\* The status is set, or the error is logged; either way the handler goes on.
SetStatus(c) ==
  /\ handler[c].at = "idle" /\ up[c] # <<>>
  /\ up' = [up EXCEPT ![c] = Tail(@)]
  /\ LET p == Head(up[c]) IN
       /\ \/ /\ Works(c) /\ SetDeployStatus(p.deploy, StatusOf(p.phase))
             /\ lost' = IF p.phase # "fetching" /\ Overtakes(c, p.deploy) THEN lost \cup {p.deploy} ELSE lost
          \/ /\ Fails(c) /\ UNCHANGED status
             /\ lost' = IF p.phase # "fetching" THEN lost \cup {p.deploy} ELSE lost
       /\ handler' = [handler EXCEPT ![c] =
            CASE p.phase = "live" -> [Idle EXCEPT !.at = "supersede", !.deploy = p.deploy]
              [] p.phase = "failed" -> [Idle EXCEPT !.at = "last", !.deploy = p.deploy]
              [] OTHER -> Idle]
  /\ UNCHANGED <<current, pushes, stopped, calm, left, kept>> /\ HandlerFree

Bug_SupersedeLive(c) == UNCHANGED status
SupersedeLive(c) ==
  status' = [d \in DOMAIN status |->
    IF d # handler[c].deploy /\ status[d] = "live" THEN "superseded" ELSE status[d]]

\* The error is ignored.
SupersedeLiveDeploys(c) ==
  /\ handler[c].at = "supersede"
  /\ \/ Works(c) /\ SupersedeLive(c) /\ left' = FALSE
     \/ Fails(c) /\ UNCHANGED status /\ left' = TRUE
  /\ Return(c)
  /\ UNCHANGED <<current, pushes, up, calm, kept, lost>> /\ HandlerFree

Live == {d \in DOMAIN status : status[d] = "live"}
LastLiveDeploy == IF Live = {} THEN 0 ELSE Max(Live)

\* After an error there is no previous deploy.
Remember(c, prev) == handler' = [handler EXCEPT ![c].at = "point", ![c].prev = prev]

ReadLastLive(c) ==
  /\ handler[c].at = "last"
  /\ \/ Works(c) /\ Remember(c, LastLiveDeploy)
     \/ Fails(c) /\ Remember(c, 0)
  /\ UNCHANGED <<status, current, pushes, stopped, up, calm, left, kept, lost>> /\ HandlerFree

\* Point the bot back at what is live, and push it. After an error, with or without the row
\* written, nothing is pushed.
Bug_PointBack(c) == current
PointBack(c) == handler[c].prev

PointBotBack(c) ==
  /\ handler[c].at = "point"
  /\ \/ Works(c) /\ SetBotCurrentDeploy(PointBack(c)) /\ PushBot /\ kept' = FALSE
     \/ Fails(c) /\ current' \in {current, PointBack(c)} /\ UNCHANGED pushes /\ kept' = TRUE
  /\ calm' = FALSE
  /\ Return(c)
  /\ UNCHANGED <<status, up, left, lost>> /\ HandlerFree

OnDeployProgress(c) ==
  SetStatus(c) \/ SupersedeLiveDeploys(c) \/ ReadLastLive(c) \/ PointBotBack(c)

-----------------------------------------------------------------------------
Next ==
  \/ UploadDeploy \/ RollbackDeploy \/ BotAction \/ DeleteBot \/ ReadBot \/ SendSpec
  \/ Connect \/ Sync \/ Disconnect
  \/ Receive \/ Take \/ Finish \/ Fail
  \/ \E c \in Conn : OnDeployProgress(c) \/ PingTimeout(c)

Spec == Init /\ [][Next]_vars

-----------------------------------------------------------------------------
(* Properties.                                                             *)

HandlersIdle == \A c \in Conn : handler[c].at = "idle"

\* Nothing is on its way between panel and agent, and neither is busy.
Quiet ==
  /\ conn # 0 /\ HandlersIdle /\ pushes = 0 /\ specs = NoFrames /\ ~syncDue
  /\ down = NoFrames /\ (\A c \in Conn : up[c] = <<>>) /\ pend = NoSpec /\ op = NoSpec

\* Every variable stays in its range; a deploy that a row, a frame, the volume or a
\* handler names was started.
TypeOK ==
  /\ status \in Seq(DeployStatus)
  /\ Len(status) + changes <= MaxOps
  /\ current \in {0} \cup DOMAIN status
  /\ desired \in {"running", "stopped"} /\ deleted \in BOOLEAN
  /\ pushes \in Nat /\ specs \in [Frame -> Nat] /\ syncDue \in BOOLEAN
  /\ handler \in [Conn -> [at : {"idle", "supersede", "last", "point"},
                           deploy : {0} \cup DOMAIN status, prev : {0} \cup DOMAIN status]]
  /\ stopped \in SUBSET Conn
  /\ conns \in 0 .. MaxConns /\ conn \in {0, conns}
  /\ down \in [Frame -> Nat]
  /\ up \in [Conn -> Seq([phase : {"fetching", "live", "failed"}, deploy : DOMAIN status])]
  /\ pend \in Frame \cup {NoSpec} /\ op \in BotSpec \cup {NoSpec}
  /\ cancelled \in BOOLEAN /\ disk \in {0} \cup DOMAIN status
  /\ applied \in BotSpec \cup {NoSpec} /\ installed \in SUBSET Deploy
  /\ calm \in BOOLEAN /\ left \in BOOLEAN /\ kept \in BOOLEAN /\ lost \in SUBSET Deploy
  /\ changes \in 0 .. MaxOps /\ faults \in 0 .. MaxEvents /\ errors \in 0 .. MaxEvents

\* A deploy the panel calls live has had its code swapped in on the node,
\* whatever was cancelled, lost or late.
LiveWasInstalled == \A d \in DOMAIN status : status[d] = "live" => d \in installed

\* Outside a handler at most one deploy of the bot is live, also when the readLoops of two
\* connections handle their last and first frames together; unless the statement that
\* supersedes the others failed and has not worked since (hub.go:447).
OneLiveDeploy == HandlersIdle /\ ~left => Cardinality(Live) <= 1

\* On one connection, when its handler is done, the deploy the bot points at is not one
\* that failed (hub.go:449: it must not be retried on reconnect); unless the statement
\* that points it back failed, and the bot's deploy has not been written since (hub.go:455).
FailedIsNotCurrent ==
  conns <= 1 /\ HandlersIdle /\ ~kept /\ current # 0 => status[current] # "failed"

\* A reconnect heals (spec-v0.md:25): if the bot's row has not changed since, the sync did
\* not fail and no spec read from an older row was still to be sent, then once everything
\* has arrived the agent has applied what the panel wants, unless applying it failed.
SyncHeals ==
  Quiet /\ calm => IF deleted THEN disk = 0 /\ applied = NoSpec
                   ELSE applied \in {Wanted, NoSpec} /\ (faults = 0 => applied = Wanted)

\* A deploy the panel shows as fetching is being fetched, or the frame that ends it is on
\* its way, on whichever connection; unless that frame was dropped, went with its
\* connection, overtook an earlier connection's, or could not be recorded.
FetchingWillEnd ==
  \A d \in DOMAIN status : status[d] = "fetching" =>
    \/ op # NoSpec /\ op.deploy = d
    \/ d \in lost
    \/ \E c \in Conn : \E i \in DOMAIN up[c] : up[c][i].deploy = d /\ up[c][i].phase # "fetching"
===============================================================================
