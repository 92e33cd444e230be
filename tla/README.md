# Mechon in TLA+

Mechon hosts Discord bots. One *panel* (`cmd/mechon`, `internal/panel`, PostgreSQL) keeps what each
bot should be; on every *node* an *agent* (`cmd/mechon-agent`, `internal/agent`) makes it so with
Docker (`internal/runtime`). The two talk over one WebSocket per node (`internal/proto`). This
directory holds TLA+ models of the parts where order, failure and concurrency decide whether that
works, the TLC configurations that check them, and proofs for every value of the constants.

`PROJECT.json` maps each definition to the lines it models, lists the runs with their properties,
the hazards of the code and which property covers each, or why none does, one seeded bug (mutant) per property that
the property must catch, and the findings. Paths below are relative to the repository.

## 1. The system

| Component | State | Operations | Talks to |
|---|---|---|---|
| Bot worker `internal/agent/worker.go` | under `mu`: `pendApply/Remove/Restrt/Exits`, `cancelOp`, `opDeploy`, last state; owned by `run`: `spec`, `applied`, `container`, `backoff`, `retry`, `startedAt` | `apply`, `remove`, `restart`, `exit` record intent and poke; `run` takes it and calls the runtime; a timer retries crashed bots | runtime (calls), agent (reports) |
| Agent session `internal/agent/agent.go` | worker map, outbound queue, connection | `serve`/reconnect, `hello`, `handle`, `sync`, `withWorker`, `retire` | panel (frames), workers |
| Agent logs `internal/agent/logs.go` | tails per bot | subscribe, unsubscribe | runtime, panel |
| Docker runtime `internal/runtime/docker.go` | `expected` set of container IDs, event stream | `Apply`, `Restart`, `Remove`, `List`, `watchEvents` | dockerd, workers (exits) |
| Volumes and deploys `internal/runtime/volume.go`, `deploy.go` | image file, mount, `app/`, recorded deploy ID | create, grow, mount; fetch, install, swap | file system |
| Panel hub `internal/panel/hub.go` | `conns`, per-connection replies, observed stats, browser streams | `serveAgent`, `syncNode`, `pushBot`, `removeBot`, `onHello`, `onDeployProgress`, `watch` | agent, database, browsers |
| Panel deploys `internal/panel/deploys.go` | rows of `deploys`, `bots.current_deploy_id` | `startDeploy`, rollback, lists | hub |
| Bots and allocation `internal/panel/bots.go` | rows of `bots` | create, resize, start/stop, delete | hub, nodes, subscriptions |
| Plans, subscriptions, users `tenancy.go` | rows of `plans`, `subscriptions`, `users` | limits, overrides, suspend, terminate | bots |
| Nodes `nodes.go` | rows of `nodes` | create, enrol, maintenance, delete | placement |
| Webhooks `webhooks.go` | endpoint and delivery rows, River jobs | emit, deliver, retry, redeliver | HTTP |
| Sessions, keys, rate limits `session.go`, `keys.go`, `ratelimit.go` | session rows, limiter windows | login, expiry, allow | every handler |
| The rest | - | file manager, archive extraction, statistics, firewall, artifacts, Git clone, templates, settings, audit, web | - |

How they interact: an HTTP handler of the panel changes rows and *pushes* the bot's full spec to its
node on a goroutine of its own. The agent hands it to the bot's worker, which records it and carries
it out later; a newer spec, a removal or a crash of the process may come between any two of its
Docker calls. Exits reach the worker through Docker's event stream, filtered by the set of exits the
runtime asked for itself. Progress and states travel back over the connection and are dropped while
there is none or the outbound queue is full; after a reconnect `hello` and a `sync` of the whole node are
meant to repair everything.

What is hard, by component, and what makes it correct:

* **Bot worker.** Requests interleave with a goroutine that sleeps on a one-slot channel, with
  cancellation, a retry timer and late exit events. It must sleep through nothing, skip only what is
  really in force, restart what crashed, and never restart what was stopped or removed.
* **Panel deploys.** Rows, pushes, progress frames and reconnects are each in order by themselves and
  out of order together, and each statement of `onDeployProgress` can fail by itself. What the panel calls
  live must have been installed, at most one deploy is live, and a reconnect heals.
* **Allocation.** Handlers interleave statement by statement at READ COMMITTED. Plans are not
  exceeded, nothing appears on a suspended subscription or a node in maintenance, termination leaves
  nothing behind, and requests do not deadlock on row locks.
* **Volumes and deploys.** Every system call can fail and the process can die between any two. What
  runs is what is recorded, `app/` is never half a version, and the disk has the size that was asked.
* **Connections.** The handler of a broken connection lives on beside its successors. One live
  connection is registered, the panel shows what the agent reports and forgets an agent that is gone.
* **Agent sync.** Pushes, removals and the sweeps of two syncs overtake each other. Data is removed
  only on purpose, and a sync leaves the node with the panel's bots.
* **Logs.** Requests have goroutines of their own on both sides. A browser is shown each line once, in
  order, and nobody's subscription is left behind.
* **Webhooks.** Rows and jobs are written by separate statements. A pending delivery has a job, and
  every delivery ends.
* **Accounts.** A request acts on the caller as it was read once. A new password signs out, sessions
  do not return, and nobody takes his own admin rights away. (That an admin always stays is not so: two of
  them can remove each other.)

## 2. The modules

| Module | Models | Runs | Proofs |
|---|---|---|---|
| `BotWorker` | one bot on one node: worker, runtime calls, event stream, agent crash | `worker`, `failed_start` | `BotWorkerSafety` |
| `Supervisor` | abstract: the order taken last, the volume's code and the container | (`ImplementsSupervisor` of `worker`) | (there) |
| `VolumeDeploy` | the disk side of one bot: image, mount, fetch, swap, record, container | `volume` | `VolumeDeploySafety` |
| `VersionStore` | abstract: a version and its record, replaced as one | (`ImplementsStore` of `volume`) | (there) |
| `HubConnections` | one agent's connections and the panel's handlers of them | `connections` | `HubConnectionsSafety` |
| `AgentSync` | which of several bots a node has: pushes, removals, syncs, sweeps | `agent_sync` | `AgentSyncSafety` |
| `PanelDeploys` | one bot end to end: rows, pushes, connection, a short agent, progress | `deploys` | `PanelDeploysSafety` |
| `LogStreams` | one bot's output from the agent to browsers | `log_streams` | - |
| `Allocation` | several handlers on subscriptions, nodes and bots | `allocation`, `allocation_locks` | `AllocationSafety` |
| `Accounts` | users, sessions, keys, and requests on them | `accounts`, `delete_user` | `AccountsSafety` |
| `Webhooks` | events, delivery rows, River jobs, workers | `webhooks` | `WebhooksSafety` |

`MC<module>` makes an instance of each for TLC. The modules overlap on purpose and each is in detail
about one thing: a deploy is one step of `BotWorker` and all its system calls in `VolumeDeploy`; the
worker is `BotWorker` in short in `PanelDeploys` and `AgentSync`; the connection is a number in
`PanelDeploys` and the subject of `HubConnections`.

An operator called `Bug_X` stands next to `X` and differs from it the way a slip in the code would.
No definition uses it; put in `X`'s place it shows that a property notices.

### BotWorker

The variables are the fields of `worker`, split as the code splits them: what `mu` guards (`pend`,
`kick`, `cancelled`, `opDeploy`, `report`) and what only `run` touches. Where the goroutine is is
`pc`: asleep in its `select`, between two jobs (`work`), or at one of the Docker calls of `call`.

* `Request`, `Sync` and `WatchDie` are the callers: they record under the mutex and poke
  (`RecordApply`, `RecordRemove`, `RecordRestart`, `RecordExit`), starting a worker when there is none.
* `Wake`, `Take`, `RetryFires` are `run`; `HandleExit`, `BeginApply`, `BeginRestart`, `BeginRemove`
  begin a job: the retry timer, the skip of an equal spec, the back-off. `BeginCall` is the moment
  `opContext` makes the call cancellable.
* `Volume`, `Deploy`, `Inspect`, `Destroy`, `Create`, `Start`, `Stop`, `Look`, `Erase` are the steps
  of `Docker.Apply`, `Restart` and `Remove`, one Docker call each. Each can succeed, fail (a fault is
  spent), or end because the context was cancelled. `softErr` is Apply's `deployErr`/`volErr`, with
  which it still converges and then fails.
* `FinishCall`, `FinishRemove` are what follows a call: `observe`, the report, `applied`, the timer,
  and `retire` under the agent's mutex.
* `BoxExits` is dockerd, `TimePasses` the clock behind `healthyAfter`, `Reboot` a crash of the agent
  process: worker, marks and events are lost, and what Docker lists primes a new worker.

`Supervisor` says what all this is for: there is an order (`spec`), a removal that may be under way, a
restart by hand, the code in the volume and the container. A container starts only for an order that
wants it running or after a restart by hand, is made and installed only as ordered, is destroyed only when
it is not as ordered or for a removal, and the data go only with a removal, after the container.
`ImplementsSupervisor` maps `spec`, `call = "remove"`, `handRun` and `disk` to it; everything that queues,
cancels, retries or reports is its stutters. `VolumeDeploy` and `VersionStore` do the same for one level
below: what is a step `Install` here is a `Replace` there.

Three variables observe and decide nothing: `want` is what the panel asked for last, `swallowed` says
that an exit of the container's own was taken for an expected one, `handRun` that a manual restart
came after the last apply that reached Docker.

### PanelDeploys

`status` is `deploys.status` by deploy number, `current` and `desired` the columns of `bots`. A push
is counted in `pushes` from the handler's commit until it reads the row (`ReadBot`); then its spec is in
`specs` until it takes the connection there is by then (`SendSpec`), and in `down` until it arrives. Both
are bags: pushes overtake each other, and a spec read before a reconnect may be sent after it. `up` is one queue per connection, read by that connection's
`readLoop`, whose place inside `onDeployProgress` is `handler`: its statements are separate
transactions, and the loops of an old and a new connection run side by side. Each of them may fail, by
itself or because `pingLoop` has cancelled their context (`PingTimeout`, `stopped`); what the code does then
it does here. `lost`, `left`, `kept` and `calm` decide nothing: they say which deploys' last frame came to
nothing, that the latest `SupersedeLiveDeploys` failed, that the bot should have been pointed back, and that
nothing has disturbed the connection's sync. The agent is BotWorker in
short: the newest request, one deploy in flight that a newer one cancels, the skip of an equal spec.
`Receive` takes a frame, `Take` begins, `Finish` and `Fail` end.

### Allocation

Every SQL statement is a step of one of the `Handlers`; `req` holds how far each is and its Go
variables. `createBot` and `updateBot` are transactions: `LockSubscription` (FOR UPDATE),
`CheckQuota`, `PlacementCandidates` (usage as of the statement's beginning), one `LockNode` for each
candidate in the order of `ORDER BY n.id`, with the row's conditions looked at again once it is
locked, and `Insert` or `Resize` together with the commit. `updateSubscription` runs its statements by
themselves: `SetSubscriptionStatus` waits for the subscription's row, `ListBots` and `SoftDelete`
delete the bots one by one. `Fail` is a failing statement or a client that went away. Go's sums wrap
around at `MaxInt`, as int32 does (`Wrap`), and `wrapped` remembers for which resource that happened in
`checkQuota`; a sum of PostgreSQL that does not fit its `::int` fails the
statement (`SumFails`). CPU is left out: it is treated exactly as memory is. `open` stands for all a node
must meet to be a candidate: no maintenance, seen lately, and hardened or able to run runsc where the
template asks for it.

### VolumeDeploy and VersionStore

`pc` is the step the worker's call to the runtime is at; each step is a system call that works or fails
(the actions ending in `Fails`; a cancelled context counts as a failure).

* `Apply` begins; `CreateImage`, `TruncateImage`, `MakeFileSystem`, `Mount`, `ExtendImage`,
  `GrowFileSystem` and `Layout` are `ensureVolume` and `growVolume`.
* `ClearNext`, `Fetch`, `Install`, `TrimPrevious`, `MoveAside`, `MoveIn`, `Restore` and `RecordDeploy`
  are `deploy`: the bytes and the installation happen in `.mechon/next`, two renames put it in `app/`
  and the old one in `.mechon/prev`, and then the ID is written. An error before the second rename is
  undone.
* `Converge` compares the container's label with the record, `DestroyBox` and a new container follow.
  A container holds its directory by inode, so it follows the renames and loses what is deleted.
* `Crash(node)` is the agent's or the node's death between any two steps; `StartAgent` remounts.

`torn`, `stale` and `halfGrown` decide nothing: a swap was cut short, the container has outlived its
deploy, the image was extended and its file system was not. `VersionStore` has two variables, a version
and its record (with `torn`), and an action that replaces both, one that wipes both, and two for an
interruption: before and after the new code is in place. `ImplementsStore` maps `app/` and
`.mechon/deploy` to them; the intermediate steps of a swap are its stutters.

### HubConnections

Each dial takes a connection with a handler of its own. `Dial`, `BuildHello`, `OpenSession`, `Write`
and `EndSession` are the agent's `connect` and its session; `Lookup`, `ReadHello`, `Register`,
`Report`, `Read`, `Reply`, `RequestEnds`, `Leave` and `MarkUnknown` are `serveAgent` and `readLoop`,
in the order of the code; `RotateToken` and `DropAgent` are the panel's token rotation, `Break` the
network. Between `BuildHello` and `OpenSession`, and on a full queue, a change of the bot gets lost
(`missed`); `astray` says that the last write of the bot's row (`SetBotObserved`, `MarkUnknown`) failed or
was by a handler that was not the registered one. A
handler that a broken connection leaves behind may take any of its remaining steps at any later time.

### AgentSync

`calls` is a bag of `pushBot` and `removeBot` calls and of frames on their way: each sends on a
goroutine of its own, so it arrives in any order. `ListNodeBotSpecs` is the statement of `syncNode`,
`HandleSync` the agent's `sync`, which starts applies and leaves a sweep: `SweepList` asks Docker,
`SweepWorkers` reads the worker map, `SweepRemove` removes what is not kept. `Take`, `EndApply`,
`EndRemove` are the worker in short, `AgentCrash` loses workers, sweeps and connection. `omitted` holds
the bots a sync did not list though they are live; `orderly` says that no change has met another one on
its way since the last sync.

### LogStreams

`Watch`, `Leave`, `Request` and `Resume` are `watch`, its end, `subscribeLogs` and the resuming by
`syncNode`; `Register`, `ReadTail`, `Reply`, `Follow` the agent's `subscribe`; `TakeBatch`,
`SendBatch` its `flushLoop`. A reply is acted on by the goroutine that waits for it (`ReplaceLogs`,
`PublishReset`), a batch by `readLoop` (`AppendLogs`, `PublishLogs`); replacing the buffered lines and
telling the browsers are steps of their own. A line is its number, so that a gap, a repetition and a
wrong order can be told.

### Accounts

Every statement is a step of one of the `Handlers`; `req` holds how far it is and the principal as
`loadPrincipal` read it. A password is a number, and a session remembers which one it was made with.
Whatever has an expiry may expire at any moment. `exempt` marks the sessions the code keeps or cannot
know of: the one a change is made from, that of a login which had verified the old password, and those
whose deletion failed.

### Webhooks

`Emit`, `CreateDelivery`, `InsertJob` are `emit`, endpoint by endpoint; `Fetch`,
`GetWebhookDelivery`, `Post`, `RecordDeliveryAttempt`, `Return` and `Rescue` a River job with its
worker; `ResetDelivery` and `InsertRetryJob` the admin's retry; `Crash` the panel's death. River itself
is external. Reading the endpoint and posting to it are one step. A delivery whose endpoint is disabled,
whose signing secret cannot be opened or of whose URL no request can be made is given up on at once
(`unusable`, webhooks.go:85-100).

## 3. What the runs show

A check mark says that the property is also proved for every value of the constants (section 5).

| Run | Property | | What it says |
|---|---|---|---|
| `worker` | `NoLostWakeup` | ✓ | the worker never sleeps, and never retires, with something recorded and no token |
| | `AppliedIsInForce` | ✓ | what is recorded as applied is what container and disk are made of |
| | `StoppedStaysDown` | ✓ | supervision never starts a stopped bot |
| | `DownIsNoticed` | ✓ | a bot reported running is, or its exit is on its way; a crashed one will be retried |
| | `ImplementsSupervisor` | ✓ | nothing is started, replaced or deleted but for an order that says so |
| | `RetiredLeavesNothing` | ✓ | a worker that retires without a failed call leaves no container and no volume |
| | `RequestsAreServed`, `Converges` | | every request is taken; what was asked for last comes true and stays true |
| `volume` | `ImplementsStore` | ✓ | a deploy replaces version and record as one step of `VersionStore`, or is an interruption of the swap |
| | `RecordedIsInApp` | ✓ | outside a swap the record names the code in `app/`, unless a swap was cut short |
| | `RunsWhatIsRecorded` | ✓ | after an Apply without error a container that runs has the recorded deploy |
| | `HasItsSize` | ✓ | after an Apply without error image and file system have the size asked for |
| `connections` | `OneConnection` | ✓ | the agent never talks to two handlers past their registration |
| | `PanelShowsTheBot` | ✓ | at rest and connected the panel shows the bot's state, but for the named gaps |
| | `OfflineIsForgotten` | ✓ | at rest and disconnected nothing of the agent is left, but for late and failed writes |
| | `RotationDropsAgent` | ✓ | a rotation that is done leaves no connection with an old token, but for one being registered |
| | `Reconnects`, `HandlersEnd` | | the agent ends up registered; handlers of broken connections end |
| `agent_sync` | `RemovedOnPurpose` | ✓ | container and volume go only when the bot was deleted or a sync did not list it |
| | `SyncHeals` | | after the last sync the node ends up with the bots the panel has |
| `deploys` | `LiveWasInstalled` | ✓ | what the panel calls live was swapped in on the node |
| | `OneLiveDeploy` | ✓ | outside a handler at most one deploy is live, also with two `readLoop`s, unless superseding the other failed |
| | `FailedIsNotCurrent` | ✓ | on one connection the bot does not point at a failed deploy, unless pointing it back failed |
| | `SyncHeals` | ✓ | after a reconnect that nothing disturbs, once everything has arrived, what the panel wants is in force |
| | `FetchingWillEnd` | ✓ | a fetching deploy is being fetched, or the frame that ends it is on its way, or is known to be lost |
| `log_streams` | `ShowsTheOutput` | | each browser is shown each line once and in order |
| | `ShowsAll`, `UnwatchedIsQuiet` | | in the end all of them; with nobody watching no subscription is left |
| `allocation` | `AllocationsFit` | ✓ | what adds to a subscription's use ends within the plan it was checked against, unless the sum overflowed |
| | `CreatedWhereAllowed` | ✓ | a bot appears only on an active subscription and an open node |
| | `TerminatedIsEmptied` | ✓ | a terminated subscription has no bots, unless a handler has yet to delete them or a statement failed |
| `allocation_locks` | `PlacementFits` | ✓ | a placement decided on true usage leaves the node within its capacity |
| | `RequestsEnd` | | no deadlock on row locks |
| `accounts` | `SignedOutStaysOut` | ✓ | a new password leaves no session of an older one but those it names |
| | `LastAdminStays` | ✓ | the last active admin goes only by somebody who was an admin when read and is none any more |
| | `SessionsDoNotReturn` | ✓ | sessions appear only by a login, with a new token |
| `webhooks` | `StatusIsTrue` | ✓ | a pending delivery has a job; a failed one had all its attempts or an unusable endpoint |
| | `OthersAreTold` | ✓ | an endpoint whose row cannot be written costs no other its event |
| | `DeliveredStays` | ✓ | what was delivered stays so |
| | `DeliveriesEnd` | | every delivery ends |

Two runs each check a statement of a comment that the code does not keep; TLC's trace is the
counterexample.

| Run | Statement | What happens |
|---|---|---|
| `failed_start` | worker.go:309 "Treat a failed start like another crash." | the failed restart is reported `pending`; the timer it sets restarts only `crashed` bots, so the bot stays down |
| `delete_user` | tenancy.go:352 "removes an account that has no bots left" | `deleteBot` only marks the row, which keeps referencing the account's subscription, so an account that ever had a bot cannot be deleted; `deleteNode` (nodes.go:193) has the same shape |

### Seen while modelling, without a run

The models show these cases too; no property forbids them.

* worker.go:332 "A manual restart of a stopped bot runs it until the next apply says otherwise.": the
  next apply of an equal, stopped spec is skipped, and the bot runs on. `StoppedStaysDown` exempts it.
* worker.go:66 "A new deploy supersedes one still being fetched or installed.": a deploy that arrives
  between `run` taking the old one and `opContext` cancels nothing, and the old one is installed first.
* worker.go:17, healthyAfter: `observe` moves `startedAt` only when the reported state turns to running;
  a container that exits before the inspect after a crash restart leaves it behind, and the back-off is
  later reset by the age of an earlier start.
* docker.go:36: `expect` marks also a container that is down already. No event removes the mark, and its
  next exit of its own is swallowed: `DownIsNoticed` and `Converges` exempt swallowed exits.
* proto.go:87 "known, nothing running yet": an apply that fails before it converges reports `pending` while
  the old container runs on.
* hub.go:449 "The agent keeps the previous version running.": a deploy that was swapped in and whose
  container then does not start is reported failed, with its code installed.
* A push that read the row before a deletion may reach the agent after `bot.remove`; the bot is back on
  the node until the next sync.
* bots.go:137 "checkQuota verifies a bot of this size fits the subscription's plan, counting every other bot
  on it.": `used.MemoryMb+size.MemoryMB` (bots.go:150) is an int32 sum and sizes are bounded from below only;
  with a bot on the subscription a size near 2^31 makes it negative and passes. Only placement refuses it
  afterwards: `AllocationsFit` says that a plan is exceeded in this way alone, and only by a size that some
  node has room for. The run has such a node and reaches the case.
* bots.go:286 "Disk can grow but not shrink.": the check compares with a row read before the transaction.
* tenancy.go:614 "terminating stops them and they are deleted": a statement that fails between two bots
  leaves the rest, and the request cannot be repeated, since the subscription is terminated.
* tenancy.go:637: the refusal to change a terminated subscription rests on a plain read; an update that read
  it earlier makes it active again.
* hub.go:449 the failed deploy "is not retried on reconnect": with two connections the statements of two
  `readLoop`s interleave and the bot ends up pointing at a failed deploy. `FailedIsNotCurrent` is about
  one connection.
* spec-v0.md:205 "a newer one supersedes a queued one": the failure of a superseded deploy moves
  `current_deploy_id` back from the newest to an older one (hub.go:455).
* hub.go:540 "pushBot sends one bot's current spec to its node.": two pushes, or a push and a sync that
  read the rows earlier, overtake each other; the agent keeps the older spec until the next sync.
* agent.go:268 "hello and the panel's sync rebuild the full picture on reconnect": when the last progress
  frame is lost with the connection, or dropped from a full queue while the connection lives
  (agent.go:284), the equal spec of the sync is skipped and the deploy stays `fetching`. `FetchingWillEnd`
  names these deploys.
* hub.go:447 ignores the error of `SupersedeLiveDeploys`: two deploys stay live until the next one goes live.
  A ping timeout is enough, since `pingLoop` cancels the context of the handler between its statements
  (hub.go:258). `OneLiveDeploy` holds but for that.
* hub.go:452, 455: when the last live deploy cannot be read the bot is pointed at none at all; when it cannot
  be pointed back it stays at the failed deploy, nothing is pushed, and the next sync retries it, contrary
  to the comment at hub.go:449. `FailedIsNotCurrent` holds but for that.
* hub.go:542, 551: a push reads the row and takes the connection afterwards. One that read the row before a
  change can take the connection made after it, arrive after its sync and be in force until the next one.
  `SyncHeals` holds for reconnects that no such spec was left over at (`calm`).
* nodes.sql:44 "Locks the rows so concurrent placements serialise per node.": usage is counted before the
  lock is waited for, and two placements fill the same room. `PlacementFits` is about true usage.
* docker.go:177, 196: `converge` compares the container's label only. When a deploy's container cannot
  be replaced and the next deploy goes back to the earlier version, the earlier container stays,
  running in a directory that is gone (`stale`).
* spec-v0.md:131, hub.go:506: a sync whose spec of one bot cannot be built leaves that bot out
  (hub.go:517), and the agent's sweep removes it. `RemovedOnPurpose` names these bots.
* volume.go:83: a crash between creating the image and `mkfs` leaves an image that never mounts;
  volume.go:152: a growth that stops between file and file system is never taken up again (`halfGrown`);
  deploy.go:74: a crash between the renames leaves `app/` empty (`torn`); deploy.go:82: an ID that
  cannot be written leaves the new version unrecorded.
* The log protocol loses or repeats lines in some orders: a reset is published after later batches were
  appended (hub.go:675, logs.go:34), a batch of a replaced subscription is still flushed, lines
  between an empty tail and `since` are lost (logs.go:63), a cancelled subscription replies with an
  empty tail and wipes the view, a subscription registered after `closeAll` has no owner, and a refused
  sync skips the resuming of streams (hub.go:522). All take requests that overtake each other:
  `orderly` names what remains.
* hub.go:216 closes the old connection with the hub's mutex held, and the events `node.online` and
  `node.offline` of two handlers may come in the wrong order.
* webhooks.go:72 cancels the job for any database error, and the delivery stays pending (`excused`).
* tenancy.go:654-668: an update that only changes a note writes back the overrides it read earlier.
* auth_handlers.go:171: a password change compares with the caller as read, so two changes at a time
  both succeed against the same old password.
* worker.go:296: a removal cancels a crash restart, and an apply equal to the spec in force then takes the
  removal back before it is carried out (worker.go:61) and is skipped. The bot stays down until the next
  request; the restart was reported as failed, and `Converges` exempts that. (An apply cancels no crash
  restart: `opDeploy` is empty then.)
* worker.go:344: a `Remove` that fails is reported and the worker retires with container or volume left;
  `RetiredLeavesNothing` is about workers without a failed call.
* hub.go:236, 342: a handler that is not the registered one, or a statement that fails, leaves the row with
  something else than the agent's last word; agent.go:181, 284: a change between hello and queue, or on a
  full queue, is not told. `PanelShowsTheBot` names both (`astray`, `missed`).
* webhooks.go:89-100 give a delivery up on its first attempt though its endpoint is enabled: the secret
  cannot be opened, or the URL fits no request. `StatusIsTrue` names these deliveries (`unusable`).
* tenancy.go:327: two admins who demote, suspend or delete each other at the same time both succeed, and
  none is left. `LastAdminStays` says that this is the only way.
* nodes.go:219: a connection whose token was looked up before a rotation and registered after it stays.

Where a property names such a case it says nothing about it: the hazards in `PROJECT.json` of which that is
true have no property and a note instead.

## 4. Bounds, fairness, deadlock

**BotWorker.** One deploy and one configuration, with three requests (one of them a restart by hand),
one exit, one failing call and one crash of the agent: enough for apply, remove and apply again around
a crash restart, an exit event that arrives after the container was replaced, and a failure in any call
of them. `Converges` is a statement about behaviours without a failed call. Two exits without a fault
were checked as well. `BackoffCap` is 3 doublings where the code has more; nothing but the reset and
the saturation depends on it. Counters in `used` bound the environment only, never the worker.

**VolumeDeploy.** Two deploys, two sizes, four applies, two failing steps and two crashes: a deploy and
back again with the undoing itself failing, a growth interrupted twice, a crash in the swap followed by
another deploy.

**HubConnections.** Two handlers at a time, one change of the bot, one break, one rotation, a queue of
one: an old handler beside a new one in every order, and a full queue. Without the liveness properties
three handlers were checked too. A break and a failing write of the bot's row share one bound.

**AgentSync.** Two bots, two changes, one trouble; one bot with three changes and two troubles was
checked too. Every lost connection is a trouble, so sweeps of two syncs run side by side.

**PanelDeploys.** Two things that users do, in any order: two deploys, or one and a start, a stop or the
deletion; one thing that goes wrong: a failing deploy or container start, a statement of the hub that fails,
a ping timeout inside a handler or a frame dropped from the queue; and two connections. That gives every
overtaking of two specs, one left over from before a reconnect, a report lost between two connections, two
handlers side by side and every error path of a handler. A deploy that another one cancels fails without
counting, so pointing back can fail too. TLC reaches each case the properties exempt; the theorems have no
bounds.

**LogStreams.** Two browsers, two lines, three comings and goings, two connections.

**Allocation.** `allocation`: two handlers on one subscription (interleavings on its row are what the
properties are about), two bots, two nodes of which one is small, plans of one or two units that
change, three sizes of which one overflows the quota sum, one fault; handlers and bots are symmetric.
`allocation_locks`: two subscriptions, so that two transactions reach the node locks, one size, no
fault and, as the property is temporal, no symmetry. `MaxInt` is 7. In `allocation` the larger node has
memory for a bot of `MaxInt`, so that a size for which the sum overflows is placed; in `allocation_locks`
one node has room for a single bot, for which the placements compete, and the other for none.

**Accounts.** Two accounts and two requests, two passwords, two sessions, a key, an account that owns
bots: two admins who act on each other, a login beside a change of password. `delete_user` needs one
request.

**Webhooks.** One event, two endpoints, two attempts, two workers, one retry by the admin, one trouble:
two jobs of one delivery side by side, and a crash in the first or in the last attempt.

**Fairness.** Weak fairness of goroutines, which run, of system and Docker calls, which end by their
context at the latest, of the event stream, of the dial loop and of what the network delivers while the
connection lasts; never of requests, exits, faults, breaks or crashes. In Allocation strong fairness of
each handler, because its next statement is disabled whenever another one holds the row; PostgreSQL
queues those who wait for a row lock and grants it in turn. In LogStreams one weak fairness condition
on all of the system's steps is enough, since every sequence of them is finite. In Webhooks River gives
every job a worker in the end.

**Deadlock** is checked in `worker`, `volume`, `allocation` and `allocation_locks`. In the others all
bounded inputs used up is a proper end. In `BotWorker` time may always pass, and in `Allocation`
maintenance may always change, so there it shows little; `RequestsEnd` and the liveness properties take
its place.

Type invariants, and `RetryOnlyWhenWanted` of `BotWorkerSafety`, are no part of the runs: TLC checked each
while the module was written, and where there is a proof module it is a theorem.

## 5. What is proved

Every safety property the passing runs check is a theorem, but for `ShowsTheOutput` of the log
streams: for all sets of deploys, bots, handlers, users and endpoints, for all bounds, and for any number
of connections. The assumptions are stated with the constants and TLC evaluates them: nil and empty
values of Go are not values of their types (`NilAssumption`, `NilSpecAssumption`, and parts of the
others), bounds are natural numbers and those that the code needs positive are positive
(`BoundAssumption`, `BoundsAssumption`, `VolumeConstants`, `SyncConstants`, ...), and in Allocation
sizes, limits and capacities are what their columns can hold (`AllocationConstants`).

| Module | Theorem | States |
|---|---|---|
| `BotWorkerSafety` | `TypeCorrect` | `Spec => []TypeOK` |
| `BotWorkerSafety` | `NoRequestIsSleptThrough` | `Spec => []NoLostWakeup` |
| `BotWorkerSafety` | `SkippingIsRight` | `Spec => []AppliedIsInForce` |
| `BotWorkerSafety` | `RetryIsWanted` | `Spec => []RetryOnlyWhenWanted` |
| `BotWorkerSafety` | `StoppedBotStaysDown` | `Spec => []StoppedStaysDown` |
| `BotWorkerSafety` | `RetiredBotLeavesNothing` | `Spec => []RetiredLeavesNothing` |
| `BotWorkerSafety` | `ExitsAreNoticed` | `Spec => []DownIsNoticed` |
| `BotWorkerSafety` | `WorkerSupervises` | `Spec => ImplementsSupervisor` |
| `VolumeDeploySafety` | `TypeCorrect` | `Spec => []TypeOK` |
| `VolumeDeploySafety` | `VolumeHasItsSize` | `Spec => []HasItsSize` |
| `VolumeDeploySafety` | `RecordNamesApp` | `Spec => []RecordedIsInApp` |
| `VolumeDeploySafety` | `RunsTheRecorded` | `Spec => []RunsWhatIsRecorded` |
| `VolumeDeploySafety` | `DeploysAreAtomic` | `Spec => ImplementsStore` |
| `HubConnectionsSafety` | `TypeCorrect` | `Spec => []TypeOK` |
| `HubConnectionsSafety` | `OneLiveConnection` | `Spec => []OneConnection` |
| `HubConnectionsSafety` | `RotationIsFinal` | `Spec => []RotationDropsAgent` |
| `HubConnectionsSafety` | `GoneIsForgotten` | `Spec => []OfflineIsForgotten` |
| `HubConnectionsSafety` | `TheBotIsShown` | `Spec => []PanelShowsTheBot` |
| `AgentSyncSafety` | `TypeCorrect` | `Spec => []TypeOK` |
| `AgentSyncSafety` | `DataIsRemovedOnPurpose` | `Spec => RemovedOnPurpose` |
| `PanelDeploysSafety` | `TypeCorrect` | `Spec => []TypeOK` |
| `PanelDeploysSafety` | `LiveIsInstalled` | `Spec => []LiveWasInstalled` |
| `PanelDeploysSafety` | `OneDeployIsLive` | `Spec => []OneLiveDeploy` |
| `PanelDeploysSafety` | `NotAtAFailedDeploy` | `Spec => []FailedIsNotCurrent` |
| `PanelDeploysSafety` | `ReconnectHeals` | `Spec => []SyncHeals` |
| `PanelDeploysSafety` | `FetchingDeployWillEnd` | `Spec => []FetchingWillEnd` |
| `AllocationSafety` | `TypeCorrect` | `Spec => []TypeOK` |
| `AllocationSafety` | `CreatedOnlyWhereAllowed` | `Spec => CreatedWhereAllowed` |
| `AllocationSafety` | `TerminationEmpties` | `Spec => []TerminatedIsEmptied` |
| `AllocationSafety` | `AllocationsStayWithinPlan` | `Spec => AllocationsFit` |
| `AllocationSafety` | `PlacementStaysWithinNode` | `Spec => PlacementFits` |
| `AccountsSafety` | `TypeCorrect` | `Spec => []TypeOK` |
| `AccountsSafety` | `NewPasswordSignsOut` | `Spec => []SignedOutStaysOut` |
| `AccountsSafety` | `LastAdminIsNotTaken` | `Spec => LastAdminStays` |
| `AccountsSafety` | `NoSessionReturns` | `Spec => SessionsDoNotReturn` |
| `WebhooksSafety` | `RowsAreTrue` | `Spec => []StatusIsTrue` |
| `WebhooksSafety` | `EveryEndpointIsDealtWith` | `Spec => []OthersAreTold` |
| `WebhooksSafety` | `DeliveredStaysSo` | `Spec => DeliveredStays` |

All follow one argument: an inductive invariant that says what holds at *each place* of a goroutine, one
lemma per action, and the property from it. What each needs:

**BotWorkerSafety.** `TypeOK` is not inductive: that `Create` makes a container only of a deploy depends
on where the call is. `CallAt` says what holds at each place of a call, and `Core == TypeOK /\ CallAt` is
inductive (`InitCore`, `NextCore`). The other proofs rest on it and share lemmas about what kinds of
steps there are: `NextCases` splits `Next` into outside steps, steps of the loop and steps of a call;
`CallStepOutcomes` says that a step of a call goes on, returns or ends a removal; `OutsideOutcomes` that
outside steps record or do not, and leave the rest of the worker alone.

`AppliedIsInForce` is about what holds between calls. `Applying` says how far an apply has brought disk
and container at each of its steps, and `SpecInForce == AppliedIsInForce /\ Applying` is preserved by
every step. `RetryOnlyWhenWanted` and `StoppedStaysDown` use it: that a skipped spec equals the one in
force is why skipping it may leave timer and container alone. `RetiredLeavesNothing` needs
`CancelledHasWork`: a cancelled call has something newer recorded, so its worker does not retire.

`DownIsNoticed` relates three queues. `Watched` follows the exit of the container from Docker's event
stream through the recorded exits to those of the job being done: a container that is down and was not
stopped by the worker has its exit in one of them, or `swallowed` says that it was taken for an
expected one. Between calls `run` knows the ID of the present container or none; a finished call that
found the container down has its exit still coming; after a removal that does not retire the report is
stale, but then there is work left, and the worker does not sleep.

That `BotWorker` implements `Supervisor` needs what a call decided some steps earlier: `Due` keeps why the
code is being replaced, or the container destroyed, true until it is; `Applying` and `CallAt` say who may
start a container; and a skipped spec is a stutter because it is the one in force. `KeepsOrder` and
`EndFollows` are the two lemmas the other steps rest on: a step that leaves the order, and a call that ends.

**VolumeDeploySafety.** `Core` has the types, where the volume is mounted at each step (`MountOK`), what
is in `app/`, `prev` and `next` at each step of a swap (`SwapOK`), and how image, file system, the call's
first look and the requested size stand to each other (`SizeOK`). `VersionSteps` sorts every step into
those that keep version and record, replace both, cut the swap short or wipe both; `RecordedIsInApp` and
the refinement `ImplementsStore` both follow from it. `BoxOK` adds the container: its directory is the
one its label names, as long as it has not outlived its deploy.

**HubConnectionsSafety.** `Sound` relates agent, links and handlers: only the agent's own connection is
up; the first frame a handler reads is the hello; what is registered is past its registration; a handler
that may still register has the present token or had slipped through; and with nothing registered the
statistics are forgotten, and the state is unknown once every handler that left has said so.
`PanelShowsTheBot` is about a version that travels. `Telling`: the newest version in the agent's queue
is the bot's; or none is there and the newest on the connection is; or none there either, and the
handler has it in hand or has written it to the row. Lemmas about the newest version of a queue under
`Append` and `Tail` carry it through every frame. That nothing else overwrites the row, and that the
write took place, is what `astray` is for.

**AgentSyncSafety.** Whatever asks for a removal carries its reason: a removal on its way, in a worker or
in a sweep is of a bot that is deleted or omitted. A bot that was never created is in no call, no list,
no worker and not on the disk.

**PanelDeploysSafety.** `Base` has the types, and that every deploy named by a row, a frame, the volume or
a handler was started. `Sent`: what a progress frame says has happened. `OneIsOwned`: of two live deploys
one is named by a handler that is about to supersede the other, or the last to try has failed. `Pointing`:
the bot points at a failed deploy only while a handler is at it or after one could not point it back.
`Healing` and `Ending` follow a spec, and the end of a deploy, through rows read, frames, the pending request
and the operation in flight; the first holds while the sync is undisturbed, the second until the frame that
tells the end is lost.

**AllocationSafety.** What a handler read must still be true when it writes. `RequestOK` types the Go
variables by how far the handler is; `Held` says what its locks keep true: every node it has locked is
open, and the subscription of a creation in its transaction is active. `Sound`, both with the types of
the rows, is inductive; `SetMaintenance` and `SetSubscriptionStatus` keep it because they wait for the
rows. The proof would fail without the second look at a locked row or with a plain read of the
subscription. `Emptying`, for `TerminatedIsEmptied`: the bots of a terminated subscription are on the
list of a handler that deletes them or of one that has yet to read the list, and an insertion holds the
row of an active subscription.

The two theorems about sums need some arithmetic first. `Total` is a fold, which chooses an element and
adds its value to the sum of the rest. The library's induction theorems cannot be used (they take an
operator), so `AddsExists` builds the function that the fold chooses, `Adds`, from the number of units of
every subset (`Units`: the pairs of an element and a number up to its value), and `AddsUnits` shows that
every such function counts the units, by a smallest counterexample among the subsets. So the order in
which the fold takes the elements makes no difference (`SumIsUnits`), and the rest is stated once as laws
of `Sum`: an element taken out (`SumApart`), rows that agree (`SumSame`), fewer rows (`SumLess`).

`AllocationsFit` is about a check and a write with other handlers' steps in between. `Quota` says: two
transactions past their lock have different subscriptions (`Apart`), and for every resource a handler past
`CheckQuota` still fits its plan, with what the subscription uses now, unless the sum of that resource left
int32 (`PastOK`). The exception is the overflow of bots.go:150, and the code has nothing that excludes it: it
accepts any plan and any node that is not too small (tenancy.go:64, nodes.go:94). What remains to be said of
it is that placement compared the size with a node (`Roomy`), and the sum there does not overflow upwards:
what is free plus the bot's own size is at most the node's capacity plus that size. `PlacementFits` needs
no such exception: a sum that fits its `::int` and a capacity that is int32 leave a difference that is.

**AccountsSafety.** Sessions and keys belong to accounts that exist; a request that changes a role or
deletes acts for somebody who was an admin when it was read, and on another account. `SignedOutStaysOut`
is inductive together with this and with `LoginsOK`: a login that holds an older password is marked late.
`LastAdminStays` follows from the step: who takes an admin away was read as one, and is not his own target.

**WebhooksSafety.** `GoesOn` names the jobs that will look at the row or run again. `RowOK` keeps one for
a pending row, one with all its attempts for a failed row whose endpoint was usable, and the only job of a delivered row is past
its write. `Fresh`: an endpoint `emit` has yet to deal with has no row. Types are part of `Sound` there.

**Only model-checked.** Liveness (`RequestsAreServed`, `Converges`, `RequestsEnd`, `Reconnects`,
`HandlersEnd`, `DeliveriesEnd`, `SyncHeals` of AgentSync, `ShowsAll`, `UnwatchedIsQuiet`): fairness and
ENABLED are beyond the prover. `ShowsTheOutput` of LogStreams: where each line
is, between the container, six queues and the browser's list, takes an invariant on sequences of
sequences that has not been written.

## 6. Plan

Done: all modules of section 2 with their runs, and the theorems of section 5.

Next: the agent of `PanelDeploys` as an instance of `Supervisor`, which would tie the panel's and the
agent's halves together. `ShowsTheOutput` as a theorem. The rate limiter.

## 7. Not modelled

File manager, archive extraction, statistics, firewall and log demultiplexing are I/O or functions of
byte strings without protocol state; passwords, tokens, sealed secrets, templates and configuration
are library calls and parsing; generated database code is modelled where its SQL is used; the web
interface holds no state the panel depends on. `PROJECT.json` lists each with its reason.

## 8. Running

    tlc -config MCBotWorker.cfg MCBotWorker.tla      # any MC module with one of its .cfg files
    tlapm BotWorkerSafety.tla                        # any module named *Safety
