------------------------------ MODULE Allocation ------------------------------
(***************************************************************************)
(* Who gets which room: creating, resizing and deleting bots               *)
(* (internal/panel/bots.go), and suspending and terminating subscriptions  *)
(* (internal/panel/tenancy.go), as PostgreSQL runs them at READ COMMITTED. *)
(*                                                                         *)
(* Every statement is a step.  A statement sees what was committed when it *)
(* began, also when it then waits for a row lock; createBot and updateBot  *)
(* are transactions that hold the locks they take until they end, the      *)
(* other handlers run each statement by itself.  A transaction writes      *)
(* once, as its last statement, so the write and the commit are one step.  *)
(*                                                                         *)
(* Left out: CPU, which is treated like memory; names, templates and       *)
(* environments; the pushes to the agent (PanelDeploys.tla).  Of what a    *)
(* node must meet to be a candidate, open stands for all of it: no         *)
(* maintenance, seen lately, and hardened or able to run runsc if the      *)
(* template asks for that.  An operator named Bug_X is X with a bug; no    *)
(* definition uses it.                                                     *)
(***************************************************************************)
EXTENDS Integers, FiniteSets, Functions

CONSTANTS
  Handlers,     \* HTTP requests being served at a time
  Subs,         \* subscriptions
  Nodes,        \* node IDs, ordered as ORDER BY n.id does: numbers
  Bots,         \* room for bot IDs
  Sizes,        \* sizes that are asked for
  Limits,       \* what the effective plan of a subscription may be
  Capacity,     \* of a node, the overcommit factor applied to memory
  MaxInt,       \* the largest int32
  MaxFaults,    \* bound: statements that fail, requests that are cancelled
  NoBot, NoSub  \* Go's uuid.Nil

Resource == {"memory", "disk"}
Size == [Resource -> 1 .. MaxInt]
Limit == [Resource \cup {"bots"} -> 1 .. MaxInt]

ASSUME AllocationConstants ==
  /\ Nodes \subseteq Nat /\ IsFiniteSet(Nodes) /\ IsFiniteSet(Bots)
  /\ Sizes \subseteq Size /\ Limits \subseteq Limit /\ Limits # {}
  /\ Capacity \in [Nodes -> Size]
  /\ MaxInt \in Nat /\ MaxFaults \in Nat
  /\ NoBot \notin Bots /\ NoSub \notin Subs

VARIABLES
  bots,         \* the rows of bots that are not deleted
  status, limit,   \* of each subscription; limit is its effectivePlan
  open,         \* the node may be a candidate: above all, it is not in maintenance
  req,          \* per handler: how far it is, and its Go variables
  faults

vars == <<bots, status, limit, open, req, faults>>

Row == [sub : Subs, node : Nodes, size : Size]
NoRow == [size |-> [r \in Resource |-> 0]]
Live == DOMAIN bots         \* deleted_at IS NULL

Idle == [pc |-> "idle", sub |-> NoSub, bot |-> NoBot, row |-> NoRow,
         size |-> NoRow.size, plan |-> [r \in Resource \cup {"bots"} |-> 0],
         used |-> [n \in Nodes |-> NoRow.size], todo |-> {}, locked |-> {}, target |-> "active",
         wrapped |-> {}]     \* observer: the resources whose sum left int32 in checkQuota

Init ==
  /\ bots = [b \in {} |-> NoRow]
  /\ status = [s \in Subs |-> "active"] /\ limit \in [Subs -> Limits]
  /\ open = [n \in Nodes |-> TRUE]
  /\ req = [p \in Handlers |-> Idle] /\ faults = 0

-----------------------------------------------------------------------------
(* Sums, in int32.                                                         *)

Wrap(x) == IF x > MaxInt THEN x - 2 * (MaxInt + 1) ELSE x
Total(S, r) == SumFunctionOnSet([b \in S |-> bots[b].size[r]], S)
OnNode(n) == {b \in Live : bots[b].node = n}
OfSub(s) == {b \in Live : bots[b].sub = s}
SumFails(S) == \E r \in Resource : Total(S, r) > MaxInt     \* ::int fails the statement

\* SubscriptionUsage, without the bot that is being resized; checkQuota.
OverQuota(q, others) ==
  \/ SumFails(others)
  \/ q.bot = NoBot /\ Cardinality(others) + 1 > q.plan["bots"]
  \/ \E r \in Resource : Wrap(Total(others, r) + q.size[r]) > q.plan[r]

Overflows(q, others) == {r \in Resource : Total(others, r) + q.size[r] > MaxInt}

\* What fits of size on node n, which used[n] is taken of and from which the bot's
\* own size goes back.
Bug_Fits(q, n) == \A r \in Resource : Wrap(Capacity[n][r] - q.used[n][r] + q.row.size[r]) >= q.size[r] - 1
Fits(q, n) == \A r \in Resource : Wrap(Capacity[n][r] - q.used[n][r] + q.row.size[r]) >= q.size[r]

FreeMemory(q, n) == Capacity[n]["memory"] - q.used[n]["memory"]

\* place: the most free memory, the first in order if several have it; none when the
\* new bot fits nowhere.
Best(q, n) ==
  \A m \in {k \in q.locked : Fits(q, k)} :
    FreeMemory(q, m) < FreeMemory(q, n) \/ (FreeMemory(q, m) = FreeMemory(q, n) /\ n <= m)
Place(q) == {n \in q.locked : Fits(q, n) /\ Best(q, n)}

-----------------------------------------------------------------------------
(* Row locks, held from the statement that takes them to the end.          *)

InTransaction == {"quota", "candidates", "lock", "write"}
Bug_SubFree(s) == TRUE      \* GetSubscription, without FOR UPDATE
SubFree(s) == \A p \in Handlers : ~(req[p].pc \in InTransaction /\ req[p].sub = s)
NodeFree(n) == \A p \in Handlers : n \notin req[p].locked

Become(p, q) == req' = [req EXCEPT ![p] = q]
End(p) == Become(p, Idle)
Data == <<bots, status, limit, open, faults>>

-----------------------------------------------------------------------------
(* The statements that write.  A deleted bot keeps its row, but every      *)
(* statement here leaves it out.                                           *)

InsertBot(b, row) == bots' = [c \in Live \cup {b} |-> IF c = b THEN row ELSE bots[c]]
UpdateBotSettings(b, size) == bots' = IF b \in Live THEN [bots EXCEPT ![b].size = size] ELSE bots
SoftDeleteBot(b) == bots' = [c \in Live \ {b} |-> bots[c]]
SetStatus(s, st) == status' = [status EXCEPT ![s] = st]
UpdateNode(n) == open' = [open EXCEPT ![n] = ~@]

-----------------------------------------------------------------------------
(* createBot and updateBot.                                                *)

CreateBot(p) ==
  /\ req[p].pc = "idle"
  /\ \E s \in Subs, size \in Sizes : Become(p, [Idle EXCEPT !.pc = "begin", !.sub = s, !.size = size])
  /\ UNCHANGED Data

GetBot(b) == [Idle EXCEPT !.sub = bots[b].sub, !.bot = b, !.row = bots[b]]

\* loadBot, and the check against shrinking, come before the transaction.
UpdateBot(p) ==
  /\ req[p].pc = "idle"
  /\ \E b \in Live, size \in Sizes :
       /\ size["disk"] >= bots[b].size["disk"]
       /\ Become(p, [GetBot(b) EXCEPT !.pc = "begin", !.size = size])
  /\ UNCHANGED Data

\* GetSubscriptionForUpdate, and GetPlan, which nothing else relates to it.
LockSubscription(p) ==
  /\ req[p].pc = "begin" /\ SubFree(req[p].sub)
  /\ IF req[p].bot = NoBot /\ status[req[p].sub] # "active" THEN End(p)
     ELSE Become(p, [req[p] EXCEPT !.pc = "quota", !.plan = limit[req[p].sub]])
  /\ UNCHANGED Data

Grows(q) == \E r \in Resource : q.size[r] > q.row.size[r]

CheckQuota(p) ==
  /\ req[p].pc = "quota"
  /\ LET others == OfSub(req[p].sub) \ {req[p].bot} IN
       IF OverQuota(req[p], others) THEN End(p)
       ELSE Become(p, [req[p] EXCEPT !.pc = IF Grows(req[p]) THEN "candidates" ELSE "write",
                                     !.wrapped = Overflows(req[p], others)])
  /\ UNCHANGED Data

\* PlacementCandidates begins: usage as committed now, then the rows in order.
PlacementCandidates(p) ==
  /\ req[p].pc = "candidates"
  /\ IF \E n \in Nodes : open[n] /\ SumFails(OnNode(n)) THEN End(p)
     ELSE Become(p, [req[p] EXCEPT
       !.pc = IF \E n \in Nodes : open[n] THEN "lock" ELSE "write",
       !.used = [n \in Nodes |-> [r \in Resource |-> Total(OnNode(n), r)]],
       !.todo = {n \in Nodes : open[n]}])
  /\ UNCHANGED Data

\* FOR UPDATE OF n: once a row is locked its conditions are looked at again.
Bug_NextNode(q) == q.todo        \* no ORDER BY
NextNode(q) == {n \in q.todo : \A m \in q.todo : n <= m}
Bug_Recheck(n) == TRUE
Recheck(n) == open[n]

LockNode(p) ==
  /\ req[p].pc = "lock"
  /\ \E n \in NextNode(req[p]) :
       /\ NodeFree(n)
       /\ Become(p, [req[p] EXCEPT
            !.pc = IF req[p].todo = {n} THEN "write" ELSE "lock",
            !.todo = @ \ {n},
            !.locked = IF Recheck(n) THEN @ \cup {n} ELSE @])
  /\ UNCHANGED Data

Unreferenced(b) == b \notin Live /\ \A p \in Handlers : req[p].bot # b /\ b \notin req[p].todo

\* CreateBot and the commit. With no ID left in Bots the insert fails.
Insert(p) ==
  /\ req[p].pc = "write" /\ req[p].bot = NoBot
  /\ IF (\E b \in Bots : Unreferenced(b)) /\ Place(req[p]) # {}
     THEN \E b \in {c \in Bots : Unreferenced(c)}, n \in Place(req[p]) :
            InsertBot(b, [sub |-> req[p].sub, node |-> n, size |-> req[p].size])
     ELSE UNCHANGED bots
  /\ End(p)
  /\ UNCHANGED <<status, limit, open, faults>>

\* fitsNode, UpdateBotSettings and the commit. A deleted bot has no row to change.
Resize(p) ==
  /\ req[p].pc = "write" /\ req[p].bot # NoBot
  /\ LET q == req[p]  room == ~Grows(q) \/ (q.row.node \in q.locked /\ Fits(q, q.row.node)) IN
       IF room THEN UpdateBotSettings(q.bot, q.size) ELSE UNCHANGED bots
  /\ End(p)
  /\ UNCHANGED <<status, limit, open, faults>>

\* Its row is all that deleteBot looks at.
DeleteBot(b) ==
  /\ b \in Live /\ SoftDeleteBot(b)
  /\ UNCHANGED <<status, limit, open, req, faults>>

-----------------------------------------------------------------------------
(* updateSubscription.                                                     *)

UpdateSubscription(p) ==
  /\ req[p].pc = "idle"
  /\ \E s \in Subs, st \in {"active", "suspended", "terminated"} :
       /\ status[s] # "terminated"
       /\ Become(p, [Idle EXCEPT !.pc = "status", !.sub = s, !.target = st])
  /\ UNCHANGED Data

SetSubscriptionStatus(p) ==
  /\ req[p].pc = "status" /\ SubFree(req[p].sub)
  /\ SetStatus(req[p].sub, req[p].target)
  /\ Become(p, IF req[p].target = "terminated" THEN [req[p] EXCEPT !.pc = "list"] ELSE Idle)
  /\ UNCHANGED <<bots, limit, open, faults>>

\* terminateSubscriptionBots: SetBotsDesiredForSubscription returns the bots, and
\* SoftDeleteBot deletes them one by one.
ListBots(p) ==
  /\ req[p].pc = "list"
  /\ Become(p, IF OfSub(req[p].sub) = {} THEN Idle
               ELSE [req[p] EXCEPT !.pc = "delete", !.todo = OfSub(req[p].sub)])
  /\ UNCHANGED Data

SoftDelete(p) ==
  /\ req[p].pc = "delete"
  /\ \E b \in req[p].todo :
       /\ SoftDeleteBot(b)
       /\ Become(p, IF req[p].todo = {b} THEN Idle ELSE [req[p] EXCEPT !.todo = @ \ {b}])
  /\ UNCHANGED <<status, limit, open, faults>>

-----------------------------------------------------------------------------
(* The rest of the world.                                                  *)

\* updatePlan, for the subscriptions that have no override of their own. It waits for
\* the plan's row, which no handler locks.
UpdatePlan ==
  /\ \E S \in SUBSET Subs, l \in Limits : limit' = [s \in Subs |-> IF s \in S THEN l ELSE limit[s]]
  /\ UNCHANGED <<bots, status, open, req, faults>>

\* updateSubscription: SetSubscriptionPlan and SetSubscriptionOverrides wait for the row.
SetSubscriptionLimits ==
  /\ \E s \in Subs, l \in Limits : SubFree(s) /\ limit' = [limit EXCEPT ![s] = l]
  /\ UNCHANGED <<bots, status, open, req, faults>>

\* updateNode waits for the row.
SetMaintenance ==
  /\ \E n \in Nodes : NodeFree(n) /\ UpdateNode(n)
  /\ UNCHANGED <<bots, status, limit, req, faults>>

\* A statement fails, or the client goes away and its context is cancelled.
Fail(p) ==
  /\ req[p].pc # "idle" /\ faults < MaxFaults /\ faults' = faults + 1
  /\ End(p)
  /\ UNCHANGED <<bots, status, limit, open>>

Handle(p) ==
  \/ LockSubscription(p) \/ CheckQuota(p) \/ PlacementCandidates(p) \/ LockNode(p)
  \/ Insert(p) \/ Resize(p)
  \/ SetSubscriptionStatus(p) \/ ListBots(p) \/ SoftDelete(p)

Next ==
  \/ \E p \in Handlers : CreateBot(p) \/ UpdateBot(p) \/ UpdateSubscription(p) \/ Handle(p) \/ Fail(p)
  \/ \E b \in Bots : DeleteBot(b)
  \/ UpdatePlan \/ SetSubscriptionLimits \/ SetMaintenance

Spec == Init /\ [][Next]_vars

\* PostgreSQL grants a row lock to those who wait for it in turn.
FairSpec == Spec /\ \A p \in Handlers : SF_vars(Handle(p))

-----------------------------------------------------------------------------
(* Properties.                                                             *)

\* Every variable stays in its range: no bot without a node, no size below one.
TypeOK ==
  /\ Live \subseteq Bots /\ \A b \in Live : bots[b] \in Row
  /\ status \in [Subs -> {"active", "suspended", "terminated"}]
  /\ limit \in [Subs -> Limits] /\ open \in [Nodes -> BOOLEAN]
  /\ \A p \in Handlers :
       /\ req[p].pc \in {"idle", "begin", "status", "list", "delete"} \cup InTransaction
       /\ req[p].bot \in Bots \cup {NoBot} /\ req[p].row \in Row \cup {NoRow}
       /\ req[p].size \in Size \cup {NoRow.size} /\ req[p].locked \subseteq Nodes
  /\ faults \in 0 .. MaxFaults

Use(s) == [r \in Resource \cup {"bots"} |->
  IF r = "bots" THEN Cardinality(OfSub(s)) ELSE Total(OfSub(s), r)]

\* The quota check of q added up more of r than an int32 holds, and compared what was left
\* of it; a node has room for the size, on top of what the bot has.
Unchecked(q, r) == r \in q.wrapped /\ \E n \in Nodes : q.size[r] <= Capacity[n][r] + q.row.size[r]

\* A step that adds to a subscription's use of a resource ends within the plan its
\* handler was shown, whatever was created, resized or suspended at the same time
\* (bots.go:137); unless the sum of checkQuota overflowed (bots.go:150), for which
\* a node must have room for such a size.
AllocationsFit ==
  [][\A s \in Subs, r \in Resource \cup {"bots"} :
       Use(s)'[r] > Use(s)[r] =>
         \E p \in Handlers : /\ req[p].sub = s /\ req'[p] = Idle
                             /\ Use(s)'[r] <= req[p].plan[r] \/ Unchecked(req[p], r)]_vars

\* A bot only ever appears on a subscription that is active at that moment, on a
\* node that is not in maintenance at that moment, though both were read before.
CreatedWhereAllowed ==
  [][\A b \in Live' \ Live : status[bots'[b].sub] = "active" /\ open[bots'[b].node]]_vars

Working(s) == \E p \in Handlers : req[p].sub = s /\ req[p].pc \in {"list", "delete"}

\* Terminating a subscription deletes its bots, those created meanwhile too, unless
\* a statement fails (tenancy.go:614).
TerminatedIsEmptied ==
  faults = 0 => \A s \in Subs : status[s] = "terminated" /\ ~Working(s) => OfSub(s) = {}

\* A placement or a growth that was decided on usage that is still true leaves the
\* node within its capacity.
NodeUse(n) == [r \in Resource |-> Total(OnNode(n), r)]
Within(n) == \A r \in Resource : NodeUse(n)[r] <= Capacity[n][r]
PlacementFits ==
  [][\A n \in Nodes, p \in Handlers :
       /\ Within(n) /\ req[p].pc = "write" /\ req'[p] = Idle /\ n \in req[p].locked
       /\ req[p].used[n] = NodeUse(n) /\ (req[p].bot \in Live => req[p].row = bots[req[p].bot])
       => Within(n)']_vars

\* Whoever waits for a lock gets it: no two transactions wait for each other.
RequestsEnd == \A p \in Handlers : req[p].pc # "idle" ~> req[p].pc = "idle"
===============================================================================
