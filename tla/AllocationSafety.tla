--------------------------- MODULE AllocationSafety ---------------------------
(***************************************************************************)
(* Allocation for every value of its constants: the types, that a bot is   *)
(* only created where the rows allow it at that moment, that a terminated  *)
(* subscription has no bots, that subscriptions stay within their plans    *)
(* and that nodes stay within their capacity.                              *)
(*                                                                         *)
(* What a handler read must still be true when it writes.  Held says what  *)
(* keeps it true: as long as a transaction has the subscription's row,     *)
(* nobody changes its status, and as long as it has a node's, nobody       *)
(* changes whether the node is open.  Emptying says that the bots of a     *)
(* terminated subscription are on the list of a handler that deletes them, *)
(* or of one that has yet to read it.  Quota says the same of usage: as    *)
(* long as a transaction has the subscription's row, what it uses only     *)
(* becomes less, so what checkQuota found still holds at the write.        *)
(***************************************************************************)
EXTENDS Allocation, FiniteSetTheorems, TLAPS

Fields == {"pc", "sub", "bot", "row", "size", "plan", "used", "todo", "locked", "target", "wrapped"}

\* A handler's Go variables, by how far it is.
RequestOK(q) ==
  /\ DOMAIN q = Fields
  /\ q.pc \in {"idle", "begin", "status", "list", "delete"} \cup InTransaction
  /\ q.bot \in Bots \cup {NoBot} /\ q.row \in Row \cup {NoRow}
  /\ q.size \in Size \cup {NoRow.size} /\ q.locked \subseteq Nodes
  /\ q.target \in {"active", "suspended", "terminated"}
  /\ q.pc # "idle" => q.sub \in Subs
  /\ q.pc \in {"begin"} \cup InTransaction => q.size \in Size
  /\ q.pc = "lock" => q.todo \subseteq Nodes

\* What its row locks keep true, st and op being the rows' status and openness.
Held(q, st, op) ==
  /\ \A n \in q.locked : op[n]
  /\ q.pc \in InTransaction /\ q.bot = NoBot => st[q.sub] = "active"

RequestsOK ==
  /\ req = [p \in Handlers |-> req[p]]
  /\ \A p \in Handlers : RequestOK(req[p]) /\ Held(req[p], status, open)

DataOK ==
  /\ Live \subseteq Bots /\ \A b \in Live : bots[b] \in Row
  /\ status \in [Subs -> {"active", "suspended", "terminated"}]
  /\ limit \in [Subs -> Limits] /\ open \in [Nodes -> BOOLEAN]
  /\ faults \in 0 .. MaxFaults

Sound == DataOK /\ RequestsOK

LEMMA SoundTypes == Sound => TypeOK
  BY DEF Sound, DataOK, RequestsOK, RequestOK, TypeOK

-----------------------------------------------------------------------------
(* One handler moves, and the rows it reads are as they were.              *)

LEMMA IdleOK == /\ RequestOK(Idle) /\ DOMAIN Idle = Fields
                /\ \A st, op : Held(Idle, st, op)
  BY DEF Idle, RequestOK, Held, Fields, InTransaction

LEMMA OneMoves ==
  ASSUME RequestsOK, NEW p \in Handlers, NEW q, Become(p, q), RequestOK(q),
         Held(q, status', open'),
         \A r \in Handlers \ {p} : Held(req[r], status', open')
  PROVE  RequestsOK'
  <1>1. \A r \in Handlers : req'[r] = IF r = p THEN q ELSE req[r]
    BY DEF Become, RequestsOK
  <1>2. req' = [r \in Handlers |-> req'[r]]
    BY <1>1 DEF Become, RequestsOK
  <1>3. ASSUME NEW r \in Handlers PROVE RequestOK(req'[r]) /\ Held(req'[r], status', open')
    <2>1. CASE r = p
      BY <1>1, <2>1
    <2>2. CASE r # p
      BY <1>1, <2>2 DEF RequestsOK
    <2> QED  BY <2>1, <2>2
  <1> QED  BY <1>2, <1>3 DEF RequestsOK

LEMMA OneMovesAlone ==
  ASSUME RequestsOK, NEW p \in Handlers, NEW q, Become(p, q), RequestOK(q),
         Held(q, status, open), UNCHANGED <<status, open>>
  PROVE  RequestsOK'
  <1>1. Held(q, status', open') /\ \A r \in Handlers \ {p} : Held(req[r], status', open')
    BY DEF RequestsOK
  <1> QED  BY <1>1, OneMoves

LEMMA OneEnds ==
  ASSUME RequestsOK, NEW p \in Handlers, End(p), UNCHANGED <<status, open>> PROVE RequestsOK'
  BY IdleOK, OneMovesAlone DEF End

LEMMA DataKept == ASSUME DataOK, UNCHANGED Data PROVE DataOK'
  BY DEF DataOK, Data, Live

-----------------------------------------------------------------------------
(* Each action keeps Sound.                                                *)

LEMMA CreateBotSound == ASSUME Sound, NEW p \in Handlers, CreateBot(p) PROVE Sound'
  <1>1. PICK s \in Subs, size \in Sizes : Become(p, [Idle EXCEPT !.pc = "begin", !.sub = s, !.size = size])
    BY DEF CreateBot
  <1> DEFINE q == [Idle EXCEPT !.pc = "begin", !.sub = s, !.size = size]
  <1>2. RequestOK(q) /\ Held(q, status, open)
    BY AllocationConstants DEF Idle, RequestOK, Held, Fields, InTransaction
  <1>3. RequestsOK'
    BY <1>1, <1>2, OneMovesAlone DEF CreateBot, Data, Sound
  <1> QED  BY <1>3, DataKept DEF CreateBot, Sound

LEMMA UpdateBotSound == ASSUME Sound, NEW p \in Handlers, UpdateBot(p) PROVE Sound'
  <1>1. PICK b \in Live, size \in Sizes :
          Become(p, [Idle EXCEPT !.pc = "begin", !.sub = bots[b].sub, !.bot = b, !.row = bots[b], !.size = size])
    BY DEF UpdateBot, GetBot
  <1> DEFINE q == [Idle EXCEPT !.pc = "begin", !.sub = bots[b].sub, !.bot = b, !.row = bots[b], !.size = size]
  <1>2. b \in Bots /\ bots[b] \in Row /\ bots[b].sub \in Subs /\ size \in Size
    BY AllocationConstants DEF Sound, DataOK, Row
  <1>3. RequestOK(q) /\ Held(q, status, open)
    BY <1>2 DEF Idle, RequestOK, Held, Fields, InTransaction
  <1>4. RequestsOK'
    BY <1>1, <1>3, OneMovesAlone DEF UpdateBot, GetBot, Data, Sound
  <1> QED  BY <1>4, DataKept DEF UpdateBot, GetBot, Sound

LEMMA LockSubscriptionSound == ASSUME Sound, NEW p \in Handlers, LockSubscription(p) PROVE Sound'
  <1> DEFINE q == [req[p] EXCEPT !.pc = "quota", !.plan = limit[req[p].sub]]
  <1>1. CASE End(p)
    BY <1>1, OneEnds, DataKept DEF LockSubscription, Data, Sound
  <1>2. CASE ~(req[p].bot = NoBot /\ status[req[p].sub] # "active") /\ Become(p, q)
    <2>1. RequestOK(req[p]) /\ Held(req[p], status, open) /\ req[p].pc = "begin"
      BY DEF Sound, RequestsOK, LockSubscription
    <2>2. RequestOK(q) /\ Held(q, status, open)
      BY <1>2, <2>1 DEF RequestOK, Held, Fields, InTransaction
    <2>3. RequestsOK'
      BY <1>2, <2>2, OneMovesAlone DEF LockSubscription, Data, Sound
    <2> QED  BY <2>3, DataKept DEF LockSubscription, Sound
  <1> QED  BY <1>1, <1>2 DEF LockSubscription

LEMMA CheckQuotaSound == ASSUME Sound, NEW p \in Handlers, CheckQuota(p) PROVE Sound'
  <1> DEFINE q == [req[p] EXCEPT !.pc = IF Grows(req[p]) THEN "candidates" ELSE "write",
                                 !.wrapped = Overflows(req[p], OfSub(req[p].sub) \ {req[p].bot})]
  <1>1. CASE End(p)
    BY <1>1, OneEnds, DataKept DEF CheckQuota, Data, Sound
  <1>2. CASE Become(p, q)
    <2>1. RequestOK(req[p]) /\ Held(req[p], status, open) /\ req[p].pc = "quota"
      BY DEF Sound, RequestsOK, CheckQuota
    <2>2. RequestOK(q) /\ Held(q, status, open)
      BY <2>1 DEF RequestOK, Held, Fields, InTransaction
    <2>3. RequestsOK'
      BY <1>2, <2>2, OneMovesAlone DEF CheckQuota, Data, Sound
    <2> QED  BY <2>3, DataKept DEF CheckQuota, Sound
  <1> QED  BY <1>1, <1>2 DEF CheckQuota

LEMMA PlacementCandidatesSound == ASSUME Sound, NEW p \in Handlers, PlacementCandidates(p) PROVE Sound'
  <1> DEFINE q == [req[p] EXCEPT
       !.pc = IF \E n \in Nodes : open[n] THEN "lock" ELSE "write",
       !.used = [n \in Nodes |-> [r \in Resource |-> Total(OnNode(n), r)]],
       !.todo = {n \in Nodes : open[n]}]
  <1>1. RequestOK(req[p]) /\ Held(req[p], status, open) /\ req[p].pc = "candidates"
    BY DEF Sound, RequestsOK, PlacementCandidates
  <1>2. RequestOK(q) /\ Held(q, status, open)
    BY <1>1 DEF RequestOK, Held, Fields, InTransaction
  <1>3. CASE End(p)
    BY <1>3, OneEnds, DataKept DEF PlacementCandidates, Data, Sound
  <1>4. CASE Become(p, q)
    <2>1. RequestsOK'
      BY <1>2, <1>4, OneMovesAlone DEF PlacementCandidates, Data, Sound
    <2> QED  BY <2>1, DataKept DEF PlacementCandidates, Sound
  <1> QED  BY <1>3, <1>4 DEF PlacementCandidates

\* The only step that adds to what is locked: the node is open once it is.
LEMMA LockNodeSound == ASSUME Sound, NEW p \in Handlers, LockNode(p) PROVE Sound'
  <1>1. PICK n \in NextNode(req[p]) : Become(p, [req[p] EXCEPT
            !.pc = IF req[p].todo = {n} THEN "write" ELSE "lock",
            !.todo = @ \ {n},
            !.locked = IF Recheck(n) THEN @ \cup {n} ELSE @])
    BY DEF LockNode
  <1> DEFINE q == [req[p] EXCEPT
            !.pc = IF req[p].todo = {n} THEN "write" ELSE "lock",
            !.todo = @ \ {n},
            !.locked = IF Recheck(n) THEN @ \cup {n} ELSE @]
  <1>2. RequestOK(req[p]) /\ Held(req[p], status, open) /\ req[p].pc = "lock"
    BY DEF Sound, RequestsOK, LockNode
  <1>3. n \in Nodes
    BY <1>2 DEF RequestOK, NextNode
  <1>4. RequestOK(q) /\ Held(q, status, open)
    BY <1>2, <1>3 DEF RequestOK, Held, Fields, InTransaction, Recheck
  <1>5. RequestsOK'
    BY <1>1, <1>4, OneMovesAlone DEF LockNode, Data, Sound
  <1> QED  BY <1>5, DataKept DEF LockNode, Sound

LEMMA InsertSound == ASSUME Sound, NEW p \in Handlers, Insert(p) PROVE Sound'
  <1>1. RequestsOK'
    BY OneEnds DEF Insert, InsertBot, Sound
  <1>2. CASE UNCHANGED bots
    BY <1>1, <1>2, DataKept DEF Insert, InsertBot, Data, Sound
  <1>3. CASE \E b \in {c \in Bots : Unreferenced(c)}, n \in Place(req[p]) :
               bots' = [c \in Live \cup {b} |->
                 IF c = b THEN [sub |-> req[p].sub, node |-> n, size |-> req[p].size] ELSE bots[c]]
    <2>1. PICK b \in Bots, n \in Place(req[p]) :
            bots' = [c \in Live \cup {b} |->
              IF c = b THEN [sub |-> req[p].sub, node |-> n, size |-> req[p].size] ELSE bots[c]]
      BY <1>3
    <2>2. RequestOK(req[p]) /\ req[p].pc = "write"
      BY DEF Sound, RequestsOK, Insert, InsertBot
    <2>3. [sub |-> req[p].sub, node |-> n, size |-> req[p].size] \in Row
      BY <2>2 DEF RequestOK, Row, Place, InTransaction
    <2>4. Live' = Live \cup {b} /\ \A c \in Live' : bots'[c] \in Row
      BY <2>1, <2>3 DEF Sound, DataOK, Live
    <2> QED  BY <1>1, <2>4 DEF Insert, InsertBot, Sound, DataOK
  <1> QED  BY <1>2, <1>3 DEF Insert, InsertBot

LEMMA ResizeSound == ASSUME Sound, NEW p \in Handlers, Resize(p) PROVE Sound'
  <1>1. RequestsOK'
    BY OneEnds DEF Resize, UpdateBotSettings, Sound
  <1>2. CASE bots' = bots
    BY <1>1, <1>2, DataKept DEF Resize, UpdateBotSettings, Data, Sound
  <1>3. CASE req[p].bot \in Live /\ bots' = [bots EXCEPT ![req[p].bot].size = req[p].size]
    <2>1. req[p].size \in Size
      BY DEF Sound, RequestsOK, RequestOK, Resize, UpdateBotSettings, InTransaction
    <2>2. Live' = Live /\ \A c \in Live : bots'[c] \in Row
      BY <1>3, <2>1 DEF Sound, DataOK, Live, Row
    <2> QED  BY <1>1, <2>2 DEF Resize, UpdateBotSettings, Sound, DataOK
  <1> QED  BY <1>2, <1>3 DEF Resize, UpdateBotSettings

LEMMA Fewer == ASSUME DataOK, NEW b, bots' = [c \in Live \ {b} |-> bots[c]],
                      UNCHANGED <<status, limit, open, faults>>
               PROVE  DataOK'
  BY DEF DataOK, Live

LEMMA DeleteBotSound == ASSUME Sound, NEW b \in Bots, DeleteBot(b) PROVE Sound'
  <1>1. DataOK'
    BY Fewer DEF DeleteBot, SoftDeleteBot, Sound
  <1>2. RequestsOK'
    BY DEF DeleteBot, SoftDeleteBot, Sound, RequestsOK
  <1> QED  BY <1>1, <1>2 DEF Sound

LEMMA UpdateSubscriptionSound == ASSUME Sound, NEW p \in Handlers, UpdateSubscription(p) PROVE Sound'
  <1>1. PICK s \in Subs, st \in {"active", "suspended", "terminated"} :
          Become(p, [Idle EXCEPT !.pc = "status", !.sub = s, !.target = st])
    BY DEF UpdateSubscription
  <1> DEFINE q == [Idle EXCEPT !.pc = "status", !.sub = s, !.target = st]
  <1>2. RequestOK(q) /\ Held(q, status, open)
    BY DEF Idle, RequestOK, Held, Fields, InTransaction
  <1>3. RequestsOK'
    BY <1>1, <1>2, OneMovesAlone DEF UpdateSubscription, Data, Sound
  <1> QED  BY <1>3, DataKept DEF UpdateSubscription, Sound

\* The row is free, so no other handler depends on the status that changes.
LEMMA SetSubscriptionStatusSound == ASSUME Sound, NEW p \in Handlers, SetSubscriptionStatus(p) PROVE Sound'
  <1> DEFINE q == IF req[p].target = "terminated" THEN [req[p] EXCEPT !.pc = "list"] ELSE Idle
  <1>1. RequestOK(req[p]) /\ Held(req[p], status, open) /\ req[p].pc = "status"
    BY DEF Sound, RequestsOK, SetSubscriptionStatus, SetStatus
  <1>2. RequestOK(q) /\ Held(q, status', open')
    BY <1>1, IdleOK DEF SetSubscriptionStatus, SetStatus, RequestOK, Held, Fields, InTransaction
  <1>3. ASSUME NEW r \in Handlers \ {p} PROVE Held(req[r], status', open')
    <2>1. RequestOK(req[r]) /\ Held(req[r], status, open)
      BY DEF Sound, RequestsOK
    <2>2. req[r].pc \in InTransaction => req[r].sub # req[p].sub
      BY DEF SetSubscriptionStatus, SetStatus, SubFree
    <2> QED  BY <2>1, <2>2, <1>1 DEF SetSubscriptionStatus, SetStatus, Held, Sound, DataOK
  <1>4. RequestsOK'
    BY <1>2, <1>3, OneMoves DEF SetSubscriptionStatus, SetStatus, Sound
  <1>5. DataOK'
    BY <1>1 DEF SetSubscriptionStatus, SetStatus, Sound, DataOK, RequestOK, Live
  <1> QED  BY <1>4, <1>5 DEF Sound

LEMMA ListBotsSound == ASSUME Sound, NEW p \in Handlers, ListBots(p) PROVE Sound'
  <1> DEFINE q == IF OfSub(req[p].sub) = {} THEN Idle
                  ELSE [req[p] EXCEPT !.pc = "delete", !.todo = OfSub(req[p].sub)]
  <1>1. RequestOK(req[p]) /\ Held(req[p], status, open) /\ req[p].pc = "list"
    BY DEF Sound, RequestsOK, ListBots
  <1>2. RequestOK(q) /\ Held(q, status, open)
    BY <1>1, IdleOK DEF RequestOK, Held, Fields, InTransaction
  <1>3. RequestsOK'
    BY <1>2, OneMovesAlone DEF ListBots, Data, Sound
  <1> QED  BY <1>3, DataKept DEF ListBots, Sound

LEMMA SoftDeleteSound == ASSUME Sound, NEW p \in Handlers, SoftDelete(p) PROVE Sound'
  <1>1. PICK b \in req[p].todo : /\ bots' = [c \in Live \ {b} |-> bots[c]]
                                 /\ Become(p, IF req[p].todo = {b} THEN Idle ELSE [req[p] EXCEPT !.todo = @ \ {b}])
    BY DEF SoftDelete, SoftDeleteBot
  <1> DEFINE q == IF req[p].todo = {b} THEN Idle ELSE [req[p] EXCEPT !.todo = @ \ {b}]
  <1>2. RequestOK(req[p]) /\ Held(req[p], status, open) /\ req[p].pc = "delete"
    BY DEF Sound, RequestsOK, SoftDelete, SoftDeleteBot
  <1>3. RequestOK(q) /\ Held(q, status, open)
    BY <1>2, IdleOK DEF RequestOK, Held, Fields, InTransaction
  <1>4. RequestsOK'
    BY <1>1, <1>3, OneMovesAlone DEF SoftDelete, SoftDeleteBot, Sound
  <1> QED  BY <1>1, <1>4, Fewer DEF SoftDelete, SoftDeleteBot, Sound

LEMMA LimitsSound == ASSUME Sound, UpdatePlan \/ SetSubscriptionLimits PROVE Sound'
  <1>1. limit' \in [Subs -> Limits]
    BY DEF UpdatePlan, SetSubscriptionLimits, Sound, DataOK
  <1> QED  BY <1>1 DEF UpdatePlan, SetSubscriptionLimits, Sound, DataOK, RequestsOK, Live

\* The row is free, so no handler depends on whether the node is open.
LEMMA SetMaintenanceSound == ASSUME Sound, SetMaintenance PROVE Sound'
  <1>1. PICK n \in Nodes : NodeFree(n) /\ open' = [open EXCEPT ![n] = ~@]
    BY DEF SetMaintenance, UpdateNode
  <1>2. ASSUME NEW r \in Handlers PROVE Held(req[r], status', open')
    <2>1. RequestOK(req[r]) /\ Held(req[r], status, open) /\ n \notin req[r].locked
      BY <1>1 DEF Sound, RequestsOK, NodeFree
    <2> QED  BY <1>1, <2>1 DEF SetMaintenance, UpdateNode, Held, RequestOK, Sound, DataOK
  <1>3. RequestsOK'
    BY <1>2 DEF SetMaintenance, UpdateNode, Sound, RequestsOK
  <1>4. DataOK'
    BY <1>1 DEF SetMaintenance, UpdateNode, Sound, DataOK, Live
  <1> QED  BY <1>3, <1>4 DEF Sound

LEMMA FailSound == ASSUME Sound, NEW p \in Handlers, Fail(p) PROVE Sound'
  <1>1. RequestsOK'
    BY OneEnds DEF Fail, Sound
  <1>2. DataOK'
    BY AllocationConstants DEF Fail, Sound, DataOK, Live
  <1> QED  BY <1>1, <1>2 DEF Sound

-----------------------------------------------------------------------------
(* The theorems.                                                           *)

LEMMA InitSound == Init => Sound
  <1> SUFFICES ASSUME Init PROVE Sound  OBVIOUS
  <1>1. Live = {}
    BY DEF Init, Live
  <1>2. DataOK
    BY <1>1, AllocationConstants DEF Init, DataOK
  <1>3. RequestsOK
    BY IdleOK DEF Init, RequestsOK
  <1> QED  BY <1>2, <1>3 DEF Sound

LEMMA NextSound == Sound /\ [Next]_vars => Sound'
  <1> SUFFICES ASSUME Sound, [Next]_vars PROVE Sound'  OBVIOUS
  <1>1. CASE UNCHANGED vars
    BY <1>1, DataKept DEF vars, Data, Sound, RequestsOK
  <1>2. ASSUME NEW p \in Handlers, CreateBot(p) \/ UpdateBot(p) \/ UpdateSubscription(p) \/ Fail(p) PROVE Sound'
    BY <1>2, CreateBotSound, UpdateBotSound, UpdateSubscriptionSound, FailSound
  <1>3. ASSUME NEW p \in Handlers, Handle(p) PROVE Sound'
    BY <1>3, LockSubscriptionSound, CheckQuotaSound, PlacementCandidatesSound, LockNodeSound, InsertSound,
       ResizeSound, SetSubscriptionStatusSound, ListBotsSound, SoftDeleteSound DEF Handle
  <1>4. CASE (\E b \in Bots : DeleteBot(b)) \/ UpdatePlan \/ SetSubscriptionLimits \/ SetMaintenance
    BY <1>4, DeleteBotSound, LimitsSound, SetMaintenanceSound
  <1> QED  BY <1>1, <1>2, <1>3, <1>4 DEF Next

\* Every variable stays in its range: every bot has a node, a subscription and a
\* size of at least one, for any handlers, nodes, plans and capacities.
THEOREM TypeCorrect == Spec => []TypeOK
  <1>1. Spec => []Sound
    BY InitSound, NextSound, PTL DEF Spec
  <1> QED  BY <1>1, SoundTypes, PTL

\* Only Insert adds a bot, and what its transaction read is still so.
LEMMA StepCreates ==
  Sound /\ [Next]_vars =>
    \A b \in Live' \ Live : status[bots'[b].sub] = "active" /\ open[bots'[b].node]
  <1> SUFFICES ASSUME Sound, [Next]_vars, NEW b \in Live' \ Live
               PROVE  status[bots'[b].sub] = "active" /\ open[bots'[b].node]
    OBVIOUS
  <1>1. CASE \E p \in Handlers : Insert(p)
    <2>1. PICK p \in Handlers : Insert(p)
      BY <1>1
    <2>2. PICK c \in Bots, n \in Place(req[p]) :
            bots' = [d \in Live \cup {c} |->
              IF d = c THEN [sub |-> req[p].sub, node |-> n, size |-> req[p].size] ELSE bots[d]]
      BY <2>1 DEF Insert, InsertBot, Live
    <2>3. b = c /\ bots'[b].sub = req[p].sub /\ bots'[b].node = n /\ n \in req[p].locked
      BY <2>2 DEF Live, Place
    <2>4. Held(req[p], status, open) /\ req[p].pc = "write" /\ req[p].bot = NoBot
      BY <2>1 DEF Sound, RequestsOK, Insert, InsertBot
    <2> QED  BY <2>3, <2>4 DEF Held, InTransaction
  <1>2. CASE ~\E p \in Handlers : Insert(p)
    <2>1. Live' \subseteq Live
      BY <1>2 DEF Next, Handle, CreateBot, UpdateBot, UpdateSubscription, Fail, LockSubscription, CheckQuota,
         PlacementCandidates, LockNode, Resize, SetSubscriptionStatus, ListBots, SoftDelete, DeleteBot,
         UpdateBotSettings, SoftDeleteBot, UpdatePlan, SetSubscriptionLimits, SetMaintenance, Data, vars, Live
    <2> QED  BY <2>1
  <1> QED  BY <1>1, <1>2

\* A bot only ever appears on a subscription that is active and a node that is not
\* in maintenance at that moment, however many handlers there are.
THEOREM CreatedOnlyWhereAllowed == Spec => CreatedWhereAllowed
  <1>1. Sound /\ [Next]_vars =>
          [\A b \in Live' \ Live : status[bots'[b].sub] = "active" /\ open[bots'[b].node]]_vars
    BY StepCreates
  <1> QED  BY <1>1, InitSound, NextSound, PTL DEF Spec, CreatedWhereAllowed
-----------------------------------------------------------------------------
(* A terminated subscription is emptied by a handler that has all its bots *)
(* in its list, or has yet to read them: none can be added meanwhile, as   *)
(* Insert has the row of an active subscription.                           *)

Emptied(s) == \/ OfSub(s) = {}
              \/ \E p \in Handlers :
                   /\ req[p].sub = s
                   /\ req[p].pc = "list" \/ (req[p].pc = "delete" /\ OfSub(s) \subseteq req[p].todo)
Emptying == faults = 0 => \A s \in Subs : status[s] = "terminated" => Emptied(s)

\* A handler that empties nothing moves, no terminated subscription gets a bot.
LEMMA OthersEmpty ==
  ASSUME Emptying, RequestsOK, NEW p \in Handlers, NEW q, Become(p, q),
         req[p].pc \notin {"list", "delete"}, faults' = faults,
         \A s \in Subs : status'[s] = "terminated" =>
           \/ status[s] = "terminated" /\ OfSub(s)' \subseteq OfSub(s)
           \/ q.sub = s /\ q.pc = "list"
  PROVE  Emptying'
  <1> SUFFICES ASSUME faults = 0, NEW s \in Subs, status'[s] = "terminated" PROVE Emptied(s)'
    BY DEF Emptying
  <1>1. req'[p] = q /\ \A r \in Handlers \ {p} : req'[r] = req[r]
    BY DEF Become, RequestsOK
  <1>2. CASE q.sub = s /\ q.pc = "list"
    BY <1>1, <1>2 DEF Emptied
  <1>3. CASE status[s] = "terminated" /\ OfSub(s)' \subseteq OfSub(s)
    <2>1. Emptied(s)
      BY <1>3 DEF Emptying
    <2> QED  BY <1>1, <1>3, <2>1 DEF Emptied
  <1> QED  BY <1>2, <1>3

\* Nobody moves and bots are only taken away.
LEMMA FewerEmpty ==
  ASSUME Emptying, UNCHANGED <<status, req, faults>>, \A s \in Subs : OfSub(s)' \subseteq OfSub(s)
  PROVE  Emptying'
  BY DEF Emptying, Emptied

LEMMA ReadsEmpty ==
  ASSUME Sound, Emptying, NEW p \in Handlers,
         \/ CreateBot(p) \/ UpdateBot(p) \/ LockSubscription(p) \/ CheckQuota(p)
         \/ PlacementCandidates(p) \/ LockNode(p) \/ UpdateSubscription(p)
  PROVE  Emptying'
  <1>1. UNCHANGED <<bots, status, faults>> /\ req[p].pc \notin {"list", "delete"}
    BY DEF CreateBot, UpdateBot, LockSubscription, CheckQuota, PlacementCandidates, LockNode,
           UpdateSubscription, Data
  <1>2. \E q : Become(p, q)
    BY DEF CreateBot, UpdateBot, LockSubscription, CheckQuota, PlacementCandidates, LockNode,
           UpdateSubscription, End
  <1>3. \A s \in Subs : OfSub(s)' = OfSub(s)
    BY <1>1 DEF OfSub, Live
  <1> QED  BY <1>1, <1>2, <1>3, OthersEmpty DEF Sound

LEMMA InsertEmpty == ASSUME Sound, Emptying, NEW p \in Handlers, Insert(p) PROVE Emptying'
  <1>1. /\ Become(p, Idle) /\ UNCHANGED <<status, faults>> /\ req[p].pc = "write"
        /\ status[req[p].sub] = "active"
    BY DEF Insert, End, Sound, RequestsOK, Held, InTransaction
  <1>2. ASSUME NEW s \in Subs, status[s] = "terminated" PROVE OfSub(s)' \subseteq OfSub(s)
    <2>1. CASE UNCHANGED bots
      BY <2>1 DEF OfSub, Live
    <2>2. CASE \E b \in Bots, n \in Nodes :
                 bots' = [c \in Live \cup {b} |->
                   IF c = b THEN [sub |-> req[p].sub, node |-> n, size |-> req[p].size] ELSE bots[c]]
      <3>1. s # req[p].sub
        BY <1>1, <1>2
      <3> QED  BY <2>2, <3>1 DEF OfSub, Live
    <2>3. req[p].locked \subseteq Nodes
      BY DEF Sound, RequestsOK, RequestOK
    <2> QED  BY <2>1, <2>2, <2>3 DEF Insert, InsertBot, Place
  <1> QED  BY <1>1, <1>2, OthersEmpty DEF Sound

LEMMA ResizeEmpty == ASSUME Sound, Emptying, NEW p \in Handlers, Resize(p) PROVE Emptying'
  <1>1. Become(p, Idle) /\ UNCHANGED <<status, faults>> /\ req[p].pc = "write"
    BY DEF Resize, End
  <1>2. Live' = Live /\ \A b \in Live : bots'[b].sub = bots[b].sub
    <2>1. CASE UNCHANGED bots
      BY <2>1 DEF Live
    <2>2. CASE req[p].bot \in Live /\ bots' = [bots EXCEPT ![req[p].bot].size = req[p].size]
      <3>1. \A b \in Live : bots[b] \in Row
        BY DEF Sound, DataOK
      <3> QED  BY <2>2, <3>1 DEF Live, Row
    <2> QED  BY <2>1, <2>2 DEF Resize, UpdateBotSettings
  <1>3. \A s \in Subs : OfSub(s)' = OfSub(s)
    BY <1>2 DEF OfSub
  <1> QED  BY <1>1, <1>3, OthersEmpty DEF Sound

\* Who terminates a subscription goes on to read its bots.
LEMMA SetSubscriptionStatusEmpty ==
  ASSUME Sound, Emptying, NEW p \in Handlers, SetSubscriptionStatus(p) PROVE Emptying'
  <1> DEFINE q == IF req[p].target = "terminated" THEN [req[p] EXCEPT !.pc = "list"] ELSE Idle
  <1>1. /\ Become(p, q) /\ UNCHANGED <<bots, faults>> /\ req[p].pc = "status"
        /\ status' = [status EXCEPT ![req[p].sub] = req[p].target]
    BY DEF SetSubscriptionStatus, SetStatus
  <1>2. \A s \in Subs : OfSub(s)' = OfSub(s)
    BY <1>1 DEF OfSub, Live
  <1>3. req[p].target = "terminated" => q.sub = req[p].sub /\ q.pc = "list"
    BY DEF Sound, RequestsOK, RequestOK, Fields
  <1>4. ASSUME NEW s \in Subs, status'[s] = "terminated"
        PROVE  status[s] = "terminated" \/ (q.sub = s /\ q.pc = "list")
    BY <1>1, <1>3, <1>4 DEF Sound, DataOK
  <1> HIDE DEF q
  <1> QED  BY <1>1, <1>2, <1>4, OthersEmpty DEF Sound

LEMMA ListBotsEmpty == ASSUME Sound, Emptying, NEW p \in Handlers, ListBots(p) PROVE Emptying'
  <1> SUFFICES ASSUME faults = 0, NEW s \in Subs, status[s] = "terminated" PROVE Emptied(s)'
    BY DEF Emptying, ListBots, Data
  <1>1. OfSub(s)' = OfSub(s)
    BY DEF ListBots, Data, OfSub, Live
  <1>2. \A r \in Handlers \ {p} : req'[r] = req[r]
    BY DEF ListBots, Become, Sound, RequestsOK
  <1>3. CASE req[p].sub = s
    <2>1. CASE OfSub(s) = {}
      BY <1>1, <2>1 DEF Emptied
    <2>2. CASE OfSub(s) # {}
      <3>1. req'[p] = [req[p] EXCEPT !.pc = "delete", !.todo = OfSub(s)]
        BY <1>3, <2>2 DEF ListBots, Become, Sound, RequestsOK
      <3>2. req'[p].sub = s /\ req'[p].pc = "delete" /\ req'[p].todo = OfSub(s)
        BY <1>3, <3>1 DEF Sound, RequestsOK, RequestOK, Fields
      <3> QED  BY <1>1, <3>2 DEF Emptied
    <2> QED  BY <2>1, <2>2
  <1>4. CASE req[p].sub # s
    BY <1>1, <1>2, <1>4 DEF Emptying, Emptied
  <1> QED  BY <1>3, <1>4

\* The bot that is deleted is no longer the subscription's, nor in the list.
LEMMA SoftDeleteEmpty == ASSUME Sound, Emptying, NEW p \in Handlers, SoftDelete(p) PROVE Emptying'
  <1> SUFFICES ASSUME faults = 0, NEW s \in Subs, status[s] = "terminated" PROVE Emptied(s)'
    BY DEF Emptying, SoftDelete
  <1>1. PICK b \in req[p].todo :
          /\ bots' = [c \in Live \ {b} |-> bots[c]]
          /\ Become(p, IF req[p].todo = {b} THEN Idle ELSE [req[p] EXCEPT !.todo = @ \ {b}])
    BY DEF SoftDelete, SoftDeleteBot
  <1>2. OfSub(s)' = OfSub(s) \ {b}
    BY <1>1 DEF OfSub, Live
  <1>3. \A r \in Handlers \ {p} : req'[r] = req[r]
    BY <1>1 DEF Become, Sound, RequestsOK
  <1>4. Emptied(s) /\ req[p].pc = "delete"
    BY DEF Emptying, SoftDelete
  <1>5. CASE req[p].sub = s /\ OfSub(s) \subseteq req[p].todo
    <2>1. CASE req[p].todo = {b}
      BY <1>2, <1>5, <2>1 DEF Emptied
    <2>2. CASE req[p].todo # {b}
      <3>1. req'[p] = [req[p] EXCEPT !.todo = req[p].todo \ {b}]
        BY <1>1, <2>2 DEF Become, Sound, RequestsOK
      <3>2. req'[p].sub = s /\ req'[p].pc = "delete" /\ req'[p].todo = req[p].todo \ {b}
        BY <1>4, <1>5, <3>1 DEF Sound, RequestsOK, RequestOK, Fields
      <3> QED  BY <1>2, <1>5, <3>2 DEF Emptied
    <2> QED  BY <2>1, <2>2
  <1>6. CASE ~(req[p].sub = s /\ OfSub(s) \subseteq req[p].todo)
    BY <1>2, <1>3, <1>4, <1>6 DEF Emptied
  <1> QED  BY <1>5, <1>6

LEMMA RestEmpty ==
  ASSUME Sound, Emptying,
         \/ \E b \in Bots : DeleteBot(b)
         \/ UpdatePlan \/ SetSubscriptionLimits \/ SetMaintenance \/ UNCHANGED vars
  PROVE  Emptying'
  <1>1. UNCHANGED <<status, req, faults>>
    BY DEF DeleteBot, UpdatePlan, SetSubscriptionLimits, SetMaintenance, vars
  <1>2. \A s \in Subs : OfSub(s)' \subseteq OfSub(s)
    <2>1. CASE UNCHANGED bots
      BY <2>1 DEF OfSub, Live
    <2>2. CASE \E b \in Bots : DeleteBot(b)
      BY <2>2 DEF DeleteBot, SoftDeleteBot, OfSub, Live
    <2> QED  BY <2>1, <2>2 DEF UpdatePlan, SetSubscriptionLimits, SetMaintenance, vars
  <1> QED  BY <1>1, <1>2, FewerEmpty

LEMMA NextEmpty == Sound /\ Emptying /\ [Next]_vars => Emptying'
  <1> SUFFICES ASSUME Sound, Emptying, [Next]_vars PROVE Emptying'  OBVIOUS
  <1>1. ASSUME NEW p \in Handlers, CreateBot(p) \/ UpdateBot(p) \/ UpdateSubscription(p) PROVE Emptying'
    BY <1>1, ReadsEmpty
  <1>2. ASSUME NEW p \in Handlers, Fail(p) PROVE Emptying'
    BY <1>2, AllocationConstants DEF Fail, Emptying, Sound, DataOK
  <1>3. ASSUME NEW p \in Handlers, Handle(p) PROVE Emptying'
    BY <1>3, ReadsEmpty, InsertEmpty, ResizeEmpty, SetSubscriptionStatusEmpty, ListBotsEmpty,
       SoftDeleteEmpty DEF Handle
  <1>4. CASE \/ \E b \in Bots : DeleteBot(b)
             \/ UpdatePlan \/ SetSubscriptionLimits \/ SetMaintenance \/ UNCHANGED vars
    BY <1>4, RestEmpty
  <1> QED  BY <1>1, <1>2, <1>3, <1>4 DEF Next

\* Terminating a subscription deletes its bots, those that other handlers create
\* meanwhile too, unless a statement fails: for any number of handlers and bots.
THEOREM TerminationEmpties == Spec => []TerminatedIsEmptied
  <1>1. Init => Emptying
    BY DEF Init, Emptying
  <1>2. Emptying => TerminatedIsEmptied
    BY DEF Emptying, Emptied, TerminatedIsEmptied, Working
  <1>3. Spec => [](Sound /\ Emptying)
    BY <1>1, InitSound, NextSound, NextEmpty, PTL DEF Spec
  <1> QED  BY <1>2, <1>3, PTL

-----------------------------------------------------------------------------
(* Sums over finite sets.  The fold chooses an element and adds its value  *)
(* to the sum of the others; which elements it chooses makes no difference *)
(* as the sum is the number of units that the set has, f[x] for each x.    *)

\* iter is the function that the fold defines.
Adds(iter, f, S) ==
  iter = [s \in SUBSET S |-> IF s = {} THEN 0 ELSE LET x == CHOOSE x \in s : TRUE IN f[x] + iter[s \ {x}]]
Units(f, S) == UNION {{x} \X (1 .. f[x]) : x \in S}

LEMMA SumIsAdded == ASSUME NEW f, NEW S PROVE SumFunctionOnSet(f, S) = (CHOOSE iter : Adds(iter, f, S))[S]
  BY DEF SumFunctionOnSet, FoldFunctionOnSet, MapThenFoldSet, Adds

LEMMA OneUnits == ASSUME NEW x, NEW n \in Nat
                  PROVE  IsFiniteSet({x} \X (1 .. n)) /\ Cardinality({x} \X (1 .. n)) = n
  <1>1. IsFiniteSet(1 .. n) /\ Cardinality(1 .. n) = n
    BY FS_Interval
  <1>2. IsFiniteSet({x}) /\ Cardinality({x}) = 1
    BY FS_Singleton
  <1>3. /\ IsFiniteSet({x} \X (1 .. n))
        /\ Cardinality({x} \X (1 .. n)) = Cardinality({x}) * Cardinality(1 .. n)
    BY <1>1, <1>2, FS_Product
  <1> QED  BY <1>1, <1>2, <1>3

LEMMA UnitsFinite == ASSUME NEW f, NEW S, IsFiniteSet(S), \A x \in S : f[x] \in Nat
                     PROVE  IsFiniteSet(Units(f, S))
  <1> DEFINE Sets == {{x} \X (1 .. f[x]) : x \in S}
             g == [x \in S |-> {x} \X (1 .. f[x])]
  <1>1. g \in Surjection(S, Sets)
    BY DEF Surjection
  <1>2. IsFiniteSet(Sets)
    BY <1>1, FS_Surjection
  <1>3. \A x \in S : IsFiniteSet({x} \X (1 .. f[x]))
    BY OneUnits
  <1>4. \A T \in Sets : IsFiniteSet(T)
    BY <1>3
  <1> QED  BY <1>2, <1>4, FS_UNION DEF Units

LEMMA UnitsAdd == ASSUME NEW f, NEW S, IsFiniteSet(S), \A x \in S : f[x] \in Nat, NEW x \in S
                  PROVE  Cardinality(Units(f, S)) = f[x] + Cardinality(Units(f, S \ {x}))
  <1> DEFINE A == Units(f, S \ {x})  B == {x} \X (1 .. f[x])
  <1>1. Units(f, S) = A \cup B /\ A \cap B = {}
    BY DEF Units
  <1>2. IsFiniteSet(A)
    BY UnitsFinite, FS_RemoveElement
  <1>3. IsFiniteSet(B) /\ Cardinality(B) = f[x]
    BY OneUnits
  <1>4. Cardinality(A) \in Nat /\ Cardinality(A \cap B) = 0
    BY <1>1, <1>2, FS_CardinalityType, FS_EmptySet
  <1> HIDE DEF A, B
  <1>5. Cardinality(A \cup B) = Cardinality(A) + Cardinality(B) - Cardinality(A \cap B)
    BY <1>2, <1>3, FS_Union
  <1> QED  BY <1>1, <1>3, <1>4, <1>5 DEF A

LEMMA UnitsEmpty == ASSUME NEW f PROVE Cardinality(Units(f, {})) = 0
  BY FS_EmptySet DEF Units

\* The units are such a function, so there is one.
LEMMA AddsExists == ASSUME NEW f, NEW S, IsFiniteSet(S), \A x \in S : f[x] \in Nat
                    PROVE  \E iter : Adds(iter, f, S)
  <1> DEFINE iter == [s \in SUBSET S |-> Cardinality(Units(f, s))]
  <1>1. ASSUME NEW s \in SUBSET S
        PROVE  iter[s] = IF s = {} THEN 0 ELSE LET x == CHOOSE x \in s : TRUE IN f[x] + iter[s \ {x}]
    <2>1. CASE s = {}
      BY <2>1, UnitsEmpty
    <2>2. CASE s # {}
      <3> DEFINE x == CHOOSE x \in s : TRUE
      <3>1. x \in s
        BY <2>2
      <3>2. IsFiniteSet(s) /\ \A y \in s : f[y] \in Nat
        BY FS_Subset
      <3> HIDE DEF x
      <3>3. Cardinality(Units(f, s)) = f[x] + Cardinality(Units(f, s \ {x}))
        BY <3>1, <3>2, UnitsAdd
      <3>4. iter[s] = Cardinality(Units(f, s)) /\ iter[s \ {x}] = Cardinality(Units(f, s \ {x}))
        OBVIOUS
      <3> HIDE DEF iter
      <3>5. iter[s] = f[x] + iter[s \ {x}]
        BY <3>3, <3>4
      <3> QED  BY <2>2, <3>5 DEF x
    <2> QED  BY <2>1, <2>2
  <1>2. iter = [s \in SUBSET S |-> iter[s]]
    OBVIOUS
  <1> HIDE DEF iter
  <1>3. Adds(iter, f, S)
    BY <1>1, <1>2 DEF Adds
  <1> QED  BY <1>3

\* A smallest set on which one differed from the units would not be empty, and the
\* one without the element that it chooses would be smaller still.
LEMMA AddsUnits == ASSUME NEW f, NEW S, IsFiniteSet(S), \A x \in S : f[x] \in Nat, NEW iter, Adds(iter, f, S)
                   PROVE  iter[S] = Cardinality(Units(f, S))
  <1> DEFINE Bad == {s \in SUBSET S : iter[s] # Cardinality(Units(f, s))}
  <1> SUFFICES ASSUME Bad # {} PROVE FALSE
    OBVIOUS
  <1>1. IsWellFoundedOn(StrictSubsetOrdering(S), SUBSET S)
    BY FS_StrictSubsetOrderingWellFounded, FS_FiniteSubsetsOfFinite
  <1>2. PICK s \in Bad : \A t \in Bad : <<t, s>> \notin StrictSubsetOrdering(S)
    BY <1>1, WFMin
  <1>3. s # {}
    BY UnitsEmpty DEF Adds
  <1> DEFINE x == CHOOSE x \in s : TRUE
  <1>4. x \in s /\ iter[s] = f[x] + iter[s \ {x}]
    BY <1>3 DEF Adds
  <1>5. IsFiniteSet(s) /\ \A y \in s : f[y] \in Nat
    BY FS_Subset
  <1> HIDE DEF x
  <1>6. Cardinality(Units(f, s)) = f[x] + Cardinality(Units(f, s \ {x}))
    BY <1>4, <1>5, UnitsAdd
  <1>7. s \ {x} \subseteq s /\ <<s \ {x}, s>> \in StrictSubsetOrdering(S)
    BY <1>4 DEF StrictSubsetOrdering
  <1>8. iter[s \ {x}] = Cardinality(Units(f, s \ {x}))
    BY <1>2, <1>7
  <1> QED  BY <1>4, <1>6, <1>8

LEMMA SumIsUnits == ASSUME NEW f, NEW S, IsFiniteSet(S), \A x \in S : f[x] \in Nat
                    PROVE  SumFunctionOnSet(f, S) = Cardinality(Units(f, S))
  <1>1. Adds(CHOOSE iter : Adds(iter, f, S), f, S)
    BY AddsExists
  <1> QED  BY <1>1, AddsUnits, SumIsAdded

\* Only the values on S count.
LEMMA SumAgrees == ASSUME NEW f, NEW g, NEW S, IsFiniteSet(S), \A x \in S : f[x] \in Nat /\ g[x] = f[x]
                   PROVE  SumFunctionOnSet(f, S) = SumFunctionOnSet(g, S)
  <1>1. Units(f, S) = Units(g, S)
    BY DEF Units
  <1>2. \A x \in S : f[x] \in Nat /\ g[x] \in Nat
    OBVIOUS
  <1> QED  BY <1>1, <1>2, SumIsUnits

-----------------------------------------------------------------------------
(* What bots use, B being the rows.                                        *)

RowsOK(B) == DOMAIN B \subseteq Bots /\ \A b \in DOMAIN B : B[b] \in Row
BotsOf(B, s) == {b \in DOMAIN B : B[b].sub = s}
Sum(B, S, r) == SumFunctionOnSet([b \in S |-> B[b].size[r]], S)

LEMMA SizeNat == ASSUME NEW B, RowsOK(B), NEW b \in DOMAIN B, NEW r \in Resource
                 PROVE  B[b].size[r] \in Nat \ {0}
  BY AllocationConstants DEF RowsOK, Row, Size

LEMMA SumType == ASSUME NEW B, RowsOK(B), NEW S \in SUBSET DOMAIN B, NEW r \in Resource
                 PROVE  IsFiniteSet(S) /\ Sum(B, S, r) \in Nat
  <1> DEFINE f == [b \in S |-> B[b].size[r]]
  <1>1. IsFiniteSet(S)
    BY FS_Subset, AllocationConstants DEF RowsOK
  <1>2. \A b \in S : f[b] \in Nat
    BY SizeNat
  <1> HIDE DEF f
  <1>3. SumFunctionOnSet(f, S) \in Nat
    BY <1>1, <1>2, SumIsUnits, UnitsFinite, FS_CardinalityType
  <1> QED  BY <1>1, <1>3 DEF Sum, f

LEMMA SumNone == ASSUME NEW B, NEW r PROVE Sum(B, {}, r) = 0
  BY SumIsUnits, UnitsEmpty, FS_EmptySet DEF Sum

LEMMA SumApart == ASSUME NEW B, RowsOK(B), NEW S \in SUBSET DOMAIN B, NEW r \in Resource, NEW b \in S
                  PROVE  Sum(B, S, r) = B[b].size[r] + Sum(B, S \ {b}, r)
  <1> DEFINE f == [c \in S |-> B[c].size[r]]
             g == [c \in S \ {b} |-> B[c].size[r]]
  <1>1. IsFiniteSet(S) /\ IsFiniteSet(S \ {b})
    BY SumType
  <1>2. \A c \in S : f[c] \in Nat
    BY SizeNat
  <1>3. \A c \in S \ {b} : f[c] \in Nat /\ g[c] = f[c]
    BY SizeNat
  <1>4. f[b] = B[b].size[r]
    OBVIOUS
  <1> HIDE DEF f, g
  <1>5. SumFunctionOnSet(f, S) = Cardinality(Units(f, S))
    BY <1>1, <1>2, SumIsUnits
  <1>6. SumFunctionOnSet(f, S \ {b}) = Cardinality(Units(f, S \ {b}))
    BY <1>1, <1>2, SumIsUnits
  <1>7. Cardinality(Units(f, S)) = f[b] + Cardinality(Units(f, S \ {b}))
    BY <1>1, <1>2, UnitsAdd
  <1>8. SumFunctionOnSet(f, S \ {b}) = SumFunctionOnSet(g, S \ {b})
    BY <1>1, <1>3, SumAgrees
  <1>9. SumFunctionOnSet(f, S) = f[b] + SumFunctionOnSet(g, S \ {b})
    BY <1>5, <1>6, <1>7, <1>8
  <1> QED  BY <1>4, <1>9 DEF Sum, f, g

LEMMA SumSame == ASSUME NEW B, RowsOK(B), NEW S \in SUBSET DOMAIN B, NEW r \in Resource,
                        NEW C, \A b \in S : C[b].size = B[b].size
                 PROVE  Sum(C, S, r) = Sum(B, S, r)
  <1> DEFINE f == [b \in S |-> B[b].size[r]]
             g == [b \in S |-> C[b].size[r]]
  <1>1. IsFiniteSet(S) /\ \A b \in S : f[b] \in Nat /\ g[b] = f[b]
    BY SumType, SizeNat
  <1> HIDE DEF f, g
  <1>2. SumFunctionOnSet(f, S) = SumFunctionOnSet(g, S)
    BY <1>1, SumAgrees
  <1> QED  BY <1>2 DEF Sum, f, g

LEMMA SumLess == ASSUME NEW B, RowsOK(B), NEW S \in SUBSET DOMAIN B, NEW T \in SUBSET S, NEW r \in Resource
                 PROVE  Sum(B, T, r) <= Sum(B, S, r)
  <1> DEFINE f == [b \in S |-> B[b].size[r]]
             g == [b \in T |-> B[b].size[r]]
  <1>1. IsFiniteSet(S) /\ IsFiniteSet(T)
    BY SumType
  <1>2. \A b \in S : f[b] \in Nat
    BY SizeNat
  <1>3. \A b \in T : f[b] \in Nat /\ g[b] = f[b]
    BY SizeNat
  <1> HIDE DEF f, g
  <1>4. SumFunctionOnSet(f, S) = Cardinality(Units(f, S))
    BY <1>1, <1>2, SumIsUnits
  <1>5. SumFunctionOnSet(f, T) = Cardinality(Units(f, T))
    BY <1>1, <1>3, SumIsUnits
  <1>6. SumFunctionOnSet(f, T) = SumFunctionOnSet(g, T)
    BY <1>1, <1>3, SumAgrees
  <1>7. Units(f, T) \subseteq Units(f, S) /\ IsFiniteSet(Units(f, S))
    BY <1>1, <1>2, UnitsFinite DEF Units
  <1>8. Cardinality(Units(f, T)) <= Cardinality(Units(f, S))
    BY <1>7, FS_Subset
  <1>9. SumFunctionOnSet(g, T) <= SumFunctionOnSet(f, S)
    BY <1>4, <1>5, <1>6, <1>8
  <1> QED  BY <1>9 DEF Sum, f, g

-----------------------------------------------------------------------------
(* What a handler found when it checked the quota holds until it writes:   *)
(* only who has the row of the subscription adds to what it uses, so       *)
(* meanwhile it can only become less.  A resource whose sum left int32 is  *)
(* in wrapped; a size that is granted nevertheless fits some node.         *)

Past == {"candidates", "lock", "write"}      \* the quota

\* A handler's row and what it knows of usage, B being the rows of bots.
RowOK(q) == IF q.bot = NoBot THEN q.row = NoRow ELSE q.row \in Row
KnowsIts(q, B) == q.bot \in DOMAIN B => B[q.bot].sub = q.sub /\ B[q.bot].node = q.row.node
PastOK(q, B) ==
  /\ q.bot = NoBot => Cardinality(BotsOf(B, q.sub)) + 1 <= q.plan["bots"]
  /\ \A r \in Resource : \/ Sum(B, BotsOf(B, q.sub) \ {q.bot}, r) + q.size[r] <= q.plan[r]
                         \/ r \in q.wrapped
QuotaOK(q, B) ==
  /\ KnowsIts(q, B) /\ RowOK(q)
  /\ \A n \in Nodes, r \in Resource : q.used[n][r] \in Nat
  /\ q.pc \in InTransaction => q.plan \in Limits
  /\ q.pc \in Past => PastOK(q, B)

\* One transaction at a time has a subscription's row.
Apart == \A p, k \in Handlers :
           req[p].pc \in InTransaction /\ req[k].pc \in InTransaction /\ req[p].sub = req[k].sub => p = k

Quota == Apart /\ \A p \in Handlers : QuotaOK(req[p], bots)

LEMMA LimitType == ASSUME NEW l \in Limits, NEW r \in Resource PROVE l[r] \in Nat /\ l["bots"] \in Nat
  BY AllocationConstants DEF Limit

LEMMA SoundRows == Sound => RowsOK(bots)
  BY DEF Sound, DataOK, RowsOK, Live

LEMMA IdleQuota == ASSUME NEW B, RowsOK(B) PROVE QuotaOK(Idle, B)
  BY AllocationConstants DEF QuotaOK, KnowsIts, RowOK, Idle, NoRow, InTransaction, Past, RowsOK

\* Usage that only becomes less.
LEMMA LessUsed ==
  ASSUME NEW B, NEW C, RowsOK(B), NEW s, BotsOf(C, s) \subseteq BotsOf(B, s),
         \A b \in BotsOf(C, s) : C[b].size = B[b].size
  PROVE  /\ Cardinality(BotsOf(C, s)) \in Nat /\ Cardinality(BotsOf(B, s)) \in Nat
         /\ Cardinality(BotsOf(C, s)) <= Cardinality(BotsOf(B, s))
         /\ \A x : \A r \in Resource :
              /\ Sum(C, BotsOf(C, s) \ {x}, r) \in Nat /\ Sum(B, BotsOf(B, s) \ {x}, r) \in Nat
              /\ Sum(C, BotsOf(C, s) \ {x}, r) <= Sum(B, BotsOf(B, s) \ {x}, r)
         /\ \A r \in Resource :
              /\ Sum(C, BotsOf(C, s), r) \in Nat /\ Sum(B, BotsOf(B, s), r) \in Nat
              /\ Sum(C, BotsOf(C, s), r) <= Sum(B, BotsOf(B, s), r)
  <1>1. ASSUME NEW S \in SUBSET BotsOf(C, s), NEW T \in SUBSET BotsOf(B, s), S \subseteq T, NEW r \in Resource
        PROVE  Sum(C, S, r) \in Nat /\ Sum(B, T, r) \in Nat /\ Sum(C, S, r) <= Sum(B, T, r)
    <2>1. S \subseteq DOMAIN B /\ T \subseteq DOMAIN B /\ \A b \in S : C[b].size = B[b].size
      BY <1>1 DEF BotsOf
    <2>2. Sum(C, S, r) = Sum(B, S, r)
      BY <2>1, SumSame
    <2>3. Sum(B, S, r) \in Nat /\ Sum(B, T, r) \in Nat
      BY <2>1, SumType
    <2>4. Sum(B, S, r) <= Sum(B, T, r)
      BY <1>1, <2>1, SumLess
    <2> QED  BY <2>2, <2>3, <2>4
  <1>2. ASSUME NEW r \in Resource, NEW x
        PROVE  /\ Sum(C, BotsOf(C, s) \ {x}, r) \in Nat /\ Sum(B, BotsOf(B, s) \ {x}, r) \in Nat
               /\ Sum(C, BotsOf(C, s) \ {x}, r) <= Sum(B, BotsOf(B, s) \ {x}, r)
    <2>1. BotsOf(C, s) \ {x} \subseteq BotsOf(B, s) \ {x}
      OBVIOUS
    <2> QED  BY <1>1, <2>1
  <1>3. \A r \in Resource :
              /\ Sum(C, BotsOf(C, s), r) \in Nat /\ Sum(B, BotsOf(B, s), r) \in Nat
              /\ Sum(C, BotsOf(C, s), r) <= Sum(B, BotsOf(B, s), r)
    BY <1>1
  <1>4. BotsOf(B, s) \subseteq Bots
    BY DEF BotsOf, RowsOK
  <1>5. IsFiniteSet(BotsOf(B, s)) /\ IsFiniteSet(BotsOf(C, s))
    BY <1>4, FS_Subset, AllocationConstants
  <1>6. /\ Cardinality(BotsOf(C, s)) \in Nat /\ Cardinality(BotsOf(B, s)) \in Nat
        /\ Cardinality(BotsOf(C, s)) <= Cardinality(BotsOf(B, s))
    BY <1>5, FS_Subset, FS_CardinalityType
  <1> QED  BY <1>2, <1>3, <1>6

\* A handler that stays where it is keeps what it found.
LEMMA StaysPast ==
  ASSUME NEW q, NEW B, NEW C, RowsOK(B), RequestOK(q), QuotaOK(q, B),
         q.bot \in DOMAIN C => /\ q.bot \in DOMAIN B
                               /\ C[q.bot].sub = B[q.bot].sub /\ C[q.bot].node = B[q.bot].node,
         q.pc \in Past => /\ BotsOf(C, q.sub) \subseteq BotsOf(B, q.sub)
                          /\ \A b \in BotsOf(C, q.sub) : C[b].size = B[b].size
  PROVE  QuotaOK(q, C)
  <1>1. KnowsIts(q, C)
    BY DEF QuotaOK, KnowsIts
  <1>2. CASE q.pc \notin Past
    BY <1>1, <1>2 DEF QuotaOK
  <1>3. CASE q.pc \in Past
    <2>1. PastOK(q, B) /\ q.plan \in Limits /\ q.size \in Size
      BY <1>3 DEF QuotaOK, Past, InTransaction, RequestOK
    <2>2. \A r \in Resource : q.plan[r] \in Nat /\ q.plan["bots"] \in Nat /\ q.size[r] \in Nat
      BY <2>1, LimitType, AllocationConstants DEF Size
    <2>3. q.bot = NoBot => Cardinality(BotsOf(C, q.sub)) + 1 <= q.plan["bots"]
      <3>1. /\ Cardinality(BotsOf(C, q.sub)) \in Nat /\ Cardinality(BotsOf(B, q.sub)) \in Nat
            /\ Cardinality(BotsOf(C, q.sub)) <= Cardinality(BotsOf(B, q.sub))
        BY <1>3, LessUsed
      <3>2. q.plan["bots"] \in Nat
        BY <2>1, AllocationConstants DEF Limit
      <3> QED  BY <2>1, <3>1, <3>2 DEF PastOK
    <2>4. ASSUME NEW r \in Resource
          PROVE  \/ Sum(C, BotsOf(C, q.sub) \ {q.bot}, r) + q.size[r] <= q.plan[r]
                 \/ r \in q.wrapped
      <3>1. /\ Sum(C, BotsOf(C, q.sub) \ {q.bot}, r) \in Nat /\ Sum(B, BotsOf(B, q.sub) \ {q.bot}, r) \in Nat
            /\ Sum(C, BotsOf(C, q.sub) \ {q.bot}, r) <= Sum(B, BotsOf(B, q.sub) \ {q.bot}, r)
        BY <1>3, LessUsed
      <3>2. \/ Sum(B, BotsOf(B, q.sub) \ {q.bot}, r) + q.size[r] <= q.plan[r]
            \/ r \in q.wrapped
        BY <2>1 DEF PastOK
      <3> QED  BY <2>2, <3>1, <3>2
    <2> QED  BY <1>1, <2>3, <2>4 DEF QuotaOK, PastOK
  <1> QED  BY <1>2, <1>3

\* One handler moves; the bots may change for the others as StaysPast allows.
LEMMA OneMovesQuota ==
  ASSUME Sound, Quota, NEW p \in Handlers, NEW q, Become(p, q), QuotaOK(q, bots'),
         \A k \in Handlers \ {p} : QuotaOK(req[k], bots'),
         q.pc \in InTransaction => \/ req[p].pc \in InTransaction /\ q.sub = req[p].sub
                                   \/ SubFree(q.sub)
  PROVE  Quota'
  <1>1. req'[p] = q /\ \A k \in Handlers \ {p} : req'[k] = req[k]
    BY DEF Become, Sound, RequestsOK
  <1>2. Apart'
    <2> SUFFICES ASSUME NEW k \in Handlers, NEW m \in Handlers, k # m,
                        req'[k].pc \in InTransaction, req'[m].pc \in InTransaction,
                        req'[k].sub = req'[m].sub
                 PROVE  FALSE
      BY DEF Apart, InTransaction
    <2>1. CASE k # p /\ m # p
      BY <1>1, <2>1 DEF Quota, Apart
    <2>2. CASE k = p \/ m = p
      <3>1. PICK o \in Handlers \ {p} : req[o].pc \in InTransaction /\ req[o].sub = q.sub /\ q.pc \in InTransaction
        BY <1>1, <2>2
      <3> QED  BY <3>1 DEF Quota, Apart, SubFree
    <2> QED  BY <2>1, <2>2
  <1>3. \A k \in Handlers : QuotaOK(req'[k], bots')
    BY <1>1
  <1> QED  BY <1>2, <1>3 DEF Quota

\* The bots are as they were.
LEMMA OneReads ==
  ASSUME Sound, Quota, NEW p \in Handlers, NEW q, Become(p, q), bots' = bots, QuotaOK(q, bots),
         q.pc \in InTransaction => \/ req[p].pc \in InTransaction /\ q.sub = req[p].sub
                                   \/ SubFree(q.sub)
  PROVE  Quota'
  <1>1. QuotaOK(q, bots') /\ \A k \in Handlers \ {p} : QuotaOK(req[k], bots')
    BY DEF Quota
  <1> QED  BY <1>1, OneMovesQuota

\* A handler ends, and bots are at most taken away, or those of a subscription change
\* whose row it has.
LEMMA OneEndsQuota ==
  ASSUME Sound, Quota, NEW p \in Handlers, End(p), RowsOK(bots'),
         \A k \in Handlers \ {p} : QuotaOK(req[k], bots')
  PROVE  Quota'
  <1>1. QuotaOK(Idle, bots') /\ Idle.pc \notin InTransaction
    BY IdleQuota DEF Idle, InTransaction
  <1> QED  BY <1>1, OneMovesQuota DEF End

LEMMA OneStops == ASSUME Sound, Quota, NEW p \in Handlers, End(p), bots' = bots PROVE Quota'
  <1>1. RowsOK(bots') /\ \A k \in Handlers \ {p} : QuotaOK(req[k], bots')
    BY SoundRows DEF Quota
  <1> QED  BY <1>1, OneEndsQuota

-----------------------------------------------------------------------------
(* Each action keeps Quota.                                                *)

LEMMA CreateBotQuota == ASSUME Sound, Quota, NEW p \in Handlers, CreateBot(p) PROVE Quota'
  <1>1. PICK s \in Subs, size \in Sizes : Become(p, [Idle EXCEPT !.pc = "begin", !.sub = s, !.size = size])
    BY DEF CreateBot
  <1> DEFINE q == [Idle EXCEPT !.pc = "begin", !.sub = s, !.size = size]
  <1>2. QuotaOK(q, bots) /\ q.pc \notin InTransaction
    BY SoundRows, AllocationConstants DEF QuotaOK, KnowsIts, RowOK, Idle, NoRow, InTransaction, Past, RowsOK
  <1> QED  BY <1>1, <1>2, OneReads DEF CreateBot, Data

LEMMA UpdateBotQuota == ASSUME Sound, Quota, NEW p \in Handlers, UpdateBot(p) PROVE Quota'
  <1>1. PICK b \in Live, size \in Sizes :
          Become(p, [Idle EXCEPT !.sub = bots[b].sub, !.bot = b, !.row = bots[b], !.pc = "begin", !.size = size])
    BY DEF UpdateBot, GetBot
  <1> DEFINE q == [Idle EXCEPT !.sub = bots[b].sub, !.bot = b, !.row = bots[b], !.pc = "begin", !.size = size]
  <1>2. bots[b] \in Row /\ bots[b].sub \in Subs /\ b \in BotsOf(bots, bots[b].sub) /\ b # NoBot
    BY SoundRows, AllocationConstants DEF RowsOK, Row, BotsOf, Live
  <1>3. /\ q.pc = "begin" /\ q.bot = b /\ q.row = bots[b] /\ q.sub = bots[b].sub
        /\ \A n \in Nodes, r \in Resource : q.used[n][r] = 0
    BY DEF Idle, NoRow
  <1> HIDE DEF q
  <1>4. QuotaOK(q, bots) /\ q.pc \notin InTransaction
    BY <1>2, <1>3 DEF QuotaOK, KnowsIts, RowOK, InTransaction, Past
  <1> QED  BY <1>1, <1>4, OneReads DEF UpdateBot, GetBot, Data, q

LEMMA LockSubscriptionQuota == ASSUME Sound, Quota, NEW p \in Handlers, LockSubscription(p) PROVE Quota'
  <1> DEFINE q == [req[p] EXCEPT !.pc = "quota", !.plan = limit[req[p].sub]]
  <1>1. CASE End(p)
    BY <1>1, OneStops DEF LockSubscription, Data
  <1>2. CASE Become(p, q)
    <2>1. RequestOK(req[p]) /\ QuotaOK(req[p], bots) /\ req[p].pc = "begin" /\ SubFree(req[p].sub)
      BY DEF Sound, RequestsOK, Quota, LockSubscription
    <2>2. limit[req[p].sub] \in Limits
      BY <2>1 DEF RequestOK, Sound, DataOK
    <2>3. QuotaOK(q, bots) /\ q.sub = req[p].sub
      BY <2>1, <2>2 DEF QuotaOK, KnowsIts, RowOK, RequestOK, Fields, Past
    <2> QED  BY <1>2, <2>1, <2>3, OneReads DEF LockSubscription, Data
  <1> QED  BY <1>1, <1>2 DEF LockSubscription

\* Below MaxInt the sum is what checkQuota compares; above it the resource is in wrapped.
LEMMA CheckQuotaQuota == ASSUME Sound, Quota, NEW p \in Handlers, CheckQuota(p) PROVE Quota'
  <1> DEFINE q == [req[p] EXCEPT !.pc = IF Grows(req[p]) THEN "candidates" ELSE "write",
                                 !.wrapped = Overflows(req[p], OfSub(req[p].sub) \ {req[p].bot})]
             S == BotsOf(bots, req[p].sub)
  <1>1. CASE End(p)
    BY <1>1, OneStops DEF CheckQuota, Data
  <1>2. CASE Become(p, q) /\ ~OverQuota(req[p], OfSub(req[p].sub) \ {req[p].bot})
    <2>1. RequestOK(req[p]) /\ QuotaOK(req[p], bots) /\ req[p].pc = "quota" /\ req[p].sub \in Subs
      BY DEF Sound, RequestsOK, RequestOK, Quota, CheckQuota
    <2>2. /\ q.pc \in Past /\ q.sub = req[p].sub /\ q.bot = req[p].bot /\ q.row = req[p].row
          /\ q.used = req[p].used /\ q.plan = req[p].plan /\ q.size = req[p].size
          /\ q.wrapped = Overflows(req[p], OfSub(req[p].sub) \ {req[p].bot})
      BY <2>1 DEF RequestOK, Fields, Past
    <2>3. OfSub(req[p].sub) = S /\ RowsOK(bots) /\ S \subseteq DOMAIN bots
      BY SoundRows DEF OfSub, BotsOf, Live
    <2>4. /\ req[p].bot = NoBot => Cardinality(S \ {req[p].bot}) + 1 <= req[p].plan["bots"]
          /\ \A r \in Resource : Wrap(Sum(bots, S \ {req[p].bot}, r) + req[p].size[r]) <= req[p].plan[r]
      <3> HIDE DEF q, S
      <3>1. /\ ~(req[p].bot = NoBot /\ Cardinality(S \ {req[p].bot}) + 1 > req[p].plan["bots"])
            /\ ~\E r \in Resource : Wrap(Sum(bots, S \ {req[p].bot}, r) + req[p].size[r]) > req[p].plan[r]
        BY <1>2, <2>3 DEF OverQuota, Total, Sum
      <3>2. /\ Cardinality(S \ {req[p].bot}) \in Nat /\ req[p].plan["bots"] \in Nat
            /\ \A r \in Resource : /\ req[p].plan[r] \in Nat
                                   /\ Wrap(Sum(bots, S \ {req[p].bot}, r) + req[p].size[r]) \in Int
        <4>1. req[p].plan \in Limits /\ req[p].size \in Size
          BY <2>1 DEF QuotaOK, InTransaction, RequestOK
        <4>2. IsFiniteSet(S \ {req[p].bot}) /\ Cardinality(S \ {req[p].bot}) \in Nat
          <5>1. S \ {req[p].bot} \subseteq Bots
            BY <2>3 DEF RowsOK
          <5> QED  BY <5>1, FS_Subset, FS_CardinalityType, AllocationConstants
        <4>3. ASSUME NEW r \in Resource
              PROVE  req[p].plan[r] \in Nat /\ Wrap(Sum(bots, S \ {req[p].bot}, r) + req[p].size[r]) \in Int
          <5>1. Sum(bots, S \ {req[p].bot}, r) \in Nat
            BY <2>3, SumType
          <5>2. req[p].size[r] \in Int /\ MaxInt \in Int
            BY <4>1, AllocationConstants DEF Size
          <5> QED  BY <4>1, <5>1, <5>2, LimitType DEF Wrap
        <4>4. req[p].plan["bots"] \in Nat
          BY <4>1, AllocationConstants DEF Limit
        <4> QED  BY <4>2, <4>3, <4>4
      <3> QED  BY <3>1, <3>2
    <2>5. ASSUME NEW r \in Resource
          PROVE  \/ Sum(bots, S \ {req[p].bot}, r) + req[p].size[r] <= req[p].plan[r]
                 \/ r \in q.wrapped
      <3> HIDE DEF q, S
      <3>1. r \notin q.wrapped => ~(Sum(bots, S \ {req[p].bot}, r) + req[p].size[r] > MaxInt)
        BY <2>2, <2>3 DEF Overflows, Total, Sum
      <3>2. Sum(bots, S \ {req[p].bot}, r) \in Nat
        BY <2>3, SumType
      <3>3. req[p].size[r] \in Nat /\ MaxInt \in Nat
        BY <2>1, AllocationConstants DEF RequestOK, InTransaction, Size
      <3>4. Wrap(Sum(bots, S \ {req[p].bot}, r) + req[p].size[r]) <= req[p].plan[r]
        BY <2>4
      <3> QED  BY <3>1, <3>2, <3>3, <3>4 DEF Wrap
    <2>6. req[p].bot = NoBot => S \ {req[p].bot} = S
      BY <2>3, AllocationConstants DEF RowsOK
    <2>7. PastOK(q, bots)
      <3> HIDE DEF q
      <3> QED  BY <2>2, <2>4, <2>5, <2>6 DEF PastOK
    <2>8. QuotaOK(q, bots)
      <3> HIDE DEF q
      <3> QED  BY <2>1, <2>2, <2>7 DEF QuotaOK, KnowsIts, RowOK, InTransaction
    <2>9. req[p].pc \in InTransaction
      BY <2>1 DEF InTransaction
    <2> HIDE DEF q, S
    <2> QED  BY <1>2, <2>2, <2>8, <2>9, OneReads DEF CheckQuota, Data
  <1> QED  BY <1>1, <1>2 DEF CheckQuota

LEMMA PlacementCandidatesQuota == ASSUME Sound, Quota, NEW p \in Handlers, PlacementCandidates(p) PROVE Quota'
  <1> DEFINE used == [n \in Nodes |-> [r \in Resource |-> Total(OnNode(n), r)]]
             q == [req[p] EXCEPT !.pc = IF \E n \in Nodes : open[n] THEN "lock" ELSE "write",
                                 !.used = used, !.todo = {n \in Nodes : open[n]}]
  <1>1. CASE End(p)
    BY <1>1, OneStops DEF PlacementCandidates, Data
  <1>2. CASE Become(p, q)
    <2>1. RequestOK(req[p]) /\ QuotaOK(req[p], bots) /\ req[p].pc = "candidates"
      BY DEF Sound, RequestsOK, Quota, PlacementCandidates
    <2>2. /\ q.pc \in {"lock", "write"} /\ q.sub = req[p].sub /\ q.bot = req[p].bot /\ q.row = req[p].row
          /\ q.used = used /\ q.plan = req[p].plan /\ q.size = req[p].size
          /\ q.wrapped = req[p].wrapped
      BY <2>1 DEF RequestOK, Fields
    <2>3. ASSUME NEW n \in Nodes, NEW r \in Resource PROVE used[n][r] \in Nat
      <3>1. RowsOK(bots) /\ OnNode(n) \subseteq DOMAIN bots
        BY SoundRows DEF OnNode, Live
      <3>2. Sum(bots, OnNode(n), r) \in Nat
        BY <3>1, SumType
      <3> QED  BY <3>2 DEF Sum, Total
    <2> HIDE DEF q, used
    <2>4. QuotaOK(q, bots)
      BY <2>1, <2>2, <2>3 DEF QuotaOK, KnowsIts, RowOK, InTransaction, Past, PastOK
    <2> QED  BY <1>2, <2>1, <2>2, <2>4, OneReads DEF PlacementCandidates, Data, InTransaction
  <1> QED  BY <1>1, <1>2 DEF PlacementCandidates

LEMMA LockNodeQuota == ASSUME Sound, Quota, NEW p \in Handlers, LockNode(p) PROVE Quota'
  <1>1. PICK n \in NextNode(req[p]) : Become(p, [req[p] EXCEPT
            !.pc = IF req[p].todo = {n} THEN "write" ELSE "lock",
            !.todo = @ \ {n},
            !.locked = IF Recheck(n) THEN @ \cup {n} ELSE @])
    BY DEF LockNode
  <1> DEFINE q == [req[p] EXCEPT
            !.pc = IF req[p].todo = {n} THEN "write" ELSE "lock",
            !.todo = @ \ {n},
            !.locked = IF Recheck(n) THEN @ \cup {n} ELSE @]
  <1>2. RequestOK(req[p]) /\ QuotaOK(req[p], bots) /\ req[p].pc = "lock"
    BY DEF Sound, RequestsOK, Quota, LockNode
  <1>3. /\ q.pc \in {"lock", "write"} /\ q.sub = req[p].sub /\ q.bot = req[p].bot /\ q.row = req[p].row
        /\ q.used = req[p].used /\ q.plan = req[p].plan /\ q.size = req[p].size
        /\ q.wrapped = req[p].wrapped
    BY <1>2 DEF RequestOK, Fields
  <1>4. Become(p, q)
    BY <1>1
  <1> HIDE DEF q
  <1>5. QuotaOK(q, bots)
    BY <1>2, <1>3 DEF QuotaOK, KnowsIts, RowOK, InTransaction, Past, PastOK
  <1> QED  BY <1>2, <1>3, <1>4, <1>5, OneReads DEF LockNode, Data, InTransaction

\* What these read is no part of Quota.
LEMMA SubscriptionQuota ==
  ASSUME Sound, Quota, NEW p \in Handlers,
         UpdateSubscription(p) \/ SetSubscriptionStatus(p) \/ ListBots(p)
  PROVE  Quota'
  <1>1. CASE UpdateSubscription(p)
    <2>1. PICK s \in Subs, st \in {"active", "suspended", "terminated"} :
            Become(p, [Idle EXCEPT !.pc = "status", !.sub = s, !.target = st])
      BY <1>1 DEF UpdateSubscription
    <2> DEFINE q == [Idle EXCEPT !.pc = "status", !.sub = s, !.target = st]
    <2>2. QuotaOK(q, bots) /\ q.pc \notin InTransaction
      BY SoundRows, AllocationConstants DEF QuotaOK, KnowsIts, RowOK, Idle, NoRow, InTransaction, Past, RowsOK
    <2> QED  BY <1>1, <2>1, <2>2, OneReads DEF UpdateSubscription, Data
  <1>2. CASE SetSubscriptionStatus(p) \/ ListBots(p)
    <2> DEFINE l == [req[p] EXCEPT !.pc = "list"]
               d == [req[p] EXCEPT !.pc = "delete", !.todo = OfSub(req[p].sub)]
    <2>1. RequestOK(req[p]) /\ QuotaOK(req[p], bots) /\ bots' = bots
      BY <1>2 DEF Sound, RequestsOK, Quota, SetSubscriptionStatus, ListBots, Data
    <2>2. QuotaOK(l, bots) /\ l.pc \notin InTransaction
      BY <2>1 DEF RequestOK, Fields, QuotaOK, KnowsIts, RowOK, InTransaction, Past
    <2>3. QuotaOK(d, bots) /\ d.pc \notin InTransaction
      BY <2>1 DEF RequestOK, Fields, QuotaOK, KnowsIts, RowOK, InTransaction, Past
    <2>4. Become(p, Idle) \/ Become(p, l) \/ Become(p, d)
      BY <1>2 DEF SetSubscriptionStatus, ListBots
    <2> HIDE DEF l, d
    <2>5. CASE Become(p, Idle)
      BY <2>1, <2>5, OneStops DEF End
    <2> QED  BY <2>1, <2>2, <2>3, <2>4, <2>5, OneReads
  <1> QED  BY <1>1, <1>2

\* Deleting a bot leaves the others as they were.
LEMMA Deleted ==
  ASSUME Sound, Quota, NEW b, bots' = [c \in Live \ {b} |-> bots[c]]
  PROVE  RowsOK(bots') /\ \A p \in Handlers : QuotaOK(req[p], bots')
  <1>1. /\ RowsOK(bots) /\ DOMAIN bots' = DOMAIN bots \ {b}
        /\ \A c \in DOMAIN bots' : bots'[c] = bots[c]
    BY SoundRows DEF Live
  <1>2. RowsOK(bots')
    BY <1>1 DEF RowsOK
  <1>3. \A s : /\ BotsOf(bots', s) \subseteq BotsOf(bots, s)
               /\ \A c \in BotsOf(bots', s) : bots'[c].size = bots[c].size
    BY <1>1 DEF BotsOf
  <1>4. ASSUME NEW p \in Handlers PROVE QuotaOK(req[p], bots')
    <2>1. RequestOK(req[p]) /\ QuotaOK(req[p], bots)
      BY DEF Quota, Sound, RequestsOK
    <2>2. req[p].bot \in DOMAIN bots' => /\ req[p].bot \in DOMAIN bots
                                        /\ bots'[req[p].bot].sub = bots[req[p].bot].sub
                                        /\ bots'[req[p].bot].node = bots[req[p].bot].node
      BY <1>1
    <2>3. /\ BotsOf(bots', req[p].sub) \subseteq BotsOf(bots, req[p].sub)
          /\ \A c \in BotsOf(bots', req[p].sub) : bots'[c].size = bots[c].size
      BY <1>3
    <2>4. PICK C : C = bots'
      OBVIOUS
    <2>5. RowsOK(bots)
      BY <1>1
    <2>6. QuotaOK(req[p], C)
      BY <2>1, <2>2, <2>3, <2>4, <2>5, StaysPast
    <2> QED  BY <2>4, <2>6
  <1> QED  BY <1>2, <1>4

LEMMA DeleteBotQuota == ASSUME Sound, Quota, NEW b \in Bots, DeleteBot(b) PROVE Quota'
  <1>1. \A p \in Handlers : QuotaOK(req[p], bots')
    BY Deleted DEF DeleteBot, SoftDeleteBot
  <1> QED  BY <1>1 DEF DeleteBot, Quota, Apart

LEMMA SoftDeleteQuota == ASSUME Sound, Quota, NEW p \in Handlers, SoftDelete(p) PROVE Quota'
  <1>1. PICK b \in req[p].todo : /\ bots' = [c \in Live \ {b} |-> bots[c]]
                                 /\ Become(p, IF req[p].todo = {b} THEN Idle ELSE [req[p] EXCEPT !.todo = @ \ {b}])
    BY DEF SoftDelete, SoftDeleteBot
  <1> DEFINE q == [req[p] EXCEPT !.todo = @ \ {b}]
  <1>2. RowsOK(bots') /\ \A k \in Handlers : QuotaOK(req[k], bots')
    BY <1>1, Deleted
  <1>3. RequestOK(req[p]) /\ req[p].pc = "delete"
    BY DEF Sound, RequestsOK, SoftDelete
  <1>4. QuotaOK(q, bots') /\ q.pc \notin InTransaction
    BY <1>2, <1>3 DEF RequestOK, Fields, QuotaOK, KnowsIts, RowOK, InTransaction, Past
  <1>5. Become(p, Idle) \/ Become(p, q)
    BY <1>1
  <1> HIDE DEF q
  <1>6. CASE Become(p, Idle)
    BY <1>2, <1>6, OneEndsQuota DEF End
  <1>7. CASE Become(p, q)
    BY <1>2, <1>4, <1>7, OneMovesQuota
  <1> QED  BY <1>5, <1>6, <1>7

\* What a subscription uses of a resource, as in Use.
UseIn(B, s, r) == IF r = "bots" THEN Cardinality(BotsOf(B, s)) ELSE Sum(B, BotsOf(B, s), r)

\* Handler p has changed the rows of bots to C: only for its subscription, and within
\* its plan, or where checkQuota's sum overflowed.
Grown(p, C) ==
  /\ RowsOK(C)
  /\ \A s : s # req[p].sub => /\ BotsOf(C, s) = BotsOf(bots, s)
                              /\ \A c \in BotsOf(C, s) : C[c].size = bots[c].size
  /\ \A k \in Handlers \ {p} :
       req[k].bot \in DOMAIN C => /\ req[k].bot \in DOMAIN bots
                                  /\ C[req[k].bot].sub = bots[req[k].bot].sub
                                  /\ C[req[k].bot].node = bots[req[k].bot].node
  /\ \A r \in Resource : UseIn(C, req[p].sub, r) <= req[p].plan[r] \/ Unchecked(req[p], r)
  /\ \/ UseIn(C, req[p].sub, "bots") <= req[p].plan["bots"]
     \/ UseIn(C, req[p].sub, "bots") = UseIn(bots, req[p].sub, "bots")

LEMMA GrownQuota ==
  ASSUME Sound, Quota, NEW p \in Handlers, req[p].pc = "write", End(p), Grown(p, bots')
  PROVE  Quota'
  <1>1. PICK C : C = bots'
    OBVIOUS
  <1>2. RowsOK(bots) /\ RowsOK(C)
    BY <1>1, SoundRows DEF Grown
  <1>3. ASSUME NEW k \in Handlers \ {p} PROVE QuotaOK(req[k], C)
    <2>1. RequestOK(req[k]) /\ QuotaOK(req[k], bots)
      BY DEF Quota, Sound, RequestsOK
    <2>2. req[k].pc \in Past => req[k].sub # req[p].sub
      BY DEF Quota, Apart, InTransaction, Past
    <2>3. req[k].pc \in Past => /\ BotsOf(C, req[k].sub) \subseteq BotsOf(bots, req[k].sub)
                                /\ \A c \in BotsOf(C, req[k].sub) : C[c].size = bots[c].size
      BY <1>1, <2>2 DEF Grown
    <2>4. req[k].bot \in DOMAIN C => /\ req[k].bot \in DOMAIN bots
                                     /\ C[req[k].bot].sub = bots[req[k].bot].sub
                                     /\ C[req[k].bot].node = bots[req[k].bot].node
      BY <1>1 DEF Grown
    <2> QED  BY <1>2, <2>1, <2>3, <2>4, StaysPast
  <1> QED  BY <1>1, <1>2, <1>3, OneEndsQuota

\* A size that was found to fit a node is at most what the node has, and what the bot had.
LEMMA Roomy ==
  ASSUME NEW q, RequestOK(q), q.pc = "write", RowOK(q), NEW n \in Nodes,
         \A r \in Resource : q.used[n][r] \in Nat,
         Fits(q, n) \/ ~Grows(q), NEW r \in Resource
  PROVE  q.size[r] <= Capacity[n][r] + q.row.size[r]
  <1>1. q.size[r] \in Nat /\ MaxInt \in Nat /\ Capacity[n][r] \in Nat /\ q.used[n][r] \in Nat
    BY AllocationConstants DEF RequestOK, InTransaction, Size
  <1>2. q.row.size[r] \in Nat
    BY AllocationConstants DEF RowOK, NoRow, Row, Size
  <1>3. CASE Fits(q, n)
    <2>1. Wrap(Capacity[n][r] - q.used[n][r] + q.row.size[r]) >= q.size[r]
      BY <1>3 DEF Fits
    <2> QED  BY <1>1, <1>2, <2>1 DEF Wrap
  <1>4. CASE ~Grows(q)
    BY <1>1, <1>2, <1>4 DEF Grows
  <1> QED  BY <1>3, <1>4

LEMMA InsertGrown ==
  ASSUME Sound, Quota, NEW p \in Handlers, Insert(p), ~UNCHANGED bots PROVE Grown(p, bots')
  <1> DEFINE q == req[p]
  <1>1. PICK b \in Bots, n \in Place(q), C \in {bots'} :
          /\ Unreferenced(b) /\ C = bots'
          /\ C = [c \in Live \cup {b} |->
                   IF c = b THEN [sub |-> q.sub, node |-> n, size |-> q.size] ELSE bots[c]]
    BY DEF Insert, InsertBot
  <1>2. RequestOK(q) /\ QuotaOK(q, bots) /\ q.pc = "write" /\ q.bot = NoBot /\ Sound'
    BY InsertSound DEF Sound, RequestsOK, Quota, Insert
  <1>3. RowsOK(C) /\ RowsOK(bots)
    BY <1>1, <1>2, SoundRows DEF Sound, DataOK, RowsOK, Live
  <1>4. /\ b \notin Live /\ DOMAIN C = Live \cup {b} /\ C[b].sub = q.sub /\ C[b].size = q.size
        /\ \A c \in Live : C[c] = bots[c]
    BY <1>1 DEF Unreferenced, Live
  <1>5. \A s : s # q.sub => BotsOf(C, s) = BotsOf(bots, s) /\ \A c \in BotsOf(C, s) : C[c].size = bots[c].size
    BY <1>4 DEF BotsOf, Live
  <1>6. \A k \in Handlers \ {p} : req[k].bot # b
    BY <1>1 DEF Unreferenced
  <1>7. \A k \in Handlers \ {p} :
          req[k].bot \in DOMAIN C => /\ req[k].bot \in DOMAIN bots
                                     /\ C[req[k].bot].sub = bots[req[k].bot].sub
                                     /\ C[req[k].bot].node = bots[req[k].bot].node
    BY <1>4, <1>6 DEF Live
  <1> DEFINE S == BotsOf(bots, q.sub)
  <1>8. /\ BotsOf(C, q.sub) = S \cup {b} /\ b \notin S /\ S \subseteq DOMAIN bots
        /\ \A c \in S : C[c].size = bots[c].size
    BY <1>4 DEF BotsOf, Live
  <1>9. PastOK(q, bots) /\ q.plan \in Limits
    BY <1>2 DEF QuotaOK, Past, InTransaction
  <1>10. n \in Nodes /\ Fits(q, n) /\ RowOK(q) /\ \A r \in Resource : q.used[n][r] \in Nat
    BY <1>2 DEF Place, RequestOK, QuotaOK
  <1>11. S \ {q.bot} = S
    BY <1>2, <1>3, AllocationConstants DEF RowsOK, BotsOf
  <1> HIDE DEF q, S
  <1>12. ASSUME NEW r \in Resource, ~Unchecked(q, r) PROVE UseIn(C, q.sub, r) <= q.plan[r]
    <2>1. q.size[r] <= Capacity[n][r] + q.row.size[r]
      BY <1>2, <1>10, Roomy
    <2>2. q.size[r] \in Nat /\ q.plan[r] \in Nat
      BY <1>2, <1>9, LimitType, AllocationConstants DEF RequestOK, InTransaction, Size
    <2>3. Sum(bots, S \ {q.bot}, r) + q.size[r] <= q.plan[r]
      <3>1. r \notin q.wrapped
        BY <1>10, <1>12, <2>1 DEF Unchecked
      <3> QED  BY <1>9, <3>1 DEF PastOK, S
    <2>4. S \cup {b} \in SUBSET DOMAIN C
      BY <1>4, <1>8 DEF Live
    <2>5. Sum(C, S \cup {b}, r) = C[b].size[r] + Sum(C, (S \cup {b}) \ {b}, r)
      BY <1>3, <2>4, SumApart
    <2>6. (S \cup {b}) \ {b} = S
      BY <1>8
    <2>7. S \in SUBSET DOMAIN bots
      BY <1>8
    <2>8. Sum(C, S, r) = Sum(bots, S, r)
      BY <1>3, <1>8, <2>7, SumSame
    <2>9. Sum(bots, S, r) \in Nat
      BY <1>3, <2>7, SumType
    <2>10. r # "bots"
      BY DEF Resource
    <2>11. UseIn(C, q.sub, r) = q.size[r] + Sum(bots, S, r)
      BY <1>4, <1>8, <2>5, <2>6, <2>8, <2>10 DEF UseIn
    <2>12. Sum(bots, S, r) + q.size[r] <= q.plan[r]
      BY <1>11, <2>3
    <2> QED  BY <2>2, <2>9, <2>11, <2>12
  <1>13. UseIn(C, q.sub, "bots") <= q.plan["bots"]
    <2>1. IsFiniteSet(S)
      BY <1>3, <1>8, FS_Subset, AllocationConstants DEF RowsOK
    <2>2. Cardinality(S \cup {b}) = Cardinality(S) + 1
      BY <1>8, <2>1, FS_AddElement
    <2>3. Cardinality(S) + 1 <= q.plan["bots"]
      BY <1>2, <1>9 DEF PastOK, S
    <2> QED  BY <1>8, <2>2, <2>3 DEF UseIn
  <1> QED  BY <1>1, <1>3, <1>5, <1>7, <1>12, <1>13 DEF Grown, q

LEMMA ResizeGrown ==
  ASSUME Sound, Quota, NEW p \in Handlers, Resize(p), ~UNCHANGED bots PROVE Grown(p, bots')
  <1> DEFINE q == req[p]  b == req[p].bot
  <1>1. PICK C : C = bots' /\ C = [bots EXCEPT ![b].size = q.size]
    BY DEF Resize, UpdateBotSettings
  <1>2. /\ RequestOK(q) /\ QuotaOK(q, bots) /\ q.pc = "write" /\ q.bot # NoBot /\ Sound'
        /\ b \in Live /\ (~Grows(q) \/ (q.row.node \in q.locked /\ Fits(q, q.row.node)))
    BY ResizeSound DEF Sound, RequestsOK, Quota, Resize, UpdateBotSettings
  <1>3. RowsOK(C) /\ RowsOK(bots) /\ b \in Live
    BY <1>1, SoundRows, ResizeSound DEF Sound, DataOK, RowsOK, Live, Resize, UpdateBotSettings
  <1>4. /\ DOMAIN C = DOMAIN bots /\ C[b].size = q.size
        /\ \A c \in DOMAIN bots : /\ C[c].sub = bots[c].sub /\ C[c].node = bots[c].node
                                  /\ c # b => C[c].size = bots[c].size
    BY <1>1, <1>3 DEF RowsOK, Row, Live
  <1>5. bots[b].sub = q.sub /\ \A s : BotsOf(C, s) = BotsOf(bots, s)
    BY <1>2, <1>3, <1>4 DEF QuotaOK, KnowsIts, BotsOf, Live
  <1>6. \A s : s # q.sub => BotsOf(C, s) = BotsOf(bots, s) /\ \A c \in BotsOf(C, s) : C[c].size = bots[c].size
    BY <1>4, <1>5 DEF BotsOf
  <1>7. \A k \in Handlers \ {p} :
          req[k].bot \in DOMAIN C => /\ req[k].bot \in DOMAIN bots
                                     /\ C[req[k].bot].sub = bots[req[k].bot].sub
                                     /\ C[req[k].bot].node = bots[req[k].bot].node
    BY <1>4
  <1> DEFINE S == BotsOf(bots, q.sub)
  <1>8. BotsOf(C, q.sub) = S /\ b \in S /\ S \subseteq DOMAIN bots
    BY <1>3, <1>5 DEF BotsOf, Live
  <1>9. PastOK(q, bots) /\ q.plan \in Limits /\ RowOK(q) /\ q.row.node \in Nodes
    BY <1>2 DEF QuotaOK, Past, InTransaction, RowOK, Row
  <1>10. \A r \in Resource : q.used[q.row.node][r] \in Nat
    BY <1>2, <1>9 DEF QuotaOK
  <1>11. Fits(q, q.row.node) \/ ~Grows(q)
    BY <1>2
  <1>12. q.bot = b
    OBVIOUS
  <1> HIDE DEF q, S, b
  <1>13. ASSUME NEW r \in Resource, ~Unchecked(q, r) PROVE UseIn(C, q.sub, r) <= q.plan[r]
    <2>1. q.size[r] <= Capacity[q.row.node][r] + q.row.size[r]
      BY <1>2, <1>9, <1>10, <1>11, Roomy
    <2>2. q.size[r] \in Nat /\ q.plan[r] \in Nat
      BY <1>2, <1>9, LimitType, AllocationConstants DEF RequestOK, InTransaction, Size
    <2>3. Sum(bots, S \ {b}, r) + q.size[r] <= q.plan[r]
      <3>1. r \notin q.wrapped
        BY <1>9, <1>13, <2>1 DEF Unchecked
      <3> QED  BY <1>9, <1>12, <3>1 DEF PastOK, S
    <2>4. S \in SUBSET DOMAIN C /\ S \ {b} \in SUBSET DOMAIN bots
      BY <1>4, <1>8
    <2>5. Sum(C, S, r) = C[b].size[r] + Sum(C, S \ {b}, r)
      BY <1>3, <1>8, <2>4, SumApart
    <2>6. \A c \in S \ {b} : C[c].size = bots[c].size
      BY <1>4, <1>8
    <2>7. Sum(C, S \ {b}, r) = Sum(bots, S \ {b}, r) /\ Sum(bots, S \ {b}, r) \in Nat
      BY <1>3, <2>4, <2>6, SumSame, SumType
    <2>8. r # "bots"
      BY DEF Resource
    <2>9. UseIn(C, q.sub, r) = q.size[r] + Sum(bots, S \ {b}, r)
      BY <1>4, <1>8, <2>5, <2>7, <2>8 DEF UseIn
    <2> QED  BY <2>2, <2>3, <2>7, <2>9
  <1>14. UseIn(C, q.sub, "bots") = UseIn(bots, q.sub, "bots")
    BY <1>5 DEF UseIn
  <1> QED  BY <1>1, <1>3, <1>6, <1>7, <1>13, <1>14 DEF Grown, q

LEMMA RestQuota ==
  ASSUME Sound, Quota, UpdatePlan \/ SetSubscriptionLimits \/ SetMaintenance \/ UNCHANGED vars
  PROVE  Quota'
  BY DEF UpdatePlan, SetSubscriptionLimits, SetMaintenance, vars, Quota, Apart

LEMMA InsertQuota == ASSUME Sound, Quota, NEW p \in Handlers, Insert(p) PROVE Quota'
  <1>1. CASE UNCHANGED bots
    BY <1>1, OneStops DEF Insert
  <1>2. CASE ~UNCHANGED bots
    BY <1>2, InsertGrown, GrownQuota DEF Insert
  <1> QED  BY <1>1, <1>2

LEMMA ResizeQuota == ASSUME Sound, Quota, NEW p \in Handlers, Resize(p) PROVE Quota'
  <1>1. CASE UNCHANGED bots
    BY <1>1, OneStops DEF Resize
  <1>2. CASE ~UNCHANGED bots
    BY <1>2, ResizeGrown, GrownQuota DEF Resize
  <1> QED  BY <1>1, <1>2

LEMMA NextQuota == Sound /\ Quota /\ [Next]_vars => Quota'
  <1> SUFFICES ASSUME Sound, Quota, [Next]_vars PROVE Quota'  OBVIOUS
  <1>1. ASSUME NEW p \in Handlers, CreateBot(p) \/ UpdateBot(p) \/ UpdateSubscription(p) PROVE Quota'
    BY <1>1, CreateBotQuota, UpdateBotQuota, SubscriptionQuota
  <1>2. ASSUME NEW p \in Handlers, Fail(p) PROVE Quota'
    BY <1>2, OneStops DEF Fail
  <1>3. ASSUME NEW p \in Handlers, Handle(p) PROVE Quota'
    BY <1>3, LockSubscriptionQuota, CheckQuotaQuota, PlacementCandidatesQuota, LockNodeQuota, InsertQuota,
       ResizeQuota, SubscriptionQuota, SoftDeleteQuota DEF Handle
  <1>4. CASE \/ \E b \in Bots : DeleteBot(b)
             \/ UpdatePlan \/ SetSubscriptionLimits \/ SetMaintenance \/ UNCHANGED vars
    BY <1>4, DeleteBotQuota, RestQuota
  <1> QED  BY <1>1, <1>2, <1>3, <1>4 DEF Next

LEMMA InitQuota == Init => Quota
  <1> SUFFICES ASSUME Init PROVE Quota  OBVIOUS
  <1>1. RowsOK(bots) /\ DOMAIN bots = {}
    BY DEF Init, RowsOK
  <1>2. \A p \in Handlers : req[p] = Idle
    BY DEF Init
  <1>3. Apart
    BY <1>2 DEF Apart, Idle, InTransaction
  <1>4. \A p \in Handlers : QuotaOK(req[p], bots)
    BY <1>1, <1>2, IdleQuota
  <1> QED  BY <1>3, <1>4 DEF Quota

-----------------------------------------------------------------------------
(* What each step adds.                                                    *)

LEMMA UseIsUseIn == /\ \A s, r : r \in Resource \cup {"bots"} => Use(s)[r] = UseIn(bots, s, r)
                    /\ \A s, r : r \in Resource \cup {"bots"} => Use(s)'[r] = UseIn(bots', s, r)
  BY DEF Use, UseIn, OfSub, BotsOf, Live, Total, Sum, Resource

\* A handler that grew a subscription is its own, and ends within the plan, or where
\* checkQuota's sum overflowed.
LEMMA GrownFits ==
  ASSUME Sound, Quota, NEW p \in Handlers, req[p].pc = "write", End(p), Grown(p, bots'),
         NEW s \in Subs, NEW r \in Resource \cup {"bots"}, UseIn(bots', s, r) > UseIn(bots, s, r)
  PROVE  /\ req[p].sub = s /\ req'[p] = Idle
         /\ UseIn(bots', s, r) <= req[p].plan[r] \/ Unchecked(req[p], r)
  <1>1. req'[p] = Idle
    BY DEF End, Become, Sound, RequestsOK
  <1>2. PICK C : C = bots'
    OBVIOUS
  <1>3. RowsOK(bots) /\ RowsOK(C)
    BY <1>2, SoundRows DEF Grown
  <1>4. BotsOf(bots, s) \in SUBSET DOMAIN bots /\ BotsOf(C, s) \in SUBSET DOMAIN C
    BY DEF BotsOf
  <1>5. UseIn(C, s, r) \in Nat /\ UseIn(bots, s, r) \in Nat
    <2>1. CASE r = "bots"
      <3>1. BotsOf(bots, s) \subseteq Bots /\ BotsOf(C, s) \subseteq Bots
        BY <1>3, <1>4 DEF RowsOK
      <3>2. Cardinality(BotsOf(bots, s)) \in Nat /\ Cardinality(BotsOf(C, s)) \in Nat
        BY <3>1, FS_Subset, FS_CardinalityType, AllocationConstants
      <3> QED  BY <2>1, <3>2 DEF UseIn
    <2>2. CASE r # "bots"
      BY <1>3, <1>4, <2>2, SumType DEF UseIn
    <2> QED  BY <2>1, <2>2
  <1>6. CASE s # req[p].sub
    <2>1. BotsOf(C, s) = BotsOf(bots, s) /\ \A c \in BotsOf(bots, s) : C[c].size = bots[c].size
      BY <1>2, <1>6 DEF Grown
    <2>2. UseIn(C, s, r) = UseIn(bots, s, r)
      <3>1. CASE r = "bots"
        BY <2>1, <3>1 DEF UseIn
      <3>2. CASE r # "bots"
        <4>1. Sum(C, BotsOf(bots, s), r) = Sum(bots, BotsOf(bots, s), r)
          BY <1>3, <1>4, <2>1, <3>2, SumSame
        <4> QED  BY <2>1, <3>2, <4>1 DEF UseIn
      <3> QED  BY <3>1, <3>2
    <2> QED  BY <1>2, <1>5, <2>2
  <1>7. CASE s = req[p].sub
    <2>1. UseIn(C, s, r) # UseIn(bots, s, r)
      BY <1>2, <1>5
    <2> QED  BY <1>1, <1>2, <1>7, <2>1 DEF Grown
  <1> QED  BY <1>6, <1>7

\* Without a bot that is new or larger, nothing is added.
LEMMA NothingAdded ==
  ASSUME Sound, UNCHANGED bots \/ \E b : bots' = [c \in Live \ {b} |-> bots[c]],
         NEW s, NEW r \in Resource \cup {"bots"}
  PROVE  ~(UseIn(bots', s, r) > UseIn(bots, s, r))
  <1>1. PICK C : C = bots'
    OBVIOUS
  <1>2. /\ RowsOK(bots) /\ BotsOf(C, s) \subseteq BotsOf(bots, s)
        /\ \A b \in BotsOf(C, s) : C[b].size = bots[b].size
    BY <1>1, SoundRows DEF BotsOf, Live
  <1>3. /\ Cardinality(BotsOf(C, s)) \in Nat /\ Cardinality(BotsOf(bots, s)) \in Nat
        /\ Cardinality(BotsOf(C, s)) <= Cardinality(BotsOf(bots, s))
    BY <1>2, LessUsed
  <1>4. CASE r = "bots"
    BY <1>1, <1>3, <1>4 DEF UseIn
  <1>5. CASE r # "bots"
    <2>1. /\ Sum(C, BotsOf(C, s), r) \in Nat /\ Sum(bots, BotsOf(bots, s), r) \in Nat
          /\ Sum(C, BotsOf(C, s), r) <= Sum(bots, BotsOf(bots, s), r)
      BY <1>2, <1>5, LessUsed
    <2> QED  BY <1>1, <1>5, <2>1 DEF UseIn
  <1> QED  BY <1>4, <1>5

LEMMA StepFits ==
  ASSUME Sound, Quota, [Next]_vars, NEW s \in Subs, NEW r \in Resource \cup {"bots"},
         UseIn(bots', s, r) > UseIn(bots, s, r)
  PROVE  \E p \in Handlers : /\ req[p].sub = s /\ req'[p] = Idle
                             /\ UseIn(bots', s, r) <= req[p].plan[r] \/ Unchecked(req[p], r)
  <1>1. ~UNCHANGED bots /\ ~\E b : bots' = [c \in Live \ {b} |-> bots[c]]
    BY NothingAdded
  <1>2. PICK p \in Handlers : Insert(p) \/ Resize(p)
    BY <1>1 DEF Next, Handle, CreateBot, UpdateBot, UpdateSubscription, Fail, LockSubscription, CheckQuota,
       PlacementCandidates, LockNode, SetSubscriptionStatus, ListBots, SoftDelete, DeleteBot,
       SoftDeleteBot, UpdatePlan, SetSubscriptionLimits, SetMaintenance, Data, vars
  <1>3. Grown(p, bots') /\ req[p].pc = "write" /\ End(p)
    BY <1>1, <1>2, InsertGrown, ResizeGrown DEF Insert, Resize
  <1> QED  BY <1>3, GrownFits

\* A step that adds to what a subscription uses, its memory, its disk or its bots, ends
\* within the plan that its handler was shown, for any number of handlers, nodes, bots
\* and plans; unless it adds of a resource for which checkQuota's sum left int32, and
\* then some node has room for a size as large as that.
THEOREM AllocationsStayWithinPlan == Spec => AllocationsFit
  <1>1. Sound /\ Quota /\ [Next]_vars =>
          [\A s \in Subs, r \in Resource \cup {"bots"} :
             Use(s)'[r] > Use(s)[r] =>
               \E p \in Handlers : /\ req[p].sub = s /\ req'[p] = Idle
                                   /\ Use(s)'[r] <= req[p].plan[r] \/ Unchecked(req[p], r)]_vars
    BY StepFits, UseIsUseIn
  <1>2. Sound /\ Quota /\ [Next]_vars => Quota'
    BY NextQuota
  <1> QED  BY <1>1, <1>2, InitSound, NextSound, InitQuota, PTL DEF Spec, AllocationsFit

-----------------------------------------------------------------------------
(* Placement on usage that is still true.  Nothing goes back for a bot     *)
(* that is new; for one that is resized, what it used.                     *)

NewHasNoRow == \A p \in Handlers : req[p].bot = NoBot => req[p].row = NoRow

LEMMA OneMovesNew ==
  ASSUME RequestsOK, NewHasNoRow, NEW p \in Handlers, NEW q, Become(p, q), q.bot = NoBot => q.row = NoRow
  PROVE  NewHasNoRow'
  BY DEF NewHasNoRow, Become, RequestsOK

LEMMA NextNew == Sound /\ NewHasNoRow /\ [Next]_vars => NewHasNoRow'
  <1> SUFFICES ASSUME Sound, NewHasNoRow, [Next]_vars PROVE NewHasNoRow'  OBVIOUS
  <1>1. ASSUME NEW p \in Handlers, End(p) PROVE NewHasNoRow'
    BY <1>1, OneMovesNew DEF End, Idle, Sound
  <1>2. ASSUME NEW p \in Handlers, CreateBot(p) PROVE NewHasNoRow'
    <2>1. PICK s, size : Become(p, [Idle EXCEPT !.pc = "begin", !.sub = s, !.size = size])
      BY <1>2 DEF CreateBot
    <2>2. [Idle EXCEPT !.pc = "begin", !.sub = s, !.size = size].row = NoRow
      BY DEF Idle
    <2> QED  BY <2>1, <2>2, OneMovesNew DEF Sound
  <1>3. ASSUME NEW p \in Handlers, UpdateBot(p) PROVE NewHasNoRow'
    <2>1. PICK b \in Live, size \in Sizes : Become(p, [GetBot(b) EXCEPT !.pc = "begin", !.size = size])
      BY <1>3 DEF UpdateBot
    <2>2. [GetBot(b) EXCEPT !.pc = "begin", !.size = size].bot = b /\ b # NoBot
      BY AllocationConstants DEF GetBot, Idle, Sound, DataOK
    <2> QED  BY <2>1, <2>2, OneMovesNew DEF Sound
  <1>4. ASSUME NEW p \in Handlers, UpdateSubscription(p) PROVE NewHasNoRow'
    <2>1. PICK s, st : Become(p, [Idle EXCEPT !.pc = "status", !.sub = s, !.target = st])
      BY <1>4 DEF UpdateSubscription
    <2>2. [Idle EXCEPT !.pc = "status", !.sub = s, !.target = st].row = NoRow
      BY DEF Idle
    <2> QED  BY <2>1, <2>2, OneMovesNew DEF Sound
  <1>5. ASSUME NEW p \in Handlers, LockSubscription(p) \/ CheckQuota(p) PROVE NewHasNoRow'
    <2>1. DOMAIN req[p] = Fields /\ (req[p].bot = NoBot => req[p].row = NoRow)
      BY DEF Sound, RequestsOK, RequestOK, NewHasNoRow
    <2>2. PICK pc, plan, wrapped : \/ End(p)
                                   \/ Become(p, [req[p] EXCEPT !.pc = pc, !.plan = plan])
                                   \/ Become(p, [req[p] EXCEPT !.pc = pc, !.wrapped = wrapped])
      BY <1>5, ZenonT(30) DEF LockSubscription, CheckQuota
    <2> DEFINE l == [req[p] EXCEPT !.pc = pc, !.plan = plan]
               c == [req[p] EXCEPT !.pc = pc, !.wrapped = wrapped]
    <2>3. l.bot = req[p].bot /\ l.row = req[p].row
      BY <2>1 DEF Fields
    <2>4. c.bot = req[p].bot /\ c.row = req[p].row
      BY <2>1 DEF Fields
    <2>5. End(p) \/ Become(p, l) \/ Become(p, c)
      BY <2>2
    <2> HIDE DEF l, c
    <2> QED  BY <1>1, <2>1, <2>3, <2>4, <2>5, OneMovesNew DEF Sound
  <1>6. ASSUME NEW p \in Handlers, PlacementCandidates(p) PROVE NewHasNoRow'
    <2>1. PICK pc, used, todo : End(p) \/ Become(p, [req[p] EXCEPT !.pc = pc, !.used = used, !.todo = todo])
      BY <1>6 DEF PlacementCandidates
    <2> DEFINE q == [req[p] EXCEPT !.pc = pc, !.used = used, !.todo = todo]
    <2>2. q.bot = req[p].bot /\ q.row = req[p].row
      BY DEF Sound, RequestsOK, RequestOK, Fields
    <2>3. req[p].bot = NoBot => req[p].row = NoRow
      BY DEF NewHasNoRow
    <2> QED  BY <1>1, <2>1, <2>2, <2>3, OneMovesNew DEF Sound
  <1>7. ASSUME NEW p \in Handlers, LockNode(p) PROVE NewHasNoRow'
    <2>1. PICK pc, todo, locked : Become(p, [req[p] EXCEPT !.pc = pc, !.todo = todo, !.locked = locked])
      BY <1>7 DEF LockNode
    <2> DEFINE q == [req[p] EXCEPT !.pc = pc, !.todo = todo, !.locked = locked]
    <2>2. q.bot = req[p].bot /\ q.row = req[p].row
      BY DEF Sound, RequestsOK, RequestOK, Fields
    <2>3. req[p].bot = NoBot => req[p].row = NoRow
      BY DEF NewHasNoRow
    <2> QED  BY <2>1, <2>2, <2>3, OneMovesNew DEF Sound
  <1>8. ASSUME NEW p \in Handlers, SetSubscriptionStatus(p) \/ ListBots(p) \/ SoftDelete(p) PROVE NewHasNoRow'
    <2>1. PICK pc, todo : Become(p, Idle) \/ Become(p, [req[p] EXCEPT !.pc = pc])
                          \/ Become(p, [req[p] EXCEPT !.pc = pc, !.todo = todo])
                          \/ Become(p, [req[p] EXCEPT !.todo = todo])
      <3>1. CASE SetSubscriptionStatus(p)
        BY <3>1 DEF SetSubscriptionStatus
      <3>2. CASE ListBots(p)
        BY <3>2 DEF ListBots
      <3>3. CASE SoftDelete(p)
        BY <3>3 DEF SoftDelete
      <3> QED  BY <1>8, <3>1, <3>2, <3>3
    <2> DEFINE q == [req[p] EXCEPT !.pc = pc]
               d == [req[p] EXCEPT !.pc = pc, !.todo = todo]
               t == [req[p] EXCEPT !.todo = todo]
    <2>2. /\ q.bot = req[p].bot /\ q.row = req[p].row
          /\ d.bot = req[p].bot /\ d.row = req[p].row
          /\ t.bot = req[p].bot /\ t.row = req[p].row
      BY DEF Sound, RequestsOK, RequestOK, Fields
    <2>3. req[p].bot = NoBot => req[p].row = NoRow
      BY DEF NewHasNoRow
    <2> HIDE DEF q, d, t
    <2>4. CASE Become(p, Idle)
      BY <1>1, <2>4 DEF End
    <2>5. CASE Become(p, q) \/ Become(p, d) \/ Become(p, t)
      BY <2>2, <2>3, <2>5, OneMovesNew DEF Sound
    <2> QED  BY <2>1, <2>4, <2>5 DEF q, d, t
  <1>9. CASE \/ \E b \in Bots : DeleteBot(b)
             \/ UpdatePlan \/ SetSubscriptionLimits \/ SetMaintenance \/ UNCHANGED vars
    BY <1>9 DEF DeleteBot, UpdatePlan, SetSubscriptionLimits, SetMaintenance, vars, NewHasNoRow
  <1> QED  BY <1>1, <1>2, <1>3, <1>4, <1>5, <1>6, <1>7, <1>8, <1>9 DEF Next, Handle, Fail, Insert, Resize

\* What a node uses, B being the rows.
BotsOn(B, n) == {b \in DOMAIN B : B[b].node = n}

LEMMA NodeUseIs ==
  /\ \A n, r : r \in Resource => NodeUse(n)[r] = Sum(bots, BotsOn(bots, n), r)
  /\ \A n, r : r \in Resource => NodeUse(n)'[r] = Sum(bots', BotsOn(bots', n), r)
  BY DEF NodeUse, OnNode, BotsOn, Live, Total, Sum

LEMMA InsertWithin ==
  ASSUME Sound, Sound', NewHasNoRow, NEW p \in Handlers, Insert(p), ~UNCHANGED bots, NEW n \in Nodes,
         Within(n), req[p].used[n] = NodeUse(n), NEW r \in Resource
  PROVE  Sum(bots', BotsOn(bots', n), r) <= Capacity[n][r]
  <1> DEFINE q == req[p]  S == BotsOn(bots, n)
  <1>1. PICK b \in Bots, m \in Place(q), C \in {bots'} :
          /\ Unreferenced(b) /\ C = bots'
          /\ C = [c \in Live \cup {b} |->
                   IF c = b THEN [sub |-> q.sub, node |-> m, size |-> q.size] ELSE bots[c]]
    BY DEF Insert, InsertBot
  <1>2. RowsOK(C) /\ RowsOK(bots) /\ RequestOK(q) /\ q.pc = "write"
    BY <1>1, SoundRows DEF Sound, DataOK, RequestsOK, RowsOK, Live, Insert
  <1>3. /\ b \notin Live /\ DOMAIN C = Live \cup {b} /\ C[b].node = m /\ C[b].size = q.size
        /\ \A c \in Live : C[c] = bots[c]
    BY <1>1 DEF Unreferenced, Live
  <1>4. S \in SUBSET DOMAIN bots /\ b \notin S /\ \A c \in S : C[c].size = bots[c].size
    BY <1>3 DEF BotsOn, Live
  <1>5. BotsOn(C, n) = IF m = n THEN S \cup {b} ELSE S
    BY <1>3 DEF BotsOn, Live
  <1>6. Sum(bots, S, r) <= Capacity[n][r]
    BY NodeUseIs DEF Within
  <1>7. q.used[n][r] = Sum(bots, S, r)
    BY NodeUseIs
  <1>8. q.row.size[r] = 0 /\ Fits(q, m)
    BY <1>1 DEF NewHasNoRow, NoRow, Insert, Place
  <1> HIDE DEF q, S
  <1>9. /\ Sum(bots, S, r) \in Nat /\ q.size[r] \in Nat \ {0} /\ Capacity[n][r] \in Nat /\ MaxInt \in Nat
    <2>1. Sum(bots, S, r) \in Nat
      BY <1>2, <1>4, SumType
    <2> QED  BY <1>2, <2>1, AllocationConstants DEF RequestOK, InTransaction, Size
  <1>10. Sum(C, S, r) = Sum(bots, S, r)
    BY <1>2, <1>4, SumSame
  <1>11. CASE m # n
    BY <1>1, <1>5, <1>6, <1>10, <1>11
  <1>12. CASE m = n
    <2>1. Wrap(Capacity[n][r] - Sum(bots, S, r) + 0) >= q.size[r]
      BY <1>7, <1>8, <1>12 DEF Fits
    <2>2. Sum(bots, S, r) + q.size[r] <= Capacity[n][r]
      BY <1>9, <2>1 DEF Wrap
    <2>3. PICK T \in SUBSET DOMAIN C : T = S \cup {b}
      BY <1>3, <1>4 DEF Live
    <2>4. b \in T /\ T \ {b} = S
      BY <1>4, <2>3
    <2>5. Sum(C, T, r) = C[b].size[r] + Sum(C, T \ {b}, r)
      BY <1>2, <2>4, SumApart
    <2>6. Sum(C, T, r) = q.size[r] + Sum(bots, S, r)
      BY <1>3, <1>10, <2>4, <2>5
    <2>7. Sum(C, T, r) <= Capacity[n][r]
      BY <1>9, <2>2, <2>6
    <2> QED  BY <1>1, <1>5, <1>12, <2>3, <2>7
  <1> QED  BY <1>11, <1>12

LEMMA ResizeWithin ==
  ASSUME Sound, Sound', NEW p \in Handlers, Resize(p), ~UNCHANGED bots, NEW n \in Nodes,
         Within(n), req[p].used[n] = NodeUse(n), req[p].bot \in Live => req[p].row = bots[req[p].bot],
         NEW r \in Resource
  PROVE  Sum(bots', BotsOn(bots', n), r) <= Capacity[n][r]
  <1> DEFINE q == req[p]  b == req[p].bot  S == BotsOn(bots, n)
  <1>1. PICK C : C = bots' /\ C = [bots EXCEPT ![b].size = q.size]
    BY DEF Resize, UpdateBotSettings
  <1>2. b \in Live /\ (~Grows(q) \/ Fits(q, q.row.node))
    BY DEF Resize, UpdateBotSettings
  <1>3. RowsOK(C) /\ RowsOK(bots) /\ RequestOK(q) /\ q.pc = "write" /\ q.row = bots[b]
    BY <1>1, <1>2, SoundRows DEF Sound, DataOK, RequestsOK, RowsOK, Live, Resize
  <1>4. /\ DOMAIN C = DOMAIN bots /\ C[b].size = q.size
        /\ \A c \in DOMAIN bots : C[c].node = bots[c].node /\ (c # b => C[c].size = bots[c].size)
    BY <1>1, <1>2, <1>3 DEF RowsOK, Row, Live
  <1>5. BotsOn(C, n) = S /\ S \in SUBSET DOMAIN bots
    BY <1>4 DEF BotsOn
  <1>6. Sum(bots, S, r) <= Capacity[n][r]
    BY NodeUseIs DEF Within
  <1>7. q.used[n][r] = Sum(bots, S, r)
    BY NodeUseIs
  <1>8. b \in S => q.row.node = n
    BY <1>3 DEF BotsOn
  <1>9. q.size[r] \in Nat \ {0} /\ Capacity[n][r] \in Nat /\ MaxInt \in Nat /\ bots[b].size[r] \in Nat
    BY <1>2, <1>3, SizeNat, AllocationConstants DEF RequestOK, InTransaction, Size, Live
  <1>10. b \in S \/ \A c \in S : C[c].size = bots[c].size
    BY <1>4, <1>5
  <1> HIDE DEF q, S, b
  <1>11. CASE b \notin S
    <2>1. Sum(C, S, r) = Sum(bots, S, r)
      BY <1>3, <1>5, <1>10, <1>11, SumSame
    <2> QED  BY <1>1, <1>5, <1>6, <2>1
  <1>12. CASE b \in S
    <2>1. S \in SUBSET DOMAIN C /\ S \ {b} \in SUBSET DOMAIN bots
      BY <1>4, <1>5
    <2>2. Sum(bots, S, r) = bots[b].size[r] + Sum(bots, S \ {b}, r)
      BY <1>3, <1>5, <1>12, SumApart
    <2>3. Sum(C, S, r) = C[b].size[r] + Sum(C, S \ {b}, r)
      BY <1>3, <1>12, <2>1, SumApart
    <2>4. \A c \in S \ {b} : C[c].size = bots[c].size
      BY <1>4, <1>5
    <2>5. Sum(C, S \ {b}, r) = Sum(bots, S \ {b}, r) /\ Sum(bots, S \ {b}, r) \in Nat
      BY <1>3, <2>1, <2>4, SumSame, SumType
    <2>6. Sum(C, S, r) = q.size[r] + Sum(bots, S \ {b}, r)
      BY <1>4, <2>3, <2>5
    <2>7. CASE Fits(q, q.row.node)
      <3>1. Wrap(Capacity[n][r] - Sum(bots, S, r) + bots[b].size[r]) >= q.size[r]
        BY <1>3, <1>7, <1>8, <1>12, <2>7 DEF Fits
      <3>2. q.size[r] + Sum(bots, S \ {b}, r) <= Capacity[n][r]
        BY <1>9, <2>2, <2>5, <3>1 DEF Wrap
      <3> QED  BY <1>1, <1>5, <2>6, <3>2
    <2>8. CASE ~Grows(q)
      <3>1. q.size[r] <= bots[b].size[r]
        BY <1>3, <1>9, <2>8 DEF Grows
      <3>2. q.size[r] + Sum(bots, S \ {b}, r) <= Capacity[n][r]
        BY <1>6, <1>9, <2>2, <2>5, <3>1
      <3> QED  BY <1>1, <1>5, <2>6, <3>2
    <2> QED  BY <1>2, <2>7, <2>8
  <1> QED  BY <1>11, <1>12

\* A handler that is about to write ends by Insert, Resize or Fail.
LEMMA StepWithin ==
  ASSUME Sound, Sound', NewHasNoRow, [Next]_vars, NEW n \in Nodes, NEW p \in Handlers,
         Within(n), req[p].pc = "write", req'[p] = Idle, n \in req[p].locked,
         req[p].used[n] = NodeUse(n), req[p].bot \in Live => req[p].row = bots[req[p].bot]
  PROVE  Within(n)'
  <1> SUFFICES ASSUME NEW r \in Resource PROVE Sum(bots', BotsOn(bots', n), r) <= Capacity[n][r]
    BY NodeUseIs DEF Within
  <1>1. req'[p] # req[p]
    BY DEF Idle
  <1>2. PICK k \in Handlers :
          CreateBot(k) \/ UpdateBot(k) \/ UpdateSubscription(k) \/ Handle(k) \/ Fail(k)
    BY <1>1 DEF Next, DeleteBot, UpdatePlan, SetSubscriptionLimits, SetMaintenance, vars
  <1>3. \E q : Become(k, q)
    BY <1>2 DEF Handle, CreateBot, UpdateBot, UpdateSubscription, Fail, LockSubscription, CheckQuota,
       PlacementCandidates, LockNode, Insert, Resize, SetSubscriptionStatus, ListBots, SoftDelete, End
  <1>4. k = p
    BY <1>1, <1>3 DEF Become, Sound, RequestsOK
  <1>5. Insert(p) \/ Resize(p) \/ Fail(p)
    BY <1>2, <1>4 DEF Handle, CreateBot, UpdateBot, UpdateSubscription, LockSubscription, CheckQuota,
       PlacementCandidates, LockNode, SetSubscriptionStatus, ListBots, SoftDelete
  <1>6. CASE UNCHANGED bots
    BY <1>6, NodeUseIs DEF Within
  <1>7. CASE ~UNCHANGED bots
    BY <1>5, <1>7, InsertWithin, ResizeWithin DEF Fail
  <1> QED  BY <1>6, <1>7

\* A placement or a growth that was decided on usage that is still true leaves the node
\* within its capacity, whatever the sizes and the capacities are: for any number of
\* handlers, nodes and bots.
THEOREM PlacementStaysWithinNode == Spec => PlacementFits
  <1>1. Init => NewHasNoRow
    BY DEF Init, NewHasNoRow, Idle
  <1>2. Sound /\ Sound' /\ NewHasNoRow /\ [Next]_vars =>
          [\A n \in Nodes, p \in Handlers :
             /\ Within(n) /\ req[p].pc = "write" /\ req'[p] = Idle /\ n \in req[p].locked
             /\ req[p].used[n] = NodeUse(n) /\ (req[p].bot \in Live => req[p].row = bots[req[p].bot])
             => Within(n)']_vars
    BY StepWithin
  <1> QED  BY <1>1, <1>2, InitSound, NextSound, NextNew, PTL DEF Spec, PlacementFits
===============================================================================
