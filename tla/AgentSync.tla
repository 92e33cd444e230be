------------------------------- MODULE AgentSync -------------------------------
(***************************************************************************)
(* Which bots a node has.  The panel sends an agent, on every connect, the *)
(* list of the node's bots (syncNode, internal/panel/hub.go), and after a  *)
(* change the bot's spec or its removal (pushBot, removeBot); the agent's  *)
(* handle and sync (internal/agent/agent.go) pass them to one worker per   *)
(* bot, and a goroutine of sync's removes the bots that are not listed.    *)
(*                                                                         *)
(* The panel's calls run side by side and each sends from a goroutine of   *)
(* its own, so what is sent arrives in any order; it is lost with the      *)
(* connection.  A worker is as much of BotWorker as matters here: a        *)
(* request that is recorded, an operation that runs, and retire.           *)
(*                                                                         *)
(* Left out: what a spec says (PanelDeploys), restarts and logs, a second  *)
(* connection beside the first (HubConnections).  An operator named Bug_X  *)
(* is X with a bug; no definition uses it.                                 *)
(***************************************************************************)
EXTENDS Naturals, Bags

CONSTANTS
  Bots,         \* bots of the node
  MaxChanges,   \* bound: changes the panel makes to rows
  MaxTroubles   \* bound: connections lost, crashes of the agent, and statements, specs
                \* and operations that fail, together

ASSUME SyncConstants == MaxChanges \in Nat /\ MaxTroubles \in Nat

VARIABLES
  row,          \* the panel's row of each bot: "absent", "live" or "deleted"
  calls,        \* pushBot and removeBot calls that go on, and frames on their way
  connected,
  sync,         \* syncNode of the connection, and the frame it sends
  worker,       \* the agent's workers, with what they were asked and what they do
  disk,         \* bots with a container and a volume
  sweeps,       \* the goroutines of sync, by the connection that started them
  omitted,      \* live bots that a sync did not list
  orderly,      \* since the last sync, no change met another one on its way
  used

vars == <<row, calls, connected, sync, worker, disk, sweeps, omitted, orderly, used>>
panel == <<row, calls, connected, sync, omitted>>
agent == <<worker, disk, sweeps>>

Call == [bot : Bots, at : {"read", "conn", "sent"}, type : {"apply", "remove"}]
Conns == 1 .. MaxTroubles + 1      \* every lost connection is a trouble

NoSync == [at |-> "none", specs |-> {}]
NoSweep == [at |-> "off", listed |-> {}, keep |-> {}, ids |-> {}]
NoWorker == [in |-> FALSE, pend |-> "none", op |-> "idle"]
Live == {b \in Bots : row[b] = "live"}

Init ==
  /\ row = [b \in Bots |-> "absent"] /\ calls = EmptyBag
  /\ connected = FALSE /\ sync = NoSync
  /\ worker = [b \in Bots |-> NoWorker] /\ disk = {}
  /\ sweeps = [i \in Conns |-> NoSweep]
  /\ omitted = {} /\ orderly = FALSE
  /\ used = [changes |-> 0, conns |-> 0, troubles |-> 0]

Trouble == used.troubles < MaxTroubles /\ used' = [used EXCEPT !.troubles = @ + 1] /\ orderly' = FALSE
NoTrouble == UNCHANGED <<used, orderly>>

\* Nothing is on its way, in either program.
Settled ==
  /\ connected /\ calls = EmptyBag /\ sync.at = "none"
  /\ \A i \in Conns : sweeps[i].at = "off"
MakeChange ==
  /\ used.changes < MaxChanges /\ used' = [used EXCEPT !.changes = @ + 1]
  /\ orderly' = (orderly /\ Settled)

-----------------------------------------------------------------------------
(* The panel.                                                              *)

Begin(b, at, type) == calls' = calls (+) SetToBag({[bot |-> b, at |-> at, type |-> type]})
Advance(c, next) == calls' = (calls (-) SetToBag({c})) (+) SetToBag({next})
Leave(c) == calls' = calls (-) SetToBag({c})

Create(b) ==
  /\ row[b] = "absent" /\ row' = [row EXCEPT ![b] = "live"]
  /\ Begin(b, "read", "apply") /\ MakeChange
  /\ UNCHANGED <<connected, sync, omitted, agent>>

\* Any handler that changes what the bot's spec is made of, and calls pushBot.
Change(b) ==
  /\ row[b] = "live"
  /\ Begin(b, "read", "apply") /\ MakeChange
  /\ UNCHANGED <<row, connected, sync, omitted, agent>>

\* deleteBot, and terminate, go on with removeBot.
Delete(b) ==
  /\ row[b] = "live" /\ row' = [row EXCEPT ![b] = "deleted"]
  /\ Begin(b, "conn", "remove") /\ MakeChange
  /\ UNCHANGED <<connected, sync, omitted, agent>>

\* pushBot's first half.
GetBotSpec(c) ==
  /\ c.at = "read"
  /\ \/ NoTrouble /\ Advance(c, [c EXCEPT !.at = "conn", !.type = IF row[c.bot] = "live" THEN "apply" ELSE "remove"])
     \/ Trouble /\ Leave(c)
  /\ UNCHANGED <<row, connected, sync, omitted, agent>>

\* Its second half: without a connection "the next sync carries it".
Send(c) ==
  /\ c.at = "conn"
  /\ \/ NoTrouble /\ IF connected THEN Advance(c, [c EXCEPT !.at = "sent"]) ELSE Leave(c)
     \/ c.type = "apply" /\ Trouble /\ Leave(c)       \* buildSpec
  /\ UNCHANGED <<row, connected, sync, omitted, agent>>

\* serveAgent, after a hello for which the agent has looked at its runtime.
Connect ==
  /\ ~connected /\ connected' = TRUE
  /\ sync' = [NoSync EXCEPT !.at = "rows"]
  /\ worker' = [b \in Bots |-> [worker[b] EXCEPT !.in = @ \/ b \in disk]]
  /\ used' = [used EXCEPT !.conns = @ + 1]
  /\ UNCHANGED <<row, calls, disk, sweeps, omitted, orderly>>

\* A bot whose spec cannot be built is left out.
ListNodeBotSpecs ==
  /\ sync.at = "rows"
  /\ \/ /\ sync' = [at |-> "sent", specs |-> Live]
        /\ orderly' = (calls = EmptyBag /\ \A i \in Conns : sweeps[i].at = "off")
        /\ UNCHANGED used
     \/ Trouble /\ sync' \in {NoSync} \cup {[at |-> "sent", specs |-> Live \ {b}] : b \in Live}
  /\ UNCHANGED <<row, calls, connected, omitted, agent>>

-----------------------------------------------------------------------------
(* The agent's read loop.                                                  *)

Asked(w, what) == [w EXCEPT !.in = TRUE, !.pend = what]     \* withWorker

\* bot.apply, whose spec may be invalid, and bot.remove.
HandleCall(c) ==
  /\ c.at = "sent" /\ connected /\ Leave(c)
  /\ \/ worker' = [worker EXCEPT ![c.bot] = Asked(@, c.type)] /\ NoTrouble
     \/ c.type = "apply" /\ Trouble /\ UNCHANGED worker
  /\ UNCHANGED <<row, connected, sync, disk, sweeps, omitted>>

\* An invalid spec is neither applied nor is its bot removed.
Bug_Keep(specs, bad) == specs \ bad
Keep(specs, bad) == specs

\* sync: listed specs go to their workers, and a goroutine looks for the others.
HandleSync ==
  /\ sync.at = "sent" /\ connected /\ sync' = NoSync
  /\ \E bad \in SUBSET sync.specs :
       /\ (bad = {} /\ NoTrouble) \/ (bad # {} /\ Trouble)
       /\ worker' = [b \in Bots |-> IF b \in sync.specs \ bad THEN Asked(worker[b], "apply") ELSE worker[b]]
       /\ sweeps' = [sweeps EXCEPT ![used.conns] = 
            [at |-> "list", listed |-> sync.specs, keep |-> Keep(sync.specs, bad), ids |-> {}]]
  /\ omitted' = omitted \cup (Live \ sync.specs)
  /\ UNCHANGED <<row, calls, connected, disk>>

SweepList(i) ==
  /\ sweeps[i].at = "list"
  /\ \/ NoTrouble /\ sweeps' = [sweeps EXCEPT ![i].at = "workers", ![i].ids = disk]
     \/ Trouble /\ sweeps' = [sweeps EXCEPT ![i] = NoSweep]
  /\ UNCHANGED <<panel, worker, disk>>

SweepWorkers(i) ==
  /\ sweeps[i].at = "workers"
  /\ sweeps' = [sweeps EXCEPT ![i].at = "remove", ![i].ids = @ \cup {b \in Bots : worker[b].in}]
  /\ NoTrouble /\ UNCHANGED <<panel, worker, disk>>

\* One bot at a time, as withWorker gets the lock.  A bot created since the list was
\* read is not listed either.
SweepRemove(i) ==
  /\ sweeps[i].at = "remove"
  /\ \/ /\ sweeps[i].ids \subseteq sweeps[i].keep
        /\ sweeps' = [sweeps EXCEPT ![i] = NoSweep] /\ UNCHANGED <<worker, omitted>>
     \/ \E b \in sweeps[i].ids \ sweeps[i].keep :
          /\ sweeps' = [sweeps EXCEPT ![i].ids = @ \ {b}]
          /\ worker' = [worker EXCEPT ![b] = Asked(@, "remove")]
          /\ omitted' = IF b \in Live \ sweeps[i].listed THEN omitted \cup {b} ELSE omitted
  /\ NoTrouble /\ UNCHANGED <<row, calls, connected, sync, disk>>

-----------------------------------------------------------------------------
(* The workers, and what goes wrong.                                       *)

Take(b) ==
  /\ worker[b].op = "idle" /\ worker[b].pend # "none"
  /\ worker' = [worker EXCEPT ![b].op = worker[b].pend, ![b].pend = "none"]
  /\ NoTrouble /\ UNCHANGED <<panel, disk, sweeps>>

\* A removal asked for meanwhile cancels the call, wherever it is.
EndApply(b) ==
  /\ worker[b].op = "apply" /\ worker' = [worker EXCEPT ![b].op = "idle"]
  /\ \/ NoTrouble /\ disk' = disk \cup {b}
     \/ Trouble /\ UNCHANGED disk
     \/ worker[b].pend = "remove" /\ NoTrouble /\ UNCHANGED disk
  /\ UNCHANGED <<panel, sweeps>>

\* retire: unless something was asked meanwhile, the worker is no more.
Bug_Retire(w) == NoWorker
Retire(w) == IF w.pend = "none" THEN NoWorker ELSE [w EXCEPT !.op = "idle"]

EndRemove(b) ==
  /\ worker[b].op = "remove" /\ worker' = [worker EXCEPT ![b] = Retire(@)]
  /\ \/ NoTrouble /\ disk' = disk \ {b}
     \/ Trouble /\ UNCHANGED disk
  /\ UNCHANGED <<panel, sweeps>>

OnlySent(c) == c.at = "sent"
Unsent == [c \in {d \in DOMAIN calls : ~OnlySent(d)} |-> calls[c]]

Disconnect ==
  /\ connected /\ connected' = FALSE /\ Trouble
  /\ sync' = NoSync /\ calls' = Unsent
  /\ UNCHANGED <<row, omitted, agent>>

\* The agent dies: containers and volumes stay.
AgentCrash ==
  /\ Trouble /\ connected' = FALSE /\ sync' = NoSync /\ calls' = Unsent
  /\ worker' = [b \in Bots |-> NoWorker] /\ sweeps' = [i \in Conns |-> NoSweep]
  /\ disk' \in {disk, disk \cup {b \in Bots : worker[b].op = "apply"}, disk \ {b \in Bots : worker[b].op = "remove"}}
  /\ UNCHANGED <<row, omitted>>

Next ==
  \/ \E b \in Bots : Create(b) \/ Change(b) \/ Delete(b) \/ Take(b) \/ EndApply(b) \/ EndRemove(b)
  \/ \E c \in DOMAIN calls : GetBotSpec(c) \/ Send(c) \/ HandleCall(c)
  \/ Connect \/ ListNodeBotSpecs \/ HandleSync
  \/ \E i \in Conns : SweepList(i) \/ SweepWorkers(i) \/ SweepRemove(i)
  \/ Disconnect \/ AgentCrash

Spec == Init /\ [][Next]_vars

\* Goroutines go on, frames arrive while the connection lasts, the agent reconnects.
FairSpec ==
  /\ Spec
  /\ \A c \in Call : WF_vars(c \in DOMAIN calls /\ (GetBotSpec(c) \/ Send(c) \/ HandleCall(c)))
  /\ WF_vars(Connect) /\ WF_vars(ListNodeBotSpecs \/ HandleSync)
  /\ \A i \in Conns : WF_vars(SweepList(i) \/ SweepWorkers(i) \/ SweepRemove(i))
  /\ \A b \in Bots : WF_vars(Take(b)) /\ WF_vars(EndApply(b)) /\ WF_vars(EndRemove(b))

-----------------------------------------------------------------------------
(* Properties.                                                             *)

\* Every variable stays in its range; a worker that has anything to do is in the agent's
\* map, where the next request finds it.
TypeOK ==
  /\ row \in [Bots -> {"absent", "live", "deleted"}]
  /\ IsABag(calls) /\ DOMAIN calls \subseteq Call
  /\ connected \in BOOLEAN /\ orderly \in BOOLEAN
  /\ sync \in [at : {"none", "rows", "sent"}, specs : SUBSET Bots]
  /\ worker \in [Bots -> [in : BOOLEAN, pend : {"none", "apply", "remove"}, op : {"idle", "apply", "remove"}]]
  /\ \A b \in Bots : worker[b].in \/ worker[b] = NoWorker
  /\ disk \subseteq Bots /\ omitted \subseteq Bots
  /\ sweeps \in [Conns -> [at : {"off", "list", "workers", "remove"},
                           listed : SUBSET Bots, keep : SUBSET Bots, ids : SUBSET Bots]]
  /\ used \in [{"changes", "conns", "troubles"} -> Nat]

\* A bot's container and volume are removed only when the bot was deleted, or when a sync
\* did not list it though it was there; an invalid spec in a sync, a late frame or
\* another bot's removal never costs a bot its data.
RemovedOnPurpose ==
  [][\A b \in Bots : b \in disk /\ b \notin disk' => row[b] = "deleted" \/ b \in omitted]_vars

\* A sync, and every change after it that met no other on its way, leave the node with
\* the bots the panel has, whatever the agent was doing and had on its disk.
SyncHeals == <>[](orderly => disk = Live)
===============================================================================
