------------------------------ MODULE LogStreams ------------------------------
(***************************************************************************)
(* What browsers see of one bot's output.  The panel subscribes to it for  *)
(* the first browser that watches, again after each sync, and unsubscribes *)
(* for the last one (watch, subscribeLogs, syncNode and onLogs in          *)
(* internal/panel/hub.go); the agent answers with the recent lines and     *)
(* then sends batches of new ones (internal/agent/logs.go).                *)
(*                                                                         *)
(* Each request to the agent has a goroutine of its own in the panel, and  *)
(* each subscribe one in the agent, so they overtake each other; frames    *)
(* from the agent keep their order, but a reply is acted on by the         *)
(* goroutine that waits for it.  Appending or replacing the buffered lines *)
(* and publishing them to the browsers are steps of their own.             *)
(*                                                                         *)
(* Left out: the limits of buffers, tails and browsers' channels, requests *)
(* that time out on a live connection, output lost with a container that   *)
(* is replaced, system lines, a restart of the agent.                      *)
(*                                                                         *)
(* An operator named Bug_X is X with a bug; no definition uses it.         *)
(***************************************************************************)
EXTENDS Naturals, Sequences

CONSTANTS
  Browsers,
  MaxLines,     \* bound: lines the bot prints
  MaxMoves,     \* bound: browsers that come or go
  MaxConns      \* bound: connections of the agent, one after the other

ASSUME LogBounds == MaxLines \in Nat /\ MaxMoves \in Nat /\ MaxConns \in Nat \ {0}

VARIABLES
  printed,      \* the bot's output is the lines 1 .. printed
  \* the panel
  watchers,     \* browsers of the bot's botWatch
  logs,         \* its buffered lines
  view,         \* what each browser has been sent since its last logs.reset
  task,         \* goroutines that send a request, by its ID
  asked,        \* how many IDs are used
  reading,      \* lines onLogs has appended and not published yet
  \* the connection, 0 when there is none
  conn, conns, down, up,
  \* the agent
  cur,          \* the subscription in logHub.subs, by the ID of its request
  sub,          \* the goroutines of subscriptions
  out,          \* a batch flushLoop has taken and not sent yet
  \* observers and bounds
  orderly, moves

panel == <<watchers, logs, view, task, asked, reading>>
link == <<conn, conns, down, up>>
agent == <<cur, sub, out>>
bounds == <<printed, moves>>
vars == <<panel, link, agent, orderly, bounds>>

Lines(n) == [i \in 1 .. n |-> i]
IDs == 1 .. MaxMoves + MaxConns
NoTask == [type |-> "none", at |-> "done", conn |-> 0, tail |-> <<>>]
NoSub == [at |-> "none", cancelled |-> FALSE, since |-> 0, tail |-> <<>>, lines |-> <<>>]
NoBatch == [sub |-> 0, lines |-> <<>>]

Init ==
  /\ printed = 0 /\ watchers = {} /\ logs = <<>> /\ view = [b \in Browsers |-> <<>>]
  /\ task = [i \in IDs |-> NoTask] /\ asked = 0 /\ reading = <<>>
  /\ conn = 0 /\ conns = 0 /\ down = <<>> /\ up = <<>>
  /\ cur = 0 /\ sub = [i \in IDs |-> NoSub] /\ out = NoBatch
  /\ orderly = TRUE /\ moves = 0

\* Nothing the panel asked for is on its way.
NoTasks == \A i \in IDs : task[i].at = "done"
Unsettled(i) == sub[i].at \in {"new", "tail", "reply"}

Orderly(P) == orderly' = (orderly /\ P)

\* Bound: once something was overtaken, the bot prints no more and no browser comes or
\* goes until the next connection; what is under way goes on.
Active == orderly
Move == moves < MaxMoves /\ moves' = moves + 1

Go(type, at) ==
  /\ asked' = asked + 1
  /\ task' = [task EXCEPT ![asked'] = [NoTask EXCEPT !.type = type, !.at = at]]

BotPrints ==
  /\ Active /\ printed < MaxLines /\ printed' = printed + 1
  /\ UNCHANGED <<panel, link, agent, orderly, moves>>

-----------------------------------------------------------------------------
(* The panel.                                                              *)

\* watch: the buffered lines, and for the first browser a subscription.
Watch(b) ==
  /\ Active /\ b \notin watchers /\ Move
  /\ watchers' = watchers \cup {b} /\ view' = [view EXCEPT ![b] = logs]
  /\ IF watchers = {} THEN Go("subscribe", "conn") /\ Orderly(NoTasks /\ reading = <<>>)
     ELSE UNCHANGED <<task, asked>> /\ Orderly(reading = <<>>)
  /\ UNCHANGED <<logs, reading, link, agent, printed>>

\* Its cancel function.
Bug_Last(b) == FALSE
Last(b) == watchers = {b}

Leave(b) ==
  /\ Active /\ b \in watchers /\ Move
  /\ watchers' = watchers \ {b} /\ view' = [view EXCEPT ![b] = <<>>]
  /\ logs' = IF watchers = {b} THEN <<>> ELSE logs
  /\ IF Last(b) THEN Go("unsubscribe", "conn") /\ Orderly(NoTasks)
     ELSE UNCHANGED <<task, asked, orderly>>
  /\ UNCHANGED <<reading, link, agent, printed>>

\* h.conn, and the first half of request. A frame that cannot be sent is as good as lost.
Request(i) ==
  /\ task[i].at = "conn"
  /\ IF conn = 0 THEN task' = [task EXCEPT ![i] = NoTask] /\ UNCHANGED down
     ELSE /\ down' = Append(down, [type |-> task[i].type, id |-> i])
          /\ task' = [task EXCEPT ![i].at = "wait", ![i].conn = conn]
  /\ UNCHANGED <<watchers, logs, view, asked, reading, conn, conns, up, agent, orderly, bounds>>

\* syncNode, once the agent has taken the sync: bots that someone watches are
\* subscribed to again.
Bug_Resumed == FALSE
Resumed == watchers # {}

Resume(i) ==
  /\ task[i].at = "sync"
  /\ task' = [task EXCEPT ![i] = IF task[i].conn = conn /\ Resumed THEN [@ EXCEPT !.at = "conn"] ELSE NoTask]
  /\ UNCHANGED <<watchers, logs, view, asked, reading, link, agent, orderly, bounds>>

\* Or it has refused it, and that is all.
SyncFails(i) ==
  /\ task[i].at = "sync" /\ task' = [task EXCEPT ![i] = NoTask]
  /\ orderly' = FALSE
  /\ UNCHANGED <<watchers, logs, view, asked, reading, link, agent, bounds>>

\* The request's 30 seconds end; its connection is gone.
Timeout(i) ==
  /\ task[i].at = "wait" /\ task[i].conn # conn
  /\ task' = [task EXCEPT ![i] = NoTask]
  /\ UNCHANGED <<watchers, logs, view, asked, reading, link, agent, orderly, bounds>>

\* subscribeLogs, after the reply.
ReplaceLogs(i) ==
  /\ task[i].at = "set"
  /\ logs' = IF watchers = {} THEN logs ELSE task[i].tail
  /\ task' = [task EXCEPT ![i].at = "publish"]
  /\ UNCHANGED <<watchers, view, asked, reading, link, agent, orderly, bounds>>

PublishReset(i) ==
  /\ task[i].at = "publish"
  /\ view' = [b \in Browsers |-> IF b \in watchers THEN task[i].tail ELSE view[b]]
  /\ task' = [task EXCEPT ![i] = NoTask]
  /\ UNCHANGED <<watchers, logs, asked, reading, link, agent, orderly, bounds>>

\* readLoop: a reply is handed to its request, a batch goes through onLogs.
ReadReply ==
  /\ reading = <<>> /\ up # <<>> /\ up' = Tail(up)
  /\ Head(up).type = "reply"
  /\ LET i == Head(up).id IN
       task' = IF task[i].at # "wait" \/ task[i].conn # conn THEN task
               ELSE [task EXCEPT ![i] = IF @.type = "subscribe" THEN [@ EXCEPT !.at = "set", !.tail = Head(up).lines]
                                        ELSE NoTask]
  /\ UNCHANGED <<watchers, logs, view, asked, reading, conn, conns, down, agent, orderly, bounds>>

AppendLogs ==
  /\ reading = <<>> /\ up # <<>> /\ up' = Tail(up)
  /\ Head(up).type = "log"
  /\ IF watchers = {} THEN UNCHANGED <<logs, reading>>
     ELSE logs' = logs \o Head(up).lines /\ reading' = Head(up).lines
  /\ Orderly(\A i \in IDs : task[i].at \notin {"set", "publish"})
  /\ UNCHANGED <<watchers, view, task, asked, conn, conns, down, agent, bounds>>

PublishLogs ==
  /\ reading # <<>> /\ reading' = <<>>
  /\ view' = [b \in Browsers |-> IF b \in watchers THEN view[b] \o reading ELSE view[b]]
  /\ Orderly(\A i \in IDs : task[i].at \notin {"set", "publish"})
  /\ UNCHANGED <<watchers, logs, task, asked, link, agent, bounds>>

-----------------------------------------------------------------------------
(* The connection.                                                         *)

\* serveAgent; go syncNode.
Connect ==
  /\ conn = 0 /\ conns < MaxConns /\ conns' = conns + 1 /\ conn' = conns'
  /\ asked' = asked + 1
  /\ task' = [task EXCEPT ![asked'] = [type |-> "subscribe", at |-> "sync", conn |-> conn', tail |-> <<>>]]
  /\ orderly' = (NoTasks /\ reading = <<>> /\ cur = 0 /\ out.lines = <<>> /\ \A i \in IDs : ~Unsettled(i))
  /\ UNCHANGED <<watchers, logs, view, reading, down, up, agent, bounds>>

\* A subscription that follows the output ends; one that is being made goes on to its reply.
Cancelled(i) == IF sub[i].at = "follow" THEN NoSub ELSE [sub[i] EXCEPT !.cancelled = TRUE]

\* unsubscribe; closeAll.
Unsubscribe == cur' = 0 /\ sub' = [i \in IDs |-> IF i = cur THEN Cancelled(i) ELSE sub[i]]

Disconnect ==
  /\ conn # 0 /\ conns < MaxConns /\ conn' = 0
  /\ down' = <<>> /\ up' = <<>>
  /\ Unsubscribe
  /\ UNCHANGED <<panel, conns, out, orderly, bounds>>

-----------------------------------------------------------------------------
(* The agent.                                                              *)

Send(frame) == up' = IF conn = 0 THEN up ELSE Append(up, frame)

\* handle: go a.logs.subscribe.
HandleSubscribe ==
  /\ down # <<>> /\ down' = Tail(down) /\ Head(down).type = "subscribe"
  /\ sub' = [sub EXCEPT ![Head(down).id].at = "new"]
  /\ UNCHANGED <<panel, conn, conns, up, cur, out, orderly, bounds>>

HandleUnsubscribe ==
  /\ down # <<>> /\ down' = Tail(down) /\ Head(down).type = "unsubscribe"
  /\ Unsubscribe
  /\ Send([type |-> "reply", id |-> Head(down).id, lines |-> <<>>])
  /\ UNCHANGED <<panel, conn, conns, out, orderly, bounds>>

\* subscribe takes the place of the one before, perhaps after its connection is gone.
Register(i) ==
  /\ sub[i].at = "new" /\ cur' = i
  /\ sub' = [j \in IDs |-> CASE j = i -> [sub[i] EXCEPT !.at = "tail"]
                             [] j = cur -> Cancelled(j)
                             [] OTHER -> sub[j]]
  /\ Orderly(task[i].at = "wait" /\ task[i].conn = conn)
  /\ UNCHANGED <<panel, link, out, bounds>>

\* The recent lines; none (or not all, which is no different) if it was cancelled.
ReadTail(i) ==
  /\ sub[i].at = "tail"
  /\ \E n \in {0, printed} :
       /\ sub[i].cancelled \/ n = printed
       /\ sub' = [sub EXCEPT ![i].at = "reply", ![i].tail = Lines(n)]
  /\ UNCHANGED <<panel, link, cur, out, orderly, bounds>>

\* The time to follow the output from: the last line's, or now.
Bug_Since(i) == 0
Since(i) == IF sub[i].tail = <<>> THEN printed ELSE Len(sub[i].tail)

Reply(i) ==
  /\ sub[i].at = "reply"
  /\ Send([type |-> "reply", id |-> i, lines |-> sub[i].tail])
  /\ sub' = [sub EXCEPT ![i] = IF @.cancelled THEN NoSub ELSE [NoSub EXCEPT !.at = "follow", !.since = Since(i)]]
  /\ Orderly(sub[i].tail = <<>> => printed = 0)
  /\ UNCHANGED <<panel, conn, conns, down, cur, out, bounds>>

\* The next line, and add.
Follow(i) ==
  /\ sub[i].at = "follow" /\ sub[i].since < printed
  /\ sub' = [sub EXCEPT ![i].since = @ + 1, ![i].lines = IF cur = i THEN Append(@, sub[i].since + 1) ELSE @]
  /\ UNCHANGED <<panel, link, cur, out, orderly, bounds>>

\* flushLoop takes the lines under the lock and sends them without it.
TakeBatch ==
  /\ out.lines = <<>> /\ cur # 0 /\ sub[cur].lines # <<>>
  /\ out' = [sub |-> cur, lines |-> sub[cur].lines]
  /\ sub' = [sub EXCEPT ![cur].lines = <<>>]
  /\ UNCHANGED <<panel, link, cur, orderly, bounds>>

SendBatch ==
  /\ out.lines # <<>> /\ out' = NoBatch
  /\ Send([type |-> "log", id |-> 0, lines |-> out.lines])
  /\ Orderly(out.sub = cur)
  /\ UNCHANGED <<panel, conn, conns, down, cur, sub, bounds>>

-----------------------------------------------------------------------------
RequestStep(i) ==
  Request(i) \/ Resume(i) \/ Timeout(i) \/ ReplaceLogs(i) \/ PublishReset(i)
ReadLoop == ReadReply \/ AppendLogs \/ PublishLogs
Handle == HandleSubscribe \/ HandleUnsubscribe
Subscription(i) == Register(i) \/ ReadTail(i) \/ Reply(i) \/ Follow(i)
Flush == TakeBatch \/ SendBatch

System ==
  \/ Connect \/ ReadLoop \/ Handle \/ Flush
  \/ \E i \in IDs : RequestStep(i) \/ Subscription(i)

Next ==
  \/ System
  \/ BotPrints \/ Disconnect
  \/ \E b \in Browsers : Watch(b) \/ Leave(b)
  \/ \E i \in IDs : SyncFails(i)

Spec == Init /\ [][Next]_vars

\* Goroutines go on, the agent reconnects, frames arrive while the connection lasts. That
\* something of all this goes on is enough: each of it ends.
FairSpec == Spec /\ WF_vars(System)

-----------------------------------------------------------------------------
(* Properties.  They are about runs in which nothing overtook anything     *)
(* (`orderly'): requests to the agent did not overlap, no batch was sent   *)
(* of a subscription that had ended or read beside a reset, no browser     *)
(* came between the two halves of onLogs, no first line fell between an    *)
(* empty tail and its reply.                                               *)

\* Once subscribed, a browser is shown the bot's output from the first line on, each line
\* once and in its order, whoever else comes and goes, and again after each reconnect,
\* also when something overtook something on the connection before.
ShowsTheOutput ==
  orderly /\ conn # 0 /\ NoTasks => \A b \in watchers : view[b] = Lines(Len(view[b]))

\* It ends up with all of it, also if the connection was lost or there was none.
ShowsAll == <>[](orderly /\ conn # 0 => \A b \in watchers : view[b] = Lines(printed))

\* With nobody watching, the agent ends up without a subscription.
UnwatchedIsQuiet == <>[](orderly /\ watchers = {} => cur = 0)
===============================================================================
