--------------------------- MODULE HubConnections ---------------------------
(***************************************************************************)
(* The connection between one node's agent and the panel: the agent's      *)
(* session loop (internal/agent/agent.go), the panel's handler of each      *)
(* connection (serveAgent and readLoop in internal/panel/hub.go), and what  *)
(* they leave in the hub's maps and in the node's rows.                     *)
(*                                                                          *)
(* Each dial gets a connection of its own and a handler of its own.  The    *)
(* handler of a connection that broke may live on for as long as it takes   *)
(* to notice, beside the handlers of later ones; frames already sent on a   *)
(* broken connection may still be read.  One bot stands for the bots of     *)
(* the node; its state is a version number.                                 *)
(***************************************************************************)
EXTENDS Naturals, Sequences

CONSTANTS MaxChanges,    \* how often the bot changes state
          MaxFaults,     \* how often a connection breaks by itself or a write fails, together
          MaxRotations,  \* how often the node's token is rotated
          MaxConns,      \* how many connections have a handler at a time
          QueueSize      \* outbound queue of a session (4096 in the code)

ASSUME BoundsAssumption ==
    /\ {MaxChanges, MaxFaults, MaxRotations} \subseteq Nat
    /\ {MaxConns, QueueSize} \subseteq Nat \ {0}

VARIABLES
    bot,      \* the state the bot's worker holds on the node
    agent,    \* the agent's session loop
    link,     \* each connection and the frames on it
    handler,  \* serveAgent for each connection
    hub,      \* the hub's maps, and what the database has of the bot
    rotation, \* the node's token, and the request that rotates it
    missed,   \* the bot's latest state is in no hello and in no queue
    astray,   \* the last write of the bot's row failed, or was by a handler not registered
    budget

vars == <<bot, agent, link, handler, hub, rotation, missed, astray, budget>>

Conns == 1 .. MaxConns
None == 0
NoEntry == MaxConns + 1
Versions == 0 .. MaxChanges
Unknown == MaxChanges + 1
Tokens == 0 .. MaxRotations
States == [kind : {"state"}, of : Versions]
Hellos == [kind : {"hello"}, of : Versions]
Stats == [kind |-> "stats"]
Ok == [kind |-> "ok"]

NoLink == [up |-> FALSE, frames |-> <<>>, asked |-> FALSE]
NoHandler == [step |-> "none", token |-> 0, hello |-> 0, request |-> "none", reply |-> 0,
              slipped |-> FALSE]

Frames == States \cup Hellos \cup {Stats, Ok}
AgentRec == [step : {"away", "dialing", "dialed", "built", "open"},
             conn : Conns \cup {None}, hello : Versions,
             queue : Seq(States \cup {Stats, Ok}), token : Tokens]
LinkRec == [up : BOOLEAN, frames : Seq(Frames), asked : BOOLEAN]
HandlerRec == [step : {"none", "lookup", "hello", "register", "report", "reading",
                       "replying", "left"},
               token : Tokens, hello : Versions, request : {"none", "sent", "ended"},
               reply : 0 .. 1, slipped : BOOLEAN]
HubRec == [conn : Conns \cup {None}, live : Conns \cup {None, NoEntry},
           observed : Versions \cup {Unknown}]

TypeOK ==
    /\ bot \in Versions
    /\ agent \in AgentRec /\ Len(agent.queue) <= QueueSize
    /\ link \in [Conns -> LinkRec]
    /\ handler \in [Conns -> HandlerRec]
    /\ hub \in HubRec
    /\ rotation \in [token : Tokens, step : {"idle", "drop"}]
    /\ missed \in BOOLEAN /\ astray \in BOOLEAN
    /\ budget \in [faults : 0 .. MaxFaults]

Init ==
    /\ bot = 0
    /\ agent = [step |-> "away", conn |-> None, hello |-> 0, queue |-> <<>>, token |-> 0]
    /\ link = [c \in Conns |-> NoLink]
    /\ handler = [c \in Conns |-> NoHandler]
    /\ hub = [conn |-> None, live |-> NoEntry, observed |-> Unknown]
    /\ rotation = [token |-> 0, step |-> "idle"]
    /\ missed = FALSE
    /\ astray = FALSE
    /\ budget = [faults |-> 0]

----------------------------------------------------------------------------
\* The agent.

Unused == {c \in Conns : handler[c].step = "none"}

\* The next round of Run's loop: session dials.
Dial ==
    /\ agent.step = "away"
    /\ \E c \in Unused :
        /\ \A d \in Unused : c <= d
        /\ agent' = [agent EXCEPT !.step = "dialing", !.conn = c]
        /\ link' = [link EXCEPT ![c] = [NoLink EXCEPT !.up = TRUE]]
        /\ handler' = [handler EXCEPT ![c] = [NoHandler EXCEPT !.step = "lookup",
                                                               !.token = agent.token]]
    /\ UNCHANGED <<bot, hub, rotation, missed, astray, budget>>

\* hello collects the state of every bot.
BuildHello ==
    /\ agent.step = "dialed"
    /\ agent' = [agent EXCEPT !.step = "built", !.hello = bot]
    /\ missed' = FALSE
    /\ UNCHANGED <<bot, link, handler, hub, rotation, astray, budget>>

\* The hello is written, and only then is the outbound queue set up.
OpenSession ==
    /\ agent.step = "built"
    /\ link[agent.conn].up
    /\ agent' = [agent EXCEPT !.step = "open", !.hello = 0]
    /\ UNCHANGED <<bot, handler, hub, rotation, missed, astray, budget>>
    /\ link' = [link EXCEPT ![agent.conn].frames = 
                    Append(@, [kind |-> "hello", of |-> agent.hello])]

HasRoom == Len(agent.queue) < QueueSize

\* The queue after sendID: without a session, or with a full queue, the frame
\* is dropped.
Sent(frame) ==
    IF agent.step = "open" /\ HasRoom
    THEN Append(agent.queue, frame)
    ELSE agent.queue

\* A worker changes the bot's state and sends it.
BotChanges ==
    /\ bot < MaxChanges
    /\ bot' = bot + 1
    /\ agent' = [agent EXCEPT !.queue = Sent([kind |-> "state", of |-> bot'])]
    /\ missed' = (agent'.queue = agent.queue)
    /\ UNCHANGED <<link, handler, hub, rotation, astray, budget>>

\* A round of statsLoop.  One frame of statistics is under way at a time.
SendStats ==
    /\ agent.step = "open"
    /\ \A i \in 1 .. Len(agent.queue) : agent.queue[i] # Stats
    /\ \A c \in Conns : \A i \in 1 .. Len(link[c].frames) : link[c].frames[i] # Stats
    /\ agent' = [agent EXCEPT !.queue = Sent(Stats)]
    /\ UNCHANGED <<bot, link, handler, hub, rotation, missed, astray, budget>>

\* The session's reader takes the panel's request and answers it.
HandleRequest ==
    /\ agent.step = "open"
    /\ link[agent.conn].asked
    /\ link' = [link EXCEPT ![agent.conn].asked = FALSE]
    /\ agent' = [agent EXCEPT !.queue = Sent(Ok)]
    /\ UNCHANGED <<bot, handler, hub, rotation, missed, astray, budget>>

\* The session's writer.  What it writes to a broken connection is lost.
Write ==
    /\ agent.step = "open"
    /\ agent.queue # <<>>
    /\ agent' = [agent EXCEPT !.queue = Tail(@)]
    /\ link' = [link EXCEPT ![agent.conn].frames =
                    IF link[agent.conn].up THEN Append(@, Head(agent.queue)) ELSE @]
    /\ UNCHANGED <<bot, handler, hub, rotation, missed, astray, budget>>

\* Read, write or ping failed, or the dial did: the session returns, and its
\* queue goes with it.
EndSession ==
    /\ agent.step # "away"
    /\ ~link[agent.conn].up
    /\ agent' = [agent EXCEPT !.step = "away", !.conn = None, !.hello = 0, !.queue = <<>>]
    /\ UNCHANGED <<bot, link, handler, hub, rotation, missed, astray, budget>>

\* The connection breaks, or a ping is not answered in time at either end.
Break(c) ==
    /\ link[c].up
    /\ budget.faults < MaxFaults
    /\ budget' = [budget EXCEPT !.faults = @ + 1]
    /\ link' = [link EXCEPT ![c].up = FALSE]
    /\ UNCHANGED <<bot, agent, handler, hub, rotation, missed, astray>>

----------------------------------------------------------------------------
\* The panel: serveAgent.

\* A write of the bot's row fails: the error is logged, and the row stays as it is.
Unwritten ==
    /\ budget.faults < MaxFaults
    /\ budget' = [budget EXCEPT !.faults = @ + 1]
    /\ astray' = TRUE
    /\ UNCHANGED hub

\* onBotState, for the handler of c.
SetBotObserved(c, version) ==
    \/ /\ hub' = [hub EXCEPT !.observed = version]
       /\ astray' = (hub.conn # c)
       /\ UNCHANGED budget
    \/ Unwritten

\* serveAgent returns: the connection is closed, frames not read are lost, and
\* a request that still waits ends with the handler's context.
Return(c) ==
    /\ handler' = [handler EXCEPT ![c] = NoHandler]
    /\ link' = [link EXCEPT ![c] = NoLink]

\* GetNodeByTokenHash, then the upgrade.
Lookup(c) ==
    /\ handler[c].step = "lookup"
    /\ IF handler[c].token = rotation.token
       THEN /\ handler' = [handler EXCEPT ![c].step = "hello"]
            /\ agent' = [agent EXCEPT !.step = IF agent.conn = c THEN "dialed" ELSE @]
            /\ UNCHANGED link
       ELSE Return(c) /\ UNCHANGED agent
    /\ UNCHANGED <<bot, hub, rotation, missed, astray, budget>>

\* The first frame, and UpdateNodeHello.
ReadHello(c) ==
    /\ handler[c].step = "hello"
    /\ link[c].frames # <<>>
    /\ link' = [link EXCEPT ![c].frames = Tail(@)]
    /\ handler' = [handler EXCEPT ![c].step = "register", 
                                 ![c].hello = Head(link[c].frames).of]
    /\ UNCHANGED <<bot, agent, hub, rotation, missed, astray, budget>>

\* The read of the first frame fails.
Reject(c) ==
    /\ handler[c].step = "hello"
    /\ ~link[c].up
    /\ Return(c)
    /\ UNCHANGED <<bot, agent, hub, rotation, missed, astray, budget>>

Closed(conns) == [c \in Conns |-> IF c \in conns THEN [link[c] EXCEPT !.up = FALSE] ELSE link[c]]

Bug_Replaced == {}
Replaced == {hub.conn}

\* Under the hub's lock: the connection replaces the registered one, which is
\* closed.
Register(c) ==
    /\ handler[c].step = "register"
    /\ link' = Closed(Replaced)
    /\ hub' = [hub EXCEPT !.conn = c, !.live = c]
    /\ handler' = [handler EXCEPT ![c].step = "report"]
    /\ UNCHANGED <<bot, agent, rotation, missed, astray, budget>>

\* onBotState for the bots of the hello; syncNode starts and sends its request.
Report(c) ==
    /\ handler[c].step = "report"
    /\ SetBotObserved(c, handler[c].hello)
    /\ handler' = [handler EXCEPT ![c].step = "reading", ![c].request = "sent", ![c].hello = 0]
    /\ link' = [link EXCEPT ![c].asked = TRUE]
    /\ UNCHANGED <<bot, agent, rotation, missed>>

\* One frame in readLoop.
ReadState(c) ==
    /\ Head(link[c].frames).kind = "state"
    /\ SetBotObserved(c, Head(link[c].frames).of)
    /\ UNCHANGED handler

\* onStats reads the node's entry and writes it back, be it there or not.
ReadStats(c) ==
    /\ Head(link[c].frames).kind = "stats"
    /\ hub' = [hub EXCEPT !.live = IF @ = NoEntry THEN None ELSE @]
    /\ astray' = (astray \/ hub.conn # c)
    /\ UNCHANGED <<handler, budget>>

\* reply looks the request up; without one the frame is ignored.
ReadReply(c) ==
    /\ Head(link[c].frames).kind = "ok"
    /\ handler' = [handler EXCEPT ![c].step =
                      IF handler[c].request = "sent" THEN "replying" ELSE @]
    /\ UNCHANGED <<hub, astray, budget>>

Read(c) ==
    /\ handler[c].step = "reading"
    /\ link[c].frames # <<>>
    /\ link' = [link EXCEPT ![c].frames = Tail(@)]
    /\ ReadState(c) \/ ReadStats(c) \/ ReadReply(c)
    /\ UNCHANGED <<bot, agent, rotation, missed>>

\* The channel of a request holds one reply.
Bug_ReplyFits(c) == handler[c].request = "sent"
ReplyFits(c) == handler[c].reply = 0

\* reply hands the frame to the request, which may have given up meanwhile.
Reply(c) ==
    /\ handler[c].step = "replying"
    /\ ReplyFits(c)
    /\ handler' = [handler EXCEPT ![c].step = "reading", ![c].reply = 1]
    /\ UNCHANGED <<bot, agent, link, hub, rotation, missed, astray, budget>>

\* The request has its reply, or it has waited long enough, or the connection
\* is gone.
RequestEnds(c) ==
    /\ handler[c].request = "sent"
    /\ handler' = [handler EXCEPT ![c].request = "ended"]
    /\ UNCHANGED <<bot, agent, link, hub, rotation, missed, astray, budget>>

Bug_StillRegistered(c) == TRUE
StillRegistered(c) == hub.conn = c

\* What the hub keeps of a connection goes with it.
Bug_Forgotten == [hub EXCEPT !.conn = None]
Forgotten == [hub EXCEPT !.conn = None, !.live = NoEntry]

\* readLoop fails.  Frames that were not read are lost.
Leave(c) ==
    /\ handler[c].step = "reading"
    /\ ~link[c].up
    /\ IF StillRegistered(c)
       THEN /\ hub' = Forgotten
            /\ handler' = [handler EXCEPT ![c] = [NoHandler EXCEPT !.step = "left"]]
            /\ link' = [link EXCEPT ![c] = NoLink]
       ELSE Return(c) /\ UNCHANGED hub
    /\ UNCHANGED <<bot, agent, rotation, missed, astray, budget>>

\* MarkNodeBotsUnknown, outside the lock.
MarkUnknown(c) ==
    /\ handler[c].step = "left"
    /\ handler' = [handler EXCEPT ![c] = NoHandler]
    /\ \/ /\ hub' = [hub EXCEPT !.observed = Unknown]
          /\ astray' = (astray \/ hub.conn # None)
          /\ UNCHANGED budget
       \/ Unwritten
    /\ UNCHANGED <<bot, agent, link, rotation, missed>>

----------------------------------------------------------------------------
\* rotateNodeToken.

\* The new token is written.
RotateToken ==
    /\ rotation.step = "idle"
    /\ rotation.token < MaxRotations
    /\ rotation' = [token |-> rotation.token + 1, step |-> "drop"]
    /\ UNCHANGED <<bot, agent, link, handler, hub, missed, astray, budget>>

Bug_Dropped == {}
Dropped == {hub.conn}

\* The registered connection is closed.  A handler that has looked the old
\* token up and is not registered yet is out of its sight.
DropAgent ==
    /\ rotation.step = "drop"
    /\ rotation' = [rotation EXCEPT !.step = "idle"]
    /\ link' = Closed(Dropped)
    /\ handler' = [c \in Conns |->
                      [handler[c] EXCEPT !.slipped = @ \/ handler[c].step \in {"hello", "register"}]]
    /\ UNCHANGED <<bot, agent, hub, missed, astray, budget>>

\* The operator gives the agent its new token and restarts it.
Reconfigure ==
    /\ agent.token # rotation.token
    /\ agent.step = "away"
    /\ agent' = [agent EXCEPT !.token = rotation.token]
    /\ UNCHANGED <<bot, link, handler, hub, rotation, missed, astray, budget>>

----------------------------------------------------------------------------
AgentNext == Dial \/ BuildHello \/ OpenSession \/ HandleRequest \/ Write \/ EndSession

HandlerNext(c) ==
    \/ Lookup(c) \/ ReadHello(c) \/ Reject(c) \/ Register(c) \/ Report(c) \/ Read(c)
    \/ Reply(c) \/ Leave(c) \/ MarkUnknown(c)

\* The next-state relation.
Next ==
    \/ AgentNext
    \/ BotChanges
    \/ SendStats
    \/ \E c \in Conns : HandlerNext(c) \/ RequestEnds(c) \/ Break(c)
    \/ RotateToken
    \/ DropAgent
    \/ Reconfigure

Spec == Init /\ [][Next]_vars

\* The goroutines run, a dial is repeated, and a request ends by its time-out.
\* Nothing makes a bot change, a connection break or a token rotate.
Fairness ==
    /\ WF_vars(Dial \/ BuildHello \/ OpenSession)
    /\ WF_vars(HandleRequest)
    /\ WF_vars(Write)
    /\ WF_vars(EndSession)
    /\ WF_vars(DropAgent)
    /\ \A c \in Conns : WF_vars(HandlerNext(c)) /\ WF_vars(RequestEnds(c))

FairSpec == Spec /\ Fairness

----------------------------------------------------------------------------
\* Nothing is on its way: all that was sent was read, all that broke was noticed.
Quiet ==
    /\ \/ agent.step = "away"
       \/ agent.step = "open" /\ link[agent.conn].up
    /\ agent.queue = <<>>
    /\ \A c \in Conns :
        \/ handler[c].step = "none" /\ ~link[c].up
        \/ handler[c].step = "reading" /\ link[c].up /\ link[c].frames = <<>>

\* A connection past its registration that is still up is the registered one:
\* the agent never talks to two handlers at a time, in whatever order they
\* registered (hub.go:213-219).
OneConnection ==
    \A c \in Conns :
        handler[c].step \in {"report", "reading", "replying"} /\ link[c].up => hub.conn = c

\* At rest and connected, the panel shows the state the bot is in
\* (onBotState), unless the latest change fell between hello and queue or on a
\* full queue, or the last write of the bot's row failed or was by a handler
\* that was not the registered one.
PanelShowsTheBot ==
    (Quiet /\ agent.step = "open" /\ ~missed /\ ~astray)
        => hub.conn = agent.conn /\ hub.observed = bot

\* At rest and disconnected, the panel has forgotten the agent: no connection,
\* no entry of statistics, the bot's state unknown (hub.go:230-242), but for
\* the same failed and late writes.
OfflineIsForgotten ==
    (Quiet /\ agent.step = "away" /\ ~astray)
        => hub = [conn |-> None, live |-> NoEntry, observed |-> Unknown]

\* Once a rotation is done no connection made with an old token stays, "the
\* agent is dropped" (nodes.go:204), but for one whose handler was between its
\* look-up and its registration when the rotation looked for it.
RotationDropsAgent ==
    rotation.step = "idle"
        => \A c \in Conns : hub.conn = c /\ link[c].up /\ ~handler[c].slipped
                               => handler[c].token = rotation.token

\* An agent with the right token ends up registered for good once connections
\* stop breaking: handlers that outlive their connection cost it a connection
\* at most, never the last one (agent.go:115-137, hub.go:213-236).
Reconnects ==
    <>[](agent.token = rotation.token)
        => <>[](agent.step = "open" /\ hub.conn = agent.conn)

\* The handler of a connection that broke ends, whatever replies and time-outs
\* of its request do (hub.go:119-131, 267-282).
HandlersEnd ==
    \A c \in Conns : ~link[c].up ~> handler[c].step = "none" \/ link[c].up
=============================================================================
