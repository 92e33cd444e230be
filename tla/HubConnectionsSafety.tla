------------------------- MODULE HubConnectionsSafety -------------------------
(***************************************************************************)
(* HubConnections for every number of connections, faults, rotations and   *)
(* changes, and every size of the outbound queue: the types, that one live *)
(* connection is registered, that a rotation drops the agent, that an      *)
(* agent that is gone is forgotten, and that the panel shows the state of  *)
(* the bot of one that is connected.                                       *)
(*                                                                         *)
(* A handler may outlive its connection, so none of this follows from the  *)
(* hub's maps alone.  The invariant relates three parties: only the agent  *)
(* has a connection that is up, only a handler that is past its            *)
(* registration is registered, and what the map and the row hold without a *)
(* registered handler is what the last one that left has written, or noted *)
(* as not written.                                                         *)
(* Telling, the invariant of the last theorem, follows the bot's newest    *)
(* state through the queue, the connection and the handler to the row.     *)
(***************************************************************************)
EXTENDS HubConnections, TLAPS

\* Past its registration.
Past(c) == handler[c].step \in {"report", "reading", "replying"}

\* The agent has no other connection that is up than its session's.
AgentOK ==
  /\ agent.conn = None <=> agent.step = "away"
  /\ \A c \in Conns : link[c].up => agent.conn = c
  /\ \A c \in Conns : agent.conn = c /\ handler[c].step = "lookup" => agent.step = "dialing"

\* The first frame on a connection is the hello.
HelloOK ==
  \A c \in Conns :
    /\ handler[c].step \in {"lookup", "hello"} /\ link[c].frames # <<>> => Head(link[c].frames) \in Hellos
    /\ link[c].up /\ agent.step \in {"dialing", "dialed", "built"} => link[c].frames = <<>>
    /\ link[c].up /\ agent.step = "open" /\ handler[c].step \in {"lookup", "hello"} => link[c].frames # <<>>

RegisteredOK == \A c \in Conns : hub.conn = c => Past(c)

\* A handler that may still register has the present token, or has slipped.
TokensOK ==
  rotation.step = "idle"
    => \A c \in Conns : handler[c].step \in {"hello", "register"} /\ ~handler[c].slipped
                           => handler[c].token = rotation.token

ForgottenOK ==
  hub.conn = None /\ ~astray
    => /\ hub.live = NoEntry
       /\ (\A c \in Conns : handler[c].step # "left") => hub.observed = Unknown

Sound ==
  /\ TypeOK /\ AgentOK /\ HelloOK /\ RegisteredOK /\ TokensOK /\ ForgottenOK
  /\ OneConnection /\ RotationDropsAgent

LEMMA SoundTypes == Sound => TypeOK
  BY DEF Sound

-----------------------------------------------------------------------------
(* Sequences of frames.                                                    *)

LEMMA TailType == ASSUME NEW T, NEW s \in Seq(T), s # <<>>
                  PROVE  Tail(s) \in Seq(T) /\ Head(s) \in T /\ Len(Tail(s)) = Len(s) - 1
  OBVIOUS

LEMMA AppendType == ASSUME NEW T, NEW s \in Seq(T), NEW e \in T
                    PROVE  /\ Append(s, e) \in Seq(T) /\ Append(s, e) # <<>> /\ Len(Append(s, e)) = Len(s) + 1
                           /\ s # <<>> => Head(Append(s, e)) = Head(s)
                           /\ s = <<>> => Head(Append(s, e)) = e
  OBVIOUS

LEMMA EmptyType == ASSUME NEW T PROVE <<>> \in Seq(T) /\ Len(<<>>) = 0
  OBVIOUS

LEMMA NumbersOK ==
  /\ None \notin Conns /\ NoEntry \notin Conns /\ 0 \in Versions /\ 0 \in Tokens
  /\ Unknown \notin Versions /\ QueueSize \in Nat /\ NoEntry # None
  BY BoundsAssumption DEF Conns, None, NoEntry, Versions, Tokens, Unknown

LEMMA NothingOK ==
  /\ NoLink \in LinkRec /\ ~NoLink.up /\ NoLink.frames = <<>>
  /\ NoHandler \in HandlerRec /\ NoHandler.step = "none" /\ ~NoHandler.slipped
  BY NumbersOK DEF NoLink, LinkRec, NoHandler, HandlerRec

-----------------------------------------------------------------------------
(* The agent's actions.                                                    *)

LEMMA InitSound == Init => Sound
  <1> SUFFICES ASSUME Init PROVE Sound
    OBVIOUS
  <1>1. TypeOK
    <2>1. agent \in AgentRec /\ Len(agent.queue) <= QueueSize
      BY NumbersOK DEF Init, AgentRec
    <2>2. /\ hub \in HubRec /\ budget \in [faults : 0 .. MaxFaults]
          /\ rotation \in [token : Tokens, step : {"idle", "drop"}]
      BY NumbersOK, BoundsAssumption DEF Init, HubRec
    <2>3. link \in [Conns -> LinkRec] /\ handler \in [Conns -> HandlerRec]
      BY NothingOK DEF Init
    <2> QED  BY <2>1, <2>2, <2>3, NumbersOK DEF Init, TypeOK
  <1>2. \A c \in Conns : handler[c].step = "none" /\ ~link[c].up /\ hub.conn # c
    BY NumbersOK DEF Init, NoLink, NoHandler
  <1>3. hub.live = NoEntry /\ hub.observed = Unknown /\ agent.conn = None /\ agent.step = "away"
    BY DEF Init
  <1> QED  BY <1>1, <1>2, <1>3 DEF Sound, AgentOK, HelloOK, RegisteredOK, TokensOK, ForgottenOK, OneConnection,
              RotationDropsAgent

LEMMA DialSound == ASSUME Sound, Dial PROVE Sound'
  <1>1. PICK c \in Unused :
          /\ agent' = [agent EXCEPT !.step = "dialing", !.conn = c]
          /\ link' = [link EXCEPT ![c] = [NoLink EXCEPT !.up = TRUE]]
          /\ handler' = [handler EXCEPT ![c] = [NoHandler EXCEPT !.step = "lookup", !.token = agent.token]]
    BY DEF Dial
  <1>2. c \in Conns /\ handler[c].step = "none" /\ agent.step = "away" /\ TypeOK
    BY DEF Unused, Dial, Sound
  <1>3. UNCHANGED <<bot, hub, rotation, missed, astray, budget>>
    BY DEF Dial
  <1> DEFINE l == [NoLink EXCEPT !.up = TRUE]
             h == [NoHandler EXCEPT !.step = "lookup", !.token = agent.token]
  <1>4. l \in LinkRec /\ l.up /\ l.frames = <<>> /\ h \in HandlerRec /\ h.step = "lookup" /\ ~h.slipped
    <2>1. agent.token \in Tokens
      BY <1>2 DEF TypeOK, AgentRec
    <2> QED  BY <2>1, NothingOK DEF LinkRec, HandlerRec
  <1> HIDE DEF l, h
  <1>5. /\ \A d \in Conns : link'[d] = IF d = c THEN l ELSE link[d]
        /\ \A d \in Conns : handler'[d] = IF d = c THEN h ELSE handler[d]
    BY <1>1, <1>2 DEF TypeOK, l, h
  <1>6. TypeOK'
    BY <1>1, <1>2, <1>3, <1>4 DEF TypeOK, AgentRec, l, h
  <1>7. agent'.step = "dialing" /\ agent'.conn = c /\ \A d \in Conns : ~link[d].up
    BY <1>1, <1>2, NumbersOK DEF Sound, AgentOK, TypeOK, AgentRec
  <1>8. AgentOK'
    BY <1>2, <1>5, <1>7, NumbersOK DEF AgentOK
  <1>9. HelloOK'
    BY <1>4, <1>5, <1>7 DEF Sound, HelloOK
  <1>10. RegisteredOK' /\ hub.conn # c
    BY <1>2, <1>3, <1>5 DEF Sound, RegisteredOK, Past
  <1>11. TokensOK' /\ ForgottenOK'
    BY <1>2, <1>3, <1>4, <1>5 DEF Sound, TokensOK, ForgottenOK
  <1>12. OneConnection' /\ RotationDropsAgent'
    BY <1>3, <1>4, <1>5, <1>10 DEF Sound, OneConnection, RotationDropsAgent
  <1> QED  BY <1>6, <1>8, <1>9, <1>10, <1>11, <1>12 DEF Sound

\* The agent's step and queue change, and nothing the panel has.
LEMMA AgentMoves ==
  ASSUME Sound, UNCHANGED <<link, handler, hub, rotation, astray>>,
         agent'.conn = agent.conn,
         \/ agent'.step = agent.step
         \/ agent.step \in {"dialed", "built"} /\ agent'.step \in {"dialed", "built"},
         TypeOK'
  PROVE  Sound'
  <1>1. AgentOK'
    BY DEF Sound, AgentOK
  <1>2. HelloOK'
    BY DEF Sound, HelloOK
  <1>3. RegisteredOK' /\ TokensOK' /\ ForgottenOK' /\ OneConnection' /\ RotationDropsAgent'
    BY DEF Sound, RegisteredOK, TokensOK, ForgottenOK, OneConnection, RotationDropsAgent, Past
  <1> QED  BY <1>1, <1>2, <1>3 DEF Sound

LEMMA BuildHelloSound == ASSUME Sound, BuildHello PROVE Sound'
  <1>1. TypeOK' /\ agent'.conn = agent.conn /\ agent'.step = "built"
    BY DEF Sound, TypeOK, BuildHello, AgentRec
  <1> QED  BY <1>1, AgentMoves DEF BuildHello

\* sendID leaves the queue in its bounds.
LEMMA SentOK ==
  ASSUME Sound, NEW f \in States \cup {Stats, Ok}
  PROVE  Sent(f) \in Seq(States \cup {Stats, Ok}) /\ Len(Sent(f)) <= QueueSize
  <1>1. agent.queue \in Seq(States \cup {Stats, Ok}) /\ Len(agent.queue) <= QueueSize
    BY DEF Sound, TypeOK, AgentRec
  <1>2. CASE agent.step = "open" /\ HasRoom
    <2>1. Len(agent.queue) + 1 <= QueueSize
      BY <1>1, <1>2, NumbersOK DEF HasRoom
    <2> QED  BY <1>1, <1>2, <2>1, AppendType DEF Sent
  <1> QED  BY <1>1, <1>2 DEF Sent

LEMMA BotChangesSound == ASSUME Sound, BotChanges PROVE Sound'
  <1>1. bot' \in Versions
    BY BoundsAssumption DEF BotChanges, Sound, TypeOK, Versions
  <1>2. [kind |-> "state", of |-> bot'] \in States
    BY <1>1 DEF States
  <1> DEFINE s == Sent([kind |-> "state", of |-> bot'])
  <1>3. s \in Seq(States \cup {Stats, Ok}) /\ Len(s) <= QueueSize
    BY <1>2, SentOK
  <1>4. agent' = [agent EXCEPT !.queue = s]
    BY DEF BotChanges
  <1> HIDE DEF s
  <1>5. TypeOK' /\ agent'.conn = agent.conn /\ agent'.step = agent.step
    BY <1>1, <1>3, <1>4 DEF BotChanges, Sound, TypeOK, AgentRec
  <1> QED  BY <1>5, AgentMoves DEF BotChanges

LEMMA SendStatsSound == ASSUME Sound, SendStats PROVE Sound'
  <1> DEFINE s == Sent(Stats)
  <1>1. s \in Seq(States \cup {Stats, Ok}) /\ Len(s) <= QueueSize
    BY SentOK
  <1>2. agent' = [agent EXCEPT !.queue = s]
    BY DEF SendStats
  <1> HIDE DEF s
  <1>3. TypeOK' /\ agent'.conn = agent.conn /\ agent'.step = agent.step
    BY <1>1, <1>2 DEF SendStats, Sound, TypeOK, AgentRec
  <1> QED  BY <1>3, AgentMoves DEF SendStats

LEMMA ReconfigureSound == ASSUME Sound, Reconfigure PROVE Sound'
  <1>1. TypeOK' /\ agent'.conn = agent.conn /\ agent'.step = agent.step
    BY DEF Reconfigure, Sound, TypeOK, AgentRec
  <1> QED  BY <1>1, AgentMoves DEF Reconfigure

LEMMA OpenSessionSound == ASSUME Sound, OpenSession PROVE Sound'
  <1> DEFINE c == agent.conn
             l == [link[c] EXCEPT !.frames = Append(@, [kind |-> "hello", of |-> agent.hello])]
  <1>1. agent.step = "built" /\ link[c].up /\ c \in Conns /\ TypeOK
    BY DEF OpenSession, Sound, AgentOK, TypeOK, AgentRec
  <1>2. link[c] \in LinkRec /\ link[c].frames = <<>> /\ agent.hello \in Versions
    BY <1>1 DEF Sound, HelloOK, TypeOK, AgentRec
  <1>3. [kind |-> "hello", of |-> agent.hello] \in Hellos
    BY <1>2 DEF Hellos
  <1>4. l \in LinkRec /\ l.up /\ l.frames # <<>> /\ Head(l.frames) \in Hellos
    <2> DEFINE e == [kind |-> "hello", of |-> agent.hello]
    <2>1. link[c].frames \in Seq(Frames) /\ e \in Frames
      BY <1>2, <1>3 DEF LinkRec, Frames
    <2>2. Append(link[c].frames, e) \in Seq(Frames) /\ Append(link[c].frames, e) # <<>>
          /\ Head(Append(link[c].frames, e)) = e
      <3> HIDE DEF e
      <3> QED  BY <1>2, <2>1, AppendType
    <2>3. l = [link[c] EXCEPT !.frames = Append(link[c].frames, e)]
      OBVIOUS
    <2> HIDE DEF e, l
    <2> QED  BY <1>1, <1>2, <1>3, <2>2, <2>3 DEF LinkRec, e
  <1>5. link' = [link EXCEPT ![c] = l] /\ UNCHANGED <<bot, handler, hub, rotation, missed, astray, budget>>
    BY DEF OpenSession
  <1> HIDE DEF l
  <1>6. \A d \in Conns : link'[d] = IF d = c THEN l ELSE link[d]
    BY <1>1, <1>5 DEF TypeOK
  <1>7. agent'.step = "open" /\ agent'.conn = c /\ agent' \in AgentRec /\ Len(agent'.queue) <= QueueSize
    BY <1>1, NumbersOK DEF OpenSession, TypeOK, AgentRec
  <1>8. TypeOK'
    BY <1>1, <1>4, <1>5, <1>7 DEF TypeOK
  <1>9. AgentOK'
    BY <1>1, <1>5, <1>6, <1>7, NumbersOK DEF Sound, AgentOK
  <1>10. HelloOK'
    <2>1. \A d \in Conns : d # c => ~link[d].up
      BY <1>1 DEF Sound, AgentOK
    <2> QED  BY <1>1, <1>4, <1>5, <1>6, <1>7, <2>1 DEF Sound, HelloOK
  <1>11. \A d \in Conns : link'[d].up <=> link[d].up
    BY <1>1, <1>4, <1>6
  <1>12. RegisteredOK' /\ TokensOK' /\ ForgottenOK' /\ OneConnection' /\ RotationDropsAgent'
    BY <1>5, <1>11 DEF Sound, RegisteredOK, TokensOK, ForgottenOK, OneConnection, RotationDropsAgent, Past
  <1> QED  BY <1>8, <1>9, <1>10, <1>12 DEF Sound

\* Frames and requests on one link change, behind its first frame if it is a hello.
LEMMA LinkChanges ==
  ASSUME Sound, NEW c \in Conns, NEW l \in LinkRec, l.up = link[c].up,
         l.frames = <<>> <=> link[c].frames = <<>>, l.frames # <<>> => Head(l.frames) = Head(link[c].frames),
         link' = [link EXCEPT ![c] = l], TypeOK', agent'.conn = agent.conn, agent'.step = agent.step,
         UNCHANGED <<handler, hub, rotation, astray>>
  PROVE  Sound'
  <1>1. \A d \in Conns : link'[d] = IF d = c THEN l ELSE link[d]
    BY DEF Sound, TypeOK
  <1>2. \A d \in Conns : link'[d].up = link[d].up
    BY <1>1
  <1>3. AgentOK'
    BY <1>2 DEF Sound, AgentOK
  <1>4. HelloOK'
    BY <1>1 DEF Sound, HelloOK
  <1>5. RegisteredOK' /\ TokensOK' /\ ForgottenOK' /\ OneConnection' /\ RotationDropsAgent'
    BY <1>2 DEF Sound, RegisteredOK, TokensOK, ForgottenOK, OneConnection, RotationDropsAgent, Past
  <1> QED  BY <1>3, <1>4, <1>5 DEF Sound

LEMMA HandleRequestSound == ASSUME Sound, HandleRequest PROVE Sound'
  <1> DEFINE c == agent.conn
             l == [link[c] EXCEPT !.asked = FALSE]
             s == Sent(Ok)
  <1>1. c \in Conns /\ TypeOK
    BY DEF HandleRequest, Sound, AgentOK, TypeOK, AgentRec
  <1>2. link[c] \in LinkRec /\ l \in LinkRec /\ l.up = link[c].up /\ l.frames = link[c].frames
    BY <1>1 DEF TypeOK, LinkRec
  <1>3. s \in Seq(States \cup {Stats, Ok}) /\ Len(s) <= QueueSize
    BY SentOK
  <1>4. link' = [link EXCEPT ![c] = l] /\ agent' = [agent EXCEPT !.queue = s]
    BY DEF HandleRequest
  <1>6. UNCHANGED <<bot, handler, hub, rotation, missed, astray, budget>>
    BY DEF HandleRequest
  <1> HIDE DEF l, s
  <1>5. TypeOK' /\ agent'.conn = agent.conn /\ agent'.step = agent.step
    BY <1>1, <1>2, <1>3, <1>4, <1>6 DEF TypeOK, AgentRec
  <1> QED  BY <1>1, <1>2, <1>4, <1>5, <1>6, LinkChanges

LEMMA WriteSound == ASSUME Sound, Write PROVE Sound'
  <1> DEFINE c == agent.conn
             l == [link[c] EXCEPT !.frames = IF link[c].up THEN Append(@, Head(agent.queue)) ELSE @]
             s == Tail(agent.queue)
  <1>1. c \in Conns /\ TypeOK /\ agent.step = "open"
    BY DEF Write, Sound, AgentOK, TypeOK, AgentRec
  <1>2. link[c] \in LinkRec /\ link[c].frames \in Seq(Frames)
    BY <1>1 DEF TypeOK, LinkRec
  <1>3. /\ agent.queue \in Seq(States \cup {Stats, Ok}) /\ agent.queue # <<>>
        /\ Len(agent.queue) <= QueueSize /\ Len(agent.queue) \in Nat
    BY <1>1 DEF Write, TypeOK, AgentRec
  <1>4. s \in Seq(States \cup {Stats, Ok}) /\ Len(s) <= QueueSize /\ Head(agent.queue) \in Frames
    BY <1>3, TailType, NumbersOK DEF Frames
  <1>5. link' = [link EXCEPT ![c] = l] /\ agent' = [agent EXCEPT !.queue = s]
    BY DEF Write
  <1>6. l \in LinkRec /\ l.up = link[c].up
    BY <1>2, <1>4, AppendType DEF LinkRec
  <1>10. UNCHANGED <<bot, handler, hub, rotation, missed, astray, budget>>
    BY DEF Write
  <1>7. TypeOK' /\ agent'.conn = agent.conn /\ agent'.step = agent.step
    <2> HIDE DEF l, s
    <2> QED  BY <1>1, <1>4, <1>5, <1>6, <1>10 DEF TypeOK, AgentRec
  <1>8. CASE ~link[c].up \/ link[c].frames # <<>>
    <2>1. (l.frames = <<>> <=> link[c].frames = <<>>) /\ (l.frames # <<>> => Head(l.frames) = Head(link[c].frames))
      BY <1>2, <1>4, <1>8, AppendType DEF LinkRec
    <2> HIDE DEF l, s
    <2> QED  BY <1>1, <1>5, <1>6, <1>7, <1>10, <2>1, LinkChanges
  <1>9. CASE link[c].up /\ link[c].frames = <<>>
    <2>1. handler[c].step \notin {"lookup", "hello"}
      BY <1>1, <1>9 DEF Sound, HelloOK
    <2> HIDE DEF l, s
    <2>2. \A d \in Conns : link'[d] = IF d = c THEN l ELSE link[d]
      BY <1>1, <1>5 DEF TypeOK
    <2>3. \A d \in Conns : link'[d].up = link[d].up
      BY <1>6, <2>2
    <2>4. AgentOK'
      BY <1>7, <1>10, <2>3 DEF Sound, AgentOK
    <2>5. HelloOK'
      BY <1>1, <1>7, <1>10, <2>1, <2>2 DEF Sound, HelloOK
    <2>6. RegisteredOK' /\ TokensOK' /\ ForgottenOK' /\ OneConnection' /\ RotationDropsAgent'
      BY <1>10, <2>3 DEF Sound, RegisteredOK, TokensOK, ForgottenOK, OneConnection, RotationDropsAgent, Past
    <2> QED  BY <1>7, <2>4, <2>5, <2>6 DEF Sound
  <1> QED  BY <1>8, <1>9

\* The agent has no connection any more, and none is up.
LEMMA EndSessionSound == ASSUME Sound, EndSession PROVE Sound'
  <1>1. agent.conn \in Conns /\ ~link[agent.conn].up
    BY DEF EndSession, Sound, AgentOK, TypeOK, AgentRec
  <1>2. \A c \in Conns : ~link[c].up
    BY <1>1 DEF Sound, AgentOK
  <1>3. agent'.step = "away" /\ agent'.conn = None
    BY DEF EndSession, Sound, TypeOK, AgentRec
  <1>4. agent' \in AgentRec /\ Len(agent'.queue) <= QueueSize
    <2>1. agent' = [agent EXCEPT !.step = "away", !.conn = None, !.hello = 0, !.queue = <<>>]
      BY DEF EndSession
    <2>2. agent \in AgentRec
      BY DEF Sound, TypeOK
    <2>3. <<>> \in Seq(States \cup {Stats, Ok})
      BY EmptyType
    <2>4. agent' \in AgentRec /\ agent'.queue = <<>>
      BY <2>1, <2>2, <2>3, NumbersOK DEF AgentRec
    <2> QED  BY <2>4, NumbersOK, EmptyType
  <1>5. TypeOK'
    BY <1>4 DEF EndSession, Sound, TypeOK
  <1>6. AgentOK' /\ HelloOK'
    BY <1>2, <1>3, NumbersOK DEF EndSession, Sound, AgentOK, HelloOK
  <1>7. RegisteredOK' /\ TokensOK' /\ ForgottenOK' /\ OneConnection' /\ RotationDropsAgent'
    BY DEF EndSession, Sound, RegisteredOK, TokensOK, ForgottenOK, OneConnection, RotationDropsAgent, Past
  <1> QED  BY <1>5, <1>6, <1>7 DEF Sound

-----------------------------------------------------------------------------
(* The handlers' actions.                                                  *)

LEMMA HandlerTypes ==
  ASSUME Sound, NEW c \in Conns
  PROVE  handler[c] \in HandlerRec /\ link[c] \in LinkRec /\ link[c].frames \in Seq(Frames)
  BY DEF Sound, TypeOK, LinkRec

\* One handler moves on without registering or leaving, and keeps its
\* connection; frames go once the hello is read.
LEMMA HandlerMoves ==
  ASSUME Sound, NEW c \in Conns, NEW h \in HandlerRec, NEW l \in LinkRec,
         handler' = [handler EXCEPT ![c] = h], link' = [link EXCEPT ![c] = l],
         \/ h.step = handler[c].step
         \/ handler[c].step = "hello" /\ h.step = "register"
         \/ Past(c) /\ h.step \in {"report", "reading", "replying"},
         h.token = handler[c].token, h.slipped = handler[c].slipped,
         l.up = link[c].up, l.frames # <<>> => link[c].frames # <<>>,
         l.frames = link[c].frames \/ h.step \notin {"lookup", "hello"},
         hub'.conn = hub.conn, UNCHANGED <<agent, rotation>>, TypeOK', ForgottenOK'
  PROVE  Sound'
  <1>1. /\ \A d \in Conns : handler'[d] = IF d = c THEN h ELSE handler[d]
        /\ \A d \in Conns : link'[d] = IF d = c THEN l ELSE link[d]
    BY DEF Sound, TypeOK
  <1>2. \A d \in Conns : link'[d].up = link[d].up
    BY <1>1
  <1>3. AgentOK'
    BY <1>1, <1>2 DEF Sound, AgentOK, Past
  <1>4. HelloOK'
    <2> SUFFICES ASSUME NEW d \in Conns
                 PROVE  /\ handler'[d].step \in {"lookup", "hello"} /\ link'[d].frames # <<>>
                             => Head(link'[d].frames) \in Hellos
                        /\ link'[d].up /\ agent.step \in {"dialing", "dialed", "built"} => link'[d].frames = <<>>
                        /\ link'[d].up /\ agent.step = "open" /\ handler'[d].step \in {"lookup", "hello"}
                             => link'[d].frames # <<>>
      BY DEF HelloOK
    <2> QED  BY <1>1, <1>2 DEF Sound, HelloOK, Past
  <1>5. RegisteredOK' /\ OneConnection' /\ RotationDropsAgent'
    BY <1>1, <1>2 DEF Sound, RegisteredOK, OneConnection, RotationDropsAgent, Past
  <1>6. TokensOK'
    BY <1>1 DEF Sound, TokensOK, Past
  <1> QED  BY <1>3, <1>4, <1>5, <1>6 DEF Sound

\* One handler that is not the registered one ends, and its connection with it.
LEMMA ReturnSound ==
  ASSUME Sound, NEW c \in Conns, Return(c), hub.conn # c, handler[c].step # "left",
         UNCHANGED <<bot, agent, hub, rotation, missed, astray, budget>>
  PROVE  Sound'
  <1>1. /\ \A d \in Conns : handler'[d] = IF d = c THEN NoHandler ELSE handler[d]
        /\ \A d \in Conns : link'[d] = IF d = c THEN NoLink ELSE link[d]
    BY DEF Return, Sound, TypeOK
  <1>2. TypeOK'
    BY NothingOK DEF Return, Sound, TypeOK
  <1>3. AgentOK' /\ HelloOK'
    BY <1>1, NothingOK DEF Sound, AgentOK, HelloOK
  <1>4. RegisteredOK' /\ TokensOK'
    BY <1>1, NothingOK DEF Sound, RegisteredOK, TokensOK, Past
  <1>5. ForgottenOK' /\ OneConnection' /\ RotationDropsAgent'
    BY <1>1, NothingOK DEF Sound, ForgottenOK, OneConnection, RotationDropsAgent
  <1> QED  BY <1>2, <1>3, <1>4, <1>5 DEF Sound

LEMMA LookupSound == ASSUME Sound, NEW c \in Conns, Lookup(c) PROVE Sound'
  <1>1. handler[c].step = "lookup" /\ hub.conn # c
    BY DEF Lookup, Sound, RegisteredOK, Past
  <1>2. UNCHANGED <<bot, hub, rotation, missed, astray, budget>>
    BY DEF Lookup
  <1>3. CASE handler[c].token # rotation.token
    BY <1>1, <1>2, <1>3, ReturnSound DEF Lookup
  <1>4. CASE handler[c].token = rotation.token
    <2> DEFINE h == [handler[c] EXCEPT !.step = "hello"]
    <2>1. handler' = [handler EXCEPT ![c] = h] /\ UNCHANGED link
      BY <1>4 DEF Lookup
    <2>2. agent' = [agent EXCEPT !.step = IF agent.conn = c THEN "dialed" ELSE agent.step]
      BY <1>4 DEF Lookup
    <2>3. h \in HandlerRec /\ h.step = "hello" /\ h.token = rotation.token
      BY <1>4, HandlerTypes DEF HandlerRec
    <2> HIDE DEF h
    <2>4. \A d \in Conns : handler'[d] = IF d = c THEN h ELSE handler[d]
      BY <2>1 DEF Sound, TypeOK
    <2>5. agent \in AgentRec
      BY DEF Sound, TypeOK
    <2>6. /\ agent' \in AgentRec /\ agent'.conn = agent.conn /\ agent'.queue = agent.queue
          /\ agent'.step = IF agent.conn = c THEN "dialed" ELSE agent.step
      BY <2>2, <2>5 DEF AgentRec
    <2>7. TypeOK'
      BY <1>2, <2>1, <2>3, <2>6 DEF Sound, TypeOK
    <2>8. agent.conn = c => agent.step = "dialing"
      BY <1>1 DEF Sound, AgentOK
    <2>9. AgentOK'
      BY <1>1, <2>1, <2>3, <2>4, <2>6, <2>8, NumbersOK DEF Sound, AgentOK
    <2>10. HelloOK'
      <3>1. \A d \in Conns : link[d].up => agent.conn = d
        BY DEF Sound, AgentOK
      <3> QED  BY <1>1, <2>1, <2>3, <2>4, <2>6, <2>8, <3>1 DEF Sound, HelloOK
    <2>11. RegisteredOK' /\ OneConnection' /\ RotationDropsAgent'
      BY <1>1, <1>2, <2>1, <2>3, <2>4 DEF Sound, RegisteredOK, OneConnection, RotationDropsAgent, Past
    <2>12. TokensOK' /\ ForgottenOK'
      BY <1>1, <1>2, <2>3, <2>4 DEF Sound, TokensOK, ForgottenOK
    <2> QED  BY <2>7, <2>9, <2>10, <2>11, <2>12 DEF Sound
  <1> QED  BY <1>3, <1>4

LEMMA ReadHelloSound == ASSUME Sound, NEW c \in Conns, ReadHello(c) PROVE Sound'
  <1> DEFINE v == Head(link[c].frames).of
             h == [handler[c] EXCEPT !.step = "register", !.hello = v]
             l == [link[c] EXCEPT !.frames = Tail(link[c].frames)]
  <1>1. handler[c].step = "hello" /\ link[c].frames # <<>>
    BY DEF ReadHello
  <1>2. v \in Versions
    BY <1>1 DEF Sound, HelloOK, Hellos
  <1>3. Tail(link[c].frames) \in Seq(Frames)
    BY <1>1, HandlerTypes, TailType
  <1>4. handler' = [handler EXCEPT ![c] = h] /\ link' = [link EXCEPT ![c] = l]
    BY DEF ReadHello, Sound, TypeOK
  <1>5. UNCHANGED <<bot, agent, hub, rotation, missed, astray, budget>>
    BY DEF ReadHello
  <1>6. l \in LinkRec /\ l.up = link[c].up
    BY <1>3, HandlerTypes DEF LinkRec
  <1>7. h \in HandlerRec /\ h.step = "register" /\ h.token = handler[c].token /\ h.slipped = handler[c].slipped
    <2> HIDE DEF v
    <2> QED  BY <1>2, HandlerTypes DEF HandlerRec
  <1> HIDE DEF h, l
  <1>8. TypeOK'
    BY <1>4, <1>5, <1>6, <1>7 DEF Sound, TypeOK
  <1>9. ForgottenOK'
    <2>1. \A d \in Conns : handler'[d] = IF d = c THEN h ELSE handler[d]
      BY <1>4 DEF Sound, TypeOK
    <2> QED  BY <1>1, <1>5, <1>7, <2>1 DEF Sound, ForgottenOK
  <1> QED  BY <1>1, <1>4, <1>5, <1>6, <1>7, <1>8, <1>9, HandlerMoves

LEMMA RejectSound == ASSUME Sound, NEW c \in Conns, Reject(c) PROVE Sound'
  <1>1. hub.conn # c /\ handler[c].step # "left"
    BY DEF Reject, Sound, RegisteredOK, Past
  <1> QED  BY <1>1, ReturnSound DEF Reject

\* Closing connections keeps them apart from being up, and nothing else.
LEMMA ClosedOK ==
  ASSUME Sound, NEW cs, link' = Closed(cs)
  PROVE  /\ link' \in [Conns -> LinkRec]
         /\ \A d \in Conns : link'[d].up => link[d].up /\ d \notin cs
         /\ \A d \in Conns : link'[d].frames = link[d].frames
  <1>1. \A d \in Conns : link'[d] = IF d \in cs THEN [link[d] EXCEPT !.up = FALSE] ELSE link[d]
    BY DEF Closed
  <1>2. \A d \in Conns : link'[d] \in LinkRec /\ link'[d].frames = link[d].frames
    BY <1>1, HandlerTypes DEF LinkRec
  <1>3. link' \in [Conns -> LinkRec]
    <2>1. link' = [d \in Conns |-> link'[d]]
      BY DEF Closed
    <2> QED  BY <1>2, <2>1
  <1>4. ASSUME NEW d \in Conns, link'[d].up PROVE link[d].up /\ d \notin cs
    BY <1>1, <1>4, HandlerTypes DEF LinkRec
  <1> QED  BY <1>2, <1>3, <1>4

\* The connection that is up and registered is the new one: an older one that
\* was up was the registered one, and is closed.
LEMMA RegisterSound == ASSUME Sound, NEW c \in Conns, Register(c) PROVE Sound'
  <1> DEFINE h == [handler[c] EXCEPT !.step = "report"]
  <1>1. handler[c].step = "register" /\ handler' = [handler EXCEPT ![c] = h]
    BY DEF Register
  <1>2. h \in HandlerRec /\ h.step = "report" /\ h.token = handler[c].token /\ h.slipped = handler[c].slipped
    BY HandlerTypes DEF HandlerRec
  <1> HIDE DEF h
  <1>3. \A d \in Conns : handler'[d] = IF d = c THEN h ELSE handler[d]
    BY <1>1 DEF Sound, TypeOK
  <1>4. UNCHANGED <<bot, agent, rotation, missed, astray, budget>>
    BY DEF Register
  <1>5. /\ link' \in [Conns -> LinkRec]
        /\ \A d \in Conns : link'[d].up => link[d].up /\ d # hub.conn
        /\ \A d \in Conns : link'[d].frames = link[d].frames
    <2>1. link' = Closed(Replaced)
      BY DEF Register
    <2> QED  BY <2>1, ClosedOK DEF Replaced
  <1>6. hub' = [hub EXCEPT !.conn = c, !.live = c] /\ hub \in HubRec
    BY DEF Register, Sound, TypeOK
  <1>7. hub'.conn = c /\ hub' \in HubRec
    BY <1>6 DEF HubRec
  <1>8. TypeOK'
    BY <1>1, <1>2, <1>4, <1>5, <1>7 DEF Sound, TypeOK
  <1>9. AgentOK'
    BY <1>2, <1>3, <1>4, <1>5 DEF Sound, AgentOK
  <1>10. HelloOK'
    BY <1>2, <1>3, <1>4, <1>5 DEF Sound, HelloOK
  <1>11. RegisteredOK' /\ TokensOK'
    BY <1>2, <1>3, <1>4, <1>7 DEF Sound, RegisteredOK, TokensOK, Past
  <1>12. ForgottenOK'
    BY <1>7, NumbersOK DEF ForgottenOK
  <1>13. OneConnection'
    BY <1>3, <1>5, <1>7 DEF Sound, OneConnection
  <1>14. RotationDropsAgent'
    BY <1>1, <1>2, <1>3, <1>4, <1>7 DEF Sound, TokensOK, RotationDropsAgent
  <1> QED  BY <1>8, <1>9, <1>10, <1>11, <1>12, <1>13, <1>14 DEF Sound

\* A write of the bot's row that fails, or is not the registered handler's, is noted.
LEMMA ObservedOK ==
  ASSUME Sound, NEW c \in Conns, NEW v \in Versions, SetBotObserved(c, v)
  PROVE  /\ hub' \in HubRec /\ hub'.conn = hub.conn /\ astray' \in BOOLEAN
         /\ budget' \in [faults : 0 .. MaxFaults]
         /\ hub.conn # c => astray'
         /\ hub'.observed = v \/ (astray' /\ hub'.observed = hub.observed)
  <1>1. hub \in HubRec /\ budget \in [faults : 0 .. MaxFaults]
    BY DEF Sound, TypeOK
  <1>2. CASE hub' = [hub EXCEPT !.observed = v] /\ astray' = (hub.conn # c) /\ UNCHANGED budget
    BY <1>1, <1>2 DEF HubRec
  <1>3. CASE Unwritten
    <2>1. hub' = hub /\ astray' = TRUE
      BY <1>3 DEF Unwritten
    <2>2. budget' \in [faults : 0 .. MaxFaults]
      BY <1>1, <1>3, BoundsAssumption DEF Unwritten
    <2> QED  BY <1>1, <2>1, <2>2
  <1> QED  BY <1>2, <1>3 DEF SetBotObserved

\* A report without a registered handler counts as late.
LEMMA ReportSound == ASSUME Sound, NEW c \in Conns, Report(c) PROVE Sound'
  <1> DEFINE h == [handler[c] EXCEPT !.step = "reading", !.request = "sent", !.hello = 0]
             l == [link[c] EXCEPT !.asked = TRUE]
  <1>1. handler[c].step = "report" /\ handler' = [handler EXCEPT ![c] = h] /\ link' = [link EXCEPT ![c] = l]
    BY DEF Report, Sound, TypeOK
  <1>2. UNCHANGED <<bot, agent, rotation, missed>> /\ SetBotObserved(c, handler[c].hello)
    BY DEF Report
  <1>3. l \in LinkRec /\ l.up = link[c].up /\ l.frames = link[c].frames
    BY HandlerTypes DEF LinkRec
  <1>4. h \in HandlerRec /\ h.step = "reading" /\ h.token = handler[c].token /\ h.slipped = handler[c].slipped
    BY HandlerTypes, NumbersOK DEF HandlerRec
  <1> HIDE DEF h, l
  <1>5. /\ hub' \in HubRec /\ hub'.conn = hub.conn /\ astray' \in BOOLEAN
        /\ budget' \in [faults : 0 .. MaxFaults] /\ (hub.conn # c => astray')
    <2>1. handler[c].hello \in Versions
      BY HandlerTypes DEF HandlerRec
    <2> QED  BY <1>2, <2>1, ObservedOK
  <1>6. TypeOK'
    BY <1>1, <1>2, <1>3, <1>4, <1>5 DEF Sound, TypeOK
  <1>7. ForgottenOK'
    BY <1>2, <1>5, NumbersOK DEF ForgottenOK
  <1> QED  BY <1>1, <1>2, <1>3, <1>4, <1>5, <1>6, <1>7, HandlerMoves DEF Past

\* What a frame does to the handler, and to the hub: a write without a
\* registered handler counts as late.
LEMMA ReadEffects ==
  ASSUME Sound, NEW c \in Conns, Read(c)
  PROVE  /\ hub' \in HubRec /\ hub'.conn = hub.conn /\ astray' \in BOOLEAN
         /\ budget' \in [faults : 0 .. MaxFaults]
         /\ UNCHANGED <<hub, astray>> \/ (hub.conn # c => astray')
         /\ handler' = handler \/ handler' = [handler EXCEPT ![c] = [handler[c] EXCEPT !.step = "replying"]]
  <1>1. hub \in HubRec /\ astray \in BOOLEAN /\ budget \in [faults : 0 .. MaxFaults]
    BY DEF Sound, TypeOK
  <1>2. CASE ReadState(c)
    <2>1. link[c].frames # <<>>
      BY DEF Read
    <2>2. Head(link[c].frames) \in Frames /\ Head(link[c].frames).kind = "state"
      BY <1>2, <2>1, HandlerTypes, TailType DEF ReadState
    <2>3. Head(link[c].frames).of \in Versions
      BY <2>2 DEF Frames, States, Hellos, Stats, Ok
    <2> QED  BY <1>2, <2>3, ObservedOK DEF ReadState
  <1>3. CASE ReadStats(c)
    <2>1. hub' = [hub EXCEPT !.live = IF hub.live = NoEntry THEN None ELSE hub.live]
      BY <1>3 DEF ReadStats
    <2>2. hub' \in HubRec /\ hub'.conn = hub.conn
      BY <1>1, <2>1 DEF HubRec
    <2> QED  BY <1>1, <1>3, <2>2 DEF ReadStats
  <1>4. CASE ReadReply(c)
    <2>1. UNCHANGED <<hub, astray, budget>>
      BY <1>4 DEF ReadReply
    <2>2. handler \in [Conns -> HandlerRec]
      BY DEF Sound, TypeOK
    <2>3. CASE handler[c].request = "sent"
      <3>1. handler' = [handler EXCEPT ![c] = [handler[c] EXCEPT !.step = "replying"]]
        BY <1>4, <2>3 DEF ReadReply
      <3> QED  BY <1>1, <2>1, <3>1
    <2>4. CASE handler[c].request # "sent"
      <3>1. handler' = [handler EXCEPT ![c] = [handler[c] EXCEPT !.step = handler[c].step]]
        BY <1>4, <2>4 DEF ReadReply
      <3>2. [handler[c] EXCEPT !.step = handler[c].step] = handler[c]
        BY <2>2 DEF HandlerRec
      <3>3. handler' = handler
        BY <2>2, <3>1, <3>2
      <3> QED  BY <1>1, <2>1, <3>3
    <2> QED  BY <1>1, <2>1, <2>3, <2>4
  <1> QED  BY <1>2, <1>3, <1>4 DEF Read

LEMMA ReadSound == ASSUME Sound, NEW c \in Conns, Read(c) PROVE Sound'
  <1> DEFINE l == [link[c] EXCEPT !.frames = Tail(link[c].frames)]
  <1>1. handler[c].step = "reading" /\ link[c].frames # <<>> /\ link' = [link EXCEPT ![c] = l]
    BY DEF Read
  <1>2. UNCHANGED <<bot, agent, rotation, missed>>
    BY DEF Read
  <1>3. Tail(link[c].frames) \in Seq(Frames)
    BY <1>1, HandlerTypes, TailType
  <1>4. l \in LinkRec /\ l.up = link[c].up
    BY <1>3, HandlerTypes DEF LinkRec
  <1> HIDE DEF l
  <1>5. PICK h \in HandlerRec : /\ handler' = [handler EXCEPT ![c] = h] /\ h.step \in {"reading", "replying"}
                                /\ h.token = handler[c].token /\ h.slipped = handler[c].slipped
    <2>1. CASE handler' = handler
      <3>1. handler' = [handler EXCEPT ![c] = handler[c]]
        BY <2>1 DEF Sound, TypeOK
      <3> QED  BY <1>1, <3>1, HandlerTypes
    <2>2. CASE handler' = [handler EXCEPT ![c] = [handler[c] EXCEPT !.step = "replying"]]
      <3> DEFINE g == [handler[c] EXCEPT !.step = "replying"]
      <3>1. g \in HandlerRec /\ g.step = "replying" /\ g.token = handler[c].token /\ g.slipped = handler[c].slipped
        BY HandlerTypes DEF HandlerRec
      <3> HIDE DEF g
      <3>2. handler' = [handler EXCEPT ![c] = g]
        BY <2>2 DEF g
      <3> QED  BY <3>1, <3>2
    <2> QED  BY <2>1, <2>2, ReadEffects
  <1>6. TypeOK'
    BY <1>1, <1>2, <1>4, <1>5, ReadEffects DEF Sound, TypeOK
  <1>7. ForgottenOK'
    <2>1. CASE hub.conn # c /\ astray'
      BY <2>1 DEF ForgottenOK
    <2>2. CASE hub.conn = c
      BY <2>2, NumbersOK, ReadEffects DEF ForgottenOK
    <2>3. CASE UNCHANGED <<hub, astray>>
      <3>1. \A d \in Conns : handler'[d] = IF d = c THEN handler'[c] ELSE handler[d]
        BY <1>5 DEF Sound, TypeOK
      <3> QED  BY <1>1, <1>5, <2>3, <3>1 DEF Sound, ForgottenOK
    <2> QED  BY <2>1, <2>2, <2>3, ReadEffects
  <1> QED  BY <1>1, <1>2, <1>4, <1>5, <1>6, <1>7, ReadEffects, HandlerMoves DEF Past

\* A handler alone moves.
LEMMA HandlerAlone ==
  ASSUME Sound, NEW c \in Conns, NEW h \in HandlerRec, handler' = [handler EXCEPT ![c] = h],
         h.step = handler[c].step \/ (Past(c) /\ h.step = "reading"),
         h.token = handler[c].token, h.slipped = handler[c].slipped,
         UNCHANGED <<bot, agent, link, hub, rotation, missed, astray, budget>>
  PROVE  Sound'
  <1>1. link' = [link EXCEPT ![c] = link[c]] /\ link[c] \in LinkRec
    BY DEF Sound, TypeOK
  <1>2. TypeOK'
    BY DEF Sound, TypeOK
  <1>3. ForgottenOK'
    <2>1. \A d \in Conns : handler'[d] = IF d = c THEN h ELSE handler[d]
      BY DEF Sound, TypeOK
    <2> QED  BY <2>1 DEF Sound, ForgottenOK, Past
  <1> QED  BY <1>1, <1>2, <1>3, HandlerMoves

LEMMA ReplySound == ASSUME Sound, NEW c \in Conns, Reply(c) PROVE Sound'
  <1> DEFINE h == [handler[c] EXCEPT !.step = "reading", !.reply = 1]
  <1>1. h \in HandlerRec /\ h.step = "reading" /\ h.token = handler[c].token /\ h.slipped = handler[c].slipped
    <2>1. 1 \in 0 .. 1
      OBVIOUS
    <2> QED  BY <2>1, HandlerTypes DEF HandlerRec
  <1>2. handler' = [handler EXCEPT ![c] = h] /\ Past(c)
    BY DEF Reply, Sound, TypeOK, Past
  <1>3. UNCHANGED <<bot, agent, link, hub, rotation, missed, astray, budget>>
    BY DEF Reply
  <1> HIDE DEF h
  <1> QED  BY <1>1, <1>2, <1>3, HandlerAlone

LEMMA RequestEndsSound == ASSUME Sound, NEW c \in Conns, RequestEnds(c) PROVE Sound'
  <1> DEFINE h == [handler[c] EXCEPT !.request = "ended"]
  <1>1. /\ h \in HandlerRec /\ h.step = handler[c].step
        /\ h.token = handler[c].token /\ h.slipped = handler[c].slipped
    BY HandlerTypes DEF HandlerRec
  <1>2. handler' = [handler EXCEPT ![c] = h]
    BY DEF RequestEnds
  <1>3. UNCHANGED <<bot, agent, link, hub, rotation, missed, astray, budget>>
    BY DEF RequestEnds
  <1> HIDE DEF h
  <1>4. h.step = handler[c].step \/ (Past(c) /\ h.step = "reading")
    BY <1>1
  <1> QED  BY <1>1, <1>2, <1>3, <1>4, HandlerAlone, Zenon

\* The registered handler leaves nothing behind but the bots' states, which it
\* marks next.
LEMMA LeaveSound == ASSUME Sound, NEW c \in Conns, Leave(c) PROVE Sound'
  <1>1. handler[c].step = "reading"
    BY DEF Leave
  <1>2. UNCHANGED <<bot, agent, rotation, missed, astray, budget>>
    BY DEF Leave
  <1>3. CASE hub.conn # c
    BY <1>1, <1>2, <1>3, ReturnSound DEF Leave, StillRegistered
  <1>4. CASE hub.conn = c
    <2> DEFINE h == [NoHandler EXCEPT !.step = "left"]
    <2>1. handler' = [handler EXCEPT ![c] = h] /\ link' = [link EXCEPT ![c] = NoLink] /\ hub' = Forgotten
      BY <1>4 DEF Leave, StillRegistered
    <2>2. h \in HandlerRec /\ h.step = "left"
      BY NothingOK DEF HandlerRec
    <2>3. hub' \in HubRec /\ hub'.conn = None /\ hub'.live = NoEntry
      <3>1. hub' = [hub EXCEPT !.conn = None, !.live = NoEntry] /\ hub \in HubRec
        BY <2>1 DEF Forgotten, Sound, TypeOK
      <3> QED  BY <3>1 DEF HubRec
    <2> HIDE DEF h
    <2>4. /\ \A d \in Conns : handler'[d] = IF d = c THEN h ELSE handler[d]
          /\ \A d \in Conns : link'[d] = IF d = c THEN NoLink ELSE link[d]
      BY <2>1 DEF Sound, TypeOK
    <2>5. TypeOK'
      BY <1>2, <2>1, <2>2, <2>3, NothingOK DEF Sound, TypeOK
    <2>6. AgentOK' /\ HelloOK'
      BY <1>2, <2>2, <2>4, NothingOK DEF Sound, AgentOK, HelloOK
    <2>7. RegisteredOK' /\ RotationDropsAgent'
      BY <2>3, NumbersOK DEF RegisteredOK, RotationDropsAgent
    <2>8. TokensOK' /\ ForgottenOK'
      BY <1>2, <2>2, <2>3, <2>4 DEF Sound, TokensOK, ForgottenOK
    <2>9. OneConnection'
      BY <1>4, <2>2, <2>4 DEF Sound, OneConnection
    <2> QED  BY <2>5, <2>6, <2>7, <2>8, <2>9 DEF Sound
  <1> QED  BY <1>3, <1>4

LEMMA MarkUnknownSound == ASSUME Sound, NEW c \in Conns, MarkUnknown(c) PROVE Sound'
  <1>1. handler[c].step = "left" /\ handler' = [handler EXCEPT ![c] = NoHandler]
    BY DEF MarkUnknown
  <1>2. UNCHANGED <<bot, agent, link, rotation, missed>>
    BY DEF MarkUnknown
  <1>3. /\ hub' \in HubRec /\ hub'.conn = hub.conn /\ hub'.live = hub.live
        /\ astray' \in BOOLEAN /\ budget' \in [faults : 0 .. MaxFaults]
        /\ astray' \/ (~astray /\ hub'.observed = Unknown)
    <2>1. hub \in HubRec /\ astray \in BOOLEAN /\ budget \in [faults : 0 .. MaxFaults]
      BY DEF Sound, TypeOK
    <2>2. CASE /\ hub' = [hub EXCEPT !.observed = Unknown]
               /\ astray' = (astray \/ hub.conn # None) /\ UNCHANGED budget
      BY <2>1, <2>2 DEF HubRec
    <2>3. CASE Unwritten
      <3>1. hub' = hub /\ astray' = TRUE
        BY <2>3 DEF Unwritten
      <3>2. budget' \in [faults : 0 .. MaxFaults]
        BY <2>1, <2>3, BoundsAssumption DEF Unwritten
      <3> QED  BY <2>1, <3>1, <3>2
    <2> QED  BY <2>2, <2>3 DEF MarkUnknown
  <1>4. \A d \in Conns : handler'[d] = IF d = c THEN NoHandler ELSE handler[d]
    BY <1>1 DEF Sound, TypeOK
  <1>5. TypeOK'
    BY <1>1, <1>2, <1>3, NothingOK DEF Sound, TypeOK
  <1>6. AgentOK' /\ HelloOK'
    BY <1>2, <1>4, NothingOK DEF Sound, AgentOK, HelloOK
  <1>7. RegisteredOK' /\ RotationDropsAgent'
    BY <1>1, <1>2, <1>3, <1>4, NothingOK DEF Sound, RegisteredOK, RotationDropsAgent, Past
  <1>8. TokensOK' /\ ForgottenOK'
    BY <1>2, <1>3, <1>4, NothingOK DEF Sound, TokensOK, ForgottenOK
  <1>9. OneConnection'
    BY <1>2, <1>3, <1>4, NothingOK DEF Sound, OneConnection
  <1> QED  BY <1>5, <1>6, <1>7, <1>8, <1>9 DEF Sound

LEMMA BreakSound == ASSUME Sound, NEW c \in Conns, Break(c) PROVE Sound'
  <1> DEFINE l == [link[c] EXCEPT !.up = FALSE]
  <1>1. link' = [link EXCEPT ![c] = l] /\ UNCHANGED <<bot, agent, handler, hub, rotation, missed, astray>>
    BY DEF Break
  <1>2. l \in LinkRec /\ ~l.up /\ l.frames = link[c].frames
    BY HandlerTypes DEF LinkRec
  <1> HIDE DEF l
  <1>3. budget' \in [faults : 0 .. MaxFaults]
    BY BoundsAssumption DEF Break, Sound, TypeOK
  <1>4. \A d \in Conns : link'[d] = IF d = c THEN l ELSE link[d]
    BY <1>1 DEF Sound, TypeOK
  <1>5. TypeOK'
    BY <1>1, <1>2, <1>3 DEF Sound, TypeOK
  <1>6. AgentOK' /\ HelloOK'
    BY <1>1, <1>2, <1>4 DEF Sound, AgentOK, HelloOK
  <1>7. RegisteredOK' /\ TokensOK' /\ ForgottenOK'
    BY <1>1 DEF Sound, RegisteredOK, TokensOK, ForgottenOK, Past
  <1>8. OneConnection' /\ RotationDropsAgent'
    BY <1>1, <1>2, <1>4 DEF Sound, OneConnection, RotationDropsAgent
  <1> QED  BY <1>5, <1>6, <1>7, <1>8 DEF Sound

-----------------------------------------------------------------------------
(* The rotation of the token.                                              *)

LEMMA RotateTokenSound == ASSUME Sound, RotateToken PROVE Sound'
  <1>1. UNCHANGED <<bot, agent, link, handler, hub, missed, astray, budget>> /\ rotation'.step = "drop"
    BY DEF RotateToken
  <1>2. rotation' \in [token : Tokens, step : {"idle", "drop"}]
    BY BoundsAssumption DEF RotateToken, Sound, TypeOK, Tokens
  <1>3. TypeOK'
    BY <1>1, <1>2 DEF Sound, TypeOK
  <1>4. AgentOK' /\ HelloOK' /\ RegisteredOK' /\ ForgottenOK' /\ OneConnection'
    BY <1>1 DEF Sound, AgentOK, HelloOK, RegisteredOK, ForgottenOK, OneConnection, Past
  <1>5. TokensOK' /\ RotationDropsAgent'
    BY <1>1 DEF TokensOK, RotationDropsAgent
  <1> QED  BY <1>3, <1>4, <1>5 DEF Sound

\* The registered connection is closed, and who may still register has slipped.
LEMMA DropAgentSound == ASSUME Sound, DropAgent PROVE Sound'
  <1>1. UNCHANGED <<bot, agent, hub, missed, astray, budget>>
    BY DEF DropAgent
  <1>2. rotation' = [rotation EXCEPT !.step = "idle"] /\ rotation \in [token : Tokens, step : {"idle", "drop"}]
    BY DEF DropAgent, Sound, TypeOK
  <1>3. rotation' \in [token : Tokens, step : {"idle", "drop"}] /\ rotation'.token = rotation.token
    BY <1>2
  <1>4. /\ link' \in [Conns -> LinkRec]
        /\ \A d \in Conns : link'[d].up => link[d].up /\ d # hub.conn
        /\ \A d \in Conns : link'[d].frames = link[d].frames
    <2>1. link' = Closed(Dropped)
      BY DEF DropAgent
    <2> QED  BY <2>1, ClosedOK DEF Dropped
  <1>5. \A d \in Conns :
          handler'[d] = [handler[d] EXCEPT !.slipped = handler[d].slipped
                                                       \/ handler[d].step \in {"hello", "register"}]
    BY DEF DropAgent
  <1>6. \A d \in Conns : /\ handler'[d] \in HandlerRec /\ handler'[d].step = handler[d].step
                         /\ handler[d].step \in {"hello", "register"} => handler'[d].slipped
    <2> SUFFICES ASSUME NEW d \in Conns
                 PROVE  /\ handler'[d] \in HandlerRec /\ handler'[d].step = handler[d].step
                        /\ handler[d].step \in {"hello", "register"} => handler'[d].slipped
      OBVIOUS
    <2> DEFINE b == handler[d].slipped \/ handler[d].step \in {"hello", "register"}
    <2>1. b \in BOOLEAN /\ handler[d] \in HandlerRec /\ (handler[d].step \in {"hello", "register"} => b)
      BY HandlerTypes DEF HandlerRec
    <2>2. handler'[d] = [handler[d] EXCEPT !.slipped = b]
      BY <1>5
    <2> HIDE DEF b
    <2> QED  BY <2>1, <2>2 DEF HandlerRec
  <1>7. handler' \in [Conns -> HandlerRec]
    <2>1. handler' = [d \in Conns |-> handler'[d]]
      BY DEF DropAgent
    <2> QED  BY <1>6, <2>1
  <1>8. TypeOK'
    BY <1>1, <1>3, <1>4, <1>7 DEF Sound, TypeOK
  <1>9. AgentOK' /\ HelloOK'
    BY <1>1, <1>4, <1>6 DEF Sound, AgentOK, HelloOK
  <1>10. RegisteredOK' /\ TokensOK' /\ ForgottenOK'
    BY <1>1, <1>6 DEF Sound, RegisteredOK, TokensOK, ForgottenOK, Past
  <1>11. OneConnection' /\ RotationDropsAgent'
    BY <1>1, <1>4, <1>6 DEF Sound, OneConnection, RotationDropsAgent
  <1> QED  BY <1>8, <1>9, <1>10, <1>11 DEF Sound

-----------------------------------------------------------------------------
(* Together.                                                               *)

LEMMA NextSound == Sound /\ [Next]_vars => Sound'
  <1> SUFFICES ASSUME Sound, [Next]_vars PROVE Sound'
    OBVIOUS
  <1>1. CASE AgentNext
    BY <1>1, DialSound, BuildHelloSound, OpenSessionSound, HandleRequestSound, WriteSound, EndSessionSound
       DEF AgentNext
  <1>2. ASSUME NEW c \in Conns, HandlerNext(c) PROVE Sound'
    BY <1>2, LookupSound, ReadHelloSound, RejectSound, RegisterSound, ReportSound, ReadSound, ReplySound,
       LeaveSound, MarkUnknownSound DEF HandlerNext
  <1>3. ASSUME NEW c \in Conns, RequestEnds(c) \/ Break(c) PROVE Sound'
    BY <1>3, RequestEndsSound, BreakSound
  <1>4. CASE BotChanges \/ SendStats \/ RotateToken \/ DropAgent \/ Reconfigure
    BY <1>4, BotChangesSound, SendStatsSound, RotateTokenSound, DropAgentSound, ReconfigureSound
  <1>5. CASE UNCHANGED vars
    BY <1>5 DEF vars, Sound, TypeOK, AgentOK, HelloOK, RegisteredOK, TokensOK, ForgottenOK, OneConnection,
       RotationDropsAgent, Past
  <1> QED  BY <1>1, <1>2, <1>3, <1>4, <1>5 DEF Next

LEMMA AlwaysSound == Spec => []Sound
  BY InitSound, NextSound, PTL DEF Spec

\* At rest and away, no connection is up, so no handler is left and none is
\* registered.
LEMMA SoundForgets == Sound => OfflineIsForgotten
  <1> SUFFICES ASSUME Sound, Quiet, agent.step = "away", ~astray
               PROVE  hub = [conn |-> None, live |-> NoEntry, observed |-> Unknown]
    BY DEF OfflineIsForgotten
  <1>1. \A c \in Conns : ~link[c].up
    BY NumbersOK DEF Sound, AgentOK
  <1>2. \A c \in Conns : handler[c].step = "none"
    BY <1>1 DEF Quiet
  <1>3. hub \in HubRec
    BY DEF Sound, TypeOK
  <1>4. hub.conn = None
    BY <1>2, <1>3 DEF Sound, RegisteredOK, Past, HubRec
  <1>5. hub.live = NoEntry /\ hub.observed = Unknown
    BY <1>2, <1>4 DEF Sound, ForgottenOK
  <1> QED  BY <1>3, <1>4, <1>5 DEF HubRec

\* What session, serveAgent and rotateNodeToken touch keeps its types, and the
\* outbound queue its size (agent.go:194).
THEOREM TypeCorrect == Spec => []TypeOK
  BY AlwaysSound, SoundTypes, PTL

\* The agent never talks to two handlers past their registration, in whatever
\* order old and new ones register and leave (hub.go:213-219, 230-236).
THEOREM OneLiveConnection == Spec => []OneConnection
  <1>1. Sound => OneConnection
    BY DEF Sound
  <1> QED  BY <1>1, AlwaysSound, PTL

\* A rotation that is done leaves no connection with an old token registered,
\* but for one whose handler was between look-up and registration
\* (nodes.go:216-222).
THEOREM RotationIsFinal == Spec => []RotationDropsAgent
  <1>1. Sound => RotationDropsAgent
    BY DEF Sound
  <1> QED  BY <1>1, AlwaysSound, PTL

\* An agent that is gone is forgotten in the connections, the statistics and
\* the bot's row, but for a write that failed or was by a handler that
\* was replaced (hub.go:230-242).
THEOREM GoneIsForgotten == Spec => []OfflineIsForgotten
  BY AlwaysSound, SoundForgets, PTL

-----------------------------------------------------------------------------
(* The panel shows the bot's state.                                        *)
(*                                                                         *)
(* Newest follows a state from the bot's worker to the panel: the newest   *)
(* version in the agent's queue is the bot's, or there is none in it and   *)
(* the newest on the connection is, or there is none there either and the  *)
(* handler has it, and puts it in the row unless another one wrote last.   *)

Version(frame) == frame.kind \in {"hello", "state"}
Silent(s) == \A i \in 1 .. Len(s) : ~Version(s[i])
Ends(s, v) == \E i \in 1 .. Len(s) : Version(s[i]) /\ s[i].of = v /\ \A j \in i + 1 .. Len(s) : ~Version(s[j])

Has(c) ==
  \/ handler[c].step \in {"register", "report"} /\ handler[c].hello = bot
  \/ handler[c].step \in {"reading", "replying"} /\ (astray \/ hub.observed = bot)
OnLink(c) == Ends(link[c].frames, bot) \/ (Silent(link[c].frames) /\ Has(c))
Newest(c) == Ends(agent.queue, bot) \/ (Silent(agent.queue) /\ OnLink(c))

Telling ==
  /\ agent.step # "open" => agent.queue = <<>>
  /\ agent.step = "built" /\ ~missed => agent.hello = bot
  /\ agent.step = "open" /\ link[agent.conn].up /\ ~missed => Newest(agent.conn)

LEMMA Added == ASSUME NEW S, NEW s \in Seq(S), NEW x \in S
  PROVE /\ Append(s, x) \in Seq(S) /\ Len(Append(s, x)) = Len(s) + 1 /\ Len(s) \in Nat
        /\ \A i \in 1 .. Len(s) : Append(s, x)[i] = s[i]
        /\ Append(s, x)[Len(s) + 1] = x
  OBVIOUS

LEMMA Taken == ASSUME NEW S, NEW s \in Seq(S), s # <<>>
  PROVE /\ Len(s) \in Nat /\ Len(s) > 0 /\ Len(Tail(s)) = Len(s) - 1 /\ Head(s) = s[1]
        /\ \A i \in 1 .. Len(Tail(s)) : i + 1 \in 2 .. Len(s) /\ Tail(s)[i] = s[i + 1]
  OBVIOUS

LEMMA EndsAdded ==
  ASSUME NEW S, NEW s \in Seq(S), NEW x \in S, NEW v
  PROVE  /\ Version(x) => Ends(Append(s, x), x.of)
         /\ ~Version(x) /\ Ends(s, v) => Ends(Append(s, x), v)
         /\ ~Version(x) /\ Silent(s) => Silent(Append(s, x))
  <1> DEFINE t == Append(s, x)
             n == Len(s)
  <1>1. n \in Nat /\ Len(t) = n + 1 /\ (\A i \in 1 .. n : t[i] = s[i]) /\ t[n + 1] = x
    BY Added
  <1> HIDE DEF t, n
  <1>2. ASSUME Version(x) PROVE Ends(t, x.of)
    <2>1. n + 1 \in 1 .. Len(t) /\ \A j \in n + 1 + 1 .. Len(t) : FALSE
      BY <1>1
    <2> QED  BY <1>1, <1>2, <2>1 DEF Ends
  <1>3. ASSUME ~Version(x), Ends(s, v) PROVE Ends(t, v)
    <2>1. PICK i \in 1 .. n : Version(s[i]) /\ s[i].of = v /\ \A j \in i + 1 .. n : ~Version(s[j])
      BY <1>3 DEF Ends, n
    <2>2. i \in 1 .. Len(t) /\ t[i] = s[i]
      BY <1>1
    <2>3. ASSUME NEW j \in i + 1 .. Len(t) PROVE ~Version(t[j])
      <3>1. CASE j = n + 1
        BY <1>1, <1>3, <3>1
      <3>2. CASE j # n + 1
        <4>1. j \in i + 1 .. n /\ j \in 1 .. n
          BY <1>1, <2>3, <3>2
        <4> QED  BY <1>1, <2>1, <4>1
      <3> QED  BY <3>1, <3>2
    <2> QED  BY <2>1, <2>2, <2>3 DEF Ends
  <1>4. ASSUME ~Version(x), Silent(s) PROVE Silent(t)
    <2> SUFFICES ASSUME NEW i \in 1 .. Len(t) PROVE ~Version(t[i])
      BY DEF Silent
    <2>1. CASE i = n + 1
      BY <1>1, <1>4, <2>1
    <2>2. CASE i # n + 1
      <3>1. i \in 1 .. n
        BY <1>1, <2>2
      <3> QED  BY <1>1, <1>4, <3>1 DEF Silent, n
    <2> QED  BY <2>1, <2>2
  <1> QED  BY <1>2, <1>3, <1>4 DEF t

LEMMA EndsTail ==
  ASSUME NEW S, NEW s \in Seq(S), s # <<>>, NEW v
  PROVE  /\ Silent(s) => ~Version(Head(s)) /\ Silent(Tail(s))
         /\ Ends(s, v) => Ends(Tail(s), v) \/ (Version(Head(s)) /\ Head(s).of = v /\ Silent(Tail(s)))
  <1> DEFINE t == Tail(s)
             n == Len(s)
  <1>1. /\ n \in Nat /\ n > 0 /\ Len(t) = n - 1 /\ Head(s) = s[1]
        /\ \A i \in 1 .. Len(t) : i + 1 \in 2 .. n /\ t[i] = s[i + 1]
    BY Taken
  <1> HIDE DEF t, n
  <1>2. ASSUME Silent(s) PROVE ~Version(Head(s)) /\ Silent(t)
    <2>1. 1 \in 1 .. n /\ \A i \in 2 .. n : i \in 1 .. n
      BY <1>1
    <2> QED  BY <1>1, <1>2, <2>1 DEF Silent, n
  <1>3. ASSUME Ends(s, v) PROVE Ends(t, v) \/ (Version(Head(s)) /\ Head(s).of = v /\ Silent(t))
    <2>1. PICK i \in 1 .. n : Version(s[i]) /\ s[i].of = v /\ \A j \in i + 1 .. n : ~Version(s[j])
      BY <1>3 DEF Ends, n
    <2>2. CASE i = 1
      <3>1. \A k \in 1 .. Len(t) : ~Version(t[k])
        BY <1>1, <2>1, <2>2
      <3> QED  BY <1>1, <2>1, <2>2, <3>1 DEF Silent
    <2>3. CASE i # 1
      <3>1. i - 1 \in 1 .. Len(t) /\ t[i - 1] = s[i]
        <4>1. i - 1 \in 1 .. Len(t) /\ (i - 1) + 1 = i
          BY <1>1, <2>1, <2>3
        <4> QED  BY <1>1, <4>1
      <3>2. ASSUME NEW j \in i - 1 + 1 .. Len(t) PROVE ~Version(t[j])
        <4>1. j \in 1 .. Len(t) /\ j + 1 \in i + 1 .. n
          BY <1>1, <2>1
        <4> QED  BY <1>1, <2>1, <4>1
      <3> QED  BY <2>1, <3>1, <3>2 DEF Ends
    <2> QED  BY <2>2, <2>3
  <1> QED  BY <1>2, <1>3 DEF t

LEMMA NothingEnds == Silent(<<>>)
  BY DEF Silent

\* The agent stands still, and what its connection or its handler had is still there.
LEMMA StillTells ==
  ASSUME Sound, Telling, UNCHANGED <<bot, agent, missed>>,
         ASSUME NEW c \in Conns, c = agent.conn, agent.step = "open", link'[c].up
         PROVE  link[c].up /\ (OnLink(c) => OnLink(c)')
  PROVE  Telling'
  <1>1. agent.step = "open" => agent.conn \in Conns
    BY DEF Sound, AgentOK, TypeOK, AgentRec
  <1>2. ASSUME agent.step = "open", link'[agent.conn].up, ~missed PROVE Newest(agent.conn)'
    <2>1. PICK c \in Conns : c = agent.conn
      BY <1>1, <1>2
    <2>2. link[c].up /\ (OnLink(c) => OnLink(c)') /\ link'[c].up
      BY <1>2, <2>1
    <2>3. Newest(c)
      BY <1>2, <2>1, <2>2 DEF Telling
    <2>4. Newest(c)'
      BY <2>2, <2>3 DEF Newest
    <2> QED  BY <2>1, <2>4
  <1> QED  BY <1>2 DEF Telling

LEMMA SameFrames ==
  ASSUME NEW c, link'[c].frames = link[c].frames, bot' = bot, OnLink(c), Has(c) => Has(c)'
  PROVE  OnLink(c)'
  BY DEF OnLink

LEMMA SameHandler ==
  ASSUME NEW c, handler'[c].step = handler[c].step, handler'[c].hello = handler[c].hello, bot' = bot, Has(c),
         \/ handler[c].step \in {"reading", "replying"} => astray'
         \/ hub'.observed = hub.observed /\ (astray => astray')
  PROVE  Has(c)'
  BY DEF Has

LEMMA InitTells == Init => Telling
  BY DEF Init, Telling

-----------------------------------------------------------------------------
(* The agent sends.                                                        *)

\* Without an open session there is nothing in the queue.
LEMMA AwayTells ==
  ASSUME Telling, agent'.step # "open", agent'.queue = <<>>,
         agent'.step = "built" /\ ~missed' => agent'.hello = bot'
  PROVE  Telling'
  BY DEF Telling

LEMMA QueueTypes ==
  ASSUME Sound
  PROVE  /\ agent.queue \in Seq(States \cup {Stats, Ok})
         /\ agent.step = "open" => agent.conn \in Conns
  BY DEF Sound, TypeOK, AgentOK, AgentRec

LEMMA DialTells == ASSUME Sound, Telling, Dial PROVE Telling'
  <1>1. agent.queue = <<>> /\ agent \in AgentRec
    BY DEF Dial, Telling, Sound, TypeOK
  <1>2. agent'.step = "dialing" /\ agent'.queue = <<>>
    BY <1>1 DEF Dial, AgentRec
  <1> QED  BY <1>2, AwayTells

LEMMA BuildHelloTells == ASSUME Sound, Telling, BuildHello PROVE Telling'
  <1>1. agent.queue = <<>> /\ agent \in AgentRec
    BY DEF BuildHello, Telling, Sound, TypeOK
  <1>2. agent'.step = "built" /\ agent'.queue = <<>> /\ agent'.hello = bot'
    BY <1>1 DEF BuildHello, AgentRec
  <1> QED  BY <1>2, AwayTells

LEMMA EndSessionTells == ASSUME Sound, Telling, EndSession PROVE Telling'
  <1>1. agent'.step = "away" /\ agent'.queue = <<>>
    BY DEF EndSession, Sound, TypeOK, AgentRec
  <1> QED  BY <1>1, AwayTells

LEMMA ReconfigureTells == ASSUME Sound, Telling, Reconfigure PROVE Telling'
  <1>1. agent.queue = <<>> /\ agent \in AgentRec
    BY DEF Reconfigure, Telling, Sound, TypeOK
  <1>2. agent'.step = "away" /\ agent'.queue = <<>>
    BY <1>1 DEF Reconfigure, AgentRec
  <1> QED  BY <1>2, AwayTells

\* The hello is the last version on its connection.
LEMMA OpenSessionTells == ASSUME Sound, Telling, OpenSession PROVE Telling'
  <1> DEFINE e == [kind |-> "hello", of |-> agent.hello]
  <1>0. PICK c \in Conns : c = agent.conn
    BY DEF OpenSession, Sound, AgentOK, TypeOK, AgentRec
  <1>1. agent.step = "built" /\ link[c].up /\ agent.queue = <<>>
    BY <1>0 DEF OpenSession, Telling
  <1>2. link[c].frames = <<>> /\ agent.hello \in Versions
    BY <1>0, <1>1 DEF Sound, HelloOK, TypeOK, AgentRec
  <1>3. e \in Frames /\ Version(e) /\ e.of = agent.hello
    BY <1>2 DEF Frames, Hellos, Version
  <1>4. link'[c].frames = Append(<<>>, e)
    BY <1>0, <1>1, <1>2 DEF OpenSession, Sound, TypeOK
  <1>5. agent'.step = "open" /\ agent'.conn = c /\ agent'.queue = <<>>
    BY <1>0, <1>1 DEF OpenSession, Sound, TypeOK, AgentRec
  <1>6. Ends(link'[c].frames, agent.hello)
    <2>1. <<>> \in Seq(Frames)
      BY EmptyType
    <2> HIDE DEF e
    <2> QED  BY <1>3, <1>4, <2>1, EndsAdded
  <1>7. ~missed' => agent.hello = bot' /\ UNCHANGED bot
    BY <1>1 DEF OpenSession, Telling
  <1> HIDE DEF e
  <1>8. ~missed' => Newest(c)'
    BY <1>5, <1>6, <1>7, NothingEnds DEF Newest, OnLink
  <1>9. ~missed' => Newest(agent.conn)'
    BY <1>5, <1>8
  <1> QED  BY <1>5, <1>9 DEF Telling

LEMMA BotChangesTells == ASSUME Sound, Telling, BotChanges PROVE Telling'
  <1> DEFINE e == [kind |-> "state", of |-> bot']
  <1>1. bot' \in Versions
    BY BoundsAssumption DEF BotChanges, Sound, TypeOK, Versions
  <1>2. e \in States \cup {Stats, Ok} /\ Version(e) /\ e.of = bot'
    BY <1>1 DEF States, Version
  <1>3. /\ agent'.queue = Sent(e) /\ agent'.step = agent.step /\ agent'.conn = agent.conn
        /\ agent'.hello = agent.hello
    BY DEF BotChanges, Sound, TypeOK, AgentRec
  <1>4. missed' = (agent'.queue = agent.queue)
    BY DEF BotChanges
  <1> HIDE DEF e
  <1>5. CASE agent.step # "open"
    <2>1. agent'.queue = <<>> /\ missed'
      BY <1>3, <1>4, <1>5 DEF Sent, Telling
    <2> QED  BY <1>3, <1>5, <2>1, AwayTells
  <1>6. CASE agent.step = "open"
    <2>1. ~missed' => agent'.queue = Append(agent.queue, e)
      BY <1>3, <1>4 DEF Sent
    <2>2. ~missed' => Ends(agent'.queue, bot')
      BY <1>2, <2>1, QueueTypes, EndsAdded
    <2> QED  BY <1>3, <1>6, <2>2 DEF Telling, Newest
  <1> QED  BY <1>5, <1>6

\* A frame that is no version is behind the newest.
LEMMA OtherSentTells ==
  ASSUME Sound, Telling, NEW f \in {Stats, Ok}, agent.step = "open",
         agent' = [agent EXCEPT !.queue = Sent(f)], UNCHANGED <<bot, handler, hub, missed, astray>>,
         \A c \in Conns : link'[c].up = link[c].up /\ link'[c].frames = link[c].frames
  PROVE  Telling'
  <1>1. ~Version(f)
    BY DEF Version, Stats, Ok
  <1>2. agent'.queue = Sent(f) /\ agent'.step = "open" /\ agent'.conn = agent.conn
    BY DEF Sound, TypeOK, AgentRec
  <1>3. /\ Ends(agent.queue, bot) => Ends(agent'.queue, bot)
        /\ Silent(agent.queue) => Silent(agent'.queue)
    <2>1. CASE Sent(f) = agent.queue
      BY <1>2, <2>1
    <2>2. CASE Sent(f) = Append(agent.queue, f)
      <3>1. agent.queue \in Seq(States \cup {Stats, Ok}) /\ f \in States \cup {Stats, Ok}
        BY QueueTypes
      <3>2. /\ Ends(agent.queue, bot) => Ends(Append(agent.queue, f), bot)
            /\ Silent(agent.queue) => Silent(Append(agent.queue, f))
        BY <1>1, <3>1, EndsAdded
      <3>3. agent'.queue = Append(agent.queue, f)
        BY <1>2, <2>2
      <3> QED  BY <3>2, <3>3
    <2> QED  BY <2>1, <2>2 DEF Sent
  <1>4. ASSUME link'[agent'.conn].up, ~missed' PROVE Newest(agent.conn)'
    <2>1. PICK c \in Conns : c = agent.conn
      BY QueueTypes
    <2>2. Newest(c)
      BY <1>2, <1>4, <2>1 DEF Telling
    <2>3. OnLink(c) => OnLink(c)'
      BY DEF OnLink, Has
    <2>4. Newest(c)'
      BY <1>3, <2>2, <2>3 DEF Newest
    <2> QED  BY <1>2, <2>1, <2>4
  <1> QED  BY <1>2, <1>4 DEF Telling

LEMMA SendStatsTells == ASSUME Sound, Telling, SendStats PROVE Telling'
  BY OtherSentTells DEF SendStats

LEMMA HandleRequestTells == ASSUME Sound, Telling, HandleRequest PROVE Telling'
  <1>1. agent.conn \in Conns
    BY QueueTypes DEF HandleRequest
  <1>2. \A c \in Conns : link'[c].up = link[c].up /\ link'[c].frames = link[c].frames
    BY <1>1 DEF HandleRequest, Sound, TypeOK, LinkRec
  <1> QED  BY <1>2, OtherSentTells DEF HandleRequest

\* The newest version leaves the queue for the connection.
LEMMA WriteTells == ASSUME Sound, Telling, Write PROVE Telling'
  <1> DEFINE x == Head(agent.queue)
  <1>0. PICK c \in Conns : c = agent.conn
    BY QueueTypes DEF Write
  <1>1. agent.step = "open" /\ agent.queue # <<>> /\ agent.queue \in Seq(States \cup {Stats, Ok})
    BY QueueTypes DEF Write
  <1>2. link[c].frames \in Seq(Frames) /\ x \in Frames
    BY <1>1, HandlerTypes, TailType DEF Frames
  <1>3. agent'.queue = Tail(agent.queue) /\ agent'.step = "open" /\ agent'.conn = c
    BY <1>0, <1>1 DEF Write, Sound, TypeOK, AgentRec
  <1>4. link'[c].up = link[c].up /\ (link[c].up => link'[c].frames = Append(link[c].frames, x))
    BY <1>0, <1>1, HandlerTypes DEF Write, Sound, TypeOK, LinkRec
  <1>5. UNCHANGED <<bot, handler, hub, missed, astray>>
    BY DEF Write
  <1>6. ASSUME link[c].up, ~missed PROVE Newest(c)'
    <2>1. Newest(c)
      BY <1>0, <1>1, <1>6 DEF Telling
    <2>2. Has(c)' <=> Has(c)
      BY <1>5 DEF Has
    <2> DEFINE q == agent.queue
               f == link[c].frames
               g == link'[c].frames
    <2>3. /\ Silent(q) => ~Version(x) /\ Silent(Tail(q))
          /\ Ends(q, bot) => Ends(Tail(q), bot) \/ (Version(x) /\ x.of = bot /\ Silent(Tail(q)))
      BY <1>1, EndsTail
    <2>4. /\ Version(x) => Ends(g, x.of)
          /\ ~Version(x) /\ Ends(f, bot) => Ends(g, bot)
          /\ ~Version(x) /\ Silent(f) => Silent(g)
      <3> HIDE DEF x
      <3> QED  BY <1>2, <1>4, <1>6, EndsAdded
    <2> HIDE DEF x, q, f, g
    <2>5. Ends(q, bot) \/ (Silent(q) /\ (Ends(f, bot) \/ (Silent(f) /\ Has(c))))
      BY <2>1 DEF Newest, OnLink, q, f
    <2>6. Ends(Tail(q), bot) \/ (Silent(Tail(q)) /\ (Ends(g, bot) \/ (Silent(g) /\ Has(c))))
      BY <2>3, <2>4, <2>5
    <2> QED  BY <1>3, <1>5, <2>2, <2>6 DEF Newest, OnLink, q, g
  <1> HIDE DEF x
  <1>7. link'[agent'.conn].up /\ ~missed' => Newest(agent.conn)'
    BY <1>3, <1>4, <1>5, <1>6
  <1> QED  BY <1>3, <1>7 DEF Telling

-----------------------------------------------------------------------------
(* The panel reads.                                                        *)

\* A handler that ends has closed its connection.
LEMMA ReturnTells ==
  ASSUME Sound, Telling, NEW d \in Conns, Return(d), UNCHANGED <<bot, agent, missed, astray>>,
         hub'.observed = hub.observed
  PROVE  Telling'
  <1>1. ASSUME NEW c \in Conns, c = agent.conn, agent.step = "open", link'[c].up
        PROVE  link[c].up /\ (OnLink(c) => OnLink(c)')
    <2>1. c # d /\ link'[c] = link[c] /\ handler'[c] = handler[c]
      BY <1>1, NothingOK DEF Return, Sound, TypeOK
    <2> QED  BY <1>1, <2>1, SameFrames, SameHandler
  <1> QED  BY <1>1, StillTells

LEMMA LookupTells == ASSUME Sound, Telling, NEW d \in Conns, Lookup(d) PROVE Telling'
  <1>1. UNCHANGED <<bot, hub, rotation, missed, astray, budget>> /\ handler[d].step = "lookup"
    BY DEF Lookup
  <1>2. CASE handler[d].token # rotation.token
    BY <1>1, <1>2, ReturnTells DEF Lookup
  <1>3. CASE handler[d].token = rotation.token /\ agent.conn # d
    <2>1. agent' = agent /\ UNCHANGED link
      BY <1>3 DEF Lookup, Sound, TypeOK, AgentRec
    <2>2. ASSUME NEW c \in Conns, c = agent.conn, agent.step = "open", link'[c].up
          PROVE  link[c].up /\ (OnLink(c) => OnLink(c)')
      <3>1. handler'[c] = handler[c]
        BY <1>3, <2>2 DEF Lookup, Sound, TypeOK
      <3> QED  BY <1>1, <2>1, <2>2, <3>1, SameFrames, SameHandler
    <2> QED  BY <1>1, <2>1, <2>2, StillTells
  <1>4. CASE handler[d].token = rotation.token /\ agent.conn = d
    <2>1. agent.step = "dialing" /\ agent.queue = <<>>
      BY <1>1, <1>4 DEF Sound, AgentOK, Telling
    <2>2. agent'.step = "dialed" /\ agent'.queue = <<>>
      BY <1>4, <2>1 DEF Lookup, Sound, TypeOK, AgentRec
    <2> QED  BY <2>2, AwayTells
  <1> QED  BY <1>2, <1>3, <1>4

\* A frame is taken off a connection: the newest version is still on it, or it was that one.
LEMMA TakenOff ==
  ASSUME Sound, NEW c \in Conns, link[c].frames # <<>>, link' = [link EXCEPT ![c].frames = Tail(@)], bot' = bot,
         OnLink(c),
         Silent(link[c].frames) /\ ~Version(Head(link[c].frames)) /\ Has(c) => Has(c)',
         Version(Head(link[c].frames)) /\ Head(link[c].frames).of = bot => Has(c)'
  PROVE  OnLink(c)'
  <1>1. link'[c].frames = Tail(link[c].frames)
    BY HandlerTypes DEF Sound, TypeOK, LinkRec
  <1> DEFINE f == link[c].frames
  <1>2. /\ Silent(f) => ~Version(Head(f)) /\ Silent(Tail(f))
        /\ Ends(f, bot) => Ends(Tail(f), bot) \/ (Version(Head(f)) /\ Head(f).of = bot /\ Silent(Tail(f)))
    BY HandlerTypes, EndsTail
  <1>3. Ends(f, bot) \/ (Silent(f) /\ Has(c))
    BY DEF OnLink
  <1>4. Ends(Tail(f), bot) \/ (Silent(Tail(f)) /\ Has(c)')
    BY <1>2, <1>3
  <1> QED  BY <1>1, <1>4 DEF OnLink

LEMMA OtherLink ==
  ASSUME Sound, NEW c \in Conns, NEW d \in Conns, c # d, NEW l, link' = [link EXCEPT ![d] = l]
  PROVE  link'[c] = link[c]
  BY DEF Sound, TypeOK

LEMMA OtherHandler ==
  ASSUME Sound, NEW c \in Conns, NEW d \in Conns, c # d, NEW h, handler' = [handler EXCEPT ![d] = h]
  PROVE  handler'[c] = handler[c]
  BY DEF Sound, TypeOK

LEMMA ReadHelloTells == ASSUME Sound, Telling, NEW d \in Conns, ReadHello(d) PROVE Telling'
  <1>1. UNCHANGED <<bot, agent, hub, rotation, missed, astray, budget>>
    BY DEF ReadHello
  <1>2. ASSUME NEW c \in Conns, c = agent.conn, agent.step = "open", link'[c].up
        PROVE  link[c].up /\ (OnLink(c) => OnLink(c)')
    <2>1. CASE c # d
      <3>1. link'[c] = link[c] /\ handler'[c] = handler[c]
        BY <2>1 DEF ReadHello, Sound, TypeOK
      <3> QED  BY <1>1, <1>2, <3>1, SameFrames, SameHandler
    <2>2. CASE c = d
      <3>1. link[c].up /\ link[c].frames # <<>> /\ link' = [link EXCEPT ![c].frames = Tail(@)]
        BY <1>2, <2>2, HandlerTypes DEF ReadHello, Sound, TypeOK, LinkRec
      <3>2. handler'[c].step = "register" /\ handler'[c].hello = Head(link[c].frames).of
        BY <2>2, HandlerTypes DEF ReadHello, Sound, TypeOK, HandlerRec
      <3>3. ~Has(c)
        BY <2>2 DEF ReadHello, Has
      <3>4. Head(link[c].frames).of = bot => Has(c)'
        BY <1>1, <3>2 DEF Has
      <3> QED  BY <1>1, <3>1, <3>3, <3>4, TakenOff
    <2> QED  BY <2>1, <2>2
  <1> QED  BY <1>1, <1>2, StillTells

LEMMA RejectTells == ASSUME Sound, Telling, NEW d \in Conns, Reject(d) PROVE Telling'
  BY ReturnTells DEF Reject

LEMMA RegisterTells == ASSUME Sound, Telling, NEW d \in Conns, Register(d) PROVE Telling'
  <1>1. UNCHANGED <<bot, agent, rotation, missed, astray, budget>> /\ hub'.observed = hub.observed
    BY DEF Register, Sound, TypeOK, HubRec
  <1>2. /\ \A c \in Conns : link'[c].up => link[c].up
        /\ \A c \in Conns : link'[c].frames = link[c].frames
    <2>1. link' = Closed(Replaced)
      BY DEF Register
    <2> QED  BY <2>1, ClosedOK
  <1>3. ASSUME NEW c \in Conns PROVE Has(c) => Has(c)'
    <2>1. CASE c = d
      <3>1. handler[c].step = "register" /\ handler'[c].step = "report" /\ handler'[c].hello = handler[c].hello
        BY <2>1, HandlerTypes DEF Register, Sound, TypeOK, HandlerRec
      <3> QED  BY <1>1, <3>1 DEF Has
    <2>2. CASE c # d
      <3>1. handler'[c] = handler[c]
        BY <2>2 DEF Register, Sound, TypeOK
      <3> QED  BY <1>1, <3>1, SameHandler
    <2> QED  BY <2>1, <2>2
  <1>4. ASSUME NEW c \in Conns, c = agent.conn, agent.step = "open", link'[c].up
        PROVE  link[c].up /\ (OnLink(c) => OnLink(c)')
    BY <1>1, <1>2, <1>3, <1>4, SameFrames
  <1> QED  BY <1>1, <1>4, StillTells

\* Who writes beside a live registered handler races it.
LEMMA OthersRace ==
  ASSUME Sound, NEW c \in Conns, NEW d \in Conns, c # d, link[c].up, handler[c].step \in {"reading", "replying"}
  PROVE  hub.conn # d /\ hub.conn # None
  BY NumbersOK DEF Sound, OneConnection

LEMMA ReportTells == ASSUME Sound, Telling, NEW d \in Conns, Report(d) PROVE Telling'
  <1>1. /\ UNCHANGED <<bot, agent, rotation, missed>> /\ (hub.conn # d => astray')
        /\ hub'.observed = handler[d].hello \/ astray'
    <2>1. handler[d].hello \in Versions
      BY HandlerTypes DEF HandlerRec
    <2> QED  BY <2>1, ObservedOK DEF Report
  <1>2. ASSUME NEW c \in Conns, c = agent.conn, agent.step = "open", link'[c].up
        PROVE  link[c].up /\ (OnLink(c) => OnLink(c)')
    <2>1. link'[c].up = link[c].up /\ link'[c].frames = link[c].frames
      BY HandlerTypes DEF Report, Sound, TypeOK, LinkRec
    <2>2. CASE c = d
      <3>1. handler[c].step = "report" /\ handler'[c].step = "reading"
        BY <2>2, HandlerTypes DEF Report, Sound, TypeOK, HandlerRec
      <3>2. Has(c) => Has(c)'
        BY <1>1, <2>2, <3>1 DEF Has
      <3> QED  BY <1>1, <1>2, <2>1, <3>2, SameFrames
    <2>3. CASE c # d
      <3>1. handler'[c] = handler[c]
        BY <2>3 DEF Report, Sound, TypeOK
      <3>2. handler[c].step \in {"reading", "replying"} => astray'
        BY <1>1, <1>2, <2>1, <2>3, OthersRace
      <3>3. Has(c) => Has(c)'
        BY <1>1, <3>1, <3>2 DEF Has
      <3> QED  BY <1>1, <1>2, <2>1, <3>3, SameFrames
    <2> QED  BY <2>2, <2>3
  <1> QED  BY <1>1, <1>2, StillTells

\* What one frame does to the bot's row.
LEMMA ReadWrites ==
  ASSUME Sound, NEW d \in Conns, Read(d)
  PROVE  /\ ~Version(Head(link[d].frames)) => hub'.observed = hub.observed /\ (astray => astray')
         /\ Version(Head(link[d].frames)) => hub'.observed = Head(link[d].frames).of \/ astray'
         /\ (hub'.observed = hub.observed /\ (astray => astray')) \/ hub.conn = d \/ astray'
  <1>1. hub \in HubRec
    BY DEF Sound, TypeOK
  <1>2. CASE ReadState(d)
    <2>1. link[d].frames # <<>>
      BY DEF Read
    <2>2. Head(link[d].frames) \in Frames /\ Head(link[d].frames).kind = "state"
      BY <1>2, <2>1, HandlerTypes, TailType DEF ReadState
    <2>3. Head(link[d].frames).of \in Versions
      BY <2>2 DEF Frames, States, Hellos, Stats, Ok
    <2> QED  BY <1>2, <2>2, <2>3, ObservedOK DEF ReadState, Version
  <1>3. CASE ReadStats(d)
    BY <1>1, <1>3 DEF ReadStats, Version, HubRec
  <1>4. CASE ReadReply(d)
    BY <1>1, <1>4 DEF ReadReply, Version
  <1> QED  BY <1>2, <1>3, <1>4 DEF Read

LEMMA ReadTells == ASSUME Sound, Telling, NEW d \in Conns, Read(d) PROVE Telling'
  <1>1. UNCHANGED <<bot, agent, rotation, missed>> /\ handler[d].step = "reading"
    BY DEF Read
  <1>2. handler' = handler \/ handler' = [handler EXCEPT ![d] = [handler[d] EXCEPT !.step = "replying"]]
    BY ReadEffects
  <1>3. ASSUME NEW c \in Conns, c = agent.conn, agent.step = "open", link'[c].up
        PROVE  link[c].up /\ (OnLink(c) => OnLink(c)')
    <2>1. CASE c = d
      <3>1. link[c].up /\ link[c].frames # <<>> /\ link' = [link EXCEPT ![c].frames = Tail(@)]
        BY <1>3, <2>1, HandlerTypes DEF Read, Sound, TypeOK, LinkRec
      <3>2. handler'[c].step \in {"reading", "replying"}
        BY <1>1, <1>2, <2>1, HandlerTypes DEF Sound, TypeOK, HandlerRec
      <3>3. ~Version(Head(link[c].frames)) /\ Has(c) => Has(c)'
        BY <1>1, <2>1, <3>2, ReadWrites DEF Has
      <3>4. Version(Head(link[c].frames)) /\ Head(link[c].frames).of = bot => Has(c)'
        BY <1>1, <2>1, <3>2, ReadWrites DEF Has
      <3> QED  BY <1>1, <3>1, <3>3, <3>4, TakenOff
    <2>2. CASE c # d
      <3>1. link'[c] = link[c] /\ handler'[c] = handler[c]
        BY <1>2, <2>2 DEF Read, Sound, TypeOK
      <3>2. handler[c].step \in {"reading", "replying"}
              => (hub'.observed = hub.observed /\ (astray => astray')) \/ astray'
        BY <1>3, <2>2, <3>1, ReadWrites, OthersRace
      <3>3. Has(c) => Has(c)'
        BY <1>1, <3>1, <3>2 DEF Has
      <3> QED  BY <1>1, <1>3, <3>1, <3>3, SameFrames
    <2> QED  BY <2>1, <2>2
  <1> QED  BY <1>1, <1>3, StillTells

\* A handler alone moves, or its connection breaks.
LEMMA AloneTells ==
  ASSUME Sound, Telling, UNCHANGED <<bot, agent, hub, missed, astray>>,
         \A c \in Conns : /\ link'[c].up => link[c].up
                          /\ link'[c].frames = link[c].frames
                          /\ handler'[c].hello = handler[c].hello
                          /\ \/ handler'[c].step = handler[c].step
                             \/ handler[c].step = "replying" /\ handler'[c].step = "reading"
  PROVE  Telling'
  <1>1. ASSUME NEW c \in Conns, c = agent.conn, agent.step = "open", link'[c].up
        PROVE  link[c].up /\ (OnLink(c) => OnLink(c)')
    <2>1. Has(c) => Has(c)'
      BY DEF Has
    <2> QED  BY <1>1, <2>1, SameFrames
  <1> QED  BY <1>1, StillTells

LEMMA ReplyTells == ASSUME Sound, Telling, NEW d \in Conns, Reply(d) PROVE Telling'
  <1>1. \A c \in Conns : /\ handler'[c].hello = handler[c].hello
                         /\ \/ handler'[c].step = handler[c].step
                            \/ handler[c].step = "replying" /\ handler'[c].step = "reading"
    BY HandlerTypes DEF Reply, Sound, TypeOK, HandlerRec
  <1> QED  BY <1>1, AloneTells DEF Reply

LEMMA RequestEndsTells == ASSUME Sound, Telling, NEW d \in Conns, RequestEnds(d) PROVE Telling'
  <1>1. \A c \in Conns : handler'[c].hello = handler[c].hello /\ handler'[c].step = handler[c].step
    BY HandlerTypes DEF RequestEnds, Sound, TypeOK, HandlerRec
  <1> QED  BY <1>1, AloneTells DEF RequestEnds

LEMMA BreakTells == ASSUME Sound, Telling, NEW d \in Conns, Break(d) PROVE Telling'
  <1>1. \A c \in Conns : (link'[c].up => link[c].up) /\ link'[c].frames = link[c].frames
    BY HandlerTypes DEF Break, Sound, TypeOK, LinkRec
  <1> QED  BY <1>1, AloneTells DEF Break

LEMMA LeaveTells == ASSUME Sound, Telling, NEW d \in Conns, Leave(d) PROVE Telling'
  <1>1. UNCHANGED <<bot, agent, rotation, missed, astray, budget>>
    BY DEF Leave
  <1>2. CASE ~StillRegistered(d)
    BY <1>1, <1>2, ReturnTells DEF Leave
  <1>3. CASE StillRegistered(d)
    <2>1. hub'.observed = hub.observed
      BY <1>3 DEF Leave, Forgotten, Sound, TypeOK, HubRec
    <2>2. ASSUME NEW c \in Conns, c = agent.conn, agent.step = "open", link'[c].up
          PROVE  link[c].up /\ (OnLink(c) => OnLink(c)')
      <3>1. c # d /\ link'[c] = link[c] /\ handler'[c] = handler[c]
        BY <1>3, <2>2, NothingOK DEF Leave, Sound, TypeOK
      <3> QED  BY <1>1, <2>1, <2>2, <3>1, SameFrames, SameHandler
    <2> QED  BY <1>1, <2>2, StillTells
  <1> QED  BY <1>2, <1>3

LEMMA MarkUnknownTells == ASSUME Sound, Telling, NEW d \in Conns, MarkUnknown(d) PROVE Telling'
  <1>1. UNCHANGED <<bot, agent, link, rotation, missed>> /\ (hub.conn # None => astray')
    BY DEF MarkUnknown, Unwritten
  <1>2. ASSUME NEW c \in Conns, c = agent.conn, agent.step = "open", link'[c].up
        PROVE  link[c].up /\ (OnLink(c) => OnLink(c)')
    <2>1. CASE c = d
      <3>1. ~Has(c)
        BY <2>1 DEF MarkUnknown, Has
      <3>2. OnLink(c) => Ends(link[c].frames, bot)
        BY <3>1 DEF OnLink
      <3> QED  BY <1>1, <1>2, <3>2 DEF OnLink
    <2>2. CASE c # d
      <3>1. handler'[c] = handler[c]
        BY <2>2 DEF MarkUnknown, Sound, TypeOK
      <3>2. handler[c].step \in {"reading", "replying"} => astray'
        BY <1>1, <1>2, <2>2, OthersRace
      <3> QED  BY <1>1, <1>2, <3>1, <3>2, SameFrames DEF Has
    <2> QED  BY <2>1, <2>2
  <1> QED  BY <1>1, <1>2, StillTells

LEMMA DropAgentTells == ASSUME Sound, Telling, DropAgent PROVE Telling'
  <1>1. UNCHANGED <<bot, agent, hub, missed, astray, budget>>
    BY DEF DropAgent
  <1>2. \A c \in Conns : (link'[c].up => link[c].up) /\ link'[c].frames = link[c].frames
    <2>1. link' = Closed(Dropped)
      BY DEF DropAgent
    <2> QED  BY <2>1, ClosedOK
  <1>3. \A c \in Conns : handler'[c].hello = handler[c].hello /\ handler'[c].step = handler[c].step
    BY HandlerTypes DEF DropAgent, HandlerRec
  <1> QED  BY <1>1, <1>2, <1>3, AloneTells

LEMMA NextTells == Sound /\ Telling /\ [Next]_vars => Telling'
  <1> SUFFICES ASSUME Sound, Telling, [Next]_vars PROVE Telling'
    OBVIOUS
  <1>1. CASE AgentNext
    BY <1>1, DialTells, BuildHelloTells, OpenSessionTells, HandleRequestTells, WriteTells, EndSessionTells
       DEF AgentNext
  <1>2. ASSUME NEW c \in Conns, HandlerNext(c) PROVE Telling'
    BY <1>2, LookupTells, ReadHelloTells, RejectTells, RegisterTells, ReportTells, ReadTells, ReplyTells,
       LeaveTells, MarkUnknownTells DEF HandlerNext
  <1>3. ASSUME NEW c \in Conns, RequestEnds(c) \/ Break(c) PROVE Telling'
    BY <1>3, RequestEndsTells, BreakTells
  <1>4. CASE BotChanges \/ SendStats \/ DropAgent \/ Reconfigure
    BY <1>4, BotChangesTells, SendStatsTells, DropAgentTells, ReconfigureTells
  <1>5. CASE RotateToken \/ UNCHANGED vars
    <2>1. UNCHANGED <<bot, agent, link, handler, hub, missed, astray>>
      BY <1>5 DEF RotateToken, vars
    <2> QED  BY <2>1, AloneTells
  <1> QED  BY <1>1, <1>2, <1>3, <1>4, <1>5 DEF Next

\* At rest the queue and the connection are empty, so the version is in the row,
\* and the connection is the registered one.
LEMMA TellingShows == Sound /\ Telling => PanelShowsTheBot
  <1> SUFFICES ASSUME Sound, Telling, Quiet, agent.step = "open", ~missed, ~astray
               PROVE  hub.conn = agent.conn /\ hub.observed = bot
    BY DEF PanelShowsTheBot
  <1>1. PICK c \in Conns : c = agent.conn
    BY QueueTypes
  <1>2. link[c].up /\ agent.queue = <<>> /\ link[c].frames = <<>> /\ handler[c].step = "reading"
    BY <1>1 DEF Quiet
  <1>3. hub.conn = c
    BY <1>2 DEF Sound, OneConnection
  <1>4. \A v : ~Ends(<<>>, v)
    BY DEF Ends
  <1>5. Newest(c)
    BY <1>1, <1>2 DEF Telling
  <1>6. Has(c)
    BY <1>2, <1>4, <1>5 DEF Newest, OnLink
  <1> QED  BY <1>1, <1>2, <1>3, <1>6 DEF Has

\* At rest and connected, the panel shows the state the bot is in: a change
\* that was sent is not lost between the queue, the connection, the handler and
\* the row, whatever other handlers are still alive (hub.go:213-224, 284-288;
\* agent.go:194), but for one that fell between hello and queue or on a full
\* queue, or when the last write failed or was not by the registered handler.
THEOREM TheBotIsShown == Spec => []PanelShowsTheBot
  <1>1. Sound /\ Telling /\ [Next]_vars => Sound' /\ Telling'
    BY NextSound, NextTells
  <1> QED  BY <1>1, InitSound, InitTells, TellingShows, PTL DEF Spec
===============================================================================
