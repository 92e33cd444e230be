-------------------------- MODULE PanelDeploysSafety --------------------------
(***************************************************************************)
(* PanelDeploys for every number of deploys, events and connections: the   *)
(* types, that what is called live was installed, that at most one deploy  *)
(* is live, that on one connection the bot does not point at a failed      *)
(* deploy, that a reconnect heals and that a fetching deploy will end,     *)
(* each but for the failures PanelDeploys names.                           *)
(***************************************************************************)
EXTENDS PanelDeploys, SequenceTheorems, FiniteSetTheorems, TLAPS

Names == {0} \cup DOMAIN status

\* What the agent was sent names deploys that were started.
NamesOK ==
  /\ \A f \in Frame : down[f] > 0 \/ specs[f] > 0 => f.deploy \in Names
  /\ pend # NoSpec => pend.deploy \in Names
  /\ op # NoSpec => op.deploy \in DOMAIN status
  /\ installed \subseteq DOMAIN status
  /\ \A c \in Conn : handler[c].at # "idle" => handler[c].deploy \in DOMAIN status

\* Progress that says live was sent after the swap.
LiveSent == \A c \in Conn : \A i \in DOMAIN up[c] : up[c][i].phase = "live" => up[c][i].deploy \in installed

\* Of two live deploys one is its handler's, which has yet to supersede the others.
OneIsOwned ==
  ~left => \A d, e \in Live : d # e =>
    \E c \in Conn : handler[c].at = "supersede" /\ handler[c].deploy \in {d, e}

\* On the first connection no other handler runs.
OneHandler == conns <= 1 => \A c \in Conn : c # 1 => handler[c].at = "idle" /\ up[c] = <<>>

PointingOK ==
  conns <= 1 =>
    /\ handler[1].at \in {"idle", "supersede"} /\ ~kept /\ current # 0 => status[current] # "failed"
    /\ handler[1].at = "point" /\ handler[1].prev # 0 => status[handler[1].prev] # "failed"

Settled == IF deleted THEN disk = 0 /\ applied = NoSpec
           ELSE applied \in {Wanted, NoSpec} /\ (faults = 0 => applied = Wanted)

OnItsWay ==
  \/ syncDue
  \/ down[Wanted] > 0
  \/ pend = Wanted
  \/ pend = NoSpec /\ op = Wanted /\ ~cancelled
  \/ pend = NoSpec /\ op = NoSpec /\ Settled

Healing ==
  /\ conn = 0 => down = NoFrames
  /\ op = NoSpec => ~cancelled
  /\ calm /\ conn # 0 => OnItsWay /\ \A f \in Frame : down[f] > 0 \/ specs[f] > 0 => f = Wanted

Fetches(d) == op # NoSpec /\ op.deploy = d

\* After its i-th frame connection c says that d has ended.
Ends(d, i, c) == \E j \in DOMAIN up[c] : j > i /\ up[c][j].deploy = d /\ up[c][j].phase # "fetching"

\* What is being fetched, for the panel or in a frame, is, or has its end on its way.
Ending ==
  /\ \A d \in DOMAIN status : status[d] = "fetching" => Fetches(d) \/ d \in lost \/ \E c \in Conn : Ends(d, 0, c)
  /\ \A c \in Conn : \A i \in DOMAIN up[c] : up[c][i].phase = "fetching" =>
       LET d == up[c][i].deploy IN
         Fetches(d) \/ d \in lost \/ Ends(d, i, c) \/ \E b \in Conn \ {c} : Ends(d, 0, b)

-----------------------------------------------------------------------------
(* Rows, and sequences of frames.                                          *)

Progress(n) == [phase : {"fetching", "live", "failed"}, deploy : 1 .. n]

LEMMA Rows ==
  ASSUME TypeOK
  PROVE  /\ Len(status) \in Nat /\ DOMAIN status = 1 .. Len(status)
         /\ \A d \in DOMAIN status : status[d] \in DeployStatus
         /\ Live \subseteq DOMAIN status
         /\ up \in [Conn -> Seq(Progress(Len(status)))]
  <1>1. status \in Seq(DeployStatus)
    BY DEF TypeOK
  <1>2. Len(status) \in Nat /\ DOMAIN status = 1 .. Len(status)
    BY <1>1, LenProperties
  <1> QED  BY <1>1, <1>2, ElementOfSeq DEF TypeOK, Progress, Live

\* A sequence of rows is one if each row is.
LEMMA RowsType ==
  ASSUME NEW n \in Nat, NEW s, DOMAIN s = 1 .. n, s = [d \in DOMAIN s |-> s[d]],
         \A d \in 1 .. n : s[d] \in DeployStatus
  PROVE  s \in Seq(DeployStatus) /\ Len(s) = n
  <1>1. s \in [1 .. n -> DeployStatus]
    OBVIOUS
  <1>2. s \in Seq(DeployStatus)
    BY <1>1, SeqDef
  <1> QED  BY <1>2, LenProperties

\* LastLiveDeploy finds a live deploy if there is one.
LEMMA LastLive == ASSUME TypeOK PROVE LastLiveDeploy = 0 \/ LastLiveDeploy \in Live
  <1> SUFFICES ASSUME Live # {} PROVE Max(Live) \in Live
    BY DEF LastLiveDeploy
  <1> DEFINE n == Len(status)
             T == {d .. n : d \in Live}
             R == StrictSubsetOrdering(1 .. n)
  <1>1. n \in Nat /\ \A d \in Live : d \in 1 .. n
    BY Rows
  <1> HIDE DEF n
  <1>2. T \subseteq FiniteSubsetsOf(1 .. n) /\ T # {}
    <2>1. ASSUME NEW d \in Live PROVE d .. n \in FiniteSubsetsOf(1 .. n)
      <3>1. d .. n \in SUBSET (1 .. n)
        BY <1>1
      <3>2. IsFiniteSet(d .. n)
        BY <1>1, FS_Interval
      <3> QED  BY <3>1, <3>2 DEF FiniteSubsetsOf
    <2> QED  BY <2>1
  <1>3. PICK t \in T : \A u \in T : <<u, t>> \notin R
    <2>1. IsFiniteSet(1 .. n)
      BY <1>1, FS_Interval
    <2>2. IsWellFoundedOn(R, FiniteSubsetsOf(1 .. n))
      BY <2>1, FS_StrictSubsetOrderingWellFounded
    <2> HIDE DEF T, R
    <2> QED  BY <1>2, <2>2, WFMin
  <1>4. PICK d \in Live : t = d .. n
    BY <1>3
  <1>5. \A e \in Live : d >= e
    <2> SUFFICES ASSUME NEW e \in Live, d < e PROVE FALSE
      BY <1>1
    <2>1. e .. n \subseteq d .. n /\ d \in d .. n /\ d \notin e .. n
      BY <1>1
    <2>2. <<e .. n, d .. n>> \in R
      BY <1>1, <2>1 DEF StrictSubsetOrdering
    <2> QED  BY <1>3, <1>4, <2>2
  <1> QED  BY <1>4, <1>5 DEF Max

\* The type invariant in four parts.
RowTypes ==
  /\ status \in Seq(DeployStatus)
  /\ Len(status) + changes <= MaxOps
  /\ current \in {0} \cup DOMAIN status
  /\ desired \in {"running", "stopped"} /\ deleted \in BOOLEAN
  /\ pushes \in Nat /\ specs \in [Frame -> Nat] /\ syncDue \in BOOLEAN

LinkTypes ==
  /\ handler \in [Conn -> [at : {"idle", "supersede", "last", "point"},
                           deploy : {0} \cup DOMAIN status, prev : {0} \cup DOMAIN status]]
  /\ stopped \in SUBSET Conn
  /\ conns \in 0 .. MaxConns /\ conn \in {0, conns}
  /\ down \in [Frame -> Nat]
  /\ up \in [Conn -> Seq([phase : {"fetching", "live", "failed"}, deploy : DOMAIN status])]

AgentTypes ==
  /\ pend \in Frame \cup {NoSpec} /\ op \in BotSpec \cup {NoSpec}
  /\ cancelled \in BOOLEAN /\ disk \in {0} \cup DOMAIN status
  /\ applied \in BotSpec \cup {NoSpec} /\ installed \in SUBSET Deploy

WatchTypes ==
  /\ calm \in BOOLEAN /\ left \in BOOLEAN /\ kept \in BOOLEAN /\ lost \in SUBSET Deploy
  /\ changes \in 0 .. MaxOps /\ faults \in 0 .. MaxEvents /\ errors \in 0 .. MaxEvents

LEMMA TypeParts == TypeOK <=> RowTypes /\ LinkTypes /\ AgentTypes /\ WatchTypes
  BY Zenon DEF TypeOK, RowTypes, LinkTypes, AgentTypes, WatchTypes

LEMMA TypePartsNext == RowTypes' /\ LinkTypes' /\ AgentTypes' /\ WatchTypes' => TypeOK'
  BY Zenon DEF TypeOK, RowTypes, LinkTypes, AgentTypes, WatchTypes

\* Report adds one frame to the queue of the connection, or drops it.
LEMMA ReportOK ==
  ASSUME TypeOK, NEW phase \in {"fetching", "live", "failed"}, NEW d \in DOMAIN status, Report(phase, d)
  PROVE  /\ up' \in [Conn -> Seq(Progress(Len(status)))]
         /\ \A c \in Conn : c # conn => up'[c] = up[c]
         /\ lost' = (IF phase = "fetching" THEN lost \ {d} ELSE lost) \/ lost' = lost \cup {d}
         /\ phase = "fetching" => lost' = lost \ {d}
         /\ errors' = errors \/ (errors' = errors + 1 /\ faults + errors < MaxEvents)
         /\ \/ up' = up /\ (phase # "fetching" => d \in lost')
            \/ /\ conn \in Conn /\ Len(up'[conn]) = Len(up[conn]) + 1
               /\ \A i \in 1 .. Len(up[conn]) : up'[conn][i] = up[conn][i]
               /\ up'[conn][Len(up[conn]) + 1] = [phase |-> phase, deploy |-> d]
  <1> DEFINE m == [phase |-> phase, deploy |-> d]
             P == Progress(Len(status))
  <1>1. m \in P /\ up \in [Conn -> Seq(P)]
    BY Rows DEF Progress
  <1>2. /\ lost' = (IF phase = "fetching" THEN lost \ {d} ELSE lost) \/ lost' = lost \cup {d}
        /\ phase = "fetching" => lost' = lost \ {d}
        /\ errors' = errors \/ (errors' = errors + 1 /\ faults + errors < MaxEvents)
    BY DEF Report, Trouble, Within
  <1>3. CASE up' = up /\ (phase # "fetching" => d \in lost')
    BY <1>1, <1>2, <1>3 DEF P
  <1>4. CASE conn # 0 /\ up' = [up EXCEPT ![conn] = Append(up[conn], m)]
    <2>1. conn \in Conn
      BY <1>4, DeployBounds DEF TypeOK, Conn
    <2> HIDE DEF m, P
    <2>3. up'[conn] = Append(up[conn], m) /\ \A c \in Conn : c # conn => up'[c] = up[c]
      BY <1>1, <1>4, <2>1
    <2>4. up[conn] \in Seq(P)
      BY <1>1, <2>1
    <2>5. /\ Append(up[conn], m) \in Seq(P)
          /\ Len(Append(up[conn], m)) = Len(up[conn]) + 1
          /\ \A i \in 1 .. Len(up[conn]) : Append(up[conn], m)[i] = up[conn][i]
          /\ Append(up[conn], m)[Len(up[conn]) + 1] = m
      BY <1>1, <2>4, AppendProperties
    <2>6. up' \in [Conn -> Seq(P)]
      BY <1>1, <1>4, <2>5
    <2> QED  BY <1>2, <2>1, <2>3, <2>5, <2>6 DEF m, P
  <1>5. (up' = up /\ (phase # "fetching" => d \in lost')) \/ (conn # 0 /\ up' = [up EXCEPT ![conn] = Append(up[conn], m)])
    BY DEF Report
  <1> QED  BY <1>3, <1>4, <1>5

-----------------------------------------------------------------------------
(* The types, and that only deploys that were started are named.           *)

Base == TypeOK /\ NamesOK

LEMMA SpecsOK ==
  /\ \A f \in Frame : f.deploy \in {0} \cup Deploy
  /\ \A f \in BotSpec : f \in Frame /\ f # Remove /\ f # NoSpec
  /\ Remove \in Frame /\ Remove.deploy = 0 /\ NoSpec \notin Frame
  BY NoSpecAssumption DEF Frame, BotSpec, Remove

LEMMA BoundsOK ==
  ASSUME TypeOK
  PROVE  /\ conn \in Conn \cup {0} /\ conns \in Nat /\ (conn # 0 => conns = conn)
         /\ DOMAIN status \subseteq Deploy
         /\ MaxConns \in Nat /\ MaxOps \in Nat /\ MaxEvents \in Nat /\ 1 \in Conn
  <1>1. /\ Len(status) + changes <= MaxOps /\ DOMAIN status = 1 .. Len(status)
        /\ Len(status) \in Nat /\ changes \in Nat
    BY Rows, DeployBounds DEF TypeOK
  <1> QED  BY <1>1, DeployBounds DEF TypeOK, Conn, Deploy

LEMMA WantedOK == ASSUME TypeOK PROVE Wanted \in Frame /\ Wanted.deploy \in Names /\ (Wanted = Remove <=> deleted)
  <1>1. current \in Names /\ desired \in {"running", "stopped"} /\ deleted \in BOOLEAN
    BY DEF TypeOK, Names
  <1>2. current \in {0} \cup Deploy
    BY <1>1, BoundsOK DEF Names
  <1>3. [deploy |-> current, desired |-> desired] \in BotSpec
    BY <1>1, <1>2 DEF BotSpec
  <1>4. CASE deleted
    BY <1>4, SpecsOK DEF Wanted, Names
  <1>5. CASE ~deleted
    <2>1. Wanted = [deploy |-> current, desired |-> desired]
      BY <1>5 DEF Wanted
    <2>2. Wanted \in BotSpec /\ Wanted.deploy = current
      BY <1>3, <2>1
    <2> QED  BY <1>1, <1>5, <2>2, SpecsOK
  <1> QED  BY <1>4, <1>5

\* One frame more on its way, or none.
LEMMA TransmitOK ==
  ASSUME TypeOK, NEW f \in Frame, Transmit(f)
  PROVE  /\ down' \in [Frame -> Nat]
         /\ \A g \in Frame : down'[g] > 0 => down[g] > 0 \/ g = f
         /\ conn # 0 => down'[f] > 0 /\ \A g \in Frame : down[g] > 0 => down'[g] > 0
         /\ conn = 0 => down' = down
  <1>1. down \in [Frame -> Nat]
    BY DEF TypeOK
  <1>2. CASE conn = 0
    BY <1>1, <1>2 DEF Transmit
  <1>3. CASE conn # 0
    <2>1. down' = [down EXCEPT ![f] = down[f] + 1]
      BY <1>3 DEF Transmit
    <2> QED  BY <1>1, <1>3, <2>1
  <1> QED  BY <1>2, <1>3

\* A call on the panel takes one spec with it, whether it is new or sent.
LEMMA HandToOK ==
  ASSUME TypeOK, NEW f \in Frame, HandTo(f)
  PROVE  /\ specs' \in [Frame -> Nat] /\ specs'[f] > 0
         /\ \A g \in Frame : specs'[g] > 0 <=> specs[g] > 0 \/ g = f
  <1>1. specs \in [Frame -> Nat] /\ specs' = [specs EXCEPT ![f] = specs[f] + 1]
    BY DEF TypeOK, HandTo
  <1> QED  BY <1>1

LEMMA Counters ==
  ASSUME Base
  PROVE  /\ changes \in 0 .. MaxOps /\ faults \in 0 .. MaxEvents /\ errors \in 0 .. MaxEvents /\ pushes \in Nat
         /\ conns \in 0 .. MaxConns /\ MaxOps \in Nat /\ MaxEvents \in Nat /\ MaxConns \in Nat
         /\ Len(status) \in Nat /\ Len(status) + changes <= MaxOps
         /\ UserActs => changes + 1 \in 0 .. MaxOps /\ Len(status) + 1 + changes <= MaxOps
                        /\ Len(status) + (changes + 1) <= MaxOps
         /\ Within => faults + 1 \in 0 .. MaxEvents /\ errors + 1 \in 0 .. MaxEvents
  <1>1. /\ changes \in 0 .. MaxOps /\ faults \in 0 .. MaxEvents /\ errors \in 0 .. MaxEvents
        /\ pushes \in Nat /\ conns \in 0 .. MaxConns /\ Len(status) + changes <= MaxOps
    BY DEF Base, TypeOK
  <1>2. MaxOps \in Nat /\ MaxEvents \in Nat /\ MaxConns \in Nat
    BY DeployBounds
  <1>3. Len(status) \in Nat
    BY Rows DEF Base
  <1> HIDE DEF Base
  <1> QED  BY <1>1, <1>2, <1>3 DEF UserActs, Within

LEMMA InitBase == Init => Base
  <1> SUFFICES ASSUME Init PROVE Base
    OBVIOUS
  <1>1. status = <<>> /\ status \in Seq(DeployStatus) /\ Len(status) = 0 /\ DOMAIN status = {}
    <2>1. <<>> \in Seq(DeployStatus) /\ Len(<<>>) = 0
      BY EmptySeq
    <2> QED  BY <2>1, LenProperties DEF Init
  <1>2. handler \in [Conn -> [at : {"idle", "supersede", "last", "point"},
                              deploy : {0} \cup DOMAIN status, prev : {0} \cup DOMAIN status]]
    BY DEF Init, Idle
  <1>3. up \in [Conn -> Seq([phase : {"fetching", "live", "failed"}, deploy : DOMAIN status])]
    BY EmptySeq DEF Init
  <1>4. /\ down \in [Frame -> Nat] /\ \A f \in Frame : ~(down[f] > 0)
        /\ specs \in [Frame -> Nat] /\ \A f \in Frame : ~(specs[f] > 0)
    BY DEF Init, NoFrames
  <1>5. TypeOK
    <2>1. /\ current \in {0} \cup DOMAIN status /\ disk \in {0} \cup DOMAIN status
          /\ desired \in {"running", "stopped"} /\ deleted \in BOOLEAN /\ cancelled \in BOOLEAN
          /\ calm \in BOOLEAN /\ syncDue \in BOOLEAN /\ installed \in SUBSET Deploy
          /\ left \in BOOLEAN /\ kept \in BOOLEAN /\ lost \in SUBSET Deploy /\ stopped \in SUBSET Conn
      BY DEF Init
    <2>2. /\ pend \in Frame \cup {NoSpec} /\ op \in BotSpec \cup {NoSpec} /\ applied \in BotSpec \cup {NoSpec}
      BY DEF Init
    <2>3. /\ pushes \in Nat /\ conns \in 0 .. MaxConns /\ conn \in {0, conns}
          /\ changes \in 0 .. MaxOps /\ faults \in 0 .. MaxEvents /\ errors \in 0 .. MaxEvents
          /\ Len(status) + changes <= MaxOps
      BY <1>1, DeployBounds DEF Init
    <2> QED  BY <1>1, <1>2, <1>3, <1>4, <2>1, <2>2, <2>3 DEF TypeOK
  <1>6. NamesOK
    BY <1>1, <1>4 DEF Init, NamesOK, Names, Idle
  <1> QED  BY <1>5, <1>6 DEF Base

\* A new deploy is queued, and those that wait are superseded.
LEMMA StartRows ==
  ASSUME Base, StartDeploy
  PROVE  /\ status' \in Seq(DeployStatus) /\ Len(status') = Len(status) + 1
         /\ DOMAIN status' = 1 .. Len(status) + 1 /\ DOMAIN status \subseteq DOMAIN status'
         /\ status'[Len(status) + 1] = "queued" /\ current' = Len(status) + 1
         /\ \A d \in DOMAIN status : status'[d] \in {status[d], "superseded"}
  <1> DEFINE n == Len(status)
             q == Append(status, "queued")
  <1>1. status \in Seq(DeployStatus) /\ "queued" \in DeployStatus /\ n \in Nat /\ DOMAIN status = 1 .. n
    BY Rows DEF Base, TypeOK, DeployStatus
  <1>2. q \in Seq(DeployStatus) /\ Len(q) = n + 1 /\ DOMAIN q = 1 .. n + 1
        /\ (\A d \in 1 .. n : q[d] = status[d]) /\ q[n + 1] = "queued"
    <2>1. q \in Seq(DeployStatus) /\ Len(q) = n + 1 /\ (\A d \in 1 .. n : q[d] = status[d]) /\ q[n + 1] = "queued"
      BY <1>1, AppendProperties
    <2>2. DOMAIN q = 1 .. Len(q)
      BY <2>1, LenProperties
    <2> QED  BY <2>1, <2>2
  <1>3. status' = [d \in DOMAIN q |-> IF d # n + 1 /\ q[d] \in {"queued", "fetching"} THEN "superseded" ELSE q[d]]
    BY DEF StartDeploy, SupersedePending, CreateDeploy
  <1> HIDE DEF q
  <1>4. DOMAIN status' = 1 .. n + 1 /\ status' = [d \in DOMAIN status' |-> status'[d]]
    BY <1>2, <1>3
  <1>5. \A d \in 1 .. n : status'[d] \in {status[d], "superseded"}
    BY <1>1, <1>2, <1>3
  <1>6. status'[n + 1] = "queued"
    BY <1>1, <1>2, <1>3
  <1>7. \A d \in 1 .. n + 1 : status'[d] \in DeployStatus
    <2> TAKE d \in 1 .. n + 1
    <2>1. CASE d = n + 1
      BY <1>6, <2>1 DEF DeployStatus
    <2>2. CASE d # n + 1
      <3>1. d \in 1 .. n
        BY <1>1, <2>2
      <3> QED  BY <1>5, <3>1, Rows DEF DeployStatus, Base
    <2> QED  BY <2>1, <2>2
  <1>8. status' \in Seq(DeployStatus) /\ Len(status') = n + 1
    <2>1. n + 1 \in Nat
      BY <1>1
    <2> HIDE DEF n
    <2> QED  BY <1>4, <1>7, <2>1, RowsType
  <1>9. current' = n + 1
    BY DEF StartDeploy, SetBotCurrentDeploy
  <1> QED  BY <1>1, <1>4, <1>5, <1>6, <1>8, <1>9

LEMMA StartBase == ASSUME Base, StartDeploy PROVE Base'
  <1>1. /\ DOMAIN status \subseteq DOMAIN status' /\ DOMAIN status' = 1 .. Len(status')
        /\ Len(status') + changes <= MaxOps /\ current' \in DOMAIN status' /\ status' \in Seq(DeployStatus)
    <2>1. Len(status) + 1 + changes <= MaxOps /\ Len(status) \in Nat
      BY Counters DEF StartDeploy
    <2> QED  BY <2>1, StartRows
  <1>2. UNCHANGED <<desired, deleted, specs, syncDue, handler, stopped, link, agent, installed, left, lost, bounds>>
    BY DEF StartDeploy
  <1>6. pushes' = pushes + 1 /\ calm' = FALSE /\ kept' = FALSE
    BY DEF StartDeploy, PushBot
  <1>3. up \in [Conn -> Seq([phase : {"fetching", "live", "failed"}, deploy : DOMAIN status'])]
    <2>1. [phase : {"fetching", "live", "failed"}, deploy : DOMAIN status] \subseteq
          [phase : {"fetching", "live", "failed"}, deploy : DOMAIN status']
      BY <1>1
    <2>2. up \in [Conn -> Seq([phase : {"fetching", "live", "failed"}, deploy : DOMAIN status])]
      BY DEF Base, TypeOK
    <2> DEFINE S == [phase : {"fetching", "live", "failed"}, deploy : DOMAIN status]
               T == [phase : {"fetching", "live", "failed"}, deploy : DOMAIN status']
    <2> HIDE DEF S, T
    <2>3. S \subseteq T /\ up \in [Conn -> Seq(S)]
      BY <2>1, <2>2 DEF S, T
    <2>4. \A c \in Conn : up[c] \in Seq(T)
      BY <2>3, SeqMonotonic
    <2>5. up \in [Conn -> Seq(T)]
      BY <2>3, <2>4
    <2> QED  BY <2>5 DEF T
  <1>7. handler \in [Conn -> [at : {"idle", "supersede", "last", "point"},
                              deploy : {0} \cup DOMAIN status', prev : {0} \cup DOMAIN status']]
    <2>1. handler \in [Conn -> [at : {"idle", "supersede", "last", "point"},
                                deploy : {0} \cup DOMAIN status, prev : {0} \cup DOMAIN status]]
      BY DEF Base, TypeOK
    <2> QED  BY <1>1, <2>1
  <1>8. pushes' \in Nat /\ calm' \in BOOLEAN /\ kept' \in BOOLEAN
    <2>1. pushes' \in Nat
      BY <1>6, Counters
    <2>2. calm' \in BOOLEAN /\ kept' \in BOOLEAN
      BY <1>6
    <2> QED  BY <2>1, <2>2
  <1>9. disk \in {0} \cup DOMAIN status' /\ current' \in {0} \cup DOMAIN status'
    BY <1>1 DEF Base, TypeOK
  <1>10. UNCHANGED <<desired, deleted, specs, syncDue, handler, stopped, conn, conns, down, up, pend, op, cancelled,
                     disk, applied, installed, left, lost, changes, faults, errors>>
    BY <1>2 DEF link, agent, bounds
  <1>4. TypeOK'
    <2>1. RowTypes'
      BY <1>1, <1>3, <1>7, <1>8, <1>9, <1>10, TypeParts DEF Base, RowTypes
    <2>2. LinkTypes'
      BY <1>1, <1>3, <1>7, <1>8, <1>9, <1>10, TypeParts DEF Base, LinkTypes
    <2>3. AgentTypes'
      BY <1>1, <1>3, <1>7, <1>8, <1>9, <1>10, TypeParts DEF Base, AgentTypes
    <2>4. WatchTypes'
      BY <1>1, <1>3, <1>7, <1>8, <1>9, <1>10, TypeParts DEF Base, WatchTypes
    <2> QED  BY <2>1, <2>2, <2>3, <2>4, TypePartsNext
  <1>5. NamesOK'
    BY <1>1, <1>10 DEF Base, NamesOK, Names
  <1> QED  BY <1>4, <1>5 DEF Base

LEMMA BotActionBase == ASSUME Base, BotAction PROVE Base'
  <1>1. UNCHANGED <<status, current, deleted, specs, syncDue, handler, stopped, conn, conns, down, up, pend, op,
                    cancelled, disk, applied, installed, left, kept, lost, faults, errors>>
    BY DEF BotAction, link, agent
  <1>2. /\ desired' \in {"running", "stopped"} /\ pushes' = pushes + 1 /\ calm' = FALSE
        /\ changes' = changes + 1 /\ UserActs
    BY DEF BotAction, SetBotDesired, PushBot
  <1>3. pushes' \in Nat /\ changes' \in 0 .. MaxOps /\ Len(status) + changes' <= MaxOps
    <2>1. pushes \in Nat /\ pushes' = pushes + 1
      BY <1>2, Counters
    <2>2. changes' \in 0 .. MaxOps /\ Len(status) + changes' <= MaxOps
      BY <1>2, Counters
    <2>3. pushes' \in Nat
      BY <2>1
    <2> QED  BY <2>2, <2>3
  <1>4. TypeOK'
    <2>1. RowTypes'
      BY <1>1, <1>2, <1>3, TypeParts DEF Base, RowTypes
    <2>2. LinkTypes'
      BY <1>1, <1>2, <1>3, TypeParts DEF Base, LinkTypes
    <2>3. AgentTypes'
      BY <1>1, <1>2, <1>3, TypeParts DEF Base, AgentTypes
    <2>4. WatchTypes'
      BY <1>1, <1>2, <1>3, TypeParts DEF Base, WatchTypes
    <2> QED  BY <2>1, <2>2, <2>3, <2>4, TypePartsNext
  <1>5. NamesOK'
    BY <1>1 DEF Base, NamesOK, Names
  <1> QED  BY <1>4, <1>5 DEF Base

LEMMA DeleteBotBase == ASSUME Base, DeleteBot PROVE Base'
  <1>1. UNCHANGED <<status, current, desired, pushes, syncDue, handler, stopped, conn, conns, down, up, pend, op,
                    cancelled, disk, applied, installed, left, kept, lost, faults, errors>>
    BY DEF DeleteBot, link, agent
  <1>2. /\ deleted' = TRUE /\ calm' = FALSE /\ changes' = changes + 1 /\ UserActs /\ HandTo(Remove)
    BY DEF DeleteBot, SoftDeleteBot
  <1>3. changes' \in 0 .. MaxOps /\ Len(status) + changes' <= MaxOps
    BY <1>2, Counters
  <1>4. specs' \in [Frame -> Nat] /\ \A g \in Frame : specs'[g] > 0 <=> specs[g] > 0 \/ g = Remove
    BY <1>2, HandToOK, SpecsOK DEF Base
  <1>5. TypeOK'
    <2>1. RowTypes'
      BY <1>1, <1>2, <1>3, <1>4, TypeParts DEF Base, RowTypes
    <2>2. LinkTypes'
      BY <1>1, <1>2, <1>3, <1>4, TypeParts DEF Base, LinkTypes
    <2>3. AgentTypes'
      BY <1>1, <1>2, <1>3, <1>4, TypeParts DEF Base, AgentTypes
    <2>4. WatchTypes'
      BY <1>1, <1>2, <1>3, <1>4, TypeParts DEF Base, WatchTypes
    <2> QED  BY <2>1, <2>2, <2>3, <2>4, TypePartsNext
  <1>6. NamesOK'
    BY <1>1, <1>4, SpecsOK DEF Base, NamesOK, Names
  <1> QED  BY <1>5, <1>6 DEF Base

\* What pushes, their sending and a sync have in common.
LEMMA SendBase ==
  ASSUME Base, UNCHANGED <<status, current, desired, deleted, handler, stopped, conn, conns, up, pend, op, cancelled,
                           disk, applied, installed, left, kept, lost, changes, faults>>,
         pushes' \in Nat, syncDue' \in BOOLEAN, calm' \in BOOLEAN, errors' \in 0 .. MaxEvents,
         specs' \in [Frame -> Nat], down' \in [Frame -> Nat],
         \A g \in Frame : down'[g] > 0 \/ specs'[g] > 0 => g.deploy \in Names
  PROVE  Base'
  <1>1. TypeOK'
    <2>1. RowTypes'
      BY TypeParts DEF Base, RowTypes
    <2>2. LinkTypes'
      BY TypeParts DEF Base, LinkTypes
    <2>3. AgentTypes'
      BY TypeParts DEF Base, AgentTypes
    <2>4. WatchTypes'
      BY TypeParts DEF Base, WatchTypes
    <2> QED  BY <2>1, <2>2, <2>3, <2>4, TypePartsNext
  <1>2. NamesOK'
    BY DEF Base, NamesOK, Names
  <1> QED  BY <1>1, <1>2 DEF Base

LEMMA LineFacts ==
  ASSUME Base
  PROVE  /\ pushes \in Nat /\ syncDue \in BOOLEAN /\ calm \in BOOLEAN /\ errors \in 0 .. MaxEvents
         /\ specs \in [Frame -> Nat] /\ down \in [Frame -> Nat]
         /\ \A g \in Frame : down[g] > 0 \/ specs[g] > 0 => g.deploy \in Names
  BY DEF Base, TypeOK, NamesOK

LEMMA ReadBotFacts ==
  ASSUME Base, ReadBot
  PROVE  /\ UNCHANGED <<status, current, desired, deleted, syncDue, handler, stopped, conn, conns, down, up, pend, op,
                        cancelled, disk, applied, installed, calm, left, kept, lost, changes, faults>>
         /\ pushes' \in Nat /\ errors' \in 0 .. MaxEvents /\ specs' \in [Frame -> Nat]
         /\ \A g \in Frame : specs'[g] > 0 => specs[g] > 0 \/ g = Wanted
  <1>1. UNCHANGED <<status, current, desired, deleted, syncDue, handler, stopped, conn, conns, down, up, pend, op,
                    cancelled, disk, applied, installed, calm, left, kept, lost, changes, faults>>
    BY DEF ReadBot, database, link, agent, observers
  <1>2. pushes' \in Nat
    BY LineFacts DEF ReadBot
  <1>3. errors' \in 0 .. MaxEvents
    BY Counters DEF ReadBot, Trouble
  <1>4. specs' \in [Frame -> Nat] /\ \A g \in Frame : specs'[g] > 0 => specs[g] > 0 \/ g = Wanted
    <2>1. CASE HandTo(Wanted)
      BY <2>1, HandToOK, WantedOK DEF Base
    <2>2. CASE UNCHANGED specs
      BY <2>2, LineFacts
    <2> QED  BY <2>1, <2>2 DEF ReadBot
  <1> QED  BY <1>1, <1>2, <1>3, <1>4

LEMMA ReadBotBase == ASSUME Base, ReadBot PROVE Base'
  <1>1. \A g \in Frame : down'[g] > 0 \/ specs'[g] > 0 => g.deploy \in Names
    BY ReadBotFacts, LineFacts, WantedOK DEF Base
  <1>2. syncDue' \in BOOLEAN /\ calm' \in BOOLEAN /\ down' \in [Frame -> Nat]
    BY ReadBotFacts, LineFacts
  <1> QED  BY <1>1, <1>2, ReadBotFacts, SendBase

LEMMA SendSpecFacts ==
  ASSUME Base, SendSpec
  PROVE  /\ UNCHANGED <<status, current, desired, deleted, pushes, syncDue, handler, stopped, conn, conns, up, pend, op,
                        cancelled, disk, applied, installed, calm, left, kept, lost, changes, faults, errors>>
         /\ specs' \in [Frame -> Nat] /\ \A g \in Frame : specs'[g] > 0 => specs[g] > 0
         /\ \E f \in Frame : specs[f] > 0 /\ Transmit(f)
  <1>1. PICK f \in Frame : specs[f] > 0 /\ specs' = [specs EXCEPT ![f] = specs[f] - 1] /\ Transmit(f)
    BY DEF SendSpec
  <1>2. UNCHANGED <<status, current, desired, deleted, pushes, syncDue, handler, stopped, conn, conns, up, pend, op,
                    cancelled, disk, applied, installed, calm, left, kept, lost, changes, faults, errors>>
    BY DEF SendSpec, database, agent, observers, bounds
  <1>3. specs' \in [Frame -> Nat] /\ \A g \in Frame : specs'[g] > 0 => specs[g] > 0
    BY <1>1, LineFacts
  <1> QED  BY <1>1, <1>2, <1>3

LEMMA SendSpecBase == ASSUME Base, SendSpec PROVE Base'
  <1>1. PICK f \in Frame : specs[f] > 0 /\ Transmit(f)
    BY SendSpecFacts
  <1>2. down' \in [Frame -> Nat] /\ \A g \in Frame : down'[g] > 0 => down[g] > 0 \/ g = f
    BY <1>1, TransmitOK DEF Base
  <1>3. \A g \in Frame : down'[g] > 0 \/ specs'[g] > 0 => g.deploy \in Names
    BY <1>1, <1>2, SendSpecFacts, LineFacts
  <1>4. pushes' \in Nat /\ syncDue' \in BOOLEAN /\ calm' \in BOOLEAN /\ errors' \in 0 .. MaxEvents
    BY SendSpecFacts, LineFacts
  <1> QED  BY <1>2, <1>3, <1>4, SendSpecFacts, SendBase

LEMMA SyncFacts ==
  ASSUME Base, Sync
  PROVE  /\ UNCHANGED <<status, current, desired, deleted, pushes, specs, handler, stopped, conn, conns, up, pend, op,
                        cancelled, disk, applied, installed, left, kept, lost, changes, faults>>
         /\ syncDue' = FALSE /\ calm' \in BOOLEAN /\ errors' \in 0 .. MaxEvents
         /\ down' \in [Frame -> Nat] /\ \A g \in Frame : down'[g] > 0 => down[g] > 0 \/ g \in {Wanted, Remove}
         /\ (calm' = calm /\ Transmit(Wanted)) \/ calm' = FALSE
         /\ conn = 0 => down' = down
  <1>1. /\ UNCHANGED <<status, current, desired, deleted, pushes, specs, handler, stopped, conn, conns, up, pend, op,
                       cancelled, disk, applied, installed, left, kept, lost, changes, faults>>
        /\ syncDue' = FALSE
    BY DEF Sync, database, agent
  <1>2. \/ Transmit(Wanted) /\ UNCHANGED <<calm, errors>>
        \/ Transmit(Remove) /\ calm' = FALSE /\ Trouble
        \/ UNCHANGED down /\ calm' = FALSE /\ Trouble
    BY DEF Sync
  <1>3. errors' \in 0 .. MaxEvents /\ calm' \in BOOLEAN
    <2>1. CASE Trouble /\ calm' = FALSE
      BY <2>1, Counters DEF Trouble
    <2>2. CASE UNCHANGED <<calm, errors>>
      BY <2>2, LineFacts
    <2> QED  BY <1>2, <2>1, <2>2
  <1>4. /\ down' \in [Frame -> Nat] /\ \A g \in Frame : down'[g] > 0 => down[g] > 0 \/ g \in {Wanted, Remove}
        /\ conn = 0 => down' = down
    <2>1. CASE Transmit(Wanted)
      BY <2>1, TransmitOK, WantedOK DEF Base
    <2>2. CASE Transmit(Remove)
      BY <2>2, TransmitOK, SpecsOK DEF Base
    <2>3. CASE UNCHANGED down
      BY <2>3, LineFacts
    <2> QED  BY <1>2, <2>1, <2>2, <2>3
  <1> QED  BY <1>1, <1>2, <1>3, <1>4

LEMMA SyncBase == ASSUME Base, Sync PROVE Base'
  <1>1. Remove.deploy \in Names
    BY SpecsOK DEF Names
  <1>2. \A g \in Frame : down'[g] > 0 \/ specs'[g] > 0 => g.deploy \in Names
    BY <1>1, SyncFacts, LineFacts, WantedOK DEF Base
  <1>3. pushes' \in Nat /\ syncDue' \in BOOLEAN /\ specs' \in [Frame -> Nat]
    BY SyncFacts, LineFacts
  <1> QED  BY <1>2, <1>3, SyncFacts, SendBase

LEMMA ConnectBase == ASSUME Base, Connect PROVE Base'
  <1>1. UNCHANGED <<status, current, desired, deleted, pushes, specs, handler, stopped, down, up, pend, op, cancelled,
                    disk, applied, installed, left, kept, lost, changes, faults, errors>>
    BY DEF Connect, database, agent, bounds
  <1>2. conns' \in 0 .. MaxConns /\ conn' = conns' /\ syncDue' = TRUE /\ calm' \in BOOLEAN
    BY Counters DEF Connect, SyncStarts
  <1>3. TypeOK'
    <2>1. RowTypes'
      BY <1>1, <1>2, TypeParts DEF Base, RowTypes
    <2>2. LinkTypes'
      BY <1>1, <1>2, TypeParts DEF Base, LinkTypes
    <2>3. AgentTypes'
      BY <1>1, <1>2, TypeParts DEF Base, AgentTypes
    <2>4. WatchTypes'
      BY <1>1, <1>2, TypeParts DEF Base, WatchTypes
    <2> QED  BY <2>1, <2>2, <2>3, <2>4, TypePartsNext
  <1>4. NamesOK'
    BY <1>1 DEF Base, NamesOK, Names
  <1> QED  BY <1>3, <1>4 DEF Base

\* The agent's steps: what they change is typed, and names what was started.
LEMMA AgentBase ==
  ASSUME Base, UNCHANGED <<status, current, desired, deleted, pushes, specs, syncDue, handler, stopped, conn, conns,
                           calm, left, kept, changes>>,
         faults' \in {faults, faults + 1}, faults' = faults \/ Within,
         errors' \in {errors, errors + 1}, errors' = errors \/ Within,
         lost' \in SUBSET Deploy,
         down' \in [Frame -> Nat], \A f \in Frame : down'[f] > 0 => down[f] > 0,
         up' \in [Conn -> Seq(Progress(Len(status)))],
         pend' \in {pend, NoSpec} \/ (pend' \in Frame /\ down[pend'] > 0),
         op' \in {op, NoSpec} \/ (op' = pend /\ op' \in BotSpec /\ op'.deploy # 0),
         cancelled' \in BOOLEAN, disk' \in {0} \cup DOMAIN status, applied' \in BotSpec \cup {NoSpec},
         installed' \subseteq DOMAIN status
  PROVE  Base'
  <1>1. faults' \in 0 .. MaxEvents /\ errors' \in 0 .. MaxEvents
    BY Counters
  <1>2. up' \in [Conn -> Seq([phase : {"fetching", "live", "failed"}, deploy : DOMAIN status])]
    BY Rows DEF Base, Progress
  <1>3. installed' \in SUBSET Deploy
    BY BoundsOK DEF Base
  <1>4. pend' \in Frame \cup {NoSpec} /\ op' \in BotSpec \cup {NoSpec}
    BY DEF Base, TypeOK
  <1>5. TypeOK'
    <2>1. RowTypes'
      BY <1>1, <1>2, <1>3, <1>4, TypeParts DEF Base, RowTypes
    <2>2. LinkTypes'
      BY <1>1, <1>2, <1>3, <1>4, TypeParts DEF Base, LinkTypes
    <2>3. AgentTypes'
      BY <1>1, <1>2, <1>3, <1>4, TypeParts DEF Base, AgentTypes
    <2>4. WatchTypes'
      BY <1>1, <1>2, <1>3, <1>4, TypeParts DEF Base, WatchTypes
    <2> QED  BY <2>1, <2>2, <2>3, <2>4, TypePartsNext
  <1>6. pend' # NoSpec => pend'.deploy \in Names
    BY DEF Base, NamesOK
  <1>7. op' # NoSpec => op'.deploy \in DOMAIN status
    BY SpecsOK DEF Base, NamesOK, Names
  <1>8. NamesOK'
    BY <1>6, <1>7 DEF Base, NamesOK, Names
  <1> QED  BY <1>5, <1>8 DEF Base

LEMMA AgentFacts ==
  ASSUME Base
  PROVE  /\ down \in [Frame -> Nat] /\ up \in [Conn -> Seq(Progress(Len(status)))]
         /\ pend \in Frame \cup {NoSpec} /\ op \in BotSpec \cup {NoSpec} /\ applied \in BotSpec \cup {NoSpec}
         /\ cancelled \in BOOLEAN /\ disk \in {0} \cup DOMAIN status /\ installed \subseteq DOMAIN status
         /\ op # NoSpec => op \in BotSpec /\ op.deploy \in DOMAIN status
         /\ lost \in SUBSET Deploy
  BY Rows DEF Base, TypeOK, NamesOK

\* What each step of the agent does.
LEMMA ReceiveFacts ==
  ASSUME Base, Receive
  PROVE  /\ \E f \in Frame :
              /\ down[f] > 0 /\ pend' = f
              /\ cancelled' = (cancelled \/ (op # NoSpec /\ f.deploy # op.deploy))
         /\ down' \in [Frame -> Nat] /\ \A g \in Frame : down'[g] > 0 => down[g] > 0
         /\ UNCHANGED <<status, current, desired, deleted, pushes, specs, syncDue, handler, stopped, conn, conns, up,
                        op, disk, applied, installed, calm, left, kept, lost, changes, faults, errors>>
  <1>1. PICK f \in Frame : /\ down[f] > 0 /\ down' = [down EXCEPT ![f] = down[f] - 1] /\ pend' = f
                           /\ cancelled' = (cancelled \/ (op # NoSpec /\ f.deploy # op.deploy))
    BY DEF Receive
  <1>2. UNCHANGED <<database, panel, conn, conns, up, op, disk, applied, observers, bounds>>
    BY <1>1 DEF Receive
  <1>3. down' \in [Frame -> Nat] /\ \A g \in Frame : down'[g] > 0 => down[g] > 0
    BY <1>1, AgentFacts
  <1> QED  BY <1>1, <1>2, <1>3 DEF database, panel, observers, bounds

LEMMA TakeFacts ==
  ASSUME Base, Take
  PROVE  /\ pend \in Frame /\ pend' = NoSpec /\ cancelled' = FALSE /\ pend.deploy \in Names /\ op = NoSpec
         /\ pend # Remove => pend \in BotSpec
         /\ UNCHANGED <<status, current, desired, deleted, pushes, specs, syncDue, handler, stopped, conn, conns, down,
                        calm, left, kept, changes, installed>>
         /\ \/ pend = Remove /\ disk' = 0 /\ applied' = NoSpec /\ UNCHANGED <<op, up, lost, errors, faults>>
            \/ pend = applied /\ UNCHANGED <<op, disk, applied, up, lost, errors, faults>>
            \/ pend # Remove /\ applied' = pend /\ UNCHANGED <<op, disk, up, lost, errors, faults>>
            \/ /\ pend # Remove /\ applied' = NoSpec /\ UNCHANGED <<op, disk, up, lost, errors>>
               /\ faults' = faults + 1 /\ Within
            \/ /\ pend # Remove /\ pend.deploy \in DOMAIN status /\ op' = pend /\ Report("fetching", pend.deploy)
               /\ UNCHANGED <<disk, applied, faults>>
  <1>1. /\ pend \in Frame /\ pend' = NoSpec /\ cancelled' = FALSE /\ pend.deploy \in Names /\ op = NoSpec
        /\ UNCHANGED <<database, panel, conn, conns, down, calm, left, kept, changes, installed>>
    BY AgentFacts DEF Take, AgentFree, Base, NamesOK
  <1>2. \/ pend = Remove /\ disk' = 0 /\ applied' = NoSpec /\ UNCHANGED <<op, up, lost, errors, faults>>
        \/ pend = applied /\ UNCHANGED <<op, disk, applied, up, lost, errors, faults>>
        \/ pend # Remove /\ applied' = pend /\ UNCHANGED <<op, disk, up, lost, errors, faults>>
        \/ /\ pend # Remove /\ applied' = NoSpec /\ UNCHANGED <<op, disk, up, lost, errors>>
           /\ faults' = faults + 1 /\ Within
        \/ /\ pend # Remove /\ pend.deploy # 0 /\ op' = pend /\ Report("fetching", pend.deploy)
           /\ UNCHANGED <<disk, applied, faults>>
    BY DEF Take, Silent
  <1>3. pend # Remove => pend \in BotSpec
    BY <1>1 DEF Frame
  <1>4. pend.deploy # 0 => pend.deploy \in DOMAIN status
    BY <1>1 DEF Names
  <1> QED  BY <1>1, <1>2, <1>3, <1>4 DEF database, panel

LEMMA FinishFacts ==
  ASSUME Base, Finish
  PROVE  /\ op \in BotSpec /\ op.deploy \in DOMAIN status /\ op' = NoSpec /\ ~cancelled
         /\ disk' = op.deploy /\ installed' = installed \cup {op.deploy}
         /\ UNCHANGED <<status, current, desired, deleted, pushes, specs, syncDue, handler, stopped, conn, conns, down,
                        calm, left, kept, changes, pend, cancelled>>
         /\ \/ applied' = op /\ Report("live", op.deploy) /\ faults' = faults
            \/ applied' = NoSpec /\ Report("failed", op.deploy) /\ faults' = faults + 1 /\ Within
  <1>1. /\ op # NoSpec /\ op' = NoSpec /\ ~cancelled /\ disk' = op.deploy /\ installed' = installed \cup {op.deploy}
        /\ UNCHANGED <<database, panel, conn, conns, down, calm, left, kept, changes, pend, cancelled>>
    BY DEF Finish, AgentFree
  <1>2. \/ applied' = op /\ Report("live", op.deploy) /\ faults' = faults
        \/ applied' = NoSpec /\ Report("failed", op.deploy) /\ faults' = faults + 1 /\ Within
    BY DEF Finish
  <1>3. op \in BotSpec /\ op.deploy \in DOMAIN status
    BY <1>1, AgentFacts
  <1> QED  BY <1>1, <1>2, <1>3 DEF database, panel

LEMMA FailFacts ==
  ASSUME Base, Fail
  PROVE  /\ op \in BotSpec /\ op.deploy \in DOMAIN status /\ op' = NoSpec /\ cancelled' = FALSE
         /\ applied' = NoSpec /\ Report("failed", op.deploy)
         /\ UNCHANGED <<status, current, desired, deleted, pushes, specs, syncDue, handler, stopped, conn, conns, down,
                        calm, left, kept, changes, pend, disk, installed>>
         /\ \/ cancelled /\ faults' = faults
            \/ faults' = faults + 1 /\ Within
  <1>1. /\ op # NoSpec /\ op' = NoSpec /\ cancelled' = FALSE /\ applied' = NoSpec /\ Report("failed", op.deploy)
        /\ UNCHANGED <<database, panel, conn, conns, down, calm, left, kept, changes, pend, disk, installed>>
        /\ \/ cancelled /\ faults' = faults
           \/ faults' = faults + 1 /\ Within
    BY DEF Fail, AgentFree, ReportFailed
  <1>2. op \in BotSpec /\ op.deploy \in DOMAIN status
    BY <1>1, AgentFacts
  <1> QED  BY <1>1, <1>2 DEF database, panel

\* What a report leaves typed.
LEMMA ReportTypes ==
  ASSUME Base, NEW phase \in {"fetching", "live", "failed"}, NEW d \in DOMAIN status, Report(phase, d)
  PROVE  /\ up' \in [Conn -> Seq(Progress(Len(status)))] /\ lost' \in SUBSET Deploy
         /\ errors' \in {errors, errors + 1} /\ (errors' = errors \/ Within)
  <1>1. lost \subseteq Deploy /\ d \in Deploy
    BY AgentFacts, BoundsOK DEF Base
  <1>2. lost' \subseteq Deploy
    <2>1. lost' = lost \/ lost' = lost \ {d} \/ lost' = lost \cup {d}
      BY ReportOK DEF Base
    <2> QED  BY <1>1, <2>1
  <1> QED  BY <1>2, ReportOK DEF Base, Within

LEMMA ReceiveBase == ASSUME Base, Receive PROVE Base'
  <1>1. cancelled' \in BOOLEAN
    BY ReceiveFacts, AgentFacts
  <1>2. pend' \in Frame /\ down[pend'] > 0
    BY ReceiveFacts
  <1> QED  BY <1>1, <1>2, ReceiveFacts, AgentFacts, AgentBase

LEMMA TakeBase == ASSUME Base, Take PROVE Base'
  <1>1. /\ up' \in [Conn -> Seq(Progress(Len(status)))] /\ lost' \in SUBSET Deploy
        /\ errors' \in {errors, errors + 1} /\ (errors' = errors \/ Within)
    <2>1. CASE UNCHANGED <<up, lost, errors>>
      BY <2>1, AgentFacts
    <2>2. CASE pend.deploy \in DOMAIN status /\ Report("fetching", pend.deploy)
      BY <2>2, ReportTypes
    <2> QED  BY <2>1, <2>2, TakeFacts
  <1>2. applied' \in BotSpec \cup {NoSpec} /\ disk' \in {0} \cup DOMAIN status
    BY TakeFacts, AgentFacts
  <1>3. op' \in {op, NoSpec} \/ (op' = pend /\ op' \in BotSpec /\ op'.deploy # 0)
    BY TakeFacts, Rows DEF Base
  <1>4. faults' \in {faults, faults + 1} /\ (faults' = faults \/ Within)
    BY TakeFacts
  <1> QED  BY <1>1, <1>2, <1>3, <1>4, TakeFacts, AgentFacts, AgentBase

LEMMA FinishBase == ASSUME Base, Finish PROVE Base'
  <1>1. /\ up' \in [Conn -> Seq(Progress(Len(status)))] /\ lost' \in SUBSET Deploy
        /\ errors' \in {errors, errors + 1} /\ (errors' = errors \/ Within)
    BY FinishFacts, ReportTypes
  <1>2. installed' \subseteq DOMAIN status /\ disk' \in {0} \cup DOMAIN status
    BY FinishFacts, AgentFacts
  <1>3. /\ UNCHANGED <<status, current, desired, deleted, pushes, specs, syncDue, handler, stopped, conn, conns, down,
                       calm, left, kept, changes, pend, cancelled>>
        /\ op' = NoSpec /\ applied' \in BotSpec \cup {NoSpec}
        /\ faults' \in {faults, faults + 1} /\ (faults' = faults \/ Within)
    BY FinishFacts
  <1>4. down \in [Frame -> Nat] /\ cancelled \in BOOLEAN
    BY AgentFacts
  <1> QED  BY <1>1, <1>2, <1>3, <1>4, AgentBase

LEMMA FailBase == ASSUME Base, Fail PROVE Base'
  <1>1. /\ up' \in [Conn -> Seq(Progress(Len(status)))] /\ lost' \in SUBSET Deploy
        /\ errors' \in {errors, errors + 1} /\ (errors' = errors \/ Within)
    BY FailFacts, ReportTypes
  <1>2. /\ UNCHANGED <<status, current, desired, deleted, pushes, specs, syncDue, handler, stopped, conn, conns, down,
                       calm, left, kept, changes, pend, disk, installed>>
        /\ op' = NoSpec /\ applied' \in BotSpec \cup {NoSpec} /\ cancelled' \in BOOLEAN
        /\ faults' \in {faults, faults + 1} /\ (faults' = faults \/ Within)
    BY FailFacts
  <1>3. down \in [Frame -> Nat] /\ disk \in {0} \cup DOMAIN status /\ installed \subseteq DOMAIN status
    BY AgentFacts
  <1> QED  BY <1>1, <1>2, <1>3, AgentBase

-----------------------------------------------------------------------------
(* The statements of onDeployProgress.                                     *)

HandlerAt(n) == [at : {"idle", "supersede", "last", "point"}, deploy : 0 .. n, prev : 0 .. n]

LEMMA HandlerFacts ==
  ASSUME Base
  PROVE  /\ handler \in [Conn -> HandlerAt(Len(status))] /\ Idle \in HandlerAt(Len(status))
         /\ {0} \cup DOMAIN status = 0 .. Len(status)
  <1>1. Len(status) \in Nat /\ DOMAIN status = 1 .. Len(status)
    BY Rows DEF Base
  <1>2. {0} \cup DOMAIN status = 0 .. Len(status)
    BY <1>1
  <1>3. handler \in [Conn -> HandlerAt(Len(status))]
    BY <1>2 DEF Base, TypeOK, HandlerAt
  <1>4. Idle \in HandlerAt(Len(status))
    BY <1>1 DEF Idle, HandlerAt
  <1> QED  BY <1>2, <1>3, <1>4

\* The first frame of a queue and the rest of it.
LEMMA UpOK ==
  ASSUME Base, NEW c \in Conn
  PROVE  /\ Len(up[c]) \in Nat /\ DOMAIN up[c] = 1 .. Len(up[c]) /\ up[c] \in Seq(Progress(Len(status)))
         /\ \A i \in DOMAIN up[c] : /\ up[c][i] \in Progress(Len(status))
                                    /\ up[c][i].deploy \in DOMAIN status
                                    /\ up[c][i].phase \in {"fetching", "live", "failed"}
         /\ up[c] # <<>> => Len(up[c]) > 0
  <1>1. up[c] \in Seq(Progress(Len(status))) /\ DOMAIN status = 1 .. Len(status)
    BY AgentFacts, Rows DEF Base
  <1>2. Len(up[c]) \in Nat /\ DOMAIN up[c] = 1 .. Len(up[c])
    BY <1>1, LenProperties
  <1>3. \A i \in 1 .. Len(up[c]) : up[c][i] \in Progress(Len(status))
    BY <1>1, ElementOfSeq
  <1>4. up[c] # <<>> => Len(up[c]) > 0
    BY <1>1, <1>2, EmptySeq
  <1> QED  BY <1>1, <1>2, <1>3, <1>4 DEF Progress

\* A tail of the progress on a connection is lost, the whole of it when pingLoop gives up.
LEMMA TailLost ==
  ASSUME Base, NEW c \in Conn, NEW k \in 0 .. Len(up[c]),
         up' = [up EXCEPT ![c] = SubSeq(up[c], 1, k)], lost' = lost \cup Untold(c, k + 1)
  PROVE  /\ up' \in [Conn -> Seq(Progress(Len(status)))]
         /\ \A e \in Conn : e # c => up'[e] = up[e]
         /\ \A i \in DOMAIN up'[c] : i \in DOMAIN up[c] /\ up'[c][i] = up[c][i]
         /\ \A i \in DOMAIN up[c] : i \in DOMAIN up'[c] \/ up[c][i].phase = "fetching" \/ up[c][i].deploy \in lost'
         /\ lost \subseteq lost' /\ lost' \in SUBSET Deploy
  <1> DEFINE P == Progress(Len(status))
             s == up[c]
             t == SubSeq(s, 1, k)
  <1>1. up \in [Conn -> Seq(P)]
    BY Rows DEF Base
  <1>2. /\ s \in Seq(P) /\ Len(s) \in Nat /\ DOMAIN s = 1 .. Len(s) /\ k \in 0 .. Len(s)
        /\ \A i \in 1 .. Len(s) : s[i] \in P
    BY UpOK
  <1>3. lost' \in SUBSET Deploy /\ lost \subseteq lost'
    <2>1. lost \in SUBSET Deploy /\ DOMAIN status \subseteq Deploy
      BY BoundsOK DEF Base, TypeOK
    <2>2. \A i \in DOMAIN up[c] : up[c][i].deploy \in DOMAIN status
      BY UpOK
    <2> QED  BY <2>1, <2>2 DEF Untold
  <1>4. \A i \in DOMAIN s : i >= k + 1 => s[i].phase = "fetching" \/ s[i].deploy \in lost'
    BY DEF Untold
  <1>5. up' = [up EXCEPT ![c] = t]
    OBVIOUS
  <1> HIDE DEF P, s
  <1>6. t \in Seq(P) /\ Len(t) = k /\ \A i \in 1 .. k : t[i] = s[i]
    <2>1. \A i \in 1 .. k : s[i] \in P
      BY <1>2
    <2>2. /\ t \in Seq(P) /\ Len(t) = (IF 1 <= k THEN k - 1 + 1 ELSE 0)
          /\ \A i \in 1 .. k - 1 + 1 : t[i] = s[1 + i - 1]
      BY <1>2, <2>1, SubSeqProperties
    <2> QED  BY <1>2, <2>2
  <1> HIDE DEF t
  <1>7. DOMAIN t = 1 .. k
    BY <1>6, LenProperties
  <1>8. up'[c] = t /\ \A e \in Conn : e # c => up'[e] = up[e]
    BY <1>1, <1>5
  <1>9. up' \in [Conn -> Seq(P)]
    BY <1>1, <1>5, <1>6
  <1>10. \A i \in DOMAIN s : i \in DOMAIN t \/ s[i].phase = "fetching" \/ s[i].deploy \in lost'
    BY <1>2, <1>4, <1>7
  <1>11. \A i \in DOMAIN t : i \in DOMAIN s /\ t[i] = s[i]
    BY <1>2, <1>6, <1>7
  <1> QED  BY <1>3, <1>8, <1>9, <1>10, <1>11 DEF P, s

LEMMA CutFacts ==
  ASSUME Base, NEW c \in Conn, (Disconnect /\ c = conn) \/ PingTimeout(c)
  PROVE  /\ UNCHANGED <<status, current, desired, deleted, pushes, specs, syncDue, handler, conns, pend, op, cancelled,
                        disk, applied, installed, calm, left, kept, changes, faults>>
         /\ stopped' \in SUBSET Conn /\ errors' \in 0 .. MaxEvents
         /\ (conn = c /\ conn' = 0 /\ down' = NoFrames) \/ (conn # c /\ UNCHANGED <<conn, down>>)
         /\ \E k \in 0 .. Len(up[c]) : /\ up' = [up EXCEPT ![c] = SubSeq(up[c], 1, k)]
                                       /\ lost' = lost \cup Untold(c, k + 1)
  <1>1. CASE Disconnect /\ c = conn
    <2>1. UNCHANGED <<status, current, desired, deleted, pushes, specs, syncDue, handler, stopped, conns, pend, op,
                      cancelled, disk, applied, installed, calm, left, kept, changes, faults, errors>>
      BY <1>1 DEF Disconnect, database, panel, agent, bounds
    <2>2. stopped \in SUBSET Conn /\ errors \in 0 .. MaxEvents
      BY DEF Base, TypeOK
    <2>3. conn' = 0 /\ down' = NoFrames
      BY <1>1 DEF Disconnect
    <2>4. \E k \in 0 .. Len(up[c]) : up' = [up EXCEPT ![c] = SubSeq(up[c], 1, k)] /\ lost' = lost \cup Untold(c, k + 1)
      BY <1>1 DEF Disconnect
    <2> QED  BY <1>1, <2>1, <2>2, <2>3, <2>4
  <1>2. CASE PingTimeout(c)
    <2>1. UNCHANGED <<status, current, desired, deleted, pushes, specs, syncDue, handler, conns, pend, op, cancelled,
                      disk, applied, installed, calm, left, kept, changes, faults>>
      BY <1>2 DEF PingTimeout, database, agent
    <2>2. stopped' \in SUBSET Conn
      BY <1>2 DEF PingTimeout, Base, TypeOK
    <2>3. errors' \in 0 .. MaxEvents
      BY <1>2, Counters DEF PingTimeout, Trouble
    <2>4. (conn = c /\ conn' = 0 /\ down' = NoFrames) \/ (conn # c /\ UNCHANGED <<conn, down>>)
      BY <1>2 DEF PingTimeout
    <2>5. 0 \in 0 .. Len(up[c]) /\ SubSeq(up[c], 1, 0) = <<>>
      <3>1. up[c] \in Seq(Progress(Len(status))) /\ Len(up[c]) \in Nat
        BY UpOK
      <3>2. SubSeq(up[c], 1, 0) \in Seq(Progress(Len(status))) /\ Len(SubSeq(up[c], 1, 0)) = 0
        BY <3>1, SubSeqProperties
      <3> QED  BY <3>1, <3>2, EmptySeq
    <2>6. up' = [up EXCEPT ![c] = SubSeq(up[c], 1, 0)] /\ lost' = lost \cup Untold(c, 0 + 1)
      <3>1. up' = [up EXCEPT ![c] = <<>>] /\ lost' = lost \cup Untold(c, 1) /\ 0 + 1 = 1
        BY <1>2 DEF PingTimeout
      <3> QED  BY Zenon, <2>5, <3>1
    <2> QED  BY <2>1, <2>2, <2>3, <2>4, <2>5, <2>6
  <1> QED  BY <1>1, <1>2

LEMMA CutBase == ASSUME Base, NEW c \in Conn, (Disconnect /\ c = conn) \/ PingTimeout(c) PROVE Base'
  <1>1. down' \in [Frame -> Nat] /\ (\A f \in Frame : down'[f] > 0 => down[f] > 0) /\ conn' \in {0, conns}
    <2>1. CASE conn' = 0 /\ down' = NoFrames
      BY <2>1 DEF NoFrames
    <2>2. CASE UNCHANGED <<conn, down>>
      BY <2>2 DEF Base, TypeOK
    <2> QED  BY <2>1, <2>2, CutFacts
  <1>2. /\ up' \in [Conn -> Seq([phase : {"fetching", "live", "failed"}, deploy : DOMAIN status])]
        /\ lost' \in SUBSET Deploy
    BY CutFacts, TailLost, Rows DEF Base, Progress
  <1>3. UNCHANGED <<status, current, desired, deleted, pushes, specs, syncDue, handler, conns, pend, op, cancelled,
                    disk, applied, installed, calm, left, kept, changes, faults>>
    BY CutFacts
  <1>4. stopped' \in SUBSET Conn /\ errors' \in 0 .. MaxEvents
    BY CutFacts
  <1>5. TypeOK'
    <2>1. RowTypes'
      BY <1>1, <1>2, <1>3, <1>4, TypeParts DEF Base, RowTypes
    <2>2. LinkTypes'
      BY <1>1, <1>2, <1>3, <1>4, TypeParts DEF Base, LinkTypes
    <2>3. AgentTypes'
      BY <1>1, <1>2, <1>3, <1>4, TypeParts DEF Base, AgentTypes
    <2>4. WatchTypes'
      BY <1>1, <1>2, <1>3, <1>4, TypeParts DEF Base, WatchTypes
    <2> QED  BY <2>1, <2>2, <2>3, <2>4, TypePartsNext
  <1>6. NamesOK'
    BY <1>1, <1>3 DEF Base, NamesOK, Names
  <1> QED  BY <1>5, <1>6 DEF Base

LEMMA SetStatusFacts ==
  ASSUME Base, NEW c \in Conn, SetStatus(c)
  PROVE  /\ UNCHANGED <<current, pushes, desired, deleted, specs, syncDue, stopped, conn, conns, down, pend, op,
                        cancelled, disk, applied, installed, calm, left, kept, changes, faults>>
         /\ handler[c].at = "idle" /\ up[c] # <<>> /\ Len(up[c]) > 0
         /\ up' \in [Conn -> Seq(Progress(Len(status)))]
         /\ \A e \in Conn : e # c => up'[e] = up[e] /\ handler'[e] = handler[e]
         /\ Len(up'[c]) = Len(up[c]) - 1 /\ \A i \in 1 .. Len(up[c]) - 1 : up'[c][i] = up[c][i + 1]
         /\ status' \in Seq(DeployStatus) /\ Len(status') = Len(status) /\ DOMAIN status' = DOMAIN status
         /\ up[c][1].deploy \in DOMAIN status
         /\ \A d \in DOMAIN status :
              /\ d # up[c][1].deploy => status'[d] = status[d]
              /\ d = up[c][1].deploy => status'[d] \in {up[c][1].phase, status[d]}
         /\ errors' \in 0 .. MaxEvents /\ lost' \in {lost, lost \cup {up[c][1].deploy}}
         /\ up[c][1].phase # "fetching" /\ up[c][1].deploy \notin lost' =>
              status'[up[c][1].deploy] = up[c][1].phase /\ ~Overtakes(c, up[c][1].deploy)
         /\ handler' \in [Conn -> HandlerAt(Len(status))]
         /\ handler'[c].at # "idle" => handler'[c].deploy = up[c][1].deploy
         /\ handler'[c].at = CASE up[c][1].phase = "live" -> "supersede"
                               [] up[c][1].phase = "failed" -> "last"
                               [] OTHER -> "idle"
  <1> DEFINE p == up[c][1]
             P == Progress(Len(status))
  <1>1. /\ handler[c].at = "idle" /\ up[c] # <<>> /\ up' = [up EXCEPT ![c] = Tail(up[c])]
        /\ UNCHANGED <<current, pushes, desired, deleted, specs, syncDue, stopped, conn, conns, down, agent, installed,
                       calm, left, kept, changes, faults>>
    BY DEF SetStatus, HandlerFree
  <1>2. up[c] \in Seq(P) /\ Len(up[c]) > 0 /\ Len(up[c]) \in Nat /\ p \in P /\ Head(up[c]) = p
        /\ p.deploy \in DOMAIN status /\ p.phase \in {"fetching", "live", "failed"}
    <2>1. up[c] \in Seq(P) /\ Len(up[c]) > 0 /\ Len(up[c]) \in Nat /\ DOMAIN up[c] = 1 .. Len(up[c])
      BY <1>1, UpOK
    <2>2. 1 \in DOMAIN up[c]
      BY <2>1
    <2>3. p \in P /\ p.deploy \in DOMAIN status /\ p.phase \in {"fetching", "live", "failed"}
      BY <2>2, UpOK
    <2>4. Head(up[c]) = p
      BY <1>1, <2>1, HeadTailProperties
    <2> QED  BY <2>1, <2>3, <2>4
  <1>3. /\ \/ /\ Works(c) /\ status' = [status EXCEPT ![p.deploy] = p.phase]
              /\ lost' = IF p.phase # "fetching" /\ Overtakes(c, p.deploy) THEN lost \cup {p.deploy} ELSE lost
           \/ /\ Fails(c) /\ status' = status
              /\ lost' = IF p.phase # "fetching" THEN lost \cup {p.deploy} ELSE lost
        /\ handler' = [handler EXCEPT ![c] =
             CASE p.phase = "live" -> [Idle EXCEPT !.at = "supersede", !.deploy = p.deploy]
               [] p.phase = "failed" -> [Idle EXCEPT !.at = "last", !.deploy = p.deploy]
               [] OTHER -> Idle]
    BY <1>2 DEF SetStatus, SetDeployStatus, StatusOf
  <1>4. Tail(up[c]) \in Seq(P) /\ Len(Tail(up[c])) = Len(up[c]) - 1
        /\ \A i \in 1 .. Len(up[c]) - 1 : Tail(up[c])[i] = up[c][i + 1]
    BY <1>1, <1>2, HeadTailProperties
  <1>5. up \in [Conn -> Seq(P)]
    BY AgentFacts
  <1>6. up' \in [Conn -> Seq(P)] /\ up'[c] = Tail(up[c]) /\ \A e \in Conn : e # c => up'[e] = up[e]
    <2> HIDE DEF P
    <2> QED  BY <1>1, <1>4, <1>5
  <1>7. /\ status' \in Seq(DeployStatus) /\ Len(status') = Len(status) /\ DOMAIN status' = DOMAIN status
        /\ \A d \in DOMAIN status : /\ d # p.deploy => status'[d] = status[d]
                                    /\ d = p.deploy => status'[d] \in {p.phase, status[d]}
    <2>1. status \in Seq(DeployStatus) /\ p.phase \in DeployStatus /\ DOMAIN status = 1 .. Len(status)
      BY <1>2, Rows DEF Base, TypeOK, DeployStatus
    <2> HIDE DEF p
    <2>2. CASE status' = [status EXCEPT ![p.deploy] = p.phase]
      <3>1. status' \in Seq(DeployStatus) /\ Len(status') = Len(status)
        BY <1>2, <2>1, <2>2, ExceptSeq
      <3>2. DOMAIN status' = DOMAIN status
        BY <2>2
      <3> QED  BY <1>2, <2>1, <2>2, <3>1, <3>2
    <2>3. CASE status' = status
      BY <2>1, <2>3
    <2> QED  BY <1>3, <2>2, <2>3
  <1>11. /\ errors' \in 0 .. MaxEvents /\ lost' \in {lost, lost \cup {p.deploy}}
         /\ p.phase # "fetching" /\ p.deploy \notin lost' => status'[p.deploy] = p.phase /\ ~Overtakes(c, p.deploy)
    <2>1. lost' \in {lost, lost \cup {p.deploy}}
      BY <1>3
    <2>2. errors' \in 0 .. MaxEvents
      BY <1>3, Counters DEF Works, Fails, Trouble
    <2>3. ASSUME p.phase # "fetching", p.deploy \notin lost'
          PROVE  status'[p.deploy] = p.phase /\ ~Overtakes(c, p.deploy)
      <3>1. status' = [status EXCEPT ![p.deploy] = p.phase] /\ ~Overtakes(c, p.deploy)
        BY <1>3, <2>3
      <3> QED  BY <1>2, <3>1
    <2> QED  BY <2>1, <2>2, <2>3
  <1> DEFINE h == CASE p.phase = "live" -> [Idle EXCEPT !.at = "supersede", !.deploy = p.deploy]
                    [] p.phase = "failed" -> [Idle EXCEPT !.at = "last", !.deploy = p.deploy]
                    [] OTHER -> Idle
  <1>8. /\ h \in HandlerAt(Len(status))
        /\ h.at # "idle" => h.deploy = p.deploy
        /\ h.at = CASE p.phase = "live" -> "supersede" [] p.phase = "failed" -> "last" [] OTHER -> "idle"
    <2>1. p.deploy \in 0 .. Len(status) /\ 0 \in 0 .. Len(status)
      BY <1>2, HandlerFacts, Rows DEF Base
    <2> HIDE DEF p
    <2>2. CASE p.phase = "live"
      BY <2>1, <2>2 DEF Idle, HandlerAt
    <2>3. CASE p.phase = "failed"
      BY <2>1, <2>3 DEF Idle, HandlerAt
    <2>4. CASE p.phase = "fetching"
      BY <2>1, <2>4 DEF Idle, HandlerAt
    <2> QED  BY <1>2, <2>2, <2>3, <2>4
  <1>9. handler' = [handler EXCEPT ![c] = h] /\ handler \in [Conn -> HandlerAt(Len(status))]
    BY <1>3, HandlerFacts
  <1> HIDE DEF h
  <1>10. /\ handler' \in [Conn -> HandlerAt(Len(status))] /\ handler'[c] = h
         /\ \A e \in Conn : e # c => handler'[e] = handler[e]
    <2> DEFINE H == HandlerAt(Len(status))
    <2>1. h \in H
      BY <1>8
    <2>2. handler' = [handler EXCEPT ![c] = h] /\ handler \in [Conn -> H]
      BY <1>9
    <2> HIDE DEF H
    <2>3. handler' \in [Conn -> H]
      BY <2>1, <2>2
    <2>4. handler'[c] = h /\ \A e \in Conn : e # c => handler'[e] = handler[e]
      BY <2>2
    <2> QED  BY <2>3, <2>4 DEF H
  <1> QED  BY <1>1, <1>2, <1>4, <1>6, <1>7, <1>8, <1>10, <1>11 DEF agent

\* The handler is done.
LEMMA ReturnFacts ==
  ASSUME Base, NEW c \in Conn, Return(c)
  PROVE  /\ handler' = [handler EXCEPT ![c] = Idle] /\ stopped' \in SUBSET Conn
         /\ handler' \in [Conn -> HandlerAt(Len(status))] /\ handler'[c].at = "idle"
         /\ \A e \in Conn : e # c => handler'[e] = handler[e]
  <1>1. handler' = [handler EXCEPT ![c] = Idle] /\ Idle.at = "idle"
    BY DEF Return, Idle
  <1>2. stopped' \in SUBSET Conn
    BY DEF Return, Base, TypeOK
  <1>3. handler \in [Conn -> HandlerAt(Len(status))] /\ Idle \in HandlerAt(Len(status))
    BY HandlerFacts
  <1> HIDE DEF Idle
  <1> QED  BY <1>1, <1>2, <1>3

\* A statement leaves the count of errors within its bound.
LEMMA StatementFacts ==
  ASSUME Base, NEW c \in Conn, Works(c) \/ Fails(c)
  PROVE  errors' \in 0 .. MaxEvents
  BY Counters DEF Works, Fails, Trouble

LEMMA SupersedeFacts ==
  ASSUME Base, NEW c \in Conn, SupersedeLiveDeploys(c)
  PROVE  /\ UNCHANGED <<current, pushes, desired, deleted, specs, syncDue, conn, conns, down, up, pend, op, cancelled,
                        disk, applied, installed, calm, kept, lost, changes, faults>>
         /\ handler[c].at = "supersede" /\ Return(c) /\ errors' \in 0 .. MaxEvents /\ left' \in BOOLEAN
         /\ status' \in Seq(DeployStatus) /\ Len(status') = Len(status) /\ DOMAIN status' = DOMAIN status
         /\ \A d \in DOMAIN status :
              \/ left' /\ status'[d] = status[d]
              \/ status'[d] = IF d # handler[c].deploy /\ status[d] = "live" THEN "superseded" ELSE status[d]
  <1>1. /\ handler[c].at = "supersede" /\ Return(c)
        /\ \/ Works(c) /\ SupersedeLive(c) /\ left' = FALSE
           \/ Fails(c) /\ UNCHANGED status /\ left' = TRUE
        /\ UNCHANGED <<current, pushes, up, calm, kept, lost, desired, deleted, specs, syncDue, conn, conns, down, agent,
                       installed, changes, faults>>
    BY DEF SupersedeLiveDeploys, HandlerFree
  <1>2. status \in Seq(DeployStatus) /\ Len(status) \in Nat /\ DOMAIN status = 1 .. Len(status)
        /\ \A d \in DOMAIN status : status[d] \in DeployStatus
    BY Rows DEF Base, TypeOK
  <1>3. /\ status' \in Seq(DeployStatus) /\ Len(status') = Len(status) /\ DOMAIN status' = DOMAIN status
        /\ \A d \in DOMAIN status :
             \/ left' /\ status'[d] = status[d]
             \/ status'[d] = IF d # handler[c].deploy /\ status[d] = "live" THEN "superseded" ELSE status[d]
    <2>1. CASE SupersedeLive(c)
      <3>1. status' = [d \in DOMAIN status |->
                IF d # handler[c].deploy /\ status[d] = "live" THEN "superseded" ELSE status[d]]
        BY <2>1 DEF SupersedeLive
      <3>2. DOMAIN status' = 1 .. Len(status) /\ status' = [d \in DOMAIN status' |-> status'[d]]
            /\ \A d \in 1 .. Len(status) : status'[d] \in DeployStatus
        BY <1>2, <3>1 DEF DeployStatus
      <3>3. status' \in Seq(DeployStatus) /\ Len(status') = Len(status)
        BY <1>2, <3>2, RowsType
      <3> QED  BY <1>2, <3>1, <3>2, <3>3
    <2>2. CASE UNCHANGED status /\ left' = TRUE
      BY <1>2, <2>2
    <2> QED  BY <1>1, <2>1, <2>2
  <1>4. errors' \in 0 .. MaxEvents /\ left' \in BOOLEAN
    BY <1>1, StatementFacts
  <1> QED  BY <1>1, <1>3, <1>4 DEF agent

LEMMA ReadFacts ==
  ASSUME Base, NEW c \in Conn, ReadLastLive(c)
  PROVE  /\ UNCHANGED <<status, current, pushes, desired, deleted, specs, syncDue, stopped, conn, conns, down, up, pend,
                        op, cancelled, disk, applied, installed, calm, left, kept, lost, changes, faults>>
         /\ errors' \in 0 .. MaxEvents
         /\ handler[c].at = "last" /\ handler' \in [Conn -> HandlerAt(Len(status))]
         /\ \A e \in Conn : e # c => handler'[e] = handler[e]
         /\ handler'[c].at = "point" /\ handler'[c].deploy = handler[c].deploy
         /\ handler'[c].prev \in {0, LastLiveDeploy}
  <1>1. /\ handler[c].at = "last" /\ (Works(c) \/ Fails(c))
        /\ UNCHANGED <<status, current, pushes, stopped, up, calm, left, kept, lost, desired, deleted, specs, syncDue,
                       conn, conns, down, agent, installed, changes, faults>>
    BY DEF ReadLastLive, HandlerFree
  <1>2. PICK l \in {0, LastLiveDeploy} : handler' = [handler EXCEPT ![c].at = "point", ![c].prev = l]
    BY DEF ReadLastLive, Remember
  <1>3. l \in 0 .. Len(status)
    BY LastLive, Rows DEF Base
  <1>4. handler \in [Conn -> HandlerAt(Len(status))]
    BY HandlerFacts
  <1>5. /\ handler' \in [Conn -> HandlerAt(Len(status))] /\ \A e \in Conn : e # c => handler'[e] = handler[e]
        /\ handler'[c].at = "point" /\ handler'[c].deploy = handler[c].deploy /\ handler'[c].prev = l
    BY <1>2, <1>3, <1>4 DEF HandlerAt
  <1> QED  BY <1>1, <1>2, <1>5, StatementFacts DEF agent

LEMMA PointFacts ==
  ASSUME Base, NEW c \in Conn, PointBotBack(c)
  PROVE  /\ UNCHANGED <<status, desired, deleted, specs, syncDue, conn, conns, down, up, pend, op, cancelled, disk,
                        applied, installed, left, lost, changes, faults>>
         /\ handler[c].at = "point" /\ calm' = FALSE /\ Return(c) /\ errors' \in 0 .. MaxEvents
         /\ pushes' \in Nat /\ kept' \in BOOLEAN /\ current' \in {current, handler[c].prev}
         /\ ~kept' => current' = handler[c].prev
  <1>1. /\ UNCHANGED <<status, desired, deleted, specs, syncDue, conn, conns, down, up, pend, op, cancelled, disk,
                       applied, installed, left, lost, changes, faults>>
        /\ handler[c].at = "point" /\ calm' = FALSE /\ Return(c)
    BY DEF PointBotBack, HandlerFree, agent
  <1>2. CASE Works(c) /\ current' = handler[c].prev /\ pushes' = pushes + 1 /\ kept' = FALSE
    <2>1. pushes' \in Nat
      BY <1>2, Counters
    <2> QED  BY <1>1, <1>2, <2>1, StatementFacts
  <1>3. CASE Fails(c) /\ current' \in {current, handler[c].prev} /\ UNCHANGED pushes /\ kept' = TRUE
    <2>1. pushes' \in Nat
      BY <1>3, Counters
    <2> QED  BY <1>1, <1>3, <2>1, StatementFacts
  <1> QED  BY <1>2, <1>3 DEF PointBotBack, SetBotCurrentDeploy, PointBack, PushBot

\* What the four have in common.
LEMMA HandlerBase ==
  ASSUME Base, NEW c \in Conn,
         UNCHANGED <<desired, deleted, specs, syncDue, conn, conns, down, pend, op, cancelled, disk, applied,
                     installed, changes, faults>>,
         status' \in Seq(DeployStatus), Len(status') = Len(status), DOMAIN status' = DOMAIN status,
         current' \in 0 .. Len(status), pushes' \in Nat, stopped' \in SUBSET Conn,
         calm' \in BOOLEAN, left' \in BOOLEAN, kept' \in BOOLEAN, lost' \in SUBSET Deploy, errors' \in 0 .. MaxEvents,
         up' \in [Conn -> Seq(Progress(Len(status)))], handler' \in [Conn -> HandlerAt(Len(status))],
         \A e \in Conn : e # c => handler'[e] = handler[e],
         handler'[c].at # "idle" => handler'[c].deploy \in DOMAIN status
  PROVE  Base'
  <1>1. {0} \cup DOMAIN status = 0 .. Len(status) /\ DOMAIN status = 1 .. Len(status)
    BY HandlerFacts, Rows DEF Base
  <1>2. /\ current' \in {0} \cup DOMAIN status'
        /\ handler' \in [Conn -> [at : {"idle", "supersede", "last", "point"},
                                  deploy : {0} \cup DOMAIN status', prev : {0} \cup DOMAIN status']]
        /\ up' \in [Conn -> Seq([phase : {"fetching", "live", "failed"}, deploy : DOMAIN status'])]
    BY <1>1 DEF HandlerAt, Progress
  <1>3. /\ Len(status') + changes <= MaxOps /\ desired \in {"running", "stopped"} /\ deleted \in BOOLEAN
        /\ disk \in {0} \cup DOMAIN status'
    BY DEF Base, TypeOK
  <1>4. TypeOK'
    <2>1. RowTypes'
      BY <1>2, <1>3, TypeParts DEF Base, RowTypes
    <2>2. LinkTypes'
      BY <1>2, <1>3, TypeParts DEF Base, LinkTypes
    <2>3. AgentTypes'
      BY <1>2, <1>3, TypeParts DEF Base, AgentTypes
    <2>4. WatchTypes'
      BY <1>2, <1>3, TypeParts DEF Base, WatchTypes
    <2> QED  BY <2>1, <2>2, <2>3, <2>4, TypePartsNext
  <1>5. NamesOK'
    BY DEF Base, NamesOK, Names
  <1> QED  BY <1>4, <1>5 DEF Base

LEMMA OnDeployProgressBase == ASSUME Base, NEW c \in Conn, OnDeployProgress(c) PROVE Base'
  <1>1. /\ status \in Seq(DeployStatus) /\ current \in 0 .. Len(status) /\ pushes \in Nat
        /\ \A e \in Conn : handler[e].at # "idle" => handler[e].deploy \in DOMAIN status
    BY HandlerFacts DEF Base, TypeOK, NamesOK
  <1>2. /\ calm \in BOOLEAN /\ left \in BOOLEAN /\ kept \in BOOLEAN /\ lost \in SUBSET Deploy
        /\ stopped \in SUBSET Conn /\ up \in [Conn -> Seq(Progress(Len(status)))]
    BY AgentFacts DEF Base, TypeOK
  <1>3. CASE SetStatus(c)
    <2>1. lost' \in SUBSET Deploy
      <3>1. up[c][1].deploy \in Deploy
        BY <1>3, SetStatusFacts, BoundsOK DEF Base
      <3>2. lost' \in {lost, lost \cup {up[c][1].deploy}}
        BY <1>3, SetStatusFacts
      <3> QED  BY <1>2, <3>1, <3>2
    <2>2. /\ UNCHANGED <<current, pushes, stopped, calm, left, kept>> /\ errors' \in 0 .. MaxEvents
          /\ handler'[c].at # "idle" => handler'[c].deploy \in DOMAIN status
      BY <1>3, SetStatusFacts
    <2> QED  BY <1>1, <1>2, <1>3, <2>1, <2>2, SetStatusFacts, HandlerBase
  <1>4. CASE SupersedeLiveDeploys(c)
    <2>1. /\ Return(c) /\ UNCHANGED <<current, pushes, up, calm, kept, lost>>
          /\ left' \in BOOLEAN /\ errors' \in 0 .. MaxEvents
      BY <1>4, SupersedeFacts
    <2>2. /\ stopped' \in SUBSET Conn /\ handler' \in [Conn -> HandlerAt(Len(status))] /\ handler'[c].at = "idle"
          /\ \A e \in Conn : e # c => handler'[e] = handler[e]
      BY <2>1, ReturnFacts
    <2> QED  BY <1>1, <1>2, <1>4, <2>1, <2>2, SupersedeFacts, HandlerBase
  <1>5. CASE ReadLastLive(c)
    BY <1>1, <1>2, <1>5, ReadFacts, HandlerBase
  <1>6. CASE PointBotBack(c)
    <2>1. current' \in 0 .. Len(status)
      <3>1. handler[c].prev \in 0 .. Len(status)
        BY HandlerFacts DEF HandlerAt
      <3> QED  BY <1>1, <1>6, <3>1, PointFacts
    <2>2. calm' \in BOOLEAN
      BY <1>6, PointFacts
    <2>3. /\ Return(c) /\ UNCHANGED <<status, up, left, lost>> /\ errors' \in 0 .. MaxEvents
          /\ pushes' \in Nat /\ kept' \in BOOLEAN
      BY <1>6, PointFacts
    <2>4. /\ stopped' \in SUBSET Conn /\ handler' \in [Conn -> HandlerAt(Len(status))] /\ handler'[c].at = "idle"
          /\ \A e \in Conn : e # c => handler'[e] = handler[e]
      BY <2>3, ReturnFacts
    <2> QED  BY <1>1, <1>2, <1>6, <2>1, <2>2, <2>3, <2>4, PointFacts, HandlerBase
  <1> QED  BY <1>3, <1>4, <1>5, <1>6 DEF OnDeployProgress

LEMMA NextBase == ASSUME Base, [Next]_vars PROVE Base'
  <1>1. CASE UNCHANGED vars
    <2>1. UNCHANGED <<status, current, desired, deleted, pushes, specs, syncDue, handler, stopped, conn, conns, down, up,
                      pend, op, cancelled, disk, applied, installed, calm, left, kept, lost, changes, faults, errors>>
      BY <1>1 DEF vars, database, panel, link, agent, observers, bounds
    <2>2. TypeOK'
      <3>1. RowTypes'
        BY <2>1, TypeParts DEF Base, RowTypes
      <3>2. LinkTypes'
        BY <2>1, TypeParts DEF Base, LinkTypes
      <3>3. AgentTypes'
        BY <2>1, TypeParts DEF Base, AgentTypes
      <3>4. WatchTypes'
        BY <2>1, TypeParts DEF Base, WatchTypes
      <3> QED  BY <3>1, <3>2, <3>3, <3>4, TypePartsNext
    <2>3. NamesOK'
      BY <2>1 DEF Base, NamesOK, Names
    <2> QED  BY <2>2, <2>3 DEF Base
  <1>2. CASE Next
    <2>1. CASE UploadDeploy \/ RollbackDeploy
      BY <2>1, StartBase DEF UploadDeploy, RollbackDeploy
    <2>2. CASE \E c \in Conn : OnDeployProgress(c) \/ PingTimeout(c)
      BY <2>2, OnDeployProgressBase, CutBase
    <2>3. CASE Disconnect
      <3>1. conn \in Conn
        BY <2>3, BoundsOK DEF Disconnect, Base
      <3> QED  BY <2>3, <3>1, CutBase
    <2> QED  BY <1>2, <2>1, <2>2, <2>3, BotActionBase, DeleteBotBase, ReadBotBase, SendSpecBase, ConnectBase, SyncBase,
                ReceiveBase, TakeBase, FinishBase, FailBase DEF Next
  <1> QED  BY <1>1, <1>2

LEMMA BaseHolds == Spec => []Base
  BY InitBase, NextBase, PTL DEF Spec

\* Every deploy that a row, a frame, the volume or a handler names was started, and every
\* variable stays in its range.
THEOREM TypeCorrect == Spec => []TypeOK
  <1>1. Base => TypeOK
    BY DEF Base
  <1> QED  BY <1>1, BaseHolds, PTL

-----------------------------------------------------------------------------
(* What is called live was installed.                                      *)

Sent == LiveSent /\ LiveWasInstalled

\* Frames that were on their way before and one that does not say live, unless truly.
LEMMA ReportSent ==
  ASSUME Base, Sent, NEW phase \in {"fetching", "live", "failed"}, NEW d \in DOMAIN status, Report(phase, d),
         UNCHANGED <<status, conn>>, installed \subseteq installed', phase = "live" => d \in installed'
  PROVE  Sent'
  <1> SUFFICES ASSUME NEW c \in Conn, NEW i \in DOMAIN up'[c], up'[c][i].phase = "live"
               PROVE  up'[c][i].deploy \in installed'
    BY DEF Sent, LiveSent, LiveWasInstalled, Base, TypeOK
  <1>1. CASE up'[c] = up[c]
    BY <1>1 DEF Sent, LiveSent
  <1>2. CASE up'[c] # up[c]
    <2>1. /\ c = conn /\ Len(up'[c]) = Len(up[c]) + 1 /\ (\A j \in 1 .. Len(up[c]) : up'[c][j] = up[c][j])
          /\ up'[c][Len(up[c]) + 1] = [phase |-> phase, deploy |-> d]
      BY <1>2, ReportOK DEF Base
    <2>2. up'[c] \in Seq(Progress(Len(status)))
      BY ReportOK DEF Base
    <2>3. DOMAIN up'[c] = 1 .. Len(up[c]) + 1 /\ DOMAIN up[c] = 1 .. Len(up[c]) /\ Len(up[c]) \in Nat
      BY <2>1, <2>2, LenProperties, UpOK
    <2>4. CASE i = Len(up[c]) + 1
      BY <2>1, <2>4
    <2>5. CASE i # Len(up[c]) + 1
      <3>1. i \in DOMAIN up[c] /\ up'[c][i] = up[c][i]
        BY <2>1, <2>3, <2>5
      <3> QED  BY <3>1 DEF Sent, LiveSent
    <2> QED  BY <2>4, <2>5
  <1> QED  BY <1>1, <1>2

LEMMA InitSent == Init => Sent
  <1> SUFFICES ASSUME Init PROVE Sent
    OBVIOUS
  <1>1. DOMAIN status = {} /\ \A c \in Conn : DOMAIN up[c] = {}
    BY LenProperties, EmptySeq DEF Init
  <1> QED  BY <1>1 DEF Sent, LiveSent, LiveWasInstalled

LEMMA NextSent == ASSUME Base, Sent, [Next]_vars PROVE Sent'
  <1>1. ASSUME UNCHANGED <<status, up, installed>> PROVE Sent'
    BY <1>1 DEF Sent, LiveSent, LiveWasInstalled
  <1>2. CASE UNCHANGED vars \/ BotAction \/ DeleteBot \/ ReadBot \/ SendSpec \/ Connect \/ Sync
    BY <1>1, <1>2 DEF vars, BotAction, DeleteBot, ReadBot, SendSpec, Connect, Sync, database, link, panel, agent, observers
  <1>3. CASE StartDeploy
    <2>1. UNCHANGED <<up, installed>>
      BY <1>3 DEF StartDeploy, link
    <2>2. \A d \in DOMAIN status' : status'[d] = "live" => d \in DOMAIN status /\ status[d] = "live"
      <3> TAKE d \in DOMAIN status'
      <3>1. d \in DOMAIN status \/ d = Len(status) + 1
        BY <1>3, StartRows, Rows DEF Base
      <3> QED  BY <1>3, <3>1, StartRows
    <2> QED  BY <2>1, <2>2 DEF Sent, LiveSent, LiveWasInstalled
  <1>4. ASSUME NEW c \in Conn, (Disconnect /\ c = conn) \/ PingTimeout(c) PROVE Sent'
    <2>1. UNCHANGED <<status, installed>>
      BY <1>4, CutFacts
    <2>2. \A e \in Conn : \A i \in DOMAIN up'[e] : i \in DOMAIN up[e] /\ up'[e][i] = up[e][i]
      BY <1>4, CutFacts, TailLost
    <2> QED  BY <2>1, <2>2 DEF Sent, LiveSent, LiveWasInstalled
  <1>5. CASE Receive
    BY <1>1, <1>5, ReceiveFacts
  <1>6. CASE Take
    <2>1. CASE up' = up
      BY <1>1, <1>6, <2>1, TakeFacts
    <2>2. CASE pend.deploy \in DOMAIN status /\ Report("fetching", pend.deploy)
      <3>1. UNCHANGED <<status, conn, installed>>
        BY <1>6, TakeFacts
      <3> QED  BY <2>2, <3>1, ReportSent
    <2> QED  BY <1>6, <2>1, <2>2, TakeFacts
  <1>7. CASE Finish
    <2>1. /\ UNCHANGED <<status, conn>> /\ op.deploy \in DOMAIN status
          /\ installed \subseteq installed' /\ op.deploy \in installed'
      BY <1>7, FinishFacts
    <2>2. PICK phase \in {"live", "failed"} : Report(phase, op.deploy)
      BY <1>7, FinishFacts
    <2> QED  BY <2>1, <2>2, ReportSent
  <1>8. CASE Fail
    <2>1. UNCHANGED <<status, conn, installed>> /\ op.deploy \in DOMAIN status /\ Report("failed", op.deploy)
      BY <1>8, FailFacts
    <2> QED  BY <2>1, ReportSent
  <1>9. ASSUME NEW c \in Conn, SetStatus(c) PROVE Sent'
    <2>1. UNCHANGED installed /\ DOMAIN status' = DOMAIN status
      BY <1>9, SetStatusFacts
    <2>2. DOMAIN up[c] = 1 .. Len(up[c]) /\ Len(up[c]) \in Nat /\ Len(up[c]) > 0 /\ 1 \in DOMAIN up[c]
      <3>1. DOMAIN up[c] = 1 .. Len(up[c]) /\ Len(up[c]) \in Nat
        BY UpOK
      <3>2. Len(up[c]) > 0
        BY <1>9, SetStatusFacts
      <3> QED  BY <3>1, <3>2
    <2>3. \A d \in DOMAIN status : status'[d] = "live" => d \in installed
      <3> TAKE d \in DOMAIN status
      <3>1. CASE d = up[c][1].deploy
        <4>1. status'[d] \in {up[c][1].phase, status[d]}
          BY <1>9, <3>1, SetStatusFacts
        <4> QED  BY <2>2, <3>1, <4>1 DEF Sent, LiveSent, LiveWasInstalled
      <3>2. CASE d # up[c][1].deploy
        <4>1. status'[d] = status[d]
          BY <1>9, <3>2, SetStatusFacts
        <4> QED  BY <4>1 DEF Sent, LiveWasInstalled
      <3> QED  BY <3>1, <3>2
    <2>4. ASSUME NEW e \in Conn, NEW i \in DOMAIN up'[e], up'[e][i].phase = "live"
          PROVE  up'[e][i].deploy \in installed
      <3>1. CASE e # c
        <4>1. up'[e] = up[e]
          BY <1>9, <3>1, SetStatusFacts
        <4> QED  BY <2>4, <4>1 DEF Sent, LiveSent
      <3>2. CASE e = c
        <4>1. /\ up'[c] \in Seq(Progress(Len(status))) /\ Len(up'[c]) = Len(up[c]) - 1
              /\ \A j \in 1 .. Len(up[c]) - 1 : up'[c][j] = up[c][j + 1]
          BY <1>9, SetStatusFacts
        <4>2. DOMAIN up'[c] = 1 .. Len(up[c]) - 1
          BY <4>1, LenProperties
        <4>3. i \in 1 .. Len(up[c]) - 1
          BY <2>4, <3>2, <4>2
        <4>4. i + 1 \in DOMAIN up[c]
          BY <2>2, <4>3
        <4>5. up'[c][i] = up[c][i + 1]
          BY <4>1, <4>3
        <4> QED  BY <2>4, <3>2, <4>4, <4>5 DEF Sent, LiveSent
      <3> QED  BY <3>1, <3>2
    <2> QED  BY <2>1, <2>3, <2>4 DEF Sent, LiveSent, LiveWasInstalled
  <1>10. ASSUME NEW c \in Conn, SupersedeLiveDeploys(c) PROVE Sent'
    <2>1. UNCHANGED <<up, installed>> /\ DOMAIN status' = DOMAIN status
          /\ \A d \in DOMAIN status : status'[d] = "live" => status[d] = "live"
      BY <1>10, SupersedeFacts
    <2> QED  BY <2>1 DEF Sent, LiveSent, LiveWasInstalled
  <1>11. ASSUME NEW c \in Conn, ReadLastLive(c) \/ PointBotBack(c) PROVE Sent'
    BY <1>1, <1>11, ReadFacts, PointFacts
  <1>12. Disconnect => \E c \in Conn : c = conn
    BY BoundsOK DEF Disconnect, Base
  <1> QED  BY <1>2, <1>3, <1>4, <1>5, <1>6, <1>7, <1>8, <1>9, <1>10, <1>11, <1>12
           DEF Next, UploadDeploy, RollbackDeploy, OnDeployProgress

\* A deploy the panel calls live has had its code swapped in on the node, whatever was
\* cancelled, lost or late: the agent says live only after the swap, and what a newer
\* deploy superseded is not called live before its own frame arrives.
THEOREM LiveIsInstalled == Spec => []LiveWasInstalled
  <1>1. Sent => LiveWasInstalled
    BY DEF Sent
  <1> QED  BY <1>1, InitSent, NextSent, BaseHolds, PTL DEF Spec

-----------------------------------------------------------------------------
(* One live deploy.                                                        *)

LEMMA InitOwned == Init => OneIsOwned
  <1> SUFFICES ASSUME Init PROVE OneIsOwned
    OBVIOUS
  <1>1. DOMAIN status = {}
    BY LenProperties, EmptySeq DEF Init
  <1> QED  BY <1>1 DEF OneIsOwned, Live

LEMMA NextOwned == ASSUME Base, OneIsOwned, [Next]_vars PROVE OneIsOwned'
  <1>1. ASSUME UNCHANGED <<status, handler, left>> PROVE OneIsOwned'
    BY <1>1 DEF OneIsOwned, Live
  <1>2. CASE UNCHANGED vars \/ BotAction \/ DeleteBot \/ ReadBot \/ SendSpec \/ Connect \/ Sync
    BY <1>1, <1>2 DEF vars, BotAction, DeleteBot, ReadBot, SendSpec, Connect, Sync, database, link, panel, agent, observers
  <1>3. CASE StartDeploy
    <2>1. handler' = handler /\ left' = left
      BY <1>3 DEF StartDeploy
    <2>2. Live' \subseteq Live
      <3> SUFFICES ASSUME NEW d \in DOMAIN status', status'[d] = "live" PROVE d \in Live
        BY DEF Live
      <3>1. d \in DOMAIN status \/ d = Len(status) + 1
        BY <1>3, StartRows, Rows DEF Base
      <3> QED  BY <1>3, <3>1, StartRows DEF Live
    <2> QED  BY <2>1, <2>2 DEF OneIsOwned
  <1>4. CASE Receive \/ Take \/ Finish \/ Fail
    BY <1>1, <1>4, ReceiveFacts, TakeFacts, FinishFacts, FailFacts
  <1>5. ASSUME NEW c \in Conn, SetStatus(c) PROVE OneIsOwned'
    <2> DEFINE p == up[c][1]
    <2>1. /\ handler[c].at = "idle" /\ \A e \in Conn : e # c => handler'[e] = handler[e]
          /\ DOMAIN status' = DOMAIN status /\ left' = left
          /\ \A d \in DOMAIN status : /\ d # p.deploy => status'[d] = status[d]
                                      /\ d = p.deploy => status'[d] \in {p.phase, status[d]}
      BY <1>5, SetStatusFacts
    <2>2. p.phase = "live" => handler'[c].at = "supersede" /\ handler'[c].deploy = p.deploy
      BY <1>5, SetStatusFacts
    <2> HIDE DEF p
    <2>3. \A d \in Live' : d \in Live \/ (d = p.deploy /\ p.phase = "live")
      BY <2>1 DEF Live
    <2> SUFFICES ASSUME ~left, NEW d \in Live', NEW e \in Live', d # e
                 PROVE  \E x \in Conn : handler'[x].at = "supersede" /\ handler'[x].deploy \in {d, e}
      BY <2>1 DEF OneIsOwned
    <2>4. CASE p.phase = "live" /\ p.deploy \in {d, e}
      BY <2>2, <2>4
    <2>5. CASE ~(p.phase = "live" /\ p.deploy \in {d, e})
      <3>1. d \in Live /\ e \in Live
        BY <2>3, <2>5
      <3>2. PICK x \in Conn : handler[x].at = "supersede" /\ handler[x].deploy \in {d, e}
        BY <3>1 DEF OneIsOwned
      <3>3. x # c
        BY <2>1, <3>2
      <3> QED  BY <2>1, <3>2, <3>3
    <2> QED  BY <2>4, <2>5
  \* Where it works one is left; a failing one leaves them, and says so.
  <1>6. ASSUME NEW c \in Conn, SupersedeLiveDeploys(c) PROVE OneIsOwned'
    <2>1. ~left' => \A d \in Live' : d = handler[c].deploy
      BY <1>6, SupersedeFacts DEF Live
    <2> QED  BY <2>1 DEF OneIsOwned
  <1>7. ASSUME NEW c \in Conn, ReadLastLive(c) \/ PointBotBack(c) PROVE OneIsOwned'
    <2>1. status' = status /\ left' = left /\ handler[c].at # "supersede"
      BY <1>7, ReadFacts, PointFacts
    <2>2. \A e \in Conn : e # c => handler'[e] = handler[e]
      BY <1>7, ReadFacts, PointFacts, ReturnFacts
    <2> QED  BY <2>1, <2>2 DEF OneIsOwned, Live
  <1>8. ASSUME NEW c \in Conn, (Disconnect /\ c = conn) \/ PingTimeout(c) PROVE OneIsOwned'
    BY <1>1, <1>8, CutFacts
  <1>9. Disconnect => \E c \in Conn : c = conn
    BY BoundsOK DEF Disconnect, Base
  <1> QED  BY <1>2, <1>3, <1>4, <1>5, <1>6, <1>7, <1>8, <1>9 DEF Next, UploadDeploy, RollbackDeploy, OnDeployProgress

\* Outside a handler at most one deploy of the bot is live, also when the readLoops of two
\* connections handle their frames together, unless the statement that supersedes the others
\* failed and has not worked since: of two live rows one is named by a handler that has yet
\* to supersede the others, and a handler ends with one live row or with the failure noted.
THEOREM OneDeployIsLive == Spec => []OneLiveDeploy
  <1>1. OneIsOwned => OneLiveDeploy
    <2> SUFFICES ASSUME OneIsOwned, HandlersIdle, ~left PROVE Cardinality(Live) <= 1
      BY DEF OneLiveDeploy
    <2>1. \A d, e \in Live : d = e
      BY DEF OneIsOwned, HandlersIdle
    <2>2. CASE Live = {}
      BY <2>2, FS_EmptySet
    <2>3. CASE Live # {}
      <3>1. PICK d \in Live : TRUE
        BY <2>3
      <3>2. Live = {d}
        BY <2>1, <3>1
      <3>3. Cardinality(Live) = 1
        BY <3>2, FS_Singleton
      <3> QED  BY <3>3
    <2> QED  BY <2>2, <2>3
  <1> QED  BY <1>1, InitOwned, NextOwned, BaseHolds, PTL DEF Spec

-----------------------------------------------------------------------------
(* The deploy the bot points at.                                           *)

Pointing == OneHandler /\ PointingOK

LEMMA InitPointing == Init => Pointing
  <1> SUFFICES ASSUME Init PROVE Pointing
    OBVIOUS
  <1>1. 1 \in Conn
    BY DeployBounds DEF Conn
  <1>2. current = 0 /\ \A c \in Conn : handler[c].at = "idle" /\ up[c] = <<>>
    BY DEF Init, Idle
  <1> QED  BY <1>1, <1>2 DEF Pointing, OneHandler, PointingOK

\* On the first connection only the handler of that connection has something to do.
LEMMA OnlyHandler ==
  ASSUME Base, Pointing, NEW c \in Conn, conns <= 1, handler[c].at # "idle" \/ up[c] # <<>>
  PROVE  c = 1
  BY DEF Pointing, OneHandler

LEMMA NextPointing == ASSUME Base, Pointing, [Next]_vars PROVE Pointing'
  <1>0. /\ 1 \in Conn /\ (conn # 0 => conns = conn) /\ conns \in Nat /\ conn \in Conn \cup {0}
        /\ current \in 0 .. Len(status)
    BY BoundsOK, HandlerFacts DEF Base, TypeOK
  <1>1. ASSUME UNCHANGED <<status, current, handler, conns, kept>>,
               \A c \in Conn : c # 1 /\ conns <= 1 => up'[c] = up[c]
        PROVE  Pointing'
    BY <1>1 DEF Pointing, OneHandler, PointingOK
  <1>2. CASE UNCHANGED vars \/ BotAction \/ DeleteBot \/ ReadBot \/ SendSpec \/ Sync
    BY <1>1, <1>2 DEF vars, BotAction, DeleteBot, ReadBot, SendSpec, Sync, database, link, panel, agent, observers
  <1>3. CASE Connect
    <2>1. UNCHANGED <<status, current, handler, up, kept>> /\ conns' = conns + 1
      BY <1>3 DEF Connect, database
    <2>2. conns' <= 1 => conns <= 1
      BY <1>0, <2>1
    <2> QED  BY <2>1, <2>2 DEF Pointing, OneHandler, PointingOK
  <1>4. CASE StartDeploy
    <2>1. UNCHANGED <<handler, up, conns>>
      BY <1>4 DEF StartDeploy, link
    <2>2. status'[current'] # "failed"
      BY <1>4, StartRows
    <2>3. ASSUME handler[1].at = "point", handler[1].prev # 0, conns <= 1
          PROVE  status'[handler[1].prev] # "failed"
      <3>1. handler[1].prev \in DOMAIN status
        BY <1>0, <2>3, HandlerFacts DEF HandlerAt
      <3>2. status[handler[1].prev] # "failed"
        BY <2>3 DEF Pointing, PointingOK
      <3> QED  BY <1>4, <3>1, <3>2, StartRows
    <2> QED  BY <2>1, <2>2, <2>3 DEF Pointing, OneHandler, PointingOK
  <1>5. ASSUME NEW c \in Conn, (Disconnect /\ c = conn) \/ PingTimeout(c) PROVE Pointing'
    <2>1. UNCHANGED <<status, current, handler, conns, kept>>
      BY <1>5, CutFacts
    <2>2. \A e \in Conn : e # c => up'[e] = up[e]
      BY <1>5, CutFacts, TailLost
    <2>3. conns <= 1 => c = 1
      <3>1. CASE PingTimeout(c)
        BY <3>1, OnlyHandler DEF PingTimeout
      <3>2. CASE c = conn
        <4>1. conns = conn /\ conn # 0
          BY <1>0, <3>2, DeployBounds DEF Conn
        <4> QED  BY <1>0, <3>2, <4>1, DeployBounds DEF Conn
      <3> QED  BY <1>5, <3>1, <3>2
    <2> QED  BY <1>1, <2>1, <2>2, <2>3
  <1>6. ASSUME UNCHANGED <<status, current, handler, conns, kept>>, NEW phase \in {"fetching", "live", "failed"},
               NEW d \in DOMAIN status, Report(phase, d)
        PROVE  Pointing'
    <2>1. \A c \in Conn : c # conn => up'[c] = up[c]
      BY <1>6, ReportOK DEF Base
    <2>2. \A c \in Conn : c = conn /\ conns <= 1 => c = 1
      BY <1>0, DeployBounds DEF Conn
    <2> QED  BY <1>1, <1>6, <2>1, <2>2
  <1>7. CASE Receive
    BY <1>1, <1>7, ReceiveFacts
  <1>8. CASE Take
    <2>1. CASE up' = up
      BY <1>1, <1>8, <2>1, TakeFacts
    <2>2. CASE pend.deploy \in DOMAIN status /\ Report("fetching", pend.deploy)
      <3>1. UNCHANGED <<status, current, handler, conns, kept>>
        BY <1>8, TakeFacts
      <3> QED  BY <1>6, <2>2, <3>1
    <2> QED  BY <1>8, <2>1, <2>2, TakeFacts
  <1>9. CASE Finish
    <2>1. UNCHANGED <<status, current, handler, conns, kept>> /\ op.deploy \in DOMAIN status
      BY <1>9, FinishFacts
    <2>2. PICK phase \in {"live", "failed"} : Report(phase, op.deploy)
      BY <1>9, FinishFacts
    <2> QED  BY <1>6, <2>1, <2>2
  <1>10. CASE Fail
    <2>1. UNCHANGED <<status, current, handler, conns, kept>> /\ op.deploy \in DOMAIN status /\ Report("failed", op.deploy)
      BY <1>10, FailFacts
    <2> QED  BY <1>6, <2>1
  <1>11. ASSUME NEW c \in Conn, OnDeployProgress(c) PROVE Pointing'
    <2>1. conns' = conns
      BY <1>11, SetStatusFacts, SupersedeFacts, ReadFacts, PointFacts DEF OnDeployProgress
    <2> SUFFICES ASSUME conns <= 1
                 PROVE  /\ \A e \in Conn : e # 1 => handler'[e].at = "idle" /\ up'[e] = <<>>
                        /\ handler'[1].at \in {"idle", "supersede"} /\ ~kept' /\ current' # 0 => status'[current'] # "failed"
                        /\ handler'[1].at = "point" /\ handler'[1].prev # 0 => status'[handler'[1].prev] # "failed"
      BY <2>1 DEF Pointing, OneHandler, PointingOK
    <2>2. c = 1
      <3>1. handler[c].at # "idle" \/ up[c] # <<>>
        BY <1>11, SetStatusFacts, SupersedeFacts, ReadFacts, PointFacts DEF OnDeployProgress
      <3> QED  BY <3>1, OnlyHandler
    <2>3. /\ \A e \in Conn : e # 1 => handler[e].at = "idle" /\ up[e] = <<>>
          /\ handler[1].at \in {"idle", "supersede"} /\ ~kept /\ current # 0 => status[current] # "failed"
          /\ handler[1].at = "point" /\ handler[1].prev # 0 => status[handler[1].prev] # "failed"
      BY DEF Pointing, OneHandler, PointingOK
    <2>4. {0} \cup DOMAIN status = 0 .. Len(status)
      BY HandlerFacts
    <2>6. CASE SetStatus(1)
      <3> DEFINE p == up[1][1]
      <3>1. /\ current' = current /\ kept' = kept /\ handler[1].at = "idle"
            /\ \A e \in Conn : e # 1 => handler'[e] = handler[e] /\ up'[e] = up[e]
            /\ \A d \in DOMAIN status : status'[d] \in {p.phase, status[d]}
        <4>1. /\ current' = current /\ kept' = kept /\ handler[1].at = "idle"
              /\ \A e \in Conn : e # 1 => handler'[e] = handler[e] /\ up'[e] = up[e]
          BY <1>0, <2>6, SetStatusFacts
        <4>2. \A d \in DOMAIN status : /\ d # p.deploy => status'[d] = status[d]
                                       /\ d = p.deploy => status'[d] \in {p.phase, status[d]}
          BY <1>0, <2>6, SetStatusFacts
        <4> QED  BY <4>1, <4>2
      <3>2. handler'[1].at = CASE p.phase = "live" -> "supersede" [] p.phase = "failed" -> "last" [] OTHER -> "idle"
        BY <1>0, <2>6, SetStatusFacts
      <3> HIDE DEF p
      <3>3. handler'[1].at # "point"
        BY <3>2
      <3>4. handler'[1].at \in {"idle", "supersede"} => p.phase # "failed"
        BY <3>2
      <3>5. ~kept /\ current # 0 => current \in DOMAIN status /\ status[current] # "failed"
        BY <1>0, <2>3, <2>4, <3>1
      <3> QED  BY <2>3, <3>1, <3>3, <3>4, <3>5
    <2>7. CASE SupersedeLiveDeploys(1)
      <3>1. /\ current' = current /\ kept' = kept /\ up' = up /\ handler[1].at = "supersede" /\ handler'[1].at = "idle"
            /\ \A e \in Conn : e # 1 => handler'[e] = handler[e]
        BY <1>0, <2>7, SupersedeFacts, ReturnFacts
      <3>2. \A d \in DOMAIN status : status'[d] \in {status[d], "superseded"}
        BY <1>0, <2>7, SupersedeFacts
      <3>3. ~kept /\ current # 0 => current \in DOMAIN status /\ status[current] # "failed"
        BY <1>0, <2>3, <2>4, <3>1
      <3> QED  BY <2>3, <3>1, <3>2, <3>3
    <2>8. CASE ReadLastLive(1)
      <3>1. /\ UNCHANGED <<status, current, kept, up>> /\ handler'[1].at = "point"
            /\ handler'[1].prev \in {0, LastLiveDeploy} /\ \A e \in Conn : e # 1 => handler'[e] = handler[e]
        BY <1>0, <2>8, ReadFacts
      <3>2. LastLiveDeploy # 0 => status[LastLiveDeploy] # "failed"
        BY LastLive DEF Live, Base
      <3> QED  BY <2>3, <3>1, <3>2
    <2>9. CASE PointBotBack(1)
      <3>1. /\ UNCHANGED <<status, up>> /\ handler[1].at = "point" /\ (~kept' => current' = handler[1].prev)
            /\ handler'[1].at = "idle" /\ \A e \in Conn : e # 1 => handler'[e] = handler[e]
        BY <1>0, <2>9, PointFacts, ReturnFacts
      <3>2. ~kept' /\ current' # 0 => status'[current'] # "failed"
        BY <2>3, <3>1
      <3> QED  BY <2>3, <3>1, <3>2
    <2> QED  BY <1>11, <2>2, <2>6, <2>7, <2>8, <2>9 DEF OnDeployProgress
  <1>12. Disconnect => \E c \in Conn : c = conn
    BY BoundsOK DEF Disconnect, Base
  <1> QED  BY <1>2, <1>3, <1>4, <1>5, <1>7, <1>8, <1>9, <1>10, <1>11, <1>12 DEF Next, UploadDeploy, RollbackDeploy

\* On the first connection, when its handler is done, the bot does not point at a deploy
\* that failed, unless the statement that points it back failed and its deploy has not been
\* written since: what the handler read as live cannot fail before it points there.
THEOREM NotAtAFailedDeploy == Spec => []FailedIsNotCurrent
  <1>1. Base /\ Pointing => FailedIsNotCurrent
    <2> SUFFICES ASSUME Base, Pointing, conns <= 1, HandlersIdle, ~kept, current # 0 PROVE status[current] # "failed"
      BY DEF FailedIsNotCurrent
    <2>1. handler[1].at = "idle"
      BY BoundsOK DEF HandlersIdle, Base
    <2> QED  BY <2>1 DEF Pointing, PointingOK
  <1> QED  BY <1>1, InitPointing, NextPointing, BaseHolds, PTL DEF Spec

-----------------------------------------------------------------------------
(* A reconnect heals.                                                      *)

LEMMA InitHealing == Init => Healing
  BY DEF Init, Healing

LEMMA NextHealing == ASSUME Base, Healing, [Next]_vars PROVE Healing'
  <1>0. NoSpec \notin Frame /\ Wanted \in Frame /\ (Wanted = Remove <=> deleted)
    BY WantedOK, SpecsOK DEF Base
  <1>1. ASSUME UNCHANGED <<current, desired, deleted>> PROVE Wanted' = Wanted
    BY <1>1 DEF Wanted
  <1>2. CASE UNCHANGED vars
    <2>1. UNCHANGED <<current, desired, deleted, conn, down, specs, syncDue, pend, op, cancelled, disk, applied, faults,
                      calm>>
      BY <1>2 DEF vars, database, panel, link, agent, observers, bounds
    <2> QED  BY <1>1, <2>1 DEF Healing, OnItsWay, Settled
  \* Steps that change the rows: nothing is promised until the next connection.
  <1>3. ASSUME UNCHANGED <<conn, down, op, cancelled>>, calm' = FALSE PROVE Healing'
    BY <1>3 DEF Healing
  <1>4. CASE StartDeploy \/ BotAction \/ DeleteBot
    BY <1>3, <1>4 DEF StartDeploy, BotAction, DeleteBot, link, agent
  \* Steps that put what is wanted on its way.
  <1>5. ASSUME UNCHANGED <<current, desired, deleted, conn, op, cancelled, calm, pend, disk, applied, faults>>,
               \/ UNCHANGED <<down, syncDue>>
               \/ Transmit(Wanted) /\ (syncDue' = syncDue \/ conn = 0 \/ syncDue' = FALSE),
               \A g \in Frame : specs'[g] > 0 => specs[g] > 0 \/ g = Wanted
         PROVE  Healing'
    <2>1. Wanted' = Wanted
      BY <1>1, <1>5
    <2>2. CASE UNCHANGED <<down, syncDue>>
      BY <1>5, <2>1, <2>2 DEF Healing, OnItsWay, Settled
    <2>3. CASE Transmit(Wanted)
      <3>1. /\ \A g \in Frame : down'[g] > 0 => down[g] > 0 \/ g = Wanted
            /\ conn # 0 => down'[Wanted] > 0
            /\ conn = 0 => down' = down
        BY <1>0, <2>3, TransmitOK DEF Base
      <3> QED  BY <1>0, <1>5, <2>1, <3>1 DEF Healing, OnItsWay
    <2> QED  BY <1>5, <2>2, <2>3
  <1>6. CASE ReadBot \/ SendSpec \/ Sync
    <2>1. CASE ReadBot
      <3>1. UNCHANGED <<current, desired, deleted, conn, op, cancelled, calm, pend, disk, applied, faults, down, syncDue>>
        BY <2>1, ReadBotFacts
      <3> QED  BY <1>5, <2>1, <3>1, ReadBotFacts
    <2>2. CASE SendSpec
      <3>1. PICK f \in Frame : specs[f] > 0 /\ Transmit(f)
        BY <2>2, SendSpecFacts
      <3>2. /\ UNCHANGED <<current, desired, deleted, conn, op, cancelled, calm, pend, disk, applied, faults, syncDue>>
            /\ \A g \in Frame : specs'[g] > 0 => specs[g] > 0
        BY <2>2, SendSpecFacts
      <3>3. CASE f = Wanted
        BY <1>5, <3>1, <3>2, <3>3
      <3>4. CASE f # Wanted
        <4>1. conn # 0 => ~calm
          BY <3>1, <3>4 DEF Healing
        <4>2. conn = 0 => down' = down
          BY <3>1, TransmitOK DEF Base
        <4> QED  BY <3>2, <4>1, <4>2 DEF Healing
      <3> QED  BY <3>3, <3>4
    <2>3. CASE Sync
      <3>1. /\ UNCHANGED <<current, desired, deleted, conn, op, cancelled, pend, disk, applied, faults, specs>>
            /\ syncDue' = FALSE /\ (conn = 0 => down' = down)
            /\ (calm' = calm /\ Transmit(Wanted)) \/ calm' = FALSE
        BY <2>3, SyncFacts
      <3>2. CASE calm' = FALSE
        BY <3>1, <3>2 DEF Healing
      <3>3. CASE calm' = calm /\ Transmit(Wanted)
        BY <1>5, <3>1, <3>3
      <3> QED  BY <3>1, <3>2, <3>3
    <2> QED  BY <1>6, <2>1, <2>2, <2>3
  <1>7. CASE Connect
    <2>1. /\ UNCHANGED <<current, desired, deleted, specs, down, op, cancelled>> /\ conn = 0
          /\ conn' = conns + 1 /\ syncDue' = TRUE /\ calm' = (\A f \in Frame : specs[f] > 0 => f = Wanted)
      BY <1>7 DEF Connect, SyncStarts, database, agent
    <2>2. conn' # 0
      BY <2>1, BoundsOK DEF Base
    <2>3. \A f \in Frame : ~(down'[f] > 0)
      BY <2>1 DEF Healing, NoFrames
    <2>4. Wanted' = Wanted
      BY <1>1, <2>1
    <2> QED  BY <2>1, <2>2, <2>3, <2>4 DEF Healing, OnItsWay
  <1>8. ASSUME NEW c \in Conn, (Disconnect /\ c = conn) \/ PingTimeout(c) PROVE Healing'
    <2>1. UNCHANGED <<current, desired, deleted, specs, syncDue, pend, op, cancelled, disk, applied, calm, faults>>
      BY <1>8, CutFacts
    <2>2. CASE conn' = 0 /\ down' = NoFrames
      BY <2>1, <2>2 DEF Healing
    <2>3. CASE UNCHANGED <<conn, down>>
      BY <1>1, <2>1, <2>3 DEF Healing, OnItsWay, Settled
    <2> QED  BY <1>8, <2>2, <2>3, CutFacts
  <1>9. CASE Receive
    <2>1. PICK f \in Frame : /\ down[f] > 0 /\ pend' = f
                             /\ cancelled' = (cancelled \/ (op # NoSpec /\ f.deploy # op.deploy))
      BY <1>9, ReceiveFacts
    <2>2. UNCHANGED <<current, desired, deleted, conn, specs, op, calm>> /\ \A g \in Frame : down'[g] > 0 => down[g] > 0
      BY <1>9, ReceiveFacts
    <2>3. conn # 0
      BY <2>1 DEF Healing, NoFrames
    <2>4. Wanted' = Wanted
      BY <1>1, <2>2
    <2>5. op = NoSpec => ~cancelled'
      BY <2>1 DEF Healing
    <2> QED  BY <2>1, <2>2, <2>3, <2>4, <2>5 DEF Healing, OnItsWay
  <1>10. CASE Take
    <2>1. /\ pend \in Frame /\ pend' = NoSpec /\ cancelled' = FALSE /\ op = NoSpec
          /\ UNCHANGED <<current, desired, deleted, specs, syncDue, conn, down, calm>>
      BY <1>10, TakeFacts
    <2>2. Wanted' = Wanted
      BY <1>1, <2>1
    <2>3. pend = Wanted => \/ op' = Wanted
                           \/ op' = NoSpec /\ Settled'
      <3> HAVE pend = Wanted
      <3>1. CASE pend = Remove /\ disk' = 0 /\ applied' = NoSpec /\ UNCHANGED <<op, faults>>
        BY <1>0, <2>1, <3>1 DEF Settled
      <3>2. CASE pend = applied /\ UNCHANGED <<op, disk, applied, faults>>
        <4>1. pend # Remove
          BY <2>1, <3>2, <1>0, SpecsOK DEF Base, TypeOK
        <4> QED  BY <1>0, <2>1, <2>2, <3>2, <4>1 DEF Settled
      <3>3. CASE pend # Remove /\ applied' = pend /\ UNCHANGED <<op, disk, faults>>
        BY <1>0, <2>1, <2>2, <3>3 DEF Settled
      <3>4. CASE pend # Remove /\ applied' = NoSpec /\ UNCHANGED <<op, disk>> /\ faults' = faults + 1
        <4>1. faults' # 0
          BY <3>4, Counters
        <4> QED  BY <1>0, <2>1, <2>2, <3>4, <4>1 DEF Settled
      <3>5. CASE op' = pend
        BY <3>5
      <3> QED  BY <1>10, <3>1, <3>2, <3>3, <3>4, <3>5, TakeFacts
    <2> QED  BY <1>0, <2>1, <2>2, <2>3 DEF Healing, OnItsWay
  <1>11. ASSUME op \in BotSpec, op' = NoSpec, ~cancelled',
                UNCHANGED <<current, desired, deleted, specs, syncDue, conn, down, calm, pend>>,
                ~cancelled => (applied' = op /\ faults' = faults) \/ (applied' = NoSpec /\ faults' = faults + 1)
         PROVE  Healing'
    <2>1. Wanted' = Wanted /\ op # NoSpec /\ op # Remove
      BY <1>1, <1>11, SpecsOK
    <2>2. op = Wanted /\ ~cancelled => Settled'
      <3> HAVE op = Wanted /\ ~cancelled
      <3>1. ~deleted'
        BY <1>0, <1>11, <2>1
      <3>2. faults' = faults + 1 => faults' # 0
        BY Counters
      <3> QED  BY <1>11, <2>1, <3>1, <3>2 DEF Settled
    <2>3. UNCHANGED <<specs, syncDue, conn, down, calm, pend>>
      BY <1>11
    <2> QED  BY <1>11, <2>1, <2>2, <2>3 DEF Healing, OnItsWay
  <1>12. CASE Finish
    BY <1>11, <1>12, FinishFacts
  <1>13. CASE Fail
    BY <1>11, <1>13, FailFacts
  <1>14. ASSUME NEW c \in Conn, OnDeployProgress(c) PROVE Healing'
    <2>1. CASE PointBotBack(c)
      BY <1>3, <2>1, PointFacts
    <2>2. CASE SetStatus(c) \/ SupersedeLiveDeploys(c) \/ ReadLastLive(c)
      <3>1. UNCHANGED <<current, desired, deleted, conn, down, specs, syncDue, pend, op, cancelled, disk, applied, faults,
                        calm>>
        BY <2>2, SetStatusFacts, SupersedeFacts, ReadFacts
      <3> QED  BY <1>1, <3>1 DEF Healing, OnItsWay, Settled
    <2> QED  BY <1>14, <2>1, <2>2 DEF OnDeployProgress
  <1>15. Disconnect => \E c \in Conn : c = conn
    BY BoundsOK DEF Disconnect, Base
  <1> QED  BY <1>2, <1>4, <1>6, <1>7, <1>8, <1>9, <1>10, <1>12, <1>13, <1>14, <1>15
           DEF Next, UploadDeploy, RollbackDeploy

\* If since the reconnect no row has changed, the sync has not failed, and no spec read from
\* an older row was still to be sent, then once everything has arrived the agent has applied
\* what the panel wants, unless applying it failed: what the sync sent is on its way,
\* recorded, being fetched or in force, and every other frame says the same.
THEOREM ReconnectHeals == Spec => []SyncHeals
  <1>1. Base /\ Healing => SyncHeals
    <2> SUFFICES ASSUME Base, Healing, Quiet, calm PROVE Settled
      BY DEF SyncHeals, Settled
    <2>1. NoSpec # Wanted /\ Wanted \in Frame
      BY WantedOK, SpecsOK DEF Base
    <2>2. ~(down[Wanted] > 0) /\ conn # 0 /\ ~syncDue /\ pend = NoSpec /\ op = NoSpec
      BY <2>1 DEF Quiet, NoFrames
    <2> QED  BY <2>1, <2>2 DEF Healing, OnItsWay
  <1> QED  BY <1>1, InitHealing, NextHealing, BaseHolds, PTL DEF Spec

-----------------------------------------------------------------------------
(* A fetching deploy will end.                                             *)

LEMMA InitEnding == Init => Ending
  <1> SUFFICES ASSUME Init PROVE Ending
    OBVIOUS
  <1>1. DOMAIN status = {} /\ \A c \in Conn : DOMAIN up[c] = {}
    BY LenProperties, EmptySeq DEF Init
  <1> QED  BY <1>1 DEF Ending

\* Nothing that ended before is forgotten, or d is told of anew.
LEMMA StillEnding ==
  ASSUME Base, Ending, NEW d,
         \A x \in Conn : \A e, i : Ends(e, i, x) => Ends(e, i, x)' \/ e \in lost',
         \A e : e # d /\ (e \in lost \/ Fetches(e)) => e \in lost' \/ Fetches(e)',
         \A x \in Conn : \A i \in DOMAIN up'[x] : up'[x][i].phase = "fetching" =>
           (i \in DOMAIN up[x] /\ up'[x][i] = up[x][i]) \/ up'[x][i].deploy = d,
         \A e \in DOMAIN status' : status'[e] = "fetching" => e \in DOMAIN status /\ status[e] = "fetching",
         \/ d \in lost' \/ Fetches(d)'
         \/ \E b \in Conn : /\ Ends(d, 0, b)'
                            /\ \A i \in DOMAIN up'[b] : up'[b][i].phase = "fetching" => Ends(d, i, b)'
  PROVE  Ending'
  <1>1. ASSUME NEW e \in DOMAIN status', status'[e] = "fetching"
        PROVE  Fetches(e)' \/ e \in lost' \/ \E c \in Conn : Ends(e, 0, c)'
    <2>1. CASE e = d
      BY <2>1
    <2>2. CASE e # d
      <3>1. Fetches(e) \/ e \in lost \/ \E c \in Conn : Ends(e, 0, c)
        BY <1>1 DEF Ending
      <3> QED  BY <2>2, <3>1
    <2> QED  BY <2>1, <2>2
  <1>2. ASSUME NEW c \in Conn, NEW i \in DOMAIN up'[c], up'[c][i].phase = "fetching", NEW e, e = up'[c][i].deploy
        PROVE  Fetches(e)' \/ e \in lost' \/ Ends(e, i, c)' \/ \E b \in Conn \ {c} : Ends(e, 0, b)'
    <2>1. CASE e = d
      BY <1>2, <2>1
    <2>2. CASE e # d
      <3>1. i \in DOMAIN up[c] /\ up'[c][i] = up[c][i]
        BY <1>2, <2>2
      <3>2. Fetches(e) \/ e \in lost \/ Ends(e, i, c) \/ \E b \in Conn \ {c} : Ends(e, 0, b)
        BY <1>2, <3>1 DEF Ending
      <3> QED  BY <2>2, <3>2
    <2> QED  BY <2>1, <2>2
  <1> HIDE DEF Fetches, Ends
  <1> QED  BY <1>1, <1>2 DEF Ending

\* A frame that ends what is being fetched, or says that it is.
LEMMA ReportEnding ==
  ASSUME Base, Ending, NEW phase \in {"fetching", "live", "failed"}, NEW d \in DOMAIN status, Report(phase, d),
         UNCHANGED status, op # NoSpec => op.deploy = d,
         phase = "fetching" => op' # NoSpec /\ op'.deploy = d
  PROVE  Ending'
  <1>1. /\ \A x \in Conn : x # conn => up'[x] = up[x]
        /\ \A e : e # d /\ e \in lost => e \in lost'
        /\ \A e : Fetches(e) => e = d
    <2>1. /\ \A x \in Conn : x # conn => up'[x] = up[x]
          /\ lost' = (IF phase = "fetching" THEN lost \ {d} ELSE lost) \/ lost' = lost \cup {d}
      BY ReportOK DEF Base
    <2>2. \A e : e # d /\ e \in lost => e \in lost'
      BY <2>1
    <2>3. \A e : Fetches(e) => e = d
      BY DEF Fetches
    <2> QED  BY <2>1, <2>2, <2>3
  <1>2. CASE up' = up
    <2>1. d \in lost' \/ Fetches(d)'
      <3>1. phase # "fetching" => d \in lost'
        <4>1. \/ phase # "fetching" => d \in lost'
              \/ conn \in Conn /\ Len(up'[conn]) = Len(up[conn]) + 1
          BY ReportOK DEF Base
        <4>2. conn \in Conn => Len(up[conn]) \in Nat
          BY UpOK
        <4> QED  BY <1>2, <4>1, <4>2
      <3>2. phase = "fetching" => Fetches(d)'
        BY DEF Fetches
      <3> QED  BY <3>1, <3>2
    <2>2. \A x \in Conn : \A e, i : Ends(e, i, x) => Ends(e, i, x)'
      BY <1>2 DEF Ends
    <2> QED  BY <1>1, <1>2, <2>1, <2>2, StillEnding
  <1>3. CASE up' # up
    <2> DEFINE n == Len(up[conn])
    <2>1. /\ conn \in Conn /\ Len(up'[conn]) = n + 1 /\ \A j \in 1 .. n : up'[conn][j] = up[conn][j]
          /\ up'[conn][n + 1] = [phase |-> phase, deploy |-> d]
      BY <1>3, ReportOK DEF Base
    <2>2. up'[conn] \in Seq(Progress(Len(status)))
      BY <2>1, ReportOK DEF Base
    <2>3. DOMAIN up'[conn] = 1 .. n + 1 /\ DOMAIN up[conn] = 1 .. n /\ n \in Nat
      <3>1. DOMAIN up'[conn] = 1 .. Len(up'[conn])
        BY <2>2, LenProperties
      <3>2. DOMAIN up[conn] = 1 .. n /\ n \in Nat
        BY <2>1, UpOK
      <3> QED  BY <2>1, <3>1, <3>2
    <2>4. up'[conn][n + 1].phase = phase /\ up'[conn][n + 1].deploy = d
      BY <2>1
    <2> HIDE DEF n
    <2>5. \A x \in Conn : \A e, i : Ends(e, i, x) => Ends(e, i, x)'
      <3> TAKE x \in Conn
      <3>1. \A j \in DOMAIN up[x] : j \in DOMAIN up'[x] /\ up'[x][j] = up[x][j]
        BY <1>1, <2>1, <2>3
      <3> QED  BY <3>1 DEF Ends
    <2>6. \A x \in Conn : \A i \in DOMAIN up'[x] : up'[x][i].phase = "fetching" =>
            (i \in DOMAIN up[x] /\ up'[x][i] = up[x][i]) \/ up'[x][i].deploy = d
      <3> TAKE x \in Conn
      <3> TAKE i \in DOMAIN up'[x]
      <3>1. CASE x # conn
        BY <1>1, <3>1
      <3>2. CASE x = conn /\ i = n + 1
        BY <2>4, <3>2
      <3>3. CASE x = conn /\ i # n + 1
        <4>1. i \in 1 .. n
          BY <2>3, <3>3
        <4> QED  BY <2>1, <2>3, <3>3, <4>1
      <3> QED  BY <3>1, <3>2, <3>3
    <2>7. CASE phase = "fetching"
      <3>1. Fetches(d)'
        BY <2>7 DEF Fetches
      <3> QED  BY <1>1, <2>5, <2>6, <3>1, StillEnding
    <2>8. CASE phase # "fetching"
      <3>0. PICK b \in Conn : b = conn
        BY <2>1
      <3>1. n + 1 \in DOMAIN up'[b] /\ n + 1 > 0 /\ \A i \in DOMAIN up'[b] : i = n + 1 \/ n + 1 > i
        BY <2>3, <3>0
      <3>2. up'[b][n + 1].deploy = d /\ up'[b][n + 1].phase # "fetching"
        BY <2>4, <2>8, <3>0
      <3>3. Ends(d, 0, b)'
        BY <3>1, <3>2 DEF Ends
      <3>4. ASSUME NEW i \in DOMAIN up'[b], up'[b][i].phase = "fetching" PROVE Ends(d, i, b)'
        <4>1. n + 1 > i
          BY <3>1, <3>2, <3>4
        <4> QED  BY <3>1, <3>2, <4>1 DEF Ends
      <3>5. \E x \in Conn : Ends(d, 0, x)' /\ \A i \in DOMAIN up'[x] : up'[x][i].phase = "fetching" => Ends(d, i, x)'
        BY <3>3, <3>4
      <3> QED  BY <1>1, <2>5, <2>6, <3>5, StillEnding
    <2> QED  BY <2>7, <2>8
  <1> QED  BY <1>2, <1>3

\* A frame is handled: what it says has ended is no longer fetching, or cannot be told.
LEMMA SetStatusEnding == ASSUME Base, Ending, NEW c \in Conn, SetStatus(c) PROVE Ending'
  <1> DEFINE p == up[c][1]
             n == Len(up[c])
  <1>1. /\ op' = op /\ n > 0 /\ DOMAIN status' = DOMAIN status /\ p.deploy \in DOMAIN status
        /\ lost' \in {lost, lost \cup {p.deploy}}
        /\ \A x \in Conn : x # c => up'[x] = up[x]
    BY SetStatusFacts
  <1>2. \A d \in DOMAIN status : /\ d # p.deploy => status'[d] = status[d]
                                 /\ d = p.deploy => status'[d] \in {p.phase, status[d]}
    BY SetStatusFacts
  <1>3. p.phase # "fetching" /\ p.deploy \notin lost' => status'[p.deploy] = p.phase /\ ~Overtakes(c, p.deploy)
    BY SetStatusFacts
  <1>4. up'[c] \in Seq(Progress(Len(status))) /\ Len(up'[c]) = n - 1 /\ \A i \in 1 .. n - 1 : up'[c][i] = up[c][i + 1]
    BY SetStatusFacts
  <1>5. DOMAIN up'[c] = 1 .. n - 1 /\ DOMAIN up[c] = 1 .. n /\ n \in Nat /\ 1 \in DOMAIN up[c]
    <2>1. DOMAIN up'[c] = 1 .. n - 1
      BY <1>4, LenProperties
    <2>2. DOMAIN up[c] = 1 .. n /\ n \in Nat
      BY UpOK
    <2> QED  BY <1>1, <2>1, <2>2
  <1>6. \A e : (Fetches(e) => Fetches(e)') /\ (e \in lost => e \in lost')
    BY <1>1 DEF Fetches
  <1>7. \A x \in Conn : x # c => \A e, i : Ends(e, i, x) => Ends(e, i, x)'
    BY <1>1 DEF Ends
  <1>8. ASSUME NEW e, NEW i \in 0 .. n, Ends(e, i, c)
        PROVE  \/ i > 0 /\ Ends(e, i - 1, c)'
               \/ i = 0 /\ (Ends(e, 0, c)' \/ (e = p.deploy /\ p.phase # "fetching"))
    <2>1. PICK j \in DOMAIN up[c] : j > i /\ up[c][j].deploy = e /\ up[c][j].phase # "fetching"
      BY <1>8 DEF Ends
    <2>2. CASE j = 1
      <3>1. i = 0
        BY <1>5, <2>1, <2>2
      <3> QED  BY <2>1, <2>2, <3>1
    <2>3. CASE j # 1
      <3> DEFINE k == j - 1
      <3>1. k \in 1 .. n - 1 /\ k + 1 = j /\ k > i - 1 /\ k > 0
        BY <1>5, <2>1, <2>3
      <3> HIDE DEF k
      <3>2. k \in DOMAIN up'[c] /\ up'[c][k] = up[c][j]
        BY <1>4, <1>5, <3>1
      <3>3. Ends(e, i - 1, c)' /\ Ends(e, 0, c)'
        BY <2>1, <3>1, <3>2 DEF Ends
      <3>4. i > 0 \/ i = 0
        BY <1>5
      <3> QED  BY <3>3, <3>4
    <2> QED  BY <2>2, <2>3
  <1>9. ASSUME NEW e \in DOMAIN status', status'[e] = "fetching"
        PROVE  Fetches(e)' \/ e \in lost' \/ \E x \in Conn : Ends(e, 0, x)'
    <2>1. 0 \in 0 .. n /\ 1 \in 0 .. n /\ 1 > 0 /\ 1 - 1 = 0 /\ ~(0 > 0) /\ 1 # 0
      BY <1>5
    <2>2. CASE e = p.deploy /\ p.phase # "fetching"
      BY <1>3, <1>9, <2>2
    <2>3. CASE e = p.deploy /\ p.phase = "fetching"
      <3>1. Fetches(e) \/ e \in lost \/ Ends(e, 1, c) \/ \E b \in Conn \ {c} : Ends(e, 0, b)
        BY <1>5, <2>3 DEF Ending
      <3>2. Ends(e, 1, c) => Ends(e, 1 - 1, c)'
        BY <1>8, <2>1
      <3> QED  BY <1>6, <1>7, <2>1, <3>1, <3>2
    <2>4. CASE e # p.deploy
      <3>1. status[e] = "fetching"
        BY <1>1, <1>2, <1>9, <2>4
      <3>2. Fetches(e) \/ e \in lost \/ \E x \in Conn : Ends(e, 0, x)
        BY <1>1, <1>9, <3>1 DEF Ending
      <3>3. Ends(e, 0, c) => Ends(e, 0, c)'
        BY <1>8, <2>1, <2>4
      <3> QED  BY <1>6, <1>7, <3>2, <3>3
    <2> QED  BY <2>2, <2>3, <2>4
  <1>10. ASSUME NEW x \in Conn, NEW i \in DOMAIN up'[x], up'[x][i].phase = "fetching", NEW e, e = up'[x][i].deploy
         PROVE  Fetches(e)' \/ e \in lost' \/ Ends(e, i, x)' \/ \E b \in Conn \ {x} : Ends(e, 0, b)'
    <2>1. CASE x = c
      <3> DEFINE k == i + 1
      <3>1. k \in DOMAIN up[c] /\ k \in 0 .. n /\ up'[c][i] = up[c][k] /\ k - 1 = i /\ k # 0
        BY <1>4, <1>5, <1>10, <2>1
      <3> HIDE DEF k
      <3>2. Fetches(e) \/ e \in lost \/ Ends(e, k, c) \/ \E b \in Conn \ {c} : Ends(e, 0, b)
        BY <1>10, <2>1, <3>1 DEF Ending
      <3>3. Ends(e, k, c) => Ends(e, k - 1, c)'
        BY <1>8, <3>1
      <3> QED  BY <1>6, <1>7, <2>1, <3>1, <3>2, <3>3
    <2>2. CASE x # c
      <3>1. i \in DOMAIN up[x] /\ up'[x][i] = up[x][i]
        BY <1>1, <1>10, <2>2
      <3>2. Fetches(e) \/ e \in lost \/ Ends(e, i, x) \/ \E b \in Conn \ {x} : Ends(e, 0, b)
        BY <1>10, <3>1 DEF Ending
      <3>3. CASE e = p.deploy /\ p.phase # "fetching"
        <4>1. up[x][i] = [phase |-> "fetching", deploy |-> e]
          BY <1>10, <3>1, UpOK DEF Progress
        <4>2. Overtakes(c, e)
          BY <2>2, <3>1, <4>1 DEF Overtakes
        <4> QED  BY <1>3, <3>3, <4>2
      <3>4. CASE ~(e = p.deploy /\ p.phase # "fetching")
        <4>1. 0 \in 0 .. n /\ ~(0 > 0)
          BY <1>5
        <4>2. Ends(e, 0, c) => Ends(e, 0, c)'
          BY <1>8, <3>4, <4>1
        <4> QED  BY <1>6, <1>7, <2>2, <3>2, <4>2
      <3> QED  BY <3>3, <3>4
    <2> QED  BY <2>1, <2>2
  <1> HIDE DEF p, n
  <1> QED  BY <1>9, <1>10 DEF Ending

LEMMA NextEnding == ASSUME Base, Ending, [Next]_vars PROVE Ending'
  \* Steps that start no fetching and end none.
  <1>1. ASSUME UNCHANGED <<up, op, lost>>,
               \A d \in DOMAIN status' : status'[d] = "fetching" => d \in DOMAIN status /\ status[d] = "fetching"
        PROVE  Ending'
    BY <1>1 DEF Ending, Ends, Fetches
  <1>2. CASE UNCHANGED vars \/ BotAction \/ DeleteBot \/ ReadBot \/ SendSpec \/ Connect \/ Sync
    <2>1. UNCHANGED <<status, up, op, lost>>
      BY <1>2 DEF vars, BotAction, DeleteBot, ReadBot, SendSpec, Connect, Sync, database, link, panel, agent, observers
    <2> QED  BY <1>1, <2>1
  <1>3. CASE StartDeploy
    <2>1. UNCHANGED <<up, op, lost>>
      BY <1>3 DEF StartDeploy, link, agent
    <2>2. \A d \in DOMAIN status' : status'[d] = "fetching" => d \in DOMAIN status /\ status[d] = "fetching"
      <3> TAKE d \in DOMAIN status'
      <3>1. d \in DOMAIN status \/ d = Len(status) + 1
        BY <1>3, StartRows, Rows DEF Base
      <3> QED  BY <1>3, <3>1, StartRows
    <2> QED  BY <1>1, <2>1, <2>2
  <1>4. ASSUME NEW c \in Conn, (Disconnect /\ c = conn) \/ PingTimeout(c) PROVE Ending'
    <2>1. UNCHANGED <<status, op>>
      BY <1>4, CutFacts
    <2>2. /\ \A e \in Conn : e # c => up'[e] = up[e]
          /\ \A i \in DOMAIN up'[c] : i \in DOMAIN up[c] /\ up'[c][i] = up[c][i]
          /\ \A i \in DOMAIN up[c] : i \in DOMAIN up'[c] \/ up[c][i].phase = "fetching" \/ up[c][i].deploy \in lost'
          /\ lost \subseteq lost'
      BY <1>4, CutFacts, TailLost
    <2>3. \A x \in Conn : \A e, i : Ends(e, i, x) => Ends(e, i, x)' \/ e \in lost'
      <3> TAKE x \in Conn
      <3>1. CASE x # c
        BY <2>2, <3>1 DEF Ends
      <3>2. CASE x = c
        BY <2>2, <3>2 DEF Ends
      <3> QED  BY <3>1, <3>2
    <2>4. \A e : Fetches(e) => Fetches(e)'
      BY <2>1 DEF Fetches
    <2>5. ASSUME NEW e \in DOMAIN status', status'[e] = "fetching"
          PROVE  Fetches(e)' \/ e \in lost' \/ \E x \in Conn : Ends(e, 0, x)'
      <3>1. Fetches(e) \/ e \in lost \/ \E x \in Conn : Ends(e, 0, x)
        BY <2>1, <2>5 DEF Ending
      <3> QED  BY <2>2, <2>3, <2>4, <3>1
    <2>6. ASSUME NEW x \in Conn, NEW i \in DOMAIN up'[x], up'[x][i].phase = "fetching", NEW e, e = up'[x][i].deploy
          PROVE  Fetches(e)' \/ e \in lost' \/ Ends(e, i, x)' \/ \E b \in Conn \ {x} : Ends(e, 0, b)'
      <3>1. i \in DOMAIN up[x] /\ up'[x][i] = up[x][i]
        BY <2>2, <2>6
      <3>2. Fetches(e) \/ e \in lost \/ Ends(e, i, x) \/ \E b \in Conn \ {x} : Ends(e, 0, b)
        BY <2>6, <3>1 DEF Ending
      <3> QED  BY <2>2, <2>3, <2>4, <3>2
    <2> QED  BY <2>5, <2>6 DEF Ending
  <1>5. CASE Receive
    BY <1>1, <1>5, ReceiveFacts
  <1>6. CASE Take
    <2>1. status' = status /\ op = NoSpec
      BY <1>6, TakeFacts
    <2>2. CASE UNCHANGED <<op, up, lost>>
      BY <1>1, <2>1, <2>2
    <2>3. CASE pend.deploy \in DOMAIN status /\ op' = pend /\ Report("fetching", pend.deploy)
      <3>1. pend # NoSpec
        BY <1>6, TakeFacts, SpecsOK
      <3> QED  BY <2>1, <2>3, <3>1, ReportEnding
    <2> QED  BY <1>6, <2>2, <2>3, TakeFacts
  <1>7. CASE Finish
    <2>1. status' = status /\ op.deploy \in DOMAIN status
      BY <1>7, FinishFacts
    <2>2. PICK phase \in {"live", "failed"} : Report(phase, op.deploy)
      BY <1>7, FinishFacts
    <2> QED  BY <2>1, <2>2, ReportEnding
  <1>8. CASE Fail
    <2>1. status' = status /\ op.deploy \in DOMAIN status /\ Report("failed", op.deploy)
      BY <1>8, FailFacts
    <2> QED  BY <2>1, ReportEnding
  <1>9. ASSUME NEW c \in Conn, OnDeployProgress(c) PROVE Ending'
    <2>1. CASE SetStatus(c)
      BY <2>1, SetStatusEnding
    <2>2. CASE SupersedeLiveDeploys(c)
      <3>1. /\ UNCHANGED <<up, op, lost>> /\ DOMAIN status' = DOMAIN status
            /\ \A d \in DOMAIN status : status'[d] \in {status[d], "superseded"}
        BY <2>2, SupersedeFacts
      <3> QED  BY <1>1, <3>1
    <2>3. CASE ReadLastLive(c) \/ PointBotBack(c)
      BY <1>1, <2>3, ReadFacts, PointFacts
    <2> QED  BY <1>9, <2>1, <2>2, <2>3 DEF OnDeployProgress
  <1>10. Disconnect => \E c \in Conn : c = conn
    BY BoundsOK DEF Disconnect, Base
  <1> QED  BY <1>2, <1>3, <1>4, <1>5, <1>6, <1>7, <1>8, <1>9, <1>10 DEF Next, UploadDeploy, RollbackDeploy

\* A deploy the panel shows as fetching is being fetched, or the frame that ends it is on its
\* way, on whichever connection; unless that frame was dropped, went with its connection,
\* overtook the frame of an earlier connection, or its status could not be recorded.
THEOREM FetchingDeployWillEnd == Spec => []FetchingWillEnd
  <1>1. Ending => FetchingWillEnd
    <2> SUFFICES ASSUME Ending, NEW d \in DOMAIN status, status[d] = "fetching", ~Fetches(d), d \notin lost
                 PROVE  \E c \in Conn : \E i \in DOMAIN up[c] : up[c][i].deploy = d /\ up[c][i].phase # "fetching"
      BY DEF FetchingWillEnd, Fetches
    <2>1. \E c \in Conn : Ends(d, 0, c)
      BY DEF Ending
    <2> QED  BY <2>1 DEF Ends
  <1> QED  BY <1>1, InitEnding, NextEnding, BaseHolds, PTL DEF Spec
===============================================================================
