------------------------------ MODULE Supervisor ------------------------------
(***************************************************************************)
(* What the agent promises about a bot's container and volume, without     *)
(* queues, retries and Docker calls: it carries out the order it took last,*)
(* makes, starts and replaces a container only as that order says, installs*)
(* no code but the ordered one, and deletes data only to carry out a       *)
(* removal.  A container may go down by itself, and a crash of the agent   *)
(* forgets the order.  BotWorker implements it.                            *)
(***************************************************************************)
CONSTANTS
  NoSpec,     \* no order yet, or none any more
  NoDeploy,   \* a volume without code, a spec without a deploy
  NoVolume,   \* no volume
  NoBox       \* no container

VARIABLES
  order,      \* the spec taken last
  removing,   \* a removal is being carried out
  byHand,     \* a restart by hand was taken since
  version,    \* the code in the volume
  box         \* the container

promise == <<order, removing, byHand, version, box>>
Apart == <<order, removing, byHand>>

Init == order = NoSpec /\ removing = FALSE /\ byHand = FALSE /\ version = NoVolume /\ box = NoBox

Ordered == order # NoSpec /\ ~removing
Wanted == ~removing /\ (byHand \/ (order # NoSpec /\ order.desired = "running"))
AsOrdered(b) == b.deploy = version /\ b.cfg = order.cfg
Down(b) == [b EXCEPT !.running = FALSE]

-----------------------------------------------------------------------------
(* Orders.  A removal is not given up for another one.                     *)

Take ==
  /\ ~removing /\ order' # NoSpec
  /\ byHand' = FALSE /\ UNCHANGED <<removing, version, box>>

Restart == ~removing /\ byHand' = TRUE /\ UNCHANGED <<order, removing, version, box>>

Remove == ~removing /\ removing' = TRUE /\ UNCHANGED <<order, byHand, version, box>>

\* A removal ends with the data, which go after the container, or fails.
Removed ==
  /\ removing /\ removing' = FALSE /\ order' = NoSpec /\ UNCHANGED byHand
  /\ \/ box = NoBox /\ version' = NoVolume /\ UNCHANGED box
     \/ UNCHANGED version /\ (box' = box \/ (box # NoBox /\ box' = Down(box)))

\* The agent crashes, the container does not notice.
Crash == order' = NoSpec /\ removing' = FALSE /\ byHand' = FALSE /\ UNCHANGED <<version, box>>

-----------------------------------------------------------------------------
(* The volume and the container.                                           *)

Prepare == Ordered /\ version = NoVolume /\ version' = NoDeploy /\ UNCHANGED <<Apart, box>>

Install ==
  /\ Ordered /\ version # NoVolume /\ order.deploy # NoDeploy /\ version' = order.deploy
  /\ UNCHANGED <<Apart, box>>

Make ==
  /\ Ordered /\ box = NoBox /\ version \notin {NoVolume, NoDeploy}
  /\ box' # NoBox /\ AsOrdered(box') /\ ~box'.running
  /\ UNCHANGED <<Apart, version>>

Start == Wanted /\ box # NoBox /\ box' = [box EXCEPT !.running = TRUE] /\ UNCHANGED <<Apart, version>>

\* On its own or by the agent.
GoDown == box # NoBox /\ box' = Down(box) /\ UNCHANGED <<Apart, version>>

\* Only for a removal, or one that is not as it was ordered.
Destroy ==
  /\ box # NoBox /\ box' = NoBox
  /\ removing \/ (order # NoSpec /\ (version = NoDeploy \/ ~AsOrdered(box)))
  /\ UNCHANGED <<Apart, version>>

Next ==
  \/ Take \/ Restart \/ Remove \/ Removed \/ Crash
  \/ Prepare \/ Install \/ Make \/ Start \/ GoDown \/ Destroy

Spec == Init /\ [][Next]_promise
===============================================================================
