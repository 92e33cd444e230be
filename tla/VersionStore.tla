----------------------------- MODULE VersionStore -----------------------------
(***************************************************************************)
(* What the deploys of one bot promise about the code on its volume,       *)
(* without directories and system calls: there is one version at a time,   *)
(* always a whole one that was asked for, and a deploy replaces it and the *)
(* record of it together. Only an interruption between a deploy's last     *)
(* steps may part the two. VolumeDeploy implements it.                     *)
(***************************************************************************)
CONSTANTS
  Deploys,   \* deploy IDs
  Nil        \* no deploy

VARIABLES
  version,   \* the deploy whose code would be started
  record,    \* the deploy the runtime says it is
  torn       \* a deploy was interrupted and none has completed since

store == <<version, record, torn>>

Init == version = Nil /\ record = Nil /\ torn = FALSE

\* A deploy succeeds.
Replace(d) == version' = d /\ record' = d /\ torn' = FALSE

\* A deploy is interrupted when its code is in place and its record is not.
Unrecorded(d) == version' = d /\ torn' = TRUE /\ UNCHANGED record

\* A deploy is interrupted when the old code is moved aside and the new one is not in place.
Lose == version' = Nil /\ torn' = TRUE /\ UNCHANGED record

\* The bot is removed.
Wipe == version' = Nil /\ record' = Nil /\ torn' = FALSE

Next ==
  \/ \E d \in Deploys : Replace(d) \/ Unrecorded(d)
  \/ Lose
  \/ Wipe

Spec == Init /\ [][Next]_store
===============================================================================
