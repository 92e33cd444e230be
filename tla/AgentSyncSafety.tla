--------------------------- MODULE AgentSyncSafety ---------------------------
(***************************************************************************)
(* AgentSync for every set of bots and every bound: the types, and that a  *)
(* bot's data is only removed on purpose.                                  *)
(*                                                                         *)
(* Whatever asks for a removal carries its reason along, from the call or  *)
(* the sweep that brings it to the worker that carries it out; and a bot   *)
(* that was never created is nowhere, so that no removal on its way meets  *)
(* a bot created later under the same ID.  Each part of Sound says both of *)
(* one variable.                                                           *)
(***************************************************************************)
EXTENDS AgentSync, TLAPS

Worker == [in : BOOLEAN, pend : {"none", "apply", "remove"}, op : {"idle", "apply", "remove"}]
Sync == [at : {"none", "rows", "sent"}, specs : SUBSET Bots]
Sweep == [at : {"off", "list", "workers", "remove"},
          listed : SUBSET Bots, keep : SUBSET Bots, ids : SUBSET Bots]

\* What may be asked and done of bot b, when the rows are rows and syncs left out left.
WorkerOK(b, w, rows, left) ==
  /\ w \in Worker /\ (w.in \/ w = NoWorker)
  /\ rows[b] = "absent" => w = NoWorker
  /\ w.pend = "remove" \/ w.op = "remove" => rows[b] = "deleted" \/ b \in left
SweepOK(w, rows) == w \in Sweep /\ w.keep = w.listed /\ \A b \in w.ids : rows[b] # "absent"
SyncOK(s, rows) == s \in Sync /\ \A b \in s.specs : rows[b] # "absent"
CallOK(c, rows) ==
  /\ c \in Call /\ rows[c.bot] # "absent"
  /\ c.type = "remove" => rows[c.bot] = "deleted"

RowsOK ==
  /\ row \in [Bots -> {"absent", "live", "deleted"}] /\ omitted \subseteq Bots
  /\ connected \in BOOLEAN /\ orderly \in BOOLEAN
  /\ used \in [{"changes", "conns", "troubles"} -> Nat]
CallsOK == IsABag(calls) /\ \A c \in DOMAIN calls : CallOK(c, row)
WorkersOK == worker = [b \in Bots |-> worker[b]] /\ \A b \in Bots : WorkerOK(b, worker[b], row, omitted)
SweepsOK == sweeps = [i \in Conns |-> sweeps[i]] /\ \A i \in Conns : SweepOK(sweeps[i], row)
DiskOK == disk \subseteq Bots /\ \A b \in disk : row[b] # "absent"

Sound == RowsOK /\ CallsOK /\ WorkersOK /\ SweepsOK /\ DiskOK /\ SyncOK(sync, row)

LEMMA SoundTypes == Sound => TypeOK
  <1> SUFFICES ASSUME Sound PROVE TypeOK  OBVIOUS
  <1>1. worker \in [Bots -> Worker] /\ \A b \in Bots : worker[b].in \/ worker[b] = NoWorker
    BY DEF Sound, WorkersOK, WorkerOK
  <1>2. sweeps \in [Conns -> Sweep]
    BY DEF Sound, SweepsOK, SweepOK
  <1>3. IsABag(calls) /\ DOMAIN calls \subseteq Call
    BY DEF Sound, CallsOK, CallOK
  <1> QED  BY <1>1, <1>2, <1>3 DEF Sound, RowsOK, DiskOK, SyncOK, TypeOK, Worker, Sweep, Sync

-----------------------------------------------------------------------------
(* Rows only ever go from absent to live to deleted, and what was left out *)
(* by a sync stays so: what is not touched by a step stays right.          *)

Onward ==
  /\ row' \in [Bots -> {"absent", "live", "deleted"}]
  /\ \A b \in Bots : (row[b] # "absent" => row'[b] # "absent") /\ (row[b] = "deleted" => row'[b] = "deleted")
  /\ omitted \subseteq omitted'

LEMMA SameRows == ASSUME RowsOK, UNCHANGED row, omitted \subseteq omitted' PROVE Onward
  BY DEF RowsOK, Onward

LEMMA CallsKept == ASSUME CallsOK, Onward, UNCHANGED calls PROVE CallsOK'
  BY DEF CallsOK, CallOK, Onward, Call

LEMMA WorkersKept == ASSUME WorkersOK, Onward, UNCHANGED worker PROVE WorkersOK'
  BY DEF WorkersOK, WorkerOK, Onward

LEMMA SweepsKept == ASSUME SweepsOK, Onward, UNCHANGED sweeps PROVE SweepsOK'
  BY DEF SweepsOK, SweepOK, Onward, Sweep

LEMMA SyncKept == ASSUME SyncOK(sync, row), Onward, UNCHANGED sync PROVE SyncOK(sync', row')
  BY DEF SyncOK, Onward, Sync

LEMMA DiskKept == ASSUME DiskOK, Onward, disk' \subseteq disk PROVE DiskOK'
  BY DEF DiskOK, Onward

LEMMA NoMore == ASSUME NEW rows PROVE SyncOK(NoSync, rows) /\ SweepOK(NoSweep, rows)
  BY DEF SyncOK, SweepOK, NoSync, NoSweep, Sync, Sweep

\* One worker moves, one sweep moves.
LEMMA WorkerMoves ==
  ASSUME WorkersOK, Onward, NEW b \in Bots, NEW w, worker' = [worker EXCEPT ![b] = w],
         WorkerOK(b, w, row', omitted')
  PROVE  WorkersOK'
  <1>1. worker' = [d \in Bots |-> IF d = b THEN w ELSE worker[d]]
    BY DEF WorkersOK
  <1>2. ASSUME NEW d \in Bots PROVE WorkerOK(d, worker'[d], row', omitted')
    <2>1. CASE d = b
      BY <1>1, <2>1
    <2>2. CASE d # b
      BY <1>1, <2>2 DEF WorkersOK, WorkerOK, Onward
    <2> QED  BY <2>1, <2>2
  <1> QED  BY <1>1, <1>2 DEF WorkersOK

LEMMA SweepMoves ==
  ASSUME SweepsOK, Onward, NEW i, NEW w, sweeps' = [sweeps EXCEPT ![i] = w], SweepOK(w, row')
  PROVE  SweepsOK'
  <1>1. sweeps' = [j \in Conns |-> IF j = i THEN w ELSE sweeps[j]]
    BY DEF SweepsOK
  <1>2. ASSUME NEW j \in Conns PROVE SweepOK(sweeps'[j], row')
    <2>1. CASE j = i
      BY <1>1, <2>1
    <2>2. CASE j # i
      BY <1>1, <2>2 DEF SweepsOK, SweepOK, Onward, Sweep
    <2> QED  BY <2>1, <2>2
  <1> QED  BY <1>1, <1>2 DEF SweepsOK

\* A bot that was created may be asked anything, and be removed for a reason.
LEMMA AskedOK ==
  ASSUME NEW b \in Bots, NEW w, NEW rows, NEW left, WorkerOK(b, w, rows, left), rows[b] # "absent",
         NEW what \in {"apply", "remove"}, what = "remove" => rows[b] = "deleted" \/ b \in left
  PROVE  WorkerOK(b, Asked(w, what), rows, left)
  BY DEF WorkerOK, Asked, Worker

-----------------------------------------------------------------------------
(* Counters and bags.                                                      *)

LEMMA Counted ==
  ASSUME RowsOK, row' \in [Bots -> {"absent", "live", "deleted"}], omitted' \subseteq Bots,
         connected' \in BOOLEAN, Trouble \/ NoTrouble \/ MakeChange
  PROVE  RowsOK'
  <1>1. CASE Trouble
    <2>1. used' \in [{"changes", "conns", "troubles"} -> Nat]
      BY <1>1 DEF RowsOK, Trouble
    <2>2. orderly' \in BOOLEAN
      BY <1>1 DEF Trouble
    <2> QED  BY <2>1, <2>2 DEF RowsOK
  <1>2. CASE NoTrouble
    BY <1>2 DEF RowsOK, NoTrouble
  <1>3. CASE MakeChange
    <2>1. used' \in [{"changes", "conns", "troubles"} -> Nat]
      BY <1>3 DEF RowsOK, MakeChange
    <2>2. orderly' \in BOOLEAN
      BY <1>3 DEF MakeChange
    <2> QED  BY <2>1, <2>2 DEF RowsOK
  <1> QED  BY <1>1, <1>2, <1>3

LEMMA OneMore ==
  ASSUME NEW B, IsABag(B), NEW e
  PROVE  IsABag(B (+) SetToBag({e})) /\ DOMAIN (B (+) SetToBag({e})) = DOMAIN B \cup {e}
  BY DEF IsABag, SetToBag, (+)

LEMMA OneLess ==
  ASSUME NEW B, IsABag(B), NEW e
  PROVE  IsABag(B (-) SetToBag({e})) /\ DOMAIN (B (-) SetToBag({e})) \subseteq DOMAIN B
  BY DEF IsABag, SetToBag, (-)

LEMMA Begun ==
  ASSUME CallsOK, Onward, NEW b, NEW at, NEW type, Begin(b, at, type),
         CallOK([bot |-> b, at |-> at, type |-> type], row')
  PROVE  CallsOK'
  <1>1. IsABag(calls') /\ DOMAIN calls' = DOMAIN calls \cup {[bot |-> b, at |-> at, type |-> type]}
    BY OneMore DEF Begin, CallsOK
  <1> QED  BY <1>1 DEF CallsOK, CallOK, Onward, Call

LEMMA Left == ASSUME CallsOK, Onward, NEW c, Leave(c) PROVE CallsOK'
  <1>1. IsABag(calls') /\ DOMAIN calls' \subseteq DOMAIN calls
    BY OneLess DEF Leave, CallsOK
  <1> QED  BY <1>1 DEF CallsOK, CallOK, Onward, Call

LEMMA Advanced == ASSUME CallsOK, Onward, NEW c, NEW next, Advance(c, next), CallOK(next, row') PROVE CallsOK'
  <1>1. IsABag(calls (-) SetToBag({c})) /\ DOMAIN (calls (-) SetToBag({c})) \subseteq DOMAIN calls
    BY OneLess DEF CallsOK
  <1>2. IsABag(calls') /\ DOMAIN calls' \subseteq DOMAIN calls \cup {next}
    BY <1>1, OneMore DEF Advance
  <1> QED  BY <1>2 DEF CallsOK, CallOK, Onward, Call

LEMMA SentAreLost == ASSUME CallsOK, Onward, calls' = Unsent PROVE CallsOK'
  <1>1. IsABag(calls') /\ DOMAIN calls' \subseteq DOMAIN calls
    BY DEF Unsent, IsABag, CallsOK
  <1> QED  BY <1>1 DEF CallsOK, CallOK, Onward, Call

-----------------------------------------------------------------------------
(* Each action keeps Sound.                                                *)

\* A push of a bot that has just been created, changed or deleted begins.
LEMMA ChangesSound ==
  ASSUME Sound, NEW b \in Bots, Create(b) \/ Change(b) \/ Delete(b) PROVE Sound'
  <1>1. Onward
    BY DEF Create, Change, Delete, Onward, Sound, RowsOK
  <1>2. RowsOK'
    BY <1>1, Counted DEF Create, Change, Delete, Onward, Sound, RowsOK
  <1>3. CallsOK'
    <2>1. CASE Begin(b, "read", "apply") /\ row'[b] # "absent"
      <3>1. CallOK([bot |-> b, at |-> "read", type |-> "apply"], row')
        BY <2>1 DEF CallOK, Call
      <3> QED  BY <1>1, <2>1, <3>1, Begun DEF Sound
    <2>2. CASE Begin(b, "conn", "remove") /\ row'[b] = "deleted"
      <3>1. CallOK([bot |-> b, at |-> "conn", type |-> "remove"], row')
        BY <2>2 DEF CallOK, Call
      <3> QED  BY <1>1, <2>2, <3>1, Begun DEF Sound
    <2> QED  BY <2>1, <2>2 DEF Create, Change, Delete, Sound, RowsOK
  <1>4. UNCHANGED <<worker, sweeps, disk, sync>>
    BY DEF Create, Change, Delete, agent
  <1> QED  BY <1>1, <1>2, <1>3, <1>4, WorkersKept, SweepsKept, DiskKept, SyncKept DEF Sound

LEMMA PanelCallSound ==
  ASSUME Sound, NEW c \in DOMAIN calls, GetBotSpec(c) \/ Send(c) PROVE Sound'
  <1>1. UNCHANGED <<row, connected, omitted, worker, sweeps, disk, sync>>
    BY DEF GetBotSpec, Send, agent
  <1>2. Onward
    BY <1>1, SameRows DEF Sound
  <1>3. RowsOK'
    BY <1>1, Counted DEF GetBotSpec, Send, Sound, RowsOK
  <1>4. CallOK(c, row)
    BY DEF Sound, CallsOK
  <1>5. CallsOK'
    <2>1. CASE Leave(c)
      BY <1>2, <2>1, Left DEF Sound
    <2>2. CASE GetBotSpec(c) /\ ~Leave(c)
      <3> DEFINE next == [c EXCEPT !.at = "conn", !.type = IF row[c.bot] = "live" THEN "apply" ELSE "remove"]
      <3>1. CallOK(next, row)
        BY <1>4 DEF CallOK, Call, Sound, RowsOK
      <3> QED  BY <1>1, <1>2, <2>2, <3>1, Advanced DEF GetBotSpec, Sound
    <2>3. CASE Send(c) /\ ~Leave(c)
      <3>1. CallOK([c EXCEPT !.at = "sent"], row)
        BY <1>4 DEF CallOK, Call
      <3> QED  BY <1>1, <1>2, <2>3, <3>1, Advanced DEF Send, Sound
    <2> QED  BY <2>1, <2>2, <2>3
  <1> QED  BY <1>1, <1>2, <1>3, <1>5, WorkersKept, SweepsKept, DiskKept, SyncKept DEF Sound

\* Only bots that were created are on the disk.
LEMMA ConnectSound == ASSUME Sound, Connect PROVE Sound'
  <1>1. UNCHANGED <<row, omitted, orderly, calls, disk, sweeps>>
    BY DEF Connect
  <1>2. Onward
    BY <1>1, SameRows DEF Sound
  <1>3. RowsOK'
    <2>1. used' \in [{"changes", "conns", "troubles"} -> Nat] /\ connected' = TRUE
      BY DEF Connect, Sound, RowsOK
    <2> QED  BY <1>1, <2>1 DEF Sound, RowsOK
  <1>4. SyncOK(sync', row')
    BY DEF Connect, SyncOK, NoSync, Sync
  <1>5. ASSUME NEW b \in Bots PROVE WorkerOK(b, [worker[b] EXCEPT !.in = @ \/ b \in disk], row, omitted)
    <2>1. WorkerOK(b, worker[b], row, omitted) /\ (b \in disk => row[b] # "absent")
      BY DEF Sound, WorkersOK, DiskOK
    <2>2. CASE b \in disk
      BY <2>1, <2>2 DEF WorkerOK, Worker
    <2>3. CASE b \notin disk
      <3>1. [worker[b] EXCEPT !.in = @ \/ b \in disk] = worker[b]
        BY <2>1, <2>3 DEF WorkerOK, Worker
      <3> QED  BY <2>1, <3>1
    <2> QED  BY <2>2, <2>3
  <1>6. WorkersOK'
    BY <1>1, <1>5 DEF Connect, WorkersOK
  <1> QED  BY <1>1, <1>2, <1>3, <1>4, <1>6, CallsKept, SweepsKept, DiskKept DEF Sound

LEMMA ListNodeBotSpecsSound == ASSUME Sound, ListNodeBotSpecs PROVE Sound'
  <1>1. UNCHANGED <<row, omitted, connected, calls, worker, disk, sweeps>>
    BY DEF ListNodeBotSpecs, agent
  <1>2. Onward
    BY <1>1, SameRows DEF Sound
  <1>3. RowsOK'
    <2>1. orderly' \in BOOLEAN /\ used' \in [{"changes", "conns", "troubles"} -> Nat]
      <3>1. CASE Trouble
        BY <1>1, <3>1, Counted DEF Sound, RowsOK
      <3>2. CASE UNCHANGED used /\ orderly' = (calls = EmptyBag /\ \A i \in Conns : sweeps[i].at = "off")
        BY <3>2 DEF Sound, RowsOK
      <3> QED  BY <3>1, <3>2 DEF ListNodeBotSpecs
    <2> QED  BY <1>1, <2>1 DEF Sound, RowsOK
  <1>4. SyncOK(sync', row')
    <2>1. sync' = NoSync \/ (sync'.at = "sent" /\ sync' \in Sync /\ sync'.specs \subseteq Live)
      BY DEF ListNodeBotSpecs, Sync, Live
    <2> QED  BY <1>1, <2>1, NoMore DEF SyncOK, Live
  <1> QED  BY <1>1, <1>2, <1>3, <1>4, CallsKept, WorkersKept, SweepsKept, DiskKept DEF Sound

LEMMA HandleCallSound == ASSUME Sound, NEW c \in DOMAIN calls, HandleCall(c) PROVE Sound'
  <1>1. UNCHANGED <<row, omitted, connected, sync, disk, sweeps>>
    BY DEF HandleCall
  <1>2. Onward
    BY <1>1, SameRows DEF Sound
  <1>3. RowsOK'
    BY <1>1, Counted DEF HandleCall, Sound, RowsOK
  <1>4. CallsOK'
    BY <1>2, Left DEF HandleCall, Sound
  <1>5. WorkersOK'
    <2>1. CASE UNCHANGED worker
      BY <1>2, <2>1, WorkersKept DEF Sound
    <2>2. CASE worker' = [worker EXCEPT ![c.bot] = Asked(worker[c.bot], c.type)]
      <3>1. CallOK(c, row) /\ c.bot \in Bots /\ c.type \in {"apply", "remove"}
        BY DEF Sound, CallsOK, CallOK, Call
      <3>2. WorkerOK(c.bot, Asked(worker[c.bot], c.type), row, omitted)
        BY <3>1, AskedOK DEF CallOK, Sound, WorkersOK
      <3> QED  BY <1>1, <1>2, <2>2, <3>1, <3>2, WorkerMoves DEF Sound
    <2> QED  BY <2>1, <2>2 DEF HandleCall
  <1> QED  BY <1>1, <1>2, <1>3, <1>4, <1>5, SweepsKept, DiskKept, SyncKept DEF Sound

LEMMA HandleSyncSound == ASSUME Sound, HandleSync PROVE Sound'
  <1>1. /\ UNCHANGED <<row, calls, connected, disk>> /\ sync' = NoSync
        /\ omitted' = omitted \cup (Live \ sync.specs)
    BY DEF HandleSync
  <1>2. Onward
    BY <1>1, SameRows DEF Sound
  <1>3. RowsOK'
    BY <1>1, Counted DEF HandleSync, Sound, RowsOK, Live
  <1>4. SyncOK(sync', row')
    BY <1>1, NoMore
  <1>5. SyncOK(sync, row) /\ sync.specs \subseteq Bots
    BY DEF Sound, SyncOK, Sync
  <1>6. PICK bad \in SUBSET sync.specs :
          /\ worker' = [b \in Bots |-> IF b \in sync.specs \ bad THEN Asked(worker[b], "apply") ELSE worker[b]]
          /\ sweeps' = [sweeps EXCEPT ![used.conns] =
               [at |-> "list", listed |-> sync.specs, keep |-> Keep(sync.specs, bad), ids |-> {}]]
    BY DEF HandleSync
  <1>7. WorkersOK'
    <2>1. ASSUME NEW b \in Bots PROVE WorkerOK(b, worker'[b], row', omitted')
      <3>1. WorkerOK(b, worker[b], row, omitted)
        BY DEF Sound, WorkersOK
      <3>2. WorkerOK(b, worker[b], row', omitted')
        BY <1>1, <3>1 DEF WorkerOK
      <3>3. b \in sync.specs => WorkerOK(b, Asked(worker[b], "apply"), row', omitted')
        BY <1>1, <1>5, <3>2, AskedOK DEF SyncOK
      <3> QED  BY <1>6, <3>2, <3>3
    <2> QED  BY <1>6, <2>1 DEF WorkersOK
  <1>8. SweepsOK'
    <2>1. SweepOK([at |-> "list", listed |-> sync.specs, keep |-> Keep(sync.specs, bad), ids |-> {}], row')
      BY <1>5 DEF SweepOK, Sweep, Keep
    <2> QED  BY <1>2, <1>6, <2>1, SweepMoves DEF Sound
  <1> QED  BY <1>1, <1>2, <1>3, <1>4, <1>7, <1>8, CallsKept, DiskKept DEF Sound

\* What a sweep looks at was created: it is on the disk, or has a worker in the map.
LEMMA SweepLooksSound ==
  ASSUME Sound, NEW i \in Conns, SweepList(i) \/ SweepWorkers(i) PROVE Sound'
  <1>1. UNCHANGED <<row, calls, connected, sync, omitted, worker, disk>>
    BY DEF SweepList, SweepWorkers, panel
  <1>2. Onward
    BY <1>1, SameRows DEF Sound
  <1>3. RowsOK'
    BY <1>1, Counted DEF SweepList, SweepWorkers, Sound, RowsOK
  <1>4. SweepsOK'
    <2>1. SweepOK(sweeps[i], row) /\ sweeps = [j \in Conns |-> sweeps[j]]
      BY DEF Sound, SweepsOK
    <2>2. CASE sweeps' = [sweeps EXCEPT ![i] = NoSweep]
      BY <1>2, <2>2, NoMore, SweepMoves DEF Sound
    <2>3. CASE sweeps' = [sweeps EXCEPT ![i].at = "workers", ![i].ids = disk]
      <3>1. sweeps' = [sweeps EXCEPT ![i] = [sweeps[i] EXCEPT !.at = "workers", !.ids = disk]]
        BY <2>1, <2>3 DEF SweepOK, Sweep
      <3>2. SweepOK([sweeps[i] EXCEPT !.at = "workers", !.ids = disk], row')
        BY <1>1, <2>1 DEF SweepOK, Sweep, Sound, DiskOK
      <3> QED  BY <1>2, <3>1, <3>2, SweepMoves DEF Sound
    <2>4. CASE SweepWorkers(i)
      <3> DEFINE w == [sweeps[i] EXCEPT !.at = "remove", !.ids = @ \cup {b \in Bots : worker[b].in}]
      <3>1. sweeps' = [sweeps EXCEPT ![i] = w]
        BY <2>1, <2>4 DEF SweepWorkers, SweepOK, Sweep
      <3>2. \A b \in Bots : worker[b].in => row[b] # "absent"
        BY DEF Sound, WorkersOK, WorkerOK, NoWorker
      <3>3. SweepOK(w, row')
        BY <1>1, <2>1, <3>2 DEF SweepOK, Sweep
      <3> QED  BY <1>2, <3>1, <3>3, SweepMoves DEF Sound
    <2> QED  BY <2>2, <2>3, <2>4 DEF SweepList
  <1> QED  BY <1>1, <1>2, <1>3, <1>4, CallsKept, WorkersKept, DiskKept, SyncKept DEF Sound

\* A sweep comes to a bot that its sync did not list: it was deleted, or is left out.
LEMMA SweepRemoveSound == ASSUME Sound, NEW i \in Conns, SweepRemove(i) PROVE Sound'
  <1>1. UNCHANGED <<row, calls, connected, sync, disk>> /\ NoTrouble
    BY DEF SweepRemove
  <1>2. SweepOK(sweeps[i], row) /\ sweeps = [j \in Conns |-> sweeps[j]]
    BY DEF Sound, SweepsOK
  <1>3. CASE sweeps' = [sweeps EXCEPT ![i] = NoSweep] /\ UNCHANGED <<worker, omitted>>
    <2>1. Onward
      BY <1>1, <1>3, SameRows DEF Sound
    <2>2. RowsOK' /\ SweepsOK'
      BY <1>1, <1>3, <2>1, Counted, NoMore, SweepMoves DEF Sound, RowsOK
    <2> QED  BY <1>1, <1>3, <2>1, <2>2, CallsKept, WorkersKept, DiskKept, SyncKept DEF Sound
  <1>4. ASSUME NEW b \in sweeps[i].ids \ sweeps[i].keep,
               sweeps' = [sweeps EXCEPT ![i].ids = @ \ {b}],
               worker' = [worker EXCEPT ![b] = Asked(worker[b], "remove")],
               omitted' = IF b \in Live \ sweeps[i].listed THEN omitted \cup {b} ELSE omitted
        PROVE  Sound'
    <2>1. Onward
      BY <1>1, <1>4, SameRows DEF Sound
    <2>2. b \in Bots /\ row[b] # "absent" /\ b \notin sweeps[i].listed
      BY <1>2, <1>4 DEF SweepOK, Sweep
    <2>3. row'[b] = "deleted" \/ b \in omitted'
      BY <1>1, <1>4, <2>2 DEF Sound, RowsOK, Live
    <2>4. RowsOK'
      BY <1>1, <1>4, <2>2, Counted DEF Sound, RowsOK
    <2>5. SweepsOK'
      <3>1. sweeps' = [sweeps EXCEPT ![i] = [sweeps[i] EXCEPT !.ids = @ \ {b}]]
        BY <1>2, <1>4 DEF SweepOK, Sweep
      <3>2. SweepOK([sweeps[i] EXCEPT !.ids = @ \ {b}], row')
        BY <1>1, <1>2 DEF SweepOK, Sweep
      <3> QED  BY <2>1, <3>1, <3>2, SweepMoves DEF Sound
    <2>6. WorkersOK'
      <3>1. WorkerOK(b, worker[b], row', omitted')
        BY <1>1, <2>1, <2>2 DEF Sound, WorkersOK, WorkerOK, Onward
      <3>2. WorkerOK(b, Asked(worker[b], "remove"), row', omitted')
        BY <1>1, <2>2, <2>3, <3>1, AskedOK
      <3> QED  BY <1>4, <2>1, <2>2, <3>2, WorkerMoves DEF Sound
    <2> QED  BY <1>1, <2>1, <2>4, <2>5, <2>6, CallsKept, DiskKept, SyncKept DEF Sound
  <1> QED  BY <1>3, <1>4 DEF SweepRemove

\* A worker that does anything is of a bot that was created.
LEMMA WorkSound == ASSUME Sound, NEW b \in Bots, Take(b) \/ EndApply(b) \/ EndRemove(b) PROVE Sound'
  <1>1. UNCHANGED <<row, calls, connected, sync, omitted, sweeps>>
    BY DEF Take, EndApply, EndRemove, panel
  <1>2. Onward
    BY <1>1, SameRows DEF Sound
  <1>3. RowsOK'
    BY <1>1, Counted DEF Take, EndApply, EndRemove, Sound, RowsOK
  <1>4. WorkerOK(b, worker[b], row, omitted) /\ worker = [d \in Bots |-> worker[d]]
    BY DEF Sound, WorkersOK
  <1>5. DiskOK'
    <2>1. disk' \subseteq disk \/ (disk' = disk \cup {b} /\ worker[b].op = "apply")
      BY DEF Take, EndApply, EndRemove
    <2>2. worker[b].op = "apply" => row[b] # "absent"
      BY <1>4 DEF WorkerOK, NoWorker
    <2> QED  BY <1>1, <1>2, <2>1, <2>2, DiskKept DEF DiskOK, Sound
  <1>6. WorkersOK'
    <2>1. CASE Take(b)
      <3> DEFINE w == [worker[b] EXCEPT !.op = worker[b].pend, !.pend = "none"]
      <3>1. worker' = [worker EXCEPT ![b] = w]
        BY <1>4, <2>1 DEF Take, WorkerOK, Worker
      <3>2. WorkerOK(b, w, row, omitted)
        BY <1>4, <2>1 DEF Take, WorkerOK, Worker, NoWorker
      <3> QED  BY <1>1, <1>2, <3>1, <3>2, WorkerMoves DEF Sound
    <2>2. CASE EndApply(b)
      <3>1. worker' = [worker EXCEPT ![b] = [worker[b] EXCEPT !.op = "idle"]]
        BY <1>4, <2>2 DEF EndApply, WorkerOK, Worker
      <3>2. WorkerOK(b, [worker[b] EXCEPT !.op = "idle"], row, omitted)
        BY <1>4, <2>2 DEF EndApply, WorkerOK, Worker, NoWorker
      <3> QED  BY <1>1, <1>2, <3>1, <3>2, WorkerMoves DEF Sound
    <2>3. CASE EndRemove(b)
      <3>1. WorkerOK(b, Retire(worker[b]), row, omitted)
        BY <1>4 DEF Retire, WorkerOK, Worker, NoWorker
      <3> QED  BY <1>1, <1>2, <2>3, <3>1, WorkerMoves DEF EndRemove, Sound
    <2> QED  BY <2>1, <2>2, <2>3
  <1> QED  BY <1>1, <1>2, <1>3, <1>5, <1>6, CallsKept, SweepsKept, SyncKept DEF Sound

LEMMA DisconnectSound == ASSUME Sound, Disconnect PROVE Sound'
  <1>1. UNCHANGED <<row, omitted, worker, disk, sweeps>> /\ connected' = FALSE /\ sync' = NoSync
    BY DEF Disconnect, agent
  <1>2. Onward
    BY <1>1, SameRows DEF Sound
  <1>3. RowsOK'
    BY <1>1, Counted DEF Disconnect, Sound, RowsOK
  <1>4. CallsOK'
    BY <1>2, SentAreLost DEF Disconnect, Sound
  <1> QED  BY <1>1, <1>2, <1>3, <1>4, NoMore, WorkersKept, SweepsKept, DiskKept DEF Sound

LEMMA AgentCrashSound == ASSUME Sound, AgentCrash PROVE Sound'
  <1>1. UNCHANGED <<row, omitted>> /\ connected' = FALSE /\ sync' = NoSync
    BY DEF AgentCrash
  <1>2. Onward
    BY <1>1, SameRows DEF Sound
  <1>3. RowsOK'
    BY <1>1, Counted DEF AgentCrash, Sound, RowsOK
  <1>4. CallsOK'
    BY <1>2, SentAreLost DEF AgentCrash, Sound
  <1>5. WorkersOK'
    BY DEF AgentCrash, WorkersOK, WorkerOK, NoWorker, Worker
  <1>6. SweepsOK'
    BY NoMore DEF AgentCrash, SweepsOK
  <1>7. DiskOK'
    <2>1. \A b \in Bots : worker[b].op = "apply" => row[b] # "absent"
      BY DEF Sound, WorkersOK, WorkerOK, NoWorker
    <2>2. disk' \subseteq disk \cup {b \in Bots : worker[b].op = "apply"}
      BY DEF AgentCrash
    <2> QED  BY <1>1, <2>1, <2>2 DEF Sound, DiskOK
  <1> QED  BY <1>1, <1>3, <1>4, <1>5, <1>6, <1>7, NoMore DEF Sound

-----------------------------------------------------------------------------
(* The theorems.                                                           *)

LEMMA InitSound == Init => Sound
  <1> SUFFICES ASSUME Init PROVE Sound  OBVIOUS
  <1>1. CallsOK
    BY DEF Init, CallsOK, EmptyBag, SetToBag, IsABag
  <1>2. RowsOK
    <2>1. used \in [{"changes", "conns", "troubles"} -> Nat] /\ row \in [Bots -> {"absent", "live", "deleted"}]
      BY DEF Init
    <2>2. omitted = {} /\ connected = FALSE /\ orderly = FALSE
      BY DEF Init
    <2>3. connected \in BOOLEAN /\ orderly \in BOOLEAN
      BY <2>2
    <2> QED  BY <2>1, <2>2, <2>3 DEF RowsOK
  <1>3. WorkersOK
    BY DEF Init, WorkersOK, WorkerOK, NoWorker, Worker
  <1>4. SweepsOK /\ SyncOK(sync, row)
    BY NoMore DEF Init, SweepsOK
  <1>5. DiskOK
    BY DEF Init, DiskOK
  <1> QED  BY <1>1, <1>2, <1>3, <1>4, <1>5 DEF Sound

LEMMA NextSound == Sound /\ [Next]_vars => Sound'
  <1> SUFFICES ASSUME Sound, [Next]_vars PROVE Sound'  OBVIOUS
  <1>1. CASE UNCHANGED vars
    <2>1. UNCHANGED <<row, calls, connected, sync, worker, disk, sweeps, omitted, orderly, used>>
      BY <1>1 DEF vars
    <2>2. Onward /\ RowsOK'
      BY <2>1, SameRows DEF Sound, RowsOK
    <2> QED  BY <2>1, <2>2, CallsKept, WorkersKept, SweepsKept, DiskKept, SyncKept DEF Sound
  <1>2. CASE \E b \in Bots : Create(b) \/ Change(b) \/ Delete(b) \/ Take(b) \/ EndApply(b) \/ EndRemove(b)
    BY <1>2, ChangesSound, WorkSound
  <1>3. CASE \E c \in DOMAIN calls : GetBotSpec(c) \/ Send(c) \/ HandleCall(c)
    BY <1>3, PanelCallSound, HandleCallSound
  <1>4. CASE \E i \in Conns : SweepList(i) \/ SweepWorkers(i) \/ SweepRemove(i)
    BY <1>4, SweepLooksSound, SweepRemoveSound
  <1>5. CASE Connect \/ ListNodeBotSpecs \/ HandleSync \/ Disconnect \/ AgentCrash
    BY <1>5, ConnectSound, ListNodeBotSpecsSound, HandleSyncSound, DisconnectSound, AgentCrashSound
  <1> QED  BY <1>1, <1>2, <1>3, <1>4, <1>5 DEF Next

\* Every variable stays in its range, and a worker that has anything to do is in the
\* agent's map, for any bots, changes and troubles.
THEOREM TypeCorrect == Spec => []TypeOK
  <1> QED  BY SoundTypes, InitSound, NextSound, PTL DEF Spec

\* Data goes with the end of a removal, or of an agent in the middle of one.
LEMMA StepRemoves ==
  Sound /\ [Next]_vars => \A b \in Bots : b \in disk /\ b \notin disk' => row[b] = "deleted" \/ b \in omitted
  <1> SUFFICES ASSUME Sound, [Next]_vars, NEW b \in Bots, b \in disk, b \notin disk'
               PROVE  row[b] = "deleted" \/ b \in omitted
    OBVIOUS
  <1>1. EndRemove(b) \/ (AgentCrash /\ worker[b].op = "remove")
    <2>1. CASE AgentCrash
      BY <2>1 DEF AgentCrash
    <2>2. CASE ~AgentCrash
      BY <2>2 DEF Next, vars, agent, panel, Create, Change, Delete, Take, EndApply, EndRemove, GetBotSpec, Send,
         HandleCall, Connect, ListNodeBotSpecs, HandleSync, SweepList, SweepWorkers, SweepRemove, Disconnect
    <2> QED  BY <2>1, <2>2
  <1>2. worker[b].op = "remove"
    BY <1>1 DEF EndRemove
  <1> QED  BY <1>2 DEF Sound, WorkersOK, WorkerOK

\* A bot's container and volume are removed only when the bot was deleted or a sync did
\* not list it, whatever arrives late, is lost or crashes, and however many bots,
\* calls and connections there are.
THEOREM DataIsRemovedOnPurpose == Spec => RemovedOnPurpose
  <1>1. Sound /\ [Next]_vars =>
          [\A b \in Bots : b \in disk /\ b \notin disk' => row[b] = "deleted" \/ b \in omitted]_vars
    BY StepRemoves
  <1> QED  BY <1>1, InitSound, NextSound, PTL DEF Spec, RemovedOnPurpose
===============================================================================
