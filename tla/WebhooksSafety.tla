---------------------------- MODULE WebhooksSafety ----------------------------
(***************************************************************************)
(* Webhooks for every set of events and endpoints and every bound: what a  *)
(* delivery's row says is true of its jobs, what was delivered stays so,   *)
(* and an endpoint that cannot be told costs no other endpoint its event.  *)
(*                                                                         *)
(* That a pending delivery has a job that is not finished is not inductive *)
(* when two jobs of a delivery run side by side: a job about to return may *)
(* be finished by its result.  GoesOn names the jobs that will look at the *)
(* row again, or run again; RowOK keeps one of those for a pending row.    *)
(***************************************************************************)
EXTENDS Webhooks, TLAPS, SequenceTheorems, FiniteSetTheorems

Job == [d : Delivery, state : {"available", "running", "stuck", "completed", "cancelled", "discarded"},
        attempt : 0 .. MaxAttempts, at : {"none", "delivery", "endpoint", "record", "return"},
        res : {"none", "ok", "error", "unusable"}]

\* A job is a record, only a running one is anywhere in Work, and one that is or will be
\* available has attempts left.
JobOK(job, off) ==
  /\ job \in Job
  /\ job.state = "running" <=> job.at # "none"
  /\ job.at \in {"record", "return"} => job.res # "none"
  /\ job.state = "available" => job.attempt < MaxAttempts
  /\ job.res = "unusable" => job.d \in off

GoesOn(job) ==
  \/ job.state = "available"
  \/ job.at \in {"delivery", "endpoint", "record"}
  \/ job.at = "return" /\ job.res = "error" /\ job.attempt < MaxAttempts
  \/ job.state = "stuck" /\ job.attempt < MaxAttempts

\* A row, its endpoint and its jobs.
OnlyJob(j) == \A k \in DOMAIN jobs : jobs[k].d = jobs[j].d => k = j
RowOK(d) ==
  /\ d \in Delivery /\ status[d] \in DeliveryStatus /\ Exists(d[2])
  /\ status[d] = "pending" /\ d \notin excused /\ ~BeingQueued(d) =>
       \E j \in DOMAIN jobs : jobs[j].d = d /\ GoesOn(jobs[j])
  /\ status[d] = "failed" /\ d \notin unusable =>
       \E j \in DOMAIN jobs : jobs[j].d = d /\ jobs[j].attempt = MaxAttempts
  /\ status[d] = "delivered" =>
       \A j \in DOMAIN jobs : jobs[j].d = d /\ OnlyJob(j) => jobs[j].at \notin {"endpoint", "record"}

\* An endpoint that emit has dealt with has its delivery, or a reason why not.
Told(v, e) == Row(<<v, e>>) \/ <<v, e>> \in skipped \/ endpoint[e] = "deleted"
EmitOK(v) ==
  /\ emit[v] \in [at : {"before", "rows", "job", "done"}, eps : SUBSET Endpoints,
                  todo : SUBSET Endpoints, d : Delivery \cup {NoDelivery}]
  /\ emit[v].at # "job" => emit[v].d = NoDelivery
  /\ emit[v].at = "job" => emit[v].d # NoDelivery /\ emit[v].d[1] = v
  /\ emit[v].at \in {"before", "done"} => emit[v].todo = {}
  /\ \A e \in emit[v].eps \ emit[v].todo : Told(v, e)

EndpointsOK == endpoint \in [Endpoints -> {"enabled", "disabled", "deleted"}]
JobsOK == jobs \in Seq(Job) /\ \A j \in DOMAIN jobs : JobOK(jobs[j], unusable)
RowsOK == status = [d \in DOMAIN status |-> status[d]] /\ \A d \in DOMAIN status : RowOK(d)
EmitsOK == emit = [v \in Events |-> emit[v]] /\ \A v \in Events : EmitOK(v)
RetryOK == retry \in Delivery \cup {NoDelivery}

Sound == EndpointsOK /\ JobsOK /\ RowsOK /\ EmitsOK /\ RetryOK

-----------------------------------------------------------------------------
(* The sequence of jobs.                                                   *)

LEMMA JobsAre == ASSUME JobsOK
                 PROVE  /\ DOMAIN jobs = 1 .. Len(jobs) /\ Len(jobs) \in Nat
                        /\ \A j \in DOMAIN jobs : jobs[j] \in Job
  BY DEF JobsOK, JobOK

\* One job moves.
LEMMA JobMoves ==
  ASSUME JobsOK, NEW j \in DOMAIN jobs, NEW job, Become(j, job), JobOK(job, unusable'),
         unusable \subseteq unusable'
  PROVE  /\ JobsOK' /\ DOMAIN jobs' = DOMAIN jobs
         /\ \A k \in DOMAIN jobs : jobs'[k] = IF k = j THEN job ELSE jobs[k]
  <1>1. job \in Job /\ j \in 1 .. Len(jobs) /\ jobs \in Seq(Job)
    BY JobsAre DEF JobOK, JobsOK
  <1>2. /\ jobs' \in Seq(Job) /\ Len(jobs') = Len(jobs)
        /\ \A k \in 1 .. Len(jobs) : jobs'[k] = IF k = j THEN job ELSE jobs[k]
    BY <1>1, ExceptSeq DEF Become
  <1>3. DOMAIN jobs' = DOMAIN jobs /\ \A k \in DOMAIN jobs : jobs'[k] = IF k = j THEN job ELSE jobs[k]
    BY <1>1, <1>2
  <1>4. \A k \in DOMAIN jobs' : JobOK(jobs'[k], unusable')
    BY <1>3 DEF JobsOK, JobOK
  <1> QED  BY <1>2, <1>3, <1>4 DEF JobsOK

LEMMA NewJobOK == ASSUME NEW d \in Delivery, NEW off
                  PROVE  JobOK(NewJob(d), off) /\ GoesOn(NewJob(d)) /\ NewJob(d).d = d /\ NewJob(d).at = "none"
  BY WebhookConstants DEF JobOK, GoesOn, NewJob, Job

\* A job is added at the end.
LEMMA JobAdded ==
  ASSUME JobsOK, NEW d \in Delivery, jobs' = Append(jobs, NewJob(d)), UNCHANGED unusable
  PROVE  /\ JobsOK' /\ DOMAIN jobs' = DOMAIN jobs \cup {Len(jobs) + 1} /\ Len(jobs) + 1 \notin DOMAIN jobs
         /\ \A k \in DOMAIN jobs : jobs'[k] = jobs[k]
         /\ jobs'[Len(jobs) + 1] = NewJob(d)
  <1>1. JobOK(NewJob(d), unusable) /\ NewJob(d) \in Job
    BY NewJobOK DEF JobOK
  <1>2. /\ jobs' \in Seq(Job) /\ Len(jobs') = Len(jobs) + 1
        /\ \A k \in 1 .. Len(jobs) : jobs'[k] = jobs[k]
        /\ jobs'[Len(jobs) + 1] = NewJob(d)
    BY <1>1, AppendProperties DEF JobsOK
  <1>3. DOMAIN jobs = 1 .. Len(jobs) /\ Len(jobs) \in Nat /\ DOMAIN jobs' = 1 .. Len(jobs')
    BY <1>2, JobsAre
  <1>4. DOMAIN jobs' = DOMAIN jobs \cup {Len(jobs) + 1} /\ Len(jobs) + 1 \notin DOMAIN jobs
    BY <1>2, <1>3
  <1>5. \A k \in DOMAIN jobs' : JobOK(jobs'[k], unusable')
    BY <1>1, <1>2, <1>3, <1>4 DEF JobsOK
  <1> QED  BY <1>2, <1>3, <1>4, <1>5 DEF JobsOK

-----------------------------------------------------------------------------
(* Rows and emits that a step leaves alone.                                *)

\* No job is worse off, the row is the same, and it is being queued as before.
Settled(d) ==
  /\ status'[d] = status[d] /\ Exists(d[2])'
  /\ excused \subseteq excused' /\ unusable \subseteq unusable'
  /\ d \in excused' \/ (BeingQueued(d)' <=> BeingQueued(d))

\* What a row says of its jobs still holds when each job of it moves on rightly.
MovesOn(d) ==
  /\ DOMAIN jobs' = DOMAIN jobs
  /\ \A j \in DOMAIN jobs :
       /\ jobs'[j].d = jobs[j].d
       /\ jobs[j].d = d =>
            /\ status[d] = "pending" /\ GoesOn(jobs[j]) => GoesOn(jobs'[j]) \/ d \in excused'
            /\ jobs[j].attempt = MaxAttempts => jobs'[j].attempt = MaxAttempts
            /\ jobs'[j].at \in {"endpoint", "record"}
                  => status[d] # "delivered" \/ jobs[j].at \in {"endpoint", "record"}

LEMMA RowMovesOn == ASSUME NEW d, RowOK(d), Settled(d), MovesOn(d) PROVE RowOK(d)'
  <1>1. d \in Delivery /\ status'[d] \in DeliveryStatus /\ Exists(d[2])'
    BY DEF RowOK, Settled
  <1>2. ASSUME status'[d] = "pending", d \notin excused', ~BeingQueued(d)'
        PROVE  \E j \in DOMAIN jobs' : jobs'[j].d = d /\ GoesOn(jobs'[j])
    BY <1>2 DEF RowOK, Settled, MovesOn
  <1>3. ASSUME status'[d] = "failed", d \notin unusable'
        PROVE  \E j \in DOMAIN jobs' : jobs'[j].d = d /\ jobs'[j].attempt = MaxAttempts
    BY <1>3 DEF RowOK, Settled, MovesOn
  <1>4. ASSUME status'[d] = "delivered", NEW j \in DOMAIN jobs', jobs'[j].d = d, OnlyJob(j)'
        PROVE  jobs'[j].at \notin {"endpoint", "record"}
    <2>1. OnlyJob(j) /\ jobs[j].d = d
      BY <1>4 DEF OnlyJob, MovesOn
    <2> QED  BY <1>4, <2>1 DEF RowOK, Settled, MovesOn
  <1> QED  BY <1>1, <1>2, <1>3, <1>4 DEF RowOK

LEMMA EmitKept ==
  ASSUME NEW v, EmitOK(v), emit'[v] = emit[v], skipped \subseteq skipped',
         \A e \in Endpoints : Row(<<v, e>>) => Row(<<v, e>>)' \/ endpoint'[e] = "deleted",
         \A e \in Endpoints : endpoint[e] = "deleted" => endpoint'[e] = "deleted"
  PROVE  EmitOK(v)'
  BY DEF EmitOK, Told

LEMMA EmitsKept ==
  ASSUME EmitsOK, UNCHANGED <<emit, skipped, endpoint>>, DOMAIN status' = DOMAIN status
  PROVE  EmitsOK'
  BY EmitKept DEF EmitsOK, Row

-----------------------------------------------------------------------------
(* Steps of a job that leave the rows alone.                               *)

LEMMA JobSteps ==
  ASSUME Sound, NEW j \in DOMAIN jobs, NEW job, Become(j, job), JobOK(job, unusable'),
         UNCHANGED <<endpoint, emit, retry, skipped, status>>,
         unusable \subseteq unusable', excused \subseteq excused',
         job.d = jobs[j].d, jobs[j].attempt = MaxAttempts => job.attempt = MaxAttempts,
         Row(job.d) /\ status[job.d] = "pending" /\ GoesOn(jobs[j]) => GoesOn(job) \/ job.d \in excused',
         job.at \in {"endpoint", "record"} /\ Row(job.d) /\ status[job.d] = "delivered" =>
           jobs[j].at \in {"endpoint", "record"}
  PROVE  Sound'
  <1>1. /\ JobsOK' /\ DOMAIN jobs' = DOMAIN jobs
        /\ \A k \in DOMAIN jobs : jobs'[k] = IF k = j THEN job ELSE jobs[k]
    BY JobMoves DEF Sound
  <1>2. ASSUME NEW d \in DOMAIN status PROVE RowOK(d)'
    <2>1. Settled(d)
      BY DEF Settled, Sound, RowsOK, RowOK, Exists, BeingQueued
    <2>2. MovesOn(d)
      BY <1>1 DEF MovesOn, Row
    <2> QED  BY <2>1, <2>2, RowMovesOn DEF Sound, RowsOK
  <1>3. RowsOK'
    BY <1>2 DEF Sound, RowsOK
  <1> QED  BY <1>1, <1>3, EmitsKept DEF Sound, EndpointsOK, RetryOK

LEMMA FetchSound == ASSUME Sound, NEW j \in DOMAIN jobs, Fetch(j) PROVE Sound'
  <1> DEFINE job == [jobs[j] EXCEPT !.state = "running", !.attempt = @ + 1, !.at = "delivery"]
  <1>1. JobOK(jobs[j], unusable) /\ jobs[j].state = "available"
    BY DEF Sound, JobsOK, Fetch
  <1>2. jobs[j].attempt + 1 \in 0 .. MaxAttempts /\ jobs[j].attempt # MaxAttempts
    BY <1>1, WebhookConstants DEF JobOK, Job
  <1>3. JobOK(job, unusable)
    BY <1>1, <1>2 DEF JobOK, Job
  <1>4. GoesOn(job) /\ job.d = jobs[j].d /\ job.at = "delivery"
    BY <1>1 DEF JobOK, GoesOn, Job
  <1> HIDE DEF job
  <1> QED  BY <1>2, <1>3, <1>4, JobSteps DEF Fetch, WorkOnly, job

\* A job that ends or is to be run again.
LEMMA FinishSound ==
  ASSUME Sound, NEW j \in DOMAIN jobs, NEW st \in {"available", "completed", "cancelled", "discarded"},
         Finish(j, st), UNCHANGED <<endpoint, emit, retry, skipped, status>>,
         unusable \subseteq unusable', excused \subseteq excused',
         st = "available" => jobs[j].attempt < MaxAttempts,
         \/ st = "available" \/ ~GoesOn(jobs[j]) \/ jobs[j].d \in excused'
         \/ (Row(jobs[j].d) => status[jobs[j].d] # "pending")
  PROVE  Sound'
  <1>1. JobOK(jobs[j], unusable')
    BY DEF Sound, JobsOK, JobOK
  <1>2. PICK job : job = [jobs[j] EXCEPT !.state = st, !.at = "none", !.res = "none"]
    OBVIOUS
  <1>3. Become(j, job)
    BY <1>2 DEF Finish
  <1>4. JobOK(job, unusable') /\ job.d = jobs[j].d /\ job.attempt = jobs[j].attempt /\ job.at = "none"
        /\ (st = "available" => GoesOn(job))
    BY <1>1, <1>2 DEF JobOK, GoesOn, Job
  <1> QED  BY <1>3, <1>4, JobSteps

LEMMA GetWebhookDeliverySound == ASSUME Sound, NEW j \in DOMAIN jobs, GetWebhookDelivery(j) PROVE Sound'
  <1>1. /\ UNCHANGED <<endpoint, emit, retry, skipped, status, unusable>> /\ jobs[j].at = "delivery"
        /\ excused \subseteq excused'
    BY DEF GetWebhookDelivery, WorkOnly
  <1>2. CASE ~Row(jobs[j].d) /\ Finish(j, "cancelled")
    BY <1>1, <1>2, FinishSound
  <1>3. CASE Row(jobs[j].d) /\ Sent(jobs[j].d) /\ Finish(j, "completed")
    BY <1>1, <1>3, FinishSound DEF Sent
  <1>4. CASE jobs[j].d \in excused' /\ Finish(j, "cancelled")
    BY <1>1, <1>4, FinishSound
  <1>5. CASE Row(jobs[j].d) /\ ~Sent(jobs[j].d) /\ Become(j, [jobs[j] EXCEPT !.at = "endpoint"])
    <2> DEFINE job == [jobs[j] EXCEPT !.at = "endpoint"]
    <2>1. JobOK(jobs[j], unusable)
      BY DEF Sound, JobsOK
    <2>2. JobOK(job, unusable) /\ GoesOn(job) /\ job.d = jobs[j].d /\ job.attempt = jobs[j].attempt
      BY <1>1, <2>1 DEF JobOK, GoesOn, Job
    <2> HIDE DEF job
    <2> QED  BY <1>1, <1>5, <2>2, JobSteps DEF Sent, job
  <1> QED  BY <1>2, <1>3, <1>4, <1>5 DEF GetWebhookDelivery

LEMMA GetWebhookEndpointSound == ASSUME Sound, NEW j \in DOMAIN jobs, GetWebhookEndpoint(j) PROVE Sound'
  <1>1. /\ UNCHANGED <<endpoint, emit, retry, skipped, status>> /\ jobs[j].at = "endpoint"
        /\ excused \subseteq excused' /\ unusable \subseteq unusable'
    BY DEF GetWebhookEndpoint, WorkOnly
  <1>2. JobOK(jobs[j], unusable)
    BY DEF Sound, JobsOK
  <1>3. CASE jobs[j].d \in excused' /\ Finish(j, "cancelled")
    BY <1>1, <1>3, FinishSound
  <1>4. CASE endpoint[jobs[j].d[2]] = "deleted" /\ Finish(j, "cancelled")
    <2>1. ~Row(jobs[j].d)
      BY <1>4 DEF Sound, RowsOK, RowOK, Row, Exists
    <2> QED  BY <1>1, <1>4, <2>1, FinishSound
  <1>5. ASSUME NEW res \in {"ok", "error", "unusable"}, Become(j, [jobs[j] EXCEPT !.at = "record", !.res = res]),
               res = "unusable" => jobs[j].d \in unusable'
        PROVE  Sound'
    <2> DEFINE job == [jobs[j] EXCEPT !.at = "record", !.res = res]
    <2>1. JobOK(job, unusable') /\ GoesOn(job) /\ job.d = jobs[j].d /\ job.attempt = jobs[j].attempt
      BY <1>1, <1>2, <1>5 DEF JobOK, GoesOn, Job
    <2>2. Become(j, job)
      BY <1>5
    <2> HIDE DEF job
    <2> QED  BY <1>1, <2>1, <2>2, JobSteps
  <1> QED  BY <1>3, <1>4, <1>5 DEF GetWebhookEndpoint, Post

\* What a job that returned an error becomes.
LEMMA ReturnSound == ASSUME Sound, NEW j \in DOMAIN jobs, Return(j) \/ Rescue(j) PROVE Sound'
  <1>1. UNCHANGED <<endpoint, emit, retry, skipped, status, unusable, excused>>
    BY DEF Return, Rescue, WorkOnly
  <1>2. JobOK(jobs[j], unusable)
    BY DEF Sound, JobsOK
  <1>3. CASE Finish(j, "completed") /\ jobs[j].at = "return" /\ jobs[j].res = "ok"
    <2>1. ~GoesOn(jobs[j])
      BY <1>2, <1>3 DEF GoesOn, JobOK
    <2> QED  BY <1>1, <1>3, <2>1, FinishSound
  <1>4. CASE Finish(j, "cancelled") /\ jobs[j].at = "return" /\ jobs[j].res = "unusable"
    <2>1. ~GoesOn(jobs[j])
      BY <1>2, <1>4 DEF GoesOn, JobOK
    <2> QED  BY <1>1, <1>4, <2>1, FinishSound
  <1>5. CASE Finish(j, Failed(jobs[j])) /\ (jobs[j].at = "return" \/ jobs[j].state = "stuck")
    <2>1. CASE jobs[j].attempt < MaxAttempts
      <3>1. Finish(j, "available")
        BY <1>5, <2>1 DEF Failed
      <3> QED  BY <1>1, <2>1, <3>1, FinishSound
    <2>2. CASE ~(jobs[j].attempt < MaxAttempts)
      <3>1. Finish(j, "discarded")
        BY <1>5, <2>2 DEF Failed
      <3>2. ~GoesOn(jobs[j])
        BY <1>2, <1>5, <2>2 DEF GoesOn, JobOK
      <3> QED  BY <1>1, <3>1, <3>2, FinishSound
    <2> QED  BY <2>1, <2>2
  <1> QED  BY <1>3, <1>4, <1>5 DEF Return, Rescue

-----------------------------------------------------------------------------
(* Steps that write rows.                                                  *)

\* The row of the job's delivery now says what the job found.
LEMMA RecordSound == ASSUME Sound, NEW j \in DOMAIN jobs, RecordDeliveryAttempt(j) PROVE Sound'
  <1> DEFINE job == [jobs[j] EXCEPT !.at = "return"]
  <1>0. PICK d : d = jobs[j].d
    OBVIOUS
  <1>1. /\ UNCHANGED <<endpoint, emit, retry, skipped, unusable>> /\ jobs[j].at = "record"
        /\ excused \subseteq excused' /\ Become(j, job)
    BY DEF RecordDeliveryAttempt, WorkOnly
  <1>2. JobOK(jobs[j], unusable)
    BY DEF Sound, JobsOK
  <1>3. /\ JobOK(job, unusable) /\ job.d = d /\ job.attempt = jobs[j].attempt /\ job.at = "return"
        /\ job.res = jobs[j].res /\ job.res \in {"ok", "error", "unusable"}
    BY <1>0, <1>1, <1>2 DEF JobOK, Job
  <1>4. CASE UNCHANGED status /\ (~Row(d) \/ d \in excused')
    <2> HIDE DEF job
    <2> QED  BY <1>0, <1>1, <1>3, <1>4, JobSteps
  <1>5. CASE Row(d) /\ status' = [status EXCEPT ![d] = Outcome(jobs[j])]
    <2>1. /\ JobsOK' /\ DOMAIN jobs' = DOMAIN jobs
          /\ \A k \in DOMAIN jobs : jobs'[k] = IF k = j THEN job ELSE jobs[k]
      <3> HIDE DEF job
      <3> QED  BY <1>1, <1>3, JobMoves DEF Sound
    <2>2. /\ DOMAIN status' = DOMAIN status /\ status' = [e \in DOMAIN status' |-> status'[e]]
          /\ \A e \in DOMAIN status : status'[e] = IF e = d THEN Outcome(jobs[j]) ELSE status[e]
      BY <1>5 DEF Sound, RowsOK
    <2>3. ASSUME NEW e \in DOMAIN status, e # d PROVE RowOK(e)'
      <3>1. Settled(e)
        BY <1>1, <2>2, <2>3 DEF Settled, Sound, RowsOK, RowOK, Exists, BeingQueued
      <3>2. MovesOn(e)
        BY <1>0, <1>3, <2>1, <2>3 DEF MovesOn
      <3> QED  BY <3>1, <3>2, RowMovesOn DEF Sound, RowsOK
    <2>4. d \in Delivery /\ Exists(d[2])' /\ d \in DOMAIN status
      BY <1>1, <1>5 DEF Sound, RowsOK, RowOK, Row, Exists
    <2>5. jobs'[j].d = d /\ jobs'[j] = job /\ j \in DOMAIN jobs'
      BY <1>3, <2>1
    <2>6. ASSUME RowOK(d)' PROVE Sound'
      <3>1. RowsOK'
        BY <2>2, <2>3, <2>6 DEF RowsOK
      <3>2. EmitsOK'
        BY <1>1, <2>2, EmitsKept DEF Sound
      <3> QED  BY <1>1, <2>1, <3>1, <3>2 DEF Sound, EndpointsOK, RetryOK
    <2>7. CASE job.res = "ok"
      <3>1. status'[d] = "delivered"
        BY <1>3, <2>2, <2>4, <2>7 DEF Outcome
      <3>2. ASSUME NEW k \in DOMAIN jobs', jobs'[k].d = d, OnlyJob(k)'
            PROVE  jobs'[k].at \notin {"endpoint", "record"}
        BY <1>3, <2>5, <3>2 DEF OnlyJob
      <3>3. RowOK(d)'
        BY <2>4, <3>1, <3>2 DEF RowOK, DeliveryStatus
      <3> QED  BY <2>6, <3>3
    <2>8. CASE job.res = "unusable" \/ (job.res = "error" /\ Final(jobs[j]))
      <3>1. status'[d] = "failed"
        BY <1>3, <2>2, <2>4, <2>8 DEF Outcome
      <3>2. job.attempt \in 0 .. MaxAttempts
        BY <1>3 DEF JobOK, Job
      <3>3. d \in unusable' \/ job.attempt = MaxAttempts
        BY <1>1, <1>2, <1>3, <2>8, <3>2, WebhookConstants DEF Final, JobOK
      <3>4. RowOK(d)'
        BY <2>4, <2>5, <3>1, <3>3 DEF RowOK, DeliveryStatus
      <3> QED  BY <2>6, <3>4
    <2>9. CASE job.res = "error" /\ ~Final(jobs[j])
      <3>1. status'[d] = "pending"
        BY <1>3, <2>2, <2>4, <2>9 DEF Outcome
      <3>2. job.attempt \in 0 .. MaxAttempts
        BY <1>3 DEF JobOK, Job
      <3>3. GoesOn(job)
        BY <1>3, <2>9, <3>2, WebhookConstants DEF Final, GoesOn
      <3>4. RowOK(d)'
        BY <2>4, <2>5, <3>1, <3>3 DEF RowOK, DeliveryStatus
      <3> QED  BY <2>6, <3>4
    <2> QED  BY <1>3, <2>7, <2>8, <2>9
  <1> QED  BY <1>0, <1>1, <1>4, <1>5 DEF RecordDeliveryAttempt, Recorded

\* No job changes.
LEMMA RowsStay ==
  ASSUME Sound, UNCHANGED <<jobs, unusable>>, excused \subseteq excused', NEW d \in DOMAIN status,
         status'[d] = status[d], Exists(d[2])', BeingQueued(d)' <=> BeingQueued(d)
  PROVE  RowOK(d)'
  <1>1. Settled(d) /\ MovesOn(d)
    BY DEF Settled, MovesOn
  <1> QED  BY <1>1, RowMovesOn DEF Sound, RowsOK

\* Where emit is changes of one event.
EmitStep(v, next) == emit' = [emit EXCEPT ![v] = next]

LEMMA EmitMoves ==
  ASSUME EmitsOK, NEW v \in Events, NEW next, EmitStep(v, next), skipped \subseteq skipped',
         \A e \in Endpoints, w \in Events : Row(<<w, e>>) => Row(<<w, e>>)',
         UNCHANGED endpoint, EmitOK(v)'
  PROVE  EmitsOK'
  <1>1. emit' = [w \in Events |-> IF w = v THEN next ELSE emit[w]]
    BY DEF EmitsOK, EmitStep
  <1>2. ASSUME NEW w \in Events, w # v PROVE EmitOK(w)'
    BY <1>1, <1>2, EmitKept DEF EmitsOK
  <1> QED  BY <1>1, <1>2 DEF EmitsOK

LEMMA EmitSound == ASSUME Sound, NEW v \in Events, Emit(v) \/ TestWebhook(v) PROVE Sound'
  <1>1. UNCHANGED <<endpoint, status, jobs, retry, excused, skipped, unusable>> /\ emit[v].at = "before"
    BY DEF Emit, TestWebhook
  <1>2. EmitOK(v) /\ emit = [w \in Events |-> emit[w]]
    BY DEF Sound, EmitsOK
  <1>3. \/ EmitStep(v, [emit[v] EXCEPT !.at = "done"])
        \/ \E eps \in SUBSET Endpoints : EmitStep(v, ToDeliver(eps))
    <2>1. CASE emit' = [emit EXCEPT ![v].at = "done"]
      BY <1>2, <2>1 DEF EmitStep
    <2>2. CASE emit' # [emit EXCEPT ![v].at = "done"]
      BY <2>2 DEF Emit, TestWebhook, EmitStep, EndpointsForEvent
    <2> QED  BY <2>1, <2>2
  <1>4. EmitsOK' /\ emit'[v].d = emit[v].d
    <2>1. CASE EmitStep(v, [emit[v] EXCEPT !.at = "done"])
      <3>1. emit'[v] = [emit[v] EXCEPT !.at = "done"]
        BY <1>2, <2>1 DEF EmitStep
      <3>2. EmitOK(v)' /\ emit'[v].d = emit[v].d
        BY <1>1, <1>2, <3>1 DEF EmitOK, Told, Row
      <3> QED  BY <1>1, <2>1, <3>2, EmitMoves DEF Sound, Row
    <2>2. ASSUME NEW eps \in SUBSET Endpoints, EmitStep(v, ToDeliver(eps)) PROVE EmitsOK' /\ emit'[v].d = emit[v].d
      <3>1. emit'[v] = ToDeliver(eps)
        BY <1>2, <2>2 DEF EmitStep
      <3>2. EmitOK(v)' /\ emit'[v].d = emit[v].d
        BY <1>1, <1>2, <3>1 DEF EmitOK, ToDeliver, NoEmit
      <3> QED  BY <1>1, <2>2, <3>2, EmitMoves DEF Sound, Row
    <2> QED  BY <1>3, <2>1, <2>2
  <1>5. \A w \in Events : emit'[w].d = emit[w].d
    BY <1>2, <1>3, <1>4 DEF EmitStep
  <1>6. ASSUME NEW d \in DOMAIN status PROVE RowOK(d)'
    <2>1. Exists(d[2])' /\ d[1] \in Events
      BY <1>1 DEF Sound, RowsOK, RowOK, Exists, Delivery
    <2>2. BeingQueued(d)' <=> BeingQueued(d)
      BY <1>1, <1>5, <2>1 DEF BeingQueued
    <2> QED  BY <1>1, <2>1, <2>2, RowsStay
  <1> QED  BY <1>1, <1>4, <1>6 DEF Sound, RowsOK, JobsOK, EndpointsOK, RetryOK

\* A row for the endpoint, or a reason why it has none.
LEMMA CreateDeliverySound == ASSUME Sound, NEW v \in Events, CreateDelivery(v) PROVE Sound'
  <1>1. /\ UNCHANGED <<endpoint, jobs, retry, excused, unusable>> /\ emit[v].at = "rows"
        /\ emit[v].d = NoDelivery
    BY DEF CreateDelivery, Sound, EmitsOK, EmitOK
  <1>2. EmitOK(v) /\ emit = [w \in Events |-> emit[w]]
    BY DEF Sound, EmitsOK
  <1>3. CASE emit[v].todo = {} /\ emit' = [emit EXCEPT ![v].at = "done"] /\ UNCHANGED <<status, skipped>>
    <2>1. EmitStep(v, [emit[v] EXCEPT !.at = "done"]) /\ emit'[v] = [emit[v] EXCEPT !.at = "done"]
      BY <1>2, <1>3 DEF EmitStep
    <2>2. EmitOK(v)' /\ emit'[v].d = emit[v].d
      BY <1>1, <1>2, <1>3, <2>1 DEF EmitOK, Told, Row
    <2>3. EmitsOK'
      BY <1>1, <1>3, <2>1, <2>2, EmitMoves DEF Sound, Row
    <2>4. ASSUME NEW d \in DOMAIN status PROVE RowOK(d)'
      <3>1. Exists(d[2])' /\ d[1] \in Events
        BY <1>1 DEF Sound, RowsOK, RowOK, Exists, Delivery
      <3>2. emit'[d[1]].d = emit[d[1]].d
        BY <1>2, <2>1, <2>2, <3>1 DEF EmitStep
      <3> QED  BY <1>1, <1>3, <3>1, <3>2, RowsStay DEF BeingQueued
    <2> QED  BY <1>1, <1>3, <2>3, <2>4 DEF Sound, RowsOK, JobsOK, EndpointsOK, RetryOK
  <1>4. ASSUME NEW e \in emit[v].todo, Exists(e), status' = CreateWebhookDelivery(<<v, e>>), UNCHANGED skipped,
               emit' = [emit EXCEPT ![v].at = "job", ![v].todo = @ \ {e}, ![v].d = <<v, e>>]
        PROVE  Sound'
    <2> DEFINE next == [emit[v] EXCEPT !.at = "job", !.todo = @ \ {e}, !.d = <<v, e>>]
    <2>1. EmitStep(v, next) /\ emit'[v] = next
      BY <1>2, <1>4 DEF EmitStep, EmitOK
    <2>2. e \in Endpoints /\ <<v, e>> \in Delivery /\ <<v, e>> # NoDelivery
      BY <1>2, <1>4, WebhookConstants DEF EmitOK, Delivery
    <2>3. /\ DOMAIN status' = DOMAIN status \cup {<<v, e>>} /\ status'[<<v, e>>] = "pending"
          /\ \A d \in DOMAIN status : d # <<v, e>> => status'[d] = status[d]
          /\ status' = [d \in DOMAIN status' |-> status'[d]]
      BY <1>4 DEF CreateWebhookDelivery
    <2>4. EmitOK(v)'
      BY <1>1, <1>2, <1>4, <2>1, <2>2, <2>3 DEF EmitOK, Told, Row
    <2>5. EmitsOK'
      BY <1>1, <1>4, <2>1, <2>3, <2>4, EmitMoves DEF Sound, Row
    <2>6. RowOK(<<v, e>>)'
      <3>1. <<v, e>>[1] = v /\ <<v, e>>[2] = e /\ emit'[v].d = <<v, e>>
        BY <1>2, <2>1 DEF EmitOK
      <3>2. BeingQueued(<<v, e>>)'
        BY <3>1 DEF BeingQueued
      <3> QED  BY <1>1, <1>4, <2>2, <2>3, <3>1, <3>2 DEF RowOK, Exists, DeliveryStatus
    <2>7. ASSUME NEW d \in DOMAIN status, d # <<v, e>> PROVE RowOK(d)'
      <3>1. Exists(d[2])' /\ d[1] \in Events /\ d # NoDelivery
        BY <1>1, WebhookConstants DEF Sound, RowsOK, RowOK, Exists, Delivery
      <3>2. emit'[d[1]].d = d <=> emit[d[1]].d = d
        BY <1>1, <1>2, <2>1, <2>7, <3>1 DEF EmitStep, EmitOK
      <3> QED  BY <1>1, <2>3, <2>7, <3>1, <3>2, RowsStay DEF BeingQueued
    <2> QED  BY <1>1, <1>4, <2>3, <2>5, <2>6, <2>7 DEF Sound, RowsOK, JobsOK, EndpointsOK, RetryOK
  <1>5. ASSUME NEW e \in emit[v].todo, skipped' = skipped \cup {<<v, e>>}, UNCHANGED status,
               emit' = [emit EXCEPT ![v] = AfterSkip(v, e)]
        PROVE  Sound'
    <2>1. EmitStep(v, AfterSkip(v, e)) /\ emit'[v] = [emit[v] EXCEPT !.todo = @ \ {e}]
      BY <1>2, <1>5 DEF EmitStep, AfterSkip
    <2>2. EmitOK(v)' /\ emit'[v].d = emit[v].d
      BY <1>1, <1>2, <1>5, <2>1 DEF EmitOK, Told, Row
    <2>3. EmitsOK'
      BY <1>1, <1>5, <2>1, <2>2, EmitMoves DEF Sound, Row
    <2>4. ASSUME NEW d \in DOMAIN status PROVE RowOK(d)'
      <3>1. Exists(d[2])' /\ d[1] \in Events
        BY <1>1 DEF Sound, RowsOK, RowOK, Exists, Delivery
      <3>2. emit'[d[1]].d = emit[d[1]].d
        BY <1>2, <2>1, <2>2, <3>1 DEF EmitStep
      <3> QED  BY <1>1, <1>5, <3>1, <3>2, RowsStay DEF BeingQueued
    <2> QED  BY <1>1, <1>5, <2>3, <2>4 DEF Sound, RowsOK, JobsOK, EndpointsOK, RetryOK
  <1> QED  BY <1>3, <1>4, <1>5 DEF CreateDelivery

\* A job is added for delivery d, or is not because of a failed statement.
LEMMA RowQueued ==
  ASSUME Sound, NEW d \in Delivery, UNCHANGED <<status, unusable, endpoint>>, excused \subseteq excused',
         jobs' = Append(jobs, NewJob(d)) \/ (UNCHANGED jobs /\ d \in excused'),
         NEW e \in DOMAIN status, e # d => (BeingQueued(e)' <=> BeingQueued(e))
  PROVE  RowOK(e)'
  <1>1. RowOK(e) /\ Exists(e[2])'
    BY DEF Sound, RowsOK, RowOK, Exists
  <1>2. CASE UNCHANGED jobs /\ d \in excused'
    <2>1. Settled(e) /\ MovesOn(e)
      BY <1>1, <1>2 DEF Settled, MovesOn
    <2> QED  BY <1>1, <2>1, RowMovesOn
  <1>3. CASE jobs' = Append(jobs, NewJob(d))
    <2> DEFINE n == Len(jobs) + 1
    <2>1. /\ DOMAIN jobs' = DOMAIN jobs \cup {n} /\ n \notin DOMAIN jobs
          /\ \A k \in DOMAIN jobs : jobs'[k] = jobs[k]
          /\ jobs'[n].d = d /\ GoesOn(jobs'[n]) /\ jobs'[n].at = "none"
      BY <1>3, JobAdded, NewJobOK DEF Sound
    <2> HIDE DEF n
    <2>2. ASSUME status[e] = "pending", e \notin excused', ~BeingQueued(e)'
          PROVE  \E j \in DOMAIN jobs' : jobs'[j].d = e /\ GoesOn(jobs'[j])
      <3>1. CASE e = d
        BY <2>1, <3>1
      <3>2. CASE e # d
        <4>1. PICK j \in DOMAIN jobs : jobs[j].d = e /\ GoesOn(jobs[j])
          BY <1>1, <2>2, <3>2 DEF RowOK
        <4>2. j \in DOMAIN jobs' /\ jobs'[j] = jobs[j]
          BY <2>1
        <4> QED  BY <4>1, <4>2
      <3> QED  BY <3>1, <3>2
    <2>3. ASSUME status[e] = "failed", e \notin unusable
          PROVE  \E j \in DOMAIN jobs' : jobs'[j].d = e /\ jobs'[j].attempt = MaxAttempts
      BY <1>1, <2>1, <2>3 DEF RowOK
    <2>4. ASSUME status[e] = "delivered", NEW j \in DOMAIN jobs', jobs'[j].d = e, OnlyJob(j)'
          PROVE  jobs'[j].at \notin {"endpoint", "record"}
      <3>1. CASE j \in DOMAIN jobs
        <4>1. OnlyJob(j) /\ jobs[j].d = e
          BY <2>1, <2>4, <3>1 DEF OnlyJob
        <4> QED  BY <1>1, <2>1, <2>4, <3>1, <4>1 DEF RowOK
      <3>2. CASE j \notin DOMAIN jobs
        BY <2>1, <3>2
      <3> QED  BY <3>1, <3>2
    <2> QED  BY <1>1, <2>2, <2>3, <2>4 DEF RowOK
  <1> QED  BY <1>2, <1>3

LEMMA JobsQueued ==
  ASSUME Sound, NEW d \in Delivery, UNCHANGED unusable,
         jobs' = Append(jobs, NewJob(d)) \/ UNCHANGED jobs
  PROVE  JobsOK'
  BY JobAdded DEF Sound, JobsOK

LEMMA InsertJobSound == ASSUME Sound, NEW v \in Events, InsertJob(v) PROVE Sound'
  <1>1. EmitOK(v) /\ emit = [w \in Events |-> emit[w]]
    BY DEF Sound, EmitsOK
  <1>2. PICK d : d = emit[v].d
    OBVIOUS
  <1>3. /\ UNCHANGED <<endpoint, status, retry, skipped, unusable>> /\ emit[v].at = "job"
        /\ excused \subseteq excused' /\ d \in Delivery /\ d[1] = v
        /\ jobs' = Append(jobs, NewJob(d)) \/ (UNCHANGED jobs /\ d \in excused')
    BY <1>1, <1>2 DEF InsertJob, EmitOK
  <1>4. EmitStep(v, [emit[v] EXCEPT !.at = "rows", !.d = NoDelivery])
        /\ emit'[v] = [emit[v] EXCEPT !.at = "rows", !.d = NoDelivery]
    BY <1>1 DEF InsertJob, EmitStep
  <1>5. EmitOK(v)' /\ emit'[v].d = NoDelivery
    BY <1>1, <1>3, <1>4 DEF EmitOK, Told, Row
  <1>6. EmitsOK'
    BY <1>3, <1>4, <1>5, EmitMoves DEF Sound, Row
  <1>7. ASSUME NEW e \in DOMAIN status PROVE RowOK(e)'
    <2>1. e[1] \in Events /\ e # NoDelivery
      BY WebhookConstants DEF Sound, RowsOK, RowOK, Delivery
    <2>2. e # d => (emit'[e[1]].d = e <=> emit[e[1]].d = e)
      BY <1>1, <1>2, <1>4, <1>5, <2>1 DEF EmitStep
    <2> QED  BY <1>3, <2>2, RowQueued DEF BeingQueued
  <1>8. JobsOK'
    BY <1>3, JobsQueued
  <1> QED  BY <1>3, <1>6, <1>7, <1>8 DEF Sound, RowsOK, EndpointsOK, RetryOK

-----------------------------------------------------------------------------
(* The admin API, and a crash.                                             *)

LEMMA InsertRetryJobSound == ASSUME Sound, InsertRetryJob PROVE Sound'
  <1>1. PICK d : d = retry
    OBVIOUS
  <1>2. /\ UNCHANGED <<endpoint, status, emit, skipped, unusable>> /\ d \in Delivery /\ retry' = NoDelivery
        /\ excused \subseteq excused'
        /\ jobs' = Append(jobs, NewJob(d)) \/ (UNCHANGED jobs /\ d \in excused')
    BY <1>1 DEF InsertRetryJob, Sound, RetryOK
  <1>3. ASSUME NEW e \in DOMAIN status PROVE RowOK(e)'
    <2>1. e # NoDelivery
      BY WebhookConstants DEF Sound, RowsOK, RowOK
    <2>2. e # d => (BeingQueued(e)' <=> BeingQueued(e))
      BY <1>1, <1>2, <2>1 DEF BeingQueued
    <2> QED  BY <1>2, <2>2, RowQueued
  <1>4. JobsOK' /\ EmitsOK'
    BY <1>2, JobsQueued, EmitsKept DEF Sound
  <1> QED  BY <1>2, <1>3, <1>4 DEF Sound, RowsOK, EndpointsOK, RetryOK

LEMMA ResetDeliverySound == ASSUME Sound, ResetDelivery PROVE Sound'
  <1>1. UNCHANGED <<endpoint, jobs, emit, excused, skipped, unusable>> /\ retry = NoDelivery
    BY DEF ResetDelivery
  <1>2. PICK d \in DOMAIN status : retry' = d /\ status' = [status EXCEPT ![d] = "pending"]
    BY DEF ResetDelivery
  <1>3. /\ DOMAIN status' = DOMAIN status /\ status' = [e \in DOMAIN status' |-> status'[e]]
        /\ \A e \in DOMAIN status : status'[e] = IF e = d THEN "pending" ELSE status[e]
    BY <1>2 DEF Sound, RowsOK
  <1>4. RowOK(d)'
    <2>1. d \in Delivery /\ Exists(d[2])' /\ BeingQueued(d)'
      BY <1>1, <1>2 DEF Sound, RowsOK, RowOK, Exists, BeingQueued
    <2> QED  BY <1>3, <2>1 DEF RowOK, DeliveryStatus
  <1>5. ASSUME NEW e \in DOMAIN status, e # d PROVE RowOK(e)'
    <2>1. Exists(e[2])' /\ e # NoDelivery
      BY <1>1, WebhookConstants DEF Sound, RowsOK, RowOK, Exists
    <2>2. BeingQueued(e)' <=> BeingQueued(e)
      BY <1>1, <1>2, <1>5, <2>1 DEF BeingQueued
    <2> QED  BY <1>1, <1>3, <1>5, <2>1, <2>2, RowsStay
  <1>6. EmitsOK'
    BY <1>1, <1>3, EmitsKept DEF Sound
  <1>7. RetryOK'
    BY <1>2 DEF RetryOK, Sound, RowsOK, RowOK
  <1> QED  BY <1>1, <1>3, <1>4, <1>5, <1>6, <1>7 DEF Sound, RowsOK, EndpointsOK, JobsOK

\* An endpoint that was deleted stays so, and has no rows.
LEMMA EndpointsSound == ASSUME Sound, UpdateWebhook \/ DeleteWebhook PROVE Sound'
  <1>1. UNCHANGED <<jobs, emit, retry, excused, skipped, unusable>>
    BY DEF UpdateWebhook, DeleteWebhook
  <1>2. PICK e \in Endpoints, st \in {"enabled", "disabled", "deleted"} :
          /\ Exists(e) /\ endpoint' = [endpoint EXCEPT ![e] = st]
          /\ \/ st # "deleted" /\ UNCHANGED status
             \/ st = "deleted" /\ status' = DeleteWebhookEndpoint(e)
    <2>1. CASE UpdateWebhook
      BY <2>1 DEF UpdateWebhook, SetEnabled
    <2>2. CASE DeleteWebhook
      BY <2>2 DEF DeleteWebhook
    <2> QED  BY <2>1, <2>2
  <1>3. EndpointsOK' /\ \A f \in Endpoints : endpoint'[f] = IF f = e THEN st ELSE endpoint[f]
    BY <1>2 DEF Sound, EndpointsOK
  <1>4. /\ DOMAIN status' = {d \in DOMAIN status : st = "deleted" => d[2] # e}
        /\ status' = [d \in DOMAIN status' |-> status'[d]]
        /\ \A d \in DOMAIN status' : status'[d] = status[d]
    <2>1. CASE st # "deleted"
      BY <1>2, <2>1 DEF Sound, RowsOK
    <2>2. CASE st = "deleted"
      BY <1>2, <2>2 DEF DeleteWebhookEndpoint, Restrict
    <2> QED  BY <2>1, <2>2
  <1>5. ASSUME NEW d \in DOMAIN status' PROVE RowOK(d)'
    <2>1. d \in DOMAIN status /\ d[2] \in Endpoints /\ Exists(d[2])
      BY <1>4 DEF Sound, RowsOK, RowOK, Delivery
    <2>2. Exists(d[2])'
      BY <1>3, <1>4, <2>1 DEF Exists
    <2> QED  BY <1>1, <1>4, <2>1, <2>2, RowsStay DEF BeingQueued
  <1>6. ASSUME NEW v \in Events PROVE EmitOK(v)'
    <2>1. ASSUME NEW f \in Endpoints, Row(<<v, f>>), ~Row(<<v, f>>)' PROVE endpoint'[f] = "deleted"
      BY <1>3, <1>4, <2>1 DEF Row
    <2>2. \A f \in Endpoints : endpoint[f] = "deleted" => endpoint'[f] = "deleted"
      BY <1>2, <1>3 DEF Exists
    <2>3. EmitOK(v)
      BY DEF Sound, EmitsOK
    <2> QED  BY <1>1, <2>1, <2>2, <2>3, EmitKept
  <1> QED  BY <1>1, <1>3, <1>4, <1>5, <1>6 DEF Sound, RowsOK, EmitsOK, JobsOK, RetryOK

\* Jobs that were running are left, and run again unless it was their last attempt.
LEMMA CrashSound == ASSUME Sound, Crash PROVE Sound'
  <1> DEFINE Left(job) == IF job.state = "running"
                          THEN [job EXCEPT !.state = "stuck", !.at = "none", !.res = "none"] ELSE job
  <1>1. /\ UNCHANGED <<endpoint, status, unusable>> /\ retry' = NoDelivery
        /\ skipped' = skipped \cup {d \in Delivery : d[2] \in emit[d[1]].todo}
        /\ jobs' = [j \in DOMAIN jobs |-> Left(jobs[j])]
    BY DEF Crash
  <1>2. /\ excused \subseteq excused'
        /\ \A d \in Delivery : BeingQueued(d) => d \in excused'
        /\ \A j \in DOMAIN jobs : jobs[j].state = "running" /\ Final(jobs[j]) => jobs[j].d \in excused'
    <2>1. \A d \in Delivery : d[1] \in Events /\ d # NoDelivery
      BY WebhookConstants DEF Delivery
    <2>2. excused' = excused \cup ({emit[v].d : v \in Events} \ {NoDelivery}) \cup ({retry} \ {NoDelivery})
            \cup {jobs[j].d : j \in {k \in DOMAIN jobs : jobs[k].state = "running" /\ Final(jobs[k])}}
      BY DEF Crash
    <2>3. \A d \in Delivery : BeingQueued(d) => d \in excused'
      BY <2>1, <2>2 DEF BeingQueued
    <2> QED  BY <2>2, <2>3
  <1>3. ASSUME NEW j \in DOMAIN jobs
        PROVE  /\ JobOK(Left(jobs[j]), unusable) /\ Left(jobs[j]).d = jobs[j].d
               /\ Left(jobs[j]).attempt = jobs[j].attempt /\ Left(jobs[j]).at = "none"
    BY DEF Sound, JobsOK, JobOK, Job
  <1>4. ASSUME NEW j \in DOMAIN jobs, GoesOn(jobs[j]) PROVE GoesOn(Left(jobs[j])) \/ jobs[j].d \in excused'
    <2>1. JobOK(jobs[j], unusable)
      BY DEF Sound, JobsOK
    <2>2. CASE jobs[j].state = "running" /\ ~Final(jobs[j])
      <3>1. jobs[j].attempt < MaxAttempts
        BY <2>1, <2>2, WebhookConstants DEF JobOK, Job, Final
      <3> QED  BY <2>1, <2>2, <3>1 DEF GoesOn, JobOK, Job
    <2>3. CASE jobs[j].state # "running"
      BY <1>4, <2>3
    <2> QED  BY <1>2, <2>2, <2>3
  <1> HIDE DEF Left
  <1>5. DOMAIN jobs' = DOMAIN jobs /\ \A j \in DOMAIN jobs : jobs'[j] = Left(jobs[j])
    BY <1>1
  <1>6. JobsOK'
    <2>1. jobs' \in [1 .. Len(jobs) -> Job] /\ Len(jobs) \in Nat
      BY <1>1, <1>3, JobsAre DEF Sound, JobOK
    <2>2. jobs' \in Seq(Job)
      BY <2>1
    <2> QED  BY <1>1, <1>3, <1>5, <2>2 DEF JobsOK
  <1>7. ASSUME NEW d \in DOMAIN status PROVE RowOK(d)'
    <2>1. d \in Delivery /\ Exists(d[2])' /\ d # NoDelivery /\ d[1] \in Events
      BY <1>1, WebhookConstants DEF Sound, RowsOK, RowOK, Exists, Delivery
    <2>2. BeingQueued(d)' => BeingQueued(d)
      <3>1. EmitOK(d[1])
        BY <2>1 DEF Sound, EmitsOK
      <3>2. emit'[d[1]].d = NoDelivery
        BY <2>1, <3>1 DEF Crash, EmitOK
      <3> QED  BY <1>1, <2>1, <3>2 DEF BeingQueued
    <2>3. Settled(d)
      BY <1>1, <1>2, <2>1, <2>2 DEF Settled
    <2>4. MovesOn(d)
      BY <1>3, <1>4, <1>5 DEF MovesOn
    <2> QED  BY <2>3, <2>4, RowMovesOn DEF Sound, RowsOK
  <1>8. ASSUME NEW v \in Events PROVE EmitOK(v)'
    <2>1. EmitOK(v)
      BY DEF Sound, EmitsOK
    <2>2. CASE emit[v].at = "before"
      <3>1. emit'[v] = emit[v]
        BY <2>2 DEF Crash
      <3> QED  BY <1>1, <2>1, <3>1, EmitKept DEF Row
    <2>3. CASE emit[v].at # "before"
      <3>1. emit'[v] = [emit[v] EXCEPT !.at = "done", !.todo = {}, !.d = NoDelivery]
        BY <2>3 DEF Crash
      <3>2. ASSUME NEW e \in emit[v].eps PROVE Told(v, e)'
        <4>1. CASE e \in emit[v].todo
          <5>1. <<v, e>> \in Delivery /\ <<v, e>>[1] = v /\ <<v, e>>[2] = e
            BY <2>1, <4>1 DEF EmitOK, Delivery
          <5> QED  BY <1>1, <4>1, <5>1 DEF Told
        <4>2. CASE e \notin emit[v].todo
          BY <1>1, <2>1, <3>2, <4>2 DEF EmitOK, Told, Row
        <4> QED  BY <4>1, <4>2
      <3> QED  BY <2>1, <3>1, <3>2 DEF EmitOK
    <2> QED  BY <2>2, <2>3
  <1>9. EmitsOK'
    BY <1>8 DEF Crash, EmitsOK
  <1> QED  BY <1>1, <1>6, <1>7, <1>9 DEF Sound, RowsOK, EndpointsOK, RetryOK

-----------------------------------------------------------------------------
(* The theorems.                                                           *)

LEMMA InitSound == Init => Sound
  <1> SUFFICES ASSUME Init PROVE Sound  OBVIOUS
  <1>1. EndpointsOK /\ RowsOK /\ RetryOK
    BY DEF Init, EndpointsOK, RowsOK, RetryOK
  <1>2. JobsOK
    BY DEF Init, JobsOK
  <1>3. EmitsOK
    BY DEF Init, EmitsOK, EmitOK, NoEmit
  <1> QED  BY <1>1, <1>2, <1>3 DEF Sound

LEMMA NextSound == Sound /\ [Next]_vars => Sound'
  <1> SUFFICES ASSUME Sound, [Next]_vars PROVE Sound'  OBVIOUS
  <1>1. CASE UNCHANGED vars
    <2>1. UNCHANGED <<endpoint, status, jobs, emit, retry, excused, skipped, unusable>>
      BY <1>1 DEF vars
    <2>2. ASSUME NEW d \in DOMAIN status PROVE RowOK(d)'
      <3>1. Exists(d[2])' /\ (BeingQueued(d)' <=> BeingQueued(d))
        BY <2>1 DEF Sound, RowsOK, RowOK, Exists, BeingQueued
      <3> QED  BY <2>1, <3>1, RowsStay
    <2>3. EmitsOK'
      BY <2>1, EmitsKept DEF Sound
    <2> QED  BY <2>1, <2>2, <2>3 DEF Sound, RowsOK, EndpointsOK, JobsOK, RetryOK
  <1>2. CASE \E v \in Events : Emit(v) \/ TestWebhook(v) \/ CreateDelivery(v) \/ InsertJob(v)
    BY <1>2, EmitSound, CreateDeliverySound, InsertJobSound
  <1>3. CASE \E j \in DOMAIN jobs : Work(j)
    BY <1>3, FetchSound, GetWebhookDeliverySound, GetWebhookEndpointSound, RecordSound, ReturnSound DEF Work
  <1>4. CASE ResetDelivery \/ InsertRetryJob \/ UpdateWebhook \/ DeleteWebhook \/ Crash
    BY <1>4, ResetDeliverySound, InsertRetryJobSound, EndpointsSound, CrashSound
  <1> QED  BY <1>1, <1>2, <1>3, <1>4 DEF Next

\* A pending delivery has a job that is not finished, unless a failed statement or a
\* crash hit it, and a failed one was not given up early, unless its endpoint was
\* disabled, its secret unreadable or its URL unfit for a request: for any number of
\* jobs, workers, attempts and retries.
THEOREM RowsAreTrue == Spec => []StatusIsTrue
  <1>1. Sound => StatusIsTrue
    <2> SUFFICES ASSUME Sound, NEW d \in DOMAIN status
                 PROVE  /\ status[d] = "pending" /\ d \notin excused /\ ~BeingQueued(d) =>
                             \E j \in JobsOf(d) : Alive(j)
                        /\ status[d] = "failed" /\ d \notin unusable =>
                             \E j \in JobsOf(d) : jobs[j].attempt = MaxAttempts
      BY DEF StatusIsTrue
    <2>1. RowOK(d)
      BY DEF Sound, RowsOK
    <2>2. ASSUME NEW j \in DOMAIN jobs, GoesOn(jobs[j]) PROVE Alive(j)
      BY <2>2 DEF Sound, JobsOK, JobOK, Job, GoesOn, Alive
    <2> QED  BY <2>1, <2>2 DEF RowOK, JobsOf
  <1> QED  BY <1>1, InitSound, NextSound, PTL DEF Spec

\* An endpoint whose row cannot be written costs no other endpoint its event.
THEOREM EveryEndpointIsDealtWith == Spec => []OthersAreTold
  <1>1. Sound => OthersAreTold
    BY DEF Sound, EmitsOK, EmitOK, Told, OthersAreTold
  <1> QED  BY <1>1, InitSound, NextSound, PTL DEF Spec

-----------------------------------------------------------------------------
(* What was delivered.                                                     *)

\* An endpoint that emit has yet to deal with has no row of the event.
ToDo(v, e) == emit[v].at = "before" \/ e \in emit[v].todo
Fresh == \A v \in Events, e \in Endpoints : ToDo(v, e) => ~Row(<<v, e>>)

LEMMA FreshKept ==
  ASSUME Fresh, \A v \in Events, e \in Endpoints :
                  ToDo(v, e)' => ToDo(v, e) /\ (Row(<<v, e>>)' => Row(<<v, e>>))
  PROVE  Fresh'
  BY DEF Fresh

LEMMA WorkKeepsRows ==
  ASSUME Sound, NEW j \in DOMAIN jobs, Work(j)
  PROVE  UNCHANGED emit /\ DOMAIN status' = DOMAIN status
  <1>1. CASE RecordDeliveryAttempt(j)
    BY <1>1 DEF RecordDeliveryAttempt, Recorded, WorkOnly, Sound, RowsOK
  <1>2. CASE ~RecordDeliveryAttempt(j)
    BY <1>2 DEF Work, Fetch, GetWebhookDelivery, GetWebhookEndpoint, Return, Rescue, WorkOnly
  <1> QED  BY <1>1, <1>2

LEMMA CreateFresh == ASSUME Sound, Fresh, NEW v \in Events, CreateDelivery(v) PROVE Fresh'
  <1>1. emit = [w \in Events |-> emit[w]] /\ EmitOK(v) /\ emit[v].at = "rows"
    BY DEF Sound, EmitsOK, CreateDelivery
  <1>2. CASE emit' = [emit EXCEPT ![v].at = "done"] /\ UNCHANGED status
    <2>1. \A w \in Events, e \in Endpoints : ToDo(w, e)' => ToDo(w, e)
      BY <1>1, <1>2 DEF ToDo
    <2> QED  BY <1>2, <2>1, FreshKept DEF Row
  <1>3. ASSUME NEW e \in emit[v].todo, status' = CreateWebhookDelivery(<<v, e>>),
               emit' = [emit EXCEPT ![v].at = "job", ![v].todo = @ \ {e}, ![v].d = <<v, e>>]
        PROVE  Fresh'
    <2>1. DOMAIN status' = DOMAIN status \cup {<<v, e>>}
      BY <1>3 DEF CreateWebhookDelivery
    <2>2. \A w \in Events, f \in Endpoints : ToDo(w, f)' => ToDo(w, f) /\ <<w, f>> # <<v, e>>
      BY <1>1, <1>3 DEF ToDo, EmitOK
    <2> QED  BY <2>1, <2>2, FreshKept DEF Row
  <1>4. ASSUME NEW e \in emit[v].todo, emit' = [emit EXCEPT ![v] = AfterSkip(v, e)], UNCHANGED status
        PROVE  Fresh'
    <2>1. \A w \in Events, f \in Endpoints : ToDo(w, f)' => ToDo(w, f)
      BY <1>1, <1>4 DEF ToDo, AfterSkip, EmitOK
    <2> QED  BY <1>4, <2>1, FreshKept DEF Row
  <1> QED  BY <1>2, <1>3, <1>4 DEF CreateDelivery

LEMMA NextFresh == Sound /\ Fresh /\ [Next]_vars => Fresh'
  <1> SUFFICES ASSUME Sound, Fresh, [Next]_vars PROVE Fresh'  OBVIOUS
  <1>0. emit = [w \in Events |-> emit[w]] /\ \A w \in Events : EmitOK(w)
    BY DEF Sound, EmitsOK
  <1>1. ASSUME UNCHANGED emit, DOMAIN status' \subseteq DOMAIN status PROVE Fresh'
    BY <1>1, FreshKept DEF ToDo, Row
  <1>2. CASE UNCHANGED vars
    BY <1>1, <1>2 DEF vars
  <1>3. ASSUME NEW v \in Events, Emit(v) \/ TestWebhook(v) PROVE Fresh'
    <2>1. UNCHANGED status /\ emit[v].at = "before"
      BY <1>3 DEF Emit, TestWebhook
    <2>2. PICK next : emit' = [emit EXCEPT ![v] = next]
      <3>1. CASE emit' = [emit EXCEPT ![v].at = "done"]
        BY <1>0, <3>1
      <3>2. CASE emit' # [emit EXCEPT ![v].at = "done"]
        BY <1>3, <3>2 DEF Emit, TestWebhook
      <3> QED  BY <3>1, <3>2
    <2>3. \A w \in Events, e \in Endpoints : ToDo(w, e)' => ToDo(w, e)
      BY <1>0, <2>1, <2>2 DEF ToDo
    <2> QED  BY <2>1, <2>3, FreshKept DEF Row
  <1>4. ASSUME NEW v \in Events, InsertJob(v) PROVE Fresh'
    <2>1. UNCHANGED status /\ \A w \in Events, e \in Endpoints : ToDo(w, e)' => ToDo(w, e)
      BY <1>0, <1>4 DEF InsertJob, ToDo
    <2> QED  BY <2>1, FreshKept DEF Row
  <1>5. CASE ResetDelivery \/ InsertRetryJob \/ UpdateWebhook \/ DeleteWebhook
    <2>1. UNCHANGED emit
      BY <1>5 DEF ResetDelivery, InsertRetryJob, UpdateWebhook, DeleteWebhook
    <2>2. CASE ResetDelivery
      <3>1. DOMAIN status' = DOMAIN status
        BY <2>2 DEF ResetDelivery
      <3> QED  BY <1>1, <2>1, <3>1
    <2>3. CASE DeleteWebhook
      <3>1. DOMAIN status' \subseteq DOMAIN status
        BY <2>3 DEF DeleteWebhook, DeleteWebhookEndpoint, Restrict
      <3> QED  BY <1>1, <2>1, <3>1
    <2>4. CASE InsertRetryJob \/ UpdateWebhook
      BY <1>1, <2>1, <2>4 DEF InsertRetryJob, UpdateWebhook
    <2> QED  BY <1>5, <2>2, <2>3, <2>4
  <1>6. CASE Crash
    <2>1. UNCHANGED status
      BY <1>6 DEF Crash
    <2>2. ASSUME NEW w \in Events, NEW e \in Endpoints, ToDo(w, e)' PROVE ToDo(w, e)
      BY <1>0, <1>6, <2>2 DEF Crash, ToDo, EmitOK
    <2> QED  BY <2>1, <2>2, FreshKept DEF Row
  <1>7. ASSUME NEW j \in DOMAIN jobs, Work(j) PROVE Fresh'
    BY <1>1, <1>7, WorkKeepsRows
  <1> QED  BY <1>2, <1>3, <1>4, <1>5, <1>6, <1>7, CreateFresh DEF Next

\* A delivery with one job.
LEMMA OneJob ==
  ASSUME JobsOK, NEW d, Cardinality(JobsOf(d)) = 1, NEW j \in DOMAIN jobs, jobs[j].d = d
  PROVE  OnlyJob(j)
  <1>1. IsFiniteSet(JobsOf(d))
    <2>1. JobsOf(d) \subseteq 1 .. Len(jobs) /\ IsFiniteSet(1 .. Len(jobs))
      BY JobsAre, FS_Interval DEF JobsOf
    <2> QED  BY <2>1, FS_Subset
  <1>2. PICK x : JobsOf(d) = {x}
    BY <1>1, FS_Singleton
  <1> QED  BY <1>2 DEF OnlyJob, JobsOf

\* The row of a delivery that was made is written by an admin, or by a job that is not the
\* only one it has.
LEMMA StepDelivers ==
  Sound /\ Fresh /\ [Next]_vars =>
    \A d \in DOMAIN status : status[d] = "delivered" /\ d \in DOMAIN status' /\ Cardinality(JobsOf(d)) = 1
       => status'[d] = "delivered" \/ retry' = d
  <1> SUFFICES ASSUME Sound, Fresh, [Next]_vars, NEW d \in DOMAIN status, status[d] = "delivered",
                      d \in DOMAIN status', Cardinality(JobsOf(d)) = 1
               PROVE  status'[d] = "delivered" \/ retry' = d
    OBVIOUS
  <1>1. RowOK(d) /\ status = [e \in DOMAIN status |-> status[e]]
    BY DEF Sound, RowsOK
  <1>2. ASSUME NEW v \in Events, CreateDelivery(v) PROVE status'[d] = status[d]
    <2>1. CASE UNCHANGED status
      BY <2>1
    <2>2. CASE \E e \in emit[v].todo : status' = CreateWebhookDelivery(<<v, e>>)
      <3>1. PICK e \in emit[v].todo : status' = CreateWebhookDelivery(<<v, e>>)
        BY <2>2
      <3>2. <<v, e>> # d
        BY <3>1 DEF Sound, EmitsOK, EmitOK, Fresh, ToDo, Row
      <3> QED  BY <3>1, <3>2 DEF CreateWebhookDelivery
    <2> QED  BY <1>2, <2>1, <2>2 DEF CreateDelivery
  <1>3. ASSUME NEW j \in DOMAIN jobs, RecordDeliveryAttempt(j) PROVE status'[d] = status[d]
    <2>1. jobs[j].d # d
      BY <1>1, <1>3, OneJob DEF RecordDeliveryAttempt, RowOK, Sound
    <2> QED  BY <1>1, <1>3, <2>1 DEF RecordDeliveryAttempt, Recorded
  <1>4. CASE ResetDelivery
    BY <1>1, <1>4 DEF ResetDelivery
  <1>5. CASE DeleteWebhook
    BY <1>5 DEF DeleteWebhook, DeleteWebhookEndpoint, Restrict
  <1>6. ASSUME NEW v \in Events, Emit(v) \/ TestWebhook(v) \/ InsertJob(v) PROVE status'[d] = status[d]
    BY <1>6 DEF Emit, TestWebhook, InsertJob
  <1>7. ASSUME NEW j \in DOMAIN jobs, Work(j), ~RecordDeliveryAttempt(j) PROVE status'[d] = status[d]
    BY <1>7 DEF Work, Fetch, GetWebhookDelivery, GetWebhookEndpoint, Return, Rescue
  <1>8. CASE InsertRetryJob \/ UpdateWebhook \/ Crash \/ UNCHANGED vars
    BY <1>8 DEF InsertRetryJob, UpdateWebhook, Crash, vars
  <1> QED  BY <1>2, <1>3, <1>4, <1>5, <1>6, <1>7, <1>8 DEF Next

\* What was delivered stays so until an admin has it sent again: a job that runs again
\* after its 2xx was recorded finds the row delivered and posts nothing.
THEOREM DeliveredStaysSo == Spec => DeliveredStays
  <1>1. Init => Fresh
    BY DEF Init, Fresh, Row
  <1> QED  BY <1>1, InitSound, NextSound, NextFresh, StepDelivers, PTL DEF Spec, DeliveredStays
===============================================================================
