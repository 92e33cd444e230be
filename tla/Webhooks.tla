------------------------------- MODULE Webhooks -------------------------------
(***************************************************************************)
(* Webhooks (internal/panel/webhooks.go): an event becomes one delivery    *)
(* row per endpoint that wants it and one River job per row; the job's     *)
(* worker posts the delivery and records what came of it; an admin has one *)
(* sent again, and enables, disables and deletes endpoints meanwhile.      *)
(*                                                                         *)
(* Every statement is a step; reading an endpoint and posting to it is     *)
(* one.  River is external: it runs a job it has until the worker returns, *)
(* runs it again after an error until its attempts are spent, and takes up *)
(* again what a crashed panel left.                                        *)
(*                                                                         *)
(* Left out: event types (every endpoint wants the events of this model),  *)
(* payloads and signatures, status codes and messages, the backoff.  An    *)
(* operator named Bug_X is X with a bug; no definition uses it.            *)
(***************************************************************************)
EXTENDS Integers, Sequences, FiniteSets, Functions

CONSTANTS
  Events,       \* events that may happen
  Endpoints,    \* rows of webhook_endpoints
  MaxAttempts,  \* webhookMaxAttempts
  MaxWorkers,   \* of the default queue
  MaxRetries,   \* bound: deliveries an admin has sent again
  MaxTroubles,  \* bound: statements that fail, crashes of the panel, endpoints that cannot be
                \* used, and endpoints enabled, disabled or deleted, together
  NoDelivery    \* Go's uuid.Nil

Delivery == Events \X Endpoints     \* known by its event and its endpoint

ASSUME WebhookConstants ==
  /\ MaxAttempts \in Nat \ {0} /\ MaxWorkers \in Nat \ {0} /\ MaxRetries \in Nat /\ MaxTroubles \in Nat
  /\ NoDelivery \notin Delivery

VARIABLES
  endpoint,     \* "enabled", "disabled" or "deleted"
  status,       \* the rows of webhook_deliveries: their status
  jobs,         \* River's jobs, in order of insertion, and how far their workers are
  emit,         \* per event: how far emit is
  retry,        \* the delivery retryDelivery has reset and has no job for yet
  excused,      \* deliveries a failed statement or a crash has hit
  skipped,      \* deliveries whose row could not be written
  unusable,     \* deliveries that met an endpoint that is disabled or cannot be used
  used          \* how much of each bound is spent

vars == <<endpoint, status, jobs, emit, retry, excused, skipped, unusable, used>>

DeliveryStatus == {"pending", "delivered", "failed"}
Row(d) == d \in DOMAIN status
Exists(e) == endpoint[e] # "deleted"
NoEmit == [at |-> "before", eps |-> {}, todo |-> {}, d |-> NoDelivery]
CreateWebhookDelivery(d) ==
  [e \in DOMAIN status \cup {d} |-> IF e = d THEN "pending" ELSE status[e]]

Init ==
  /\ endpoint = [e \in Endpoints |-> "enabled"]
  /\ status = [d \in {} |-> "pending"] /\ jobs = <<>>
  /\ emit = [v \in Events |-> NoEmit] /\ retry = NoDelivery
  /\ excused = {} /\ skipped = {} /\ unusable = {}
  /\ used = [retries |-> 0, troubles |-> 0]

\* A statement fails, or it does not.
Trouble == used.troubles < MaxTroubles /\ used' = [used EXCEPT !.troubles = @ + 1]
NoTrouble == UNCHANGED used

-----------------------------------------------------------------------------
(* emit and deliver, on the goroutine of the request or of the hub.        *)

NewJob(d) == [d |-> d, state |-> "available", attempt |-> 0, at |-> "none", res |-> "none"]
EndpointsForEvent == {e \in Endpoints : endpoint[e] = "enabled"}

ToDeliver(eps) == [NoEmit EXCEPT !.at = "rows", !.eps = eps, !.todo = eps]

\* The change is committed; EndpointsForEvent.
Emit(v) ==
  /\ emit[v].at = "before"
  /\ \/ NoTrouble /\ emit' = [emit EXCEPT ![v] = ToDeliver(EndpointsForEvent)]
     \/ Trouble /\ emit' = [emit EXCEPT ![v].at = "done"]
  /\ UNCHANGED <<endpoint, status, jobs, retry, excused, skipped, unusable>>

\* testWebhook: one endpoint, enabled or not.
TestWebhook(v) ==
  /\ emit[v].at = "before"
  /\ \E e \in Endpoints :
       /\ Exists(e)
       /\ emit' = [emit EXCEPT ![v] = ToDeliver({e})]
  /\ UNCHANGED <<endpoint, status, jobs, retry, excused, skipped, unusable, used>>

\* CreateWebhookDelivery. An endpoint whose row cannot be written is skipped, and the
\* reference to a deleted endpoint is one reason.
Bug_AfterSkip(v, e) == [emit[v] EXCEPT !.at = "done", !.todo = {}]     \* returns
AfterSkip(v, e) == [emit[v] EXCEPT !.todo = @ \ {e}]        \* continues

CreateDelivery(v) ==
  /\ emit[v].at = "rows"
  /\ \/ /\ emit[v].todo = {}
        /\ emit' = [emit EXCEPT ![v].at = "done"]
        /\ UNCHANGED <<status, skipped>> /\ NoTrouble
     \/ \E e \in emit[v].todo :
          \/ /\ Exists(e) /\ NoTrouble
             /\ status' = CreateWebhookDelivery(<<v, e>>)
             /\ emit' = [emit EXCEPT ![v].at = "job", ![v].todo = @ \ {e}, ![v].d = <<v, e>>]
             /\ UNCHANGED skipped
          \/ /\ (~Exists(e) /\ NoTrouble) \/ Trouble
             /\ skipped' = skipped \cup {<<v, e>>}
             /\ emit' = [emit EXCEPT ![v] = AfterSkip(v, e)]
             /\ UNCHANGED status
  /\ UNCHANGED <<endpoint, jobs, retry, excused, unusable>>

InsertJob(v) ==
  /\ emit[v].at = "job"
  /\ \/ NoTrouble /\ jobs' = Append(jobs, NewJob(emit[v].d)) /\ UNCHANGED excused
     \/ Trouble /\ excused' = excused \cup {emit[v].d} /\ UNCHANGED jobs
  /\ emit' = [emit EXCEPT ![v].at = "rows", ![v].d = NoDelivery]
  /\ UNCHANGED <<endpoint, status, retry, skipped, unusable>>

-----------------------------------------------------------------------------
(* webhookWorker.Work, on job number j.                                    *)

Become(j, job) == jobs' = [jobs EXCEPT ![j] = job]
Finish(j, state) == Become(j, [jobs[j] EXCEPT !.state = state, !.at = "none", !.res = "none"])
WorkOnly == UNCHANGED <<endpoint, emit, retry, skipped>>

Running == {j \in DOMAIN jobs : jobs[j].state = "running"}

Fetch(j) ==
  /\ jobs[j].state = "available" /\ Cardinality(Running) < MaxWorkers
  /\ Become(j, [jobs[j] EXCEPT !.state = "running", !.attempt = @ + 1, !.at = "delivery"])
  /\ UNCHANGED <<status, excused, unusable, used>> /\ WorkOnly

Bug_Sent(d) == FALSE
Sent(d) == status[d] = "delivered"

\* Any error, not only a row that is gone, cancels the job.
GetWebhookDelivery(j) ==
  /\ jobs[j].at = "delivery"
  /\ \/ /\ NoTrouble /\ UNCHANGED excused
        /\ IF ~Row(jobs[j].d) THEN Finish(j, "cancelled")
           ELSE IF Sent(jobs[j].d) THEN Finish(j, "completed")
           ELSE Become(j, [jobs[j] EXCEPT !.at = "endpoint"])
     \/ Trouble /\ Finish(j, "cancelled") /\ excused' = excused \cup {jobs[j].d}
  /\ UNCHANGED <<status, unusable>> /\ WorkOnly

\* What comes of the POST, a 2xx or not. It touches no row, so it is no step of its own.
Post(j) ==
  \E res \in {"ok", "error"} : Become(j, [jobs[j] EXCEPT !.at = "record", !.res = res])

\* A disabled endpoint is given up on, and so is one whose signing secret cannot be opened
\* or of whose URL no request can be made. Any error of the statement cancels the job.
GetWebhookEndpoint(j) ==
  /\ jobs[j].at = "endpoint"
  /\ LET d == jobs[j].d  now == endpoint[d[2]] IN
       \/ /\ now = "deleted" /\ NoTrouble /\ Finish(j, "cancelled")
          /\ UNCHANGED <<excused, unusable>>
       \/ /\ Trouble /\ Finish(j, "cancelled")
          /\ excused' = excused \cup {d} /\ UNCHANGED unusable
       \/ /\ (now = "disabled" /\ NoTrouble) \/ (now = "enabled" /\ Trouble)
          /\ Become(j, [jobs[j] EXCEPT !.at = "record", !.res = "unusable"])
          /\ unusable' = unusable \cup {d} /\ UNCHANGED excused
       \/ /\ now = "enabled" /\ NoTrouble /\ Post(j)
          /\ UNCHANGED <<excused, unusable>>
  /\ UNCHANGED status /\ WorkOnly

Final(job) == job.attempt >= MaxAttempts

Bug_Outcome(job) == IF job.res = "ok" THEN "delivered" ELSE "failed"
Outcome(job) ==
  CASE job.res = "ok" -> "delivered"
    [] job.res = "unusable" -> "failed"
    [] OTHER -> IF Final(job) THEN "failed" ELSE "pending"

\* The statement does not look at the status it replaces; its error is logged.
Recorded(d, st) == IF Row(d) THEN [status EXCEPT ![d] = st] ELSE status

RecordDeliveryAttempt(j) ==
  /\ jobs[j].at = "record"
  /\ Become(j, [jobs[j] EXCEPT !.at = "return"])
  /\ \/ /\ NoTrouble /\ UNCHANGED excused
        /\ status' = Recorded(jobs[j].d, Outcome(jobs[j]))
     \/ Trouble /\ excused' = excused \cup {jobs[j].d} /\ UNCHANGED status
  /\ UNCHANGED unusable /\ WorkOnly

\* What River does with the result: nil, a cancel or an error.
Bug_Failed(job) == "completed"      \* Work returns nil
Failed(job) == IF job.attempt < MaxAttempts THEN "available" ELSE "discarded"

Return(j) ==
  /\ jobs[j].at = "return"
  /\ CASE jobs[j].res = "ok" -> Finish(j, "completed")
       [] jobs[j].res = "unusable" -> Finish(j, "cancelled")
       [] OTHER -> Finish(j, Failed(jobs[j]))
  /\ UNCHANGED <<status, excused, unusable, used>> /\ WorkOnly

\* River's rescuer: a job that is running for an hour was left by a crash.
Rescue(j) ==
  /\ jobs[j].state = "stuck"
  /\ Finish(j, Failed(jobs[j]))
  /\ UNCHANGED <<status, excused, unusable, used>> /\ WorkOnly

Work(j) ==
  \/ Fetch(j) \/ GetWebhookDelivery(j) \/ GetWebhookEndpoint(j)
  \/ RecordDeliveryAttempt(j) \/ Return(j) \/ Rescue(j)

-----------------------------------------------------------------------------
(* The admin API.                                                          *)

\* retryDelivery: ResetDelivery, whatever the status and the jobs it has.
ResetDelivery ==
  /\ retry = NoDelivery /\ used.retries < MaxRetries /\ used' = [used EXCEPT !.retries = @ + 1]
  /\ \E d \in DOMAIN status :
       /\ emit[d[1]].d # d          \* it is listed once emit is done with it
       /\ retry' = d /\ status' = [status EXCEPT ![d] = "pending"]
  /\ UNCHANGED <<endpoint, jobs, emit, excused, skipped, unusable>>

InsertRetryJob ==
  /\ retry # NoDelivery
  /\ \/ NoTrouble /\ jobs' = Append(jobs, NewJob(retry)) /\ UNCHANGED excused
     \/ Trouble /\ excused' = excused \cup {retry} /\ UNCHANGED jobs
  /\ retry' = NoDelivery
  /\ UNCHANGED <<endpoint, status, emit, skipped, unusable>>

\* updateWebhook.
SetEnabled(e, on) == [endpoint EXCEPT ![e] = on]

UpdateWebhook ==
  /\ Trouble
  /\ \E e \in Endpoints, on \in {"enabled", "disabled"} :
       Exists(e) /\ endpoint' = SetEnabled(e, on)
  /\ UNCHANGED <<status, jobs, emit, retry, excused, skipped, unusable>>

DeleteWebhookEndpoint(e) == Restrict(status, {d \in DOMAIN status : d[2] # e})

\* deleteWebhook: the endpoint's deliveries go with it, its jobs stay.
DeleteWebhook ==
  /\ Trouble
  /\ \E e \in Endpoints :
       /\ Exists(e) /\ endpoint' = [endpoint EXCEPT ![e] = "deleted"]
       /\ status' = DeleteWebhookEndpoint(e)
  /\ UNCHANGED <<jobs, emit, retry, excused, skipped, unusable>>

\* The panel dies: emits and retries end where they are, workers without returning.
Crash ==
  /\ Trouble
  /\ emit' = [v \in Events |-> 
       IF emit[v].at = "before" THEN emit[v] ELSE [emit[v] EXCEPT !.at = "done", !.todo = {}, !.d = NoDelivery]]
  /\ retry' = NoDelivery
  /\ jobs' = [j \in DOMAIN jobs |->
       IF jobs[j].state = "running" THEN [jobs[j] EXCEPT !.state = "stuck", !.at = "none", !.res = "none"] ELSE jobs[j]]
  /\ excused' = excused \cup ({emit[v].d : v \in Events} \ {NoDelivery}) \cup ({retry} \ {NoDelivery})
       \cup {jobs[j].d : j \in {k \in DOMAIN jobs : jobs[k].state = "running" /\ Final(jobs[k])}}
  /\ skipped' = skipped \cup {d \in Delivery : d[2] \in emit[d[1]].todo}
  /\ UNCHANGED <<endpoint, status, unusable>>

Next ==
  \/ \E v \in Events : Emit(v) \/ TestWebhook(v) \/ CreateDelivery(v) \/ InsertJob(v)
  \/ \E j \in DOMAIN jobs : Work(j)
  \/ ResetDelivery \/ InsertRetryJob \/ UpdateWebhook \/ DeleteWebhook \/ Crash

Spec == Init /\ [][Next]_vars

MaxJobs == Cardinality(Delivery) + MaxRetries

\* Goroutines go on, and River has a worker for every job in the end.
FairSpec ==
  /\ Spec
  /\ \A v \in Events : WF_vars(CreateDelivery(v) \/ InsertJob(v))
  /\ \A j \in 1 .. MaxJobs : WF_vars(j \in DOMAIN jobs /\ Work(j))
  /\ WF_vars(InsertRetryJob)

-----------------------------------------------------------------------------
(* Properties.                                                             *)

JobsOf(d) == {j \in DOMAIN jobs : jobs[j].d = d}
Alive(j) == jobs[j].state \in {"available", "running", "stuck"}
BeingQueued(d) == retry = d \/ emit[d[1]].d = d

\* What a row says is true of its jobs, whatever two jobs of a delivery do side by side
\* (RecordDeliveryAttempt replaces what the other one recorded). A pending delivery will
\* be tried again: it has a job that is not finished. Only a failed statement
\* (webhooks.go:71 cancels the job for any error) or a crash before the job is queued or
\* in its last attempt may leave it behind. A failed one had all its attempts, in one of
\* its jobs, unless a job found the endpoint disabled, its secret unreadable or its URL
\* unfit for a request: the code gives up on those at once (webhooks.go:85-100).
StatusIsTrue ==
  \A d \in DOMAIN status :
    /\ status[d] = "pending" /\ d \notin excused /\ ~BeingQueued(d) => \E j \in JobsOf(d) : Alive(j)
    /\ status[d] = "failed" /\ d \notin unusable => \E j \in JobsOf(d) : jobs[j].attempt = MaxAttempts

\* What was delivered stays so, though River runs a job again whose worker recorded the
\* 2xx and died before it returned. Only an admin has it sent again, and then the
\* outcomes of the jobs it has may replace one another.
DeliveredStays ==
  [][\A d \in DOMAIN status : status[d] = "delivered" /\ d \in DOMAIN status' /\ Cardinality(JobsOf(d)) = 1
       => status'[d] = "delivered" \/ retry' = d]_vars

\* An endpoint whose row cannot be written costs no other endpoint its event: when emit
\* is done, all endpoints it was for have their delivery, but the skipped and deleted.
OthersAreTold ==
  \A v \in Events : emit[v].at = "done" =>
    \A e \in emit[v].eps : Row(<<v, e>>) \/ <<v, e>> \in skipped \/ endpoint[e] = "deleted"

\* Every delivery ends as delivered or failed, or goes with its endpoint.
DeliveriesEnd ==
  \A d \in Delivery : Row(d) /\ status[d] = "pending" ~> ~Row(d) \/ status[d] # "pending" \/ d \in excused
===============================================================================
