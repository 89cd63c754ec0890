----------------------------- MODULE EmailQueue -----------------------------
(***************************************************************************)
(* The e-mail jobs of the server (internal/email): published by its        *)
(* handlers, sent by the worker process one delivery at a time, retried    *)
(* through a queue whose messages expire back into the work queue, and     *)
(* parked when nothing helps.                                              *)
(*                                                                         *)
(* The broker keeps its queues when the worker dies, and takes back what   *)
(* was delivered but not acknowledged.                                     *)
(***************************************************************************)
EXTENDS Integers, Sequences

CONSTANTS
  Jobs,
  Broken,         \* the jobs whose body the worker cannot decode
  MaxRetries,     \* EMAIL_MAX_RETRIES
  MaxCrashes      \* bounds the deaths of the worker

ASSUME EmailAssumption ==
  /\ Broken \subseteq Jobs
  /\ MaxRetries \in Nat \ {0} /\ MaxCrashes \in Nat

VARIABLES
  asked,      \* the jobs that a handler has tried to publish
  sendQueue, retryQueue, deadQueue,
  worker,     \* what the worker does with the delivery it holds
  attempts,   \* history: how often each job was handed to the mail service
  sent,       \* history: how many of these attempts succeeded
  lost,       \* history: the jobs whose republication has failed
  crashes

emailVars ==
  <<asked, sendQueue, retryQueue, deadQueue, worker, attempts, sent, lost, crashes>>

NoMessage == [job |-> "none", retries |-> 0]

Waits == [at |-> "waiting", msg |-> NoMessage]
Down == [at |-> "down", msg |-> NoMessage]

EmailInit ==
  /\ asked = {}
  /\ sendQueue = <<>> /\ retryQueue = <<>> /\ deadQueue = <<>>
  /\ worker = Waits
  /\ attempts = [j \in Jobs |-> 0] /\ sent = [j \in Jobs |-> 0]
  /\ lost = {} /\ crashes = 0

Holds(at) == worker.at = at
WorkerGoes(at) == worker' = [worker EXCEPT !.at = at]

\* Best effort: the request goes on if the broker does not take the job.
PublishJob(j) ==
  /\ j \notin asked
  /\ asked' = asked \cup {j}
  /\ \/ sendQueue' = Append(sendQueue, [job |-> j, retries |-> 0])
     \/ UNCHANGED sendQueue
  /\ UNCHANGED <<retryQueue, deadQueue, worker, attempts, sent, lost, crashes>>

TakeDelivery ==
  /\ Holds("waiting") /\ sendQueue # <<>>
  /\ worker' = [at |-> IF Head(sendQueue).job \in Broken THEN "parking" ELSE "sending",
                msg |-> Head(sendQueue)]
  /\ sendQueue' = Tail(sendQueue)
  /\ UNCHANGED <<asked, retryQueue, deadQueue, attempts, sent, lost, crashes>>

RetryOrParkBug(m) == IF m.retries + 1 <= MaxRetries THEN "retrying" ELSE "parking"
RetryOrPark(m) == IF m.retries + 1 < MaxRetries THEN "retrying" ELSE "parking"

SendEmail ==
  LET j == worker.msg.job IN
  /\ Holds("sending")
  /\ attempts' = [attempts EXCEPT ![j] = @ + 1]
  /\ \/ WorkerGoes("acking") /\ sent' = [sent EXCEPT ![j] = @ + 1]
     \/ WorkerGoes(RetryOrPark(worker.msg)) /\ UNCHANGED sent
  /\ UNCHANGED <<asked, sendQueue, retryQueue, deadQueue, lost, crashes>>

\* An error of the publication is ignored, and what was not republished is
\* acknowledged like the rest.
Unpublished == lost' = lost \cup {worker.msg.job} /\ UNCHANGED <<retryQueue, deadQueue>>

Retry ==
  /\ Holds("retrying")
  /\ \/ /\ retryQueue' = Append(retryQueue, [worker.msg EXCEPT !.retries = @ + 1])
        /\ UNCHANGED <<deadQueue, lost>>
     \/ Unpublished
  /\ WorkerGoes("acking")
  /\ UNCHANGED <<asked, sendQueue, attempts, sent, crashes>>

\* Under a fresh set of headers.
Park ==
  /\ Holds("parking")
  /\ \/ /\ deadQueue' = Append(deadQueue, [worker.msg EXCEPT !.retries = 0])
        /\ UNCHANGED <<retryQueue, lost>>
     \/ Unpublished
  /\ WorkerGoes("acking")
  /\ UNCHANGED <<asked, sendQueue, attempts, sent, crashes>>

Ack ==
  /\ Holds("acking")
  /\ worker' = Waits
  /\ UNCHANGED <<asked, sendQueue, retryQueue, deadQueue, attempts, sent, lost, crashes>>

\* The time to live of the oldest message is over: back to the work queue.
Bounce ==
  /\ retryQueue # <<>>
  /\ sendQueue' = Append(sendQueue, Head(retryQueue))
  /\ retryQueue' = Tail(retryQueue)
  /\ UNCHANGED <<asked, deadQueue, worker, attempts, sent, lost, crashes>>

\* Deliveries are acknowledged automatically.
WorkerDiesBug ==
  /\ ~Holds("down") /\ crashes < MaxCrashes
  /\ crashes' = crashes + 1
  /\ worker' = Down
  /\ UNCHANGED <<asked, sendQueue, retryQueue, deadQueue, attempts, sent, lost>>

\* Or its channel closes.  What it holds returns to the place it had.
WorkerDies ==
  /\ ~Holds("down") /\ crashes < MaxCrashes
  /\ crashes' = crashes + 1
  /\ sendQueue' = IF Holds("waiting") THEN sendQueue ELSE <<worker.msg>> \o sendQueue
  /\ worker' = Down
  /\ UNCHANGED <<asked, retryQueue, deadQueue, attempts, sent, lost>>

WorkerRestarts ==
  /\ Holds("down")
  /\ worker' = Waits
  /\ UNCHANGED <<asked, sendQueue, retryQueue, deadQueue, attempts, sent, lost, crashes>>

WorkerStep == TakeDelivery \/ SendEmail \/ Retry \/ Park \/ Ack \/ WorkerRestarts

EmailNext ==
  \/ \E j \in Jobs : PublishJob(j)
  \/ WorkerStep \/ Bounce \/ WorkerDies

\* The worker runs and "relies on a restart" (worker/main.go); messages expire.
EmailFairness == WF_emailVars(WorkerStep) /\ WF_emailVars(Bounce)

EmailSpec == EmailInit /\ [][EmailNext]_emailVars /\ EmailFairness
----------------------------------------------------------------------------
(* Properties *)

Parked(j) == \E n \in DOMAIN deadQueue : deadQueue[n].job = j

\* The mail service is bothered at most MaxRetries times with one job, and once
\* more as often for each death of the worker, which can double the job between
\* its republication and its acknowledgement (handle in email/consumer.go).
AttemptsBounded ==
  \A j \in Jobs : attempts[j] <= MaxRetries * (1 + crashes)

InQueue(j, q) == \E n \in DOMAIN q : q[n].job = j

\* A job the broker has taken ends up sent or in the parking lot, whatever dies
\* on the way, unless its republication fails: handle acknowledges the delivery
\* all the same (email/consumer.go), and nothing is left of the job.
JobSettles ==
  \A j \in Jobs : InQueue(j, sendQueue) ~> sent[j] > 0 \/ Parked(j) \/ j \in lost
=============================================================================
