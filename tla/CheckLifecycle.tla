--------------------------- MODULE CheckLifecycle ---------------------------
(***************************************************************************)
(* One paid check from createCheck to its final status: CheckService       *)
(* (src/src/check/check.service.ts), CheckQueueService and its processor   *)
(* (src/src/queue/check), QueueRecoveryService (src/src/queue), the row of *)
(* the table checks, the BullMQ queue checks-single in Redis and the       *)
(* provider that serves the check.                                         *)
(*                                                                         *)
(* Every await of the code ends an action: between two actions of a        *)
(* handler any other handler, the recovery, the queue or the provider may  *)
(* move.  failCheck's transaction is two actions, its read and its commit, *)
(* because at READ COMMITTED the read takes no lock.                       *)
(*                                                                         *)
(* A frame is an execution of CheckService on the event loop: the HTTP     *)
(* request that creates check c is the frame c, the handler that worker w  *)
(* runs for a job is the frame w.                                          *)
(***************************************************************************)
EXTENDS Naturals, FiniteSets

CONSTANTS Checks,     \* the checks users buy; also the ids of their submit jobs
          Workers,    \* job slots of the worker (CHECK_QUEUE_CONCURRENCY of them)
          SyncIds,    \* bound: ids of the sync jobs that can exist at a time
          Reports,    \* the states the provider reports of a check
          Faults,     \* what the environment does wrong, see FaultKinds
          MaxFaults,  \* bound: how often it does so
          None        \* no check, no job

\* Stormfinder reports all four, DuckDNS ("processing", "completed", "error") no "queued".
ProviderStatus == {"queued", "running", "done", "failed"}

FaultKinds ==
  {"provider",   \* a call to the provider throws
   "db",         \* a statement or commit throws, applied or not
   "redis",      \* queue.add throws and the job was not added
   "redisLost",  \* queue.add throws although the job was added
   "stall",      \* the event loop is blocked for longer than a job's lock lives
   "crash"}      \* the process dies and is started again

ASSUME FaultsAreKnown == Faults \subseteq FaultKinds
ASSUME IdsAreDistinct ==
  /\ Checks \cap Workers = {} /\ Checks \cap SyncIds = {}
  /\ None \notin Checks \cup SyncIds
ASSUME ReportsAreKnown == Reports \subseteq ProviderStatus
ASSUME MaxFaultsIsNatural == MaxFaults \in Nat

JobIds == Checks \cup SyncIds
Frames == Checks \cup Workers

Active == {"PENDING", "QUEUED", "RUNNING"}
Final == {"DONE", "FAILED"}
CheckStatus == Active \cup Final

JobState == {"none", "waiting", "active", "delayed", "failed"}

\* tries is BullMQ's attemptsMade, stalls how often the job was found stalled.
Job == [state : JobState, check : Checks \cup {None}, tries : 0..3, stalls : 0..1]

NoJob == [state |-> "none", check |-> None, tries |-> 0, stalls |-> 0]

VARIABLES
  status,         \* checks.status, "NONE" before the row exists
  serviceId,      \* whether checks.service_id is set
  balanceRefund,  \* checks.balance_refund
  refunds,        \* how many BALANCE_REFUND rows the check has in the ledger
  delivered,      \* history: DONE was persisted at some time
  provider,       \* the provider's own state of the check, "none" before it
  jobs,           \* the queue: for each id the job that has it, if any
  pc,             \* where each frame is
  job,            \* the job a worker's frame runs
  target,         \* the check it is about
  owns,           \* whether the worker still holds the job's lock
  answer,         \* what the provider answered
  current,        \* the status failCheck read
  submitScan,     \* recoverPendingSubmits: [pc, todo, check]
  syncScan,       \* recoverActiveSyncs: [pc, todo, check]
  up,             \* whether the process runs
  faults          \* how many faults happened

rowVars == <<status, serviceId, balanceRefund, refunds, delivered>>
frameVars == <<job, target, owns, answer, current>>
scanVars == <<submitScan, syncScan>>
envVars == <<up, faults>>
vars == <<rowVars, provider, jobs, pc, frameVars, scanVars, envVars>>

Answers == CheckStatus \cup {"NONE", "ERROR"}

CheckPlaces == {"idle", "enqueue", "failRead", "failWrite", "answered", "lost"}
WorkerPlaces == {"idle", "load", "call", "persist", "enqueue", "requeue",
                 "failRead", "failWrite", "return", "throw"}
ScanPlaces == {"off", "find", "pick", "state", "retry", "add",
               "waiting", "active", "delayed"}
Scans == [pc : ScanPlaces, todo : SUBSET Checks, check : Checks \cup {None}]

TypeOK ==
  /\ status \in [Checks -> CheckStatus \cup {"NONE"}]
  /\ serviceId \in [Checks -> BOOLEAN]
  /\ balanceRefund \in [Checks -> BOOLEAN]
  /\ refunds \in [Checks -> Nat]
  /\ delivered \in [Checks -> BOOLEAN]
  /\ provider \in [Checks -> ProviderStatus \cup {"none"}]
  /\ jobs \in [JobIds -> Job]
  /\ \A j \in JobIds : jobs[j].state # "none" => jobs[j].check # None
  /\ pc \in [Frames -> CheckPlaces \cup WorkerPlaces]
  /\ \A c \in Checks : pc[c] \in CheckPlaces
  /\ \A w \in Workers : pc[w] \in WorkerPlaces
  /\ job \in [Workers -> JobIds \cup {None}]
  /\ target \in [Workers -> Checks \cup {None}]
  /\ \A w \in Workers : pc[w] # "idle" => job[w] # None /\ target[w] # None
  /\ owns \in [Workers -> BOOLEAN]
  /\ answer \in [Workers -> Answers]
  /\ current \in [Frames -> CheckStatus \cup {"NONE"}]
  /\ submitScan \in Scans
  /\ syncScan \in Scans
  /\ up \in BOOLEAN
  /\ faults \in 0..MaxFaults

-----------------------------------------------------------------------------
(* Shared by the handlers.                                                 *)

CheckOf(f) == IF f \in Checks THEN f ELSE target[f]

IsSync(w) == job[w] \in SyncIds

Goto(f, place) == pc' = [pc EXCEPT ![f] = place]

\* A worker's slot is free again: nothing of the handler is left.
Release(w) ==
  /\ Goto(w, "idle")
  /\ job' = [job EXCEPT ![w] = None]
  /\ target' = [target EXCEPT ![w] = None]
  /\ owns' = [owns EXCEPT ![w] = FALSE]
  /\ answer' = [answer EXCEPT ![w] = "NONE"]

\* One fault of the given kind, while the bound lasts.
Fault(kind) ==
  /\ kind \in Faults
  /\ faults < MaxFaults
  /\ faults' = faults + 1

Added(state, c) == [state |-> state, check |-> c, tries |-> 0, stalls |-> 0]

\* enqueueSubmit: the job id is the check id, so an existing job is left alone.
EnqueueSubmit(c) ==
  jobs' = IF jobs[c].state = "none" THEN [jobs EXCEPT ![c] = Added("waiting", c)] ELSE jobs

\* enqueueSync: a fresh id, a delay, and no look at the sync jobs that exist.
EnqueueSync(c) ==
  \E j \in SyncIds :
    /\ jobs[j].state = "none"
    /\ jobs' = [jobs EXCEPT ![j] = Added("delayed", c)]

\* Mutant: one status is passed on as the provider spells it.
MapStatusPartly ==
  [queued |-> "QUEUED", running |-> "running", done |-> "DONE", failed |-> "FAILED"]

\* mapStormfinderStatus.
MapStatus ==
  [queued |-> "QUEUED", running |-> "RUNNING", done |-> "DONE", failed |-> "FAILED"]

-----------------------------------------------------------------------------
(* createCheck.                                                            *)

\* The transaction that debits the user and inserts the PENDING row commits.
CreateCheck(c) ==
  /\ up /\ pc[c] = "idle"
  /\ status' = [status EXCEPT ![c] = "PENDING"]
  /\ Goto(c, "enqueue")
  /\ UNCHANGED <<serviceId, balanceRefund, refunds, delivered, provider, jobs,
                 frameVars, scanVars, envVars>>

SubmitEnqueued(c) ==
  /\ pc[c] = "enqueue"
  /\ EnqueueSubmit(c)
  /\ Goto(c, "answered")
  /\ UNCHANGED <<rowVars, provider, frameVars, scanVars, envVars>>

\* enqueueSubmit throws; the catch runs failCheck, whether or not the job was added.
SubmitNotEnqueued(c) ==
  /\ pc[c] = "enqueue"
  /\ \/ Fault("redis") /\ UNCHANGED jobs
     \/ Fault("redisLost") /\ EnqueueSubmit(c)
  /\ Goto(c, "failRead")
  /\ UNCHANGED <<rowVars, provider, frameVars, scanVars, up>>

-----------------------------------------------------------------------------
(* The queue: BullMQ moves jobs and hands them to the worker.              *)

\* A job's delay or backoff is over.
Promote(j) ==
  /\ up /\ jobs[j].state = "delayed"
  /\ jobs' = [jobs EXCEPT ![j].state = "waiting"]
  /\ UNCHANGED <<rowVars, provider, pc, frameVars, scanVars, envVars>>

Take(w, j) ==
  /\ up /\ pc[w] = "idle" /\ jobs[j].state = "waiting"
  /\ jobs' = [jobs EXCEPT ![j].state = "active"]
  /\ job' = [job EXCEPT ![w] = j]
  /\ target' = [target EXCEPT ![w] = jobs[j].check]
  /\ owns' = [owns EXCEPT ![w] = TRUE]
  /\ Goto(w, "load")
  /\ UNCHANGED <<rowVars, provider, answer, current, scanVars, envVars>>

\* A job that failed for good is kept, but a failed sync job is never looked at again.
Failed(j) == IF j \in SyncIds THEN NoJob ELSE [jobs[j] EXCEPT !.state = "failed"]

\* An active job nobody renews the lock of: back to waiting the first time, failed the
\* second (maxStalledCount 1).
StalledJob(j) ==
  /\ jobs[j].state = "active"
  /\ jobs' = [jobs EXCEPT ![j] =
       IF @.stalls = 0 THEN [@ EXCEPT !.state = "waiting", !.stalls = 1] ELSE Failed(j)]
  /\ owns' = [w \in Workers |-> owns[w] /\ job[w] # j]
  /\ UNCHANGED <<rowVars, provider, pc, job, target, answer, current, scanVars, up>>

Abandoned(j) == \A w \in Workers : pc[w] = "idle" \/ job[w] # j \/ ~owns[w]

RecoverStalled(j) == up /\ Abandoned(j) /\ StalledJob(j) /\ UNCHANGED faults

\* The lock of a running handler's job expires; the handler runs on without it.
LoseLock(j) == up /\ ~Abandoned(j) /\ StalledJob(j) /\ Fault("stall")

\* The handler returned: removeOnComplete.
Return(w) ==
  /\ pc[w] = "return"
  /\ jobs' = IF owns[w] THEN [jobs EXCEPT ![job[w]] = NoJob] ELSE jobs
  /\ Release(w)
  /\ UNCHANGED <<rowVars, provider, current, scanVars, envVars>>

\* The handler threw: a submit job has three attempts, a sync job one.
AfterThrow(j) ==
  LET made == IF jobs[j].tries < 3 THEN jobs[j].tries + 1 ELSE 3
  IN IF j \in SyncIds \/ made = 3 THEN Failed(j)
     ELSE [jobs[j] EXCEPT !.state = "delayed", !.tries = made]

Throw(w) ==
  /\ pc[w] = "throw"
  /\ jobs' = IF owns[w] THEN [jobs EXCEPT ![job[w]] = AfterThrow(job[w])] ELSE jobs
  /\ Release(w)
  /\ UNCHANGED <<rowVars, provider, current, scanVars, envVars>>

-----------------------------------------------------------------------------
(* processSubmit and processSync.                                          *)

\* The early returns: a submit wants a PENDING check the provider does not know, a sync
\* an active check the provider knows.
Wanted(w) ==
  LET c == target[w]
  IN IF IsSync(w) THEN serviceId[c] /\ status[c] \in Active
                  ELSE ~serviceId[c] /\ status[c] = "PENDING"

Load(w) ==
  /\ pc[w] = "load"
  /\ Goto(w, IF Wanted(w) THEN "call" ELSE "return")
  /\ UNCHANGED <<rowVars, provider, jobs, frameVars, scanVars, envVars>>

\* findUnique is outside the try of both handlers.
LoadThrows(w) ==
  /\ pc[w] = "load"
  /\ Fault("db")
  /\ Goto(w, "throw")
  /\ UNCHANGED <<rowVars, provider, jobs, frameVars, scanVars, up>>

\* The provider accepts a submit, in any state it likes; the idempotency key makes a
\* repeated submit find the check it made before.
ProviderAccepts(c) ==
  IF provider[c] = "none"
  THEN \E s \in Reports : provider' = [provider EXCEPT ![c] = s]
  ELSE UNCHANGED provider

\* The provider works out its answer; it travels until Persist or failCheck uses it.
CallProvider(w) ==
  /\ pc[w] = "call"
  /\ IF IsSync(w) THEN UNCHANGED provider ELSE ProviderAccepts(target[w])
  /\ answer' = [answer EXCEPT ![w] = MapStatus[provider'[target[w]]]]
  /\ Goto(w, IF answer'[w] = "FAILED" THEN "failRead" ELSE "persist")
  /\ UNCHANGED <<rowVars, jobs, job, target, owns, current, scanVars, envVars>>

\* The catch of processSubmit fails the check, the catch of processSync polls again.
Catch(w) ==
  /\ answer' = [answer EXCEPT ![w] = "ERROR"]
  /\ Goto(w, IF IsSync(w) THEN "requeue" ELSE "failRead")

\* The call throws: refused, no answer (though the provider may have accepted), or an
\* answer the mapper cannot read.
CallThrows(w) ==
  /\ pc[w] = "call"
  /\ Fault("provider")
  /\ IF IsSync(w) THEN UNCHANGED provider
                  ELSE UNCHANGED provider \/ ProviderAccepts(target[w])
  /\ Catch(w)
  /\ UNCHANGED <<rowVars, jobs, job, target, owns, current, scanVars, up>>

\* persistProviderResult's update: whatever the row says by now.
Persist(c, newStatus) ==
  /\ status' = [status EXCEPT ![c] = newStatus]
  /\ serviceId' = [serviceId EXCEPT ![c] = TRUE]
  /\ delivered' = [delivered EXCEPT ![c] = @ \/ newStatus = "DONE"]
  /\ UNCHANGED <<balanceRefund, refunds>>

PersistResult(w) ==
  /\ pc[w] = "persist"
  /\ Persist(target[w], answer[w])
  /\ Goto(w, IF answer[w] \in Active THEN "enqueue" ELSE "return")
  /\ UNCHANGED <<provider, jobs, frameVars, scanVars, envVars>>

PersistThrows(w) ==
  /\ pc[w] = "persist"
  /\ Fault("db")
  /\ UNCHANGED rowVars \/ Persist(target[w], answer[w])
  /\ Catch(w)
  /\ UNCHANGED <<provider, jobs, job, target, owns, current, scanVars, up>>

\* Mutant: the poll is scheduled in the try and once more in a finally.
SyncEnqueuedTwice(w) ==
  /\ pc[w] \in {"enqueue", "requeue"}
  /\ EnqueueSync(target[w])
  /\ Goto(w, IF pc[w] = "enqueue" THEN "requeue" ELSE "return")
  /\ UNCHANGED <<rowVars, provider, frameVars, scanVars, envVars>>

\* The check is still active: poll it again later.  "requeue" is the catch of processSync.
SyncEnqueued(w) ==
  /\ pc[w] \in {"enqueue", "requeue"}
  /\ EnqueueSync(target[w])
  /\ Goto(w, "return")
  /\ UNCHANGED <<rowVars, provider, frameVars, scanVars, envVars>>

SyncNotEnqueued(w) ==
  /\ pc[w] \in {"enqueue", "requeue"}
  /\ \/ Fault("redis") /\ UNCHANGED jobs
     \/ Fault("redisLost") /\ EnqueueSync(target[w])
  /\ IF pc[w] = "enqueue" THEN Catch(w) ELSE Goto(w, "throw") /\ UNCHANGED answer
  /\ UNCHANGED <<rowVars, provider, job, target, owns, current, scanVars, up>>

-----------------------------------------------------------------------------
(* failCheck, for any frame.                                               *)

FailRead(f) ==
  /\ pc[f] = "failRead"
  /\ current' = [current EXCEPT ![f] = status[CheckOf(f)]]
  /\ Goto(f, "failWrite")
  /\ UNCHANGED <<rowVars, provider, jobs, job, target, owns, answer, scanVars, envVars>>

\* Mutant: only a check that was not submitted is paid back.
ShouldRefundUnsubmitted(f) == current[f] = "PENDING"

\* Mutant: everything that is not FAILED yet is paid back.
ShouldRefundUnlessFailed(f) == current[f] # "FAILED"

\* shouldRefund.
ShouldRefund(f) == current[f] \notin Final

\* The frame runs failCheck for an answer FAILED, which carries a serviceId.
Rejected(f) == f \in Workers /\ answer[f] = "FAILED"

\* Mutant: the flag is set with the status, whether or not the price was credited.
FailCheckFlagAlways(f) ==
  LET c == CheckOf(f)
  IN IF current[f] = "FAILED"
     THEN UNCHANGED rowVars
     ELSE /\ status' = [status EXCEPT ![c] = "FAILED"]
          /\ serviceId' = [serviceId EXCEPT ![c] = @ \/ Rejected(f)]
          /\ refunds' = [refunds EXCEPT ![c] = IF ShouldRefund(f) THEN @ + 1 ELSE @]
          /\ balanceRefund' = [balanceRefund EXCEPT ![c] = TRUE]
          /\ UNCHANGED delivered

\* Mutant: a check that is FAILED already is failed and paid back again.
FailCheckAgain(f) ==
  LET c == CheckOf(f)
  IN /\ status' = [status EXCEPT ![c] = "FAILED"]
     /\ serviceId' = [serviceId EXCEPT ![c] = @ \/ Rejected(f)]
     /\ refunds' = [refunds EXCEPT ![c] = IF current[f] # "DONE" THEN @ + 1 ELSE @]
     /\ balanceRefund' = [balanceRefund EXCEPT ![c] = @ \/ current[f] # "DONE"]
     /\ UNCHANGED delivered

\* What the transaction writes, from the status it read.
FailCheck(f) ==
  LET c == CheckOf(f)
  IN IF current[f] = "FAILED"
     THEN UNCHANGED rowVars
     ELSE /\ status' = [status EXCEPT ![c] = "FAILED"]
          /\ serviceId' = [serviceId EXCEPT ![c] = @ \/ Rejected(f)]
          /\ refunds' = [refunds EXCEPT ![c] = IF ShouldRefund(f) THEN @ + 1 ELSE @]
          /\ balanceRefund' = [balanceRefund EXCEPT ![c] = @ \/ ShouldRefund(f)]
          /\ UNCHANGED delivered

FailWrite(f) ==
  /\ pc[f] = "failWrite"
  /\ FailCheck(f)
  /\ Goto(f, IF f \in Checks THEN "answered" ELSE "return")
  /\ current' = [current EXCEPT ![f] = "NONE"]
  /\ UNCHANGED <<provider, jobs, job, target, owns, answer, scanVars, envVars>>

\* The transaction throws, rolled back or committed with the answer lost.  Inside the try
\* of a handler its catch runs; elsewhere the error leaves the handler.
FailThrows(f) ==
  /\ pc[f] \in {"failRead", "failWrite"}
  /\ Fault("db")
  /\ UNCHANGED rowVars \/ (pc[f] = "failWrite" /\ FailCheck(f))
  /\ IF Rejected(f) THEN Catch(f)
     ELSE /\ Goto(f, IF f \in Checks THEN "answered" ELSE "throw")
          /\ UNCHANGED answer
  /\ current' = [current EXCEPT ![f] = "NONE"]
  /\ UNCHANGED <<provider, jobs, job, target, owns, scanVars, up>>

-----------------------------------------------------------------------------
(* The provider works on the check.                                        *)

ProviderStep(c) ==
  /\ \/ /\ provider[c] = "queued" /\ "running" \in Reports
        /\ provider' = [provider EXCEPT ![c] = "running"]
     \/ /\ provider[c] \in {"queued", "running"}
        /\ \E s \in Reports \cap {"done", "failed"} : provider' = [provider EXCEPT ![c] = s]
  /\ UNCHANGED <<rowVars, jobs, pc, frameVars, scanVars, envVars>>

-----------------------------------------------------------------------------
(* Crash, restart and the recovery that onApplicationBootstrap starts and  *)
(* does not wait for: its two loops run beside each other, the workers and *)
(* the HTTP requests.                                                      *)

Idle == [pc |-> "off", todo |-> {}, check |-> None]

Crash ==
  /\ up
  /\ Fault("crash")
  /\ up' = FALSE
  /\ pc' = [f \in Frames |->
       IF f \in Workers THEN "idle"
       ELSE IF pc[f] \in {"idle", "answered"} THEN pc[f] ELSE "lost"]
  /\ job' = [w \in Workers |-> None]
  /\ target' = [w \in Workers |-> None]
  /\ owns' = [w \in Workers |-> FALSE]
  /\ answer' = [w \in Workers |-> "NONE"]
  /\ current' = [f \in Frames |-> "NONE"]
  /\ submitScan' = Idle /\ syncScan' = Idle
  /\ UNCHANGED <<rowVars, provider, jobs>>

Restart ==
  /\ ~up
  /\ up' = TRUE
  /\ submitScan' = [Idle EXCEPT !.pc = "find"]
  /\ syncScan' = [Idle EXCEPT !.pc = "find"]
  /\ UNCHANGED <<rowVars, provider, jobs, pc, frameVars, faults>>

\* recoverPendingSubmits' findMany.
FindSubmits ==
  /\ submitScan.pc = "find"
  /\ submitScan' = [submitScan EXCEPT !.pc = "pick",
       !.todo = {c \in Checks : status[c] = "PENDING" /\ ~serviceId[c]}]
  /\ UNCHANGED <<rowVars, provider, jobs, pc, frameVars, syncScan, envVars>>

\* ensureSubmit's getJob, for the next check.
PickSubmit ==
  /\ submitScan.pc = "pick"
  /\ \/ /\ submitScan.todo = {}
        /\ submitScan' = Idle
     \/ \E c \in submitScan.todo :
          submitScan' = [pc |-> IF jobs[c].state = "none" THEN "add" ELSE "state",
                         todo |-> submitScan.todo \ {c}, check |-> c]
  /\ UNCHANGED <<rowVars, provider, jobs, pc, frameVars, syncScan, envVars>>

\* getState: pending, failed, or gone since getJob.
LookAtSubmit ==
  /\ submitScan.pc = "state"
  /\ submitScan' = [submitScan EXCEPT !.pc =
       CASE jobs[submitScan.check].state = "failed" -> "retry"
         [] jobs[submitScan.check].state = "none"   -> "add"
         [] OTHER                                 -> "pick"]
  /\ UNCHANGED <<rowVars, provider, jobs, pc, frameVars, syncScan, envVars>>

RetrySubmit ==
  /\ submitScan.pc = "retry"
  /\ jobs' = [jobs EXCEPT ![submitScan.check].state = "waiting"]
  /\ submitScan' = [submitScan EXCEPT !.pc = "pick", !.check = None]
  /\ UNCHANGED <<rowVars, provider, pc, frameVars, syncScan, envVars>>

AddSubmit ==
  /\ submitScan.pc = "add"
  /\ EnqueueSubmit(submitScan.check)
  /\ submitScan' = [submitScan EXCEPT !.pc = "pick", !.check = None]
  /\ UNCHANGED <<rowVars, provider, pc, frameVars, syncScan, envVars>>

\* Mutant: the recovery looks for QUEUED checks only.
FindQueuedSyncs ==
  /\ syncScan.pc = "find"
  /\ syncScan' = [syncScan EXCEPT !.pc = "pick",
       !.todo = {c \in Checks : status[c] = "QUEUED" /\ serviceId[c]}]
  /\ UNCHANGED <<rowVars, provider, jobs, pc, frameVars, submitScan, envVars>>

\* recoverActiveSyncs' findMany.
FindSyncs ==
  /\ syncScan.pc = "find"
  /\ syncScan' = [syncScan EXCEPT !.pc = "pick",
       !.todo = {c \in Checks : status[c] \in {"QUEUED", "RUNNING"} /\ serviceId[c]}]
  /\ UNCHANGED <<rowVars, provider, jobs, pc, frameVars, submitScan, envVars>>

PickSync ==
  /\ syncScan.pc = "pick"
  /\ \/ /\ syncScan.todo = {}
        /\ syncScan' = Idle
     \/ \E c \in syncScan.todo :
          syncScan' = [pc |-> "waiting", todo |-> syncScan.todo \ {c}, check |-> c]
  /\ UNCHANGED <<rowVars, provider, jobs, pc, frameVars, submitScan, envVars>>

HasSyncJob(c, state) == \E j \in SyncIds : jobs[j].state = state /\ jobs[j].check = c

\* hasPendingSyncJob asks for one state after the other; jobs move on in between.
NextState == [waiting |-> "active", active |-> "delayed", delayed |-> "add"]

ScanSync ==
  /\ syncScan.pc \in DOMAIN NextState
  /\ syncScan' = [syncScan EXCEPT !.pc =
       IF HasSyncJob(syncScan.check, syncScan.pc) THEN "pick" ELSE NextState[syncScan.pc]]
  /\ UNCHANGED <<rowVars, provider, jobs, pc, frameVars, submitScan, envVars>>

AddSync ==
  /\ syncScan.pc = "add"
  /\ EnqueueSync(syncScan.check)
  /\ syncScan' = [syncScan EXCEPT !.pc = "pick", !.check = None]
  /\ UNCHANGED <<rowVars, provider, pc, frameVars, submitScan, envVars>>

-----------------------------------------------------------------------------

Init ==
  /\ status = [c \in Checks |-> "NONE"]
  /\ serviceId = [c \in Checks |-> FALSE]
  /\ balanceRefund = [c \in Checks |-> FALSE]
  /\ refunds = [c \in Checks |-> 0]
  /\ delivered = [c \in Checks |-> FALSE]
  /\ provider = [c \in Checks |-> "none"]
  /\ jobs = [j \in JobIds |-> NoJob]
  /\ pc = [f \in Frames |-> "idle"]
  /\ job = [w \in Workers |-> None]
  /\ target = [w \in Workers |-> None]
  /\ owns = [w \in Workers |-> FALSE]
  /\ answer = [w \in Workers |-> "NONE"]
  /\ current = [f \in Frames |-> "NONE"]
  /\ submitScan = Idle
  /\ syncScan = Idle
  /\ up = TRUE
  /\ faults = 0

\* What a handler does next when nothing goes wrong.
Handle(w) ==
  Load(w) \/ CallProvider(w) \/ PersistResult(w) \/ SyncEnqueued(w) \/ Return(w) \/ Throw(w)

HandleFault(w) ==
  LoadThrows(w) \/ CallThrows(w) \/ PersistThrows(w) \/ SyncNotEnqueued(w)

FailStep(f) == FailRead(f) \/ FailWrite(f)

RecoverSubmits ==
  FindSubmits \/ PickSubmit \/ LookAtSubmit \/ RetrySubmit \/ AddSubmit

RecoverSyncs ==
  FindSyncs \/ PickSync \/ ScanSync \/ AddSync

\* Nothing is on its way, whatever became of the checks.
Quiet ==
  /\ up
  /\ \A c \in Checks : pc[c] \in {"answered", "lost"}
  /\ \A w \in Workers : pc[w] = "idle"
  /\ \A j \in JobIds : jobs[j].state \in {"none", "failed"}
  /\ submitScan = Idle /\ syncScan = Idle

\* The bound SyncIds is used up: the model may stop here, the code would go on.
Saturated == \A j \in SyncIds : jobs[j].state # "none"

\* Any other standstill is a deadlock.
Rest == (Quiet \/ Saturated) /\ UNCHANGED vars

Next ==
  \/ \E c \in Checks : CreateCheck(c) \/ SubmitEnqueued(c) \/ SubmitNotEnqueued(c)
                         \/ ProviderStep(c)
  \/ \E j \in JobIds : Promote(j) \/ RecoverStalled(j) \/ LoseLock(j)
                         \/ \E w \in Workers : Take(w, j)
  \/ \E w \in Workers : Handle(w) \/ HandleFault(w)
  \/ \E f \in Frames : FailStep(f) \/ FailThrows(f)
  \/ RecoverSubmits \/ RecoverSyncs
  \/ Crash \/ Restart
  \/ Rest

Spec == Init /\ [][Next]_vars

(* The event loop runs every handler on, the database, Redis and the       *)
(* provider answer, timers fire, Docker restarts a dead process (restart:  *)
(* always).  A job waits its turn behind others but BullMQ serves the      *)
(* queue in order, hence strong fairness for taking it.                    *)
Fairness ==
  /\ \A c \in Checks : WF_vars(SubmitEnqueued(c)) /\ WF_vars(ProviderStep(c))
  /\ \A f \in Frames : WF_vars(FailStep(f))
  /\ \A w \in Workers : WF_vars(Handle(w))
  /\ \A j \in JobIds :
       /\ WF_vars(Promote(j))
       /\ WF_vars(RecoverStalled(j))
       /\ SF_vars(\E w \in Workers : Take(w, j))
  /\ WF_vars(RecoverSubmits) /\ WF_vars(RecoverSyncs) /\ WF_vars(Restart)

FairSpec == Spec /\ Fairness

-----------------------------------------------------------------------------

\* The flag on the row and the refund rows in the ledger agree, whatever goes wrong:
\* failCheck writes both in one transaction and nothing else writes either.
RefundFlagMatchesLedger ==
  \A c \in Checks : balanceRefund[c] <=> refunds[c] > 0

\* A check that ends FAILED and was never delivered was paid back, whatever goes wrong.
FailureIsPaidBack ==
  \A c \in Checks : status[c] = "FAILED" /\ ~delivered[c] => refunds[c] > 0

\* shouldRefund is there to pay a check back once.
RefundAtMostOnce == \A c \in Checks : refunds[c] <= 1

\* Frames that may still change the row of c or start another, and jobs that will start one.
DrivingFrames(c) ==
  {f \in Frames : CheckOf(f) = c /\ pc[f] \notin {"idle", "return", "answered", "lost"}}

PendingJobs(c) ==
  {j \in JobIds : jobs[j].check = c /\ jobs[j].state \in {"waiting", "delayed"}}

\* As long as no job is duplicated, at any time at most one frame or pending job drives a
\* check.
OneDriver ==
  \A c \in Checks : Cardinality(DrivingFrames(c)) + Cardinality(PendingJobs(c)) <= 1

\* A bought check reaches a final status and keeps one, although a crash may leave its job
\* stalled, lose its job, or start a second chain of polls.
BoughtCheckSettles ==
  \A c \in Checks : status[c] = "PENDING" ~> [](status[c] \in Final)

-----------------------------------------------------------------------------

\* The promise of Settlement, as the rows and the ledger show it.
Promise == INSTANCE Settlement WITH
  bought <- [c \in Checks |-> status[c] # "NONE"], served <- delivered

\* Without crashes, stalls and lost replies of Redis the lifecycle keeps the promise:
\* every check is served or paid back, once.
KeepsSettlement == Promise!Spec

=============================================================================
