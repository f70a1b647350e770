-------------------------------- MODULE Batch --------------------------------
(***************************************************************************)
(* One batch of checks from its creation to its report: BatchService       *)
(* (src/src/batch/batch.service.ts) with its row of batch_checks, the rows *)
(* of its children, and ReportService.generateBatch.                       *)
(*                                                                         *)
(* Every child runs on its own; whichever reaches a final status calls     *)
(* onCheckCompleted, which counts the children and writes what it counted. *)
(* Every await of it ends an action.  How a child gets to its final status *)
(* is the subject of CheckLifecycle: here a job of a child either leaves   *)
(* it active, with a poll to come, or settles it.                          *)
(***************************************************************************)
EXTENDS Naturals, FiniteSets

CONSTANTS Children,   \* the checks of the batch
          Faults,     \* what the environment does wrong, see FaultKinds
          MaxFaults,  \* bound: how often it does so
          None        \* no report

FaultKinds ==
  {"redis",   \* enqueueSubmit throws, the job added or not
   "db",      \* a statement throws, applied or not
   "disk",    \* the report cannot be written
   "crash"}   \* the process dies and is started again

ASSUME ChildrenAreFinite == IsFiniteSet(Children) /\ Children # {}
ASSUME FaultsAreKnown == Faults \subseteq FaultKinds
ASSUME MaxFaultsIsNatural == MaxFaults \in Nat

\* batch.totalItems
TotalItems == Cardinality(Children)

Final == {"DONE", "FAILED"}
ChildStatus == {"NONE", "PENDING", "QUEUED"} \cup Final
BatchStatus == {"NONE", "PENDING", "QUEUED", "RUNNING"} \cup Final

ASSUME NoneIsNoReport == None \notin [Children -> ChildStatus]

VARIABLES
  batchStatus,      \* batch_checks.status, "NONE" before the row exists
  successfulItems,  \* batch_checks.successful_items
  failedItems,      \* batch_checks.failed_items
  completedAt,      \* whether batch_checks.completed_at is set
  status,           \* the children's checks.status
  creator,          \* where the request that creates the batch is; "rejected" when an
                    \* statement or an enqueue threw; the other enqueues do not notice
  toEnqueue,        \* the children whose submit job it has not added yet
  pc,               \* where each child is: its job in the queue, or its handler
  sync,             \* whether the handler is processSync
  counted,          \* the counts onCheckCompleted has so far
  seen,             \* and their values
  snapshot,         \* the children as generateBatch read them
  report,           \* the batch's Excel file: the statuses it shows
  event,            \* batch_checks.status as a handler read it for its event, else "NONE"
  told,             \* the status in the last batch.updated, "NONE" before there is one
  completions,      \* history: how often the batch was completed
  up,               \* whether the process runs
  faults            \* how many faults happened

rowVars == <<batchStatus, successfulItems, failedItems, completedAt, completions>>
createVars == <<creator, toEnqueue>>
countVars == <<counted, seen>>
reportVars == <<snapshot, report>>
eventVars == <<event, told>>
envVars == <<up, faults>>
vars == <<rowVars, status, createVars, pc, sync, countVars, reportVars, eventVars, envVars>>

Places == {"idle", "waiting", "work", "find", "count", "reload", "read", "write", "publish",
           "fail"}

TypeOK ==
  /\ batchStatus \in BatchStatus
  /\ successfulItems \in 0..TotalItems
  /\ failedItems \in 0..TotalItems
  /\ completedAt \in BOOLEAN
  /\ status \in [Children -> ChildStatus]
  /\ creator \in {"idle", "queued", "enqueue", "rejected", "answered"}
  /\ toEnqueue \in SUBSET Children
  /\ pc \in [Children -> Places]
  /\ sync \in [Children -> BOOLEAN]
  /\ counted \in [Children -> SUBSET Final]
  /\ seen \in [Children -> [Final -> 0..TotalItems]]
  /\ snapshot \in [Children -> ChildStatus]
  /\ report \in [Children -> ChildStatus] \cup {None}
  /\ event \in [Children -> BatchStatus]
  /\ told \in BatchStatus
  /\ completions \in Nat
  /\ up \in BOOLEAN
  /\ faults \in 0..MaxFaults

Goto(c, place) == pc' = [pc EXCEPT ![c] = place]

Fault(kind) ==
  /\ kind \in Faults
  /\ faults < MaxFaults
  /\ faults' = faults + 1

-----------------------------------------------------------------------------
(* create.                                                                 *)

\* The transaction that debits the user and inserts the batch and its children commits.
Create ==
  /\ up /\ creator = "idle"
  /\ batchStatus' = "PENDING"
  /\ status' = [c \in Children |-> "PENDING"]
  /\ creator' = "queued"
  /\ UNCHANGED <<successfulItems, failedItems, completedAt, completions, toEnqueue, pc, sync,
                 countVars, reportVars, eventVars, envVars>>

\* The update to QUEUED, and the ids of the children.
MarkQueued ==
  /\ creator = "queued"
  /\ batchStatus' = "QUEUED"
  /\ toEnqueue' = Children
  /\ creator' = "enqueue"
  /\ UNCHANGED <<successfulItems, failedItems, completedAt, completions, status, pc, sync,
                 countVars, reportVars, eventVars, envVars>>

\* The update or the findMany throws: the request fails with its batch paid for and stored,
\* and no child has a job.
MarkQueuedThrows ==
  /\ creator = "queued"
  /\ Fault("db")
  /\ batchStatus' \in {batchStatus, "QUEUED"}
  /\ creator' = "rejected"
  /\ UNCHANGED <<successfulItems, failedItems, completedAt, completions, status, toEnqueue, pc,
                 sync, countVars, reportVars, eventVars, up>>

\* One call of the Promise.all over enqueueSubmit.
Enqueue(c) ==
  /\ creator \in {"enqueue", "rejected"} /\ c \in toEnqueue
  /\ toEnqueue' = toEnqueue \ {c}
  /\ Goto(c, "waiting")
  /\ UNCHANGED <<rowVars, status, creator, sync, countVars, reportVars, eventVars, envVars>>

\* A rejected call rejects the request; the others go on, nobody undoes anything.  The job
\* may be in the queue all the same, when only Redis' answer was lost.
EnqueueThrows(c) ==
  /\ creator \in {"enqueue", "rejected"} /\ c \in toEnqueue
  /\ Fault("redis")
  /\ toEnqueue' = toEnqueue \ {c}
  /\ creator' = "rejected"
  /\ UNCHANGED pc \/ Goto(c, "waiting")
  /\ UNCHANGED <<rowVars, status, sync, countVars, reportVars, eventVars, up>>

\* The row as it was when it was QUEUED is published, whatever happened since.
Answer ==
  /\ creator = "enqueue" /\ toEnqueue = {}
  /\ creator' = "answered"
  /\ told' = "QUEUED"
  /\ UNCHANGED <<rowVars, status, toEnqueue, pc, sync, countVars, reportVars, event, envVars>>

-----------------------------------------------------------------------------
(* The job of a child.                                                     *)

\* processSubmit or processSync, up to their early return.
Take(c) ==
  /\ up /\ pc[c] = "waiting"
  /\ Goto(c, IF status[c] \in Final THEN "idle" ELSE "work")
  /\ sync' = [sync EXCEPT ![c] = status[c] # "PENDING"]
  /\ UNCHANGED <<rowVars, status, createVars, countVars, reportVars, eventVars, envVars>>

\* The provider took the check: it is polled later.
Submitted(c) ==
  /\ pc[c] = "work" /\ ~sync[c]
  /\ status' = [status EXCEPT ![c] = "QUEUED"]
  /\ Goto(c, "waiting")
  /\ UNCHANGED <<rowVars, createVars, sync, countVars, reportVars, eventVars, envVars>>

\* persistProviderResult or failCheck writes a final status and calls onCheckCompleted.
Settle(c, s) ==
  /\ pc[c] = "work"
  /\ status' = [status EXCEPT ![c] = s]
  /\ Goto(c, "find")
  /\ UNCHANGED <<rowVars, createVars, sync, countVars, reportVars, eventVars, envVars>>

\* What throws once a child is final reaches the handler.  processSubmit fails a check
\* that is DONE.  In every other case what is left of the handler, the poll it schedules
\* or the attempt that follows returns early, for the check is final.
Throw(c, s) == Goto(c, IF ~sync[c] /\ s = "DONE" THEN "fail" ELSE "idle")

\* The final status is in the database, but the statement throws.
SettleThrows(c, s) ==
  /\ pc[c] = "work"
  /\ Fault("db")
  /\ status' = [status EXCEPT ![c] = s]
  /\ Throw(c, s)
  /\ UNCHANGED <<rowVars, createVars, sync, countVars, reportVars, eventVars, up>>

\* The catch of processSubmit: failCheck turns the DONE check into a FAILED one, pays
\* nothing back, and calls onCheckCompleted again.
FailDone(c) ==
  /\ pc[c] = "fail"
  /\ status' = [status EXCEPT ![c] = "FAILED"]
  /\ Goto(c, "find")
  /\ UNCHANGED <<rowVars, createVars, sync, countVars, reportVars, eventVars, envVars>>

FailDoneThrows(c) ==
  /\ pc[c] = "fail"
  /\ Fault("db")
  /\ UNCHANGED status \/ status' = [status EXCEPT ![c] = "FAILED"]
  /\ Goto(c, "idle")
  /\ UNCHANGED <<rowVars, createVars, sync, countVars, reportVars, eventVars, up>>

-----------------------------------------------------------------------------
(* onCheckCompleted.                                                       *)

FindBatch(c) ==
  /\ pc[c] = "find"
  /\ Goto(c, IF completedAt THEN "idle" ELSE "count")
  /\ counted' = [counted EXCEPT ![c] = {}]
  /\ UNCHANGED <<rowVars, status, createVars, sync, seen, reportVars, eventVars, envVars>>

NumberOf(s) == Cardinality({d \in Children : status[d] = s})

\* Two queries of a Promise.all: they see the table at different times, in any order.
Count(c, s) ==
  /\ pc[c] = "count" /\ s \notin counted[c]
  /\ seen' = [seen EXCEPT ![c][s] = NumberOf(s)]
  /\ counted' = [counted EXCEPT ![c] = @ \cup {s}]
  /\ UNCHANGED <<rowVars, status, createVars, pc, sync, reportVars, eventVars, envVars>>

HasCounts(c) == pc[c] = "count" /\ counted[c] = Final

\* What the handler goes on to needs no counts.
Forget(c) ==
  /\ counted' = [counted EXCEPT ![c] = {}]
  /\ seen' = [seen EXCEPT ![c] = [s \in Final |-> 0]]

\* Mutant: only successful children count.
IsCompleteDoneOnly(c) == seen[c]["DONE"] = TotalItems

\* Mutant: off by one.
IsCompleteEarly(c) == seen[c]["DONE"] + seen[c]["FAILED"] + 1 >= TotalItems

\* completed
IsComplete(c) == seen[c]["DONE"] + seen[c]["FAILED"] = TotalItems

\* Mutant: the counts are added to those of the row.
ProgressAdded(c) ==
  /\ successfulItems' = successfulItems + seen[c]["DONE"]
  /\ failedItems' = failedItems + seen[c]["FAILED"]
  /\ batchStatus' = "RUNNING"
  /\ UNCHANGED <<completedAt, completions>>

\* The update of a batch that is not complete: whatever the row says by now.
Progress(c) ==
  /\ successfulItems' = seen[c]["DONE"]
  /\ failedItems' = seen[c]["FAILED"]
  /\ batchStatus' = "RUNNING"
  /\ UNCHANGED <<completedAt, completions>>

\* Mutant: the return after the progress is missing.
UpdateProgressFallsThrough(c) ==
  /\ HasCounts(c) /\ ~IsComplete(c)
  /\ Progress(c)
  /\ Forget(c)
  /\ Goto(c, "reload")
  /\ UNCHANGED <<status, createVars, sync, reportVars, eventVars, envVars>>

UpdateProgress(c) ==
  /\ HasCounts(c) /\ ~IsComplete(c)
  /\ Progress(c)
  /\ Forget(c)
  /\ event' = [event EXCEPT ![c] = batchStatus']
  /\ Goto(c, "publish")
  /\ UNCHANGED <<status, createVars, sync, reportVars, told, envVars>>

\* Mutant: one failed child fails the batch.
OutcomeAnyFailed(c) == IF seen[c]["FAILED"] > 0 THEN "FAILED" ELSE "DONE"

Outcome(c) == IF seen[c]["FAILED"] = TotalItems THEN "FAILED" ELSE "DONE"

\* Mutant: update instead of updateMany where completedAt is null.
CompletedAgain(c) ==
  /\ successfulItems' = seen[c]["DONE"]
  /\ failedItems' = seen[c]["FAILED"]
  /\ batchStatus' = Outcome(c)
  /\ completedAt' = TRUE
  /\ completions' = completions + 1

\* updateMany where completedAt is null, when it finds the row.
Completed(c) ==
  /\ ~completedAt
  /\ successfulItems' = seen[c]["DONE"]
  /\ failedItems' = seen[c]["FAILED"]
  /\ batchStatus' = Outcome(c)
  /\ completedAt' = TRUE
  /\ completions' = completions + 1

Complete(c) ==
  /\ HasCounts(c) /\ IsComplete(c)
  /\ \/ Completed(c) /\ Goto(c, "reload")
     \/ completedAt /\ UNCHANGED rowVars /\ Goto(c, "idle")
  /\ Forget(c)
  /\ UNCHANGED <<status, createVars, sync, reportVars, eventVars, envVars>>

\* findUniqueOrThrow: the row as somebody's progress may have left it meanwhile.
Reload(c) ==
  /\ pc[c] = "reload"
  /\ event' = [event EXCEPT ![c] = batchStatus]
  /\ Goto(c, "read")
  /\ UNCHANGED <<rowVars, status, createVars, sync, countVars, reportVars, told, envVars>>

\* generateBatch: the findMany, then, much later, the file.
ReadChildren(c) ==
  /\ pc[c] = "read"
  /\ snapshot' = status
  /\ Goto(c, "write")
  /\ UNCHANGED <<rowVars, status, createVars, sync, countVars, report, eventVars, envVars>>

\* Mutant: nobody awaits the file.
WriteReportLater(c) ==
  /\ pc[c] = "write"
  /\ UNCHANGED report
  /\ Goto(c, "publish")
  /\ UNCHANGED <<rowVars, status, createVars, sync, countVars, snapshot, eventVars, envVars>>

WriteReport(c) ==
  /\ pc[c] = "write"
  /\ report' = snapshot
  /\ Goto(c, "publish")
  /\ UNCHANGED <<rowVars, status, createVars, sync, countVars, snapshot, eventVars, envVars>>

\* The event, after a progress or after the report.
Publish(c) ==
  /\ pc[c] = "publish"
  /\ told' = event[c]
  /\ event' = [event EXCEPT ![c] = "NONE"]
  /\ Goto(c, "idle")
  /\ UNCHANGED <<rowVars, status, createVars, sync, countVars, reportVars, envVars>>

QueryThrows(c) ==
  /\ \/ /\ pc[c] \in {"find", "count", "reload", "read"} /\ Fault("db")
        /\ \/ UNCHANGED rowVars
           \/ HasCounts(c) /\ ~IsComplete(c) /\ Progress(c)
           \/ HasCounts(c) /\ IsComplete(c) /\ Completed(c)
     \/ pc[c] = "write" /\ Fault("disk") /\ UNCHANGED rowVars
  /\ Throw(c, status[c])
  /\ event' = [event EXCEPT ![c] = "NONE"]
  /\ UNCHANGED <<status, createVars, sync, countVars, reportVars, told, up>>

-----------------------------------------------------------------------------

\* A running job becomes a stalled one and is taken again.
Crash ==
  /\ up /\ creator # "idle"
  /\ Fault("crash")
  /\ up' = FALSE
  /\ pc' = [c \in Children |-> IF pc[c] \in {"idle", "waiting"} THEN pc[c] ELSE "waiting"]
  /\ sync' = [c \in Children |-> FALSE]
  /\ creator' = "answered" /\ toEnqueue' = {}
  /\ event' = [c \in Children |-> "NONE"]
  /\ UNCHANGED <<rowVars, status, countVars, reportVars, told>>

\* The recovery gives every active child without a job one; it does not look at batches.
Restart ==
  /\ ~up
  /\ up' = TRUE
  /\ pc' = [c \in Children |->
       IF pc[c] = "idle" /\ status[c] \in {"PENDING", "QUEUED"} THEN "waiting" ELSE pc[c]]
  /\ UNCHANGED <<rowVars, status, createVars, sync, countVars, reportVars, eventVars, faults>>

Init ==
  /\ batchStatus = "NONE"
  /\ successfulItems = 0 /\ failedItems = 0
  /\ completedAt = FALSE
  /\ status = [c \in Children |-> "NONE"]
  /\ creator = "idle" /\ toEnqueue = {}
  /\ pc = [c \in Children |-> "idle"]
  /\ sync = [c \in Children |-> FALSE]
  /\ counted = [c \in Children |-> {}]
  /\ seen = [c \in Children |-> [s \in Final |-> 0]]
  /\ snapshot = [c \in Children |-> "NONE"]
  /\ report = None
  /\ event = [c \in Children |-> "NONE"] /\ told = "NONE"
  /\ completions = 0
  /\ up = TRUE
  /\ faults = 0

CreateStep == MarkQueued \/ Answer \/ \E c \in Children : Enqueue(c)

HandleFault(c) ==
  \/ EnqueueThrows(c) \/ QueryThrows(c) \/ FailDoneThrows(c)
  \/ \E s \in Final : SettleThrows(c, s)

\* The handler of a child goes on.
Handle(c) ==
  \/ Submitted(c) \/ FailDone(c)
  \/ \E s \in Final : Settle(c, s) \/ Count(c, s)
  \/ FindBatch(c) \/ UpdateProgress(c) \/ Complete(c)
  \/ Reload(c) \/ ReadChildren(c) \/ WriteReport(c) \/ Publish(c)

\* Every handler came to its end, whatever became of the batch.
Rest ==
  /\ up /\ creator \in {"rejected", "answered"} /\ toEnqueue = {}
  /\ \A c \in Children : pc[c] = "idle"
  /\ UNCHANGED vars

Next ==
  \/ Create \/ CreateStep \/ MarkQueuedThrows
  \/ \E c \in Children : Take(c) \/ Handle(c) \/ HandleFault(c)
  \/ Crash \/ Restart
  \/ Rest

Spec == Init /\ [][Next]_vars

(* The event loop runs the request and the handlers on, the queue hands    *)
(* out the jobs, Docker restarts a dead process.                           *)
Fairness ==
  /\ WF_vars(CreateStep) /\ WF_vars(Restart)
  /\ \A c \in Children : WF_vars(Take(c)) /\ WF_vars(Handle(c))

FairSpec == Spec /\ Fairness

-----------------------------------------------------------------------------

\* When nothing fails a batch is completed only when every child is final, with the true
\* counts, although the children were counted by two queries at different times.
CompletionCountsAll ==
  [][~completedAt /\ completedAt' =>
       /\ \A c \in Children : status[c] \in Final
       /\ successfulItems' = NumberOf("DONE")
       /\ failedItems' = NumberOf("FAILED")]_vars

\* The report of a batch shows the final status of every child.
ReportCoversBatch ==
  report # None => \A c \in Children : report[c] \in Final /\ report[c] = status[c]

\* Of all the children that find the batch complete, one completes it.
CompletedOnce == completions <= 1

\* A batch is FAILED only when every child is, whatever goes wrong.
FailedMeansAllFailed ==
  batchStatus = "FAILED" => \A c \in Children : status[c] = "FAILED"

\* Whatever goes wrong and in whatever order the events come: a client that is told of the
\* outcome finds the report written, and all children FAILED if it is told FAILED.
ToldOutcomeHolds ==
  told \in Final =>
    /\ report # None
    /\ told = "FAILED" => \A c \in Children : status[c] = "FAILED"

\* The status of a completed batch is the outcome.
CompletedHasOutcome == completedAt => batchStatus \in Final

\* A batch that was created is completed and has its report.
BatchCompletes == batchStatus # "NONE" ~> completedAt /\ report # None

=============================================================================
