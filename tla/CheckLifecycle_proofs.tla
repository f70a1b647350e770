------------------------ MODULE CheckLifecycle_proofs ------------------------
(***************************************************************************)
(* Theorems about CheckLifecycle, for any checks, workers, sync ids and    *)
(* provider reports, and for every set and number of faults.               *)
(***************************************************************************)
EXTENDS CheckLifecycle, TLAPS

Known(c) == provider[c] # "none"

\* Only what the provider answered for a check is persisted, and only such a check is polled.
AnswerInv ==
  /\ \A c \in Checks : serviceId[c] => Known(c)
  /\ \A w \in Workers :
       /\ pc[w] = "idle" => answer[w] = "NONE"
       /\ answer[w] \in CheckStatus => target[w] # None /\ Known(target[w])
       /\ pc[w] = "call" /\ IsSync(w) => Known(target[w])
       /\ pc[w] = "persist" => answer[w] \in CheckStatus \ {"FAILED"}

\* A job that a worker holds the lock of is active, and nobody else holds its lock; the
\* recovery's loops know which check they are at.
QueueInv ==
  /\ \A w \in Workers : owns[w] =>
       job[w] # None /\ jobs[job[w]].state = "active"
  /\ \A v, w \in Workers : owns[v] /\ owns[w] /\ job[v] = job[w] => v = w
  /\ submitScan.pc \in {"state", "retry", "add"} => submitScan.check # None
  /\ submitScan.pc = "retry" => jobs[submitScan.check].state = "failed"
  /\ syncScan.pc \in {"waiting", "active", "delayed", "add"} => syncScan.check # None

IInv == TypeOK /\ AnswerInv /\ QueueInv

\* Whatever was DONE, or was seen DONE by a running failCheck, was delivered.
DeliveredInv ==
  /\ \A c \in Checks : status[c] = "DONE" => delivered[c]
  /\ \A f \in Frames : pc[f] = "failWrite" /\ current[f] = "DONE" => delivered[CheckOf(f)]

MoneyInv == DeliveredInv /\ RefundFlagMatchesLedger /\ FailureIsPaidBack

-----------------------------------------------------------------------------
(* What the shared parts of the actions do to the types.                   *)

JobsTyped ==
  /\ jobs \in [JobIds -> Job]
  /\ \A j \in JobIds : jobs[j].state # "none" => jobs[j].check # None

\* Jobs were added under free ids; the others are as they were.
OnlyAdds == \A j \in JobIds : jobs[j].state # "none" => jobs'[j] = jobs[j]

\* A frame that runs is about a check.
LEMMA FrameIsAboutCheck ==
  ASSUME TypeOK, NEW f \in Frames, pc[f] # "idle"
  PROVE  CheckOf(f) \in Checks
BY DEF TypeOK, Frames, CheckOf

\* queue.add makes a job of the check it was called for.
LEMMA AddedIsJob ==
  ASSUME NEW state \in JobState, NEW c \in Checks
  PROVE  /\ Added(state, c) \in Job
         /\ Added(state, c).state = state
         /\ Added(state, c).check = c
BY DEF Added, Job

\* The absent job has its type.
LEMMA NoJobIsJob == NoJob \in Job /\ NoJob.state = "none"
BY DEF NoJob, Job, JobState

\* Enqueueing a submit job adds a job and changes no other.
LEMMA SubmitIsAdded ==
  ASSUME JobsTyped, NEW c \in Checks, EnqueueSubmit(c)
  PROVE  JobsTyped' /\ OnlyAdds
<1>1. Added("waiting", c) \in Job /\ Added("waiting", c).check = c
  BY AddedIsJob DEF JobState
<1> QED
  BY <1>1, IdsAreDistinct DEF EnqueueSubmit, JobsTyped, OnlyAdds, JobIds

\* Enqueueing a sync job adds a job and changes no other.
LEMMA SyncIsAdded ==
  ASSUME JobsTyped, NEW c \in Checks, EnqueueSync(c)
  PROVE  JobsTyped' /\ OnlyAdds
<1>1. Added("delayed", c) \in Job /\ Added("delayed", c).check = c
  BY AddedIsJob DEF JobState
<1> QED
  BY <1>1, IdsAreDistinct DEF EnqueueSync, JobsTyped, OnlyAdds, JobIds

\* A job that failed stays the job of its check, or is removed.
LEMMA FailedIsJob ==
  ASSUME JobsTyped, NEW j \in JobIds
  PROVE  /\ Failed(j) \in Job
         /\ Failed(j).state # "none" => Failed(j).check = jobs[j].check
         /\ Failed(j).state = "none" \/ Failed(j).state = "failed"
BY NoJobIsJob DEF Failed, JobsTyped, Job, JobState

\* A job whose handler threw stays the job of its check, or is removed.
LEMMA AfterThrowIsJob ==
  ASSUME JobsTyped, NEW j \in JobIds
  PROVE  /\ AfterThrow(j) \in Job
         /\ AfterThrow(j).state # "none" => AfterThrow(j).check = jobs[j].check
<1>1. jobs[j] \in Job
  BY DEF JobsTyped
<1> DEFINE made == IF jobs[j].tries < 3 THEN jobs[j].tries + 1 ELSE 3
<1>2. made \in 0..3
  BY <1>1 DEF Job
<1>3. [jobs[j] EXCEPT !.state = "delayed", !.tries = made] \in Job
  BY <1>1, <1>2 DEF Job, JobState
<1>4. [jobs[j] EXCEPT !.state = "delayed", !.tries = made].check = jobs[j].check
  BY <1>1 DEF Job
<1>5. \/ AfterThrow(j) = Failed(j)
      \/ AfterThrow(j) = [jobs[j] EXCEPT !.state = "delayed", !.tries = made]
  BY DEF AfterThrow
<1> QED
  BY <1>3, <1>4, <1>5, FailedIsJob

\* Finding a job stalled changes this job only.
LEMMA StalledIsTyped ==
  ASSUME JobsTyped, NEW j \in JobIds, StalledJob(j)
  PROVE  /\ JobsTyped'
         /\ \A i \in JobIds : i # j => jobs'[i] = jobs[i]
<1>1. jobs[j] \in Job /\ jobs[j].check # None
  BY DEF JobsTyped, StalledJob
<1> DEFINE again == [jobs[j] EXCEPT !.state = "waiting", !.stalls = 1]
<1>2. again \in Job /\ again.check = jobs[j].check
  <2>1. 1 \in 0..1 /\ "waiting" \in JobState
    BY DEF JobState
  <2> QED
    BY <1>1, <2>1 DEF Job
<1>3. jobs' = [jobs EXCEPT ![j] = IF jobs[j].stalls = 0 THEN again ELSE Failed(j)]
  BY <1>1 DEF StalledJob, JobsTyped
<1> HIDE DEF again
<1> QED
  BY <1>1, <1>2, <1>3, FailedIsJob DEF JobsTyped

-----------------------------------------------------------------------------
(* Types.                                                                  *)

\* The types include those of the jobs.
LEMMA TypeHasJobs == TypeOK => JobsTyped
BY DEF TypeOK, JobsTyped

\* What FailCheck writes keeps the types of the row.
LEMMA FailCheckTyped ==
  ASSUME TypeOK, NEW f \in Frames, pc[f] # "idle", FailCheck(f)
  PROVE  /\ status' \in [Checks -> CheckStatus \cup {"NONE"}]
         /\ serviceId' \in [Checks -> BOOLEAN]
         /\ balanceRefund' \in [Checks -> BOOLEAN]
         /\ refunds' \in [Checks -> Nat]
         /\ delivered' = delivered
<1>1. CheckOf(f) \in Checks
  BY FrameIsAboutCheck
<1>2. Rejected(f) \in BOOLEAN /\ ShouldRefund(f) \in BOOLEAN
  BY DEF Rejected, ShouldRefund
<1> QED
  BY <1>1, <1>2 DEF TypeOK, FailCheck, rowVars, CheckStatus, Final

\* A provider that accepts an order knows it from then on.
LEMMA ProviderTyped ==
  ASSUME TypeOK, NEW c \in Checks, ProviderAccepts(c)
  PROVE  /\ provider' \in [Checks -> ProviderStatus \cup {"none"}]
         /\ provider'[c] # "none"
         /\ \A d \in Checks : Known(d) => Known(d)'
BY ReportsAreKnown DEF TypeOK, ProviderAccepts, ProviderStatus, Known

\* Whatever a provider reports maps to a status that a submitted check may have.
LEMMA MapStatusTyped ==
  \A s \in ProviderStatus : MapStatus[s] \in CheckStatus \ {"PENDING"}
BY DEF MapStatus, ProviderStatus, CheckStatus, Active, Final

\* A recovery that does not run has the type of a scan.
LEMMA IdleIsScan == Idle \in Scans
BY DEF Idle, Scans, ScanPlaces

\* How the recovery's loops go from one place to the next.
LEMMA ScanMoves ==
  ASSUME NEW scan \in Scans, NEW place \in ScanPlaces, NEW todo \in SUBSET Checks
  PROVE  /\ [scan EXCEPT !.pc = place] \in Scans
         /\ [scan EXCEPT !.pc = "pick", !.todo = todo] \in Scans
         /\ [scan EXCEPT !.pc = "pick", !.check = None] \in Scans
<1>1. "pick" \in ScanPlaces
  BY DEF ScanPlaces
<1> QED
  BY <1>1 DEF Scans

\* Every step of the recovery of submits leaves a scan.
LEMMA SubmitScanTyped ==
  ASSUME submitScan \in Scans, RecoverSubmits
  PROVE  submitScan' \in Scans
<1>1. CASE FindSubmits
  <2> DEFINE todo == {c \in Checks : status[c] = "PENDING" /\ ~serviceId[c]}
  <2>1. todo \in SUBSET Checks
    OBVIOUS
  <2>2. submitScan' = [submitScan EXCEPT !.pc = "pick", !.todo = todo]
    BY <1>1 DEF FindSubmits
  <2> HIDE DEF todo
  <2> QED
    BY <2>1, <2>2, ScanMoves DEF ScanPlaces
<1>2. CASE PickSubmit
  <2>1. CASE submitScan' = Idle
    BY <2>1, IdleIsScan
  <2>2. CASE submitScan' # Idle
    <3>1. PICK c \in submitScan.todo : \E place \in ScanPlaces :
            submitScan' = [pc |-> place, todo |-> submitScan.todo \ {c}, check |-> c]
      BY <1>2, <2>2 DEF PickSubmit, ScanPlaces
    <3> QED
      BY <3>1 DEF Scans
  <2> QED
    BY <2>1, <2>2
<1>3. CASE LookAtSubmit
  <2>1. \E place \in ScanPlaces : submitScan' = [submitScan EXCEPT !.pc = place]
    BY <1>3 DEF LookAtSubmit, ScanPlaces
  <2> QED
    BY <2>1, ScanMoves
<1>4. CASE RetrySubmit \/ AddSubmit
  <2>1. submitScan' = [submitScan EXCEPT !.pc = "pick", !.check = None]
    BY <1>4 DEF RetrySubmit, AddSubmit
  <2> QED
    BY <2>1, ScanMoves DEF ScanPlaces
<1> QED
  BY <1>1, <1>2, <1>3, <1>4 DEF RecoverSubmits

\* Every step of the recovery of syncs leaves a scan.
LEMMA SyncScanTyped ==
  ASSUME syncScan \in Scans, RecoverSyncs
  PROVE  syncScan' \in Scans
<1>1. CASE FindSyncs
  <2> DEFINE todo == {c \in Checks : status[c] \in {"QUEUED", "RUNNING"} /\ serviceId[c]}
  <2>1. todo \in SUBSET Checks
    OBVIOUS
  <2>2. syncScan' = [syncScan EXCEPT !.pc = "pick", !.todo = todo]
    BY <1>1 DEF FindSyncs
  <2> HIDE DEF todo
  <2> QED
    BY <2>1, <2>2, ScanMoves DEF ScanPlaces
<1>2. CASE PickSync
  <2>1. CASE syncScan' = Idle
    BY <2>1, IdleIsScan
  <2>2. CASE syncScan' # Idle
    <3>1. PICK c \in syncScan.todo :
            syncScan' = [pc |-> "waiting", todo |-> syncScan.todo \ {c}, check |-> c]
      BY <1>2, <2>2 DEF PickSync
    <3> QED
      BY <3>1 DEF Scans, ScanPlaces
  <2> QED
    BY <2>1, <2>2
<1>3. CASE ScanSync
  <2>1. \A place \in DOMAIN NextState : NextState[place] \in ScanPlaces
    BY DEF NextState, ScanPlaces
  <2>2. \E place \in ScanPlaces : syncScan' = [syncScan EXCEPT !.pc = place]
    BY <1>3, <2>1 DEF ScanSync, ScanPlaces
  <2> QED
    BY <2>2, ScanMoves
<1>4. CASE AddSync
  <2>1. syncScan' = [syncScan EXCEPT !.pc = "pick", !.check = None]
    BY <1>4 DEF AddSync
  <2> QED
    BY <2>1, ScanMoves DEF ScanPlaces
<1> QED
  BY <1>1, <1>2, <1>3, <1>4 DEF RecoverSyncs

\* A job that stays takes its place; a job that is over leaves a free id.
LEMMA JobIsReplaced ==
  ASSUME JobsTyped, NEW j \in JobIds, NEW new \in Job,
         new.state # "none" => new.check # None,
         jobs' = [jobs EXCEPT ![j] = new] \/ jobs' = jobs
  PROVE  JobsTyped'
BY DEF JobsTyped

\* Every step keeps the types.
LEMMA TypeStep == IInv /\ [Next]_vars => TypeOK'
<1> SUFFICES ASSUME IInv, [Next]_vars PROVE TypeOK'
  OBVIOUS
<1>t. TypeOK /\ JobsTyped
  BY TypeHasJobs DEF IInv
<1> USE IdsAreDistinct, MaxFaultsIsNatural
    DEF rowVars, frameVars, scanVars, envVars, Goto, Frames, CheckPlaces, WorkerPlaces
<1>1. ASSUME NEW c \in Checks, CreateCheck(c) PROVE TypeOK'
  BY <1>t, <1>1 DEF TypeOK, CreateCheck, CheckStatus, Active
<1>2. ASSUME NEW c \in Checks, SubmitEnqueued(c) PROVE TypeOK'
  <2>1. JobsTyped'
    BY <1>t, <1>2, SubmitIsAdded DEF SubmitEnqueued
  <2> QED
    BY <1>t, <1>2, <2>1 DEF TypeOK, SubmitEnqueued, JobsTyped
<1>3. ASSUME NEW c \in Checks, SubmitNotEnqueued(c) PROVE TypeOK'
  <2>1. JobsTyped'
    BY <1>t, <1>3, SubmitIsAdded DEF SubmitNotEnqueued, JobsTyped
  <2> QED
    BY <1>t, <1>3, <2>1 DEF TypeOK, SubmitNotEnqueued, JobsTyped, Fault
<1>4. ASSUME NEW c \in Checks, ProviderStep(c) PROVE TypeOK'
  BY <1>t, <1>4, ReportsAreKnown DEF TypeOK, ProviderStep, ProviderStatus
<1>5. ASSUME NEW j \in JobIds, Promote(j) PROVE TypeOK'
  <2>1. [jobs[j] EXCEPT !.state = "waiting"] \in Job
    BY <1>t, <1>5 DEF JobsTyped, Job, JobState
  <2>2. JobsTyped'
    BY <1>t, <1>5, <2>1 DEF JobsTyped, Promote, Job
  <2> QED
    BY <1>t, <1>5, <2>2 DEF TypeOK, Promote, JobsTyped
<1>6. ASSUME NEW j \in JobIds, RecoverStalled(j) \/ LoseLock(j) PROVE TypeOK'
  <2>1. JobsTyped'
    BY <1>t, <1>6, StalledIsTyped DEF RecoverStalled, LoseLock
  <2>2. faults' \in 0..MaxFaults
    BY <1>t, <1>6 DEF TypeOK, RecoverStalled, LoseLock, Fault
  <2>3. owns' \in [Workers -> BOOLEAN]
    <3>1. owns' = [w \in Workers |-> owns[w] /\ job[w] # j]
      BY <1>6 DEF RecoverStalled, LoseLock, StalledJob
    <3>2. \A w \in Workers : (owns[w] /\ job[w] # j) \in BOOLEAN
      BY Zenon
    <3> QED
      BY <3>1, <3>2, Zenon
  <2> QED
    BY <1>t, <1>6, <2>1, <2>2, <2>3 DEF TypeOK, RecoverStalled, LoseLock, StalledJob, JobsTyped
<1>7. ASSUME NEW w \in Workers, NEW j \in JobIds, Take(w, j) PROVE TypeOK'
  <2>1. [jobs[j] EXCEPT !.state = "active"] \in Job
    BY <1>t, <1>7 DEF JobsTyped, Job, JobState
  <2>2. JobsTyped'
    BY <1>t, <1>7, <2>1 DEF JobsTyped, Take, Job
  <2>3. jobs[j].check \in Checks
    BY <1>t, <1>7 DEF JobsTyped, Take, Job
  <2>4. j # None
    BY DEF JobIds
  <2> QED
    BY <1>t, <1>7, <2>2, <2>3, <2>4 DEF TypeOK, Take, JobsTyped
<1>8. ASSUME NEW w \in Workers, Return(w) PROVE TypeOK'
  <2>1. job[w] \in JobIds
    BY <1>t, <1>8 DEF TypeOK, Return
  <2>2. JobsTyped'
    <3>1. jobs' = [jobs EXCEPT ![job[w]] = NoJob] \/ jobs' = jobs
      BY <1>8, Zenon DEF Return
    <3> QED
      BY <1>t, <2>1, <3>1, NoJobIsJob, JobIsReplaced
  <2> QED
    BY <1>t, <1>8, <2>2 DEF TypeOK, Return, Release, JobsTyped, Answers
<1>9. ASSUME NEW w \in Workers, Throw(w) PROVE TypeOK'
  <2>1. job[w] \in JobIds
    BY <1>t, <1>9 DEF TypeOK, Throw
  <2>2. JobsTyped'
    <3>1. CASE owns[w]
      <4>1. jobs[job[w]].check # None
        BY <1>t, <2>1, <3>1 DEF IInv, QueueInv, JobsTyped
      <4>2. jobs' = [jobs EXCEPT ![job[w]] = AfterThrow(job[w])]
        BY <1>9, <3>1, Zenon DEF Throw
      <4> QED
        BY <1>t, <2>1, <4>1, <4>2, AfterThrowIsJob, JobIsReplaced
    <3>2. CASE ~owns[w]
      BY <1>t, <1>9, <3>2 DEF Throw, JobsTyped
    <3> QED
      BY <3>1, <3>2
  <2> QED
    BY <1>t, <1>9, <2>2 DEF TypeOK, Throw, Release, JobsTyped, Answers
<1>10. ASSUME NEW w \in Workers, Load(w) \/ LoadThrows(w) PROVE TypeOK'
  BY <1>t, <1>10 DEF TypeOK, Load, LoadThrows, Fault
<1>11. ASSUME NEW w \in Workers, CallProvider(w) PROVE TypeOK'
  <2>1. target[w] \in Checks
    BY <1>t, <1>11 DEF TypeOK, CallProvider
  <2>2. provider' \in [Checks -> ProviderStatus \cup {"none"}] /\ provider'[target[w]] \in ProviderStatus
    <3>1. CASE IsSync(w)
      BY <1>t, <1>11, <2>1, <3>1 DEF IInv, AnswerInv, TypeOK, CallProvider, Known
    <3>2. CASE ~IsSync(w)
      BY <1>t, <1>11, <2>1, <3>2, ProviderTyped DEF CallProvider
    <3> QED
      BY <3>1, <3>2
  <2>3. MapStatus[provider'[target[w]]] \in Answers
    BY <2>2, MapStatusTyped DEF Answers
  <2> QED
    BY <1>t, <1>11, <2>2, <2>3 DEF TypeOK, CallProvider
<1>12. ASSUME NEW w \in Workers, CallThrows(w) PROVE TypeOK'
  <2>1. provider' \in [Checks -> ProviderStatus \cup {"none"}]
    BY <1>t, <1>12, ProviderTyped DEF TypeOK, CallThrows
  <2> QED
    BY <1>t, <1>12, <2>1 DEF TypeOK, CallThrows, Catch, Fault, Answers
<1>13. ASSUME NEW w \in Workers, PersistResult(w) \/ PersistThrows(w) PROVE TypeOK'
  <2>1. target[w] \in Checks /\ answer[w] \in CheckStatus
    BY <1>t, <1>13 DEF TypeOK, IInv, AnswerInv, PersistResult, PersistThrows
  <2>2. /\ status' \in [Checks -> CheckStatus \cup {"NONE"}]
        /\ serviceId' \in [Checks -> BOOLEAN]
        /\ delivered' \in [Checks -> BOOLEAN]
        /\ UNCHANGED <<balanceRefund, refunds>>
    BY <1>t, <1>13, <2>1 DEF TypeOK, PersistResult, PersistThrows, Persist
  <2> QED
    BY <1>t, <1>13, <2>2 DEF TypeOK, PersistResult, PersistThrows, Catch, Fault, Answers
<1>14. ASSUME NEW w \in Workers, SyncEnqueued(w) \/ SyncNotEnqueued(w) PROVE TypeOK'
  <2>1. target[w] \in Checks
    BY <1>t, <1>14 DEF TypeOK, SyncEnqueued, SyncNotEnqueued
  <2>2. JobsTyped'
    BY <1>t, <1>14, <2>1, SyncIsAdded DEF SyncEnqueued, SyncNotEnqueued, JobsTyped
  <2> QED
    BY <1>t, <1>14, <2>2 DEF TypeOK, SyncEnqueued, SyncNotEnqueued, Catch, Fault, Answers, JobsTyped
<1>15. ASSUME NEW f \in Frames, FailRead(f) PROVE TypeOK'
  <2>1. CheckOf(f) \in Checks
    BY <1>t, <1>15, FrameIsAboutCheck DEF FailRead
  <2> QED
    BY <1>t, <1>15, <2>1 DEF TypeOK, FailRead
<1>16. ASSUME NEW f \in Frames, FailWrite(f) PROVE TypeOK'
  BY <1>t, <1>16, FailCheckTyped DEF TypeOK, FailWrite
<1>17. ASSUME NEW f \in Frames, FailThrows(f) PROVE TypeOK'
  <2>1. /\ status' \in [Checks -> CheckStatus \cup {"NONE"}]
        /\ serviceId' \in [Checks -> BOOLEAN]
        /\ balanceRefund' \in [Checks -> BOOLEAN]
        /\ refunds' \in [Checks -> Nat]
        /\ delivered' = delivered
    BY <1>t, <1>17, FailCheckTyped DEF TypeOK, FailThrows
  <2> QED
    BY <1>t, <1>17, <2>1 DEF TypeOK, FailThrows, Rejected, Catch, Fault, Answers
<1>18. CASE RecoverSubmits
  <2>1. JobsTyped'
    <3>1. CASE RetrySubmit
      <4>1. submitScan.check \in Checks
        BY <1>t, <3>1 DEF IInv, QueueInv, TypeOK, Scans, RetrySubmit
      <4>2. [jobs[submitScan.check] EXCEPT !.state = "waiting"] \in Job
        BY <1>t, <4>1 DEF JobsTyped, Job, JobState, JobIds
      <4> QED
        BY <1>t, <3>1, <4>1, <4>2 DEF IInv, QueueInv, JobsTyped, RetrySubmit, Job, JobIds
    <3>2. CASE AddSubmit
      <4>1. submitScan.check \in Checks
        BY <1>t, <3>2 DEF IInv, QueueInv, TypeOK, Scans, AddSubmit
      <4> QED
        BY <1>t, <3>2, <4>1, SubmitIsAdded DEF AddSubmit
    <3> QED
      BY <1>t, <1>18, <3>1, <3>2 DEF RecoverSubmits, FindSubmits, PickSubmit, LookAtSubmit, JobsTyped
  <2>2. submitScan' \in Scans
    BY <1>t, <1>18, SubmitScanTyped DEF TypeOK
  <2> QED
    BY <1>t, <1>18, <2>1, <2>2 DEF TypeOK, JobsTyped,
         RecoverSubmits, FindSubmits, PickSubmit, LookAtSubmit, RetrySubmit, AddSubmit
<1>19. CASE RecoverSyncs
  <2>1. JobsTyped'
    <3>1. CASE AddSync
      <4>1. syncScan.check \in Checks
        BY <1>t, <3>1 DEF IInv, QueueInv, TypeOK, Scans, AddSync
      <4> QED
        BY <1>t, <3>1, <4>1, SyncIsAdded DEF AddSync
    <3> QED
      BY <1>t, <1>19, <3>1 DEF RecoverSyncs, FindSyncs, PickSync, ScanSync, JobsTyped
  <2>2. syncScan' \in Scans
    BY <1>t, <1>19, SyncScanTyped DEF TypeOK
  <2> QED
    BY <1>t, <1>19, <2>1, <2>2 DEF TypeOK, JobsTyped,
         RecoverSyncs, FindSyncs, PickSync, ScanSync, AddSync
<1>20. CASE Crash
  <2>1. submitScan' \in Scans /\ syncScan' \in Scans
    BY <1>20, IdleIsScan DEF Crash
  <2>2. /\ pc' \in [Frames -> CheckPlaces \cup WorkerPlaces]
        /\ \A c \in Checks : pc'[c] \in CheckPlaces
        /\ \A w \in Workers : pc'[w] = "idle"
    BY <1>t, <1>20 DEF TypeOK, Crash
  <2>3. /\ job' \in [Workers -> JobIds \cup {None}]
        /\ target' \in [Workers -> Checks \cup {None}]
        /\ owns' \in [Workers -> BOOLEAN]
        /\ answer' \in [Workers -> Answers]
        /\ current' \in [Frames -> CheckStatus \cup {"NONE"}]
    BY <1>20 DEF Crash, Answers
  <2>4. faults' \in 0..MaxFaults
    BY <1>t, <1>20 DEF TypeOK, Crash, Fault
  <2>5. up' \in BOOLEAN
    BY <1>20, Zenon DEF Crash
  <2> QED
    BY <1>t, <1>20, <2>1, <2>2, <2>3, <2>4, <2>5 DEF TypeOK, Crash
<1>22. CASE Restart
  <2>1. [Idle EXCEPT !.pc = "find"] \in Scans
    BY IdleIsScan, ScanMoves DEF ScanPlaces
  <2>2. submitScan' \in Scans /\ syncScan' \in Scans
    BY <1>22, <2>1 DEF Restart
  <2> QED
    BY <1>t, <1>22, <2>2 DEF TypeOK, Restart
<1>21. CASE UNCHANGED vars
  BY <1>t, <1>21 DEF TypeOK, vars
<1> QED
  BY <1>1, <1>2, <1>3, <1>4, <1>5, <1>6, <1>7, <1>8, <1>9, <1>10, <1>11, <1>12, <1>13,
     <1>14, <1>15, <1>16, <1>17, <1>18, <1>19, <1>20, <1>21, <1>22
     DEF Next, Handle, HandleFault, FailStep, Rest

-----------------------------------------------------------------------------
(* Answers come from the provider.                                         *)

\* Every step keeps which answers a frame may hold in which place.
LEMMA AnswerStep == IInv /\ [Next]_vars => AnswerInv'
<1> SUFFICES ASSUME IInv, [Next]_vars PROVE AnswerInv'
  OBVIOUS
<1>t. TypeOK /\ AnswerInv
  BY DEF IInv
<1> USE IdsAreDistinct
    DEF rowVars, frameVars, scanVars, envVars, Goto, Frames, Known, IsSync
<1>1. ASSUME NEW c \in Checks,
             CreateCheck(c) \/ SubmitEnqueued(c) \/ SubmitNotEnqueued(c) \/ ProviderStep(c)
      PROVE  AnswerInv'
  BY <1>t, <1>1 DEF TypeOK, AnswerInv, CreateCheck, SubmitEnqueued, SubmitNotEnqueued,
       ProviderStep
<1>2. ASSUME NEW j \in JobIds, Promote(j) \/ RecoverStalled(j) \/ LoseLock(j)
      PROVE  AnswerInv'
  BY <1>t, <1>2 DEF AnswerInv, Promote, RecoverStalled, LoseLock, StalledJob
<1>3. ASSUME NEW w \in Workers, NEW j \in JobIds, Take(w, j) PROVE AnswerInv'
  BY <1>t, <1>3 DEF TypeOK, AnswerInv, Take, CheckStatus, Active, Final
<1>4. ASSUME NEW w \in Workers, Return(w) \/ Throw(w) PROVE AnswerInv'
  BY <1>t, <1>4 DEF TypeOK, AnswerInv, Return, Throw, Release, CheckStatus, Active, Final
<1>5. ASSUME NEW w \in Workers, Load(w) \/ LoadThrows(w) PROVE AnswerInv'
  BY <1>t, <1>5 DEF TypeOK, AnswerInv, Load, LoadThrows, Wanted
<1>6. ASSUME NEW w \in Workers, CallProvider(w) PROVE AnswerInv'
  <2>1. target[w] \in Checks
    BY <1>t, <1>6 DEF TypeOK, CallProvider
  <2>2. /\ provider'[target[w]] \in ProviderStatus
        /\ \A c \in Checks : Known(c) => Known(c)'
    <3>1. CASE IsSync(w)
      BY <1>t, <1>6, <2>1, <3>1 DEF AnswerInv, TypeOK, CallProvider
    <3>2. CASE ~IsSync(w)
      BY <1>t, <1>6, <2>1, <3>2, ProviderTyped DEF CallProvider
    <3> QED
      BY <3>1, <3>2
  <2>3. MapStatus[provider'[target[w]]] \in CheckStatus
    BY <2>2, MapStatusTyped
  <2>4. provider'[target[w]] # "none"
    BY <2>2 DEF ProviderStatus
  <2> QED
    BY <1>t, <1>6, <2>1, <2>2, <2>3, <2>4 DEF TypeOK, AnswerInv, CallProvider
<1>7. ASSUME NEW w \in Workers, CallThrows(w) PROVE AnswerInv'
  <2>1. \A c \in Checks : Known(c) => Known(c)'
    BY <1>t, <1>7, ProviderTyped DEF TypeOK, CallThrows
  <2> QED
    BY <1>t, <1>7, <2>1 DEF TypeOK, AnswerInv, CallThrows, Catch, CheckStatus, Active, Final
<1>8. ASSUME NEW w \in Workers, PersistResult(w) \/ PersistThrows(w) PROVE AnswerInv'
  <2>1. target[w] \in Checks /\ Known(target[w])
    BY <1>t, <1>8 DEF TypeOK, AnswerInv, PersistResult, PersistThrows
  <2> QED
    BY <1>t, <1>8, <2>1 DEF TypeOK, AnswerInv, PersistResult, PersistThrows, Persist, Catch,
         CheckStatus, Active, Final
<1>9. ASSUME NEW w \in Workers, SyncEnqueued(w) \/ SyncNotEnqueued(w) PROVE AnswerInv'
  BY <1>t, <1>9 DEF TypeOK, AnswerInv, SyncEnqueued, SyncNotEnqueued, Catch,
       CheckStatus, Active, Final
<1>10. ASSUME NEW f \in Frames, FailStep(f) \/ FailThrows(f) PROVE AnswerInv'
  <2>1. CheckOf(f) \in Checks
    BY <1>t, <1>10, FrameIsAboutCheck DEF FailStep, FailRead, FailWrite, FailThrows
  <2>2. Rejected(f) => Known(CheckOf(f))
    BY <1>t DEF Rejected, CheckOf, AnswerInv, CheckStatus, Final
  <2>3. \A c \in Checks : serviceId'[c] => Known(c)
    BY <1>t, <1>10, <2>1, <2>2
       DEF AnswerInv, TypeOK, FailStep, FailRead, FailWrite, FailThrows, FailCheck
  <2> QED
    BY <1>t, <1>10, <2>3
       DEF AnswerInv, TypeOK, FailStep, FailRead, FailWrite, FailThrows, Rejected, Catch,
         CheckStatus, Active, Final
<1>11. CASE RecoverSubmits \/ RecoverSyncs
  BY <1>t, <1>11 DEF AnswerInv, RecoverSubmits, FindSubmits, PickSubmit, LookAtSubmit,
       RetrySubmit, AddSubmit, RecoverSyncs, FindSyncs, PickSync, ScanSync, AddSync
<1>12. CASE Crash \/ Restart
  BY <1>t, <1>12 DEF AnswerInv, Crash, Restart, CheckStatus, Active, Final
<1>13. CASE UNCHANGED vars
  BY <1>t, <1>13 DEF AnswerInv, vars
<1> QED
  BY <1>1, <1>2, <1>3, <1>4, <1>5, <1>6, <1>7, <1>8, <1>9, <1>10, <1>11, <1>12, <1>13
     DEF Next, Handle, HandleFault, Rest

-----------------------------------------------------------------------------
(* Locks of jobs and places of the recovery.                               *)

\* Every step keeps what the queue may hold.
LEMMA QueueStep == IInv /\ [Next]_vars => QueueInv'
<1> SUFFICES ASSUME IInv, [Next]_vars PROVE QueueInv'
  OBVIOUS
<1>t. TypeOK /\ JobsTyped /\ QueueInv
  BY TypeHasJobs DEF IInv
<1> USE IdsAreDistinct
    DEF rowVars, frameVars, scanVars, envVars, Goto, Frames, JobIds
<1>1. ASSUME NEW c \in Checks, CreateCheck(c) \/ ProviderStep(c) PROVE QueueInv'
  BY <1>t, <1>1 DEF QueueInv, CreateCheck, ProviderStep
<1>2. ASSUME OnlyAdds, UNCHANGED <<job, owns, submitScan, syncScan>> PROVE QueueInv'
  BY <1>t, <1>2 DEF TypeOK, QueueInv, OnlyAdds, Scans
<1>3. ASSUME NEW c \in Checks, SubmitEnqueued(c) \/ SubmitNotEnqueued(c) PROVE QueueInv'
  <2>1. OnlyAdds
    BY <1>t, <1>3, SubmitIsAdded DEF SubmitEnqueued, SubmitNotEnqueued, OnlyAdds
  <2> QED
    BY <1>2, <1>3, <2>1 DEF SubmitEnqueued, SubmitNotEnqueued
<1>4. ASSUME NEW j \in JobIds, Promote(j) PROVE QueueInv'
  BY <1>t, <1>4 DEF TypeOK, QueueInv, Promote, Scans, Job
<1>5. ASSUME NEW j \in JobIds, RecoverStalled(j) \/ LoseLock(j) PROVE QueueInv'
  <2>1. /\ StalledJob(j)
        /\ \A i \in JobIds : i # j => jobs'[i] = jobs[i]
    BY <1>t, <1>5, StalledIsTyped DEF RecoverStalled, LoseLock
  <2>2. \A w \in Workers : owns'[w] <=> owns[w] /\ job[w] # j
    BY <2>1 DEF StalledJob
  <2>3. jobs[j].state = "active"
    BY <2>1 DEF StalledJob
  <2> QED
    BY <1>t, <2>1, <2>2, <2>3 DEF TypeOK, QueueInv, StalledJob, Scans
<1>6. ASSUME NEW w \in Workers, NEW j \in JobIds, Take(w, j) PROVE QueueInv'
  BY <1>t, <1>6 DEF TypeOK, QueueInv, Take, Scans, Job
<1>7. ASSUME NEW w \in Workers, Return(w) \/ Throw(w) PROVE QueueInv'
  <2>1. job[w] \in JobIds
    BY <1>t, <1>7 DEF TypeOK, Return, Throw
  <2>2. \A i \in JobIds : i # job[w] \/ ~owns[w] => jobs'[i] = jobs[i]
    BY <1>t, <1>7, <2>1 DEF Return, Throw, JobsTyped
  <2>3. /\ job' = [job EXCEPT ![w] = None]
        /\ owns' = [owns EXCEPT ![w] = FALSE]
        /\ UNCHANGED <<submitScan, syncScan>>
    BY <1>7 DEF Return, Throw, Release
  <2> QED
    BY <1>t, <2>1, <2>2, <2>3 DEF TypeOK, QueueInv, Scans
<1>8. ASSUME NEW w \in Workers,
             Load(w) \/ LoadThrows(w) \/ CallProvider(w) \/ CallThrows(w)
               \/ PersistResult(w) \/ PersistThrows(w)
      PROVE  QueueInv'
  BY <1>t, <1>8 DEF QueueInv, Load, LoadThrows, CallProvider, CallThrows, PersistResult,
       PersistThrows
<1>9. ASSUME NEW w \in Workers, SyncEnqueued(w) \/ SyncNotEnqueued(w) PROVE QueueInv'
  <2>1. target[w] \in Checks
    BY <1>t, <1>9 DEF TypeOK, SyncEnqueued, SyncNotEnqueued
  <2>2. OnlyAdds
    BY <1>t, <1>9, <2>1, SyncIsAdded DEF SyncEnqueued, SyncNotEnqueued, OnlyAdds
  <2> QED
    BY <1>2, <1>9, <2>2 DEF SyncEnqueued, SyncNotEnqueued
<1>10. ASSUME NEW f \in Frames, FailStep(f) \/ FailThrows(f) PROVE QueueInv'
  BY <1>t, <1>10 DEF QueueInv, FailStep, FailRead, FailWrite, FailThrows
<1>11. CASE RecoverSubmits
  <2>1. CASE FindSubmits
    BY <1>t, <2>1 DEF QueueInv, FindSubmits, TypeOK, Scans
  <2>2. CASE PickSubmit
    BY <1>t, <2>2 DEF QueueInv, PickSubmit, TypeOK, Scans, Idle
  <2>3. CASE LookAtSubmit
    <3>1. submitScan.check # None
      BY <1>t, <2>3 DEF QueueInv, LookAtSubmit
    <3>2. submitScan'.check = submitScan.check
      BY <1>t, <2>3 DEF LookAtSubmit, TypeOK, Scans
    <3>3. submitScan'.pc = "retry" => jobs[submitScan.check].state = "failed"
      BY <1>t, <2>3 DEF LookAtSubmit, TypeOK, Scans
    <3> QED
      BY <1>t, <2>3, <3>1, <3>2, <3>3 DEF QueueInv, LookAtSubmit
  <2>4. CASE RetrySubmit
    BY <1>t, <2>4 DEF QueueInv, RetrySubmit, TypeOK, Scans, Job
  <2>5. CASE AddSubmit
    <3>1. OnlyAdds
      BY <1>t, <2>5, SubmitIsAdded DEF AddSubmit, QueueInv, TypeOK, Scans
    <3> QED
      BY <1>t, <2>5, <3>1 DEF QueueInv, AddSubmit, TypeOK, Scans, OnlyAdds
  <2> QED
    BY <1>11, <2>1, <2>2, <2>3, <2>4, <2>5 DEF RecoverSubmits
<1>12. CASE RecoverSyncs
  <2>1. CASE FindSyncs
    BY <1>t, <2>1 DEF QueueInv, FindSyncs, TypeOK, Scans
  <2>2. CASE PickSync
    BY <1>t, <2>2 DEF QueueInv, PickSync, TypeOK, Scans, Idle
  <2>3. CASE ScanSync
    <3>1. syncScan'.check = syncScan.check /\ syncScan.check # None
      BY <1>t, <2>3 DEF QueueInv, ScanSync, TypeOK, Scans, NextState
    <3> QED
      BY <1>t, <2>3, <3>1 DEF QueueInv, ScanSync
  <2>4. CASE AddSync
    <3>1. OnlyAdds
      BY <1>t, <2>4, SyncIsAdded DEF AddSync, QueueInv, TypeOK, Scans
    <3> QED
      BY <1>t, <2>4, <3>1 DEF QueueInv, AddSync, TypeOK, Scans, OnlyAdds
  <2> QED
    BY <1>12, <2>1, <2>2, <2>3, <2>4 DEF RecoverSyncs
<1>13. CASE Crash
  BY <1>t, <1>13 DEF QueueInv, Crash, Idle
<1>14. CASE Restart
  BY <1>t, <1>14 DEF QueueInv, Restart, Idle
<1>15. CASE UNCHANGED vars
  BY <1>t, <1>15 DEF QueueInv, vars
<1> QED
  BY <1>1, <1>3, <1>4, <1>5, <1>6, <1>7, <1>8, <1>9, <1>10, <1>11, <1>12, <1>13, <1>14, <1>15
     DEF Next, Handle, HandleFault, Rest

\* Types, answers and queue are as IInv says in every state.
LEMMA Invariance == Spec => []IInv
<1>1. Init => IInv
  <2>1. Init => TypeOK
    BY NoJobIsJob, IdleIsScan, MaxFaultsIsNatural
       DEF Init, TypeOK, Answers, CheckPlaces, WorkerPlaces, Frames
  <2>2. Init => AnswerInv /\ QueueInv
    BY DEF Init, AnswerInv, QueueInv, CheckStatus, Active, Final, Idle, Known, Frames
  <2> QED
    BY <2>1, <2>2 DEF IInv
<1>2. IInv /\ [Next]_vars => IInv'
  BY TypeStep, AnswerStep, QueueStep DEF IInv
<1> QED
  BY <1>1, <1>2, PTL DEF Spec

\* Every variable keeps its type.
THEOREM TypeCorrect == Spec => []TypeOK
<1>1. IInv => TypeOK
  BY DEF IInv
<1> QED
  BY <1>1, Invariance, PTL

-----------------------------------------------------------------------------
(* Money.  Only persisting a result and failCheck touch the row; both keep *)
(* the accounts right whatever status the row has by the time they write.  *)

\* Storing a result delivers the check and breaks no rule of the money.
LEMMA PersistKeepsMoney ==
  ASSUME IInv, MoneyInv, NEW w \in Workers, pc[w] = "persist", Persist(target[w], answer[w])
  PROVE  /\ \A c \in Checks : status'[c] = "DONE" => delivered'[c]
         /\ \A c \in Checks : delivered[c] => delivered'[c]
         /\ RefundFlagMatchesLedger'
         /\ FailureIsPaidBack'
<1>1. /\ target[w] \in Checks
      /\ answer[w] \in CheckStatus \ {"FAILED"}
  BY DEF IInv, TypeOK, AnswerInv
<1> QED
  BY <1>1 DEF IInv, TypeOK, MoneyInv, DeliveredInv, Persist, RefundFlagMatchesLedger,
       FailureIsPaidBack

\* failCheck pays back with the status and delivers nothing.
LEMMA FailCheckKeepsMoney ==
  ASSUME IInv, MoneyInv, NEW f \in Frames, pc[f] = "failWrite", FailCheck(f)
  PROVE  /\ \A c \in Checks : status'[c] = "DONE" => delivered'[c]
         /\ delivered' = delivered
         /\ RefundFlagMatchesLedger'
         /\ FailureIsPaidBack'
<1>1. CheckOf(f) \in Checks
  BY FrameIsAboutCheck DEF IInv
<1> DEFINE c == CheckOf(f)
<1>2. CASE current[f] = "FAILED"
  BY <1>2 DEF FailCheck, rowVars, MoneyInv, DeliveredInv, RefundFlagMatchesLedger,
       FailureIsPaidBack
<1>3. CASE current[f] # "FAILED"
  <2>1. /\ status' = [status EXCEPT ![c] = "FAILED"]
        /\ refunds' = [refunds EXCEPT ![c] = IF ShouldRefund(f) THEN @ + 1 ELSE @]
        /\ balanceRefund' = [balanceRefund EXCEPT ![c] = @ \/ ShouldRefund(f)]
        /\ delivered' = delivered
    BY <1>3 DEF FailCheck
  <2>2. /\ refunds \in [Checks -> Nat]
        /\ balanceRefund \in [Checks -> BOOLEAN]
        /\ status \in [Checks -> CheckStatus \cup {"NONE"}]
    BY DEF IInv, TypeOK
  <2>3. CASE ShouldRefund(f)
    <3>1. /\ refunds'[c] = refunds[c] + 1
          /\ refunds'[c] > 0
      BY <1>1, <2>1, <2>2, <2>3
    <3>2. balanceRefund'[c]
      BY <1>1, <2>1, <2>2, <2>3, Zenon
    <3> QED
      BY <1>1, <2>1, <2>2, <3>1, <3>2
         DEF MoneyInv, DeliveredInv, RefundFlagMatchesLedger, FailureIsPaidBack
  <2>4. CASE ~ShouldRefund(f)
    <3>1. current[f] = "DONE"
      BY <1>3, <2>4 DEF ShouldRefund, Final
    <3>2. delivered[c]
      BY <3>1 DEF MoneyInv, DeliveredInv
    <3>3. UNCHANGED refunds
      BY <1>1, <2>1, <2>2, <2>4
    <3>4. \A d \in Checks : balanceRefund'[d] <=> balanceRefund[d]
      BY <1>1, <2>1, <2>2, <2>4
    <3> QED
      BY <1>1, <2>1, <2>2, <3>2, <3>3, <3>4
         DEF MoneyInv, DeliveredInv, RefundFlagMatchesLedger, FailureIsPaidBack
  <2> QED
    BY <2>3, <2>4
<1> QED
  BY <1>2, <1>3

\* Every step keeps the rules of the money.
LEMMA MoneyStep == IInv /\ MoneyInv /\ [Next]_vars => MoneyInv'
<1> SUFFICES ASSUME IInv, MoneyInv, [Next]_vars PROVE MoneyInv'
  OBVIOUS
<1>t. TypeOK
  BY DEF IInv
<1> USE IdsAreDistinct DEF rowVars, frameVars, scanVars, envVars, Goto, Frames, CheckOf
<1>1. ASSUME UNCHANGED rowVars,
             \A f \in Frames : pc'[f] = "failWrite" =>
               pc[f] = "failWrite" /\ CheckOf(f)' = CheckOf(f) /\ current'[f] = current[f]
      PROVE  MoneyInv'
  BY <1>1 DEF MoneyInv, DeliveredInv, RefundFlagMatchesLedger, FailureIsPaidBack
<1>2. ASSUME NEW c \in Checks, CreateCheck(c) PROVE MoneyInv'
  BY <1>t, <1>2 DEF CreateCheck, TypeOK, MoneyInv, DeliveredInv, RefundFlagMatchesLedger,
       FailureIsPaidBack
<1>3. ASSUME NEW c \in Checks, SubmitEnqueued(c) \/ SubmitNotEnqueued(c) \/ ProviderStep(c)
      PROVE  MoneyInv'
  BY <1>t, <1>1, <1>3 DEF SubmitEnqueued, SubmitNotEnqueued, ProviderStep, TypeOK
<1>4. ASSUME NEW j \in JobIds, Promote(j) \/ RecoverStalled(j) \/ LoseLock(j) PROVE MoneyInv'
  BY <1>1, <1>4 DEF Promote, RecoverStalled, LoseLock, StalledJob
<1>5. ASSUME NEW w \in Workers, NEW j \in JobIds, Take(w, j) PROVE MoneyInv'
  BY <1>t, <1>1, <1>5 DEF Take, TypeOK
<1>6. ASSUME NEW w \in Workers, Return(w) \/ Throw(w) PROVE MoneyInv'
  BY <1>t, <1>1, <1>6 DEF Return, Throw, Release, TypeOK
<1>7. ASSUME NEW w \in Workers,
             Load(w) \/ LoadThrows(w) \/ CallProvider(w) \/ CallThrows(w)
               \/ SyncEnqueued(w) \/ SyncNotEnqueued(w)
      PROVE  MoneyInv'
  BY <1>t, <1>1, <1>7 DEF Load, LoadThrows, CallProvider, CallThrows, SyncEnqueued,
       SyncNotEnqueued, Catch, TypeOK
<1>8. ASSUME NEW w \in Workers, PersistResult(w) \/ PersistThrows(w) PROVE MoneyInv'
  <2>1. pc[w] = "persist" /\ (UNCHANGED rowVars \/ Persist(target[w], answer[w]))
    BY <1>8 DEF PersistResult, PersistThrows
  <2>2. \A f \in Frames : pc'[f] = "failWrite" =>
          pc[f] = "failWrite" /\ CheckOf(f)' = CheckOf(f) /\ current'[f] = current[f]
    BY <1>t, <1>8 DEF PersistResult, PersistThrows, Catch, TypeOK
  <2>3. CASE UNCHANGED rowVars
    BY <1>1, <2>2, <2>3
  <2>4. CASE Persist(target[w], answer[w])
    <3>1. \A f \in Frames : pc[f] = "failWrite" => CheckOf(f) \in Checks
      BY <1>t, FrameIsAboutCheck
    <3> QED
      BY <2>1, <2>2, <2>4, <3>1, PersistKeepsMoney DEF MoneyInv, DeliveredInv
  <2> QED
    BY <2>1, <2>3, <2>4
<1>9. ASSUME NEW f \in Frames, FailRead(f) PROVE MoneyInv'
  <2>1. CheckOf(f) \in Checks
    BY <1>t, <1>9, FrameIsAboutCheck DEF FailRead
  <2> QED
    BY <1>t, <1>9, <2>1 DEF FailRead, TypeOK, MoneyInv, DeliveredInv, RefundFlagMatchesLedger,
         FailureIsPaidBack
<1>10. ASSUME NEW f \in Frames, FailWrite(f) \/ FailThrows(f) PROVE MoneyInv'
  <2>1. UNCHANGED rowVars \/ (pc[f] = "failWrite" /\ FailCheck(f))
    BY <1>10 DEF FailWrite, FailThrows
  <2>2. \A g \in Frames : pc'[g] = "failWrite" =>
          pc[g] = "failWrite" /\ CheckOf(g)' = CheckOf(g) /\ current'[g] = current[g]
    BY <1>t, <1>10 DEF FailWrite, FailThrows, Catch, TypeOK
  <2>3. CASE UNCHANGED rowVars
    BY <1>1, <2>2, <2>3
  <2>4. CASE pc[f] = "failWrite" /\ FailCheck(f)
    BY <2>2, <2>4, FailCheckKeepsMoney DEF MoneyInv, DeliveredInv
  <2> QED
    BY <2>1, <2>3, <2>4
<1>11. CASE RecoverSubmits \/ RecoverSyncs
  BY <1>1, <1>11 DEF RecoverSubmits, FindSubmits, PickSubmit, LookAtSubmit,
       RetrySubmit, AddSubmit, RecoverSyncs, FindSyncs, PickSync, ScanSync, AddSync
<1>12. CASE Crash
  BY <1>t, <1>1, <1>12 DEF Crash
<1>13. CASE Restart
  BY <1>1, <1>13 DEF Restart
<1>14. CASE UNCHANGED vars
  BY <1>1, <1>14 DEF vars
<1> QED
  BY <1>2, <1>3, <1>4, <1>5, <1>6, <1>7, <1>8, <1>9, <1>10, <1>11, <1>12, <1>13, <1>14
     DEF Next, Handle, HandleFault, FailStep, Rest

\* The rules of the money hold in every state.
LEMMA MoneyInvariance == Spec => [](IInv /\ MoneyInv)
<1>1. Init => MoneyInv
  BY DEF Init, MoneyInv, DeliveredInv, RefundFlagMatchesLedger, FailureIsPaidBack, Frames
<1>2. IInv /\ MoneyInv /\ [Next]_vars => MoneyInv'
  BY MoneyStep
<1> QED
  BY <1>1, <1>2, Invariance, PTL DEF Spec

\* The refund flag of a row and its refund rows in the ledger agree, whatever goes wrong and
\* however often: failCheck's commit writes both.
THEOREM FlagMatchesLedger == Spec => []RefundFlagMatchesLedger
<1>1. MoneyInv => RefundFlagMatchesLedger
  BY DEF MoneyInv
<1> QED
  BY <1>1, MoneyInvariance, PTL

\* No fault, or any number of them, costs a user the price of a check that was FAILED and
\* never delivered.
THEOREM FailuresArePaidBack == Spec => []FailureIsPaidBack
<1>1. MoneyInv => FailureIsPaidBack
  BY DEF MoneyInv
<1> QED
  BY <1>1, MoneyInvariance, PTL

=============================================================================
