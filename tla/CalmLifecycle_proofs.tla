------------------------ MODULE CalmLifecycle_proofs ------------------------
(***************************************************************************)
(* Theorems about CheckLifecycle while no process dies, no job's lock is   *)
(* lost and Redis does what its answers say.  Everything else may fail, as *)
(* often as it likes: the provider, the database, an enqueue.              *)
(***************************************************************************)
EXTENDS CheckLifecycle_proofs, FiniteSetTheorems

Calm == Faults \cap {"redisLost", "stall", "crash"} = {}

Drives(f, c) == CheckOf(f) = c /\ pc[f] \notin {"idle", "return", "answered", "lost"}

Pends(j, c) == jobs[j].check = c /\ jobs[j].state \in {"waiting", "delayed"}

\* A handler holds the lock of the active job it runs and works on that job's check; every
\* active job has such a handler.
LockInv ==
  /\ \A w \in Workers :
       IF pc[w] = "idle" THEN target[w] = None /\ ~owns[w]
       ELSE /\ owns[w] /\ jobs[job[w]].state = "active"
            /\ jobs[job[w]].check = target[w]
  /\ \A j \in JobIds : jobs[j].state = "active" =>
       \E w \in Workers : pc[w] # "idle" /\ job[w] = j

\* Of a check nobody bought there is nothing.
FreshInv ==
  \A c \in Checks :
    IF pc[c] = "idle"
    THEN /\ status[c] = "NONE"
         /\ \A w \in Workers : target[w] # c
         /\ \A j \in JobIds : jobs[j].check # c
    ELSE status[c] # "NONE"

\* One frame or one pending job drives a check.
AloneInv ==
  \A c \in Checks :
    /\ \A f, g \in Frames : Drives(f, c) /\ Drives(g, c) => f = g
    /\ \A i, j \in JobIds : Pends(i, c) /\ Pends(j, c) => i = j
    /\ \A f \in Frames, j \in JobIds : ~(Drives(f, c) /\ Pends(j, c))

\* Nobody recovers anything.
NoRecovery == up /\ submitScan = Idle /\ syncScan = Idle

CalmInv == NoRecovery /\ LockInv /\ FreshInv /\ AloneInv

Unsettled(c) == ~delivered[c] /\ refunds[c] = 0

\* A check that may still be served or paid back was neither yet.
SettledInv ==
  /\ \A c \in Checks : refunds[c] <= 1 /\ (status[c] \notin Final => Unsettled(c))
  /\ \A w \in Workers : pc[w] \in {"call", "persist"} => Unsettled(target[w])
  /\ \A f \in Frames : pc[f] = "failWrite" /\ current[f] \notin Final => Unsettled(CheckOf(f))

-----------------------------------------------------------------------------
(* One driver.                                                             *)

\* What the handlers do to the places of frames, when nothing else changes.
LEMMA FramesMove ==
  ASSUME IInv, CalmInv, NEW f \in Frames, pc[f] \notin {"idle", "return", "answered", "lost"},
         pc' = [pc EXCEPT ![f] = pc'[f]], pc'[f] # "idle",
         UNCHANGED <<jobs, job, target, owns, scanVars, up>>,
         \A c \in Checks : (status[c] = "NONE") <=> (status'[c] = "NONE")
  PROVE  CalmInv'
<1>0. pc \in [Frames -> CheckPlaces \cup WorkerPlaces] /\ Checks \cap Workers = {}
  BY IdsAreDistinct DEF IInv, TypeOK
<1>1. \A g \in Frames : (pc'[g] = "idle") <=> (pc[g] = "idle")
  BY <1>0
<1>2. NoRecovery'
  BY DEF CalmInv, NoRecovery, scanVars
<1>3. LockInv'
  BY <1>1 DEF CalmInv, LockInv, Frames
<1>4. FreshInv'
  <2> SUFFICES ASSUME NEW c \in Checks
               PROVE  IF pc'[c] = "idle"
                      THEN /\ status'[c] = "NONE"
                           /\ \A w \in Workers : target'[w] # c
                           /\ \A j \in JobIds : jobs'[j].check # c
                      ELSE status'[c] # "NONE"
    BY DEF FreshInv
  <2> QED
    BY <1>1 DEF CalmInv, FreshInv, Frames
<1>5. AloneInv'
  <2>1. \A g \in Frames, c \in Checks : Drives(g, c)' => Drives(g, c)
    BY <1>0 DEF Drives, CheckOf
  <2>2. \A j \in JobIds, c \in Checks : Pends(j, c)' <=> Pends(j, c)
    BY DEF Pends
  <2> QED
    BY <2>1, <2>2 DEF CalmInv, AloneInv
<1> QED
  BY <1>2, <1>3, <1>4, <1>5 DEF CalmInv

\* The steps of a handler leave it the only driver of its check.
LEMMA HandlersKeepCalm ==
  ASSUME Calm, IInv, CalmInv, NEW w \in Workers,
         Load(w) \/ CallProvider(w) \/ PersistResult(w) \/ HandleFault(w)
  PROVE  CalmInv'
<1>0. /\ pc \in [Frames -> CheckPlaces \cup WorkerPlaces] /\ w \in Frames
      /\ answer[w] \in Answers /\ answer \in [Workers -> Answers]
  BY DEF IInv, TypeOK, Frames
<1>1. pc[w] \notin {"idle", "return", "answered", "lost"}
  BY DEF Load, CallProvider, PersistResult, HandleFault, LoadThrows, CallThrows, PersistThrows,
         SyncNotEnqueued
<1>2. pc' = [pc EXCEPT ![w] = pc'[w]] /\ pc'[w] # "idle"
  BY <1>0 DEF Load, CallProvider, PersistResult, HandleFault, LoadThrows, CallThrows,
              PersistThrows, SyncNotEnqueued, Catch, Goto
<1>3. UNCHANGED <<jobs, job, target, owns, scanVars, up>>
  BY DEF Load, CallProvider, PersistResult, HandleFault, LoadThrows, CallThrows, PersistThrows,
         SyncNotEnqueued, Fault, Calm, frameVars, envVars
<1>4. \A c \in Checks : (status[c] = "NONE") <=> (status'[c] = "NONE")
  <2>1. CASE UNCHANGED status
    BY <2>1
  <2>2. CASE pc[w] = "persist" /\ Persist(target[w], answer[w])
    <3>1. answer[w] # "NONE" /\ target[w] \in Checks /\ pc[target[w]] # "idle"
      BY <1>1, <2>2 DEF IInv, TypeOK, AnswerInv, CheckStatus, Active, Final, CalmInv, FreshInv
    <3>2. status[target[w]] # "NONE" /\ status' = [status EXCEPT ![target[w]] = answer[w]]
      BY <2>2, <3>1 DEF CalmInv, FreshInv, Persist
    <3> QED
      BY <3>1, <3>2 DEF IInv, TypeOK
  <2> QED
    BY <2>1, <2>2
       DEF Load, CallProvider, PersistResult, HandleFault, LoadThrows, CallThrows, PersistThrows,
           SyncNotEnqueued, rowVars
<1> QED
  BY <1>0, <1>1, <1>2, <1>3, <1>4, FramesMove

\* The steps of failCheck leave its frame the only driver of its check.
LEMMA FailingKeepsCalm ==
  ASSUME Calm, IInv, CalmInv, NEW f \in Frames, FailStep(f) \/ FailThrows(f)
  PROVE  CalmInv'
<1>0. pc \in [Frames -> CheckPlaces \cup WorkerPlaces] /\ CheckOf(f) \in Checks
  <2>1. pc[f] # "idle"
    BY DEF FailStep, FailRead, FailWrite, FailThrows
  <2> QED
    BY <2>1, FrameIsAboutCheck DEF IInv, TypeOK
<1>1. pc[f] \notin {"idle", "return", "answered", "lost"}
  BY DEF FailStep, FailRead, FailWrite, FailThrows
<1>2. pc' = [pc EXCEPT ![f] = pc'[f]] /\ pc'[f] # "idle"
  BY <1>0 DEF FailStep, FailRead, FailWrite, FailThrows, Catch, Goto
<1>3. UNCHANGED <<jobs, job, target, owns, scanVars, up>>
  BY DEF FailStep, FailRead, FailWrite, FailThrows, Fault, envVars
<1>4. \A c \in Checks : (status[c] = "NONE") <=> (status'[c] = "NONE")
  <2>1. CASE UNCHANGED status
    BY <2>1
  <2>2. CASE status' = [status EXCEPT ![CheckOf(f)] = "FAILED"]
    <3>1. pc[CheckOf(f)] # "idle"
      BY <1>0, <1>1 DEF CheckOf, CalmInv, FreshInv, Frames
    <3> QED
      BY <1>0, <2>2, <3>1 DEF IInv, TypeOK, CalmInv, FreshInv
  <2> QED
    BY <2>1, <2>2 DEF FailStep, FailRead, FailWrite, FailThrows, FailCheck, rowVars
<1> QED
  BY <1>0, <1>1, <1>2, <1>3, <1>4, FramesMove

\* Creating a check makes its frame the only driver, also if the enqueue throws.
LEMMA BuyingKeepsCalm ==
  ASSUME Calm, IInv, CalmInv, NEW c \in Checks, CreateCheck(c) \/ SubmitNotEnqueued(c)
  PROVE  CalmInv'
<1>0. /\ pc \in [Frames -> CheckPlaces \cup WorkerPlaces]
      /\ status \in [Checks -> CheckStatus \cup {"NONE"}]
      /\ c \in Frames /\ CheckOf(c) = c
  BY DEF IInv, TypeOK, Frames, CheckOf
<1>1. CASE CreateCheck(c)
  <2>0. /\ pc' = [pc EXCEPT ![c] = "enqueue"] /\ status' = [status EXCEPT ![c] = "PENDING"]
        /\ pc[c] = "idle" /\ UNCHANGED <<jobs, job, target, owns, submitScan, syncScan, up>>
    BY <1>1 DEF CreateCheck, Goto, frameVars, scanVars, envVars
  <2>1. NoRecovery'
    BY <2>0 DEF CalmInv, NoRecovery
  <2>2. LockInv'
    BY <1>0, <2>0, IdsAreDistinct DEF CalmInv, LockInv
  <2>3. FreshInv'
    BY <1>0, <2>0 DEF CalmInv, FreshInv, Frames
  <2>4. AloneInv'
    <3>1. \A f \in Frames : ~Drives(f, c)
      BY <2>0 DEF Drives, CheckOf, Frames, CalmInv, FreshInv
    <3>2. \A j \in JobIds : ~Pends(j, c)
      BY <2>0 DEF Pends, CalmInv, FreshInv
    <3>3. \A f \in Frames, d \in Checks : Drives(f, d)' => Drives(f, d) \/ (f = c /\ d = c)
      BY <1>0, <2>0, IdsAreDistinct DEF Drives, CheckOf, Frames
    <3>4. \A j \in JobIds, d \in Checks : Pends(j, d)' <=> Pends(j, d)
      BY <2>0 DEF Pends
    <3> QED
      BY <3>1, <3>2, <3>3, <3>4 DEF CalmInv, AloneInv
  <2> QED
    BY <2>1, <2>2, <2>3, <2>4 DEF CalmInv
<1>2. CASE SubmitNotEnqueued(c)
  <2>1. /\ pc[c] = "enqueue" /\ pc' = [pc EXCEPT ![c] = "failRead"]
        /\ UNCHANGED <<status, jobs, job, target, owns, scanVars, up>>
    BY <1>2 DEF SubmitNotEnqueued, Goto, Fault, Calm, frameVars, rowVars
  <2>2. pc' = [pc EXCEPT ![c] = pc'[c]] /\ pc'[c] # "idle"
    BY <1>0, <2>1
  <2> QED
    BY <1>0, <2>1, <2>2, FramesMove
<1> QED
  BY <1>1, <1>2

\* A frame that drives a check hands it on to a new job, and no longer does.
LEMMA JobIsHandedOn ==
  ASSUME IInv, CalmInv, NEW f \in Frames, NEW j \in JobIds, NEW state \in {"waiting", "delayed"},
         pc[f] \notin {"idle", "return", "answered", "lost"},
         pc' = [pc EXCEPT ![f] = pc'[f]], pc'[f] \in {"return", "answered"},
         jobs' = jobs \/ (jobs[j].state = "none"
                          /\ jobs' = [jobs EXCEPT ![j] = Added(state, CheckOf(f))]),
         UNCHANGED <<rowVars, job, target, owns, scanVars, up>>
  PROVE  CalmInv'
<1>0. /\ pc \in [Frames -> CheckPlaces \cup WorkerPlaces] /\ jobs \in [JobIds -> Job]
      /\ Checks \cap Workers = {} /\ CheckOf(f) \in Checks
  BY IdsAreDistinct, FrameIsAboutCheck DEF IInv, TypeOK
<1>1. /\ Added(state, CheckOf(f)).state = state
      /\ Added(state, CheckOf(f)).check = CheckOf(f)
  BY DEF Added
<1>2. \A g \in Frames : (pc'[g] = "idle") <=> (pc[g] = "idle")
  BY <1>0
<1>3. NoRecovery'
  BY DEF CalmInv, NoRecovery, scanVars
<1>4. \A i \in JobIds :
        \/ jobs'[i] = jobs[i]
        \/ jobs[i].state = "none" /\ jobs'[i] = Added(state, CheckOf(f))
  BY <1>0
<1>5. LockInv'
  <2>1. \A w \in Workers : pc[w] # "idle" => jobs'[job[w]] = jobs[job[w]]
    BY <1>4 DEF CalmInv, LockInv, IInv, TypeOK
  <2> QED
    BY <1>1, <1>2, <1>4, <2>1 DEF CalmInv, LockInv, Frames
<1>6. FreshInv'
  <2>1. pc[CheckOf(f)] # "idle"
    BY <1>0 DEF CheckOf, CalmInv, FreshInv, Frames
  <2> SUFFICES ASSUME NEW c \in Checks
               PROVE  IF pc'[c] = "idle"
                      THEN /\ status'[c] = "NONE"
                           /\ \A w \in Workers : target'[w] # c
                           /\ \A i \in JobIds : jobs'[i].check # c
                      ELSE status'[c] # "NONE"
    BY DEF FreshInv
  <2> QED
    BY <1>1, <1>2, <1>4, <2>1 DEF CalmInv, FreshInv, Frames, rowVars
<1>7. AloneInv'
  <2>1. \A g \in Frames, c \in Checks : Drives(g, c)' => Drives(g, c) /\ g # f
    BY <1>0 DEF Drives, CheckOf
  <2>2. \A i \in JobIds, c \in Checks : Pends(i, c)' => Pends(i, c) \/ (i = j /\ c = CheckOf(f))
    BY <1>0, <1>1 DEF Pends
  <2>3. Drives(f, CheckOf(f))
    BY DEF Drives
  <2> QED
    BY <1>0, <2>1, <2>2, <2>3 DEF CalmInv, AloneInv
<1> QED
  BY <1>3, <1>5, <1>6, <1>7 DEF CalmInv

\* A frame that adds a job hands its check over to it.
LEMMA EnqueueingKeepsCalm ==
  ASSUME IInv, CalmInv
  PROVE  /\ \A c \in Checks : SubmitEnqueued(c) => CalmInv'
         /\ \A w \in Workers : SyncEnqueued(w) => CalmInv'
<1>0. pc \in [Frames -> CheckPlaces \cup WorkerPlaces]
  BY DEF IInv, TypeOK
<1>1. ASSUME NEW c \in Checks, SubmitEnqueued(c) PROVE CalmInv'
  <2>1. /\ pc[c] = "enqueue" /\ pc' = [pc EXCEPT ![c] = "answered"]
        /\ UNCHANGED <<rowVars, job, target, owns, scanVars, up>>
    BY <1>1 DEF SubmitEnqueued, Goto, frameVars, envVars
  <2>2. /\ CheckOf(c) = c /\ c \in Frames /\ c \in JobIds
        /\ \/ jobs' = jobs
           \/ jobs[c].state = "none" /\ jobs' = [jobs EXCEPT ![c] = Added("waiting", c)]
    BY <1>1 DEF SubmitEnqueued, EnqueueSubmit, CheckOf, Frames, JobIds
  <2>3. pc' = [pc EXCEPT ![c] = pc'[c]] /\ pc'[c] \in {"return", "answered"}
    BY <1>0, <2>1, <2>2
  <2> QED
    BY <2>1, <2>2, <2>3, JobIsHandedOn
<1>2. ASSUME NEW w \in Workers, SyncEnqueued(w) PROVE CalmInv'
  <2>1. /\ pc[w] \in {"enqueue", "requeue"} /\ pc' = [pc EXCEPT ![w] = "return"]
        /\ UNCHANGED <<rowVars, job, target, owns, scanVars, up>>
    BY <1>2 DEF SyncEnqueued, Goto, frameVars, envVars
  <2>2. CheckOf(w) = target[w] /\ w \in Frames
    BY IdsAreDistinct DEF CheckOf, Frames
  <2>3. PICK j \in SyncIds : jobs[j].state = "none"
                             /\ jobs' = [jobs EXCEPT ![j] = Added("delayed", CheckOf(w))]
    BY <1>2, <2>2 DEF SyncEnqueued, EnqueueSync
  <2>4. j \in JobIds
    BY DEF JobIds
  <2>5. pc' = [pc EXCEPT ![w] = pc'[w]] /\ pc'[w] \in {"return", "answered"}
    BY <1>0, <2>1, <2>2
  <2> QED
    BY <2>1, <2>2, <2>3, <2>4, <2>5, JobIsHandedOn
<1> QED
  BY <1>1, <1>2

\* A job that runs has a handler, so nothing stalls.
LEMMA NothingStalls ==
  ASSUME Calm, IInv, CalmInv, NEW j \in JobIds
  PROVE  ~RecoverStalled(j) /\ ~LoseLock(j)
<1>1. ~LoseLock(j)
  BY DEF LoseLock, Fault, Calm
<1>2. ~RecoverStalled(j)
  BY DEF RecoverStalled, StalledJob, Abandoned, CalmInv, LockInv
<1> QED
  BY <1>1, <1>2

\* A delayed job that becomes waiting stays the only driver of its check.
LEMMA PromoteKeepsCalm ==
  ASSUME IInv, CalmInv, NEW j \in JobIds, Promote(j)
  PROVE  CalmInv'
<1>0. jobs \in [JobIds -> Job] /\ \A w \in Workers : pc[w] # "idle" => job[w] \in JobIds
  BY DEF IInv, TypeOK
<1>1. /\ jobs[j].state = "delayed"
      /\ jobs' = [jobs EXCEPT ![j] = [jobs[j] EXCEPT !.state = "waiting"]]
      /\ UNCHANGED <<rowVars, pc, job, target, owns, scanVars, up>>
  BY <1>0 DEF Promote, frameVars, envVars
<1>2. /\ [jobs[j] EXCEPT !.state = "waiting"].check = jobs[j].check
      /\ [jobs[j] EXCEPT !.state = "waiting"].state = "waiting"
  BY <1>0 DEF Job
<1>3. \A i \in JobIds : /\ jobs'[i].check = jobs[i].check
                        /\ i = j \/ jobs'[i] = jobs[i]
                        /\ jobs'[j].state = "waiting"
  BY <1>0, <1>1, <1>2
<1>4. NoRecovery' /\ LockInv' /\ FreshInv'
  BY <1>0, <1>1, <1>3 DEF CalmInv, NoRecovery, LockInv, FreshInv, rowVars, scanVars
<1>5. AloneInv'
  <2>1. \A i \in JobIds, c \in Checks : Pends(i, c)' => Pends(i, c)
    BY <1>1, <1>3 DEF Pends
  <2>2. \A f \in Frames, c \in Checks : Drives(f, c)' <=> Drives(f, c)
    BY <1>1 DEF Drives, CheckOf
  <2> QED
    BY <2>1, <2>2 DEF CalmInv, AloneInv
<1> QED
  BY <1>4, <1>5 DEF CalmInv

\* A worker that takes a job drives the check in its place.
LEMMA TakeKeepsCalm ==
  ASSUME IInv, CalmInv, NEW w \in Workers, NEW j \in JobIds, Take(w, j)
  PROVE  CalmInv'
<1>0. /\ pc \in [Frames -> CheckPlaces \cup WorkerPlaces] /\ jobs \in [JobIds -> Job]
      /\ job \in [Workers -> JobIds \cup {None}] /\ target \in [Workers -> Checks \cup {None}]
      /\ owns \in [Workers -> BOOLEAN] /\ Checks \cap Workers = {} /\ w \in Frames
      /\ \A v \in Workers : pc[v] # "idle" => job[v] \in JobIds
      /\ jobs[j].check # None
  BY IdsAreDistinct DEF IInv, TypeOK, Frames, Take
<1>1. /\ pc[w] = "idle" /\ jobs[j].state = "waiting" /\ UNCHANGED <<rowVars, scanVars, up>>
      /\ jobs' = [jobs EXCEPT ![j] = [jobs[j] EXCEPT !.state = "active"]]
      /\ job' = [job EXCEPT ![w] = j] /\ target' = [target EXCEPT ![w] = jobs[j].check]
      /\ owns' = [owns EXCEPT ![w] = TRUE] /\ pc' = [pc EXCEPT ![w] = "load"]
  BY <1>0 DEF Take, Goto, envVars
<1>2. /\ [jobs[j] EXCEPT !.state = "active"].check = jobs[j].check
      /\ [jobs[j] EXCEPT !.state = "active"].state = "active"
  BY <1>0 DEF Job
<1>3. \A i \in JobIds : /\ jobs'[i].check = jobs[i].check
                        /\ i = j \/ jobs'[i] = jobs[i]
                        /\ jobs'[j].state = "active"
  BY <1>0, <1>1, <1>2
<1>4. /\ pc'[w] = "load" /\ job'[w] = j /\ owns'[w] /\ target'[w] = jobs[j].check
      /\ \A v \in Workers \ {w} :
           pc'[v] = pc[v] /\ job'[v] = job[v] /\ (owns'[v] <=> owns[v]) /\ target'[v] = target[v]
  BY <1>0, <1>1 DEF Frames
<1>5. NoRecovery'
  BY <1>1 DEF CalmInv, NoRecovery, scanVars
<1>6. LockInv'
  BY <1>0, <1>1, <1>3, <1>4 DEF CalmInv, LockInv
<1>7. FreshInv'
  <2>1. \A c \in Checks : pc'[c] = pc[c]
    BY <1>0, <1>1
  <2> QED
    BY <1>1, <1>3, <1>4, <2>1 DEF CalmInv, FreshInv, rowVars
<1>8. AloneInv'
  <2>1. \A i \in JobIds, c \in Checks : Pends(i, c)' => Pends(i, c) /\ i # j
    BY <1>3 DEF Pends
  <2>2. \A f \in Frames, c \in Checks :
          Drives(f, c)' => Drives(f, c) \/ (f = w /\ Pends(j, c))
    BY <1>0, <1>1, <1>4 DEF Drives, Pends, CheckOf, Frames
  <2> QED
    BY <2>1, <2>2 DEF CalmInv, AloneInv
<1> QED
  BY <1>5, <1>6, <1>7, <1>8 DEF CalmInv

\* A handler ends: its job goes, is kept as failed, or waits to be run again; the latter
\* only when the handler still drove the check.
LEMMA HandlerEnds ==
  ASSUME IInv, CalmInv, NEW w \in Workers, pc[w] \in {"return", "throw"}, NEW new \in Job,
         jobs' = [jobs EXCEPT ![job[w]] = new],
         new.state \in {"none", "failed", "delayed"},
         new.check \in {None, target[w]},
         new.state = "delayed" => pc[w] = "throw",
         Release(w), UNCHANGED <<rowVars, scanVars, up>>
  PROVE  CalmInv'
<1>0. /\ pc \in [Frames -> CheckPlaces \cup WorkerPlaces] /\ jobs \in [JobIds -> Job]
      /\ job \in [Workers -> JobIds \cup {None}] /\ target \in [Workers -> Checks \cup {None}]
      /\ owns \in [Workers -> BOOLEAN] /\ Checks \cap Workers = {} /\ w \in Frames
      /\ \A v \in Workers : pc[v] # "idle" => job[v] \in JobIds
      /\ job[w] \in JobIds /\ target[w] \in Checks /\ None \notin Checks
  BY IdsAreDistinct DEF IInv, TypeOK, Frames
<1>1. /\ pc'[w] = "idle" /\ ~owns'[w] /\ target'[w] = None
      /\ \A v \in Workers \ {w} :
           pc'[v] = pc[v] /\ job'[v] = job[v] /\ (owns'[v] <=> owns[v]) /\ target'[v] = target[v]
      /\ \A c \in Checks : pc'[c] = pc[c]
  BY <1>0 DEF Release, Goto, Frames
<1>2. /\ jobs'[job[w]] = new
      /\ \A i \in JobIds : i # job[w] => jobs'[i] = jobs[i]
  BY <1>0
<1>3. \A v \in Workers \ {w} : pc[v] # "idle" => job[v] # job[w]
  BY DEF CalmInv, LockInv, IInv, QueueInv
<1>4. NoRecovery'
  BY DEF CalmInv, NoRecovery, scanVars
<1>5. LockInv'
  BY <1>0, <1>1, <1>2, <1>3 DEF CalmInv, LockInv
<1>6. FreshInv'
  BY <1>0, <1>1, <1>2 DEF CalmInv, FreshInv, rowVars
<1>7. AloneInv'
  <2>1. \A i \in JobIds, c \in Checks :
          Pends(i, c)' => Pends(i, c) \/ (i = job[w] /\ Drives(w, c))
    BY <1>0, <1>2, IdsAreDistinct DEF Pends, Drives, CheckOf
  <2>2. \A f \in Frames, c \in Checks : Drives(f, c)' => Drives(f, c) /\ f # w
    BY <1>0, <1>1 DEF Drives, CheckOf, Frames
  <2>3. \A c \in Checks : ~Pends(job[w], c)
    BY DEF Pends, CalmInv, LockInv
  <2> QED
    BY <1>0, <2>1, <2>2, <2>3 DEF CalmInv, AloneInv
<1> QED
  BY <1>4, <1>5, <1>6, <1>7 DEF CalmInv

\* A handler that ends gives up its job.
LEMMA EndingKeepsCalm ==
  ASSUME IInv, CalmInv, NEW w \in Workers, Return(w) \/ Throw(w)
  PROVE  CalmInv'
<1>0. /\ JobsTyped /\ job[w] \in JobIds /\ owns[w] /\ jobs[job[w]].check = target[w]
      /\ jobs[job[w]] \in Job
  BY TypeHasJobs DEF IInv, TypeOK, JobsTyped, CalmInv, LockInv, Return, Throw
<1>1. CASE Return(w)
  <2>1. NoJob \in Job /\ NoJob.state = "none" /\ NoJob.check = None
    BY NoJobIsJob DEF NoJob
  <2>2. jobs' = [jobs EXCEPT ![job[w]] = NoJob]
    BY <1>0, <1>1 DEF Return
  <2>3. pc[w] = "return" /\ Release(w) /\ UNCHANGED <<rowVars, scanVars, up>>
    BY <1>1 DEF Return, envVars
  <2> QED
    BY <2>1, <2>2, <2>3, HandlerEnds
<1>2. CASE Throw(w)
  <2> DEFINE new == AfterThrow(job[w])
  <2>1. new \in Job /\ (new.state # "none" => new.check = target[w])
    BY <1>0, AfterThrowIsJob
  <2>2. new.state \in {"none", "failed", "delayed"} /\ (new.state = "none" => new.check = None)
    <3> DEFINE made == IF jobs[job[w]].tries < 3 THEN jobs[job[w]].tries + 1 ELSE 3
    <3>1. [jobs[job[w]] EXCEPT !.state = "delayed", !.tries = made].state = "delayed"
      BY <1>0 DEF Job
    <3>2. NoJob.state = "none" /\ NoJob.check = None
      BY DEF NoJob
    <3>3. [jobs[job[w]] EXCEPT !.state = "failed"].state = "failed"
      BY <1>0 DEF Job
    <3>4. \/ new = NoJob
          \/ new = [jobs[job[w]] EXCEPT !.state = "failed"]
          \/ new = [jobs[job[w]] EXCEPT !.state = "delayed", !.tries = made]
      BY DEF AfterThrow, Failed
    <3> QED
      BY <3>1, <3>2, <3>3, <3>4
  <2>3. jobs' = [jobs EXCEPT ![job[w]] = new]
    BY <1>0, <1>2 DEF Throw
  <2>4. pc[w] = "throw" /\ Release(w) /\ UNCHANGED <<rowVars, scanVars, up>>
    BY <1>2 DEF Throw, envVars
  <2> HIDE DEF new
  <2> QED
    BY <2>1, <2>2, <2>3, <2>4, HandlerEnds
<1> QED
  BY <1>1, <1>2

\* The recovery only runs after a restart.
LEMMA NobodyRecovers ==
  ASSUME Calm, CalmInv
  PROVE  ~RecoverSubmits /\ ~RecoverSyncs /\ ~Crash /\ ~Restart
BY DEF CalmInv, NoRecovery, Idle, RecoverSubmits, RecoverSyncs, FindSubmits, PickSubmit,
       LookAtSubmit, RetrySubmit, AddSubmit, FindSyncs, PickSync, ScanSync, AddSync, NextState,
       Crash, Restart, Fault, Calm

\* While Calm, every step leaves one driver for each check.
LEMMA CalmStep ==
  ASSUME Calm, IInv, CalmInv, [Next]_vars
  PROVE  CalmInv'
<1>1. ASSUME UNCHANGED <<rowVars, jobs, pc, job, target, owns, scanVars, up>> PROVE CalmInv'
  BY <1>1 DEF CalmInv, NoRecovery, LockInv, FreshInv, AloneInv, Drives, Pends, CheckOf, rowVars,
              scanVars
<1>2. ASSUME NEW c \in Checks, ProviderStep(c) PROVE CalmInv'
  BY <1>1, <1>2 DEF ProviderStep, frameVars, envVars
<1>3. CASE UNCHANGED vars
  BY <1>1, <1>3 DEF vars, frameVars, envVars
<1> QED
  BY <1>2, <1>3, HandlersKeepCalm, FailingKeepsCalm, BuyingKeepsCalm, EnqueueingKeepsCalm,
     NothingStalls, PromoteKeepsCalm, TakeKeepsCalm, EndingKeepsCalm, NobodyRecovers
     DEF Next, Handle, Rest

\* While Calm, each check has one driver in every state.
LEMMA CalmInvariance ==
  ASSUME Calm
  PROVE  Spec => [](IInv /\ CalmInv)
<1>1. Init => CalmInv
  <2>1. Init => NoRecovery /\ LockInv
    BY DEF Init, NoRecovery, LockInv, NoJob, Frames
  <2>2. Init => FreshInv
    BY IdsAreDistinct DEF Init, FreshInv, NoJob, Frames
  <2>3. Init => AloneInv
    BY DEF Init, AloneInv, Drives, Pends, NoJob
  <2> QED
    BY <2>1, <2>2, <2>3 DEF CalmInv
<1>2. IInv /\ CalmInv /\ [Next]_vars => CalmInv'
  BY CalmStep
<1> QED
  BY <1>1, <1>2, Invariance, PTL DEF Spec

\* Of two sets with at most one element each, one of them empty, there is one element.
LEMMA AtMostOne ==
  ASSUME NEW S, NEW T, \A x, y \in S : x = y, \A x, y \in T : x = y, S = {} \/ T = {}
  PROVE  Cardinality(S) + Cardinality(T) <= 1
<1>1. ASSUME NEW R, \A x, y \in R : x = y PROVE Cardinality(R) = 0 \/ Cardinality(R) = 1
  <2>1. CASE R = {}
    BY <2>1, FS_EmptySet
  <2>2. CASE R # {}
    <3>1. PICK x \in R : TRUE
      BY <2>2
    <3>2. R = {x}
      BY <1>1, <3>1
    <3> QED
      BY <3>2, FS_Singleton
  <2> QED
    BY <2>1, <2>2
<1>2. Cardinality({}) = 0
  BY FS_EmptySet
<1>3. Cardinality(S) \in {0, 1} /\ Cardinality(T) \in {0, 1}
  BY <1>1
<1> QED
  BY <1>2, <1>3

\* While nothing crashes, stalls or lies about an enqueue, at most one frame or pending job
\* drives a check, with any number of checks, workers and other faults.
THEOREM NobodyInterferes == ASSUME Calm PROVE Spec => []OneDriver
<1>1. CalmInv => OneDriver
  <2> SUFFICES ASSUME CalmInv, NEW c \in Checks
               PROVE  Cardinality(DrivingFrames(c)) + Cardinality(PendingJobs(c)) <= 1
    BY DEF OneDriver
  <2>1. \A f \in DrivingFrames(c) : f \in Frames /\ Drives(f, c)
    BY DEF DrivingFrames, Drives
  <2>2. \A j \in PendingJobs(c) : j \in JobIds /\ Pends(j, c)
    BY DEF PendingJobs, Pends
  <2>3. /\ \A f, g \in DrivingFrames(c) : f = g
        /\ \A i, j \in PendingJobs(c) : i = j
        /\ \A f \in DrivingFrames(c), j \in PendingJobs(c) : FALSE
    BY <2>1, <2>2 DEF CalmInv, AloneInv
  <2>4. DrivingFrames(c) = {} \/ PendingJobs(c) = {}
    BY <2>3
  <2> QED
    BY <2>3, <2>4, AtMostOne
<1> QED
  BY <1>1, CalmInvariance, PTL

-----------------------------------------------------------------------------
(* Served or paid back, once.                                              *)

\* The promise's step, or none.
Keeps == [Promise!Next]_<<[c \in Checks |-> status[c] # "NONE"], delivered, refunds>>

\* Nothing happens to the rows, and nobody gets to where he may write one.
LEMMA NothingIsSettled ==
  ASSUME SettledInv, UNCHANGED <<status, delivered, refunds>>,
         \A w \in Workers : pc'[w] \in {"call", "persist"} =>
           pc[w] \in {"call", "persist"} /\ target'[w] = target[w],
         \A f \in Frames : pc'[f] = "failWrite" =>
           pc[f] = "failWrite" /\ CheckOf(f)' = CheckOf(f) /\ current'[f] = current[f]
  PROVE  SettledInv' /\ Keeps
BY DEF SettledInv, Unsettled, Keeps

\* What one frame writes, no other frame was about to write.
LEMMA OthersAreElsewhere ==
  ASSUME CalmInv, NEW f \in Frames, NEW g \in Frames \ {f}, CheckOf(f) \in Checks,
         pc[f] \in {"persist", "failRead", "failWrite"},
         pc[g] \in {"call", "persist", "failWrite"}
  PROVE  CheckOf(g) # CheckOf(f)
BY DEF CalmInv, AloneInv, Drives

\* Storing a result serves a check that was neither served nor paid back.
LEMMA PersistSettles ==
  ASSUME IInv, CalmInv, SettledInv, NEW w \in Workers, pc[w] = "persist",
         Persist(target[w], answer[w]), UNCHANGED <<target, current>>,
         pc' = [pc EXCEPT ![w] = pc'[w]], pc'[w] \notin {"call", "persist", "failWrite"}
  PROVE  SettledInv' /\ Keeps
<1>0. /\ pc \in [Frames -> CheckPlaces \cup WorkerPlaces] /\ w \in Frames
      /\ status \in [Checks -> CheckStatus \cup {"NONE"}] /\ refunds \in [Checks -> Nat]
      /\ delivered \in [Checks -> BOOLEAN] /\ Checks \cap Workers = {}
      /\ target[w] \in Checks /\ answer[w] \in CheckStatus \ {"FAILED"}
  BY IdsAreDistinct DEF IInv, TypeOK, AnswerInv, Frames
<1> DEFINE c == target[w]
<1>1. /\ CheckOf(w) = c /\ status[c] # "NONE" /\ ~delivered[c] /\ refunds[c] = 0
  BY <1>0 DEF CheckOf, CalmInv, FreshInv, SettledInv, Unsettled, Frames
<1>2. /\ status' = [status EXCEPT ![c] = answer[w]] /\ refunds' = refunds
      /\ delivered' = [delivered EXCEPT ![c] = answer[w] = "DONE"]
  BY <1>0, <1>1 DEF Persist
<1>3. \A f \in Frames \ {w} : pc[f] \in {"call", "persist", "failWrite"} => CheckOf(f) # c
  BY <1>0, <1>1, OthersAreElsewhere
<1>4. \A f \in Frames : /\ CheckOf(f)' = CheckOf(f)
                        /\ f # w => pc'[f] = pc[f]
  BY <1>0 DEF CheckOf
<1>5. \A d \in Checks \ {c} : Unsettled(d)' <=> Unsettled(d)
  BY <1>0, <1>2 DEF Unsettled
<1>6. SettledInv'
  <2>1. \A d \in Checks : refunds'[d] <= 1 /\ (status'[d] \notin Final => Unsettled(d)')
    BY <1>0, <1>1, <1>2, <1>5 DEF SettledInv, Unsettled, Final
  <2>2. \A v \in Workers : pc'[v] \in {"call", "persist"} => Unsettled(target[v])'
    <3> SUFFICES ASSUME NEW v \in Workers, pc'[v] \in {"call", "persist"}
                 PROVE  Unsettled(target[v])'
      OBVIOUS
    <3>1. v # w /\ v \in Frames /\ pc[v] \in {"call", "persist"}
      BY <1>4 DEF Frames
    <3>2. target[v] \in Checks \ {c} /\ Unsettled(target[v])
      BY <1>0, <1>3, <3>1 DEF CheckOf, IInv, TypeOK, SettledInv
    <3> QED
      BY <1>5, <3>2
  <2>3. \A f \in Frames : pc'[f] = "failWrite" /\ current'[f] \notin Final => Unsettled(CheckOf(f))'
    <3> SUFFICES ASSUME NEW f \in Frames, pc'[f] = "failWrite", current'[f] \notin Final
                 PROVE  Unsettled(CheckOf(f))'
      OBVIOUS
    <3>1. f # w /\ pc[f] = "failWrite"
      BY <1>4
    <3>2. CheckOf(f) \in Checks \ {c} /\ Unsettled(CheckOf(f))
      BY <1>3, <3>1, FrameIsAboutCheck DEF IInv, SettledInv
    <3> QED
      BY <1>4, <1>5, <3>2
  <2> QED
    BY <2>1, <2>2, <2>3 DEF SettledInv
<1>7. Keeps
  <2>1. [d \in Checks |-> status'[d] # "NONE"] = [d \in Checks |-> status[d] # "NONE"]
    BY <1>0, <1>1, <1>2 DEF CheckStatus, Active, Final
  <2>2. CASE answer[w] = "DONE"
    <3>1. Promise!Serve(c)
      BY <1>0, <1>1, <1>2, <2>1, <2>2 DEF Promise!Serve, Promise!Open
    <3> QED
      BY <1>0, <3>1 DEF Keeps, Promise!Next
  <2>3. CASE answer[w] # "DONE"
    <3>1. delivered' = delivered
      BY <1>0, <1>1, <1>2, <2>3
    <3> QED
      BY <1>2, <2>1, <3>1 DEF Keeps
  <2> QED
    BY <2>2, <2>3
<1> QED
  BY <1>6, <1>7

\* failCheck pays a check back that was neither served nor paid back.
LEMMA FailCheckSettles ==
  ASSUME IInv, CalmInv, SettledInv, NEW f \in Frames, pc[f] = "failWrite", FailCheck(f),
         UNCHANGED target, current' = [current EXCEPT ![f] = "NONE"],
         pc' = [pc EXCEPT ![f] = pc'[f]], pc'[f] \notin {"call", "persist", "failWrite"}
  PROVE  SettledInv' /\ Keeps
<1>0. /\ pc \in [Frames -> CheckPlaces \cup WorkerPlaces]
      /\ status \in [Checks -> CheckStatus \cup {"NONE"}] /\ refunds \in [Checks -> Nat]
      /\ delivered \in [Checks -> BOOLEAN] /\ current \in [Frames -> CheckStatus \cup {"NONE"}]
      /\ CheckOf(f) \in Checks
  BY FrameIsAboutCheck DEF IInv, TypeOK
<1> DEFINE c == CheckOf(f)
<1>1. status[c] # "NONE"
  BY <1>0 DEF CheckOf, CalmInv, FreshInv, Frames
<1>2. /\ \A g \in Frames : CheckOf(g)' = CheckOf(g)
      /\ \A g \in Frames \ {f} : pc'[g] = pc[g] /\ current'[g] = current[g]
  BY <1>0 DEF CheckOf
<1>3. CASE UNCHANGED <<status, delivered, refunds>>
  <2>1. \A w \in Workers : pc'[w] \in {"call", "persist"} =>
          pc[w] \in {"call", "persist"} /\ target'[w] = target[w]
    BY <1>2 DEF Frames
  <2>2. \A g \in Frames : pc'[g] = "failWrite" =>
          pc[g] = "failWrite" /\ CheckOf(g)' = CheckOf(g) /\ current'[g] = current[g]
    BY <1>2
  <2> QED
    BY <1>3, <2>1, <2>2, NothingIsSettled
<1>4. CASE status' = [status EXCEPT ![c] = "FAILED"] /\ UNCHANGED delivered
  <2>1. \A g \in Frames \ {f} : pc[g] \in {"call", "persist", "failWrite"} => CheckOf(g) # c
    BY <1>0, OthersAreElsewhere
  <2>2. /\ \A d \in Checks \ {c} : refunds'[d] = refunds[d]
        /\ refunds'[c] = IF current[f] \notin Final THEN refunds[c] + 1 ELSE refunds[c]
    BY <1>0, <1>4 DEF FailCheck, ShouldRefund, rowVars, Final
  <2>3. current[f] \notin Final => ~delivered[c] /\ refunds[c] = 0
    BY DEF SettledInv, Unsettled
  <2>4. \A d \in Checks \ {c} : Unsettled(d)' <=> Unsettled(d)
    BY <1>4, <2>2 DEF Unsettled
  <2>5. SettledInv'
    <3>1. \A d \in Checks : refunds'[d] <= 1 /\ (status'[d] \notin Final => Unsettled(d)')
      BY <1>0, <1>4, <2>2, <2>3, <2>4 DEF SettledInv, Final
    <3>2. \A v \in Workers : pc'[v] \in {"call", "persist"} => Unsettled(target[v])'
      <4> SUFFICES ASSUME NEW v \in Workers, pc'[v] \in {"call", "persist"}
                   PROVE  Unsettled(target[v])'
        OBVIOUS
      <4>1. v # f /\ v \in Frames /\ pc[v] \in {"call", "persist"}
        BY <1>2 DEF Frames
      <4>2. target[v] = CheckOf(v)
        BY IdsAreDistinct DEF CheckOf
      <4>3. target[v] \in Checks \ {c} /\ Unsettled(target[v])
        BY <2>1, <4>1, <4>2, FrameIsAboutCheck DEF IInv, SettledInv
      <4> QED
        BY <2>4, <4>3
    <3>3. \A g \in Frames :
            pc'[g] = "failWrite" /\ current'[g] \notin Final => Unsettled(CheckOf(g))'
      <4> SUFFICES ASSUME NEW g \in Frames, pc'[g] = "failWrite", current'[g] \notin Final
                   PROVE  Unsettled(CheckOf(g))'
        OBVIOUS
      <4>1. g # f /\ pc[g] = "failWrite" /\ current[g] \notin Final
        BY <1>2
      <4>2. CheckOf(g) \in Checks \ {c} /\ Unsettled(CheckOf(g))
        BY <2>1, <4>1, FrameIsAboutCheck DEF IInv, SettledInv
      <4> QED
        BY <1>2, <2>4, <4>2
    <3> QED
      BY <3>1, <3>2, <3>3 DEF SettledInv
  <2>6. Keeps
    <3>1. [d \in Checks |-> status'[d] # "NONE"] = [d \in Checks |-> status[d] # "NONE"]
      BY <1>0, <1>1, <1>4
    <3>2. CASE current[f] \notin Final
      <4>1. refunds' = [refunds EXCEPT ![c] = 1]
        BY <1>0, <2>3, <3>2, <1>4 DEF FailCheck, ShouldRefund, rowVars, Final
      <4>2. Promise!PayBack(c)
        BY <1>0, <1>1, <1>4, <2>3, <3>1, <3>2, <4>1 DEF Promise!PayBack, Promise!Open
      <4> QED
        BY <1>0, <4>2 DEF Keeps, Promise!Next
    <3>3. CASE current[f] \in Final
      <4>1. refunds' = refunds
        BY <1>0, <3>3, <1>4 DEF FailCheck, ShouldRefund, rowVars
      <4> QED
        BY <1>4, <3>1, <4>1 DEF Keeps
    <3> QED
      BY <3>2, <3>3
  <2> QED
    BY <2>5, <2>6
<1> QED
  BY <1>3, <1>4 DEF FailCheck, rowVars

\* While Calm, every step serves or pays back a check once at most.
LEMMA SettledStep ==
  ASSUME Calm, IInv, CalmInv, SettledInv, [Next]_vars
  PROVE  SettledInv' /\ Keeps
<1>0. /\ pc \in [Frames -> CheckPlaces \cup WorkerPlaces]
      /\ target \in [Workers -> Checks \cup {None}]
      /\ current \in [Frames -> CheckStatus \cup {"NONE"}] /\ Checks \cap Workers = {}
      /\ status \in [Checks -> CheckStatus \cup {"NONE"}]
  BY IdsAreDistinct DEF IInv, TypeOK
<1> USE DEF rowVars, frameVars, envVars, Goto, Frames
<1>1. ASSUME NEW c \in Checks, CreateCheck(c) PROVE SettledInv' /\ Keeps
  <2>1. status[c] = "NONE" /\ pc[c] = "idle" /\ status' = [status EXCEPT ![c] = "PENDING"]
    BY <1>1 DEF CreateCheck, CalmInv, FreshInv
  <2>2. Unsettled(c)
    BY <2>1 DEF SettledInv, Final
  <2>3. SettledInv'
    BY <1>0, <1>1, <2>1, <2>2 DEF CreateCheck, SettledInv, Unsettled, CheckOf
  <2>4. Promise!Buy(c)
    BY <1>0, <1>1, <2>1 DEF CreateCheck, Promise!Buy
  <2> QED
    BY <2>3, <2>4 DEF Keeps, Promise!Next
<1>2. ASSUME NEW c \in Checks, SubmitEnqueued(c) \/ SubmitNotEnqueued(c) \/ ProviderStep(c)
      PROVE  SettledInv' /\ Keeps
  BY <1>0, <1>2, NothingIsSettled DEF SubmitEnqueued, SubmitNotEnqueued, ProviderStep, CheckOf
<1>3. ASSUME NEW j \in JobIds, Promote(j) PROVE SettledInv' /\ Keeps
  BY <1>3, NothingIsSettled DEF Promote, CheckOf
<1>4. ASSUME NEW w \in Workers, NEW j \in JobIds, Take(w, j) PROVE SettledInv' /\ Keeps
  BY <1>0, <1>4, NothingIsSettled DEF Take, CheckOf
<1>5. ASSUME NEW w \in Workers, Return(w) \/ Throw(w) PROVE SettledInv' /\ Keeps
  BY <1>0, <1>5, NothingIsSettled DEF Return, Throw, Release, CheckOf
<1>6. ASSUME NEW w \in Workers, Load(w) PROVE SettledInv' /\ Keeps
  <2>1. CASE ~Wanted(w)
    BY <1>0, <1>6, <2>1, NothingIsSettled DEF Load, CheckOf
  <2>2. CASE Wanted(w)
    <3>1. target[w] \in Checks /\ status[target[w]] \in Active
      BY <1>6, <2>2 DEF Load, Wanted, IInv, TypeOK, Active
    <3>2. Unsettled(target[w])
      BY <3>1 DEF SettledInv, Active, Final
    <3> QED
      BY <1>0, <1>6, <3>2 DEF Load, SettledInv, Unsettled, CheckOf, Keeps
  <2> QED
    BY <2>1, <2>2
<1>7. ASSUME NEW w \in Workers,
             CallProvider(w) \/ LoadThrows(w) \/ CallThrows(w) \/ SyncEnqueued(w)
               \/ SyncNotEnqueued(w)
      PROVE  SettledInv' /\ Keeps
  BY <1>0, <1>7, NothingIsSettled
     DEF CallProvider, LoadThrows, CallThrows, SyncEnqueued, SyncNotEnqueued, Catch, CheckOf
<1>8. ASSUME NEW w \in Workers, PersistResult(w) \/ PersistThrows(w) PROVE SettledInv' /\ Keeps
  <2>1. CASE UNCHANGED rowVars
    BY <1>0, <1>8, <2>1, NothingIsSettled DEF PersistResult, PersistThrows, Catch, CheckOf
  <2>2. CASE Persist(target[w], answer[w])
    <3>1. /\ pc[w] = "persist" /\ UNCHANGED <<target, current>>
          /\ pc' = [pc EXCEPT ![w] = pc'[w]] /\ pc'[w] \notin {"call", "persist", "failWrite"}
      BY <1>0, <1>8 DEF PersistResult, PersistThrows, Catch
    <3> QED
      BY <2>2, <3>1, PersistSettles
  <2> QED
    BY <1>8, <2>1, <2>2 DEF PersistResult, PersistThrows
<1>9. ASSUME NEW f \in Frames, FailRead(f) PROVE SettledInv' /\ Keeps
  <2>1. CheckOf(f) \in Checks
    BY <1>9, FrameIsAboutCheck DEF FailRead, IInv
  <2>2. status[CheckOf(f)] \notin Final => Unsettled(CheckOf(f))
    BY <2>1 DEF SettledInv
  <2> QED
    BY <1>0, <1>9, <2>2 DEF FailRead, SettledInv, Unsettled, CheckOf, Keeps
<1>10. ASSUME NEW f \in Frames, FailWrite(f) \/ FailThrows(f) PROVE SettledInv' /\ Keeps
  <2>0. /\ current' = [current EXCEPT ![f] = "NONE"] /\ UNCHANGED target
        /\ pc' = [pc EXCEPT ![f] = pc'[f]] /\ pc'[f] \notin {"call", "persist", "failWrite"}
    BY <1>0, <1>10 DEF FailWrite, FailThrows, Catch
  <2>1. CASE UNCHANGED rowVars
    <3>1. \A g \in Frames : /\ CheckOf(g)' = CheckOf(g)
                            /\ g # f => pc'[g] = pc[g] /\ current'[g] = current[g]
      BY <1>0, <2>0 DEF CheckOf
    <3> QED
      BY <2>0, <2>1, <3>1, NothingIsSettled
  <2>2. CASE pc[f] = "failWrite" /\ FailCheck(f)
    BY <2>0, <2>2, FailCheckSettles
  <2> QED
    BY <1>10, <2>1, <2>2 DEF FailWrite, FailThrows
<1>11. CASE UNCHANGED vars
  BY <1>11, NothingIsSettled DEF vars, CheckOf
<1> QED
  BY <1>1, <1>2, <1>3, <1>4, <1>5, <1>6, <1>7, <1>8, <1>9, <1>10, <1>11, NothingStalls,
     NobodyRecovers
     DEF Next, Handle, HandleFault, FailStep, Rest

\* While Calm, an open check was neither served nor paid back, in every state.
LEMMA SettledInvariance ==
  ASSUME Calm
  PROVE  Spec => [](IInv /\ CalmInv /\ SettledInv)
<1>1. Init => SettledInv
  BY DEF Init, SettledInv, Unsettled, Frames
<1>2. IInv /\ CalmInv /\ SettledInv /\ [Next]_vars => SettledInv'
  BY SettledStep
<1> QED
  BY <1>1, <1>2, CalmInvariance, PTL DEF Spec

\* While nothing crashes, stalls or lies about an enqueue, no check is paid back twice.
THEOREM RefundsAreSingle == ASSUME Calm PROVE Spec => []RefundAtMostOnce
<1>1. SettledInv => RefundAtMostOnce
  BY DEF SettledInv, RefundAtMostOnce
<1> QED
  BY <1>1, SettledInvariance, PTL

\* Under the same assumption the lifecycle implements Settlement: a check that was bought is
\* served or paid back, not both, and once, whatever the provider and the database do.
THEOREM LifecycleSettles == ASSUME Calm PROVE Spec => KeepsSettlement
<1>1. Init => Promise!Init
  BY DEF Init, Promise!Init
<1>2. IInv /\ CalmInv /\ SettledInv /\ [Next]_vars =>
        [Promise!Next]_<<[c \in Checks |-> status[c] # "NONE"], delivered, refunds>>
  BY SettledStep DEF Keeps
<1> QED
  BY <1>1, <1>2, SettledInvariance, PTL
     DEF Spec, KeepsSettlement, Promise!Spec, Promise!vars

=============================================================================
