----------------------------- MODULE Batch_proofs -----------------------------
(***************************************************************************)
(* Theorems about Batch, for any finite set of children.  The first ones   *)
(* hold with any faults; the last two when no statement and no file fails  *)
(* inside onCheckCompleted (Calm), but for any crashes of the process and  *)
(* failures of Redis.                                                      *)
(*                                                                         *)
(* The argument: nothing changes a FAILED child, and in calm weather       *)
(* nothing changes a final one (SettledStays).  So a count is never more   *)
(* than the number of such children now, although the two counts were      *)
(* taken at different times; if they add up to all children, all children  *)
(* are final (NumbersAddUp).                                               *)
(***************************************************************************)
EXTENDS Batch, FiniteSetTheorems, TLAPS

Calm == Faults \cap {"db", "disk"} = {}

\* What the handlers rely on: only an unsettled child is worked on, and nothing happens
\* before the batch exists.
FlowInv ==
  /\ \A c \in Children : pc[c] = "work" => status[c] \notin Final
  /\ creator = "idle" =>
       /\ \A c \in Children : pc[c] = "idle" /\ counted[c] = {} /\ event[c] = "NONE"
       /\ ~completedAt /\ report = None /\ told = "NONE" /\ up

IInv == TypeOK /\ FlowInv

\* A count of FAILED children that found all of them is still right.
FailedInv ==
  /\ \A c \in Children : "FAILED" \in counted[c] /\ seen[c]["FAILED"] = TotalItems =>
       \A d \in Children : status[d] = "FAILED"
  /\ FailedMeansAllFailed
  /\ completions = IF completedAt THEN 1 ELSE 0

\* A handler that is about to tell the outcome has written the report.
ToldInv ==
  /\ ToldOutcomeHolds
  /\ \A c \in Children : event[c] = "FAILED" => \A d \in Children : status[d] = "FAILED"
  /\ \A c \in Children : pc[c] = "publish" /\ event[c] \in Final => report # None

\* In calm weather no count is too high, and what was reported is what is.
CalmInv ==
  /\ \A c \in Children : pc[c] # "fail"
  /\ \A c \in Children : \A s \in counted[c] : seen[c][s] <= NumberOf(s)
  /\ completedAt => \A c \in Children : status[c] \in Final
  /\ \A c \in Children : pc[c] \in {"reload", "read", "write"} => completedAt
  /\ \A c \in Children : pc[c] = "write" => snapshot = status
  /\ report # None => completedAt /\ report = status

-----------------------------------------------------------------------------
(* Counting.                                                               *)

\* A number of children is one of 0..TotalItems, and all of them only if all are counted.
LEMMA NumberOfBounds ==
  ASSUME NEW s
  PROVE  /\ NumberOf(s) \in 0..TotalItems
         /\ NumberOf(s) = TotalItems => \A c \in Children : status[c] = s
<1> DEFINE D == {d \in Children : status[d] = s}
<1>1. D \in SUBSET Children
  OBVIOUS
<1>2. /\ IsFiniteSet(D) /\ Cardinality(D) <= TotalItems
      /\ TotalItems = Cardinality(D) => Children = D
  BY <1>1, ChildrenAreFinite, FS_Subset DEF TotalItems
<1>3. Cardinality(D) \in Nat /\ TotalItems \in Nat
  BY <1>2, ChildrenAreFinite, FS_CardinalityType DEF TotalItems
<1>4. NumberOf(s) = Cardinality(D)
  BY DEF NumberOf
<1>5. NumberOf(s) \in 0..TotalItems
  BY <1>2, <1>3, <1>4
<1>6. ASSUME NumberOf(s) = TotalItems PROVE \A c \in Children : status[c] = s
  BY <1>2, <1>4, <1>6
<1> QED
  BY <1>5, <1>6

\* A number grows as long as no child leaves the status.
LEMMA NumberOfGrows ==
  ASSUME NEW s, \A c \in Children : status[c] = s => status'[c] = s
  PROVE  NumberOf(s) \in Nat /\ NumberOf(s)' \in Nat /\ NumberOf(s) <= NumberOf(s)'
<1> DEFINE D == {d \in Children : status[d] = s}
           E == {d \in Children : status'[d] = s}
<1>1. D \in SUBSET E /\ E \in SUBSET Children
  OBVIOUS
<1>2. IsFiniteSet(E)
  BY <1>1, ChildrenAreFinite, FS_Subset
<1>3. Cardinality(D) <= Cardinality(E) /\ IsFiniteSet(D)
  BY <1>1, <1>2, FS_Subset
<1>4. Cardinality(D) \in Nat /\ Cardinality(E) \in Nat
  BY <1>2, <1>3, FS_CardinalityType
<1> QED
  BY <1>3, <1>4 DEF NumberOf

\* Two numbers that add up to all children leave no child out.
LEMMA NumbersAddUp ==
  ASSUME NEW m \in Nat, NEW n \in Nat,
         m <= NumberOf("DONE"), n <= NumberOf("FAILED"), m + n = TotalItems
  PROVE  /\ \A c \in Children : status[c] \in Final
         /\ m = NumberOf("DONE") /\ n = NumberOf("FAILED")
<1> DEFINE D == {d \in Children : status[d] = "DONE"}
           F == {d \in Children : status[d] = "FAILED"}
<1>1. /\ D \in SUBSET Children /\ F \in SUBSET Children
      /\ D \cup F \in SUBSET Children /\ D \cap F = {}
  OBVIOUS
<1>2. IsFiniteSet(D) /\ IsFiniteSet(F) /\ IsFiniteSet(D \cup F)
  BY <1>1, ChildrenAreFinite, FS_Subset
<1>3. /\ Cardinality(D) \in Nat /\ Cardinality(F) \in Nat /\ Cardinality(D \cup F) \in Nat
      /\ TotalItems \in Nat
  BY <1>2, ChildrenAreFinite, FS_CardinalityType DEF TotalItems
<1>4. Cardinality(D \cup F) = Cardinality(D) + Cardinality(F)
  <2>1. Cardinality(D \cup F) = Cardinality(D) + Cardinality(F) - Cardinality(D \cap F)
    BY <1>2, FS_Union
  <2>2. Cardinality(D \cap F) = 0
    BY <1>1, FS_EmptySet
  <2> QED
    BY <1>3, <2>1, <2>2
<1>5. /\ Cardinality(D \cup F) <= TotalItems
      /\ TotalItems = Cardinality(D \cup F) => Children = D \cup F
  BY <1>1, ChildrenAreFinite, FS_Subset DEF TotalItems
<1>6. NumberOf("DONE") = Cardinality(D) /\ NumberOf("FAILED") = Cardinality(F)
  BY DEF NumberOf
<1>7. m = NumberOf("DONE") /\ n = NumberOf("FAILED") /\ TotalItems = Cardinality(D \cup F)
  <2> HIDE DEF D, F
  <2> QED
    BY <1>3, <1>4, <1>5, <1>6
<1>8. Children = D \cup F
  BY <1>5, <1>7
<1> QED
  BY <1>7, <1>8 DEF Final

-----------------------------------------------------------------------------
(* Types and flow.                                                         *)

\* Every step keeps the types.
LEMMA TypeStep == TypeOK /\ [Next]_vars => TypeOK'
<1> SUFFICES ASSUME TypeOK, [Next]_vars PROVE TypeOK'
  OBVIOUS
<1>n. TotalItems \in Nat
  BY ChildrenAreFinite, FS_CardinalityType DEF TotalItems
<1> USE <1>n, MaxFaultsIsNatural
    DEF rowVars, createVars, countVars, reportVars, eventVars, envVars, Goto, Places
<1>1. CASE Create \/ MarkQueued \/ MarkQueuedThrows \/ Answer
  BY <1>1 DEF TypeOK, Create, MarkQueued, MarkQueuedThrows, Answer, Fault, BatchStatus,
       ChildStatus
<1>2. ASSUME NEW c \in Children, Enqueue(c) \/ EnqueueThrows(c) PROVE TypeOK'
  <2>1. CASE Enqueue(c)
    BY <2>1 DEF TypeOK, Enqueue
  <2>2. CASE EnqueueThrows(c)
    BY <2>2 DEF TypeOK, EnqueueThrows, Fault
  <2> QED
    BY <1>2, <2>1, <2>2
<1>3. ASSUME NEW c \in Children, Take(c) PROVE TypeOK'
  BY <1>3 DEF TypeOK, Take
<1>4. ASSUME NEW c \in Children, Submitted(c) \/ FailDone(c) \/ FailDoneThrows(c) PROVE TypeOK'
  <2>1. CASE Submitted(c) \/ FailDone(c)
    BY <2>1 DEF TypeOK, Submitted, FailDone, ChildStatus, Final
  <2>2. CASE FailDoneThrows(c)
    BY <2>2 DEF TypeOK, FailDoneThrows, Fault, ChildStatus, Final
  <2> QED
    BY <1>4, <2>1, <2>2
<1>5. ASSUME NEW c \in Children, NEW s \in Final, Settle(c, s) \/ SettleThrows(c, s)
      PROVE  TypeOK'
  <2>1. CASE Settle(c, s)
    BY <2>1 DEF TypeOK, Settle, ChildStatus
  <2>2. CASE SettleThrows(c, s)
    BY <2>2 DEF TypeOK, SettleThrows, Throw, Fault, ChildStatus
  <2> QED
    BY <1>5, <2>1, <2>2
<1>6. ASSUME NEW c \in Children, FindBatch(c) PROVE TypeOK'
  <2>1. counted' \in [Children -> SUBSET Final]
    BY <1>6 DEF TypeOK, FindBatch
  <2> QED
    BY <1>6, <2>1 DEF TypeOK, FindBatch
<1>7. ASSUME NEW c \in Children, NEW s \in Final, Count(c, s) PROVE TypeOK'
  <2>1. NumberOf(s) \in 0..TotalItems
    BY NumberOfBounds
  <2>2. seen' \in [Children -> [Final -> 0..TotalItems]]
    BY <1>7, <2>1 DEF TypeOK, Count
  <2>3. counted' \in [Children -> SUBSET Final]
    BY <1>7 DEF TypeOK, Count
  <2> QED
    BY <1>7, <2>2, <2>3 DEF TypeOK, Count
<1>8. ASSUME NEW c \in Children,
             Progress(c) \/ Completed(c) \/ UNCHANGED rowVars
      PROVE  /\ batchStatus' \in BatchStatus
             /\ successfulItems' \in 0..TotalItems
             /\ failedItems' \in 0..TotalItems
             /\ completedAt' \in BOOLEAN
             /\ completions' \in Nat
  <2>1. seen[c]["DONE"] \in 0..TotalItems /\ seen[c]["FAILED"] \in 0..TotalItems
    BY DEF TypeOK, Final
  <2>2. Outcome(c) \in BatchStatus /\ "RUNNING" \in BatchStatus
    BY DEF Outcome, BatchStatus, Final
  <2>3. CASE Progress(c) \/ UNCHANGED rowVars
    BY <2>1, <2>2, <2>3 DEF TypeOK, Progress
  <2>4. CASE Completed(c)
    <3>1. completedAt' \in BOOLEAN
      BY <2>4, Zenon DEF Completed
    <3> QED
      BY <2>1, <2>2, <2>4, <3>1 DEF TypeOK, Completed
  <2> QED
    BY <1>8, <2>3, <2>4
<1>9. ASSUME NEW c \in Children, UpdateProgress(c) \/ Complete(c) PROVE TypeOK'
  <2>0. /\ counted' = [counted EXCEPT ![c] = {}]
        /\ seen' = [seen EXCEPT ![c] = [s \in Final |-> 0]]
    BY <1>9 DEF UpdateProgress, Complete, Forget
  <2>1. counted' \in [Children -> SUBSET Final] /\ seen' \in [Children -> [Final -> 0..TotalItems]]
    <3>1. [s \in Final |-> 0] \in [Final -> 0..TotalItems]
      OBVIOUS
    <3> QED
      BY <2>0, <3>1 DEF TypeOK
  <2>2. batchStatus' \in BatchStatus
    BY <1>8, <1>9 DEF UpdateProgress, Complete
  <2>3. CASE UpdateProgress(c)
    BY <1>8, <2>1, <2>2, <2>3 DEF TypeOK, UpdateProgress
  <2>4. CASE Complete(c)
    BY <1>8, <2>1, <2>4 DEF TypeOK, Complete
  <2> QED
    BY <1>9, <2>3, <2>4
<1>10. ASSUME NEW c \in Children, QueryThrows(c) PROVE TypeOK'
  <2>1. event' \in [Children -> BatchStatus]
    BY <1>10 DEF TypeOK, QueryThrows, BatchStatus
  <2>2. pc' \in [Children -> Places] /\ faults' \in 0..MaxFaults
    BY <1>10 DEF TypeOK, QueryThrows, Throw, Fault
  <2>3. Progress(c) \/ Completed(c) \/ UNCHANGED rowVars
    BY <1>10 DEF QueryThrows
  <2>4. UNCHANGED <<status, creator, toEnqueue, sync, counted, seen, snapshot, report, told, up>>
    BY <1>10 DEF QueryThrows
  <2> QED
    BY <1>8, <2>1, <2>2, <2>3, <2>4 DEF TypeOK
<1>11. ASSUME NEW c \in Children,
              Reload(c) \/ ReadChildren(c) \/ WriteReport(c) \/ Publish(c)
       PROVE  TypeOK'
  <2>1. CASE Reload(c)
    BY <2>1 DEF TypeOK, Reload
  <2>2. CASE ReadChildren(c) \/ WriteReport(c)
    BY <2>2 DEF TypeOK, ReadChildren, WriteReport
  <2>3. CASE Publish(c)
    BY <2>3 DEF TypeOK, Publish, BatchStatus
  <2> QED
    BY <1>11, <2>1, <2>2, <2>3
<1>12. CASE Crash
  <2>1. up' \in BOOLEAN
    BY <1>12, Zenon DEF Crash
  <2> QED
    BY <1>12, <2>1 DEF TypeOK, Crash, Fault, BatchStatus
<1>13. CASE Restart
  <2>1. up' \in BOOLEAN
    BY <1>13, Zenon DEF Restart
  <2> QED
    BY <1>13, <2>1 DEF TypeOK, Restart
<1>14. CASE UNCHANGED vars
  BY <1>14 DEF TypeOK, vars
<1> QED
  BY <1>1, <1>2, <1>3, <1>4, <1>5, <1>6, <1>7, <1>9, <1>10, <1>11, <1>12, <1>13, <1>14
     DEF Next, CreateStep, Handle, HandleFault, Rest

\* Every step keeps what the handlers rely on.
LEMMA FlowStep == IInv /\ [Next]_vars => FlowInv'
<1> SUFFICES ASSUME TypeOK, FlowInv, [Next]_vars PROVE FlowInv'
  BY DEF IInv
<1> USE DEF rowVars, createVars, countVars, reportVars, eventVars, envVars, Goto, FlowInv, TypeOK
<1>1. CASE Create \/ MarkQueued \/ MarkQueuedThrows \/ Answer
  BY <1>1 DEF Create, MarkQueued, MarkQueuedThrows, Answer
<1>2. ASSUME NEW c \in Children, Enqueue(c) \/ EnqueueThrows(c) PROVE FlowInv'
  BY <1>2 DEF Enqueue, EnqueueThrows
<1>3. ASSUME NEW c \in Children, Take(c) PROVE FlowInv'
  BY <1>3 DEF Take
<1>4. ASSUME NEW c \in Children, Submitted(c) \/ FailDone(c) \/ FailDoneThrows(c) PROVE FlowInv'
  BY <1>4 DEF Submitted, FailDone, FailDoneThrows
<1>5. ASSUME NEW c \in Children, NEW s \in Final, Settle(c, s) \/ SettleThrows(c, s)
      PROVE  FlowInv'
  BY <1>5 DEF Settle, SettleThrows, Throw
<1>6. ASSUME NEW c \in Children, FindBatch(c) PROVE FlowInv'
  BY <1>6 DEF FindBatch
<1>7. ASSUME NEW c \in Children, NEW s \in Final, Count(c, s) PROVE FlowInv'
  BY <1>7 DEF Count
<1>8. ASSUME NEW c \in Children, UpdateProgress(c) \/ Complete(c) PROVE FlowInv'
  BY <1>8 DEF UpdateProgress, Complete, HasCounts
<1>9. ASSUME NEW c \in Children, QueryThrows(c) PROVE FlowInv'
  BY <1>9 DEF QueryThrows, Throw
<1>10. ASSUME NEW c \in Children,
              Reload(c) \/ ReadChildren(c) \/ WriteReport(c) \/ Publish(c)
       PROVE  FlowInv'
  BY <1>10 DEF Reload, ReadChildren, WriteReport, Publish
<1>11. CASE Crash
  BY <1>11 DEF Crash
<1>12. CASE Restart
  BY <1>12 DEF Restart
<1>13. CASE UNCHANGED vars
  BY <1>13 DEF vars
<1> QED
  BY <1>1, <1>2, <1>3, <1>4, <1>5, <1>6, <1>7, <1>8, <1>9, <1>10, <1>11, <1>12, <1>13
     DEF Next, CreateStep, Handle, HandleFault, Rest

\* Types and flow hold in every state.
LEMMA Invariance == Spec => []IInv
<1>1. Init => IInv
  <2>1. TotalItems \in Nat
    BY ChildrenAreFinite, FS_CardinalityType DEF TotalItems
  <2>2. Init => TypeOK
    <3> SUFFICES ASSUME Init PROVE TypeOK
      OBVIOUS
    <3>1. /\ seen \in [Children -> [Final -> 0..TotalItems]]
          /\ counted \in [Children -> SUBSET Final]
          /\ status \in [Children -> ChildStatus] /\ snapshot \in [Children -> ChildStatus]
          /\ pc \in [Children -> Places] /\ sync \in [Children -> BOOLEAN]
            /\ event \in [Children -> BatchStatus]
      BY <2>1 DEF Init, Places, ChildStatus, BatchStatus
    <3>2. completedAt \in BOOLEAN /\ up \in BOOLEAN
      BY Zenon DEF Init
    <3> QED
      BY <2>1, <3>1, <3>2, MaxFaultsIsNatural DEF Init, TypeOK, BatchStatus
  <2>3. Init => FlowInv
    BY DEF Init, FlowInv
  <2> QED
    BY <2>2, <2>3 DEF IInv
<1>2. IInv /\ [Next]_vars => IInv'
  BY TypeStep, FlowStep DEF IInv
<1> QED
  BY <1>1, <1>2, PTL DEF Spec

\* Every variable keeps its type.
THEOREM TypeCorrect == Spec => []TypeOK
<1>1. IInv => TypeOK
  BY DEF IInv
<1> QED
  BY <1>1, Invariance, PTL

-----------------------------------------------------------------------------
(* What becomes of settled children and of the batch's row.                *)

Stays ==
  /\ \A c \in Children : status[c] = "FAILED" => status'[c] = "FAILED"
  /\ Calm /\ (\A c \in Children : pc[c] # "fail") =>
       \A c \in Children : status[c] \in Final => status'[c] = status[c]

\* Once the batch exists no step changes a FAILED child, and in calm weather none a DONE one.
LEMMA SettledStays == ASSUME IInv, [Next]_vars, creator # "idle" PROVE Stays
<1>1. ASSUME UNCHANGED status PROVE Stays
  BY <1>1 DEF Stays
<1>2. ASSUME NEW c \in Children, Submitted(c) \/ FailDone(c) \/ FailDoneThrows(c)
      PROVE  Stays
  BY <1>2 DEF IInv, TypeOK, FlowInv, Submitted, FailDone, FailDoneThrows, Final, Stays
<1>3. ASSUME NEW c \in Children, NEW s \in Final, Settle(c, s) \/ SettleThrows(c, s)
      PROVE  Stays
  BY <1>3 DEF IInv, TypeOK, FlowInv, Settle, SettleThrows, Final, Stays
<1>4. ASSUME NEW c \in Children,
             \/ Enqueue(c) \/ EnqueueThrows(c) \/ Take(c) \/ FindBatch(c)
             \/ UpdateProgress(c) \/ Complete(c) \/ QueryThrows(c)
             \/ Reload(c) \/ ReadChildren(c) \/ WriteReport(c) \/ Publish(c)
      PROVE  Stays
  <2>1. UNCHANGED status
    BY <1>4 DEF Enqueue, EnqueueThrows, Take, FindBatch, UpdateProgress, Complete,
         QueryThrows, Reload, ReadChildren, WriteReport, Publish
  <2> QED
    BY <1>1, <2>1
<1>8. ASSUME NEW c \in Children, NEW s \in Final, Count(c, s) PROVE Stays
  BY <1>1, <1>8 DEF Count
<1>5. CASE MarkQueued \/ MarkQueuedThrows \/ Answer \/ Crash \/ Restart \/ UNCHANGED vars
  BY <1>5, <1>1 DEF MarkQueued, MarkQueuedThrows, Answer, Crash, Restart, vars
<1>6. ~Create
  BY DEF Create
<1> QED
  BY <1>2, <1>3, <1>4, <1>5, <1>6, <1>8 DEF Next, CreateStep, Handle, HandleFault, Rest

Kept(c) ==
  \A s \in counted'[c] :
    \/ s \in counted[c] /\ seen'[c][s] = seen[c][s]
    \/ UNCHANGED status /\ seen'[c][s] = NumberOf(s)

\* A step keeps a count of a child or counts the table.
LEMMA CountStep ==
  ASSUME TypeOK, [Next]_vars, creator # "idle", NEW c \in Children
  PROVE  Kept(c)
<1> USE DEF rowVars, createVars, countVars, reportVars, eventVars, envVars
<1>1. ASSUME UNCHANGED <<counted, seen>> PROVE Kept(c)
  BY <1>1 DEF Kept
<1>2. ASSUME NEW d \in Children, FindBatch(d) \/ UpdateProgress(d) \/ Complete(d)
      PROVE  Kept(c)
  BY <1>2 DEF FindBatch, UpdateProgress, Complete, Forget, TypeOK, Kept
<1>3. ASSUME NEW d \in Children, NEW s \in Final, Count(d, s) PROVE Kept(c)
  BY <1>3 DEF Count, TypeOK, Kept
<1>4. ASSUME NEW d \in Children,
             \/ Enqueue(d) \/ EnqueueThrows(d) \/ Take(d) \/ QueryThrows(d)
             \/ Reload(d) \/ ReadChildren(d) \/ WriteReport(d) \/ Publish(d)
             \/ Submitted(d) \/ FailDone(d) \/ FailDoneThrows(d)
      PROVE  Kept(c)
  <2>1. UNCHANGED <<counted, seen>>
    BY <1>4 DEF Enqueue, EnqueueThrows, Take, QueryThrows, Reload, ReadChildren, WriteReport,
         Publish, Submitted, FailDone, FailDoneThrows
  <2> QED
    BY <1>1, <2>1
<1>8. ASSUME NEW d \in Children, NEW s \in Final, Settle(d, s) \/ SettleThrows(d, s)
      PROVE  Kept(c)
  BY <1>1, <1>8 DEF Settle, SettleThrows
<1>5. CASE MarkQueued \/ MarkQueuedThrows \/ Answer \/ Crash \/ Restart \/ UNCHANGED vars
  BY <1>5, <1>1 DEF MarkQueued, MarkQueuedThrows, Answer, Crash, Restart, vars
<1>6. ~Create
  BY DEF Create
<1> QED
  BY <1>2, <1>3, <1>4, <1>5, <1>6, <1>8 DEF Next, CreateStep, Handle, HandleFault, Rest

Row ==
  \/ UNCHANGED <<completedAt, completions>> /\ batchStatus' # "FAILED"
  \/ UNCHANGED <<completedAt, completions, batchStatus>>
  \/ UNCHANGED status /\ \E c \in Children : HasCounts(c) /\ IsComplete(c) /\ Completed(c)

\* A step leaves the outcome of the batch alone, or a child completes the batch.
LEMMA RowStep == ASSUME TypeOK, [Next]_vars PROVE Row
<1> USE DEF rowVars, createVars, countVars, reportVars, eventVars, envVars
<1>1. ASSUME UNCHANGED rowVars PROVE Row
  BY <1>1 DEF Row
<1>2. CASE Create \/ MarkQueued \/ MarkQueuedThrows
  BY <1>2 DEF Create, MarkQueued, MarkQueuedThrows, Row
<1>3. ASSUME NEW c \in Children, UpdateProgress(c) \/ Complete(c) \/ QueryThrows(c) PROVE Row
  BY <1>3 DEF UpdateProgress, Progress, Complete, QueryThrows, HasCounts, Row
<1>4. ASSUME NEW c \in Children,
             \/ Enqueue(c) \/ EnqueueThrows(c) \/ Take(c) \/ FindBatch(c)
             \/ Reload(c) \/ ReadChildren(c) \/ WriteReport(c) \/ Publish(c)
             \/ Submitted(c) \/ FailDone(c) \/ FailDoneThrows(c)
      PROVE  Row
  <2>1. UNCHANGED rowVars
    BY <1>4 DEF Enqueue, EnqueueThrows, Take, FindBatch, Reload, ReadChildren, WriteReport,
         Publish, Submitted, FailDone, FailDoneThrows
  <2> QED
    BY <1>1, <2>1
<1>7. ASSUME NEW c \in Children, NEW s \in Final,
             Settle(c, s) \/ SettleThrows(c, s) \/ Count(c, s)
      PROVE  Row
  BY <1>1, <1>7 DEF Settle, SettleThrows, Count
<1>5. CASE Answer \/ Crash \/ Restart \/ UNCHANGED vars
  BY <1>1, <1>5 DEF Answer, Crash, Restart, vars
<1> QED
  BY <1>2, <1>3, <1>4, <1>5, <1>7 DEF Next, CreateStep, Handle, HandleFault, Rest

\* Before the batch exists nothing can happen but its creation.
LEMMA IdleStep == ASSUME IInv, [Next]_vars, creator = "idle" PROVE Create \/ UNCHANGED vars
<1> USE DEF IInv, FlowInv
<1>1. CASE CreateStep \/ MarkQueuedThrows
  BY <1>1 DEF CreateStep, MarkQueued, MarkQueuedThrows, Answer, Enqueue
<1>2. ASSUME NEW c \in Children PROVE ~Take(c)
  BY DEF Take
<1>3. ASSUME NEW c \in Children PROVE ~Handle(c)
  BY DEF Handle, Submitted, FailDone, Settle, Count, FindBatch, UpdateProgress, Complete,
       HasCounts, Reload, ReadChildren, WriteReport, Publish
<1>4. ASSUME NEW c \in Children PROVE ~HandleFault(c)
  BY DEF HandleFault, EnqueueThrows, QueryThrows, FailDoneThrows, SettleThrows
<1>5. ~Crash /\ ~Restart /\ ~Rest
  BY DEF Crash, Restart, Rest
<1> QED
  BY <1>1, <1>2, <1>3, <1>4, <1>5 DEF Next

-----------------------------------------------------------------------------
(* The outcome of the batch, with any faults.                              *)

\* Every step keeps a count of FAILED children right that has found all of them.
LEMMA FailedStep == IInv /\ FailedInv /\ [Next]_vars => FailedInv'
<1> SUFFICES ASSUME IInv, FailedInv, [Next]_vars PROVE FailedInv'
  OBVIOUS
<1>1. CASE creator = "idle"
  <2>1. Create \/ UNCHANGED vars
    BY <1>1, IdleStep
  <2>2. \/ UNCHANGED <<counted, completedAt, completions>> /\ batchStatus' # "FAILED"
        \/ UNCHANGED vars
    BY <2>1 DEF Create, countVars
  <2>3. \A c \in Children : counted[c] = {}
    BY <1>1 DEF IInv, FlowInv
  <2>4. CASE UNCHANGED vars
    BY <2>4 DEF FailedInv, FailedMeansAllFailed, vars, rowVars, countVars
  <2> QED
    BY <2>2, <2>3, <2>4 DEF FailedInv, FailedMeansAllFailed
<1>2. CASE creator # "idle"
  <2>1. \A c \in Children : status[c] = "FAILED" => status'[c] = "FAILED"
    BY <1>2, SettledStays DEF Stays
  <2>2. ASSUME NEW c \in Children, "FAILED" \in counted'[c], seen'[c]["FAILED"] = TotalItems
        PROVE  \A d \in Children : status'[d] = "FAILED"
    <3>1. \/ "FAILED" \in counted[c] /\ seen'[c]["FAILED"] = seen[c]["FAILED"]
          \/ UNCHANGED status /\ seen'[c]["FAILED"] = NumberOf("FAILED")
      BY <1>2, <2>2, CountStep DEF Kept, IInv
    <3>2. CASE "FAILED" \in counted[c] /\ seen'[c]["FAILED"] = seen[c]["FAILED"]
      BY <2>1, <2>2, <3>2 DEF FailedInv
    <3>3. CASE UNCHANGED status /\ seen'[c]["FAILED"] = NumberOf("FAILED")
      <4>1. \A d \in Children : status[d] = "FAILED"
        BY <2>2, <3>3, NumberOfBounds
      <4> QED
        BY <3>3, <4>1
    <3> QED
      BY <3>1, <3>2, <3>3
  <2>3. FailedMeansAllFailed' /\ completions' = IF completedAt' THEN 1 ELSE 0
    <3>1. Row
      BY RowStep DEF IInv
    <3>2. CASE UNCHANGED <<completedAt, completions>> /\ batchStatus' # "FAILED"
      BY <3>2 DEF FailedInv, FailedMeansAllFailed
    <3>3. CASE UNCHANGED <<completedAt, completions, batchStatus>>
      BY <2>1, <3>3 DEF FailedInv, FailedMeansAllFailed
    <3>4. ASSUME UNCHANGED status,
                 NEW c \in Children, HasCounts(c), IsComplete(c), Completed(c)
          PROVE  FailedMeansAllFailed' /\ completions' = IF completedAt' THEN 1 ELSE 0
      <4>1. completedAt' /\ completions' = 1
        BY <3>4 DEF Completed, FailedInv
      <4>2. ASSUME batchStatus' = "FAILED" PROVE \A d \in Children : status[d] = "FAILED"
        <5>1. seen[c]["FAILED"] = TotalItems
          BY <3>4, <4>2 DEF Completed, Outcome
        <5> QED
          BY <3>4, <5>1 DEF FailedInv, HasCounts, Final
      <4> QED
        BY <3>4, <4>1, <4>2 DEF FailedMeansAllFailed
    <3> QED
      BY <3>1, <3>2, <3>3, <3>4 DEF Row
  <2> QED
    BY <2>2, <2>3 DEF FailedInv
<1> QED
  BY <1>1, <1>2

\* Such counts are right in every state.
LEMMA FailedInvariance == Spec => []FailedInv
<1>1. Init => FailedInv
  BY DEF Init, FailedInv, FailedMeansAllFailed
<1> QED
  BY <1>1, Invariance, FailedStep, PTL DEF Spec

\* However many children find the batch complete, at once or again, one completes it.
THEOREM BatchIsCompletedOnce == Spec => []CompletedOnce
<1>1. FailedInv => CompletedOnce
  BY DEF FailedInv, CompletedOnce
<1> QED
  BY <1>1, FailedInvariance, PTL

\* A FAILED batch has only FAILED children, whatever goes wrong and whoever counted late.
THEOREM FailedBatchHasFailed == Spec => []FailedMeansAllFailed
<1>1. FailedInv => FailedMeansAllFailed
  BY DEF FailedInv
<1> QED
  BY <1>1, FailedInvariance, PTL

-----------------------------------------------------------------------------
(* The events, with any faults.                                            *)

Tells ==
  /\ report # None => report' # None
  /\ told' \in {told, "QUEUED"} \/ \E d \in Children : pc[d] = "publish" /\ told' = event[d]
  /\ \A c \in Children :
       /\ \/ event'[c] \in {event[c], "NONE", "RUNNING"}
          \/ event'[c] = batchStatus /\ UNCHANGED status
       /\ pc'[c] = "publish" => \/ pc[c] = "publish" /\ event'[c] = event[c]
                               \/ event'[c] = "RUNNING"
                               \/ report' # None

\* A step leaves an event as it was or reads the row for it, and tells what a handler
\* holds or that the batch is QUEUED.
LEMMA EventStep == ASSUME IInv, [Next]_vars, creator # "idle" PROVE Tells
<1> USE DEF IInv, TypeOK, Goto
<1>1. ASSUME UNCHANGED <<report, told, event>>,
             \A c \in Children : pc'[c] \in {pc[c]} \cup (Places \ {"publish"})
      PROVE  Tells
  BY <1>1 DEF Tells
<1>2. CASE MarkQueued \/ MarkQueuedThrows \/ Restart \/ UNCHANGED vars
  <2>1. UNCHANGED <<report, told, event>>
    BY <1>2 DEF MarkQueued, MarkQueuedThrows, Restart, reportVars, eventVars, vars
  <2>2. \A c \in Children : pc'[c] \in {pc[c]} \cup (Places \ {"publish"})
    BY <1>2 DEF MarkQueued, MarkQueuedThrows, Restart, vars, Places
  <2> QED
    BY <1>1, <2>1, <2>2
<1>3. CASE Answer
  BY <1>3 DEF Answer, reportVars, Tells
<1>4. CASE Crash
  BY <1>4 DEF Crash, reportVars, Tells
<1>5. ASSUME NEW d \in Children,
             \/ Enqueue(d) \/ EnqueueThrows(d) \/ Take(d) \/ FindBatch(d) \/ Complete(d)
             \/ Submitted(d) \/ FailDone(d) \/ FailDoneThrows(d)
      PROVE  Tells
  <2>1. UNCHANGED <<report, told, event>>
    BY <1>5 DEF Enqueue, EnqueueThrows, Take, FindBatch, Complete, Submitted, FailDone,
         FailDoneThrows, reportVars, eventVars
  <2>2. \A c \in Children : pc'[c] \in {pc[c]} \cup (Places \ {"publish"})
    BY <1>5 DEF Enqueue, EnqueueThrows, Take, FindBatch, Complete, Submitted, FailDone,
         FailDoneThrows, Places
  <2> QED
    BY <1>1, <2>1, <2>2
<1>6. ASSUME NEW d \in Children, NEW s \in Final,
             Settle(d, s) \/ SettleThrows(d, s) \/ Count(d, s)
      PROVE  Tells
  <2>1. UNCHANGED <<report, told, event>>
    BY <1>6 DEF Settle, SettleThrows, Count, reportVars, eventVars
  <2>2. \A c \in Children : pc'[c] \in {pc[c]} \cup (Places \ {"publish"})
    BY <1>6 DEF Settle, SettleThrows, Count, Throw, Places
  <2> QED
    BY <1>1, <2>1, <2>2
<1>7. ASSUME NEW d \in Children, QueryThrows(d) PROVE Tells
  <2>1. UNCHANGED <<report, told>> /\ event' = [event EXCEPT ![d] = "NONE"]
    BY <1>7 DEF QueryThrows, reportVars
  <2>2. pc[d] # "publish" /\ pc' = [pc EXCEPT ![d] = pc'[d]] /\ pc'[d] # "publish"
    BY <1>7 DEF QueryThrows, HasCounts, Throw
  <2> QED
    BY <2>1, <2>2 DEF Tells
<1>8. ASSUME NEW d \in Children, UpdateProgress(d) PROVE Tells
  <2>1. UNCHANGED <<report, told>> /\ event' = [event EXCEPT ![d] = "RUNNING"]
    BY <1>8 DEF UpdateProgress, Progress, reportVars
  <2>2. pc' = [pc EXCEPT ![d] = "publish"]
    BY <1>8 DEF UpdateProgress
  <2> QED
    BY <2>1, <2>2 DEF Tells
<1>9. ASSUME NEW d \in Children, Reload(d) \/ ReadChildren(d) PROVE Tells
  BY <1>9 DEF Reload, ReadChildren, reportVars, eventVars, Tells
<1>10. ASSUME NEW d \in Children, WriteReport(d) PROVE Tells
  <2>1. report' # None
    BY <1>10, NoneIsNoReport DEF WriteReport, ChildStatus, Final
  <2> QED
    BY <1>10, <2>1 DEF WriteReport, eventVars, Tells
<1>11. ASSUME NEW d \in Children, Publish(d) PROVE Tells
  BY <1>11 DEF Publish, reportVars, Tells
<1>12. ~Create
  BY DEF Create
<1> QED
  BY <1>2, <1>3, <1>4, <1>5, <1>6, <1>7, <1>8, <1>9, <1>10, <1>11, <1>12
     DEF Next, CreateStep, Handle, HandleFault, Rest

\* Every step keeps ToldInv: a handler with a final status to tell has written the report.
LEMMA ToldStep == IInv /\ FailedInv /\ ToldInv /\ [Next]_vars => ToldInv'
<1> SUFFICES ASSUME IInv, FailedInv, ToldInv, [Next]_vars PROVE ToldInv'
  OBVIOUS
<1>1. CASE creator = "idle"
  <2>1. UNCHANGED <<report, told, event, pc>>
    BY <1>1, IdleStep DEF Create, reportVars, eventVars, vars
  <2>2. told = "NONE" /\ \A c \in Children : pc[c] = "idle" /\ event[c] = "NONE"
    BY <1>1 DEF IInv, FlowInv
  <2> QED
    BY <2>1, <2>2 DEF ToldInv, ToldOutcomeHolds, Final
<1>2. CASE creator # "idle"
  <2>1. Tells
    BY <1>2, EventStep
  <2>2. \A c \in Children : status[c] = "FAILED" => status'[c] = "FAILED"
    BY <1>2, SettledStays DEF Stays
  <2>3. ToldOutcomeHolds'
    BY <2>1, <2>2 DEF Tells, ToldInv, ToldOutcomeHolds, Final
  <2>4. ASSUME NEW c \in Children, event'[c] = "FAILED"
        PROVE  \A d \in Children : status'[d] = "FAILED"
    <3>1. event[c] = "FAILED" \/ batchStatus = "FAILED"
      BY <2>1, <2>4 DEF Tells
    <3> QED
      BY <2>2, <3>1 DEF ToldInv, FailedInv, FailedMeansAllFailed
  <2>5. ASSUME NEW c \in Children, pc'[c] = "publish", event'[c] \in Final
        PROVE  report' # None
    BY <2>1, <2>5 DEF Tells, ToldInv, Final
  <2> QED
    BY <2>3, <2>4, <2>5 DEF ToldInv
<1> QED
  BY <1>1, <1>2

\* A client that is told of the outcome finds the report, and FAILED children if it is told
\* FAILED, whatever goes wrong, in whatever order the events come.
THEOREM OutcomesAreTold == Spec => []ToldOutcomeHolds
<1>1. Init => ToldInv
  BY DEF Init, ToldInv, ToldOutcomeHolds, Final
<1>2. ToldInv => ToldOutcomeHolds
  BY DEF ToldInv
<1> QED
  BY <1>1, <1>2, ToldStep, Invariance, FailedInvariance, PTL DEF Spec

-----------------------------------------------------------------------------
(* The completion and the report in calm weather.                          *)

Moves(c) ==
  /\ pc'[c] # "fail"
  /\ pc'[c] \in {"reload", "read"} => pc[c] \in {"reload", "read"} \/ completedAt'
  /\ pc'[c] = "write" =>
       \/ pc[c] = "write"
       \/ pc[c] = "read" /\ snapshot' = status /\ UNCHANGED status
  /\ \/ UNCHANGED snapshot
     \/ UNCHANGED status /\ snapshot' = status
  /\ \/ UNCHANGED report
     \/ UNCHANGED status /\ \E d \in Children : pc[d] = "write" /\ report' = snapshot

\* How the reports come about when no handler fails.
LEMMA CalmMoves ==
  ASSUME Calm, IInv, CalmInv, [Next]_vars, NEW c \in Children
  PROVE  Moves(c)
<1>n. pc[c] # "fail"
  BY DEF CalmInv
<1>q. ASSUME UNCHANGED reportVars,
             pc'[c] \in {pc[c], "idle", "waiting", "work", "find", "count", "publish"}
      PROVE  Moves(c)
  <2>1. snapshot' = snapshot /\ report' = report
    BY <1>q DEF reportVars
  <2> QED
    BY <1>n, <1>q, <2>1 DEF Moves
<1> USE DEF IInv, TypeOK, Goto
<1>1. CASE Create \/ MarkQueued \/ MarkQueuedThrows \/ Answer \/ UNCHANGED vars
  <2>1. UNCHANGED reportVars /\ UNCHANGED pc
    BY <1>1 DEF Create, MarkQueued, MarkQueuedThrows, Answer, vars
  <2> QED
    BY <2>1, <1>q
<1>2. ASSUME NEW d \in Children, Enqueue(d) \/ EnqueueThrows(d) \/ Take(d) PROVE Moves(c)
  <2>1. UNCHANGED reportVars /\ pc'[c] \in {pc[c], "idle", "waiting", "work"}
    BY <1>2 DEF Enqueue, EnqueueThrows, Take
  <2> QED
    BY <2>1, <1>q
<1>3. ASSUME NEW d \in Children, Submitted(d) \/ FindBatch(d) PROVE Moves(c)
  <2>1. UNCHANGED reportVars /\ pc'[c] \in {pc[c], "idle", "waiting", "count"}
    BY <1>3 DEF Submitted, FindBatch
  <2> QED
    BY <2>1, <1>q
<1>4. ASSUME NEW d \in Children, NEW s \in Final, Settle(d, s) \/ Count(d, s) PROVE Moves(c)
  <2>1. UNCHANGED reportVars /\ pc'[c] \in {pc[c], "find"}
    BY <1>4 DEF Settle, Count
  <2> QED
    BY <2>1, <1>q
<1>5. ASSUME NEW d \in Children, UpdateProgress(d) \/ Complete(d) PROVE Moves(c)
  BY <1>5, <1>n DEF UpdateProgress, Complete, Completed, reportVars, Moves
<1>6. ASSUME NEW d \in Children,
             Reload(d) \/ ReadChildren(d) \/ WriteReport(d) \/ Publish(d)
      PROVE  Moves(c)
  BY <1>6, <1>n DEF Reload, ReadChildren, WriteReport, Publish, rowVars, reportVars, Moves
<1>7. CASE Crash \/ Restart
  <2>1. UNCHANGED reportVars /\ pc'[c] \in {pc[c], "idle", "waiting"}
    BY <1>7 DEF Crash, Restart
  <2> QED
    BY <2>1, <1>q
<1>8. ASSUME NEW d \in Children
      PROVE  /\ ~QueryThrows(d) /\ ~FailDoneThrows(d) /\ ~FailDone(d)
             /\ \A s \in Final : ~SettleThrows(d, s)
  BY DEF Calm, CalmInv, QueryThrows, FailDoneThrows, FailDone, SettleThrows, Fault
<1> QED
  BY <1>1, <1>2, <1>3, <1>4, <1>5, <1>6, <1>7, <1>8
     DEF Next, CreateStep, Handle, HandleFault, Rest

\* A child that completes the batch counted all of it.
LEMMA CalmCompletion ==
  ASSUME TypeOK, CalmInv, NEW c \in Children, HasCounts(c), IsComplete(c)
  PROVE  /\ \A d \in Children : status[d] \in Final
         /\ seen[c]["DONE"] = NumberOf("DONE") /\ seen[c]["FAILED"] = NumberOf("FAILED")
<1> DEFINE m == seen[c]["DONE"]
           n == seen[c]["FAILED"]
<1>1. m \in Nat /\ n \in Nat
  <2>1. TotalItems \in Nat
    BY ChildrenAreFinite, FS_CardinalityType DEF TotalItems
  <2> QED
    BY <2>1 DEF TypeOK, Final
<1>2. m <= NumberOf("DONE") /\ n <= NumberOf("FAILED")
  BY DEF CalmInv, HasCounts, Final
<1>3. m + n = TotalItems
  BY DEF IsComplete
<1> HIDE DEF m, n
<1>4. /\ \A d \in Children : status[d] \in Final
      /\ m = NumberOf("DONE") /\ n = NumberOf("FAILED")
  BY <1>1, <1>2, <1>3, NumbersAddUp
<1> QED
  BY <1>4 DEF m, n

\* While no statement and no file fails, counts are never too high and completed is final.
LEMMA CalmStep == ASSUME Calm PROVE IInv /\ CalmInv /\ [Next]_vars => CalmInv'
<1> SUFFICES ASSUME IInv, CalmInv, [Next]_vars PROVE CalmInv'
  OBVIOUS
<1>1. CASE creator = "idle"
  <2>1. Create \/ UNCHANGED vars
    BY <1>1, IdleStep
  <2>2. CASE Create
    <3>1. UNCHANGED <<counted, completedAt, pc, report>>
      BY <2>2 DEF Create, countVars, reportVars
    <3>2. (\A c \in Children : pc[c] = "idle" /\ counted[c] = {}) /\ ~completedAt /\ report = None
      BY <1>1 DEF IInv, FlowInv
    <3> QED
      BY <3>1, <3>2 DEF CalmInv
  <2>3. CASE UNCHANGED vars
    <3>1. UNCHANGED <<status, pc, counted, seen, completedAt, snapshot, report>>
      BY <2>3 DEF vars, rowVars, countVars, reportVars
    <3>2. \A s : NumberOf(s)' = NumberOf(s)
      BY <3>1 DEF NumberOf
    <3> QED
      BY <3>1, <3>2 DEF CalmInv
  <2> QED
    BY <2>1, <2>2, <2>3
<1>2. CASE creator # "idle"
  <2>1. \A c \in Children : status[c] \in Final => status'[c] = status[c]
    BY <1>2, SettledStays DEF Stays, CalmInv
  <2>2. \A c \in Children : Moves(c)
    BY CalmMoves
  <2>3. TypeOK /\ TypeOK'
    BY TypeStep DEF IInv
  <2>4. completedAt => completedAt' /\ UNCHANGED status
    <3>1. completedAt => completedAt'
      BY RowStep DEF Row, IInv, Completed
    <3>2. completedAt => \A c \in Children : status'[c] = status[c]
      BY <2>1 DEF CalmInv
    <3> QED
      BY <2>3, <3>1, <3>2 DEF TypeOK
  <2>5. ASSUME NEW c \in Children, NEW s \in counted'[c] PROVE seen'[c][s] <= NumberOf(s)'
    <3>1. \/ s \in counted[c] /\ seen'[c][s] = seen[c][s]
          \/ UNCHANGED status /\ seen'[c][s] = NumberOf(s)
      BY <1>2, <2>3, CountStep DEF Kept
    <3>2. s \in Final /\ seen[c][s] \in Nat
      <4>1. TotalItems \in Nat
        BY ChildrenAreFinite, FS_CardinalityType DEF TotalItems
      <4> QED
        BY <2>3, <2>5, <4>1 DEF TypeOK
    <3>3. NumberOf(s) \in Nat /\ NumberOf(s)' \in Nat /\ NumberOf(s) <= NumberOf(s)'
      BY <2>1, <3>2, NumberOfGrows
    <3>5. CASE s \in counted[c] /\ seen'[c][s] = seen[c][s]
      <4>1. seen[c][s] <= NumberOf(s)
        BY <3>5 DEF CalmInv
      <4> QED
        BY <3>2, <3>3, <3>5, <4>1
    <3>6. CASE UNCHANGED status /\ seen'[c][s] = NumberOf(s)
      BY <3>3, <3>6
    <3> QED
      BY <3>1, <3>5, <3>6
  <2>6. completedAt' => \A c \in Children : status'[c] \in Final
    <3>1. CASE UNCHANGED completedAt
      BY <2>1, <3>1 DEF CalmInv
    <3>2. ASSUME UNCHANGED status, NEW c \in Children, HasCounts(c), IsComplete(c)
          PROVE  \A d \in Children : status'[d] \in Final
      BY <2>3, <3>2, CalmCompletion
    <3> QED
      BY <2>3, <3>1, <3>2, RowStep DEF Row
  <2>7. ASSUME NEW c \in Children
        PROVE  /\ pc'[c] # "fail"
               /\ pc'[c] \in {"reload", "read", "write"} => completedAt'
               /\ pc'[c] = "write" => snapshot' = status'
    BY <2>2, <2>4 DEF Moves, CalmInv
  <2>8. report' # None => completedAt' /\ report' = status'
    <3>1. PICK c \in Children : TRUE
      BY ChildrenAreFinite
    <3>2. CASE UNCHANGED report
      BY <2>4, <3>2 DEF CalmInv
    <3>3. ASSUME UNCHANGED status, NEW d \in Children, pc[d] = "write", report' = snapshot
          PROVE  completedAt' /\ report' = status'
      BY <2>4, <3>3 DEF CalmInv
    <3> QED
      BY <2>2, <3>1, <3>2, <3>3 DEF Moves
  <2> QED
    BY <2>5, <2>6, <2>7, <2>8 DEF CalmInv
<1> QED
  BY <1>1, <1>2

\* So it is in every state.
LEMMA CalmInvariance == ASSUME Calm PROVE Spec => [](IInv /\ CalmInv)
<1>1. Init => CalmInv
  BY DEF Init, CalmInv
<1>2. IInv /\ CalmInv /\ [Next]_vars => CalmInv'
  BY CalmStep
<1> QED
  BY <1>1, <1>2, Invariance, PTL DEF Spec

\* When no statement and no file fails, the Excel file shows the final status of every
\* child, and no child changes afterwards.
THEOREM ReportIsComplete == ASSUME Calm PROVE Spec => []ReportCoversBatch
<1>1. CalmInv => ReportCoversBatch
  BY DEF CalmInv, ReportCoversBatch
<1> QED
  BY <1>1, CalmInvariance, PTL

\* When no statement and no file fails, a batch is completed when all its children are
\* final and with their true numbers.
THEOREM CompletionIsRight == ASSUME Calm PROVE Spec => CompletionCountsAll
<1> DEFINE Right ==
      /\ \A c \in Children : status[c] \in Final
      /\ successfulItems' = NumberOf("DONE")
      /\ failedItems' = NumberOf("FAILED")
<1>1. IInv /\ CalmInv /\ [Next]_vars => [~completedAt /\ completedAt' => Right]_vars
  <2> SUFFICES ASSUME IInv, CalmInv, [Next]_vars, ~completedAt, completedAt' PROVE Right
    OBVIOUS
  <2>1. PICK c \in Children : HasCounts(c) /\ IsComplete(c) /\ Completed(c)
    BY RowStep DEF Row, IInv
  <2> QED
    BY <2>1, CalmCompletion DEF Completed, IInv
<1> QED
  BY <1>1, CalmInvariance, PTL DEF Spec, CompletionCountsAll

=============================================================================
