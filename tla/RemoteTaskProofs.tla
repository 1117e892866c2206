-------------------------- MODULE RemoteTaskProofs --------------------------
(***************************************************************************)
(* The safety of the remote task for any sources, any number of splits,    *)
(* restarts, lost and late updates and callbacks that overtake each other. *)
(*                                                                         *)
(* The argument: every update carries all that is pending, and a split is  *)
(* dropped from the pending ones only by an answer of the one instance     *)
(* that the coordinator knows.  So whatever a later update leaves out has  *)
(* been started there.                                                     *)
(***************************************************************************)
EXTENDS RemoteTask, SumTheorems

-----------------------------------------------------------------------------
(* The inductive invariant. *)

\* The instance that the coordinator knows, 0 before the first answer.
known == taskStatus.instance
ended == isDone(taskStatus.state)

\* The instance that the coordinator knows has started split n.
Started(n) == known # 0 /\ ran[known][n] = 1

\* What updates carry: those whose callbacks have not returned, and those given up.
Loads == { c.sources : c \in calls } \cup { r.sources : r \in late }

SourceType == [source : Sources, splits : SUBSET SplitIds, noMoreSplits : BOOLEAN]

StatusType == [instance : Nat, state : {"PLANNED", "RUNNING"} \cup TERMINAL_TASK_STATES,
               needsPlan : BOOLEAN, local : BOOLEAN]

TaskType == [started : BOOLEAN, maxAcknowledgedSplit : Int, noMoreSplits : SUBSET Sources,
             state : {"RUNNING"} \cup TERMINAL_TASK_STATES]

CallShape(c) == DOMAIN c = {"number", "phase", "fragment", "sources", "value"} /\ c.value \in StatusType

TypeInv ==
    /\ scenario \in Scenarios
    /\ instance \in Instances
    /\ task \in TaskType /\ task.maxAcknowledgedSplit \in -1 .. MaxSplits - 1
    /\ ran \in [Instances -> [SplitIds -> {0, 1}]]
    /\ nextSplitId \in 0 .. MaxSplits
    /\ pendingSplits \in [Sources -> SUBSET SplitIds]
    /\ noMoreSplits \in [Sources -> {"absent", "pending", "sent"}]
    /\ taskStatus \in StatusType /\ known \in 0 .. instance

\* Which splits an instance has started: those up to the highest one it was given,
\* but for those that the instance known to the coordinator has started.
RanInv ==
    /\ \A i \in Instances, n \in SplitIds : i > instance => ran[i][n] = 0
    /\ \A n \in SplitIds : ran[instance][n] = 1 => n <= task.maxAcknowledgedSplit
    /\ \A n \in SplitIds : n <= task.maxAcknowledgedSplit => ran[instance][n] = 1 \/ Started(n)

\* Which splits are pending: as long as the task has not ended, those that have not
\* been started.
PendingInv ==
    /\ \A s \in Sources : \A n \in pendingSplits[s] : n < nextSplitId
    /\ \A s, t \in Sources : s # t => pendingSplits[s] \cap pendingSplits[t] = {}
    /\ \A s \in task.noMoreSplits : /\ noMoreSplits[s] # "absent"
                                    /\ \A n \in pendingSplits[s] : n <= task.maxAcknowledgedSplit
    /\ ~ended => \A n \in SplitIds : n < nextSplitId =>
                    Started(n) \/ \E s \in Sources : n \in pendingSplits[s]

\* An update carries all that was pending when it was made.
LoadInv(S) ==
    \A x \in S :
      /\ x \in SourceType
      /\ \A n \in x.splits : n < nextSplitId
      /\ x.noMoreSplits => noMoreSplits[x.source] # "absent" /\ pendingSplits[x.source] \subseteq x.splits
      /\ ~ended => \A n \in x.splits : n \in pendingSplits[x.source] \/ Started(n)
      /\ x.source \in task.noMoreSplits => \A n \in x.splits : n <= task.maxAcknowledgedSplit \/ Started(n)
      /\ \A m \in x.splits, n \in SplitIds : n < m => Started(n) \/ \E y \in S : n \in y.splits

\* An update that completes a source leaves out of it only splits that have been started.
Agree(S, T) ==
    \A x \in S, y \in T : x.source = y.source /\ y.noMoreSplits =>
        \A n \in x.splits : n \in y.splits \/ Started(n)

LoadsInv == (\A S \in Loads : LoadInv(S)) /\ (\A S, T \in Loads : Agree(S, T))

CoreInv == TypeInv /\ RanInv /\ PendingInv /\ LoadsInv

\* All sources are complete and instance i has started every split, or is not the one
\* that the coordinator knows.
AllTold == \A s \in Sources : noMoreSplits[s] # "absent"
Complete(i) ==
    AllTold /\ \A n \in SplitIds : n < nextSplitId => ran[i][n] = 1 \/ (known # 0 /\ known # i)

\* An answer of the worker.
StatusInv(v) ==
    /\ v \in StatusType /\ v.instance \in 1 .. instance /\ ~v.local
    /\ ~ended /\ v.state = "FINISHED" => Complete(v.instance)

\* An answer to an update: the task has what the update carried, unless it is done.
AnswerInv(v, S) ==
    /\ StatusInv(v)
    /\ ~isDone(v.state) => \A x \in S : \A n \in x.splits : ran[v.instance][n] = 1 \/ Started(n)

CallInv(c) ==
    /\ CallShape(c)
    /\ c.phase \in {"answered", "process"} => AnswerInv(c.value, c.sources)

FinishedInv ==
    taskStatus.state = "FINISHED" =>
        known # 0 /\ \A n \in SplitIds : n < nextSplitId => ran[known][n] = 1

TaskInv == ~ended /\ task.state = "FINISHED" => Complete(instance)

CallsInv == \A c \in calls : CallInv(c)

FetchInv == statusFetch.phase = "answered" => StatusInv(statusFetch.value)

CleanupInv ==
    /\ DOMAIN cleanup = {"phase", "state", "value"}
    /\ cleanup.phase # "none" => cleanup.state \in {"ABORTED", "CANCELED"}
    /\ cleanup.phase = "answered" => StatusInv(cleanup.value)

AnswersInv == TaskInv /\ CallsInv /\ FetchInv /\ CleanupInv /\ FinishedInv

\* What is pending for s will be sent, or was sent and is not answered.
Awaited(s) ==
    \/ needsUpdate /\ (scheduled \/ calls # {})
    \/ \E c \in calls : /\ c.phase # "send"
                        /\ \E x \in c.sources : /\ x.source = s
                                                /\ pendingSplits[s] \subseteq x.splits
                                                /\ x.noMoreSplits \/ noMoreSplits[s] = "absent"

UnderWayInv ==
    /\ pendingSourceSplitCount = Cardinality(UNION { pendingSplits[s] : s \in Sources })
    /\ cleanUpDue \in BOOLEAN /\ (cleanUpDue => ended)
    /\ ended /\ ~cleanUpDue => \A s \in Sources : pendingSplits[s] = {}
    /\ ~ended => \A s \in Sources : pendingSplits[s] # {} \/ noMoreSplits[s] = "pending" => Awaited(s)

RemoteInv == CoreInv /\ AnswersInv /\ UnderWayInv

-----------------------------------------------------------------------------
(* Facts about the parts of the state. *)

LEMMA ZeroOrOne == \A x \in {0, 1} : x <= 1
OBVIOUS

LEMMA NotAtMost == \A m, n \in Int : n > m => ~(n <= m)
OBVIOUS

LEMMA SplitIdsAreIntegers == SplitIds \subseteq Int
BY BoundsAssumption DEF SplitIds

LEMMA PostedSources ==
    ASSUME NEW c PROVE posted(c).sources = c.sources
BY DEF posted

LEMMA CarriedIsLoad ==
    ASSUME NEW request \in Carried PROVE request.sources \in Loads
<1>1. CASE request \in late
  BY <1>1, Zenon DEF Loads
<1>2. CASE \E c \in calls : request = posted(c)
  <2>1. PICK c \in calls : request = posted(c)
    BY <1>2, Zenon
  <2>2. request.sources = c.sources
    BY <2>1, PostedSources, Zenon
  <2> QED
    BY <2>2, Zenon DEF Loads
<1> QED
  BY <1>1, <1>2, Zenon DEF Carried

LEMMA ScenarioFacts ==
    ASSUME TypeInv
    PROVE  /\ scenario.splits \in 1 .. MaxSplits
           /\ MaxSplits \in Nat /\ MaxRestarts \in Nat
BY BoundsAssumption, ScenariosAssumption DEF TypeInv

\* What holds at the start.
LEMMA InitInv ==
    ASSUME Init PROVE RemoteInv
<1>1. /\ MaxSplits \in Nat \ {0} /\ MaxRestarts \in Nat /\ scenario \in Scenarios
      /\ instance = 1 /\ task = createSqlTask /\ ran = [i \in Instances |-> [n \in SplitIds |-> 0]]
      /\ nextSplitId = 0 /\ pendingSplits = [s \in Sources |-> {}] /\ pendingSourceSplitCount = 0
      /\ noMoreSplits = [s \in Sources |-> "absent"] /\ calls = {} /\ late = {}
      /\ taskStatus = initialTaskStatus /\ cleanUpDue = FALSE
      /\ statusFetch = fetchIn("idle")
      /\ cleanup = [phase |-> "none", state |-> "", value |-> initialTaskStatus]
  BY BoundsAssumption, Zenon DEF Init, WorkerInit
<1> DEFINE first == task.maxAcknowledgedSplit
<1>0. MaxSplits \in Nat /\ MaxRestarts \in Nat /\ instance = 1 /\ nextSplitId = 0
  BY <1>1, Zenon
<1>2. known = 0 /\ ~ended /\ taskStatus \in StatusType
  BY <1>1, Zenon DEF known, ended, initialTaskStatus, isDone, TERMINAL_TASK_STATES, StatusType
<1>3. /\ task = [started |-> FALSE, maxAcknowledgedSplit |-> first, noMoreSplits |-> {}, state |-> "RUNNING"]
      /\ task.started = FALSE /\ task.noMoreSplits = {} /\ task.state = "RUNNING"
      /\ first = -1
  BY <1>1, Zenon DEF createSqlTask
<1> HIDE DEF first
<1>4. ran \in [Instances -> [SplitIds -> {0, 1}]] /\ \A i \in Instances, n \in SplitIds : ran[i][n] = 0
  BY <1>1, Zenon
<1>5. TypeInv
  <2>1. task \in TaskType
    <3>1. first \in Int /\ {} \in SUBSET Sources
      BY <1>3
    <3> QED
      BY <1>3, <3>1, Zenon DEF TaskType
  <2>2. first \in -1 .. MaxSplits - 1
    BY <1>0, <1>3
  <2>3. instance \in Instances /\ nextSplitId \in 0 .. MaxSplits /\ known \in 0 .. instance
    BY <1>0, <1>2 DEF Instances
  <2>4. /\ pendingSplits \in [Sources -> SUBSET SplitIds]
        /\ noMoreSplits \in [Sources -> {"absent", "pending", "sent"}]
    BY <1>1, Zenon
  <2> QED
    BY <1>1, <1>2, <1>4, <2>1, <2>2, <2>3, <2>4, Zenon DEF TypeInv, first
<1>6. RanInv
  <2>1. instance \in Instances
    BY <1>0 DEF Instances
  <2>2. \A n \in SplitIds : ~(n <= first)
    BY <1>0, <1>3 DEF SplitIds
  <2> QED
    BY <1>4, <2>1, <2>2 DEF RanInv, first
<1>7. PendingInv
  <2>1. \A n \in SplitIds : ~(n < nextSplitId)
    BY <1>0 DEF SplitIds
  <2>2. \A s \in Sources : pendingSplits[s] = {}
    BY <1>1, Zenon
  <2> QED
    BY <1>3, <2>1, <2>2, Zenon DEF PendingInv
<1>8. LoadsInv
  BY <1>1, Zenon DEF LoadsInv, Loads
<1>9. TaskInv /\ CallsInv /\ FetchInv /\ CleanupInv
  BY <1>1, <1>3, Zenon DEF TaskInv, CallsInv, FetchInv, CleanupInv, fetchIn
<1>10. FinishedInv
  BY <1>1, Zenon DEF FinishedInv, initialTaskStatus
<1>11. UnderWayInv
  <2>1. UNION { pendingSplits[s] : s \in Sources } = {} /\ \A s \in Sources : pendingSplits[s] = {}
    BY <1>1, Zenon
  <2>2. pendingSourceSplitCount = Cardinality(UNION { pendingSplits[s] : s \in Sources })
    BY <1>1, <2>1, FS_EmptySet, Zenon
  <2>3. \A s \in Sources : ~(pendingSplits[s] # {} \/ noMoreSplits[s] = "pending")
    BY <1>1, Zenon
  <2> QED
    BY <1>1, <2>1, <2>2, <2>3, Zenon DEF UnderWayInv
<1> QED
  BY <1>5, <1>6, <1>7, <1>8, <1>9, <1>10, <1>11 DEF RemoteInv, CoreInv, AnswersInv

\* The highest of a set of splits and the one before.
LEMMA HighestSplit ==
    ASSUME NEW S \in SUBSET SplitIds, NEW m \in -1 .. MaxSplits - 1
    PROVE  /\ Max(S \cup {m}) \in S \cup {m}
           /\ \A n \in S \cup {m} : n <= Max(S \cup {m})
<1>1. MaxSplits \in Nat
  BY BoundsAssumption
<1> DEFINE T == { k \in 0 .. MaxSplits : k - 1 \in S \cup {m} }
<1>2. T \in SUBSET (0 .. MaxSplits) /\ m + 1 \in T
  BY <1>1
<1>3. \E k \in T : \A j \in T : j <= k
  <2> HIDE DEF T
  <2> QED
    BY <1>1, <1>2, BoundedSetHasMaximum, Zenon
<1>4. PICK k \in T : \A j \in T : j <= k
  BY <1>3
<1>5. \A n \in S \cup {m} : n \in Int /\ n + 1 \in T
  BY <1>1 DEF SplitIds
<1>6. k - 1 \in S \cup {m} /\ \A n \in S \cup {m} : n <= k - 1
  BY <1>1, <1>4, <1>5
<1>7. PICK x \in S \cup {m} : x = Max(S \cup {m}) /\ \A n \in S \cup {m} : x >= n
  BY <1>5, <1>6 DEF Max
<1> QED
  BY <1>5, <1>7, Zenon

\* What a step may do to the facts about splits that have been started: the instance
\* known to the coordinator stays, and what has been started stays so.
Keeps ==
    /\ known # 0 => known' = known
    /\ \A i \in Instances, n \in SplitIds : ran[i][n] = 1 => ran'[i][n] = 1

LEMMA StartedStays ==
    ASSUME TypeInv, Keeps, NEW n \in SplitIds, Started(n)
    PROVE  Started(n)'
<1>1. known \in Instances
  BY BoundsAssumption DEF TypeInv, Started, Instances
<1> QED
  BY <1>1 DEF Keeps, Started, known

\* The status changes to that of an answer of the instance that is known, or is set to
\* a failure, and a terminal one stays.
MayBecome(st) ==
    \/ st = taskStatus
    \/ /\ ~ended /\ st \in StatusType
       /\ st.instance = known /\ st.state \in {"FAILED", "ABORTED"}
    \/ /\ ~ended /\ StatusInv(st) /\ known \in {0, st.instance}

LEMMA MayBecomeFacts ==
    ASSUME TypeInv, MayBecome(taskStatus')
    PROVE  /\ taskStatus' \in StatusType /\ known' \in 0 .. instance
           /\ known # 0 => known' = known
           /\ ended => ended' /\ taskStatus' = taskStatus
<1>1. PICK st : st = taskStatus'
  OBVIOUS
<1>2. MayBecome(st)
  BY <1>1
<1>3. st \in StatusType /\ st.instance \in 0 .. instance /\ (known # 0 => st.instance = known)
      /\ (ended => st = taskStatus)
  BY <1>2, BoundsAssumption DEF MayBecome, StatusInv, TypeInv, known, Instances
<1> QED
  BY <1>1, <1>3 DEF known, ended


-----------------------------------------------------------------------------
(* Steps that leave the splits of the coordinator alone. *)

SplitsStay == UNCHANGED << nextSplitId, pendingSplits, noMoreSplits, scenario >>

\* The updates under way are as before, or have dropped what they carried.
LoadsStay == Loads' \subseteq Loads \cup {{}}

LEMMA LoadsKept ==
    ASSUME LoadsStay, \A S \in Loads : LoadInv(S)', \A S, T \in Loads : Agree(S, T)'
    PROVE  LoadsInv'
<1>1. ASSUME NEW S \in Loads' PROVE LoadInv(S)'
  <2>1. CASE S \in Loads
    BY <2>1
  <2>2. CASE S = {}
    BY <2>2 DEF LoadInv
  <2> QED
    BY <2>1, <2>2 DEF LoadsStay
<1>2. ASSUME NEW S \in Loads', NEW T \in Loads' PROVE Agree(S, T)'
  <2>1. CASE S \in Loads /\ T \in Loads
    BY <2>1
  <2>2. CASE S = {} \/ T = {}
    BY <2>2 DEF Agree
  <2> QED
    BY <2>1, <2>2 DEF LoadsStay
<1> QED
  BY <1>1, <1>2 DEF LoadsInv

\* The task has what it had; its state may have changed.
TaskStays ==
    /\ UNCHANGED << instance, ran >>
    /\ task' \in TaskType
    /\ task'.maxAcknowledgedSplit = task.maxAcknowledgedSplit
    /\ task'.noMoreSplits = task.noMoreSplits

LEMMA CoreStays ==
    ASSUME CoreInv, SplitsStay, LoadsStay, TaskStays, MayBecome(taskStatus')
    PROVE  CoreInv' /\ Keeps
<1>1. /\ taskStatus' \in StatusType /\ known' \in 0 .. instance
      /\ known # 0 => known' = known
      /\ ended => ended' /\ taskStatus' = taskStatus
  BY MayBecomeFacts DEF CoreInv
<1>2. Keeps
  BY <1>1 DEF Keeps, TaskStays
<1>3. \A n \in SplitIds : Started(n) => Started(n)'
  BY <1>2, StartedStays DEF CoreInv
<1>4. TypeInv'
  BY <1>1 DEF CoreInv, TypeInv, SplitsStay, TaskStays
<1>5. RanInv'
  BY <1>3 DEF CoreInv, RanInv, TaskStays
<1>6. PendingInv'
  BY <1>1, <1>3 DEF CoreInv, PendingInv, TaskStays, SplitsStay
<1>7. ASSUME NEW S \in Loads PROVE LoadInv(S)'
  <2>1. LoadInv(S)
    BY DEF CoreInv, LoadsInv
  <2>2. \A x \in S : \A n \in x.splits : n \in SplitIds
    BY <2>1 DEF LoadInv, SourceType
  <2> QED
    BY <1>1, <1>3, <2>1, <2>2 DEF LoadInv, TaskStays, SplitsStay
<1>8. ASSUME NEW S \in Loads, NEW T \in Loads PROVE Agree(S, T)'
  <2>1. LoadInv(S) /\ Agree(S, T)
    BY DEF CoreInv, LoadsInv
  <2>2. \A x \in S : \A n \in x.splits : n \in SplitIds
    BY <2>1 DEF LoadInv, SourceType
  <2> QED
    BY <1>3, <2>1, <2>2 DEF Agree
<1>9. LoadsInv'
  BY <1>7, <1>8, LoadsKept
<1> QED
  BY <1>2, <1>4, <1>5, <1>6, <1>9 DEF CoreInv

-----------------------------------------------------------------------------
(* An update reaches the worker. *)

\* The task takes what an update carries.
Taken(S) ==
    /\ instance' = instance /\ ~isDone(task.state)
    /\ task' \in TaskType /\ task'.state # "FINISHED"
    /\ task'.maxAcknowledgedSplit \in newSplits(S) \cup {task.maxAcknowledgedSplit}
    /\ \A n \in newSplits(S) \cup {task.maxAcknowledgedSplit} : n <= task'.maxAcknowledgedSplit
    /\ task'.noMoreSplits = task.noMoreSplits \cup { x.source : x \in { y \in S : y.noMoreSplits } }
    /\ ran' \in [Instances -> [SplitIds -> {0, 1}]]
    /\ \A i \in Instances, n \in SplitIds :
          ran'[i][n] = IF i = instance /\ n \in newSplits(S) THEN 1 ELSE ran[i][n]

\* It ignores the update, or has failed for the lack of a plan.
Refused == TaskStays /\ isDone(task'.state) /\ (task'.state = "FINISHED" => task.state = "FINISHED")

LEMMA HandleEffect ==
    ASSUME CoreInv, NEW request, request.sources \in Loads, handleUpdate(request)
    PROVE  Taken(request.sources) \/ Refused
<1>1. PICK S \in Loads : S = request.sources
  OBVIOUS
<1>2. LoadInv(S) /\ TypeInv /\ RanInv /\ MaxSplits \in Nat /\ instance \in Instances
  BY ScenarioFacts DEF CoreInv, LoadsInv, TypeInv
<1>3. newSplits(S) \in SUBSET SplitIds /\ \A n \in newSplits(S) : n > task.maxAcknowledgedSplit
  BY <1>2 DEF newSplits, LoadInv, SourceType
<1>4. CASE isDone(task.state) \/ (~task.started /\ ~request.fragment)
  <2>1. startedBy(request) = {}
    BY <1>4 DEF startedBy
  <2>2. ran' = ran
    <3>1. ran' = [ran EXCEPT ![instance] = [n \in SplitIds |-> ran[instance][n]]]
      BY <2>1 DEF handleUpdate
    <3>2. ran[instance] = [n \in SplitIds |-> ran[instance][n]]
      BY <1>2 DEF TypeInv
    <3> QED
      BY <1>2, <3>1, <3>2 DEF TypeInv
  <2>3. (task' = task /\ isDone(task.state)) \/ task' = [task EXCEPT !.state = "FAILED"]
    BY <1>4 DEF handleUpdate, updateTask
  <2>4. /\ task' \in TaskType /\ isDone(task'.state) /\ (task'.state = "FINISHED" => task.state = "FINISHED")
        /\ task'.maxAcknowledgedSplit = task.maxAcknowledgedSplit
        /\ task'.noMoreSplits = task.noMoreSplits
    BY <1>2, <2>3 DEF TypeInv, TaskType, isDone, TERMINAL_TASK_STATES
  <2> QED
    BY <2>2, <2>4 DEF Refused, TaskStays, handleUpdate
<1>5. CASE ~(isDone(task.state) \/ (~task.started /\ ~request.fragment))
  <2>1. startedBy(request) = newSplits(S) /\ task' = updatedTask(S)
    BY <1>1, <1>5 DEF startedBy, handleUpdate, updateTask
  <2>2. PICK m : m = Max(newSplits(S) \cup {task.maxAcknowledgedSplit})
    OBVIOUS
  <2>3. /\ m \in newSplits(S) \cup {task.maxAcknowledgedSplit}
        /\ \A n \in newSplits(S) \cup {task.maxAcknowledgedSplit} : n <= m
    BY <1>2, <1>3, <2>2, HighestSplit, Zenon DEF TypeInv
  <2>4. m \in Int
    BY <1>2, <1>3, <2>3 DEF TypeInv, SplitIds
  <2>5. PICK N : N = { x.source : x \in { y \in S : y.noMoreSplits } }
    BY Zenon
  <2>6. N \in SUBSET Sources
    BY <1>2, <2>5 DEF LoadInv, SourceType
  <2>7. PICK a : a = addedAfterNoMore(S)
    OBVIOUS
  <2>8. task' = [task EXCEPT !.started = TRUE, !.maxAcknowledgedSplit = m,
                             !.noMoreSplits = task.noMoreSplits \cup N,
                             !.state = IF a THEN "FAILED" ELSE task.state]
    BY <2>1, <2>2, <2>5, <2>7, Zenon DEF updatedTask
  <2>9. /\ task' \in TaskType /\ task'.state # "FINISHED"
        /\ task'.maxAcknowledgedSplit = m /\ task'.noMoreSplits = task.noMoreSplits \cup N
    BY <1>2, <1>5, <2>4, <2>6, <2>8, Zenon DEF TypeInv, TaskType, isDone, TERMINAL_TASK_STATES
  <2>10. \A n \in newSplits(S) : ran[instance][n] = 0
    BY <1>2, <1>3 DEF TypeInv, RanInv, SplitIds
  <2>11. ran' = [ran EXCEPT ![instance] =
                    [n \in SplitIds |-> IF n \in newSplits(S) THEN ran[instance][n] + 1 ELSE ran[instance][n]]]
    BY <2>1 DEF handleUpdate
  <2>12. /\ ran' \in [Instances -> [SplitIds -> {0, 1}]]
         /\ \A i \in Instances, n \in SplitIds :
               ran'[i][n] = IF i = instance /\ n \in newSplits(S) THEN 1 ELSE ran[i][n]
    BY <1>2, <2>10, <2>11 DEF TypeInv
  <2> QED
    BY <1>1, <1>5, <2>3, <2>5, <2>9, <2>12 DEF Taken, handleUpdate
<1> QED
  BY <1>4, <1>5


LEMMA TakenCore ==
    ASSUME CoreInv, NEW S \in Loads, Taken(S), SplitsStay, LoadsStay, taskStatus' = taskStatus
    PROVE  /\ CoreInv' /\ Keeps
           /\ \A x \in S : \A n \in x.splits : ran'[instance][n] = 1 \/ Started(n)'
<1> DEFINE max == task.maxAcknowledgedSplit
           max2 == task'.maxAcknowledgedSplit
<1>1. /\ LoadInv(S) /\ TypeInv /\ RanInv /\ PendingInv /\ MaxSplits \in Nat
      /\ instance \in Instances /\ instance' = instance /\ max \in -1 .. MaxSplits - 1
      /\ \A T \in Loads : LoadInv(T) /\ Agree(T, S)
  BY ScenarioFacts DEF CoreInv, LoadsInv, TypeInv, Taken
<1>2. newSplits(S) \in SUBSET SplitIds /\ \A n \in newSplits(S) : n > max
  BY <1>1 DEF newSplits, LoadInv, SourceType
<1>3. /\ \A x \in S : x.splits \in SUBSET SplitIds
      /\ \A x \in S : \A n \in x.splits : n > max => n \in newSplits(S)
  BY <1>1 DEF newSplits, LoadInv, SourceType
<1>4. max2 \in newSplits(S) \cup {max} /\ \A n \in newSplits(S) \cup {max} : n <= max2
  BY DEF Taken
<1>5. max2 \in -1 .. MaxSplits - 1 /\ max <= max2
  BY <1>1, <1>2, <1>4 DEF SplitIds
<1>6. \A x \in S : \A n \in x.splits : n \in Int /\ n <= max2
  BY <1>1, <1>3, <1>4, <1>5 DEF SplitIds
<1>7. \A i \in Instances, n \in SplitIds :
         ran'[i][n] = IF i = instance /\ n \in newSplits(S) THEN 1 ELSE ran[i][n]
  BY DEF Taken
<1>8. Keeps
  BY <1>7 DEF Keeps, known
<1>9. \A n \in SplitIds : Started(n) => Started(n)'
  BY <1>1, <1>8, StartedStays
<1>10. TypeInv'
  BY <1>1, <1>5 DEF TypeInv, Taken, SplitsStay, known
<1> HIDE DEF max, max2
<1>11. ASSUME NEW n \in SplitIds, n <= max2 PROVE ran'[instance][n] = 1 \/ Started(n)'
  <2>1. CASE n <= max
    <3>1. ran[instance][n] = 1 \/ Started(n)
      BY <1>1, <2>1 DEF RanInv, max
    <3>2. ran[instance][n] = 1 => ran'[instance][n] = 1
      BY <1>1, <1>7
    <3> QED
      BY <1>9, <3>1, <3>2
  <2>2. CASE n > max
    <3>1. max2 \in newSplits(S)
      BY <1>1, <1>4, <1>11, <2>2 DEF SplitIds
    <3>2. PICK x \in S : max2 \in x.splits
      BY <3>1 DEF newSplits
    <3>3. n = max2 \/ Started(n) \/ \E y \in S : n \in y.splits
      BY <1>1, <1>5, <1>11, <3>2 DEF LoadInv, SplitIds
    <3>4. n \in newSplits(S) \/ Started(n)
      BY <1>3, <2>2, <3>1, <3>3
    <3> QED
      BY <1>1, <1>7, <1>9, <3>4
  <2> QED
    BY <1>1, <2>1, <2>2 DEF SplitIds
<1>12. RanInv'
  <2>1. \A i \in Instances, n \in SplitIds : i > instance' => ran'[i][n] = 0
    BY <1>1, <1>7 DEF RanInv, Instances
  <2>2. \A n \in SplitIds : ran'[instance'][n] = 1 => n <= max2
    <3> SUFFICES ASSUME NEW n \in SplitIds, ran'[instance'][n] = 1 PROVE n <= max2
      OBVIOUS
    <3>1. CASE n \in newSplits(S)
      BY <1>4, <3>1
    <3>2. CASE n \notin newSplits(S)
      <4>1. n <= max
        BY <1>1, <1>7, <3>2 DEF RanInv, max
      <4> QED
        BY <1>1, <1>5, <4>1 DEF SplitIds
    <3> QED
      BY <3>1, <3>2
  <2> QED
    BY <1>1, <1>11, <2>1, <2>2 DEF RanInv, max2
<1>13. task'.noMoreSplits = task.noMoreSplits \cup { x.source : x \in { y \in S : y.noMoreSplits } }
  BY DEF Taken
<1>14. ASSUME NEW s \in task'.noMoreSplits
       PROVE  s \in task.noMoreSplits \/ \E y \in S : y.source = s /\ y.noMoreSplits
  BY <1>13
<1>15. PendingInv'
  <2>1. ASSUME NEW s \in task'.noMoreSplits
        PROVE  noMoreSplits[s] # "absent" /\ \A n \in pendingSplits[s] : n <= max2
    <3>1. CASE s \in task.noMoreSplits
      <4>1. noMoreSplits[s] # "absent" /\ \A n \in pendingSplits[s] : n <= max
        BY <1>1, <3>1 DEF PendingInv, max
      <4>2. \A n \in pendingSplits[s] : n \in Int
        BY <1>1, <3>1 DEF TypeInv, TaskType, SplitIds
      <4> QED
        BY <1>1, <1>5, <4>1, <4>2
    <3>2. CASE \E y \in S : y.source = s /\ y.noMoreSplits
      BY <1>1, <1>6, <3>2 DEF LoadInv
    <3> QED
      BY <1>14, <3>1, <3>2
  <2>2. ended' = ended /\ SplitsStay
    BY DEF ended
  <2> QED
    BY <1>1, <1>9, <2>1, <2>2 DEF PendingInv, SplitsStay, max2
<1>16. ASSUME NEW T \in Loads PROVE LoadInv(T)'
  <2>1. LoadInv(T) /\ Agree(T, S)
    BY <1>1
  <2>2. \A x \in T : x.splits \in SUBSET SplitIds
    BY <2>1 DEF LoadInv, SourceType
  <2>3. ASSUME NEW x \in T, x.source \in task'.noMoreSplits, NEW n \in x.splits
        PROVE  n <= max2 \/ Started(n)
    <3>1. n \in Int
      BY <1>1, <2>2 DEF SplitIds
    <3>2. CASE x.source \in task.noMoreSplits
      BY <1>1, <1>5, <2>1, <3>1, <3>2 DEF LoadInv, max
    <3>3. CASE \E y \in S : y.source = x.source /\ y.noMoreSplits
      BY <1>6, <2>1, <3>3 DEF Agree
    <3> QED
      BY <1>14, <2>3, <3>2, <3>3
  <2>4. ended' = ended /\ SplitsStay
    BY DEF ended
  <2> QED
    BY <1>9, <2>1, <2>2, <2>3, <2>4 DEF LoadInv, SplitsStay, max2
<1>17. ASSUME NEW T \in Loads, NEW V \in Loads PROVE Agree(T, V)'
  <2>1. LoadInv(T) /\ Agree(T, V)
    BY DEF CoreInv, LoadsInv
  <2>2. \A x \in T : x.splits \in SUBSET SplitIds
    BY <2>1 DEF LoadInv, SourceType
  <2> QED
    BY <1>9, <2>1, <2>2 DEF Agree
<1>18. LoadsInv'
  BY <1>16, <1>17, LoadsKept
<1>19. \A x \in S : \A n \in x.splits : ran'[instance][n] = 1 \/ Started(n)'
  BY <1>3, <1>6, <1>11
<1> QED
  BY <1>8, <1>10, <1>12, <1>15, <1>18, <1>19 DEF CoreInv


LEMMA RestartCore ==
    ASSUME CoreInv, Restart, SplitsStay, LoadsStay, taskStatus' = taskStatus
    PROVE  CoreInv' /\ Keeps
<1>1. /\ instance \in Instances /\ instance' = instance + 1 /\ instance' \in Instances
      /\ task' = createSqlTask /\ ran' = ran /\ known' = known /\ ended' = ended
      /\ MaxSplits \in Nat /\ MaxRestarts \in Nat
  BY ScenarioFacts DEF CoreInv, TypeInv, Restart, Instances, known, ended
<1>2. Keeps /\ \A n \in SplitIds : Started(n) => Started(n)'
  BY <1>1, StartedStays DEF Keeps, CoreInv
<1>3. /\ task' \in TaskType /\ task'.maxAcknowledgedSplit = -1 /\ task'.noMoreSplits = {}
  BY <1>1 DEF createSqlTask, TaskType
<1>4. TypeInv'
  BY <1>1, <1>3 DEF CoreInv, TypeInv, SplitsStay, Instances
<1>5. RanInv'
  BY <1>1, <1>3 DEF CoreInv, RanInv, TypeInv, Instances, SplitIds
<1>6. PendingInv'
  BY <1>1, <1>2, <1>3 DEF CoreInv, PendingInv, SplitsStay
<1>7. ASSUME NEW S \in Loads PROVE LoadInv(S)'
  <2>1. LoadInv(S)
    BY DEF CoreInv, LoadsInv
  <2>2. \A x \in S : \A n \in x.splits : n \in SplitIds
    BY <2>1 DEF LoadInv, SourceType
  <2> QED
    BY <1>1, <1>2, <1>3, <2>1, <2>2 DEF LoadInv, SplitsStay
<1>8. ASSUME NEW S \in Loads, NEW T \in Loads PROVE Agree(S, T)'
  <2>1. LoadInv(S) /\ Agree(S, T)
    BY DEF CoreInv, LoadsInv
  <2>2. \A x \in S : \A n \in x.splits : n \in SplitIds
    BY <2>1 DEF LoadInv, SourceType
  <2> QED
    BY <1>2, <2>1, <2>2 DEF Agree
<1> QED
  BY <1>2, <1>4, <1>5, <1>6, <1>7, <1>8, LoadsKept DEF CoreInv

-----------------------------------------------------------------------------
(* A new update carries all that is pending. *)

WorkerStays == UNCHANGED << instance, task, ran >>

LEMMA SourcesFacts ==
    ASSUME NEW x \in getSources
    PROVE  \E s \in Sources : /\ x.source = s /\ x.splits = pendingSplits[s]
                              /\ x.noMoreSplits <=> noMoreSplits[s] # "absent"
                              /\ x = TaskSource(s)
<1>1. PICK s \in Sources : x = TaskSource(s)
  BY Zenon DEF getSources
<1>2. /\ x.source = s /\ x.splits = pendingSplits[s]
      /\ x.noMoreSplits <=> noMoreSplits[s] # "absent"
  BY <1>1, Zenon DEF TaskSource
<1> QED
  BY <1>1, <1>2

LEMMA PendingIsSent ==
    ASSUME NEW s \in Sources, pendingSplits[s] # {} \/ noMoreSplits[s] = "pending"
    PROVE  /\ TaskSource(s) \in getSources /\ TaskSource(s).source = s
           /\ TaskSource(s).splits = pendingSplits[s]
           /\ TaskSource(s).noMoreSplits <=> noMoreSplits[s] # "absent"
BY Zenon DEF getSources, TaskSource

LEMMA NewLoad ==
    ASSUME CoreInv, ~ended
    PROVE  /\ LoadInv(getSources) /\ Agree(getSources, getSources)
           /\ \A S \in Loads : Agree(S, getSources) /\ Agree(getSources, S)
<1>1. TypeInv /\ PendingInv
  BY DEF CoreInv
<1>2. ASSUME NEW x \in getSources PROVE x \in SourceType
  <2>1. PICK s \in Sources : x = TaskSource(s)
    BY SourcesFacts, Zenon
  <2>2. pendingSplits[s] \in SUBSET SplitIds
    BY <1>1 DEF TypeInv
  <2> QED
    BY <2>1, <2>2 DEF TaskSource, SourceType
<1>3. ASSUME NEW x \in getSources, NEW m \in x.splits, NEW n \in SplitIds, n < m
      PROVE  Started(n) \/ \E y \in getSources : n \in y.splits
  <2>1. PICK s \in Sources : x.splits = pendingSplits[s]
    BY SourcesFacts
  <2>2. m \in SplitIds /\ m < nextSplitId
    BY <1>1, <2>1 DEF TypeInv, PendingInv
  <2>3. n < nextSplitId
    BY <1>1, <1>3, <2>2, ScenarioFacts DEF TypeInv, SplitIds
  <2>4. Started(n) \/ \E t \in Sources : n \in pendingSplits[t]
    BY <1>1, <2>3 DEF PendingInv
  <2> QED
    BY <2>4, PendingIsSent
<1>4. LoadInv(getSources)
  <2> SUFFICES ASSUME NEW x \in getSources
               PROVE  /\ \A n \in x.splits : n < nextSplitId
                      /\ x.noMoreSplits =>
                            noMoreSplits[x.source] # "absent" /\ pendingSplits[x.source] \subseteq x.splits
                      /\ ~ended => \A n \in x.splits : n \in pendingSplits[x.source] \/ Started(n)
                      /\ x.source \in task.noMoreSplits =>
                            \A n \in x.splits : n <= task.maxAcknowledgedSplit \/ Started(n)
    BY <1>2, <1>3 DEF LoadInv
  <2>1. PICK s \in Sources : /\ x.source = s /\ x.splits = pendingSplits[s]
                             /\ x.noMoreSplits <=> noMoreSplits[s] # "absent"
    BY SourcesFacts
  <2> QED
    BY <1>1, <2>1 DEF PendingInv
<1>5. Agree(getSources, getSources)
  <2> SUFFICES ASSUME NEW x \in getSources, NEW y \in getSources, x.source = y.source
               PROVE  x.splits = y.splits
    BY DEF Agree
  <2> QED
    BY SourcesFacts
<1>6. ASSUME NEW S \in Loads PROVE Agree(S, getSources) /\ Agree(getSources, S)
  <2>1. LoadInv(S)
    BY DEF CoreInv, LoadsInv
  <2>2. ASSUME NEW x \in S, NEW y \in getSources, x.source = y.source, NEW n \in x.splits
        PROVE  n \in y.splits \/ Started(n)
    <3>1. y.splits = pendingSplits[y.source]
      BY SourcesFacts
    <3> QED
      BY <2>1, <2>2, <3>1 DEF LoadInv
  <2>3. ASSUME NEW x \in getSources, NEW y \in S, x.source = y.source, y.noMoreSplits, NEW n \in x.splits
        PROVE  n \in y.splits
    <3>1. x.splits = pendingSplits[x.source]
      BY SourcesFacts
    <3> QED
      BY <2>1, <2>3, <3>1 DEF LoadInv
  <2> QED
    BY <2>2, <2>3 DEF Agree
<1> QED
  BY <1>4, <1>5, <1>6

LEMMA SendCore ==
    ASSUME CoreInv, ~ended, WorkerStays, SplitsStay, taskStatus' = taskStatus,
           Loads' \subseteq Loads \cup {{}, getSources}
    PROVE  CoreInv' /\ Keeps
<1>1. known' = known /\ ended' = ended /\ \A n : Started(n)' <=> Started(n)
  BY DEF known, ended, Started, WorkerStays
<1>2. Keeps
  BY <1>1 DEF Keeps, WorkerStays
<1>3. TypeInv' /\ RanInv' /\ PendingInv'
  BY <1>1 DEF CoreInv, TypeInv, RanInv, PendingInv, WorkerStays, SplitsStay
<1>4. ASSUME NEW S, LoadInv(S) PROVE LoadInv(S)'
  BY <1>1, <1>4 DEF LoadInv, WorkerStays, SplitsStay
<1>5. ASSUME NEW S, NEW T, Agree(S, T) PROVE Agree(S, T)'
  BY <1>1, <1>5 DEF Agree
<1>6. ASSUME NEW S \in Loads' PROVE LoadInv(S)
  <2>1. CASE S \in Loads
    BY <2>1 DEF CoreInv, LoadsInv
  <2>2. CASE S = {}
    BY <2>2 DEF LoadInv
  <2>3. CASE S = getSources
    BY <2>3, NewLoad
  <2> QED
    BY <2>1, <2>2, <2>3
<1>7. ASSUME NEW S \in Loads', NEW T \in Loads' PROVE Agree(S, T)
  <2>1. CASE S = {} \/ T = {}
    BY <2>1 DEF Agree
  <2>2. CASE S \in Loads \cup {getSources} /\ T \in Loads \cup {getSources}
    BY <2>2, NewLoad DEF CoreInv, LoadsInv
  <2> QED
    BY <2>1, <2>2
<1> QED
  BY <1>2, <1>3, <1>4, <1>5, <1>6, <1>7 DEF CoreInv, LoadsInv


-----------------------------------------------------------------------------
(* The splits of the coordinator change. *)

\* The parts of the invariant that say only of splits that they have been started do
\* not depend on what is pending.
LEMMA AgreeStays ==
    ASSUME CoreInv, \A n \in SplitIds : Started(n) => Started(n)', NEW S \in Loads, NEW T \in Loads
    PROVE  Agree(S, T)'
<1>1. LoadInv(S) /\ Agree(S, T)
  BY DEF CoreInv, LoadsInv
<1>2. \A x \in S : \A n \in x.splits : n \in SplitIds
  BY <1>1 DEF LoadInv, SourceType
<1> QED
  BY <1>1, <1>2 DEF Agree

LEMMA AddCore ==
    ASSUME CoreInv, NEW s \in Sources, addSplits(s)
    PROVE  CoreInv' /\ Keeps
<1>1. /\ nextSplitId \in SplitIds /\ nextSplitId' = nextSplitId + 1 /\ noMoreSplits[s] = "absent"
      /\ pendingSplits' = [pendingSplits EXCEPT ![s] = @ \cup {nextSplitId}]
      /\ nextSplitId' \in 0 .. MaxSplits /\ MaxSplits \in Nat
  BY ScenarioFacts DEF addSplits, CoreInv, TypeInv, SplitIds
<1>2. /\ WorkerStays /\ taskStatus' = taskStatus /\ Loads' = Loads
      /\ UNCHANGED << noMoreSplits, scenario >>
      /\ known' = known /\ ended' = ended /\ \A n : Started(n)' <=> Started(n)
  BY Zenon DEF addSplits, workerVars, statusVars, budgets, WorkerStays, Loads, known, ended, Started
<1>3. Keeps
  BY <1>2 DEF Keeps, WorkerStays
<1>4. /\ pendingSplits'[s] = pendingSplits[s] \cup {nextSplitId}
      /\ \A t \in Sources : t # s => pendingSplits'[t] = pendingSplits[t]
      /\ pendingSplits' \in [Sources -> SUBSET SplitIds]
      /\ \A t \in Sources : pendingSplits[t] \in SUBSET SplitIds
  BY <1>1 DEF CoreInv, TypeInv
<1>5. TypeInv'
  BY <1>1, <1>2, <1>4 DEF CoreInv, TypeInv, WorkerStays
<1>6. RanInv'
  BY <1>2, Zenon DEF CoreInv, RanInv, WorkerStays
<1>7. s \notin task.noMoreSplits
  BY <1>1 DEF CoreInv, PendingInv
<1>8. PendingInv'
  <2>1. \A t \in Sources : \A n \in pendingSplits'[t] : n < nextSplitId'
    BY <1>1, <1>4 DEF CoreInv, PendingInv, SplitIds
  <2>2. \A t \in Sources : nextSplitId \notin pendingSplits[t]
    BY <1>1 DEF CoreInv, PendingInv, SplitIds
  <2>3. \A t, u \in Sources : t # u => pendingSplits'[t] \cap pendingSplits'[u] = {}
    BY <1>4, <2>2 DEF CoreInv, PendingInv
  <2>4. \A t \in task.noMoreSplits : /\ noMoreSplits[t] # "absent"
                                     /\ \A n \in pendingSplits'[t] : n <= task.maxAcknowledgedSplit
    <3>1. task.noMoreSplits \subseteq Sources
      BY DEF CoreInv, TypeInv, TaskType
    <3> QED
      BY <1>4, <1>7, <3>1 DEF CoreInv, PendingInv
  <2>5. ASSUME ~ended, NEW n \in SplitIds, n < nextSplitId'
        PROVE  Started(n) \/ \E t \in Sources : n \in pendingSplits'[t]
    <3>1. n < nextSplitId \/ n = nextSplitId
      BY <1>1, <2>5 DEF SplitIds
    <3> QED
      BY <1>4, <2>5, <3>1 DEF CoreInv, PendingInv
  <2> QED
    BY <1>2, <2>1, <2>3, <2>4, <2>5, Zenon DEF PendingInv, WorkerStays
<1>9. ASSUME NEW S \in Loads PROVE LoadInv(S)'
  <2>1. LoadInv(S)
    BY DEF CoreInv, LoadsInv
  <2>2. ASSUME NEW x \in S
        PROVE  /\ \A n \in x.splits : n < nextSplitId'
               /\ x.noMoreSplits => pendingSplits'[x.source] \subseteq x.splits
               /\ pendingSplits[x.source] \subseteq pendingSplits'[x.source]
    <3>1. x.source \in Sources /\ x.splits \subseteq SplitIds
      BY <2>1 DEF LoadInv, SourceType
    <3>2. \A n \in x.splits : n < nextSplitId'
      <4>1. \A n \in SplitIds : n < nextSplitId => n < nextSplitId'
        BY <1>1 DEF SplitIds
      <4> QED
        BY <2>1, <3>1, <4>1, Zenon DEF LoadInv
    <3>3. x.noMoreSplits => x.source # s
      BY <1>1, <2>1 DEF LoadInv
    <3> QED
      BY <1>4, <2>1, <3>1, <3>2, <3>3 DEF LoadInv
  <2> QED
    BY <1>2, <2>1, <2>2 DEF LoadInv, WorkerStays
<1>10. LoadsInv'
  BY <1>2, <1>9, AgreeStays, LoadsKept DEF LoadsStay
<1> QED
  BY <1>3, <1>5, <1>6, <1>8, <1>10 DEF CoreInv

LEMMA NoMoreCore ==
    ASSUME CoreInv, NEW s \in Sources, setNoMoreSplits(s)
    PROVE  CoreInv' /\ Keeps
<1>1. /\ WorkerStays /\ taskStatus' = taskStatus /\ Loads' = Loads
      /\ UNCHANGED << nextSplitId, pendingSplits, scenario >>
      /\ known' = known /\ ended' = ended /\ \A n : Started(n)' <=> Started(n)
  BY DEF setNoMoreSplits, workerVars, statusVars, budgets, WorkerStays, Loads, known, ended, Started
<1>2. Keeps
  BY <1>1 DEF Keeps, WorkerStays
<1>3. /\ noMoreSplits' \in [Sources -> {"absent", "pending", "sent"}]
      /\ \A t \in Sources : noMoreSplits[t] # "absent" => noMoreSplits'[t] # "absent"
  BY DEF setNoMoreSplits, CoreInv, TypeInv
<1>4. TypeInv'
  BY <1>1, <1>3 DEF CoreInv, TypeInv, WorkerStays
<1>5. RanInv'
  BY <1>1 DEF CoreInv, RanInv, WorkerStays
<1>6. task.noMoreSplits \subseteq Sources
  BY DEF CoreInv, TypeInv, TaskType
<1>7. PendingInv'
  BY <1>1, <1>3, <1>6 DEF CoreInv, PendingInv, WorkerStays
<1>8. ASSUME NEW S \in Loads PROVE LoadInv(S)'
  <2>1. LoadInv(S)
    BY DEF CoreInv, LoadsInv
  <2>2. \A x \in S : x.source \in Sources
    BY <2>1 DEF LoadInv, SourceType
  <2> QED
    BY <1>1, <1>3, <2>1, <2>2 DEF LoadInv, WorkerStays
<1>9. LoadsInv'
  BY <1>1, <1>8, AgreeStays, LoadsKept DEF LoadsStay
<1> QED
  BY <1>2, <1>4, <1>5, <1>7, <1>9 DEF CoreInv

\* cleanUpTask: nothing is pending any more.
LEMMA CleanUpCore ==
    ASSUME CoreInv, ended, WorkerStays, LoadsStay, taskStatus' = taskStatus,
           UNCHANGED << nextSplitId, noMoreSplits, scenario >>,
           pendingSplits' = [t \in Sources |-> {}]
    PROVE  CoreInv' /\ Keeps
<1>1. known' = known /\ ended' = ended /\ \A n : Started(n)' <=> Started(n)
  BY Zenon DEF known, ended, Started, WorkerStays
<1>2. Keeps
  BY <1>1 DEF Keeps, WorkerStays
<1>3. TypeInv' /\ RanInv'
  BY <1>1 DEF CoreInv, TypeInv, RanInv, WorkerStays
<1>4. task.noMoreSplits \subseteq Sources
  BY DEF CoreInv, TypeInv, TaskType
<1>5. PendingInv'
  BY <1>1, <1>4 DEF CoreInv, PendingInv, WorkerStays
<1>6. ASSUME NEW S \in Loads PROVE LoadInv(S)'
  <2>1. LoadInv(S)
    BY DEF CoreInv, LoadsInv
  <2>2. \A x \in S : x.source \in Sources
    BY <2>1 DEF LoadInv, SourceType
  <2> QED
    BY <1>1, <2>1, <2>2 DEF LoadInv, WorkerStays
<1>7. LoadsInv'
  BY <1>1, <1>6, AgreeStays, LoadsKept
<1> QED
  BY <1>2, <1>3, <1>5, <1>7 DEF CoreInv


\* What an answer of the worker makes of the status.
LEMMA AfterFacts ==
    ASSUME TypeInv, NEW v, StatusInv(v), NEW st \in statusAfter(v)
    PROVE  /\ MayBecome(st)
           /\ ~isDone(st.state) => st = v /\ known \in {0, v.instance}
<1>1. v.instance # 0 /\ ~v.local /\ v \in StatusType
  BY DEF StatusInv
<1>2. CASE taskMismatch(v)
  <2>1. st = abortedStatus("FAILED")
    BY <1>2 DEF statusAfter
  <2>2. CASE ended
    BY <2>1, <2>2 DEF abortedStatus, ended, MayBecome
  <2>3. CASE ~ended
    <3>1. st = [taskStatus EXCEPT !.state = "FAILED", !.local = TRUE]
      BY <2>1, <2>3 DEF abortedStatus, ended, failWith
    <3>2. st \in StatusType /\ st.instance = known /\ st.state = "FAILED"
      BY <3>1, Zenon DEF TypeInv, StatusType, TERMINAL_TASK_STATES, known
    <3> QED
      BY <2>3, <3>2 DEF MayBecome, isDone, TERMINAL_TASK_STATES
  <2> QED
    BY <2>2, <2>3
<1>3. CASE ~taskMismatch(v)
  <2>1. st \in newest(taskStatus, v) /\ known \in {0, v.instance}
    BY <1>3 DEF statusAfter, taskMismatch, known
  <2>2. CASE ended
    BY <2>1, <2>2 DEF newest, ended, MayBecome
  <2>3. CASE ~ended
    <3>1. st = v
      BY <1>1, <2>1, <2>3 DEF newest, ended, known
    <3> QED
      BY <2>1, <2>3, <3>1 DEF MayBecome
  <2> QED
    BY <2>2, <2>3
<1> QED
  BY <1>2, <1>3

\* processTaskUpdate: what an update carried is no longer pending.
Acknowledges(c) ==
    /\ pendingSplits' = [s \in Sources |-> pendingSplits[s] \ carried(c, s)]
    /\ noMoreSplits' = [s \in Sources |->
         IF \E x \in c.sources : x.source = s /\ x.noMoreSplits THEN "sent" ELSE noMoreSplits[s]]
    /\ UNCHANGED << nextSplitId, scenario >>

LEMMA AcknowledgeCore ==
    ASSUME CoreInv, NEW c, c.sources \in Loads, AnswerInv(c.value, c.sources), Acknowledges(c),
           WorkerStays, LoadsStay, taskStatus' \in statusAfter(c.value)
    PROVE  CoreInv' /\ Keeps /\ MayBecome(taskStatus')
<1>1. PICK st : st = taskStatus'
  OBVIOUS
<1>2. PICK v : v = c.value
  OBVIOUS
<1>3. /\ MayBecome(st)
      /\ ~isDone(st.state) => st = v /\ known \in {0, v.instance}
      /\ StatusInv(v)
  BY <1>1, <1>2, AfterFacts DEF CoreInv, AnswerInv
<1>4. MayBecome(taskStatus')
  BY <1>1, <1>3
<1>5. /\ taskStatus' \in StatusType /\ known' \in 0 .. instance
      /\ known # 0 => known' = known
      /\ ended => ended' /\ taskStatus' = taskStatus
  BY <1>4, MayBecomeFacts DEF CoreInv
<1>6. Keeps
  BY <1>5 DEF Keeps, WorkerStays
<1>7. \A n \in SplitIds : Started(n) => Started(n)'
  BY <1>6, StartedStays DEF CoreInv
<1>8. \A x \in c.sources : x.splits \in SUBSET SplitIds /\ x.source \in Sources
  BY Zenon DEF CoreInv, LoadsInv, LoadInv, SourceType
<1>9. ASSUME ~ended', NEW x \in c.sources, NEW n \in x.splits PROVE Started(n)'
  <2>1. st = v /\ known \in {0, v.instance}
    BY <1>1, <1>3, <1>9 DEF ended
  <2>2. ran[v.instance][n] = 1 \/ Started(n)
    BY <1>1, <1>2, <1>9, <2>1 DEF AnswerInv, ended
  <2>3. known' = v.instance /\ v.instance # 0 /\ ran' = ran
    BY <1>1, <1>3, <2>1 DEF known, StatusInv, WorkerStays
  <2>4. Started(n) => Started(n)'
    BY <1>7, <1>8, <1>9, Zenon
  <2>5. ran[v.instance][n] = 1 => Started(n)'
    BY <2>3, Zenon DEF Started
  <2> QED
    BY <2>2, <2>4, <2>5, Zenon
<1>10. /\ pendingSplits' \in [Sources -> SUBSET SplitIds]
       /\ \A s \in Sources : pendingSplits'[s] \subseteq pendingSplits[s]
       /\ \A s \in Sources : \A n \in pendingSplits[s] :
             n \in pendingSplits'[s] \/ \E x \in c.sources : n \in x.splits
  BY DEF Acknowledges, carried, CoreInv, TypeInv
<1>11. /\ noMoreSplits' \in [Sources -> {"absent", "pending", "sent"}]
       /\ \A s \in Sources : noMoreSplits[s] # "absent" => noMoreSplits'[s] # "absent"
  BY DEF Acknowledges, CoreInv, TypeInv
<1>12. UNCHANGED << nextSplitId, scenario >>
  BY DEF Acknowledges
<1>13. TypeInv'
  BY <1>5, <1>10, <1>11, <1>12, Zenon DEF CoreInv, TypeInv, WorkerStays
<1>14. RanInv'
  BY <1>7, Zenon DEF CoreInv, RanInv, WorkerStays
<1>15. task.noMoreSplits \subseteq Sources
  BY DEF CoreInv, TypeInv, TaskType
<1>16. PendingInv'
  <2>1. \A s, t \in Sources : s # t => pendingSplits'[s] \cap pendingSplits'[t] = {}
    BY <1>10 DEF CoreInv, PendingInv
  <2>2. ASSUME ~ended', NEW n \in SplitIds, n < nextSplitId
        PROVE  Started(n)' \/ \E s \in Sources : n \in pendingSplits'[s]
    <3>1. Started(n) \/ \E s \in Sources : n \in pendingSplits[s]
      BY <1>5, <2>2, Zenon DEF CoreInv, PendingInv
    <3> QED
      BY <1>7, <1>9, <1>10, <2>2, <3>1
  <2>3. /\ \A s \in Sources : \A n \in pendingSplits'[s] : n < nextSplitId
        /\ \A s \in task.noMoreSplits : /\ noMoreSplits'[s] # "absent"
                                        /\ \A n \in pendingSplits'[s] : n <= task.maxAcknowledgedSplit
    BY <1>10, <1>11, <1>15 DEF CoreInv, PendingInv
  <2> QED
    BY <1>12, <2>1, <2>2, <2>3 DEF PendingInv, WorkerStays
<1>17. ASSUME NEW S \in Loads PROVE LoadInv(S)'
  <2>1. LoadInv(S)
    BY DEF CoreInv, LoadsInv
  <2>2. \A x \in S : x.source \in Sources /\ x.splits \in SUBSET SplitIds
    BY <2>1 DEF LoadInv, SourceType
  <2>3. ASSUME NEW x \in S, ~ended', NEW n \in x.splits
        PROVE  n \in pendingSplits'[x.source] \/ Started(n)'
    <3>1. n \in pendingSplits[x.source] \/ Started(n)
      BY <1>5, <2>1, <2>3 DEF LoadInv
    <3> QED
      BY <1>7, <1>9, <1>10, <2>2, <2>3, <3>1
  <2>4. ASSUME NEW x \in S, x.noMoreSplits
        PROVE  noMoreSplits'[x.source] # "absent" /\ pendingSplits'[x.source] \subseteq x.splits
    BY <1>10, <1>11, <2>1, <2>2, <2>4 DEF LoadInv
  <2> QED
    BY <1>7, <1>12, <2>1, <2>2, <2>3, <2>4, Zenon DEF LoadInv, WorkerStays
<1>18. LoadsInv'
  BY <1>7, <1>17, AgreeStays, LoadsKept
<1> QED
  BY <1>4, <1>6, <1>13, <1>14, <1>16, <1>18 DEF CoreInv


-----------------------------------------------------------------------------
(* Answers stay true. *)

\* What a step may do to what answers say.
Steady ==
    /\ instance <= instance' /\ Keeps
    /\ ended => taskStatus' = taskStatus
    /\ AllTold \/ ended => nextSplitId' = nextSplitId
    /\ AllTold => AllTold'

LEMMA CompleteStays ==
    ASSUME TypeInv, Steady, NEW i \in Instances, Complete(i) PROVE Complete(i)'
<1>1. AllTold' /\ nextSplitId' = nextSplitId
  BY DEF Steady, Complete
<1>2. ASSUME NEW n \in SplitIds, n < nextSplitId
      PROVE  ran'[i][n] = 1 \/ (known' # 0 /\ known' # i)
  <2>1. ran[i][n] = 1 \/ (known # 0 /\ known # i)
    BY <1>2 DEF Complete
  <2> QED
    BY <2>1 DEF Steady, Keeps
<1> QED
  BY <1>1, <1>2 DEF Complete

LEMMA StatusInvStays ==
    ASSUME TypeInv, TypeInv', Steady, NEW v, StatusInv(v) PROVE StatusInv(v)'
<1>1. /\ v \in StatusType /\ ~v.local /\ v.instance \in 1 .. instance
      /\ instance \in Nat /\ instance' \in Nat /\ v.instance \in Instances
  BY ScenarioFacts DEF StatusInv, TypeInv, Instances
<1>2. v.instance \in 1 .. instance'
  BY <1>1 DEF Steady
<1>3. ended => ended'
  BY DEF Steady, ended
<1>4. ASSUME ~ended', v.state = "FINISHED" PROVE Complete(v.instance)'
  <2>1. Complete(v.instance)
    BY <1>3, <1>4 DEF StatusInv
  <2>2. PICK i \in Instances : i = v.instance
    BY <1>1
  <2>3. Complete(i)'
    BY <2>1, <2>2, CompleteStays
  <2> QED
    BY <2>2, <2>3
<1> QED
  BY <1>1, <1>2, <1>4 DEF StatusInv

LEMMA AnswerStays ==
    ASSUME TypeInv, TypeInv', Steady, NEW v, NEW S, AnswerInv(v, S), LoadInv(S) PROVE AnswerInv(v, S)'
<1>1. StatusInv(v)'
  BY StatusInvStays DEF AnswerInv
<1>2. v.instance \in Instances
  <2>1. v.instance \in 1 .. instance /\ instance \in Instances
    BY Zenon DEF AnswerInv, StatusInv, TypeInv
  <2>2. MaxRestarts \in Nat
    BY ScenarioFacts, Zenon
  <2> QED
    BY <2>1, <2>2 DEF Instances
<1>3. ASSUME ~isDone(v.state), NEW x \in S, NEW n \in x.splits
      PROVE  ran'[v.instance][n] = 1 \/ Started(n)'
  <2>1. n \in SplitIds
    BY Zenon DEF LoadInv, SourceType
  <2>2. ran[v.instance][n] = 1 \/ Started(n)
    BY <1>3 DEF AnswerInv
  <2>3. Started(n) => Started(n)'
    BY <2>1, StartedStays DEF Steady
  <2> QED
    BY <1>2, <2>1, <2>2, <2>3, Zenon DEF Steady, Keeps
<1> QED
  BY <1>1, <1>3 DEF AnswerInv

\* The calls after a step are calls from before, or calls that wait for nothing, or an
\* answered one that goes on.
CallsGoOn ==
    \A c \in calls' :
      \/ c \in calls
      \/ CallShape(c) /\ c.phase \notin {"answered", "process"}
      \/ \E d \in calls : /\ d.phase = "answered" /\ CallShape(c)
                          /\ c.value = d.value /\ c.sources = d.sources

LEMMA CallStays ==
    ASSUME CoreInv, TypeInv', Steady, CallsInv, NEW d \in calls
    PROVE  /\ CallInv(d)'
           /\ d.phase \in {"answered", "process"} => AnswerInv(d.value, d.sources)'
<1>1. ASSUME AnswerInv(d.value, d.sources) PROVE AnswerInv(d.value, d.sources)'
  <2>1. LoadInv(d.sources) /\ TypeInv
    BY DEF CoreInv, LoadsInv, Loads
  <2>2. PICK v, S : v = d.value /\ S = d.sources
    OBVIOUS
  <2>3. AnswerInv(v, S)'
    BY <1>1, <2>1, <2>2, AnswerStays
  <2> QED
    BY <2>2, <2>3
<1> QED
  BY <1>1 DEF CallsInv, CallInv, CallShape

LEMMA CallsStay ==
    ASSUME CoreInv, TypeInv', Steady, CallsInv, CallsGoOn PROVE CallsInv'
<1> SUFFICES ASSUME NEW c \in calls' PROVE CallInv(c)'
  BY DEF CallsInv
<1>1. CASE c \in calls
  BY <1>1, CallStays
<1>2. CASE CallShape(c) /\ c.phase \notin {"answered", "process"}
  BY <1>2 DEF CallInv, CallShape
<1>3. CASE \E d \in calls : /\ d.phase = "answered" /\ CallShape(c)
                            /\ c.value = d.value /\ c.sources = d.sources
  <2>1. AnswerInv(c.value, c.sources)'
    BY <1>3, CallStays
  <2> QED
    BY <1>3, <2>1 DEF CallInv, CallShape
<1> QED
  BY <1>1, <1>2, <1>3 DEF CallsGoOn

LEMMA FinishedStays ==
    ASSUME TypeInv, Steady, FinishedInv, MayBecome(taskStatus') PROVE FinishedInv'
<1>1. PICK st : st = taskStatus'
  OBVIOUS
<1>2. known \in 0 .. instance /\ instance \in Instances
  BY DEF TypeInv
<1>3. SUFFICES ASSUME st.state = "FINISHED"
               PROVE  st.instance # 0 /\ \A n \in SplitIds : n < nextSplitId' => ran'[st.instance][n] = 1
  BY <1>1 DEF FinishedInv, known
<1>4. CASE st = taskStatus
  <2>1. ended /\ known # 0 /\ \A n \in SplitIds : n < nextSplitId => ran[known][n] = 1
    BY <1>3, <1>4 DEF FinishedInv, ended, isDone, TERMINAL_TASK_STATES
  <2>2. nextSplitId' = nextSplitId /\ known \in Instances
    BY <1>2, <2>1, ScenarioFacts DEF Steady, Instances
  <2> QED
    BY <1>4, <2>1, <2>2 DEF Steady, Keeps, known
<1>5. CASE ~ended /\ StatusInv(st) /\ known \in {0, st.instance}
  <2>1. Complete(st.instance) /\ st.instance \in 1 .. instance
    BY <1>3, <1>5 DEF StatusInv
  <2>2. st.instance \in Instances /\ st.instance # 0
    BY <1>2, <2>1, ScenarioFacts DEF Instances
  <2>3. nextSplitId' = nextSplitId
    BY <2>1 DEF Complete, Steady
  <2>4. \A n \in SplitIds : n < nextSplitId => ran[st.instance][n] = 1
    BY <1>5, <2>1 DEF Complete
  <2> QED
    BY <2>2, <2>3, <2>4 DEF Steady, Keeps
<1> QED
  BY <1>1, <1>3, <1>4, <1>5 DEF MayBecome


LEMMA TaskInvStays ==
    ASSUME TypeInv, Steady, TaskInv, instance' = instance,
           task'.state = "FINISHED" => task.state = "FINISHED"
    PROVE  TaskInv'
<1>1. ended => ended'
  BY DEF Steady, ended
<1>2. SUFFICES ASSUME ~ended', task'.state = "FINISHED" PROVE Complete(instance)'
  BY DEF TaskInv
<1>3. PICK i \in Instances : i = instance
  BY DEF TypeInv
<1>4. Complete(i)
  BY <1>1, <1>2, <1>3 DEF TaskInv
<1>5. Complete(i)'
  BY <1>4, CompleteStays
<1> QED
  BY <1>3, <1>5

LEMMA FetchStays ==
    ASSUME TypeInv, TypeInv', Steady, FetchInv,
           statusFetch' = statusFetch \/ statusFetch'.phase # "answered"
    PROVE  FetchInv'
<1>1. SUFFICES ASSUME statusFetch' = statusFetch, statusFetch.phase = "answered"
               PROVE  StatusInv(statusFetch.value)'
  BY DEF FetchInv
<1>2. PICK v : v = statusFetch.value
  OBVIOUS
<1>3. StatusInv(v)'
  BY <1>1, <1>2, StatusInvStays DEF FetchInv
<1> QED
  BY <1>1, <1>2, <1>3

\* What becomes of the clean-up requests, but for their answer.
CleanupMoves ==
    \/ cleanup' = cleanup
    \/ \E state \in {"ABORTED", "CANCELED"} : cleanup' = scheduleAsyncCleanupRequest(state)
    \/ /\ cleanup.phase # "none"
       /\ \E phase \in {"sent", "over"} :
             cleanup' = [cleanup EXCEPT !.phase = phase, !.value = initialTaskStatus]

LEMMA CleanupStays ==
    ASSUME TypeInv, TypeInv', Steady, CleanupInv, CleanupMoves PROVE CleanupInv'
<1>1. CASE cleanup' = cleanup
  <2>1. ASSUME cleanup.phase = "answered" PROVE StatusInv(cleanup.value)'
    <3>1. PICK v : v = cleanup.value
      OBVIOUS
    <3>2. StatusInv(v)'
      BY <2>1, <3>1, StatusInvStays DEF CleanupInv
    <3> QED
      BY <1>1, <3>1, <3>2
  <2> QED
    BY <1>1, <2>1 DEF CleanupInv
<1>2. CASE cleanup' # cleanup
  <2>1. /\ DOMAIN cleanup' = {"phase", "state", "value"}
        /\ cleanup'.state \in {"ABORTED", "CANCELED"} /\ cleanup'.phase \in {"sent", "over"}
    BY <1>2, Zenon DEF CleanupInv, CleanupMoves, scheduleAsyncCleanupRequest
  <2> QED
    BY <2>1 DEF CleanupInv
<1> QED
  BY <1>1, <1>2

\* A status of the worker's task, as it is or as a step has just left it.
LEMMA CreatedStatus ==
    ASSUME TypeInv, TaskInv, NEW t \in TaskType, t.state = "FINISHED" => task.state = "FINISHED"
    PROVE  StatusInv(createTaskStatus(t))
<1>1. PICK v : v = createTaskStatus(t)
  OBVIOUS
<1>2. /\ v \in StatusType /\ v.instance = instance /\ v.state = t.state /\ ~v.local
      /\ instance \in 1 .. instance
  BY <1>1, BoundsAssumption DEF createTaskStatus, TypeInv, StatusType, TaskType, Instances
<1>3. StatusInv(v)
  BY <1>2 DEF StatusInv, TaskInv
<1> QED
  BY <1>1, <1>3

-----------------------------------------------------------------------------
(* The status of the task. *)

\* The status moves on, and the first terminal one makes the clean-up due.
StatusMoves ==
    /\ MayBecome(taskStatus')
    /\ cleanUpDue' = (cleanUpDue \/ (isDone(taskStatus'.state) /\ ~ended))

LEMMA StatusStill ==
    ASSUME UnderWayInv, UNCHANGED << taskStatus, cleanUpDue >> PROVE StatusMoves
<1>1. cleanUpDue \in BOOLEAN /\ ~(isDone(taskStatus'.state) /\ ~ended)
  BY DEF UnderWayInv, ended
<1>2. cleanUpDue' = (cleanUpDue \/ (isDone(taskStatus'.state) /\ ~ended))
  BY <1>1, Zenon
<1> QED
  BY <1>2 DEF StatusMoves, MayBecome

LEMMA AbortMoves ==
    ASSUME TypeInv, NEW state \in {"FAILED", "ABORTED"}, setStatus(abortedStatus(state))
    PROVE  StatusMoves /\ ended'
<1>1. PICK st : st = abortedStatus(state)
  OBVIOUS
<1>2. taskStatus' = st /\ cleanUpDue' = (cleanUpDue \/ (isDone(st.state) /\ ~ended))
  BY <1>1, Zenon DEF setStatus, ended
<1>3. CASE ended
  <2>1. st = taskStatus
    BY <1>1, <1>3 DEF abortedStatus, ended
  <2> QED
    BY <1>2, <1>3, <2>1 DEF StatusMoves, MayBecome, ended
<1>4. CASE ~ended
  <2>1. st = [taskStatus EXCEPT !.state = state, !.local = TRUE]
    BY <1>1, <1>4 DEF abortedStatus, ended, failWith
  <2>2. st \in StatusType /\ st.instance = known /\ st.state = state
    BY <2>1, Zenon DEF TypeInv, StatusType, TERMINAL_TASK_STATES, known
  <2>3. MayBecome(st) /\ isDone(st.state)
    BY <1>4, <2>2 DEF MayBecome, isDone, TERMINAL_TASK_STATES
  <2> QED
    BY <1>2, <2>3 DEF StatusMoves, ended
<1> QED
  BY <1>3, <1>4

LEMMA AnswerMoves ==
    ASSUME TypeInv, NEW v, StatusInv(v), NEW st \in statusAfter(v), setStatus(st)
    PROVE  StatusMoves
<1>1. MayBecome(st)
  BY AfterFacts
<1>2. taskStatus' = st /\ cleanUpDue' = (cleanUpDue \/ (isDone(st.state) /\ ~ended))
  BY Zenon DEF setStatus, ended
<1> QED
  BY <1>1, <1>2 DEF StatusMoves

LEMMA RequestFailedMoves ==
    ASSUME TypeInv, UnderWayInv, NEW tracker, requestFailed(tracker)
    PROVE  StatusMoves /\ CleanupMoves
<1>1. CASE UNCHANGED statusVars
  BY <1>1, StatusStill DEF statusVars, CleanupMoves
<1>2. CASE failTask
  BY <1>2, AbortMoves DEF failTask, abortWith, CleanupMoves
<1> QED
  BY <1>1, <1>2 DEF requestFailed


-----------------------------------------------------------------------------
(* What is pending is under way. *)

LEMMA UnderWayStays ==
    ASSUME TypeInv, UnderWayInv, StatusMoves,
           UNCHANGED << pendingSplits, pendingSourceSplitCount, noMoreSplits >>,
           ~ended' => \A s \in Sources :
                         /\ pendingSplits[s] # {} \/ noMoreSplits[s] = "pending"
                         /\ Awaited(s)
                         => Awaited(s)'
    PROVE  UnderWayInv'
<1>1. ended => ended'
  BY MayBecomeFacts DEF StatusMoves
<1>2. /\ cleanUpDue' \in BOOLEAN
      /\ cleanUpDue' => ended'
      /\ ended' /\ ~cleanUpDue' => ended /\ ~cleanUpDue
  BY <1>1, Zenon DEF StatusMoves, UnderWayInv, ended
<1>3. ended' /\ ~cleanUpDue' => \A s \in Sources : pendingSplits'[s] = {}
  BY <1>2, Zenon DEF UnderWayInv
<1>4. ASSUME ~ended', NEW s \in Sources, pendingSplits'[s] # {} \/ noMoreSplits'[s] = "pending"
      PROVE  Awaited(s)'
  BY <1>1, <1>4 DEF UnderWayInv
<1>5. pendingSourceSplitCount' = Cardinality(UNION { pendingSplits'[s] : s \in Sources })
  BY DEF UnderWayInv
<1> QED
  BY <1>2, <1>3, <1>4, <1>5, Zenon DEF UnderWayInv

\* One call goes on, and still carries what it carried.
LEMMA AwaitedMoved ==
    ASSUME NEW s, Awaited(s), NEW c \in calls, NEW d, calls' = (calls \ {c}) \cup {d},
           d.sources = c.sources, c.phase # "send", d.phase # "send",
           UNCHANGED << needsUpdate, scheduled, pendingSplits, noMoreSplits >>
    PROVE  Awaited(s)'
<1>1. CASE needsUpdate /\ (scheduled \/ calls # {})
  <2>1. calls' # {}
    OBVIOUS
  <2> QED
    BY <1>1, <2>1 DEF Awaited
<1>2. CASE ~(needsUpdate /\ (scheduled \/ calls # {}))
  <2>1. PICK e \in calls : /\ e.phase # "send"
                           /\ \E x \in e.sources : /\ x.source = s
                                                   /\ pendingSplits[s] \subseteq x.splits
                                                   /\ x.noMoreSplits \/ noMoreSplits[s] = "absent"
    BY <1>2 DEF Awaited
  <2>2. CASE e = c
    <3>1. d \in calls'
      OBVIOUS
    <3> QED
      BY <2>1, <2>2, <3>1 DEF Awaited
  <2>3. CASE e # c
    <3>1. e \in calls'
      BY <2>3
    <3> QED
      BY <2>1, <3>1, Zenon DEF Awaited
  <2> QED
    BY <2>2, <2>3
<1> QED
  BY <1>1, <1>2

\* sendUpdate, called with all but calls in their last step.
LEMMA SendAwaited ==
    ASSUME ~ended, NEW rest \in SUBSET calls, \A c \in calls : c \notin rest => c.phase = "send",
           sendUpdate(rest), UNCHANGED << pendingSplits, noMoreSplits >>,
           NEW s \in Sources, pendingSplits[s] # {} \/ noMoreSplits[s] = "pending", Awaited(s)
    PROVE  Awaited(s)'
<1>1. CASE ~needsUpdate \/ isRunning
  <2>1. calls' = rest /\ needsUpdate' = needsUpdate
    BY <1>1, Zenon DEF sendUpdate
  <2>2. CASE ~needsUpdate
    <3>1. PICK e \in calls : /\ e.phase # "send"
                             /\ \E x \in e.sources : /\ x.source = s
                                                     /\ pendingSplits[s] \subseteq x.splits
                                                     /\ x.noMoreSplits \/ noMoreSplits[s] = "absent"
      BY <2>2, Zenon DEF Awaited
    <3>2. e \in calls'
      BY <2>1, <3>1
    <3> QED
      BY <3>1, <3>2, Zenon DEF Awaited
  <2>3. CASE needsUpdate /\ isRunning
    <3>1. \E c \in calls : c.phase = "sent"
      BY <2>3, Zenon DEF isRunning
    <3>2. calls' # {}
      BY <2>1, <3>1
    <3> QED
      BY <2>1, <2>3, <3>2, Zenon DEF Awaited
  <2> QED
    BY <1>1, <2>2, <2>3
<1>2. CASE ~(~needsUpdate \/ isRunning)
  <2>1. PICK e : /\ e = [number |-> currentRequest', phase |-> "sent", fragment |-> sendPlan,
                         sources |-> getSources, value |-> initialTaskStatus]
                 /\ e \in calls'
    BY <1>2, Zenon DEF sendUpdate, ended
  <2>2. e.phase # "send" /\ e.sources = getSources
    BY <2>1, Zenon
  <2>3. PICK x \in e.sources : /\ x.source = s /\ x.splits = pendingSplits[s]
                               /\ x.noMoreSplits <=> noMoreSplits[s] # "absent"
    BY <2>2, PendingIsSent, Zenon
  <2> QED
    BY <2>1, <2>2, <2>3, Zenon DEF Awaited
<1> QED
  BY <1>1, <1>2

-----------------------------------------------------------------------------
(* Steps that leave the splits and the updates alone. *)

LEMMA SteadyStep ==
    ASSUME SplitsStay, Keeps, instance <= instance', ended => taskStatus' = taskStatus
    PROVE  Steady
BY DEF SplitsStay, Steady, AllTold

LEMMA SteadyInstance ==
    ASSUME SplitsStay, Keeps, instance \in Instances, instance' = instance,
           ended => taskStatus' = taskStatus
    PROVE  Steady
<1>1. instance <= instance'
  BY DEF Instances
<1> QED
  BY <1>1, SteadyStep, Zenon

LEMMA SideStep ==
    ASSUME RemoteInv, TaskStays, task'.state = "FINISHED" => task.state = "FINISHED",
           UNCHANGED << splitVars, updateVars, scenario >>, StatusMoves
    PROVE  /\ CoreInv' /\ Steady /\ UnderWayInv'
           /\ TaskInv' /\ CallsInv' /\ FinishedInv'
<1>1. /\ SplitsStay /\ UNCHANGED << needsUpdate, scheduled, calls, late, pendingSourceSplitCount >>
      /\ CoreInv /\ AnswersInv /\ UnderWayInv /\ TypeInv
      /\ MayBecome(taskStatus') /\ instance' = instance /\ instance \in Instances
  BY Zenon DEF splitVars, updateVars, SplitsStay, RemoteInv, CoreInv, StatusMoves, TaskStays, TypeInv
<1>2. Loads' = Loads
  BY <1>1 DEF Loads
<1>3. CoreInv' /\ Keeps
  BY <1>1, <1>2, CoreStays DEF LoadsStay
<1>4. ended => taskStatus' = taskStatus
  BY <1>1, MayBecomeFacts
<1>5. Steady
  BY <1>1, <1>3, <1>4, SteadyStep DEF Instances
<1>6. TaskInv'
  BY <1>1, <1>5, TaskInvStays DEF AnswersInv
<1>7. CallsInv'
  BY <1>1, <1>3, <1>5, CallsStay DEF AnswersInv, CallsGoOn, CoreInv
<1>8. FinishedInv'
  BY <1>1, <1>5, FinishedStays DEF AnswersInv
<1>9. \A s \in Sources : Awaited(s) => Awaited(s)'
  BY <1>1, Zenon DEF Awaited, SplitsStay
<1>10. UnderWayInv'
  BY <1>1, <1>9, UnderWayStays, Zenon DEF SplitsStay
<1> QED
  BY <1>3, <1>5, <1>6, <1>7, <1>8, <1>10

\* ... and the worker, too.
Aside ==
    /\ UNCHANGED << workerVars, splitVars, updateVars, scenario >>
    /\ StatusMoves /\ CleanupMoves
    /\ statusFetch' = statusFetch \/ statusFetch'.phase # "answered"

LEMMA AsideInv ==
    ASSUME RemoteInv, Aside PROVE RemoteInv'
<1>1. TaskStays /\ (task'.state = "FINISHED" => task.state = "FINISHED")
  BY DEF Aside, workerVars, TaskStays, RemoteInv, CoreInv, TypeInv
<1>2. UNCHANGED << splitVars, updateVars, scenario >>
  BY DEF Aside
<1>3. /\ CoreInv' /\ Steady /\ UnderWayInv'
      /\ TaskInv' /\ CallsInv' /\ FinishedInv'
  BY <1>1, <1>2, SideStep DEF Aside
<1>4. FetchInv' /\ CleanupInv'
  BY <1>3, FetchStays, CleanupStays DEF Aside, RemoteInv, CoreInv, AnswersInv
<1> QED
  BY <1>3, <1>4 DEF RemoteInv, AnswersInv

LEMMA StatusSteps ==
    ASSUME RemoteInv, scheduleNextRequest \/ ReceiveStatus \/ StatusFailed
    PROVE  RemoteInv'
<1>1. TypeInv /\ UnderWayInv /\ AnswersInv
  BY DEF RemoteInv, CoreInv
<1>2. UNCHANGED << workerVars, splitVars, updateVars, scenario >>
  BY Zenon DEF scheduleNextRequest, ReceiveStatus, StatusFailed, budgets
<1>3. statusFetch'.phase # "answered"
  BY DEF scheduleNextRequest, ReceiveStatus, StatusFailed, fetchIn
<1>4. ASSUME scheduleNextRequest PROVE StatusMoves /\ CleanupMoves
  BY <1>1, <1>4, StatusStill DEF scheduleNextRequest, statusVars, CleanupMoves
<1>5. ASSUME ReceiveStatus PROVE StatusMoves /\ CleanupMoves
  <2>1. StatusInv(statusFetch.value) /\ updateTaskStatus(statusFetch.value)
    BY <1>1, <1>5 DEF ReceiveStatus, AnswersInv, FetchInv
  <2>2. StatusMoves
    BY <1>1, <2>1, AnswerMoves DEF updateTaskStatus
  <2>3. CleanupMoves
    BY <2>1 DEF updateTaskStatus, CleanupMoves
  <2> QED
    BY <2>2, <2>3
<1>6. ASSUME StatusFailed PROVE StatusMoves /\ CleanupMoves
  <2>1. CASE requestFailed("status")
    BY <1>1, <2>1, RequestFailedMoves
  <2>2. CASE failTask
    BY <1>1, <2>2, AbortMoves DEF failTask, abortWith, CleanupMoves
  <2> QED
    BY <1>6, <2>1, <2>2, Zenon DEF StatusFailed
<1>7. Aside
  BY <1>2, <1>3, <1>4, <1>5, <1>6 DEF Aside
<1> QED
  BY <1>7, AsideInv

LEMMA InfoSteps ==
    ASSUME RemoteInv, AnswerInfo \/ ReceiveInfo \/ InfoFailed
    PROVE  RemoteInv'
<1>1. TypeInv /\ UnderWayInv /\ AnswersInv
  BY DEF RemoteInv, CoreInv
<1>2. UNCHANGED << workerVars, splitVars, updateVars, scenario, statusFetch >>
  BY Zenon DEF AnswerInfo, ReceiveInfo, InfoFailed, budgets
<1>3. UNCHANGED statusVars \/ failTask
  BY Zenon DEF AnswerInfo, ReceiveInfo, InfoFailed
<1>4. StatusMoves /\ CleanupMoves
  <2>1. CASE UNCHANGED statusVars
    BY <1>1, <2>1, StatusStill DEF statusVars, CleanupMoves
  <2>2. CASE failTask
    BY <1>1, <2>2, AbortMoves DEF failTask, abortWith, CleanupMoves
  <2> QED
    BY <1>3, <2>1, <2>2
<1>5. Aside
  BY <1>2, <1>4 DEF Aside
<1> QED
  BY <1>5, AsideInv

LEMMA EndSteps ==
    ASSUME RemoteInv, cancel \/ abort \/ ReceiveCleanup \/ CleanupFailed
    PROVE  RemoteInv'
<1>1. TypeInv /\ UnderWayInv /\ AnswersInv /\ CleanupInv
  BY DEF RemoteInv, CoreInv, AnswersInv
<1>2. UNCHANGED << workerVars, splitVars, updateVars, scenario, statusFetch >>
  BY Zenon DEF cancel, abort, ReceiveCleanup, CleanupFailed, budgets
<1>3. ASSUME cancel PROVE StatusMoves /\ CleanupMoves
  BY <1>1, <1>3, StatusStill DEF cancel, CleanupMoves
<1>4. ASSUME abort PROVE StatusMoves /\ CleanupMoves
  BY <1>1, <1>4, AbortMoves DEF abort, abortWith, CleanupMoves
<1>5. ASSUME ReceiveCleanup PROVE StatusMoves /\ CleanupMoves
  <2>1. StatusInv(cleanup.value)
    BY <1>1, <1>5 DEF ReceiveCleanup, CleanupInv
  <2>2. \E st \in statusAfter(cleanup.value) : setStatus(st)
    BY <1>5, Zenon DEF ReceiveCleanup
  <2>3. StatusMoves
    BY <1>1, <2>1, <2>2, AnswerMoves
  <2>4. CleanupMoves
    BY <1>5 DEF ReceiveCleanup, CleanupMoves
  <2> QED
    BY <2>3, <2>4
<1>6. ASSUME CleanupFailed PROVE StatusMoves /\ CleanupMoves
  <2>1. UNCHANGED << taskStatus, cleanUpDue >>
    BY <1>6, Zenon DEF CleanupFailed
  <2>2. CleanupMoves
    BY <1>6 DEF CleanupFailed, CleanupMoves
  <2> QED
    BY <1>1, <2>1, <2>2, StatusStill
<1>7. Aside
  BY <1>2, <1>3, <1>4, <1>5, <1>6 DEF Aside
<1> QED
  BY <1>7, AsideInv


\* The worker answers the status fetcher.
LEMMA AnswerStatusStep ==
    ASSUME RemoteInv, AnswerStatus PROVE RemoteInv'
<1>1. TypeInv /\ UnderWayInv /\ AnswersInv
  BY DEF RemoteInv, CoreInv
<1>2. /\ UNCHANGED << workerVars, splitVars, updateVars, scenario, statusVars >>
      /\ statusFetch' = [phase |-> "answered", value |-> createTaskStatus(task)]
  BY Zenon DEF AnswerStatus
<1>3. TaskStays /\ (task'.state = "FINISHED" => task.state = "FINISHED")
  BY <1>1, <1>2, Zenon DEF workerVars, TaskStays, TypeInv
<1>4. UNCHANGED << splitVars, updateVars, scenario >> /\ UNCHANGED << taskStatus, cleanUpDue, cleanup >>
  BY <1>2 DEF statusVars
<1>5. StatusMoves
  BY <1>1, <1>4, StatusStill
<1>6. /\ CoreInv' /\ Steady /\ UnderWayInv'
      /\ TaskInv' /\ CallsInv' /\ FinishedInv'
  BY <1>3, <1>4, <1>5, SideStep
<1>7. CleanupInv'
  BY <1>1, <1>4, <1>6, CleanupStays DEF CleanupMoves, AnswersInv, CoreInv
<1>8. PICK v : v = createTaskStatus(task)
  OBVIOUS
<1>9. StatusInv(v)
  BY <1>1, <1>8, CreatedStatus, Zenon DEF TypeInv, AnswersInv
<1>10. StatusInv(v)'
  BY <1>1, <1>6, <1>9, StatusInvStays DEF CoreInv
<1>11. statusFetch'.value = v
  BY <1>2, <1>8
<1>12. FetchInv'
  BY <1>10, <1>11 DEF FetchInv
<1> QED
  BY <1>6, <1>7, <1>12 DEF RemoteInv, AnswersInv

LEMMA DoneTask ==
    ASSUME TypeInv, NEW state \in TERMINAL_TASK_STATES, NEW t, t = transitionToDone(task, state)
    PROVE  /\ t \in TaskType
           /\ t.maxAcknowledgedSplit = task.maxAcknowledgedSplit
           /\ t.noMoreSplits = task.noMoreSplits
           /\ t.state = "FINISHED" => task.state = "FINISHED" \/ state = "FINISHED"
BY DEF TypeInv, TaskType, transitionToDone

\* The worker handles the DELETE request.
LEMMA ExecuteCleanupStep ==
    ASSUME RemoteInv, ExecuteCleanup PROVE RemoteInv'
<1>1. TypeInv /\ UnderWayInv /\ AnswersInv /\ CleanupInv
  BY DEF RemoteInv, CoreInv, AnswersInv
<1>2. /\ cleanup.phase = "sent" /\ task' = transitionToDone(task, cleanup.state)
      /\ cleanup' = [cleanup EXCEPT !.phase = "answered", !.value = createTaskStatus(task')]
      /\ UNCHANGED << instance, ran, taskStatus, cleanUpDue, statusFetch >>
      /\ UNCHANGED << splitVars, updateVars, scenario >>
  BY Zenon DEF ExecuteCleanup, budgets
<1>3. PICK state \in {"ABORTED", "CANCELED"} : state = cleanup.state
  BY <1>1, <1>2 DEF CleanupInv
<1>4. TaskStays /\ (task'.state = "FINISHED" => task.state = "FINISHED")
  BY <1>1, <1>2, <1>3, DoneTask DEF TaskStays, TERMINAL_TASK_STATES
<1>5. StatusMoves
  BY <1>1, <1>2, StatusStill
<1>6. /\ CoreInv' /\ Steady /\ UnderWayInv'
      /\ TaskInv' /\ CallsInv' /\ FinishedInv'
  BY <1>2, <1>4, <1>5, SideStep
<1>7. FetchInv'
  BY <1>1, <1>2, <1>6, FetchStays DEF AnswersInv, CoreInv
<1>8. PICK v : v = createTaskStatus(task')
  OBVIOUS
<1>9. StatusInv(v)
  BY <1>1, <1>4, <1>8, CreatedStatus, Zenon DEF AnswersInv, TaskStays
<1>10. StatusInv(v)'
  BY <1>1, <1>6, <1>9, StatusInvStays DEF CoreInv
<1>11. DOMAIN cleanup' = {"phase", "state", "value"} /\ cleanup'.state = state /\ cleanup'.value = v
  BY <1>1, <1>2, <1>3, <1>8 DEF CleanupInv
<1>12. CleanupInv'
  BY <1>10, <1>11 DEF CleanupInv
<1> QED
  BY <1>6, <1>7, <1>12 DEF RemoteInv, AnswersInv

\* checkTaskCompletion: a task that was told of all splits has started them.
LEMMA CompletionIsComplete ==
    ASSUME CoreInv, ~ended, task.noMoreSplits = Sources PROVE Complete(instance)
<1>1. AllTold
  BY DEF CoreInv, PendingInv, AllTold
<1>2. ASSUME NEW n \in SplitIds, n < nextSplitId
      PROVE  ran[instance][n] = 1 \/ (known # 0 /\ known # instance)
  <2>1. Started(n) \/ \E s \in Sources : n \in pendingSplits[s]
    BY <1>2 DEF CoreInv, PendingInv
  <2>2. Started(n) \/ n <= task.maxAcknowledgedSplit
    BY <2>1 DEF CoreInv, PendingInv
  <2>3. Started(n) \/ ran[instance][n] = 1
    BY <2>2 DEF CoreInv, RanInv
  <2> QED
    BY <2>3 DEF Started
<1> QED
  BY <1>1, <1>2 DEF Complete

LEMMA WorkerSteps ==
    ASSUME RemoteInv, WorkerStep PROVE RemoteInv'
<1>1. CoreInv /\ TypeInv /\ UnderWayInv /\ AnswersInv
  BY DEF RemoteInv, CoreInv
<1>2. /\ UNCHANGED << splitVars, updateVars, scenario >>
      /\ UNCHANGED << statusFetch, taskStatus, cleanUpDue, cleanup >>
  BY DEF WorkerStep, statusVars, budgets
<1>3. /\ SplitsStay /\ UNCHANGED << needsUpdate, scheduled, calls, late, pendingSourceSplitCount >>
  BY <1>2 DEF splitVars, updateVars, SplitsStay
<1>4. StatusMoves
  BY <1>1, <1>2, StatusStill
<1>5. ASSUME CoreInv', Steady, UnderWayInv', TaskInv', CallsInv', FinishedInv' PROVE RemoteInv'
  <2>1. FetchInv'
    BY <1>1, <1>2, <1>5, FetchStays DEF AnswersInv, CoreInv
  <2>2. CleanupInv'
    BY <1>1, <1>2, <1>5, CleanupStays DEF AnswersInv, CoreInv, CleanupMoves
  <2> QED
    BY <1>5, <2>1, <2>2 DEF RemoteInv, AnswersInv
<1>6. CASE failed
  <2>1. TaskStays /\ (task'.state = "FINISHED" => task.state = "FINISHED")
    BY <1>1, <1>6, DoneTask DEF failed, TaskStays, TERMINAL_TASK_STATES
  <2> QED
    BY <1>2, <1>4, <1>5, <2>1, SideStep
<1>7. CASE checkTaskCompletion
  <2>1. TaskStays
    BY <1>1, <1>7, DoneTask DEF checkTaskCompletion, TaskStays, TERMINAL_TASK_STATES
  <2>2. Loads' = Loads
    BY <1>3 DEF Loads
  <2>3. CoreInv' /\ Keeps
    BY <1>1, <1>3, <1>4, <2>1, <2>2, CoreStays DEF LoadsStay, StatusMoves
  <2>4. Steady
    BY <1>1, <1>2, <1>3, <2>1, <2>3, SteadyStep DEF TaskStays, TypeInv, Instances
  <2>5. TaskInv'
    <3>1. SUFFICES ASSUME ~ended' PROVE Complete(instance)'
      BY DEF TaskInv
    <3>2. PICK i \in Instances : i = instance
      BY <1>1 DEF TypeInv
    <3>3. Complete(i)
      BY <1>1, <1>2, <1>7, <3>1, <3>2, CompletionIsComplete, Zenon DEF ended, checkTaskCompletion
    <3>4. Complete(i)'
      BY <1>1, <2>4, <3>3, CompleteStays
    <3> QED
      BY <2>1, <3>2, <3>4 DEF TaskStays
  <2>6. CallsInv' /\ FinishedInv'
    BY <1>1, <1>3, <1>4, <2>3, <2>4, CallsStay, FinishedStays DEF AnswersInv, CallsGoOn, CoreInv, StatusMoves
  <2>7. \A s \in Sources : Awaited(s) => Awaited(s)'
    BY <1>3, Zenon DEF Awaited, SplitsStay
  <2>8. UnderWayInv'
    BY <1>1, <1>3, <1>4, <2>7, UnderWayStays, Zenon DEF SplitsStay
  <2> QED
    BY <1>5, <2>3, <2>4, <2>5, <2>6, <2>8
<1>8. CASE Restart
  <2>1. Loads' = Loads
    BY <1>3 DEF Loads
  <2>2. CoreInv' /\ Keeps
    BY <1>1, <1>2, <1>3, <1>8, <2>1, RestartCore DEF LoadsStay
  <2>3. Steady
    <3>1. instance \in Instances /\ instance' = instance + 1
      BY <1>1, <1>8, Zenon DEF Restart, TypeInv
    <3>2. instance <= instance'
      BY <3>1 DEF Instances
    <3> QED
      BY <1>2, <1>3, <2>2, <3>2, SteadyStep, Zenon
  <2>4. TaskInv'
    BY <1>8 DEF TaskInv, Restart, createSqlTask
  <2>5. CallsInv' /\ FinishedInv'
    BY <1>1, <1>3, <1>4, <2>2, <2>3, CallsStay, FinishedStays DEF AnswersInv, CallsGoOn, CoreInv, StatusMoves
  <2>6. \A s \in Sources : Awaited(s) => Awaited(s)'
    BY <1>3, Zenon DEF Awaited, SplitsStay
  <2>7. UnderWayInv'
    BY <1>1, <1>3, <1>4, <2>6, UnderWayStays, Zenon DEF SplitsStay
  <2> QED
    BY <1>5, <2>2, <2>3, <2>4, <2>5, <2>7
<1> QED
  BY <1>6, <1>7, <1>8 DEF WorkerStep


-----------------------------------------------------------------------------
(* The callbacks of updates. *)

LEMMA Assemble ==
    ASSUME RemoteInv, CoreInv', Steady, instance' = instance,
           task'.state = "FINISHED" => task.state = "FINISHED",
           CallsInv', MayBecome(taskStatus'), CleanupMoves, UnderWayInv',
           statusFetch' = statusFetch \/ statusFetch'.phase # "answered"
    PROVE  RemoteInv'
<1>1. TypeInv /\ TypeInv' /\ TaskInv /\ FetchInv /\ CleanupInv /\ FinishedInv
  BY DEF RemoteInv, CoreInv, AnswersInv
<1>2. TaskInv' /\ FinishedInv' /\ CleanupInv' /\ FetchInv'
  BY <1>1, TaskInvStays, FinishedStays, CleanupStays, FetchStays, Zenon
<1> QED
  BY <1>2 DEF RemoteInv, AnswersInv

\* Call c becomes d, and may be given up.
Moves(c, d) ==
    /\ d.sources \in {c.sources, {}}
    /\ calls' \subseteq calls \cup {d}
    /\ late' \subseteq late \cup {posted(c)}

LEMMA MovedLoads ==
    ASSUME NEW c \in calls, NEW d, Moves(c, d)
    PROVE  LoadsStay
<1>1. posted(c).sources = c.sources
  BY PostedSources, Zenon
<1>2. ASSUME NEW S \in Loads' PROVE S \in Loads \cup {{}}
  <2>1. CASE \E e \in calls' : S = e.sources
    <3>1. PICK e \in calls' : S = e.sources
      BY <2>1, Zenon
    <3>2. e \in calls \/ e = d
      BY <3>1, Zenon DEF Moves
    <3>3. d.sources \in {c.sources, {}}
      BY Zenon DEF Moves
    <3> QED
      BY <3>1, <3>2, <3>3, Zenon DEF Loads
  <2>2. CASE \E q \in late' : S = q.sources
    <3>1. PICK q \in late' : S = q.sources
      BY <2>2, Zenon
    <3>2. q \in late \/ q = posted(c)
      BY <3>1, Zenon DEF Moves
    <3> QED
      BY <1>1, <3>1, <3>2, Zenon DEF Loads
  <2> QED
    BY <2>1, <2>2, Zenon DEF Loads
<1> QED
  BY <1>2, Zenon DEF LoadsStay

LEMMA MovedCall ==
    ASSUME NEW c, CallShape(c), NEW phase, NEW d, d = [c EXCEPT !.phase = phase]
    PROVE  CallShape(d) /\ d.phase = phase /\ d.sources = c.sources /\ d.value = c.value
BY DEF CallShape

LEMMA SendingCall ==
    ASSUME NEW c, CallShape(c), NEW d,
           d = [c EXCEPT !.phase = "send", !.fragment = FALSE, !.sources = {}, !.value = initialTaskStatus]
    PROVE  CallShape(d) /\ d.phase = "send" /\ d.sources = {}
BY DEF CallShape, initialTaskStatus, StatusType

\* A step of one call that leaves the worker and what is pending alone.
LEMMA CallStep ==
    ASSUME RemoteInv, WorkerStays, SplitsStay, pendingSourceSplitCount' = pendingSourceSplitCount,
           LoadsStay, CallsGoOn, StatusMoves, CleanupMoves, statusFetch' = statusFetch,
           ~ended' => \A s \in Sources :
                         /\ pendingSplits[s] # {} \/ noMoreSplits[s] = "pending"
                         /\ Awaited(s)
                         => Awaited(s)'
    PROVE  RemoteInv'
<1>1. CoreInv /\ TypeInv /\ UnderWayInv /\ CallsInv /\ MayBecome(taskStatus')
  BY DEF RemoteInv, CoreInv, AnswersInv, StatusMoves
<1>2. TaskStays /\ instance' = instance /\ task' = task /\ instance \in Instances
  BY <1>1, Zenon DEF WorkerStays, TaskStays, TypeInv
<1>3. CoreInv' /\ Keeps
  BY <1>1, <1>2, CoreStays, Zenon
<1>4. ended => taskStatus' = taskStatus
  BY <1>1, MayBecomeFacts
<1>5. Steady
  BY <1>2, <1>3, <1>4, SteadyInstance, Zenon
<1>6. CallsInv'
  BY <1>1, <1>3, <1>5, CallsStay, Zenon DEF CoreInv
<1>7. UnderWayInv'
  BY <1>1, UnderWayStays, Zenon DEF SplitsStay
<1> QED
  BY <1>1, <1>2, <1>3, <1>5, <1>6, <1>7, Assemble, Zenon

LEMMA ReceiveStep ==
    ASSUME RemoteInv, NEW c \in calls, ReceiveUpdate(c) \/ UpdateFailed(c)
    PROVE  RemoteInv'
<1>1. CallShape(c) /\ UnderWayInv
  BY DEF RemoteInv, AnswersInv, CallsInv, CallInv
<1>2. PICK phase \in {"process", "flag"} :
        /\ calls' = moved(c, phase)
        /\ phase = "process" => c.phase = "answered"
        /\ c.phase # "send"
  BY Zenon DEF ReceiveUpdate, UpdateFailed
<1>3. PICK d : d = [c EXCEPT !.phase = phase]
  BY Zenon
<1>4. CallShape(d) /\ d.phase = phase /\ d.sources = c.sources /\ d.value = c.value
  BY <1>1, <1>3, MovedCall
<1>5. calls' = (calls \ {c}) \cup {d}
  BY <1>2, <1>3 DEF moved
<1>6. UNCHANGED << workerVars, splitVars, needsUpdate, scheduled, late, statusVars, statusFetch, scenario >>
  BY Zenon DEF ReceiveUpdate, UpdateFailed, budgets
<1>7. /\ WorkerStays /\ SplitsStay /\ pendingSourceSplitCount' = pendingSourceSplitCount
      /\ UNCHANGED << taskStatus, cleanUpDue, cleanup >>
      /\ UNCHANGED << needsUpdate, scheduled, pendingSplits, noMoreSplits, statusFetch >>
      /\ late' = late
  BY <1>6, Zenon DEF workerVars, splitVars, statusVars, WorkerStays, SplitsStay
<1>8. LoadsStay
  <2>1. Moves(c, d)
    BY <1>4, <1>5, <1>7, Zenon DEF Moves
  <2> QED
    BY <2>1, MovedLoads, Zenon
<1>9. CallsGoOn
  BY <1>2, <1>4, <1>5 DEF CallsGoOn
<1>10. StatusMoves /\ CleanupMoves
  BY <1>1, <1>7, StatusStill DEF CleanupMoves
<1>11. \A s \in Sources : Awaited(s) => Awaited(s)'
  BY <1>2, <1>4, <1>5, <1>7, AwaitedMoved, Zenon
<1> QED
  BY <1>7, <1>8, <1>9, <1>10, <1>11, CallStep, Zenon

LEMMA RecordFailureStep ==
    ASSUME RemoteInv, NEW c \in calls, recordFailure(c)
    PROVE  RemoteInv'
<1>1. CallShape(c) /\ UnderWayInv /\ TypeInv
  BY DEF RemoteInv, AnswersInv, CallsInv, CallInv, CoreInv
<1>2. PICK d : d = [c EXCEPT !.phase = "send", !.fragment = FALSE, !.sources = {}, !.value = initialTaskStatus]
  OBVIOUS
<1>3. CallShape(d) /\ d.phase = "send" /\ d.sources = {}
  BY <1>1, <1>2, SendingCall, Zenon
<1>4. calls' = (calls \ {c}) \cup {d} /\ needsUpdate' = TRUE
  BY <1>2 DEF recordFailure, sending
<1>5. UNCHANGED << workerVars, splitVars, late, statusFetch, scenario >> /\ requestFailed("update")
  BY Zenon DEF recordFailure, budgets
<1>6. WorkerStays /\ SplitsStay /\ UNCHANGED << pendingSourceSplitCount, late, statusFetch >>
  BY <1>5 DEF workerVars, splitVars, WorkerStays, SplitsStay
<1>7. LoadsStay
  <2>1. Moves(c, d)
    BY <1>3, <1>4, <1>6, Zenon DEF Moves
  <2> QED
    BY <2>1, MovedLoads, Zenon
<1>8. CallsGoOn
  BY <1>3, <1>4 DEF CallsGoOn
<1>9. StatusMoves /\ CleanupMoves
  BY <1>1, <1>5, RequestFailedMoves
<1>10. \A s \in Sources : Awaited(s)'
  BY <1>4 DEF Awaited
<1> QED
  BY <1>6, <1>7, <1>8, <1>9, <1>10, CallStep, Zenon

LEMMA FatalStep ==
    ASSUME RemoteInv, NEW c \in calls, fatal(c)
    PROVE  RemoteInv'
<1>1. UnderWayInv /\ TypeInv
  BY DEF RemoteInv, CoreInv
<1>2. /\ UNCHANGED << workerVars, splitVars, late, statusFetch, scenario >>
      /\ failTask /\ calls' = calls \ {c}
  BY Zenon DEF fatal
<1>3. WorkerStays /\ SplitsStay /\ UNCHANGED << pendingSourceSplitCount, late, statusFetch >>
  BY <1>2 DEF workerVars, splitVars, WorkerStays, SplitsStay
<1>4. LoadsStay /\ CallsGoOn
  BY <1>2, <1>3, Zenon DEF LoadsStay, Loads, CallsGoOn
<1>5. StatusMoves /\ ended' /\ CleanupMoves
  BY <1>1, <1>2, AbortMoves DEF failTask, abortWith, CleanupMoves
<1> QED
  BY <1>3, <1>4, <1>5, CallStep


\* sendUpdate, called with all but calls in their last step.
LEMMA SendStep ==
    ASSUME RemoteInv, NEW rest \in SUBSET calls, \A c \in calls : c \notin rest => c.phase = "send",
           sendUpdate(rest), WorkerStays, SplitsStay,
           UNCHANGED << pendingSourceSplitCount, late, statusFetch >>,
           UNCHANGED << taskStatus, cleanUpDue, cleanup >>
    PROVE  RemoteInv'
<1>1. CoreInv /\ TypeInv /\ UnderWayInv /\ CallsInv /\ instance \in Instances
  BY Zenon DEF RemoteInv, CoreInv, AnswersInv, TypeInv
<1>2. StatusMoves /\ CleanupMoves /\ MayBecome(taskStatus')
  BY <1>1, StatusStill DEF CleanupMoves, StatusMoves
<1>3. ASSUME ~ended', NEW s \in Sources,
             pendingSplits[s] # {} \/ noMoreSplits[s] = "pending", Awaited(s)
      PROVE  Awaited(s)'
  <2>1. ~ended
    BY <1>3 DEF ended
  <2> QED
    BY <1>3, <2>1, SendAwaited, Zenon DEF SplitsStay
<1>4. CASE ~needsUpdate \/ ended \/ isRunning
  <2>1. calls' = rest
    BY <1>4 DEF sendUpdate, ended
  <2>2. LoadsStay /\ CallsGoOn
    BY <2>1, Zenon DEF LoadsStay, Loads, CallsGoOn
  <2> QED
    BY <1>2, <1>3, <2>2, CallStep
<1>5. CASE ~(~needsUpdate \/ ended \/ isRunning)
  <2>1. PICK e : /\ e = [number |-> currentRequest', phase |-> "sent", fragment |-> sendPlan,
                         sources |-> getSources, value |-> initialTaskStatus]
                 /\ calls' = rest \cup {e}
    BY <1>5, Zenon DEF sendUpdate, ended
  <2>2. CallShape(e) /\ e.phase = "sent" /\ e.sources = getSources
    BY <2>1, Zenon DEF CallShape, initialTaskStatus, StatusType
  <2>3. Loads' \subseteq Loads \cup {{}, getSources}
    BY <2>1, <2>2 DEF Loads
  <2>4. CallsGoOn
    BY <2>1, <2>2 DEF CallsGoOn
  <2>5. CoreInv' /\ Keeps
    BY <1>1, <1>5, <2>3, SendCore
  <2>6. Steady /\ instance' = instance /\ task' = task
    BY <1>1, <2>5, SteadyStep DEF WorkerStays, Instances
  <2>7. CallsInv'
    BY <1>1, <2>4, <2>5, <2>6, CallsStay DEF CoreInv
  <2>8. UnderWayInv'
    BY <1>1, <1>2, <1>3, UnderWayStays DEF SplitsStay
  <2> QED
    BY <1>2, <2>5, <2>6, <2>7, <2>8, Assemble
<1> QED
  BY <1>4, <1>5

LEMMA RunScheduledStep ==
    ASSUME RemoteInv, RunScheduled PROVE RemoteInv'
<1>1. sendUpdate(calls) /\ UNCHANGED << workerVars, splitVars, late, statusVars, statusFetch, scenario >>
  BY Zenon DEF RunScheduled, budgets
<1>2. /\ WorkerStays /\ SplitsStay
      /\ UNCHANGED << pendingSourceSplitCount, late, statusFetch >>
      /\ UNCHANGED << taskStatus, cleanUpDue, cleanup >>
  BY <1>1 DEF workerVars, splitVars, statusVars, WorkerStays, SplitsStay
<1> QED
  BY <1>1, <1>2, SendStep

LEMMA SendNextStep ==
    ASSUME RemoteInv, NEW c \in calls, SendNext(c) PROVE RemoteInv'
<1>1. c.phase = "send" /\ UNCHANGED << workerVars, splitVars, late, statusVars, statusFetch, scenario >>
  BY Zenon DEF SendNext, budgets
<1>2. /\ WorkerStays /\ SplitsStay
      /\ UNCHANGED << pendingSourceSplitCount, late, statusFetch >>
      /\ UNCHANGED << taskStatus, cleanUpDue, cleanup >>
  BY <1>1 DEF workerVars, splitVars, statusVars, WorkerStays, SplitsStay
<1>3. CASE sendUpdate(calls \ {c})
  BY <1>1, <1>2, <1>3, SendStep
<1>4. CASE calls' = calls \ {c} /\ scheduled' = TRUE /\ needsUpdate' = needsUpdate
  <2>1. LoadsStay /\ CallsGoOn
    BY <1>2, <1>4, Zenon DEF LoadsStay, Loads, CallsGoOn
  <2>2. StatusMoves /\ CleanupMoves
    BY <1>2, StatusStill DEF CleanupMoves, RemoteInv
  <2>3. ASSUME NEW s \in Sources, Awaited(s) PROVE Awaited(s)'
    <3>1. CASE needsUpdate
      BY <1>4, <3>1 DEF Awaited
    <3>2. CASE ~needsUpdate
      <4>1. PICK e \in calls : /\ e.phase # "send"
                               /\ \E x \in e.sources : /\ x.source = s
                                                       /\ pendingSplits[s] \subseteq x.splits
                                                       /\ x.noMoreSplits \/ noMoreSplits[s] = "absent"
        BY <2>3, <3>2 DEF Awaited
      <4>2. e \in calls'
        BY <1>1, <1>4, <4>1
      <4> QED
        BY <1>2, <4>1, <4>2, Zenon DEF Awaited, SplitsStay
    <3> QED
      BY <3>1, <3>2
  <2> QED
    BY <1>2, <2>1, <2>2, <2>3, CallStep
<1> QED
  BY <1>3, <1>4, Zenon DEF SendNext

-----------------------------------------------------------------------------
(* Updates at the worker. *)

LEMMA HandledCore ==
    ASSUME CoreInv, NEW request, request.sources \in Loads, handleUpdate(request),
           SplitsStay, LoadsStay, taskStatus' = taskStatus
    PROVE  /\ CoreInv' /\ Keeps /\ Steady /\ instance' = instance /\ task' \in TaskType
           /\ task'.state = "FINISHED" => task.state = "FINISHED"
           /\ ~isDone(task'.state) =>
                 \A x \in request.sources : \A n \in x.splits : ran'[instance][n] = 1 \/ Started(n)'
<1>1. PICK S \in Loads : S = request.sources
  OBVIOUS
<1>2. ASSUME CoreInv', Keeps, instance' = instance PROVE Steady
  BY <1>2, SteadyInstance, Zenon DEF CoreInv, TypeInv
<1>3. CASE Taken(S)
  <2>1. /\ CoreInv' /\ Keeps
        /\ \A x \in S : \A n \in x.splits : ran'[instance][n] = 1 \/ Started(n)'
    BY <1>3, TakenCore, Zenon
  <2> QED
    BY <1>1, <1>2, <1>3, <2>1, Zenon DEF Taken
<1>4. CASE Refused
  <2>1. CoreInv' /\ Keeps
    BY <1>4, CoreStays DEF Refused, MayBecome
  <2> QED
    BY <1>2, <1>4, <2>1, Zenon DEF Refused, TaskStays
<1> QED
  BY <1>1, <1>3, <1>4, HandleEffect, Zenon

LEMMA ExecuteStep ==
    ASSUME RemoteInv, NEW c \in calls, Execute(c) PROVE RemoteInv'
<1>1. CoreInv /\ TypeInv /\ UnderWayInv /\ CallsInv /\ TaskInv /\ CallShape(c)
  BY DEF RemoteInv, CoreInv, AnswersInv, CallsInv, CallInv
<1>2. /\ c.phase = "sent" /\ handleUpdate(c)
      /\ UNCHANGED << splitVars, needsUpdate, scheduled, late, statusVars, statusFetch, scenario >>
  BY Zenon DEF Execute, budgets
<1>3. /\ SplitsStay /\ pendingSourceSplitCount' = pendingSourceSplitCount
      /\ UNCHANGED << taskStatus, cleanUpDue, cleanup >>
      /\ UNCHANGED << needsUpdate, scheduled, pendingSplits, noMoreSplits, statusFetch >>
      /\ late' = late
  BY <1>2, Zenon DEF splitVars, statusVars, SplitsStay
<1>4. PICK v : v = createTaskStatus(task')
  OBVIOUS
<1>5. PICK d : d = [c EXCEPT !.phase = "answered", !.value = v]
  OBVIOUS
<1>6. calls' = (calls \ {c}) \cup {d}
  BY <1>2, <1>4, <1>5 DEF Execute, handleUpdate
<1>7. d.phase = "answered" /\ d.value = v /\ d.sources = c.sources /\ DOMAIN d = DOMAIN c
  BY <1>1, <1>5 DEF CallShape
<1>8. LoadsStay
  <2>1. Moves(c, d)
    BY <1>7, <1>6, <1>3, Zenon DEF Moves
  <2> QED
    BY <2>1, MovedLoads, Zenon
<1>9. c.sources \in Loads
  BY DEF Loads
<1>10. /\ CoreInv' /\ Keeps /\ Steady /\ instance' = instance /\ task' \in TaskType
       /\ task'.state = "FINISHED" => task.state = "FINISHED"
       /\ ~isDone(task'.state) =>
             \A x \in c.sources : \A n \in x.splits : ran'[instance][n] = 1 \/ Started(n)'
  BY <1>1, <1>2, <1>3, <1>8, <1>9, HandledCore, Zenon
<1>11. StatusInv(v)
  BY <1>1, <1>4, <1>10, CreatedStatus, Zenon
<1>12. StatusInv(v)'
  BY <1>1, <1>10, <1>11, StatusInvStays, Zenon DEF CoreInv
<1>13. v.state = task'.state /\ v.instance = instance /\ v \in StatusType
  BY <1>4, <1>11, Zenon DEF createTaskStatus, StatusInv
<1>14. AnswerInv(v, c.sources)'
  <2>1. PICK S : S = c.sources
    OBVIOUS
  <2>2. AnswerInv(v, S)'
    BY <1>10, <1>12, <1>13, <2>1, Zenon DEF AnswerInv
  <2> QED
    BY <2>1, <2>2
<1>15. CallInv(d)'
  BY <1>1, <1>7, <1>13, <1>14, Zenon DEF CallInv, CallShape
<1>16. CallsInv'
  BY <1>1, <1>6, <1>10, <1>15, CallStays, Zenon DEF CallsInv, CoreInv
<1>17. StatusMoves /\ CleanupMoves /\ MayBecome(taskStatus')
  BY <1>1, <1>3, StatusStill DEF CleanupMoves, StatusMoves
<1>18. \A s \in Sources : Awaited(s) => Awaited(s)'
  BY <1>2, <1>3, <1>6, <1>7, AwaitedMoved, Zenon
<1>19. UnderWayInv'
  BY <1>1, <1>3, <1>17, <1>18, UnderWayStays, Zenon
<1> QED
  BY <1>3, <1>10, <1>16, <1>17, <1>19, Assemble, Zenon

LEMMA LoseStep ==
    ASSUME RemoteInv, NEW c \in calls, Lose(c) PROVE RemoteInv'
<1>1. CoreInv /\ TypeInv /\ UnderWayInv /\ CallsInv /\ CallShape(c)
  BY DEF RemoteInv, CoreInv, AnswersInv, CallsInv, CallInv
<1>2. /\ c.phase = "sent" /\ calls' = moved(c, "failed")
      /\ UNCHANGED << splitVars, needsUpdate, scheduled, statusVars, statusFetch, scenario >>
      /\ \/ handleUpdate(c) /\ UNCHANGED late
         \/ late' = late \cup {posted(c)} /\ UNCHANGED workerVars
  BY Zenon DEF Lose
<1>3. /\ SplitsStay /\ pendingSourceSplitCount' = pendingSourceSplitCount
      /\ UNCHANGED << taskStatus, cleanUpDue, cleanup >>
      /\ UNCHANGED << needsUpdate, scheduled, pendingSplits, noMoreSplits, statusFetch >>
  BY <1>2 DEF splitVars, statusVars, SplitsStay
<1>4. PICK d : d = [c EXCEPT !.phase = "failed"]
  BY Zenon
<1>5. calls' = (calls \ {c}) \cup {d}
  BY <1>2, <1>4 DEF moved
<1>6. CallShape(d) /\ d.phase = "failed" /\ d.sources = c.sources
  BY <1>1, <1>4, MovedCall
<1>7. LoadsStay
  <2>1. Moves(c, d)
    BY <1>6, <1>5, <1>2, Zenon DEF Moves
  <2> QED
    BY <2>1, MovedLoads, Zenon
<1>8. CallsGoOn
  BY <1>5, <1>6 DEF CallsGoOn
<1>9. StatusMoves /\ CleanupMoves /\ MayBecome(taskStatus')
  BY <1>1, <1>3, StatusStill DEF CleanupMoves, StatusMoves
<1>10. \A s \in Sources : Awaited(s) => Awaited(s)'
  BY <1>2, <1>3, <1>5, <1>6, AwaitedMoved
<1>11. CASE UNCHANGED workerVars
  BY <1>3, <1>7, <1>8, <1>9, <1>10, <1>11, CallStep, Zenon DEF workerVars, WorkerStays
<1>12. CASE handleUpdate(c)
  <2>1. c.sources \in Loads
    BY DEF Loads
  <2>2. /\ CoreInv' /\ Steady /\ instance' = instance
        /\ task'.state = "FINISHED" => task.state = "FINISHED"
    BY <1>1, <1>3, <1>7, <1>12, <2>1, HandledCore, Zenon
  <2>3. CallsInv'
    BY <1>1, <1>8, <2>2, CallsStay DEF CoreInv
  <2>4. UnderWayInv'
    BY <1>1, <1>3, <1>9, <1>10, UnderWayStays, Zenon
  <2> QED
    BY <1>3, <1>9, <2>2, <2>3, <2>4, Assemble
<1> QED
  BY <1>2, <1>11, <1>12

LEMMA ExecuteLateStep ==
    ASSUME RemoteInv, NEW request \in late, ExecuteLate(request) PROVE RemoteInv'
<1>1. CoreInv /\ TypeInv /\ UnderWayInv /\ CallsInv
  BY DEF RemoteInv, CoreInv, AnswersInv
<1>2. /\ handleUpdate(request) /\ late' = late \ {request}
      /\ UNCHANGED << splitVars, needsUpdate, scheduled, calls, statusVars, statusFetch, scenario >>
  BY Zenon DEF ExecuteLate, budgets
<1>3. /\ SplitsStay /\ pendingSourceSplitCount' = pendingSourceSplitCount
      /\ UNCHANGED << taskStatus, cleanUpDue, cleanup >>
      /\ UNCHANGED << needsUpdate, scheduled, calls, pendingSplits, noMoreSplits, statusFetch >>
  BY <1>2 DEF splitVars, statusVars, SplitsStay
<1>4. LoadsStay /\ CallsGoOn /\ request.sources \in Loads
  BY <1>2, <1>3, Zenon DEF LoadsStay, Loads, CallsGoOn
<1>5. /\ CoreInv' /\ Steady /\ instance' = instance
      /\ task'.state = "FINISHED" => task.state = "FINISHED"
  BY <1>1, <1>2, <1>3, <1>4, HandledCore, Zenon
<1>6. CallsInv'
  BY <1>1, <1>4, <1>5, CallsStay DEF CoreInv
<1>7. StatusMoves /\ CleanupMoves /\ MayBecome(taskStatus')
  BY <1>1, <1>3, StatusStill DEF CleanupMoves, StatusMoves
<1>8. \A s \in Sources : Awaited(s) => Awaited(s)'
  BY <1>3, Zenon DEF Awaited
<1>9. UnderWayInv'
  BY <1>1, <1>3, <1>7, <1>8, UnderWayStays, Zenon
<1> QED
  BY <1>3, <1>5, <1>6, <1>7, <1>9, Assemble


-----------------------------------------------------------------------------
(* The splits of the coordinator. *)

\* All that is pending.
Pending == UNION { pendingSplits[s] : s \in Sources }

LEMMA PendingIsFinite ==
    ASSUME TypeInv PROVE Pending \in SUBSET SplitIds /\ IsFiniteSet(Pending)
<1>1. Pending \in SUBSET SplitIds
  BY DEF TypeInv, Pending
<1>2. IsFiniteSet(SplitIds)
  BY BoundsAssumption, FS_Interval DEF SplitIds
<1> QED
  BY <1>1, <1>2, FS_Subset

LEMMA AddStep ==
    ASSUME RemoteInv, NEW s \in Sources, addSplits(s) PROVE RemoteInv'
<1>1. CoreInv /\ TypeInv /\ UnderWayInv /\ CallsInv
  BY DEF RemoteInv, CoreInv, AnswersInv
<1>2. CoreInv' /\ Keeps
  BY <1>1, AddCore
<1>3. /\ UNCHANGED << workerVars, calls, statusVars, statusFetch >>
      /\ ~ended /\ noMoreSplits[s] = "absent" /\ noMoreSplits' = noMoreSplits
      /\ pendingSplits' = [pendingSplits EXCEPT ![s] = @ \cup {nextSplitId}]
      /\ pendingSourceSplitCount' = pendingSourceSplitCount + 1
      /\ needsUpdate' = TRUE /\ scheduled' = TRUE
  BY Zenon DEF addSplits, ended
<1>4. UNCHANGED << instance, task, calls, taskStatus, cleanUpDue, cleanup, statusFetch >>
  BY <1>3 DEF workerVars, statusVars
<1>5. Steady
  BY <1>1, <1>2, <1>3, <1>4 DEF Steady, AllTold, TypeInv, Instances
<1>6. CallsInv'
  BY <1>1, <1>2, <1>4, <1>5, CallsStay DEF CallsGoOn, CoreInv
<1>7. StatusMoves /\ CleanupMoves /\ MayBecome(taskStatus')
  BY <1>1, <1>4, StatusStill DEF CleanupMoves, StatusMoves
<1>8. nextSplitId \notin Pending
  <2>1. nextSplitId \in 0 .. MaxSplits /\ PendingInv
    BY <1>1, Zenon DEF CoreInv, TypeInv
  <2>2. ~(nextSplitId < nextSplitId)
    BY <2>1, BoundsAssumption
  <2>3. SUFFICES ASSUME NEW t \in Sources, nextSplitId \in pendingSplits[t] PROVE FALSE
    BY Zenon DEF Pending
  <2> QED
    BY <2>1, <2>2, <2>3, Zenon DEF PendingInv
<1>9. Pending' = Pending \cup {nextSplitId}
  <2>1. pendingSplits \in [Sources -> SUBSET SplitIds]
    BY <1>1 DEF TypeInv
  <2>2. \A t \in Sources : pendingSplits'[t] = IF t = s THEN pendingSplits[s] \cup {nextSplitId}
                                                        ELSE pendingSplits[t]
    BY <1>3, <2>1
  <2> QED
    BY <2>2, Zenon DEF Pending
<1>10. pendingSourceSplitCount' = Cardinality(Pending')
  <2>1. pendingSourceSplitCount = Cardinality(Pending)
    BY <1>1, Zenon DEF UnderWayInv, Pending
  <2>2. Cardinality(Pending \cup {nextSplitId}) = Cardinality(Pending) + 1
    BY <1>1, <1>8, PendingIsFinite, FS_AddElement, Zenon
  <2> QED
    BY <1>3, <1>9, <2>1, <2>2
<1>11. \A t \in Sources : Awaited(t)'
  BY <1>3, Zenon DEF Awaited
<1>12. UnderWayInv'
  BY <1>1, <1>3, <1>4, <1>10, <1>11, Zenon DEF UnderWayInv, Pending, ended
<1> QED
  BY <1>2, <1>4, <1>5, <1>6, <1>7, <1>12, Assemble

LEMMA NoMoreStep ==
    ASSUME RemoteInv, NEW s \in Sources, setNoMoreSplits(s) PROVE RemoteInv'
<1>1. CoreInv /\ TypeInv /\ UnderWayInv /\ CallsInv
  BY DEF RemoteInv, CoreInv, AnswersInv
<1>2. CoreInv' /\ Keeps
  BY <1>1, NoMoreCore
<1>3. /\ UNCHANGED << workerVars, calls, statusVars, statusFetch >>
      /\ noMoreSplits[s] = "absent"
      /\ UNCHANGED << nextSplitId, pendingSplits, pendingSourceSplitCount >>
      /\ needsUpdate' = TRUE /\ scheduled' = TRUE
  BY Zenon DEF setNoMoreSplits
<1>4. UNCHANGED << instance, task, calls, taskStatus, cleanUpDue, cleanup, statusFetch >>
  BY <1>3 DEF workerVars, statusVars
<1>5. Steady
  <2>1. instance \in Instances /\ instance' = instance
    BY <1>1, <1>4, Zenon DEF TypeInv
  <2>2. instance <= instance'
    BY <2>1 DEF Instances
  <2>3. ~AllTold
    BY <1>3, Zenon DEF AllTold
  <2> QED
    BY <1>2, <1>3, <1>4, <2>2, <2>3, Zenon DEF Steady
<1>6. CallsInv'
  BY <1>1, <1>2, <1>4, <1>5, CallsStay DEF CallsGoOn, CoreInv
<1>7. StatusMoves /\ CleanupMoves /\ MayBecome(taskStatus')
  BY <1>1, <1>4, StatusStill DEF CleanupMoves, StatusMoves
<1>8. \A t \in Sources : Awaited(t)'
  BY <1>3, Zenon DEF Awaited
<1>9. UnderWayInv'
  BY <1>1, <1>3, <1>4, <1>8, Zenon DEF UnderWayInv, ended
<1> QED
  BY <1>2, <1>4, <1>5, <1>6, <1>7, <1>9, Assemble

LEMMA CleanUpStep ==
    ASSUME RemoteInv, cleanUpTask PROVE RemoteInv'
<1>1. CoreInv /\ TypeInv /\ UnderWayInv /\ CallsInv /\ ended
  BY DEF RemoteInv, CoreInv, AnswersInv, UnderWayInv, cleanUpTask
<1>2. /\ UNCHANGED << workerVars, nextSplitId, noMoreSplits, taskStatus, scenario >>
      /\ cleanUpDue' = FALSE
      /\ pendingSplits' = [t \in Sources |-> {}] /\ pendingSourceSplitCount' = 0
      /\ cleanup' = scheduleAsyncCleanupRequest("ABORTED")
      /\ statusFetch' = fetchIn("stopped")
  BY Zenon DEF cleanUpTask, budgets
<1>3. WorkerStays
  BY <1>2 DEF workerVars, WorkerStays
<1>4. ASSUME NEW e \in calls'
      PROVE  \/ e \in calls
             \/ CallShape(e) /\ e.phase = "failed" /\ \E c \in calls : e.sources = c.sources
  <2>1. PICK c \in calls : e = c \/ e = [c EXCEPT !.phase = "failed"]
    BY DEF cleanUpTask
  <2> QED
    BY <1>1, <2>1, MovedCall DEF CallsInv, CallInv
<1>5. \A r \in late' : r \in late \/ \E c \in calls : r.sources = c.sources
  BY DEF cleanUpTask, posted
<1>6. LoadsStay
  BY <1>4, <1>5 DEF LoadsStay, Loads
<1>7. CallsGoOn
  BY <1>4 DEF CallsGoOn
<1>8. CoreInv' /\ Keeps
  BY <1>1, <1>2, <1>3, <1>6, CleanUpCore
<1>9. Steady /\ instance' = instance /\ task' = task
  <2>1. instance \in Instances /\ instance' = instance /\ task' = task
    BY <1>1, <1>3, Zenon DEF TypeInv, WorkerStays
  <2>2. instance <= instance'
    BY <2>1 DEF Instances
  <2>3. AllTold => AllTold'
    BY <1>2, Zenon DEF AllTold
  <2> QED
    BY <1>2, <1>8, <2>1, <2>2, <2>3, Zenon DEF Steady
<1>10. CallsInv'
  BY <1>1, <1>7, <1>8, <1>9, CallsStay DEF CoreInv
<1>11. CleanupMoves /\ MayBecome(taskStatus') /\ statusFetch'.phase # "answered"
  BY <1>2 DEF CleanupMoves, MayBecome, fetchIn
<1>12. UnderWayInv'
  <2>1. UNION { pendingSplits'[t] : t \in Sources } = {}
    BY <1>2
  <2>2. pendingSourceSplitCount' = Cardinality(UNION { pendingSplits'[t] : t \in Sources })
    BY <1>2, <2>1, FS_EmptySet
  <2>3. ended' /\ \A t \in Sources : pendingSplits'[t] = {}
    BY <1>1, <1>2 DEF ended
  <2> QED
    BY <1>2, <2>2, <2>3, Zenon DEF UnderWayInv
<1> QED
  BY <1>8, <1>9, <1>10, <1>11, <1>12, Assemble

\* What an answer acknowledges is counted once: no split is pending for two sources.
LEMMA AcknowledgedCount ==
    ASSUME TypeInv, PendingInv, NEW c, Acknowledges(c)
    PROVE  Cardinality(Pending') = Cardinality(Pending) - Cardinality(removedSplits(c))
<1>1. PICK R : R = removedSplits(c)
  OBVIOUS
<1>2. \A s \in Sources : pendingSplits'[s] = pendingSplits[s] \ carried(c, s)
  BY Zenon DEF Acknowledges
<1>3. \A n : n \in R <=> \E s \in Sources : n \in pendingSplits[s] /\ n \in carried(c, s)
  BY <1>1 DEF removedSplits
<1>4. \A n : n \in Pending <=> \E s \in Sources : n \in pendingSplits[s]
  BY DEF Pending
<1>5. \A n : n \in Pending' <=> \E s \in Sources : n \in pendingSplits[s] /\ n \notin carried(c, s)
  BY <1>2 DEF Pending
<1>6. \A s, t \in Sources, n \in SplitIds : n \in pendingSplits[s] /\ n \in pendingSplits[t] => s = t
  BY Zenon DEF PendingInv
<1>7. Pending' = Pending \ R /\ Pending \cap R = R
  BY <1>3, <1>4, <1>5, <1>6, PendingIsFinite
<1>8. Cardinality(Pending \ R) = Cardinality(Pending) - Cardinality(Pending \cap R)
  BY PendingIsFinite, FS_Difference, Zenon
<1> QED
  BY <1>1, <1>7, <1>8, Zenon

LEMMA AcknowledgeAwaited ==
    ASSUME TypeInv, NEW c \in calls, LoadInv(c.sources), Acknowledges(c), NEW d,
           calls' = (calls \ {c}) \cup {d}, UNCHANGED << needsUpdate, scheduled >>,
           NEW s \in Sources, pendingSplits'[s] # {} \/ noMoreSplits'[s] = "pending",
           pendingSplits[s] # {} \/ noMoreSplits[s] = "pending" => Awaited(s)
    PROVE  Awaited(s)'
<1>1. /\ pendingSplits'[s] = pendingSplits[s] \ carried(c, s)
      /\ noMoreSplits'[s] = IF \E x \in c.sources : x.source = s /\ x.noMoreSplits
                            THEN "sent" ELSE noMoreSplits[s]
  BY Zenon DEF Acknowledges
<1>2. Awaited(s)
  BY <1>1, Zenon
<1>3. CASE needsUpdate /\ (scheduled \/ calls # {})
  <2>1. calls' # {}
    OBVIOUS
  <2> QED
    BY <1>3, <2>1, Zenon DEF Awaited
<1>4. CASE ~(needsUpdate /\ (scheduled \/ calls # {}))
  <2>1. PICK e \in calls : /\ e.phase # "send"
                           /\ \E x \in e.sources : /\ x.source = s
                                                   /\ pendingSplits[s] \subseteq x.splits
                                                   /\ x.noMoreSplits \/ noMoreSplits[s] = "absent"
    BY <1>2, <1>4, Zenon DEF Awaited
  <2>2. PICK x \in e.sources : /\ x.source = s
                               /\ pendingSplits[s] \subseteq x.splits
                               /\ x.noMoreSplits \/ noMoreSplits[s] = "absent"
    BY <2>1, Zenon
  <2>3. CASE e = c
    <3>1. x.splits \subseteq carried(c, s)
      BY <2>2, <2>3, Zenon DEF carried
    <3>2. pendingSplits'[s] = {}
      BY <1>1, <2>2, <3>1, Zenon
    <3> QED
      BY <1>1, <2>2, <2>3, <3>2, Zenon
  <2>4. CASE e # c
    <3>1. e \in calls' /\ pendingSplits'[s] \subseteq x.splits
      BY <1>1, <2>2, <2>4, Zenon
    <3>2. noMoreSplits[s] = "absent" => noMoreSplits'[s] = "absent"
      BY <1>1, Zenon DEF LoadInv
    <3> QED
      BY <2>1, <2>2, <3>1, <3>2, Zenon DEF Awaited
  <2> QED
    BY <2>3, <2>4, Zenon
<1> QED
  BY <1>3, <1>4, Zenon


LEMMA ProcessStep ==
    ASSUME RemoteInv, NEW c \in calls, processTaskUpdate(c) PROVE RemoteInv'
<1>1. /\ CoreInv /\ TypeInv /\ PendingInv /\ UnderWayInv /\ CallsInv /\ CallShape(c)
      /\ c.sources \in Loads /\ LoadInv(c.sources) /\ instance \in Instances
  BY Zenon DEF RemoteInv, CoreInv, AnswersInv, CallsInv, CallInv, LoadsInv, Loads, TypeInv
<1>2. /\ c.phase = "process" /\ updateTaskStatus(c.value)
      /\ Acknowledges(c)
      /\ pendingSourceSplitCount' = pendingSourceSplitCount - Cardinality(removedSplits(c))
      /\ UNCHANGED << workerVars, nextSplitId, needsUpdate, scheduled, late, statusFetch >>
  BY Zenon DEF processTaskUpdate, updateTaskInfo, Acknowledges, budgets
<1>3. AnswerInv(c.value, c.sources) /\ StatusInv(c.value)
  BY <1>1, <1>2, Zenon DEF CallsInv, CallInv, AnswerInv
<1>4. PICK d : d = [c EXCEPT !.phase = "send", !.fragment = FALSE, !.sources = {}, !.value = initialTaskStatus]
  OBVIOUS
<1>5. CallShape(d) /\ d.phase = "send" /\ d.sources = {}
  BY <1>1, <1>4, SendingCall, Zenon
<1>6. calls' = (calls \ {c}) \cup {d}
  BY <1>4 DEF processTaskUpdate, sending
<1>7. WorkerStays /\ instance' = instance /\ task' = task
  BY <1>2 DEF workerVars, WorkerStays
<1>8. LoadsStay /\ CallsGoOn
  <2>1. Moves(c, d)
    BY <1>5, <1>6, <1>2, Zenon DEF Moves
  <2>3. CallsGoOn
    BY <1>5, <1>6 DEF CallsGoOn
  <2> QED
    BY <2>1, <2>3, MovedLoads, Zenon
<1>9. PICK st \in statusAfter(c.value) : setStatus(st)
  BY <1>2 DEF updateTaskStatus
<1>10. taskStatus' = st
  BY <1>9, Zenon DEF setStatus
<1>11. StatusMoves
  BY <1>1, <1>3, <1>9, AnswerMoves
<1>12. CleanupMoves
  BY <1>2 DEF updateTaskStatus, CleanupMoves
<1>13. CoreInv' /\ Keeps /\ MayBecome(taskStatus')
  BY <1>1, <1>2, <1>3, <1>7, <1>8, <1>9, <1>10, AcknowledgeCore
<1>14. ended => taskStatus' = taskStatus /\ ended'
  BY <1>1, <1>13, MayBecomeFacts
<1>15. AllTold => AllTold'
  BY <1>2, Zenon DEF AllTold, Acknowledges
<1>16. Steady
  BY <1>1, <1>2, <1>7, <1>13, <1>14, <1>15 DEF Steady, Instances
<1>17. CallsInv'
  BY <1>1, <1>8, <1>13, <1>16, CallsStay DEF CoreInv
<1>18. UnderWayInv'
  <2>1. pendingSourceSplitCount' = Cardinality(Pending')
    BY <1>1, <1>2, AcknowledgedCount, Zenon DEF UnderWayInv, Pending
  <2>2. /\ cleanUpDue' \in BOOLEAN
        /\ cleanUpDue' => ended'
        /\ ended' /\ ~cleanUpDue' => ended /\ ~cleanUpDue
    BY <1>1, <1>11, <1>14, Zenon DEF StatusMoves, UnderWayInv, ended
  <2>3. \A s \in Sources : pendingSplits[s] = {} => pendingSplits'[s] = {}
    BY <1>2, Zenon DEF Acknowledges
  <2>4. ended' /\ ~cleanUpDue' => \A s \in Sources : pendingSplits'[s] = {}
    BY <1>1, <2>2, <2>3, Zenon DEF UnderWayInv
  <2>5. ASSUME ~ended', NEW s \in Sources, pendingSplits'[s] # {} \/ noMoreSplits'[s] = "pending"
        PROVE  Awaited(s)'
    <3>1. pendingSplits[s] # {} \/ noMoreSplits[s] = "pending" => Awaited(s)
      BY <1>1, <1>14, <2>5, Zenon DEF UnderWayInv
    <3> QED
      BY <1>1, <1>2, <1>6, <2>5, <3>1, AcknowledgeAwaited, Zenon
  <2> QED
    BY <2>1, <2>2, <2>4, <2>5, Zenon DEF UnderWayInv, Pending
<1> QED
  BY <1>2, <1>7, <1>12, <1>13, <1>16, <1>17, <1>18, Assemble

-----------------------------------------------------------------------------
(* The theorems. *)

LEMMA StutterInv ==
    ASSUME RemoteInv, UNCHANGED vars PROVE RemoteInv'
<1>1. /\ UNCHANGED << workerVars, splitVars, updateVars, scenario >>
      /\ UNCHANGED << taskStatus, cleanUpDue, cleanup, statusFetch >>
  BY DEF vars, statusVars, budgets
<1>2. Aside
  BY <1>1, StatusStill DEF Aside, CleanupMoves, RemoteInv
<1> QED
  BY <1>2, AsideInv

LEMMA NextInv ==
    ASSUME RemoteInv, Next PROVE RemoteInv'
<1>1. ASSUME NEW s \in Sources, addSplits(s) \/ setNoMoreSplits(s) PROVE RemoteInv'
  BY <1>1, AddStep, NoMoreStep
<1>2. ASSUME NEW c \in calls, \/ Execute(c) \/ Lose(c) \/ fatal(c)
                              \/ ReceiveUpdate(c) \/ processTaskUpdate(c)
                              \/ UpdateFailed(c) \/ recordFailure(c) \/ SendNext(c)
      PROVE  RemoteInv'
  BY <1>2, ExecuteStep, LoseStep, FatalStep, ReceiveStep, ProcessStep, RecordFailureStep, SendNextStep
<1>3. ASSUME NEW request \in late, ExecuteLate(request) PROVE RemoteInv'
  BY <1>3, ExecuteLateStep
<1>4. ASSUME \/ RunScheduled
             \/ scheduleNextRequest \/ AnswerStatus \/ ReceiveStatus \/ StatusFailed
             \/ AnswerInfo \/ ReceiveInfo \/ InfoFailed
      PROVE  RemoteInv'
  BY <1>4, RunScheduledStep, StatusSteps, AnswerStatusStep, InfoSteps
<1>5. ASSUME \/ cancel \/ abort \/ cleanUpTask
             \/ ExecuteCleanup \/ ReceiveCleanup \/ CleanupFailed \/ WorkerStep
      PROVE  RemoteInv'
  BY <1>5, EndSteps, CleanUpStep, ExecuteCleanupStep, WorkerSteps
<1> QED
  BY <1>1, <1>2, <1>3, <1>4, <1>5 DEF Next

\* RemoteInv is an invariant of the remote task and its worker: of HttpRemoteTask and its
\* fetchers with SqlTask, whatever is lost, late, restarted or overtaken.
THEOREM RemoteInvariant == Spec => []RemoteInv
<1>1. Init => RemoteInv
  BY InitInv
<1>2. RemoteInv /\ [Next]_vars => RemoteInv'
  BY NextInv, StutterInv
<1> QED
  BY <1>1, <1>2, PTL DEF Spec

\* SqlTaskExecution.updateSources: no instance of a task starts a split twice, and the
\* one that the coordinator knows never meets a new split of a source that is complete.
THEOREM SplitsAreStartedOnce == Spec => []SplitsStartOnce
<1>1. ASSUME RemoteInv PROVE SplitsStartOnce
  <2>1. /\ \A i \in Instances, n \in SplitIds : ran[i][n] \in {0, 1}
        /\ RanInv /\ \A S \in Loads : LoadInv(S)
        /\ instance \in Instances /\ task.maxAcknowledgedSplit \in Int
    BY <1>1 DEF RemoteInv, CoreInv, LoadsInv, TypeInv, TaskType
  <2>2. \A i \in Instances, n \in SplitIds : ran[i][n] <= 1
    BY <2>1, ZeroOrOne, Zenon
  <2>3. ASSUME known \in {0, instance}, NEW request \in Carried PROVE ~addedAfterNoMore(request.sources)
    <3>1. PICK S \in Loads : S = request.sources
      BY CarriedIsLoad, Zenon
    <3>2. SUFFICES ASSUME NEW x \in S, x.source \in task.noMoreSplits,
                          NEW n \in x.splits, n \in newSplits(S)
                   PROVE  FALSE
      BY <3>1 DEF addedAfterNoMore
    <3>3. n \in SplitIds /\ n > task.maxAcknowledgedSplit
      BY <2>1, <3>2, Zenon DEF newSplits, LoadInv, SourceType
    <3>4. n <= task.maxAcknowledgedSplit \/ Started(n)
      BY <2>1, <3>2, Zenon DEF LoadInv
    <3>5. n \in Int
      BY <3>3, SplitIdsAreIntegers, Zenon
    <3>6. ~(n <= task.maxAcknowledgedSplit)
      BY <2>1, <3>3, <3>5, NotAtMost, Zenon
    <3>7. ran[instance][n] = 1
      BY <2>3, <3>4, <3>6 DEF Started
    <3> QED
      BY <2>1, <3>3, <3>6, <3>7, Zenon DEF RanInv
  <2> QED
    BY <2>2, <2>3 DEF SplitsStartOnce, known
<1> QED
  BY <1>1, RemoteInvariant, PTL

\* HttpRemoteTask: a task whose status is FINISHED has started every split that was added,
\* all of them on the instance that finished.
THEOREM FinishedStartedAll == Spec => []FinishedIsComplete
<1>1. ASSUME RemoteInv PROVE FinishedIsComplete
  <2>1. FinishedInv /\ nextSplitId \in 0 .. MaxSplits /\ MaxSplits \in Nat
    BY <1>1, BoundsAssumption DEF RemoteInv, CoreInv, AnswersInv, TypeInv
  <2>2. \A n \in 0 .. nextSplitId - 1 : n \in SplitIds /\ n < nextSplitId
    BY <2>1 DEF SplitIds
  <2> QED
    BY <2>1, <2>2 DEF FinishedInv, FinishedIsComplete, known
<1> QED
  BY <1>1, RemoteInvariant, PTL

\* HttpRemoteTask: what is pending is under way or will be sent, and is counted exactly,
\* however the callbacks of updates and the clean-up interleave.
THEOREM NothingIsForgotten == Spec => []UpdateIsUnderWay
<1>1. ASSUME RemoteInv PROVE UpdateIsUnderWay
  BY <1>1, Zenon DEF RemoteInv, UnderWayInv, UpdateIsUnderWay, Awaited, ended
<1> QED
  BY <1>1, RemoteInvariant, PTL
=============================================================================
