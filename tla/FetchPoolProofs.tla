--------------------------- MODULE FetchPoolProofs ---------------------------
(***************************************************************************)
(* Proofs about FetchPool, for every set of files and chunks, every plan,  *)
(* any number of workers and any budget.                                   *)
(*                                                                         *)
(* NothingLost rests on the life of a task: a chunk is submitted only      *)
(* after its file's plan was taken, a taken plan is done, and a done task  *)
(* is never queued or run again.  So when a worker creates a file, none of *)
(* the file's chunks has been submitted, let alone written.                *)
(***************************************************************************)
EXTENDS FetchPool, TLAPS

BP == INSTANCE ByteBudgetProofs WITH Callers <- Chunks

\* The queue holds tasks that are queued, each once.
QueueInv ==
    /\ IsInjective(queue)
    /\ \A t \in Range(queue) : task[t] = "queued"

\* What is about to be submitted has never been, and comes once.
SubmitInv ==
    /\ IsInjective(toSubmit)
    /\ \A t \in Range(toSubmit) : task[t] = "new"

\* A worker is idle or has a running task, which no other worker has.
JobInv ==
    \A w \in Workers :
        /\ at[w] = "idle" <=> job[w] = NoTask
        /\ job[w] # NoTask => task[job[w]] = "running"
        /\ \A v \in Workers : job[v] = job[w] /\ job[w] # NoTask => v = w

PlanPlaces == {"read chunkmap", "create file"}
HoldingPlaces == {"read chunk", "write", "release", "release and raise"}
FetchPlaces == {"acquire"} \cup HoldingPlaces

\* A worker is at a place of the kind of task it has.
PlaceInv ==
    \A w \in Workers :
        /\ at[w] \in PlanPlaces => job[w] \in Files
        /\ at[w] \in FetchPlaces => job[w] \in Chunks

\* Taken plans are done, and only their chunks are ever submitted.
TakenInv ==
    /\ \A f \in taken : task[f] = "done"
    /\ \A c \in Chunks :
           task[c] # "new" \/ c \in Range(toSubmit) => FileOf[c] \in taken

\* Only chunks that were submitted have landed.
LandedInv == \A c \in landed : task[c] # "new"

\* BudgetFollowsWorkers, worker by worker and chunk by chunk.
CallInv ==
    /\ \A w \in Workers :
           /\ at[w] = "acquire" => call[job[w]] \in {"trying", "waiting"}
           /\ at[w] \in HoldingPlaces => call[job[w]] = "holding"
    /\ \A c \in Chunks :
           /\ call[c] \in {"trying", "waiting"} =>
                  \E w \in Workers : job[w] = c /\ at[w] = "acquire"
           /\ call[c] = "holding" =>
                  \E w \in Workers : job[w] = c /\ at[w] \in HoldingPlaces

TaskInv ==
    /\ QueueInv
    /\ SubmitInv
    /\ JobInv
    /\ PlaceInv
    /\ TakenInv
    /\ LandedInv

IInv == TypeOK /\ BP!IInv /\ TaskInv /\ CallInv

-----------------------------------------------------------------------------
(***************************************************************************)
(* Facts about sequences and plans.                                        *)
(***************************************************************************)

\* A sequence without repetition loses exactly its head.
LEMMA HeadLeaves ==
    ASSUME NEW S, NEW s \in Seq(S), s # <<>>, IsInjective(s)
    PROVE  /\ Head(s) \in S /\ Head(s) \in Range(s)
           /\ Tail(s) \in Seq(S) /\ IsInjective(Tail(s))
           /\ Range(Tail(s)) \subseteq Range(s)
           /\ Head(s) \notin Range(Tail(s))
<1>1. /\ Len(s) \in Nat /\ Len(s) # 0 /\ DOMAIN s = 1 .. Len(s)
      /\ Head(s) = s[1] /\ Tail(s) \in Seq(S)
      /\ DOMAIN Tail(s) = 1 .. Len(s) - 1
      /\ \A i \in 1 .. Len(s) - 1 : Tail(s)[i] = s[i + 1]
  OBVIOUS
<1> QED
  BY <1>1 DEF Range, IsInjective

\* A new element at the end keeps a sequence free of repetition.
LEMMA AppendNew ==
    ASSUME NEW S, NEW s \in Seq(S), NEW e \in S, IsInjective(s), e \notin Range(s)
    PROVE  /\ Append(s, e) \in Seq(S) /\ IsInjective(Append(s, e))
           /\ Range(Append(s, e)) = Range(s) \cup {e}
<1>1. /\ Len(s) \in Nat /\ DOMAIN s = 1 .. Len(s)
      /\ Append(s, e) \in Seq(S)
      /\ DOMAIN Append(s, e) = 1 .. Len(s) + 1
      /\ \A i \in 1 .. Len(s) : Append(s, e)[i] = s[i]
      /\ Append(s, e)[Len(s) + 1] = e
  OBVIOUS
<1> QED
  BY <1>1 DEF Range, IsInjective

\* Sequences of files and sequences of chunks are sequences of tasks.
LEMMA SeqsOfTasks == Seq(Files) \subseteq Seq(Tasks) /\ Seq(Chunks) \subseteq Seq(Tasks)
  BY DEF Tasks

\* Each chunk is in the plan of its file, and in no other.
LEMMA FileOfPlan ==
    ASSUME NEW c \in Chunks
    PROVE  /\ FileOf[c] \in Files
           /\ \A f \in Files : c \in Range(PlanOf[f]) <=> f = FileOf[c]
<1>1. \E f \in Files : c \in Range(PlanOf[f])
  BY PlansAssumption
<1>2. FileOf[c] = CHOOSE f \in Files : c \in Range(PlanOf[f])
  BY DEF FileOf
<1>3. FileOf[c] \in Files /\ c \in Range(PlanOf[FileOf[c]])
  BY <1>1, <1>2
<1> QED
  BY <1>3, PlansAssumption

-----------------------------------------------------------------------------
(***************************************************************************)
(* The budget inside the pool.                                             *)
(***************************************************************************)

\* A step of the pool is a step of the budget or leaves it alone, so the
\* budget's invariant is kept.
LEMMA BudgetStep ==
    ASSUME BP!IInv, [Budget!Next]_budgetVars
    PROVE  BP!IInv'
<1>1. [BP!Next]_(BP!budgetVars)
  BY DEF Budget!Next, Budget!Call, Budget!Admit, Budget!Park, Budget!Release,
         Budget!MustWait, Budget!Woken,
         BP!Next, BP!Call, BP!Admit, BP!Park, BP!Release, BP!MustWait, BP!Woken,
         BP!budgetVars, budgetVars
<1> QED
  BY <1>1, BP!NextIInv, BudgetAssumption

\* The budget's invariant includes its type invariant.
LEMMA BudgetTyped == BP!IInv => Budget!TypeOK
  BY DEF BP!IInv, BP!TypeOK, BP!CallState, Budget!TypeOK, Budget!CallState

LEMMA BudgetTypedNext == BP!IInv' => Budget!TypeOK'
  BY DEF BP!IInv, BP!TypeOK, BP!CallState, Budget!TypeOK, Budget!CallState

-----------------------------------------------------------------------------
(***************************************************************************)
(* The initial states.                                                     *)
(***************************************************************************)

LEMMA InitIInv == Init => IInv
<1> SUFFICES ASSUME Init PROVE IInv
  OBVIOUS
<1>1. BP!IInv
  <2>1. BP!Init
    BY DEF Init, Budget!Init, BP!Init
  <2> QED
    BY <2>1, BP!InitIInv, BudgetAssumption
<1>2. TypeOK
  <2>1. Budget!TypeOK
    BY <1>1, BudgetTyped
  <2>2. /\ toSubmit \in Seq(Tasks) /\ queue \in Seq(Tasks) /\ fetches \in Seq(Chunks)
        /\ collected \in 0 .. Len(fetches)
    BY SeqsOfTasks, PlansAssumption DEF Init
  <2>3. task \in [Tasks -> TaskState] /\ at \in [Workers -> Place]
        /\ job \in [Workers -> Tasks \cup {NoTask}]
    BY DEF Init, TaskState, Place
  <2>4. interrupts \in 0 .. MaxInterrupts
    BY SetsAssumption DEF Init
  <2> QED
    BY <2>1, <2>2, <2>3, <2>4 DEF Init, TypeOK
<1>3. Range(queue) = {}
  BY DEF Init, Range
<1>4. QueueInv
  BY <1>3 DEF Init, QueueInv, IsInjective
<1>5. SubmitInv
  BY PlansAssumption DEF Init, SubmitInv, Tasks
<1>6. JobInv /\ PlaceInv
  BY DEF Init, JobInv, PlaceInv, PlanPlaces, FetchPlaces, HoldingPlaces
<1>7. TakenInv /\ LandedInv
  BY PlansAssumption, SetsAssumption DEF Init, TakenInv, LandedInv, Tasks
<1>8. CallInv
  BY DEF Init, Budget!Init, CallInv, HoldingPlaces
<1> QED
  BY <1>1, <1>2, <1>4, <1>5, <1>6, <1>7, <1>8 DEF IInv, TaskInv

-----------------------------------------------------------------------------
(***************************************************************************)
(* The main thread.                                                        *)
(***************************************************************************)

\* Steps that only move the main thread along keep the invariant.
LEMMA MainMoves ==
    ASSUME IInv,
           main' \in {"running", "closing", "returned", "raised", "abandoned"},
           raising' \in BOOLEAN, interrupts' \in 0 .. MaxInterrupts,
           collected' \in 0 .. Len(fetches),
           UNCHANGED <<toSubmit, taken, fetches, queue, task, job, at,
                       diskVars, budgetVars>>
    PROVE  IInv'
<1>1. BP!IInv'
  BY BudgetStep DEF IInv
<1>2. TypeOK'
  BY <1>1, BudgetTypedNext DEF IInv, TypeOK, diskVars
<1>3. TaskInv'
  BY DEF IInv, TaskInv, QueueInv, SubmitInv, JobInv, PlaceInv, TakenInv,
         LandedInv, diskVars
<1>4. CallInv'
  BY DEF IInv, CallInv, budgetVars
<1> QED
  BY <1>1, <1>2, <1>3, <1>4 DEF IInv

LEMMA SubmitStep == ASSUME IInv, Submit PROVE IInv'
<1> DEFINE t == Head(toSubmit)
<1>0. /\ toSubmit \in Seq(Tasks) /\ queue \in Seq(Tasks) /\ fetches \in Seq(Chunks)
      /\ task \in [Tasks -> TaskState]
      /\ IsInjective(toSubmit) /\ IsInjective(queue)
  BY DEF IInv, TypeOK, TaskInv, SubmitInv, QueueInv
<1>1. /\ t \in Tasks /\ t \in Range(toSubmit)
      /\ toSubmit' \in Seq(Tasks) /\ IsInjective(toSubmit')
      /\ Range(toSubmit') \subseteq Range(toSubmit)
      /\ t \notin Range(toSubmit')
  BY <1>0, HeadLeaves DEF Submit
<1>2. /\ task[t] = "new"
      /\ task' = [task EXCEPT ![t] = "queued"]
  BY <1>1 DEF IInv, TaskInv, SubmitInv, Submit
<1>3. t \notin Range(queue)
  BY <1>2 DEF IInv, TaskInv, QueueInv
<1>4. /\ queue' \in Seq(Tasks) /\ IsInjective(queue')
      /\ Range(queue') = Range(queue) \cup {t}
  BY <1>0, <1>1, <1>3, AppendNew DEF Submit
<1>5. BP!IInv'
  BY BudgetStep DEF IInv, Submit
<1>6. fetches' \in Seq(Chunks) /\ collected' \in 0 .. Len(fetches')
  <2>1. CASE t \in Chunks
    BY <1>0, <2>1 DEF IInv, TypeOK, Submit
  <2>2. CASE t \notin Chunks
    BY <1>0, <2>2 DEF IInv, TypeOK, Submit
  <2> QED
    BY <2>1, <2>2
<1>7. task' \in [Tasks -> TaskState]
  BY <1>0, <1>2 DEF TaskState
<1>8. TypeOK'
  BY <1>1, <1>4, <1>5, <1>6, <1>7, BudgetTypedNext DEF IInv, TypeOK, Submit, diskVars
<1>9. QueueInv'
  <2>1. \A s \in Range(queue) : s \in Tasks
    BY <1>0 DEF Range
  <2> QED
    BY <1>0, <1>1, <1>2, <1>4, <2>1 DEF IInv, TaskInv, QueueInv
<1>10. SubmitInv'
  <2>1. \A s \in Range(toSubmit') : s \in Tasks /\ s # t
    BY <1>0, <1>1 DEF Range
  <2> QED
    BY <1>0, <1>1, <1>2, <2>1 DEF IInv, TaskInv, SubmitInv
<1>11. JobInv' /\ PlaceInv'
  BY <1>0, <1>2 DEF IInv, TypeOK, TaskInv, JobInv, PlaceInv, Submit
<1>12. TakenInv' /\ LandedInv'
  <2>1. UNCHANGED <<taken, landed>> /\ taken \subseteq Files /\ landed \subseteq Chunks
    BY DEF IInv, TypeOK, Submit, diskVars
  <2> QED
    BY <1>0, <1>1, <1>2, <2>1 DEF IInv, TaskInv, TakenInv, LandedInv, Tasks
<1>13. CallInv'
  BY DEF IInv, CallInv, Submit, budgetVars
<1> QED
  BY <1>5, <1>8, <1>9, <1>10, <1>11, <1>12, <1>13 DEF IInv, TaskInv

\* The plan that is taken for the first time brings chunks that are all new.
LEMMA TakePlanStep == ASSUME IInv, NEW f \in Files, TakePlan(f) PROVE IInv'
<1>0. /\ PlanOf[f] \in Seq(Chunks) /\ IsInjective(PlanOf[f])
      /\ toSubmit' = PlanOf[f] /\ taken' = taken \cup {f}
      /\ f \notin taken /\ task[f] = "done"
      /\ UNCHANGED <<task, queue, job, at, landed>>
  BY PlansAssumption DEF TakePlan, diskVars
<1>1. BP!IInv'
  BY BudgetStep DEF IInv, TakePlan
<1>2. TypeOK'
  BY <1>0, <1>1, BudgetTypedNext, SeqsOfTasks DEF IInv, TypeOK, TakePlan, diskVars
<1>3. \A c \in Range(PlanOf[f]) : c \in Chunks /\ FileOf[c] = f
  <2>1. \A c \in Range(PlanOf[f]) : c \in Chunks
    BY <1>0 DEF Range
  <2> QED
    BY <2>1, FileOfPlan
<1>4. SubmitInv'
  BY <1>0, <1>3 DEF IInv, TaskInv, TakenInv, SubmitInv
<1>5. TakenInv'
  BY <1>0, <1>3 DEF IInv, TaskInv, TakenInv
<1>6. QueueInv' /\ JobInv' /\ PlaceInv' /\ LandedInv'
  BY <1>0 DEF IInv, TaskInv, QueueInv, JobInv, PlaceInv, LandedInv
<1>7. CallInv'
  BY DEF IInv, CallInv, TakePlan, budgetVars
<1> QED
  BY <1>1, <1>2, <1>4, <1>5, <1>6, <1>7 DEF IInv, TaskInv

\* The remaining steps of the main thread only move it along.
LEMMA MainStep == ASSUME IInv, Main PROVE IInv'
<1>1. CASE Submit
  BY <1>1, SubmitStep
<1>2. CASE \E f \in Files : TakePlan(f)
  BY <1>2, TakePlanStep
<1>3. CASE \E f \in Files : PlanFailed(f)
  BY <1>3, MainMoves DEF IInv, TypeOK, PlanFailed
<1>4. CASE Collect
  <2>1. fetches \in Seq(Chunks) /\ collected \in 0 .. Len(fetches) /\ Len(fetches) \in Nat
    BY DEF IInv, TypeOK
  <2>2. collected' \in 0 .. Len(fetches)
    BY <1>4, <2>1 DEF Collect
  <2> QED
    BY <1>4, <2>2, MainMoves DEF IInv, TypeOK, Collect, Collecting
<1>5. CASE FetchFailed
  BY <1>5, MainMoves DEF IInv, TypeOK, FetchFailed
<1>6. CASE SumDone
  BY <1>6, MainMoves DEF IInv, TypeOK, SumDone
<1>7. CASE PoolClosed
  BY <1>7, MainMoves DEF IInv, TypeOK, PoolClosed
<1> QED
  BY <1>1, <1>2, <1>3, <1>4, <1>5, <1>6, <1>7 DEF Main

LEMMA InterruptStep == ASSUME IInv, Interrupt PROVE IInv'
<1>1. interrupts' \in 0 .. MaxInterrupts
  BY SetsAssumption DEF IInv, TypeOK, Interrupt
<1> QED
  BY <1>1, MainMoves DEF IInv, TypeOK, Interrupt

-----------------------------------------------------------------------------
(***************************************************************************)
(* The workers.                                                            *)
(***************************************************************************)

\* What a step of a worker owes to keep the types.
LEMMA WorkerTyped ==
    ASSUME IInv, BP!IInv',
           queue' \in Seq(Tasks), task' \in [Tasks -> TaskState],
           job' \in [Workers -> Tasks \cup {NoTask}], at' \in [Workers -> Place],
           created' \subseteq Files, landed' \subseteq Chunks,
           UNCHANGED mainVars
    PROVE  TypeOK'
<1>1. Budget!TypeOK'
  BY BudgetTypedNext
<1> QED
  BY <1>1 DEF IInv, TypeOK, mainVars

\* The task a busy worker has, and no other worker.
LEMMA JobOf ==
    ASSUME IInv, NEW w \in Workers, at[w] # "idle"
    PROVE  /\ job[w] \in Tasks /\ task[job[w]] = "running"
           /\ \A v \in Workers \ {w} : job[v] # job[w]
<1>1. job[w] # NoTask
  BY DEF IInv, TaskInv, JobInv
<1> QED
  BY <1>1 DEF IInv, TypeOK, TaskInv, JobInv

\* The calls of the budget keep their workers when no worker enters or leaves
\* the places of a fetch.
LEMMA CallsKept ==
    ASSUME IInv, UNCHANGED call,
           \A v \in Workers :
               /\ at'[v] = "acquire" <=> at[v] = "acquire"
               /\ at'[v] \in HoldingPlaces <=> at[v] \in HoldingPlaces
               /\ at[v] \in FetchPlaces => job'[v] = job[v]
    PROVE  CallInv'
<1>1. \A v \in Workers :
          at[v] = "acquire" \/ at[v] \in HoldingPlaces => job'[v] = job[v]
  BY DEF FetchPlaces
<1>2. CallInv
  BY DEF IInv
<1> QED
  BY <1>1, <1>2 DEF CallInv

\* A worker that moves within its task disturbs no task; what it lands is
\* its own chunk.
LEMMA MovesWithin ==
    ASSUME IInv, NEW w \in Workers, at[w] # "idle", NEW p \in Place \ {"idle"},
           p \in PlanPlaces => job[w] \in Files,
           p \in FetchPlaces => job[w] \in Chunks,
           Goto(w, p),
           landed' \subseteq landed \cup {job[w]},
           UNCHANGED <<mainVars, queue, task, job>>
    PROVE  TaskInv' /\ at' \in [Workers -> Place]
<1>1. /\ job[w] \in Tasks /\ task[job[w]] = "running" /\ job[w] # NoTask
  BY JobOf, NoTaskAssumption
<1>2. at \in [Workers -> Place] /\ at' = [at EXCEPT ![w] = p]
  BY DEF IInv, TypeOK, Goto
<1>3. UNCHANGED <<toSubmit, taken, queue, task, job>>
  BY DEF mainVars
<1>4. QueueInv' /\ SubmitInv' /\ TakenInv'
  BY <1>3 DEF IInv, TaskInv, QueueInv, SubmitInv, TakenInv
<1>5. JobInv'
  BY <1>1, <1>2, <1>3 DEF IInv, TaskInv, JobInv
<1>6. PlaceInv'
  BY <1>2, <1>3 DEF IInv, TaskInv, PlaceInv
<1>7. LandedInv'
  BY <1>1, <1>3 DEF IInv, TaskInv, LandedInv
<1> QED
  BY <1>2, <1>4, <1>5, <1>6, <1>7 DEF TaskInv

\* A worker that ends its task leaves the other tasks alone.
LEMMA EndsTask ==
    ASSUME IInv, NEW w \in Workers, at[w] # "idle", NEW s \in {"done", "failed"},
           Finish(w, s),
           landed' \subseteq landed,
           UNCHANGED <<mainVars, queue>>
    PROVE  /\ TaskInv'
           /\ task' \in [Tasks -> TaskState]
           /\ job' \in [Workers -> Tasks \cup {NoTask}]
           /\ at' \in [Workers -> Place]
<1> DEFINE t == job[w]
<1>1. /\ t \in Tasks /\ task[t] = "running" /\ t # NoTask
      /\ \A v \in Workers \ {w} : job[v] # t
  BY JobOf, NoTaskAssumption
<1>2. /\ at \in [Workers -> Place] /\ at' = [at EXCEPT ![w] = "idle"]
      /\ job \in [Workers -> Tasks \cup {NoTask}] /\ job' = [job EXCEPT ![w] = NoTask]
      /\ task \in [Tasks -> TaskState] /\ task' = [task EXCEPT ![t] = s]
      /\ queue \in Seq(Tasks) /\ toSubmit \in Seq(Tasks)
      /\ taken \subseteq Files /\ landed \subseteq Chunks
  BY DEF IInv, TypeOK, Goto, Finish
<1>3. UNCHANGED <<toSubmit, taken, queue>>
  BY DEF mainVars
<1>4. Range(queue) \subseteq Tasks /\ Range(toSubmit) \subseteq Tasks
  BY <1>2 DEF Range
<1>5. QueueInv'
  BY <1>1, <1>2, <1>3, <1>4 DEF IInv, TaskInv, QueueInv
<1>6. SubmitInv'
  BY <1>1, <1>2, <1>3, <1>4 DEF IInv, TaskInv, SubmitInv
<1>7. JobInv'
  BY <1>1, <1>2 DEF IInv, TaskInv, JobInv
<1>8. PlaceInv'
  BY <1>1, <1>2 DEF IInv, TaskInv, PlaceInv, PlanPlaces, FetchPlaces, HoldingPlaces
<1>9. TakenInv'
  BY <1>1, <1>2, <1>3 DEF IInv, TaskInv, TakenInv, Tasks
<1>10. LandedInv'
  BY <1>1, <1>2, <1>3 DEF IInv, TaskInv, LandedInv, Tasks
<1>11. task' \in [Tasks -> TaskState] /\ at' \in [Workers -> Place]
       /\ job' \in [Workers -> Tasks \cup {NoTask}]
  BY <1>2 DEF TaskState, Place
<1> QED
  BY <1>5, <1>6, <1>7, <1>8, <1>9, <1>10, <1>11 DEF TaskInv

\* The task at the head of the queue has never run.
LEMMA StartStep == ASSUME IInv, NEW w \in Workers, Start(w) PROVE IInv'
<1> DEFINE t == Head(queue)
<1>0. /\ queue \in Seq(Tasks) /\ queue # <<>> /\ IsInjective(queue)
      /\ toSubmit \in Seq(Tasks)
      /\ task \in [Tasks -> TaskState] /\ at \in [Workers -> Place]
      /\ job \in [Workers -> Tasks \cup {NoTask}]
      /\ at[w] = "idle" /\ job[w] = NoTask
      /\ taken \subseteq Files /\ landed \subseteq Chunks
  BY DEF IInv, TypeOK, TaskInv, JobInv, QueueInv, Start
<1>1. /\ t \in Tasks /\ t \in Range(queue)
      /\ queue' \in Seq(Tasks) /\ IsInjective(queue')
      /\ Range(queue') \subseteq Range(queue) /\ t \notin Range(queue')
  BY <1>0, HeadLeaves DEF Start
<1>2. task[t] = "queued" /\ t # NoTask
  BY <1>1, NoTaskAssumption DEF IInv, TaskInv, QueueInv
<1>3. \A v \in Workers : job[v] # t
  BY <1>2 DEF IInv, TaskInv, JobInv
<1>4. /\ job' = [job EXCEPT ![w] = t] /\ task' = [task EXCEPT ![t] = "running"]
      /\ at' = [at EXCEPT ![w] = FirstPlace(t)]
      /\ UNCHANGED <<toSubmit, taken, landed, created>>
  BY DEF Start, Goto, mainVars, diskVars
<1>5. /\ FirstPlace(t) \in Place \ {"idle"} /\ FirstPlace(t) \notin HoldingPlaces
      /\ FirstPlace(t) \in PlanPlaces => t \in Files
      /\ FirstPlace(t) \in FetchPlaces => t \in Chunks
      /\ FirstPlace(t) = "acquire" <=> t \in Chunks
  BY <1>1 DEF FirstPlace, Place, PlanPlaces, FetchPlaces, HoldingPlaces, Tasks
<1>6. BP!IInv'
  <2>1. [Budget!Next]_budgetVars
    BY DEF Start, Budget!Next
  <2> QED
    BY <2>1, BudgetStep DEF IInv
<1>7. TypeOK'
  <2>1. task' \in [Tasks -> TaskState]
    BY <1>0, <1>4 DEF TaskState
  <2>2. job' \in [Workers -> Tasks \cup {NoTask}] /\ at' \in [Workers -> Place]
    BY <1>0, <1>1, <1>4, <1>5
  <2>3. UNCHANGED mainVars /\ created' \subseteq Files /\ landed' \subseteq Chunks
    BY <1>4 DEF IInv, TypeOK, Start
  <2> QED
    BY <1>1, <1>6, <2>1, <2>2, <2>3, WorkerTyped
<1>8. Range(queue) \subseteq Tasks /\ Range(toSubmit) \subseteq Tasks
  BY <1>0 DEF Range
<1>9. QueueInv' /\ SubmitInv'
  BY <1>0, <1>1, <1>2, <1>4, <1>8 DEF IInv, TaskInv, QueueInv, SubmitInv
<1>10. JobInv'
  BY <1>0, <1>1, <1>2, <1>3, <1>4, <1>5 DEF IInv, TaskInv, JobInv
<1>11. PlaceInv'
  BY <1>0, <1>4, <1>5 DEF IInv, TaskInv, PlaceInv
<1>12. TakenInv' /\ LandedInv'
  BY <1>0, <1>2, <1>4 DEF IInv, TaskInv, TakenInv, LandedInv, Tasks
<1>13. CallInv'
  <2>1. CASE t \in Chunks
    <3>1. /\ call \in [Chunks -> Budget!CallState]
          /\ call' = [call EXCEPT ![t] = "trying"]
      BY <2>1, BudgetTyped DEF IInv, Start, Budget!Call, Budget!TypeOK
    <3>2. /\ job'[w] = t /\ at'[w] = "acquire"
          /\ \A v \in Workers \ {w} : job'[v] = job[v] /\ at'[v] = at[v]
      BY <1>0, <1>4, <1>5, <2>1
    <3>3. \A v \in Workers \ {w} : job[v] # t
      BY <1>3
    <3>4. \A c \in Chunks : call'[c] = IF c = t THEN "trying" ELSE call[c]
      BY <2>1, <3>1
    <3>5. CallInv /\ "acquire" \notin HoldingPlaces /\ "idle" \notin HoldingPlaces
      BY DEF IInv, HoldingPlaces
    <3>6. \A v \in Workers :
              /\ at'[v] = "acquire" => call'[job'[v]] \in {"trying", "waiting"}
              /\ at'[v] \in HoldingPlaces => call'[job'[v]] = "holding"
      <4>1. \A v \in Workers : at[v] = "acquire" \/ at[v] \in HoldingPlaces => job[v] \in Chunks
        BY DEF IInv, TaskInv, PlaceInv, FetchPlaces
      <4> QED
        BY <2>1, <3>2, <3>3, <3>4, <3>5, <4>1 DEF CallInv
    <3>7. ASSUME NEW c \in Chunks
          PROVE  /\ call'[c] \in {"trying", "waiting"} =>
                        \E v \in Workers : job'[v] = c /\ at'[v] = "acquire"
                 /\ call'[c] = "holding" =>
                        \E v \in Workers : job'[v] = c /\ at'[v] \in HoldingPlaces
      <4>1. CASE c = t
        BY <3>2, <3>4, <4>1
      <4>2. CASE c # t
        <5>1. call'[c] = call[c]
          BY <3>4, <4>2
        <5>2. \A v \in Workers : at[v] = "acquire" \/ at[v] \in HoldingPlaces =>
                  job'[v] = job[v] /\ at'[v] = at[v]
          BY <1>0, <3>2, <3>5
        <5> QED
          BY <3>5, <5>1, <5>2 DEF CallInv
      <4> QED
        BY <4>1, <4>2
    <3> QED
      BY <3>6, <3>7 DEF CallInv
  <2>2. CASE t \notin Chunks
    <3>1. UNCHANGED call
      BY <2>2 DEF Start, budgetVars
    <3>2. at[w] \notin FetchPlaces
      BY <1>0 DEF FetchPlaces, HoldingPlaces
    <3> QED
      BY <1>0, <1>4, <1>5, <2>2, <3>1, <3>2, CallsKept DEF HoldingPlaces
  <2> QED
    BY <2>1, <2>2
<1> QED
  BY <1>6, <1>7, <1>9, <1>10, <1>11, <1>12, <1>13 DEF IInv, TaskInv

\* Steps of a worker that leave the budget alone.
LEMMA BudgetLeftAlone ==
    ASSUME IInv, UNCHANGED budgetVars
    PROVE  BP!IInv' /\ UNCHANGED call
<1>1. BP!IInv'
  BY BudgetStep DEF IInv
<1> QED
  BY <1>1 DEF budgetVars

LEMMA ReadChunkmapStep == ASSUME IInv, NEW w \in Workers, ReadChunkmap(w) PROVE IInv'
<1>0. /\ at[w] = "read chunkmap" /\ job[w] \in Files
      /\ UNCHANGED <<mainVars, queue, diskVars, budgetVars>>
  BY DEF ReadChunkmap, IInv, TaskInv, PlaceInv, PlanPlaces
<1>1. BP!IInv' /\ UNCHANGED <<call, landed, created>>
  BY <1>0, BudgetLeftAlone DEF diskVars
<1>2. /\ queue' \in Seq(Tasks) /\ created' \subseteq Files /\ landed' \subseteq Chunks
      /\ task \in [Tasks -> TaskState] /\ at \in [Workers -> Place]
      /\ job \in [Workers -> Tasks \cup {NoTask}]
  BY <1>0, <1>1 DEF IInv, TypeOK
<1>3. CASE Goto(w, "create file") /\ UNCHANGED <<task, job>>
  <2>1. TaskInv' /\ at' \in [Workers -> Place]
    BY <1>0, <1>1, <1>3, MovesWithin DEF Place, PlanPlaces, FetchPlaces, HoldingPlaces
  <2>2. TypeOK'
    BY <1>0, <1>1, <1>2, <1>3, <2>1, WorkerTyped
  <2>3. CallInv'
    BY <1>0, <1>1, <1>2, <1>3, CallsKept DEF Goto, HoldingPlaces
  <2> QED
    BY <1>1, <2>1, <2>2, <2>3 DEF IInv
<1>4. CASE Finish(w, "failed")
  <2>1. /\ TaskInv' /\ task' \in [Tasks -> TaskState] /\ at' \in [Workers -> Place]
        /\ job' \in [Workers -> Tasks \cup {NoTask}]
    BY <1>0, <1>1, <1>4, EndsTask
  <2>2. TypeOK'
    BY <1>0, <1>1, <1>2, <2>1, WorkerTyped
  <2>3. CallInv'
    <3>1. at[w] \notin FetchPlaces
      BY <1>0 DEF FetchPlaces, HoldingPlaces
    <3> QED
      BY <1>0, <1>1, <1>2, <1>4, <3>1, CallsKept DEF Finish, Goto, HoldingPlaces
  <2> QED
    BY <1>1, <2>1, <2>2, <2>3 DEF IInv
<1> QED
  BY <1>3, <1>4 DEF ReadChunkmap

LEMMA CreateFileStep == ASSUME IInv, NEW w \in Workers, CreateFile(w) PROVE IInv'
<1>0. /\ at[w] = "create file" /\ job[w] \in Files
      /\ UNCHANGED <<mainVars, queue, budgetVars>>
  BY DEF CreateFile, IInv, TaskInv, PlaceInv, PlanPlaces
<1>1. BP!IInv' /\ UNCHANGED call
  BY <1>0, BudgetLeftAlone
<1>2. /\ queue' \in Seq(Tasks) /\ at \in [Workers -> Place]
      /\ job \in [Workers -> Tasks \cup {NoTask}]
      /\ created \subseteq Files /\ landed \subseteq Chunks
  BY <1>0 DEF IInv, TypeOK
<1>3. created' \subseteq Files /\ landed' \subseteq landed
  BY <1>0, <1>2 DEF CreateFile, diskVars
<1>4. PICK s \in {"done", "failed"} : Finish(w, s)
  BY DEF CreateFile
<1>5. /\ TaskInv' /\ task' \in [Tasks -> TaskState] /\ at' \in [Workers -> Place]
      /\ job' \in [Workers -> Tasks \cup {NoTask}]
  BY <1>0, <1>3, <1>4, EndsTask
<1>6. TypeOK'
  BY <1>0, <1>1, <1>2, <1>3, <1>5, WorkerTyped
<1>7. CallInv'
  <2>1. at[w] \notin FetchPlaces
    BY <1>0 DEF FetchPlaces, HoldingPlaces
  <2> QED
    BY <1>0, <1>1, <1>2, <1>4, <2>1, CallsKept DEF Finish, Goto, HoldingPlaces
<1> QED
  BY <1>1, <1>5, <1>6, <1>7 DEF IInv

LEMMA AcquireStep == ASSUME IInv, NEW w \in Workers, Acquire(w) PROVE IInv'
<1> DEFINE c == job[w]
<1>0. /\ at[w] = "acquire" /\ c \in Chunks
      /\ UNCHANGED <<mainVars, queue, task, job, diskVars>>
  BY DEF Acquire, IInv, TaskInv, PlaceInv, FetchPlaces
<1>1. BP!IInv'
  <2>1. Budget!Next
    BY <1>0 DEF Acquire, Budget!Next
  <2> QED
    BY <2>1, BudgetStep DEF IInv
<1>2. /\ at \in [Workers -> Place] /\ call \in [Chunks -> Budget!CallState]
      /\ \A v \in Workers \ {w} : job[v] # c
  BY <1>0, BudgetTyped, JobOf DEF IInv, TypeOK, Budget!TypeOK
<1>3. PICK p \in {"read chunk", "acquire"} :
          /\ Goto(w, p)
          /\ call' = [call EXCEPT ![c] =
                          IF p = "acquire" THEN "waiting" ELSE "holding"]
  <2>1. CASE Budget!Admit(c) /\ Goto(w, "read chunk")
    BY <2>1 DEF Budget!Admit
  <2>2. CASE Budget!Park(c) /\ UNCHANGED at
    BY <1>0, <1>2, <2>2 DEF Budget!Park, Goto
  <2> QED
    BY <2>1, <2>2 DEF Acquire
<1>4. TaskInv' /\ at' \in [Workers -> Place]
  BY <1>0, <1>3, MovesWithin DEF Place, PlanPlaces, diskVars
<1>5. TypeOK'
  <2>1. /\ queue' \in Seq(Tasks) /\ task' \in [Tasks -> TaskState]
        /\ job' \in [Workers -> Tasks \cup {NoTask}]
        /\ created' \subseteq Files /\ landed' \subseteq Chunks
    BY <1>0 DEF IInv, TypeOK, diskVars
  <2> QED
    BY <1>0, <1>1, <1>4, <2>1, WorkerTyped
<1>6. CallInv'
  <2>1. /\ at'[w] = p /\ job'[w] = c
        /\ \A v \in Workers \ {w} : job'[v] = job[v] /\ at'[v] = at[v]
        /\ call'[c] = IF p = "acquire" THEN "waiting" ELSE "holding"
        /\ \A d \in Chunks \ {c} : call'[d] = call[d]
    BY <1>0, <1>2, <1>3 DEF Goto
  <2>0. CallInv
    BY DEF IInv
  <2>2. "acquire" \notin HoldingPlaces /\ "read chunk" \in HoldingPlaces
    BY DEF HoldingPlaces
  <2>3. \A v \in Workers : at[v] = "acquire" \/ at[v] \in HoldingPlaces => job[v] \in Chunks
    BY DEF IInv, TaskInv, PlaceInv, FetchPlaces
  <2>4. ASSUME NEW v \in Workers
        PROVE  /\ at'[v] = "acquire" => call'[job'[v]] \in {"trying", "waiting"}
               /\ at'[v] \in HoldingPlaces => call'[job'[v]] = "holding"
    <3>1. CASE v = w
      BY <1>0, <2>1, <2>2, <3>1
    <3>2. CASE v # w
      <4>1. at'[v] = at[v] /\ job'[v] = job[v] /\ job[v] # c
        BY <1>2, <2>1, <3>2
      <4>2. job[v] \in Chunks => call'[job[v]] = call[job[v]]
        BY <2>1, <4>1
      <4> QED
        BY <2>0, <2>3, <4>1, <4>2 DEF CallInv
    <3> QED
      BY <3>1, <3>2
  <2>5. ASSUME NEW d \in Chunks
        PROVE  /\ call'[d] \in {"trying", "waiting"} =>
                      \E v \in Workers : job'[v] = d /\ at'[v] = "acquire"
               /\ call'[d] = "holding" =>
                      \E v \in Workers : job'[v] = d /\ at'[v] \in HoldingPlaces
    <3>1. CASE d = c
      BY <2>1, <2>2, <3>1
    <3>2. CASE d # c
      <4>1. call'[d] = call[d]
        BY <2>1, <3>2
      <4>2. \A v \in Workers : job[v] = d => job'[v] = d /\ at'[v] = at[v]
        BY <2>1, <3>2
      <4>3. ASSUME call'[d] \in {"trying", "waiting"}
            PROVE  \E v \in Workers : job'[v] = d /\ at'[v] = "acquire"
        <5>1. PICK v \in Workers : job[v] = d /\ at[v] = "acquire"
          BY <2>0, <4>1, <4>3 DEF CallInv
        <5> QED
          BY <4>2, <5>1
      <4>4. ASSUME call'[d] = "holding"
            PROVE  \E v \in Workers : job'[v] = d /\ at'[v] \in HoldingPlaces
        <5>1. call[d] = "holding"
          BY <4>1, <4>4
        <5>2. PICK v \in Workers : job[v] = d /\ at[v] \in HoldingPlaces
          BY <2>0, <5>1 DEF CallInv
        <5> QED
          BY <4>2, <5>2
      <4> QED
        BY <4>3, <4>4
    <3> QED
      BY <3>1, <3>2
  <2> QED
    BY <2>4, <2>5 DEF CallInv
<1> QED
  BY <1>1, <1>4, <1>5, <1>6 DEF IInv

\* A holder stays a holder from its read to its release.
LEMMA HolderMoves ==
    ASSUME IInv, NEW w \in Workers, at[w] \in HoldingPlaces,
           NEW p \in HoldingPlaces, Goto(w, p),
           landed' \subseteq landed \cup {job[w]},
           UNCHANGED <<mainVars, queue, task, job, created, budgetVars>>
    PROVE  IInv'
<1>0. at[w] # "idle" /\ job[w] \in Chunks
  BY DEF IInv, TaskInv, PlaceInv, FetchPlaces, HoldingPlaces
<1>1. BP!IInv' /\ UNCHANGED call
  BY BudgetLeftAlone
<1>2. TaskInv' /\ at' \in [Workers -> Place]
  BY <1>0, MovesWithin DEF Place, PlanPlaces, HoldingPlaces
<1>3. TypeOK'
  <2>1. /\ queue' \in Seq(Tasks) /\ task' \in [Tasks -> TaskState]
        /\ job' \in [Workers -> Tasks \cup {NoTask}]
        /\ created' \subseteq Files /\ landed' \subseteq Chunks
    BY <1>0 DEF IInv, TypeOK
  <2> QED
    BY <1>1, <1>2, <2>1, WorkerTyped
<1>4. CallInv'
  <2>1. /\ at \in [Workers -> Place] /\ at' = [at EXCEPT ![w] = p]
        /\ UNCHANGED <<job, call>>
    BY <1>1 DEF IInv, TypeOK, Goto
  <2>2. "acquire" \notin HoldingPlaces
    BY DEF HoldingPlaces
  <2> QED
    BY <2>1, <2>2, CallsKept
<1> QED
  BY <1>1, <1>2, <1>3, <1>4 DEF IInv

LEMMA ReadChunkStep == ASSUME IInv, NEW w \in Workers, ReadChunk(w) PROVE IInv'
<1>1. PICK p \in {"write", "release and raise"} : Goto(w, p)
  BY DEF ReadChunk
<1> QED
  BY <1>1, HolderMoves DEF ReadChunk, HoldingPlaces, diskVars

LEMMA WriteChunkStep == ASSUME IInv, NEW w \in Workers, WriteChunk(w) PROVE IInv'
<1>1. PICK p \in {"release", "release and raise"} : Goto(w, p)
  BY DEF WriteChunk
<1>2. landed' \subseteq landed \cup {job[w]}
  BY DEF WriteChunk
<1> QED
  BY <1>1, <1>2, HolderMoves DEF WriteChunk, HoldingPlaces

\* The release wakes every waiting worker, which stays in acquire.
LEMMA ReleaseStep == ASSUME IInv, NEW w \in Workers, ReleaseBudget(w) PROVE IInv'
<1> DEFINE c == job[w]
<1>0. /\ at[w] \in HoldingPlaces /\ at[w] # "idle" /\ c \in Chunks
      /\ UNCHANGED <<mainVars, queue, diskVars>>
  BY DEF ReleaseBudget, IInv, TaskInv, PlaceInv, HoldingPlaces, FetchPlaces
<1>1. BP!IInv'
  <2>1. Budget!Next
    BY <1>0 DEF ReleaseBudget, Budget!Next
  <2> QED
    BY <2>1, BudgetStep DEF IInv
<1>2. PICK s \in {"done", "failed"} : Finish(w, s)
  BY DEF ReleaseBudget
<1>3. /\ TaskInv' /\ task' \in [Tasks -> TaskState] /\ at' \in [Workers -> Place]
      /\ job' \in [Workers -> Tasks \cup {NoTask}]
  BY <1>0, <1>2, EndsTask DEF diskVars
<1>4. TypeOK'
  <2>1. queue' \in Seq(Tasks) /\ created' \subseteq Files /\ landed' \subseteq Chunks
    BY <1>0 DEF IInv, TypeOK, diskVars
  <2> QED
    BY <1>0, <1>1, <1>3, <2>1, WorkerTyped
<1>5. CallInv'
  <2>1. call' = Budget!Woken(c)
    BY DEF ReleaseBudget, Budget!Release
  <2>2. /\ at \in [Workers -> Place] /\ at' = [at EXCEPT ![w] = "idle"]
        /\ job \in [Workers -> Tasks \cup {NoTask}] /\ job' = [job EXCEPT ![w] = NoTask]
        /\ \A v \in Workers \ {w} : job[v] # c
    BY <1>0, <1>2, JobOf DEF IInv, TypeOK, Finish, Goto
  <2>3. \A v \in Workers : at[v] \in FetchPlaces => job[v] \in Chunks
    BY DEF IInv, TaskInv, PlaceInv
  <2>4. CallInv /\ "idle" \notin HoldingPlaces /\ "acquire" \notin HoldingPlaces
    BY DEF IInv, HoldingPlaces
  <2>5. \A d \in Chunks :
            call'[d] = IF d = c THEN "released"
                       ELSE IF call[d] = "waiting" THEN "trying" ELSE call[d]
    BY <2>1 DEF Budget!Woken
  <2>6. /\ at'[w] = "idle"
        /\ \A v \in Workers \ {w} : job'[v] = job[v] /\ at'[v] = at[v]
    BY <2>2
  <2>7. ASSUME NEW v \in Workers
        PROVE  /\ at'[v] = "acquire" => call'[job'[v]] \in {"trying", "waiting"}
               /\ at'[v] \in HoldingPlaces => call'[job'[v]] = "holding"
    <3>1. CASE v = w
      BY <2>4, <2>6, <3>1
    <3>2. CASE v # w
      BY <2>2, <2>3, <2>4, <2>5, <2>6, <3>2 DEF CallInv, FetchPlaces
    <3> QED
      BY <3>1, <3>2
  <2>8. ASSUME NEW d \in Chunks
        PROVE  /\ call'[d] \in {"trying", "waiting"} =>
                      \E v \in Workers : job'[v] = d /\ at'[v] = "acquire"
               /\ call'[d] = "holding" =>
                      \E v \in Workers : job'[v] = d /\ at'[v] \in HoldingPlaces
    <3>1. CASE d = c
      BY <2>5, <3>1
    <3>2. CASE d # c
      <4>1. \A v \in Workers : job[v] = d => v # w
        BY <3>2
      <4> QED
        BY <2>4, <2>5, <2>6, <3>2, <4>1 DEF CallInv
    <3> QED
      BY <3>1, <3>2
  <2> QED
    BY <2>7, <2>8 DEF CallInv
<1> QED
  BY <1>1, <1>3, <1>4, <1>5 DEF IInv

-----------------------------------------------------------------------------

LEMMA WorkerStep == ASSUME IInv, NEW w \in Workers, Start(w) \/ Work(w) PROVE IInv'
  BY StartStep, ReadChunkmapStep, CreateFileStep, AcquireStep, ReadChunkStep,
     WriteChunkStep, ReleaseStep DEF Work

\* Stuttering keeps the invariant, as every step does.
LEMMA NextIInv == IInv /\ [Next]_vars => IInv'
<1> SUFFICES ASSUME IInv, [Next]_vars PROVE IInv'
  OBVIOUS
<1>1. CASE Main
  BY <1>1, MainStep
<1>2. CASE Interrupt
  BY <1>2, InterruptStep
<1>3. CASE \E w \in Workers : Start(w) \/ Work(w)
  BY <1>3, WorkerStep
<1>4. CASE UNCHANGED vars
  BY <1>4, MainMoves DEF IInv, TypeOK, vars, mainVars, diskVars, budgetVars
<1> QED
  BY <1>1, <1>2, <1>3, <1>4 DEF Next

LEMMA AlwaysIInv == Spec => []IInv
  BY InitIInv, NextIInv, PTL DEF Spec

-----------------------------------------------------------------------------
(***************************************************************************)
(* The theorems.                                                           *)
(***************************************************************************)

\* Every variable of the pool, its queue and its budget keeps its type.
THEOREM PoolType == Spec => []TypeOK
<1>1. IInv => TypeOK
  BY DEF IInv
<1> QED
  BY AlwaysIInv, <1>1, PTL

\* Whatever fails and whenever an interrupt comes, the budget's holders and
\* waiters are exactly the fetches at the matching place of _fetch_chunk.
THEOREM PoolBudget == Spec => []BudgetFollowsWorkers
<1>1. ASSUME IInv PROVE BudgetFollowsWorkers
  <2>1. CallInv
    BY <1>1 DEF IInv
  <2>2. \A w \in Workers : at[w] = "acquire" \/ at[w] \in HoldingPlaces => job[w] \in Chunks
    BY <1>1 DEF IInv, TaskInv, PlaceInv, FetchPlaces
  <2>3. {c \in Chunks : call[c] = "holding"} =
            {job[w] : w \in {v \in Workers : at[v] \in HoldingPlaces}}
    BY <2>1, <2>2 DEF CallInv
  <2>4. {c \in Chunks : call[c] \in {"trying", "waiting"}} =
            {job[w] : w \in {v \in Workers : at[v] = "acquire"}}
    BY <2>1, <2>2 DEF CallInv
  <2> QED
    BY <2>3, <2>4 DEF BudgetFollowsWorkers, HoldingPlaces
<1> QED
  BY AlwaysIInv, <1>1, PTL

\* The pool's workers are never all parked in acquire, whatever the sizes of
\* the chunks and the limit: the deadlock _fetch_files' comment excludes.
THEOREM PoolNeverStuck == Spec => []SomeWorkerRuns
<1>1. ASSUME IInv, NEW w \in Workers, at[w] # "idle"
      PROVE  \E v \in Workers :
                 at[v] # "idle" /\ ~ (job[v] \in Chunks /\ call[job[v]] = "waiting")
  <2>1. CASE job[w] \in Chunks /\ call[job[w]] = "waiting"
    <3>1. BP!NoLostWakeup
      BY <1>1 DEF IInv, BP!IInv
    <3>2. PICK c \in Chunks : call[c] = "holding"
      BY <2>1, <3>1 DEF BP!NoLostWakeup, BP!InState
    <3>3. PICK v \in Workers : job[v] = c /\ at[v] \in HoldingPlaces
      BY <1>1, <3>2 DEF IInv, CallInv
    <3> QED
      BY <3>2, <3>3 DEF HoldingPlaces
  <2> QED
    BY <1>1, <2>1
<1>2. IInv => SomeWorkerRuns
  BY <1>1 DEF SomeWorkerRuns
<1> QED
  BY AlwaysIInv, <1>2, PTL

\* No file is created over a chunk that landed in it: a file's chunks are
\* submitted only once its plan is done, and a done plan never runs again.
THEOREM PoolLosesNothing == Spec => NothingLost
<1>1. ASSUME IInv, [Next]_vars PROVE landed \subseteq landed'
  <2>1. ASSUME NEW w \in Workers, CreateFile(w) PROVE landed \subseteq landed'
    <3>1. job[w] \in Files /\ task[job[w]] = "running"
      BY <1>1, <2>1, JobOf DEF IInv, TaskInv, PlaceInv, PlanPlaces, CreateFile
    <3>2. job[w] \notin taken
      BY <1>1, <3>1 DEF IInv, TaskInv, TakenInv
    <3>3. \A c \in landed : FileOf[c] # job[w]
      BY <1>1, <3>2 DEF IInv, TypeOK, TaskInv, TakenInv, LandedInv
    <3> QED
      BY <2>1, <3>3 DEF CreateFile, diskVars
  <2>2. CASE UNCHANGED landed
    BY <2>2
  <2>3. ASSUME NEW w \in Workers, WriteChunk(w) PROVE landed \subseteq landed'
    BY <2>3 DEF WriteChunk
  <2>4. CASE Main \/ Interrupt
    BY <2>4, <2>2 DEF Main, Submit, TakePlan, PlanFailed, Collect, FetchFailed, SumDone,
              PoolClosed, Interrupt, diskVars
  <2>5. ASSUME NEW w \in Workers, Start(w) \/ Work(w) PROVE landed \subseteq landed'
    BY <2>1, <2>2, <2>3, <2>5 DEF Work, Start, ReadChunkmap, Acquire, ReadChunk,
              ReleaseBudget, diskVars
  <2> QED
    BY <1>1, <2>2, <2>4, <2>5 DEF Next, vars, diskVars
<1> QED
  BY AlwaysIInv, <1>1, PTL DEF Spec, NothingLost

\* What the pool does to its budget is what ByteBudget says calls do: every
\* result about ByteBudget's safety holds of the pool.
THEOREM PoolUsesBudget == Spec => Budget!Init /\ [][Budget!Next]_budgetVars
<1>1. Init => Budget!Init
  BY DEF Init
<1>2. ASSUME IInv, [Next]_vars PROVE [Budget!Next]_budgetVars
  <2>1. ASSUME NEW w \in Workers, Start(w) PROVE [Budget!Next]_budgetVars
    BY <2>1 DEF Start, Budget!Next
  <2>2. ASSUME NEW w \in Workers, Acquire(w) PROVE [Budget!Next]_budgetVars
    <3>1. job[w] \in Chunks
      BY <1>2, <2>2 DEF IInv, TaskInv, PlaceInv, FetchPlaces, Acquire
    <3> QED
      BY <2>2, <3>1 DEF Acquire, Budget!Next
  <2>3. ASSUME NEW w \in Workers, ReleaseBudget(w) PROVE [Budget!Next]_budgetVars
    <3>1. job[w] \in Chunks
      BY <1>2, <2>3
         DEF IInv, TaskInv, PlaceInv, FetchPlaces, HoldingPlaces, ReleaseBudget
    <3> QED
      BY <2>3, <3>1 DEF ReleaseBudget, Budget!Next
  <2>4. ASSUME NEW w \in Workers, Work(w) PROVE [Budget!Next]_budgetVars
    BY <2>2, <2>3, <2>4 DEF Work, ReadChunkmap, CreateFile, ReadChunk, WriteChunk
  <2>5. CASE Main \/ Interrupt
    BY <2>5 DEF Main, Submit, TakePlan, PlanFailed, Collect, FetchFailed, SumDone,
              PoolClosed, Interrupt
  <2>6. CASE UNCHANGED vars
    BY <2>6 DEF vars
  <2> QED
    BY <1>2, <2>1, <2>4, <2>5, <2>6 DEF Next
<1> QED
  BY AlwaysIInv, <1>1, <1>2, PTL DEF Spec

-----------------------------------------------------------------------------
(***************************************************************************)
(* FetchPool implements Transfer, and the sum it returns counts every      *)
(* chunk once.                                                             *)
(*                                                                         *)
(* Both rest on what holds when _fetch_files leaves its with block: every  *)
(* plan was taken, every chunk submitted and every fetch collected, or an  *)
(* exception is on its way out; and on the pool's exit, which waits until  *)
(* the queue is empty and the workers are idle.                            *)
(***************************************************************************)

\* The fetches list what was submitted of the chunks, once each.
FetchesInv ==
    /\ IsInjective(fetches)
    /\ \A c \in Chunks : c \in Range(fetches) <=> task[c] # "new"

\* A taken plan's chunks are submitted or about to be.
PlannedInv ==
    \A c \in Chunks :
        task[c] = "new" /\ FileOf[c] \in taken => c \in Range(toSubmit)

CollectedInv == \A i \in 1 .. collected : task[fetches[i]] = "done"

\* How the main thread leaves.
LeavingInv ==
    /\ main \in {"running", "closing", "returned"} \/ raising
    /\ main = "returned" => ~ raising
    /\ main \in {"closing", "returned"} /\ ~ raising =>
           toSubmit = <<>> /\ taken = Files /\ collected = Len(fetches)
    /\ main \in {"returned", "raised"} => queue = <<>> /\ \A w \in Workers : at[w] = "idle"
    /\ raising => AnyFailure \/ interrupts > 0
    /\ ~ raising => interrupts = 0

\* What is done is on disk.
DiskInv ==
    /\ \A f \in Files : f \in created <=> task[f] = "done"
    /\ \A c \in Chunks : task[c] = "done" => c \in landed
    /\ \A w \in Workers : at[w] = "release" => job[w] \in landed

SumInv == FetchesInv /\ PlannedInv /\ CollectedInv

TransferInv == IInv /\ SumInv /\ LeavingInv /\ DiskInv

LEMMA HeadAndTail ==
    ASSUME NEW S, NEW s \in Seq(S), s # <<>>
    PROVE  Range(s) = {Head(s)} \cup Range(Tail(s))
<1>1. /\ Len(s) \in Nat /\ Len(s) # 0 /\ DOMAIN s = 1 .. Len(s)
      /\ Head(s) = s[1] /\ DOMAIN Tail(s) = 1 .. Len(s) - 1
      /\ \A i \in 1 .. Len(s) - 1 : Tail(s)[i] = s[i + 1]
  OBVIOUS
<1>2. ASSUME NEW x \in Range(s) PROVE x = Head(s) \/ x \in Range(Tail(s))
  <2>1. PICK i \in 1 .. Len(s) : x = s[i]
    BY <1>1 DEF Range
  <2>2. CASE i # 1
    <3>1. i - 1 \in 1 .. Len(s) - 1 /\ Tail(s)[i - 1] = x
      BY <1>1, <2>1, <2>2
    <3>. QED
      BY <1>1, <3>1 DEF Range
  <2>. QED
    BY <1>1, <2>1, <2>2
<1>3. ASSUME NEW x \in Range(Tail(s)) PROVE x \in Range(s)
  <2>1. PICK i \in 1 .. Len(s) - 1 : x = Tail(s)[i]
    BY <1>1 DEF Range
  <2>2. i + 1 \in 1 .. Len(s) /\ x = s[i + 1]
    BY <1>1, <2>1
  <2>. QED
    BY <1>1, <2>2 DEF Range
<1>4. Head(s) \in Range(s)
  BY <1>1 DEF Range
<1>. QED
  BY <1>2, <1>3, <1>4

LEMMA InitTransferInv == Init => TransferInv
<1>. SUFFICES ASSUME Init PROVE TransferInv
  OBVIOUS
<1>1. Range(fetches) = {} /\ Len(fetches) = 0 /\ IsInjective(fetches)
  BY DEF Init, Range, IsInjective
<1>2. SumInv
  BY <1>1 DEF Init, SumInv, FetchesInv, PlannedInv, CollectedInv, Tasks
<1>3. LeavingInv /\ DiskInv
  BY DEF Init, LeavingInv, DiskInv, Tasks
<1>. QED
  BY <1>2, <1>3, InitIInv DEF TransferInv

-----------------------------------------------------------------------------
(***************************************************************************)
(* The main thread.                                                        *)
(***************************************************************************)

LEMMA SubmitTransfer ==
    ASSUME TransferInv, Submit
    PROVE  SumInv' /\ LeavingInv' /\ DiskInv'
<1> DEFINE t == Head(toSubmit)
<1>0. /\ toSubmit \in Seq(Tasks) /\ fetches \in Seq(Chunks) /\ task \in [Tasks -> TaskState]
      /\ toSubmit # <<>> /\ IsInjective(toSubmit) /\ collected \in 0 .. Len(fetches)
      /\ Len(fetches) \in Nat
  BY DEF TransferInv, IInv, TypeOK, TaskInv, SubmitInv, Submit
<1>1. /\ t \in Tasks /\ task[t] = "new" /\ toSubmit' = Tail(toSubmit)
      /\ task' = [task EXCEPT ![t] = "queued"]
      /\ Range(toSubmit) = {t} \cup Range(toSubmit')
  BY <1>0, HeadLeaves, HeadAndTail DEF TransferInv, IInv, TaskInv, SubmitInv, Submit
<1>2. /\ main = "running"
      /\ UNCHANGED <<main, raising, interrupts, taken, collected, job, at, created, landed>>
      /\ fetches' = IF t \in Chunks THEN Append(fetches, t) ELSE fetches
  BY DEF Submit, diskVars
<1>3. FetchesInv'
  <2>1. CASE t \in Chunks
    <3>1. t \notin Range(fetches)
      BY <1>1, <2>1 DEF TransferInv, SumInv, FetchesInv
    <3>2. IsInjective(fetches') /\ Range(fetches') = Range(fetches) \cup {t}
      BY <1>0, <1>2, <2>1, <3>1, AppendNew DEF TransferInv, SumInv, FetchesInv
    <3>. QED
      BY <1>0, <1>1, <3>2 DEF TransferInv, SumInv, FetchesInv, Tasks
  <2>2. CASE t \notin Chunks
    BY <1>0, <1>1, <1>2, <2>2 DEF TransferInv, SumInv, FetchesInv, Tasks
  <2>. QED
    BY <2>1, <2>2
<1>4. PlannedInv'
  BY <1>0, <1>1, <1>2 DEF TransferInv, SumInv, PlannedInv, Tasks
<1>5. CollectedInv'
  <2>. SUFFICES ASSUME NEW i \in 1 .. collected PROVE task'[fetches'[i]] = "done"
    BY <1>2 DEF CollectedInv
  <2>1. i \in 1 .. Len(fetches) /\ fetches[i] \in Chunks /\ task[fetches[i]] = "done"
    BY <1>0 DEF TransferInv, SumInv, CollectedInv
  <2>2. fetches'[i] = fetches[i]
    BY <1>0, <1>2, <2>1
  <2>. QED
    BY <1>0, <1>1, <2>1, <2>2 DEF Tasks
<1>6. LeavingInv'
  <2>1. AnyFailure => AnyFailure'
    BY <1>0, <1>1 DEF AnyFailure
  <2>. QED
    BY <1>2, <2>1 DEF TransferInv, LeavingInv
<1>7. DiskInv'
  BY <1>0, <1>1, <1>2 DEF TransferInv, DiskInv, Tasks
<1>. QED
  BY <1>3, <1>4, <1>5, <1>6, <1>7 DEF SumInv

LEMMA TakePlanTransfer ==
    ASSUME TransferInv, NEW f \in Files, TakePlan(f)
    PROVE  SumInv' /\ LeavingInv' /\ DiskInv'
<1>1. /\ main = "running" /\ toSubmit = <<>> /\ toSubmit' = PlanOf[f] /\ taken' = taken \cup {f}
      /\ UNCHANGED <<main, raising, interrupts, fetches, collected, queue, task, job, at,
                     created, landed>>
  BY DEF TakePlan, diskVars
<1>2. Range(toSubmit) = {}
  BY <1>1 DEF Range
<1>3. PlannedInv'
  BY <1>1, <1>2, FileOfPlan DEF TransferInv, SumInv, PlannedInv
<1>4. FetchesInv' /\ CollectedInv' /\ LeavingInv' /\ DiskInv'
  BY <1>1 DEF TransferInv, SumInv, FetchesInv, CollectedInv, LeavingInv, DiskInv, AnyFailure
<1>. QED
  BY <1>3, <1>4 DEF SumInv

\* The other steps of the main thread and the interrupts touch no task.
LEMMA MovesTransfer ==
    ASSUME TransferInv, Main \/ Interrupt, ~ Submit, \A f \in Files : ~ TakePlan(f)
    PROVE  SumInv' /\ LeavingInv' /\ DiskInv'
<1>1. UNCHANGED <<toSubmit, taken, fetches, queue, task, job, at, created, landed>>
  BY DEF Main, Interrupt, PlanFailed, Collect, FetchFailed, SumDone, PoolClosed, diskVars
<1>2. FetchesInv' /\ PlannedInv' /\ DiskInv' /\ (AnyFailure' <=> AnyFailure)
  BY <1>1 DEF TransferInv, SumInv, FetchesInv, PlannedInv, DiskInv, AnyFailure
<1>a. /\ fetches \in Seq(Chunks) /\ collected \in 0 .. Len(fetches) /\ Len(fetches) \in Nat
      /\ interrupts \in Nat /\ raising \in BOOLEAN
      /\ main \in {"running", "closing", "returned", "raised", "abandoned"}
  BY SetsAssumption DEF TransferInv, IInv, TypeOK
<1>3. CASE Collect
  <2>1. collected' = collected + 1 /\ task[fetches[collected + 1]] = "done"
    BY <1>3 DEF Collect
  <2>2. CollectedInv'
    BY <1>1, <1>a, <2>1 DEF TransferInv, SumInv, CollectedInv
  <2>3. LeavingInv'
    BY <1>1, <1>2, <1>3 DEF Collect, Collecting, TransferInv, LeavingInv
  <2>. QED
    BY <1>2, <2>2, <2>3 DEF SumInv
<1>4. CASE ~ Collect
  <2>1. UNCHANGED collected
    BY <1>4 DEF Main, Interrupt, PlanFailed, FetchFailed, SumDone, PoolClosed
  <2>2. CollectedInv'
    BY <1>1, <2>1 DEF TransferInv, SumInv, CollectedInv
  <2>3. LeavingInv'
    <3>1. ASSUME NEW f \in Files, PlanFailed(f) PROVE LeavingInv'
      <4>1. AnyFailure
        BY <3>1 DEF PlanFailed, AnyFailure, Tasks
      <4>. QED
        BY <1>1, <1>2, <3>1, <4>1 DEF PlanFailed, LeavingInv
    <3>2. CASE FetchFailed
      <4>1. fetches[collected + 1] \in Chunks
        BY <1>a, <3>2 DEF FetchFailed
      <4>2. AnyFailure
        BY <3>2, <4>1 DEF FetchFailed, AnyFailure, Tasks
      <4>. QED
        BY <1>1, <1>2, <3>2, <4>2 DEF FetchFailed, LeavingInv
    <3>3. CASE SumDone
      BY <1>1, <1>2, <2>1, <3>3 DEF SumDone, Collecting, TransferInv, LeavingInv
    <3>4. CASE PoolClosed
      BY <1>1, <1>2, <1>a, <2>1, <3>4 DEF PoolClosed, TransferInv, LeavingInv
    <3>5. CASE Interrupt
      BY <1>1, <1>2, <1>a, <2>1, <3>5 DEF Interrupt, LeavingInv
    <3>. QED
      BY <1>4, <3>1, <3>2, <3>3, <3>4, <3>5 DEF Main
  <2>. QED
    BY <1>2, <2>2, <2>3 DEF SumInv
<1>. QED
  BY <1>3, <1>4

-----------------------------------------------------------------------------
(***************************************************************************)
(* The workers.                                                            *)
(***************************************************************************)

\* A worker's step leaves the main thread alone; it takes tasks from queued to
\* running and from running to their end.
LEMMA WorkerTasks ==
    ASSUME IInv, NEW w \in Workers, Start(w) \/ Work(w)
    PROVE  /\ UNCHANGED mainVars
           /\ \A t \in Tasks :
                  \/ task'[t] = task[t]
                  \/ task[t] = "queued" /\ task'[t] = "running"
                  \/ /\ at[w] # "idle" /\ t = job[w]
                     /\ task[t] = "running" /\ task'[t] \in {"done", "failed"}
<1>1. task \in [Tasks -> TaskState] /\ queue \in Seq(Tasks)
  BY DEF IInv, TypeOK
<1>2. CASE Start(w)
  <2>1. Head(queue) \in Range(queue)
    BY <1>1, <1>2, HeadLeaves DEF IInv, TaskInv, QueueInv, Start
  <2>2. task[Head(queue)] = "queued" /\ task' = [task EXCEPT ![Head(queue)] = "running"]
    BY <1>2, <2>1 DEF IInv, TaskInv, QueueInv, Start
  <2>. QED
    BY <1>1, <1>2, <2>2 DEF Start
<1>3. ASSUME at[w] # "idle", UNCHANGED mainVars,
             UNCHANGED task \/ \E s \in {"done", "failed"} : Finish(w, s)
      PROVE  /\ UNCHANGED mainVars
             /\ \A t \in Tasks :
                  \/ task'[t] = task[t]
                  \/ /\ at[w] # "idle" /\ t = job[w]
                     /\ task[t] = "running" /\ task'[t] \in {"done", "failed"}
  <2>1. job[w] \in Tasks /\ task[job[w]] = "running"
    BY <1>3, JobOf
  <2>. QED
    BY <1>1, <1>3, <2>1 DEF Finish
<1>4. CASE Work(w)
  <2>1. at[w] # "idle" /\ UNCHANGED mainVars
    BY <1>4 DEF Work, ReadChunkmap, CreateFile, Acquire, ReadChunk, WriteChunk, ReleaseBudget
  <2>2. UNCHANGED task \/ \E s \in {"done", "failed"} : Finish(w, s)
    BY <1>4 DEF Work, ReadChunkmap, CreateFile, Acquire, ReadChunk, WriteChunk, ReleaseBudget
  <2>. QED
    BY <1>3, <2>1, <2>2
<1>. QED
  BY <1>2, <1>4

LEMMA WorkerSum ==
    ASSUME TransferInv, NEW w \in Workers, Start(w) \/ Work(w)
    PROVE  SumInv' /\ LeavingInv' /\ main \notin {"returned", "raised"}
<1>1. /\ UNCHANGED <<main, raising, interrupts, toSubmit, taken, fetches, collected>>
      /\ \A t \in Tasks : /\ task'[t] = "new" <=> task[t] = "new"
                          /\ task[t] \in {"done", "failed"} => task'[t] = task[t]
  BY WorkerTasks DEF TransferInv, mainVars
<1>2. main \notin {"returned", "raised"}
  BY DEF TransferInv, LeavingInv, Start, Work, ReadChunkmap, CreateFile, Acquire, ReadChunk,
         WriteChunk, ReleaseBudget
<1>3. FetchesInv' /\ PlannedInv'
  BY <1>1 DEF TransferInv, SumInv, FetchesInv, PlannedInv, Tasks
<1>4. CollectedInv'
  <2>. SUFFICES ASSUME NEW i \in 1 .. collected PROVE task'[fetches[i]] = "done"
    BY <1>1 DEF CollectedInv
  <2>1. fetches[i] \in Tasks
    BY DEF TransferInv, IInv, TypeOK, Tasks
  <2>. QED
    BY <1>1, <2>1 DEF TransferInv, SumInv, CollectedInv
<1>5. LeavingInv'
  <2>1. AnyFailure => AnyFailure'
    BY <1>1 DEF AnyFailure
  <2>. QED
    BY <1>1, <1>2, <2>1 DEF TransferInv, LeavingInv
<1>. QED
  BY <1>2, <1>3, <1>4, <1>5 DEF SumInv

\* The task of a worker that creates a file has no chunk that landed.
LEMMA CreatesFresh ==
    ASSUME IInv, NEW w \in Workers, CreateFile(w)
    PROVE  /\ job[w] \in Files /\ task[job[w]] = "running"
           /\ \A c \in landed : FileOf[c] # job[w]
<1>1. job[w] \in Files /\ task[job[w]] = "running"
  BY JobOf DEF IInv, TaskInv, PlaceInv, PlanPlaces, CreateFile
<1>2. job[w] \notin taken
  BY <1>1 DEF IInv, TaskInv, TakenInv
<1>. QED
  BY <1>1, <1>2 DEF IInv, TypeOK, TaskInv, TakenInv, LandedInv

\* What is written of files and chunks: a worker's step does one of these.
DiskStep(w) ==
    \/ UNCHANGED <<created, landed>> /\ \A t \in Tasks : task'[t] = "done" => task[t] = "done"
    \/ /\ at[w] = "create file" /\ job[w] \in Files \ created
       /\ created' = created \cup {job[w]} /\ landed' = landed
       /\ task'[job[w]] = "done"
    \/ /\ at[w] = "write" /\ job[w] \in Chunks /\ FileOf[job[w]] \in created
       /\ created' = created /\ landed' = landed \cup {job[w]} /\ UNCHANGED task
    \/ /\ at[w] = "release" /\ job[w] \in Chunks
       /\ UNCHANGED <<created, landed>> /\ task'[job[w]] = "done"

LEMMA WorkerDisk ==
    ASSUME TransferInv, NEW w \in Workers, Start(w) \/ Work(w)
    PROVE  DiskStep(w) /\ DiskInv'
<1>a. IInv /\ DiskInv /\ task \in [Tasks -> TaskState] /\ at \in [Workers -> Place]
  BY DEF TransferInv, IInv, TypeOK
<1>b. /\ \A t \in Tasks :
             \/ task'[t] = task[t]
             \/ task[t] = "queued" /\ task'[t] = "running"
             \/ /\ at[w] # "idle" /\ t = job[w]
                /\ task[t] = "running" /\ task'[t] \in {"done", "failed"}
      /\ Files \subseteq Tasks /\ Chunks \subseteq Tasks
  BY <1>a, WorkerTasks DEF Tasks
<1>c. \A v \in Workers \ {w} : job'[v] = job[v] /\ at'[v] = at[v]
  BY <1>a DEF IInv, TypeOK, Start, Work, ReadChunkmap, CreateFile, Acquire, ReadChunk,
              WriteChunk, ReleaseBudget, Goto, Finish
<1>1. CASE CreateFile(w) /\ UNCHANGED diskVars
  <2>1. Finish(w, "failed")
    BY <1>1, CreatesFresh, <1>a DEF CreateFile, diskVars, DiskInv
  <2>2. task' = [task EXCEPT ![job[w]] = "failed"] /\ at'[w] = "idle"
    BY <1>a, <2>1 DEF Finish, Goto
  <2>3. UNCHANGED <<created, landed>> /\ task[job[w]] = "running" /\ job[w] \in Files
    BY <1>1, <1>a, CreatesFresh DEF diskVars
  <2>. QED
    BY <1>a, <1>b, <1>c, <2>2, <2>3 DEF DiskStep, DiskInv
<1>2. CASE CreateFile(w) /\ ~ UNCHANGED diskVars
  <2>1. /\ created' = created \cup {job[w]} /\ landed' = {c \in landed : FileOf[c] # job[w]}
        /\ Finish(w, "done") /\ at[w] = "create file"
    BY <1>2 DEF CreateFile
  <2>2. /\ landed' = landed /\ job[w] \in Files /\ job[w] \notin created
        /\ job[w] \notin Chunks
    <3>1. job[w] \in Files /\ task[job[w]] = "running" /\ \A c \in landed : FileOf[c] # job[w]
      BY <1>2, <1>a, CreatesFresh
    <3>2. landed' = landed
      BY <2>1, <3>1
    <3>3. job[w] \notin created
      BY <1>a, <3>1 DEF DiskInv
    <3>. QED
      BY <3>1, <3>2, <3>3, SetsAssumption
  <2>3. task' = [task EXCEPT ![job[w]] = "done"] /\ at'[w] = "idle"
    BY <1>a, <2>1 DEF Finish, Goto
  <2>. QED
    BY <1>a, <1>b, <1>c, <2>1, <2>2, <2>3 DEF DiskStep, DiskInv
<1>3. CASE WriteChunk(w)
  <2>1. job[w] \in Chunks /\ UNCHANGED <<task, job, created>> /\ at[w] = "write"
    BY <1>3, <1>a DEF WriteChunk, IInv, TaskInv, PlaceInv, FetchPlaces, HoldingPlaces
  <2>2. CASE FileOf[job[w]] \in created /\ landed' = landed \cup {job[w]} /\ Goto(w, "release")
    <3>1. at'[w] = "release"
      BY <1>a, <2>2 DEF Goto
    <3>. QED
      BY <1>a, <1>c, <2>1, <2>2, <3>1 DEF DiskStep, DiskInv
  <2>3. CASE Goto(w, "release and raise") /\ UNCHANGED landed
    <3>1. at'[w] = "release and raise"
      BY <1>a, <2>3 DEF Goto
    <3>. QED
      BY <1>a, <1>c, <2>1, <2>3, <3>1 DEF DiskStep, DiskInv
  <2>. QED
    BY <1>3, <2>2, <2>3 DEF WriteChunk
<1>4. CASE ReleaseBudget(w)
  <2>1. /\ job[w] \in Chunks /\ job[w] \notin Files /\ UNCHANGED <<created, landed>>
        /\ at[w] \in {"release", "release and raise"}
        /\ task' = [task EXCEPT ![job[w]] = IF at[w] = "release" THEN "done" ELSE "failed"]
        /\ at'[w] = "idle"
    BY <1>4, <1>a, SetsAssumption DEF ReleaseBudget, IInv, TaskInv, PlaceInv, FetchPlaces, HoldingPlaces,
       diskVars, Finish, Goto
  <2>2. job[w] \in Tasks /\ task[job[w]] = "running"
    BY <1>a, <2>1, JobOf
  <2>3. task'[job[w]] = IF at[w] = "release" THEN "done" ELSE "failed"
    BY <1>a, <2>1, <2>2
  <2>4. \A t \in Tasks \ {job[w]} : task'[t] = task[t]
    BY <1>a, <2>1
  <2>. QED
    BY <1>a, <1>b, <1>c, <2>1, <2>2, <2>3, <2>4 DEF DiskStep, DiskInv
<1>5. CASE Start(w) \/ ReadChunkmap(w) \/ Acquire(w) \/ ReadChunk(w)
  <2>1. UNCHANGED <<created, landed>> /\ at'[w] # "release"
    BY <1>5, <1>a DEF Start, ReadChunkmap, Acquire, ReadChunk, diskVars, Goto, Finish, FirstPlace
  <2>2. \A t \in Tasks : task'[t] = "done" <=> task[t] = "done"
    <3>1. UNCHANGED task \/ Finish(w, "failed") \/ Start(w)
      BY <1>5 DEF ReadChunkmap, Acquire, ReadChunk
    <3>2. CASE Finish(w, "failed")
      BY <1>a, <1>b, <3>2 DEF Finish
    <3>3. CASE Start(w)
      BY <1>a, <1>b, <3>3 DEF Start
    <3>. QED
      BY <3>1, <3>2, <3>3
  <2>. QED
    BY <1>a, <1>b, <1>c, <2>1, <2>2 DEF DiskStep, DiskInv
<1>. QED
  BY <1>1, <1>2, <1>3, <1>4, <1>5 DEF Work

LEMMA StepTransferInv ==
    ASSUME TransferInv, [Next]_vars
    PROVE  TransferInv'
<1>1. IInv'
  BY NextIInv DEF TransferInv
<1>2. CASE UNCHANGED vars
  BY <1>1, <1>2 DEF vars, mainVars, diskVars, TransferInv, SumInv, FetchesInv, PlannedInv,
     CollectedInv, LeavingInv, DiskInv, AnyFailure
<1>3. CASE Main \/ Interrupt
  BY <1>1, <1>3, SubmitTransfer, TakePlanTransfer, MovesTransfer DEF TransferInv
<1>4. ASSUME NEW w \in Workers, Start(w) \/ Work(w) PROVE TransferInv'
  BY <1>1, <1>4, WorkerSum, WorkerDisk DEF TransferInv
<1>. QED
  BY <1>2, <1>3, <1>4 DEF Next

THEOREM TransferInvariant == Spec => []TransferInv
<1>1. TransferInv /\ [Next]_vars => TransferInv'
  BY StepTransferInv
<1>. QED
  BY <1>1, InitTransferInv, PTL DEF Spec

-----------------------------------------------------------------------------
(***************************************************************************)
(* The theorems.                                                           *)
(***************************************************************************)

\* The sum the transfer returns counts every chunk exactly once.
THEOREM PoolSumIsExact == Spec => []SumIsExact
<1>1. TransferInv => SumIsExact
  <2>. SUFFICES ASSUME TransferInv, main = "returned"
                PROVE  collected = Len(fetches) /\ IsInjective(fetches) /\ Range(fetches) = Chunks
    BY DEF SumIsExact
  <2>1. toSubmit = <<>> /\ taken = Files /\ collected = Len(fetches)
    BY DEF TransferInv, LeavingInv
  <2>2. Range(toSubmit) = {}
    BY <2>1 DEF Range
  <2>3. \A c \in Chunks : task[c] # "new"
    BY <2>1, <2>2, FileOfPlan DEF TransferInv, SumInv, PlannedInv
  <2>4. Range(fetches) \subseteq Chunks
    BY DEF TransferInv, IInv, TypeOK, Range
  <2>. QED
    BY <2>1, <2>3, <2>4 DEF TransferInv, SumInv, FetchesInv
<1>. QED
  BY <1>1, TransferInvariant, PTL

\* Something went wrong, as Transfer sees it.
Trouble ==
    \/ AnyFailure \/ interrupts > 0
    \/ \E w \in Workers : at[w] = "release and raise"

Outcome == IF main = "closing" THEN "running" ELSE main

\* Once something went wrong it stays so.
LEMMA TroubleStays ==
    ASSUME TransferInv, NEW w \in Workers, Start(w) \/ Work(w), Trouble
    PROVE  Trouble'
<1>a. IInv /\ task \in [Tasks -> TaskState] /\ at \in [Workers -> Place]
      /\ job \in [Workers -> Tasks \cup {NoTask}]
  BY DEF TransferInv, IInv, TypeOK
<1>1. CASE AnyFailure \/ interrupts > 0
  <2>1. \A t \in Tasks : task[t] = "failed" => task'[t] = "failed"
    BY <1>a, WorkerTasks
  <2>. QED
    BY <1>a, <1>1, <2>1, WorkerTasks DEF AnyFailure, Trouble, mainVars
<1>2. ASSUME NEW v \in Workers, at[v] = "release and raise" PROVE Trouble'
  <2>1. CASE at'[v] = at[v]
    BY <1>2, <2>1 DEF Trouble
  <2>2. CASE at'[v] # at[v]
    <3>1. v = w /\ ReleaseBudget(w)
      BY <1>a, <1>2, <2>2 DEF Start, Work, ReadChunkmap, CreateFile, Acquire, ReadChunk, WriteChunk,
         ReleaseBudget, Goto, Finish
    <3>2. job[w] \in Tasks
      BY <1>a, <1>2, <3>1, JobOf
    <3>3. task' = [task EXCEPT ![job[w]] = "failed"]
      BY <1>2, <3>1 DEF ReleaseBudget, Finish
    <3>. QED
      BY <1>a, <3>2, <3>3 DEF AnyFailure, Trouble
  <2>. QED
    BY <2>1, <2>2
<1>. QED
  BY <1>1, <1>2 DEF Trouble

\* A return finds everything done and nothing gone wrong.
LEMMA ReturnsClean ==
    ASSUME TransferInv, PoolClosed, ~ raising
    PROVE  ~ Trouble /\ created = Files /\ landed = Chunks
<1>1. /\ taken = Files /\ toSubmit = <<>> /\ collected = Len(fetches) /\ interrupts = 0
      /\ fetches \in Seq(Chunks) /\ created \subseteq Files /\ landed \subseteq Chunks
      /\ \A w \in Workers : at[w] = "idle"
  BY DEF TransferInv, LeavingInv, PoolClosed, IInv, TypeOK
<1>2. \A f \in Files : task[f] = "done"
  BY <1>1 DEF TransferInv, IInv, TaskInv, TakenInv
<1>3. Range(toSubmit) = {}
  BY <1>1 DEF Range
<1>4. ASSUME NEW c \in Chunks PROVE task[c] = "done"
  <2>1. c \in Range(fetches)
    BY <1>1, <1>3, FileOfPlan DEF TransferInv, SumInv, PlannedInv, FetchesInv
  <2>2. PICK i \in 1 .. Len(fetches) : fetches[i] = c
    BY <1>1, <2>1 DEF Range
  <2>. QED
    BY <1>1, <2>2 DEF TransferInv, SumInv, CollectedInv
<1>5. ~ AnyFailure
  BY <1>2, <1>4 DEF AnyFailure, Tasks
<1>6. ~ Trouble
  <2>1. ~ (interrupts > 0)
    BY <1>1
  <2>2. \A w \in Workers : at[w] # "release and raise"
    BY <1>1
  <2>. QED
    BY <1>5, <2>1, <2>2, Zenon DEF Trouble
<1>. QED
  BY <1>1, <1>2, <1>4, <1>6 DEF TransferInv, DiskInv

\* What Transfer allows, in terms of the pool.
LEMMA AllowedSteps ==
    /\ UNCHANGED <<created, landed, Outcome>> /\ (Trouble' <=> Trouble) =>
           UNCHANGED Abstract!transferVars
    /\ \A f \in Files :
           /\ Outcome \in {"running", "abandoned"} /\ f \notin created
           /\ created' = created \cup {f}
           /\ UNCHANGED <<landed, Outcome>> /\ (Trouble' <=> Trouble)
           => Abstract!Next
    /\ \A c \in Chunks :
           /\ Outcome \in {"running", "abandoned"} /\ c \notin landed
           /\ FileOf[c] \in created /\ landed' = landed \cup {c}
           /\ UNCHANGED <<created, Outcome>> /\ (Trouble' <=> Trouble)
           => Abstract!Next
    /\ /\ Outcome \in {"running", "abandoned"} /\ Trouble'
       /\ UNCHANGED <<created, landed, Outcome>>
       => Abstract!Next
    /\ /\ Outcome = "running" /\ ~ Trouble /\ created = Files /\ landed = Chunks
       /\ Outcome' = "returned"
       /\ UNCHANGED <<created, landed>> /\ (Trouble' <=> Trouble)
       => Abstract!Next
    /\ /\ Outcome = "running" /\ Trouble /\ Outcome' = "raised"
       /\ UNCHANGED <<created, landed>> /\ (Trouble' <=> Trouble)
       => Abstract!Next
    /\ /\ Outcome = "running" /\ Trouble' /\ Outcome' = "abandoned"
       /\ UNCHANGED <<created, landed>>
       => Abstract!Next
BY DEF Abstract!transferVars, Abstract!Next, Abstract!Create, Abstract!Land, Abstract!GoWrong,
       Abstract!Return, Abstract!Raise, Abstract!Abandon, Abstract!Active, Trouble, Outcome

LEMMA WorkerTransfers ==
    ASSUME TransferInv, NEW w \in Workers, Start(w) \/ Work(w)
    PROVE  [Abstract!Next]_(Abstract!transferVars)
<1>a. IInv /\ task \in [Tasks -> TaskState] /\ at \in [Workers -> Place]
      /\ job \in [Workers -> Tasks \cup {NoTask}]
      /\ main \in {"running", "closing", "returned", "raised", "abandoned"}
  BY DEF TransferInv, IInv, TypeOK
<1>b. Outcome \in {"running", "abandoned"} /\ Outcome' = Outcome /\ interrupts' = interrupts
  BY <1>a, WorkerSum, WorkerTasks DEF Outcome, mainVars
<1>1. CASE UNCHANGED <<created, landed>>
  BY <1>1, <1>b, TroubleStays, AllowedSteps
<1>2. ASSUME \A v \in Workers : at'[v] = "release and raise" => at[v] = "release and raise",
             \A t \in Tasks : task'[t] = "failed" => task[t] = "failed"
      PROVE  Trouble' <=> Trouble
  <2>1. AnyFailure' => AnyFailure
    BY <1>2 DEF AnyFailure
  <2>2. (interrupts > 0)' <=> interrupts > 0
    BY <1>b
  <2>3. Trouble' => Trouble
    BY <1>2, <2>1, <2>2 DEF Trouble
  <2>. QED
    BY <2>3, TroubleStays
<1>3. CASE landed' = landed /\ created' # created
  <2>1. /\ at[w] = "create file" /\ job[w] \in Files \ created
        /\ created' = created \cup {job[w]}
    BY <1>3, WorkerDisk DEF DiskStep
  <2>2. Finish(w, "done")
    BY <1>3, <2>1 DEF Start, Work, ReadChunkmap, CreateFile, Acquire, ReadChunk, WriteChunk,
       ReleaseBudget, diskVars
  <2>3. Trouble' <=> Trouble
    BY <1>a, <1>2, <2>2 DEF Finish, Goto
  <2>. QED
    BY <1>3, <1>b, <2>1, <2>3, AllowedSteps
<1>4. CASE landed' # landed
  <2>1. /\ at[w] = "write" /\ job[w] \in Chunks /\ FileOf[job[w]] \in created
        /\ created' = created /\ landed' = landed \cup {job[w]} /\ UNCHANGED task
    BY <1>4, WorkerDisk DEF DiskStep
  <2>2. Goto(w, "release")
    BY <1>4, <2>1 DEF Start, Work, ReadChunkmap, CreateFile, Acquire, ReadChunk, WriteChunk,
       ReleaseBudget, diskVars
  <2>3. Trouble' <=> Trouble
    BY <1>a, <1>2, <2>1, <2>2 DEF Goto
  <2>4. job[w] \notin landed
    BY <1>4, <2>1
  <2>. QED
    BY <1>b, <2>1, <2>3, <2>4, AllowedSteps
<1>. QED
  BY <1>1, <1>3, <1>4

LEMMA MainTransfers ==
    ASSUME TransferInv, Main \/ Interrupt
    PROVE  [Abstract!Next]_(Abstract!transferVars)
<1>a. /\ UNCHANGED <<created, landed, at>> /\ task \in [Tasks -> TaskState]
      /\ interrupts \in Nat /\ raising \in BOOLEAN
  BY SetsAssumption DEF TransferInv, IInv, TypeOK, Main, Submit, TakePlan, PlanFailed, Collect, FetchFailed,
         SumDone, PoolClosed, Interrupt, diskVars
<1>1. CASE Main
  <2>1. interrupts' = interrupts
    BY <1>1 DEF Main, Submit, TakePlan, PlanFailed, Collect, FetchFailed, SumDone, PoolClosed
  <2>2. AnyFailure' <=> AnyFailure
    <3>1. CASE Submit
      <4>1. toSubmit \in Seq(Tasks) /\ toSubmit # <<>> /\ IsInjective(toSubmit)
        BY <3>1 DEF TransferInv, IInv, TypeOK, TaskInv, SubmitInv, Submit
      <4>2. task[Head(toSubmit)] = "new"
        BY <4>1, HeadLeaves DEF TransferInv, IInv, TaskInv, SubmitInv
      <4>3. task' = [task EXCEPT ![Head(toSubmit)] = "queued"]
        BY <3>1 DEF Submit
      <4>. QED
        BY <1>a, <4>2, <4>3 DEF AnyFailure
    <3>2. CASE UNCHANGED task
      BY <3>2 DEF AnyFailure
    <3>. QED
      BY <1>1, <3>1, <3>2 DEF Main, TakePlan, PlanFailed, Collect, FetchFailed, SumDone, PoolClosed
  <2>3. Trouble' <=> Trouble
    BY <1>a, <2>1, <2>2 DEF Trouble
  <2>4. CASE ~ PoolClosed
    <3>1. Outcome' = Outcome
      BY <1>1, <2>4 DEF Main, Submit, TakePlan, PlanFailed, Collect, FetchFailed, SumDone,
         Collecting, Outcome
    <3>. QED
      BY <1>a, <2>3, <3>1, AllowedSteps
  <2>5. CASE PoolClosed /\ raising
    <3>1. Trouble /\ Outcome = "running" /\ Outcome' = "raised"
      BY <2>5 DEF PoolClosed, TransferInv, LeavingInv, Trouble, Outcome
    <3>. QED
      BY <1>a, <2>3, <3>1, AllowedSteps
  <2>6. CASE PoolClosed /\ ~ raising
    <3>1. Outcome = "running" /\ Outcome' = "returned"
      BY <2>6 DEF PoolClosed, Outcome
    <3>. QED
      BY <1>a, <2>3, <2>6, <3>1, ReturnsClean, AllowedSteps
  <2>. QED
    BY <2>4, <2>5, <2>6
<1>2. CASE Interrupt
  <2>1. interrupts' > 0
    BY <1>a, <1>2 DEF Interrupt
  <2>2. Trouble'
    BY <2>1 DEF Trouble
  <2>3. Outcome = "running" /\ Outcome' \in {"running", "abandoned"}
    BY <1>2 DEF Interrupt, Outcome
  <2>. QED
    BY <1>a, <2>2, <2>3, AllowedSteps
<1>. QED
  BY <1>1, <1>2

\* What the pool does is what Transfer promises: it returns only with every
\* chunk landed and nothing gone wrong, and raises only when its workers have
\* stopped.
THEOREM PoolTransfers == Spec => ImplementsTransfer
<1>1. Init => Abstract!Init
  <2>. SUFFICES ASSUME Init PROVE Abstract!Init
    OBVIOUS
  <2>1. created = {} /\ landed = {} /\ Outcome = "running"
    BY DEF Init, Outcome
  <2>2. ~ Trouble
    BY DEF Init, Trouble, AnyFailure
  <2>. QED
    BY <2>1, <2>2 DEF Abstract!Init, Trouble, Outcome
<1>2. TransferInv /\ [Next]_vars => [Abstract!Next]_(Abstract!transferVars)
  <2>. SUFFICES ASSUME TransferInv, [Next]_vars PROVE [Abstract!Next]_(Abstract!transferVars)
    OBVIOUS
  <2>1. CASE UNCHANGED vars
    <3>1. UNCHANGED <<created, landed, Outcome>> /\ (Trouble' <=> Trouble)
      BY <2>1 DEF vars, mainVars, diskVars, Outcome, Trouble, AnyFailure
    <3>. QED
      BY <3>1, AllowedSteps
  <2>. QED
    BY <2>1, MainTransfers, WorkerTransfers DEF Next
<1>. QED
  BY <1>1, <1>2, TransferInvariant, PTL DEF Spec, ImplementsTransfer, Abstract!Spec

=============================================================================
