------------------------------ MODULE FetchPool ------------------------------
(***************************************************************************)
(* _Materializer._fetch_files of volumes/_client.py with the two tasks it  *)
(* runs on a ThreadPoolExecutor, _plan_file and _fetch_chunk.              *)
(*                                                                         *)
(* The main thread submits one plan per file, then the chunk fetches of    *)
(* each plan as it completes, then waits for the fetches in the order they *)
(* were submitted.  The worker threads take tasks from the pool's FIFO     *)
(* queue; a fetch holds its share of the ByteBudget from before its read   *)
(* until after its write.  The first failure the main thread meets makes   *)
(* it leave the with block, whose exit waits until the workers have        *)
(* emptied the queue, and raise.  A KeyboardInterrupt reaches the main     *)
(* thread at any time, also in that wait: the pool is then left running.   *)
(*                                                                         *)
(* A read stands for ObjectStore.get with decode_object and the length     *)
(* check or the chunkmap parse: it ends, with the object or an error.      *)
(***************************************************************************)
EXTENDS Naturals, Sequences, FiniteSets, Functions

CONSTANTS
    Files,          \* the regular files to materialize
    Chunks,         \* the chunk records of all of them
    FileOrder,      \* the files in the order of the manifest
    PlanOf,         \* PlanOf[f]: the chunks _plan_file returns for f, in order
    Listed,         \* the files whose chunks a chunkmap object lists
    Charge,         \* Charge[c]: twice the chunk's length
    Limit,          \* options.max_bytes_in_flight
    Workers,        \* the pool's threads, options.max_concurrency of them
    MaxInterrupts   \* bound: KeyboardInterrupts the main thread may receive

ASSUME SetsAssumption ==
    /\ IsFiniteSet(Chunks) /\ IsFiniteSet(Files) /\ IsFiniteSet(Workers)
    /\ Files \cap Chunks = {}
    /\ Workers # {}
    /\ Listed \subseteq Files
    /\ MaxInterrupts \in Nat
ASSUME PlansAssumption ==
    /\ FileOrder \in Seq(Files) /\ Range(FileOrder) = Files /\ IsInjective(FileOrder)
    /\ PlanOf \in [Files -> Seq(Chunks)]
    /\ \A f \in Files : IsInjective(PlanOf[f])
    /\ \A c \in Chunks : \E f \in Files : c \in Range(PlanOf[f])
    /\ \A f, g \in Files :
           f # g => Range(PlanOf[f]) \cap Range(PlanOf[g]) = {}
ASSUME BudgetAssumption ==
    /\ Charge \in [Chunks -> Nat]
    /\ Limit \in Nat \ {0}

VARIABLES
    main,           \* where the main thread is
    raising,        \* an exception is on its way out of the with block
    interrupts,     \* KeyboardInterrupts received so far
    toSubmit,       \* tasks the main thread is about to submit
    taken,          \* plans as_completed has yielded
    fetches,        \* the fetch futures, in submission order
    collected,      \* how many of them the sum has consumed
    queue,          \* the pool's work queue
    task,           \* the state of each task's future
    job,            \* the task each worker runs
    at,             \* where in that task it is
    created,        \* files create_file made
    landed,         \* chunks that are in their file
    inFlight, call  \* the ByteBudget

mainVars == <<main, raising, interrupts, toSubmit, taken, fetches, collected>>
diskVars == <<created, landed>>
budgetVars == <<inFlight, call>>
vars == <<mainVars, queue, task, job, at, diskVars, budgetVars>>

Tasks == Files \cup Chunks
NoTask == "none"
ASSUME NoTaskAssumption == NoTask \notin Tasks

FileOf == [c \in Chunks |-> CHOOSE f \in Files : c \in Range(PlanOf[f])]

Budget == INSTANCE ByteBudget WITH Callers <- Chunks

TaskState == {"new", "queued", "running", "done", "failed"}
Place == {"idle", "read chunkmap", "create file", "acquire", "read chunk",
          "write", "release", "release and raise"}

TypeOK ==
    /\ main \in {"running", "closing", "returned", "raised", "abandoned"}
    /\ raising \in BOOLEAN
    /\ interrupts \in 0 .. MaxInterrupts
    /\ toSubmit \in Seq(Tasks)
    /\ taken \subseteq Files
    /\ fetches \in Seq(Chunks)
    /\ collected \in 0 .. Len(fetches)
    /\ queue \in Seq(Tasks)
    /\ task \in [Tasks -> TaskState]
    /\ job \in [Workers -> Tasks \cup {NoTask}]
    /\ at \in [Workers -> Place]
    /\ created \subseteq Files
    /\ landed \subseteq Chunks
    /\ Budget!TypeOK

Init ==
    /\ main = "running"
    /\ raising = FALSE
    /\ interrupts = 0
    /\ toSubmit = FileOrder
    /\ taken = {}
    /\ fetches = <<>>
    /\ collected = 0
    /\ queue = <<>>
    /\ task = [t \in Tasks |-> "new"]
    /\ job = [w \in Workers |-> NoTask]
    /\ at = [w \in Workers |-> "idle"]
    /\ created = {}
    /\ landed = {}
    /\ Budget!Init

-----------------------------------------------------------------------------
(***************************************************************************)
(* The main thread.                                                        *)
(***************************************************************************)

\* pool.submit: the list of plans first, then the fetches of a plan.
Submit ==
    /\ main = "running"
    /\ toSubmit # <<>>
    /\ LET t == Head(toSubmit)
       IN /\ queue' = Append(queue, t)
          /\ task' = [task EXCEPT ![t] = "queued"]
          /\ fetches' = IF t \in Chunks THEN Append(fetches, t) ELSE fetches
    /\ toSubmit' = Tail(toSubmit)
    /\ UNCHANGED <<main, raising, interrupts, taken, collected, job, at,
                   diskVars, budgetVars>>

\* as_completed yields a finished plan and plan.result() returns its chunks.
TakePlan(f) ==
    /\ main = "running"
    /\ toSubmit = <<>>
    /\ f \notin taken
    /\ task[f] = "done"
    /\ taken' = taken \cup {f}
    /\ toSubmit' = PlanOf[f]
    /\ UNCHANGED <<main, raising, interrupts, fetches, collected, queue, task,
                   job, at, diskVars, budgetVars>>

\* plan.result() raises what the plan raised.
PlanFailed(f) ==
    /\ main = "running"
    /\ toSubmit = <<>>
    /\ f \notin taken
    /\ task[f] = "failed"
    /\ main' = "closing"
    /\ raising' = TRUE
    /\ UNCHANGED <<interrupts, toSubmit, taken, fetches, collected, queue, task,
                   job, at, diskVars, budgetVars>>

\* Mutant: the sum starts before every plan is in.
Collecting_Early == main = "running" /\ toSubmit = <<>>

\* Every plan is in and every fetch submitted: the sum is being computed.
Collecting == main = "running" /\ toSubmit = <<>> /\ taken = Files

\* fetch.result() of the next future.
Collect ==
    /\ Collecting
    /\ collected < Len(fetches)
    /\ task[fetches[collected + 1]] = "done"
    /\ collected' = collected + 1
    /\ UNCHANGED <<main, raising, interrupts, toSubmit, taken, fetches, queue,
                   task, job, at, diskVars, budgetVars>>

FetchFailed ==
    /\ Collecting
    /\ collected < Len(fetches)
    /\ task[fetches[collected + 1]] = "failed"
    /\ main' = "closing"
    /\ raising' = TRUE
    /\ UNCHANGED <<interrupts, toSubmit, taken, fetches, collected, queue, task,
                   job, at, diskVars, budgetVars>>

\* The sum is complete: the return statement leaves the with block.
SumDone ==
    /\ Collecting
    /\ collected = Len(fetches)
    /\ main' = "closing"
    /\ UNCHANGED <<raising, interrupts, toSubmit, taken, fetches, collected,
                   queue, task, job, at, diskVars, budgetVars>>

\* Mutant: the pool is shut down without waiting for its workers.
PoolClosed_NoWait ==
    /\ main = "closing"
    /\ main' = IF raising THEN "raised" ELSE "returned"
    /\ UNCHANGED <<raising, interrupts, toSubmit, taken, fetches, collected,
                   queue, task, job, at, diskVars, budgetVars>>

\* The pool's __exit__: shutdown(wait=True) joins the workers, which leave
\* only when the queue is empty.
PoolClosed ==
    /\ main = "closing"
    /\ queue = <<>>
    /\ \A w \in Workers : at[w] = "idle"
    /\ main' = IF raising THEN "raised" ELSE "returned"
    /\ UNCHANGED <<raising, interrupts, toSubmit, taken, fetches, collected,
                   queue, task, job, at, diskVars, budgetVars>>

\* A KeyboardInterrupt in the body of the with block, or in the wait of its
\* exit: the latter gives up on the threads.
Interrupt ==
    /\ main \in {"running", "closing"}
    /\ interrupts < MaxInterrupts
    /\ interrupts' = interrupts + 1
    /\ main' = IF main = "running" THEN "closing" ELSE "abandoned"
    /\ raising' = TRUE
    /\ UNCHANGED <<toSubmit, taken, fetches, collected, queue, task, job, at,
                   diskVars, budgetVars>>

-----------------------------------------------------------------------------
(***************************************************************************)
(* The worker threads.                                                     *)
(***************************************************************************)

\* Worker w moves to place p within its task.
Goto(w, p) == at' = [at EXCEPT ![w] = p]

\* Worker w's task ends in state s and its future with it.
Finish(w, s) ==
    /\ task' = [task EXCEPT ![job[w]] = s]
    /\ job' = [job EXCEPT ![w] = NoTask]
    /\ Goto(w, "idle")

\* The first thing each kind of task does.
FirstPlace(t) ==
    IF t \in Chunks THEN "acquire"
    ELSE IF t \in Listed THEN "read chunkmap"
    ELSE "create file"

Start(w) ==
    /\ at[w] = "idle"
    /\ queue # <<>>
    /\ LET t == Head(queue)
       IN /\ job' = [job EXCEPT ![w] = t]
          /\ task' = [task EXCEPT ![t] = "running"]
          /\ Goto(w, FirstPlace(t))
          /\ IF t \in Chunks THEN Budget!Call(t) ELSE UNCHANGED budgetVars
    /\ queue' = Tail(queue)
    /\ UNCHANGED <<mainVars, diskVars>>

\* _plan_file of a listed file reads, verifies and parses its chunkmap.
ReadChunkmap(w) ==
    /\ at[w] = "read chunkmap"
    /\ \/ Goto(w, "create file") /\ UNCHANGED <<task, job>>
       \/ Finish(w, "failed")
    /\ UNCHANGED <<mainVars, queue, diskVars, budgetVars>>

\* create_file unlinks what is there and makes a fresh file of zeros: chunks
\* that were in it are gone.
CreateFile(w) ==
    /\ at[w] = "create file"
    /\ \/ /\ created' = created \cup {job[w]}
          /\ landed' = {c \in landed : FileOf[c] # job[w]}
          /\ Finish(w, "done")
       \/ Finish(w, "failed") /\ UNCHANGED diskVars
    /\ UNCHANGED <<mainVars, queue, budgetVars>>

\* _fetch_chunk's budget.acquire: admitted, or parked until woken.
Acquire(w) ==
    /\ at[w] = "acquire"
    /\ \/ Budget!Admit(job[w]) /\ Goto(w, "read chunk")
       \/ Budget!Park(job[w]) /\ UNCHANGED at
    /\ UNCHANGED <<mainVars, queue, task, job, diskVars>>

\* Mutant: a failed read raises past the release.
ReadChunk_NoFinally(w) ==
    /\ at[w] = "read chunk"
    /\ \/ Goto(w, "write") /\ UNCHANGED <<task, job>>
       \/ Finish(w, "failed")
    /\ UNCHANGED <<mainVars, queue, diskVars, budgetVars>>

\* Mutant: a failed read plans its whole file again.
ReadChunk_RestartsFile(w) ==
    /\ at[w] = "read chunk"
    /\ \/ Goto(w, "write") /\ UNCHANGED <<queue, task>>
       \/ /\ Goto(w, "release and raise")
          /\ queue' = Append(queue, FileOf[job[w]])
          /\ task' = [task EXCEPT ![FileOf[job[w]]] = "queued"]
    /\ UNCHANGED <<mainVars, job, diskVars, budgetVars>>

\* The chunk is read, decoded and its length compared with its record.
ReadChunk(w) ==
    /\ at[w] = "read chunk"
    /\ \/ Goto(w, "write")
       \/ Goto(w, "release and raise")
    /\ UNCHANGED <<mainVars, queue, task, job, diskVars, budgetVars>>

\* Mutant: a failed write raises past the release.
WriteChunk_NoFinally(w) ==
    /\ at[w] = "write"
    /\ \/ /\ FileOf[job[w]] \in created
          /\ landed' = landed \cup {job[w]}
          /\ Goto(w, "release")
          /\ UNCHANGED <<task, job>>
       \/ Finish(w, "failed") /\ UNCHANGED landed
    /\ UNCHANGED <<mainVars, queue, created, budgetVars>>

\* write_at opens the file without creating it: it fails where none is.
WriteChunk(w) ==
    /\ at[w] = "write"
    /\ \/ /\ FileOf[job[w]] \in created
          /\ landed' = landed \cup {job[w]}
          /\ Goto(w, "release")
       \/ Goto(w, "release and raise") /\ UNCHANGED landed
    /\ UNCHANGED <<mainVars, queue, task, job, created, budgetVars>>

\* The finally clause, then the task's future takes its result or exception.
ReleaseBudget(w) ==
    /\ at[w] \in {"release", "release and raise"}
    /\ Budget!Release(job[w])
    /\ Finish(w, IF at[w] = "release" THEN "done" ELSE "failed")
    /\ UNCHANGED <<mainVars, queue, diskVars>>

-----------------------------------------------------------------------------

Main ==
    \/ Submit
    \/ \E f \in Files : TakePlan(f) \/ PlanFailed(f)
    \/ Collect
    \/ FetchFailed
    \/ SumDone
    \/ PoolClosed

Work(w) ==
    \/ ReadChunkmap(w)
    \/ CreateFile(w)
    \/ Acquire(w)
    \/ ReadChunk(w)
    \/ WriteChunk(w)
    \/ ReleaseBudget(w)

Next ==
    \/ Main
    \/ Interrupt
    \/ \E w \in Workers : Start(w) \/ Work(w)

\* The scheduler runs every thread; reads end because their attempts and
\* timeouts are bounded.  No interrupt has to come.
Fairness ==
    /\ WF_vars(Main)
    /\ \A w \in Workers : WF_vars(Start(w)) /\ WF_vars(Work(w))

Spec == Init /\ [][Next]_vars /\ Fairness

-----------------------------------------------------------------------------
(***************************************************************************)
(* Properties.                                                             *)
(***************************************************************************)

\* The budget's holders and waiters are exactly the fetches at the matching
\* place of _fetch_chunk: an error path or a failed read never keeps bytes.
BudgetFollowsWorkers ==
    /\ {c \in Chunks : call[c] = "holding"} =
           {job[w] : w \in {v \in Workers :
                at[v] \in {"read chunk", "write", "release", "release and raise"}}}
    /\ {c \in Chunks : call[c] \in {"trying", "waiting"}} =
           {job[w] : w \in {v \in Workers : at[v] = "acquire"}}

\* A file is never created again once a chunk of it is written, so no byte
\* that landed is lost: create_file would truncate the file under its chunks.
NothingLost == [][landed \subseteq landed']_vars

\* The sum the transfer returns counts every chunk exactly once.
SumIsExact ==
    main = "returned" =>
        /\ collected = Len(fetches)
        /\ IsInjective(fetches)
        /\ Range(fetches) = Chunks

\* Not every worker is parked in acquire: the comment on _fetch_files says
\* that no worker ever waits on another, and where one waits for the budget
\* another holds it and runs.
SomeWorkerRuns ==
    (\E w \in Workers : at[w] # "idle") =>
        \E w \in Workers :
            at[w] # "idle" /\ ~ (job[w] \in Chunks /\ call[job[w]] = "waiting")

\* The transfer ends, whatever fails and however large the chunks are.
Termination == <>(main \in {"returned", "raised", "abandoned"})

\* What the pool does implements the abstract transfer.
AnyFailure == \E t \in Tasks : task[t] = "failed"
Abstract == INSTANCE Transfer WITH
    trouble <- AnyFailure \/ interrupts > 0
               \/ \E w \in Workers : at[w] = "release and raise",
    outcome <- IF main = "closing" THEN "running" ELSE main
ImplementsTransfer == Abstract!Spec

\* The pool gives the budget the fairness its own specification assumes: a
\* call that can move does, and every holder releases.
ImplementsBudget == Budget!Spec

=============================================================================
