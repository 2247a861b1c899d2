----------------------------- MODULE WorkerPool -----------------------------
(***************************************************************************)
(* internal/workerpool and what surrounds it in cmd/pvz: the goroutines of *)
(* gRPC requests, which hand their handler to the pool (PoolInterceptor)   *)
(* under a deadline (TimeoutInterceptor), the worker goroutines, POST      *)
(* /resize of the admin server, and the graceful shutdown, whose callbacks *)
(* run at the same time.                                                   *)
(*                                                                         *)
(* A channel is a sequence or a count; a receive from a closed channel and *)
(* a send on one are what they are in Go.  A select with several ready     *)
(* cases takes any of them.                                                *)
(***************************************************************************)
EXTENDS Naturals, Sequences, FiniteSets, FiniteSetsExt

CONSTANTS Requests,         \* RPCs; each arrives at most once (a bound)
          Workers,          \* identities for worker goroutines (a bound)
          Admins,           \* connections that may POST /resize
          InitialWorkers,   \* cfg.Service.WorkerLimit
          QueueSize,        \* cfg.Service.QueueSize
          Sizes,            \* values of ?workers=
          None

ASSUME PoolAssumption ==
    /\ IsFiniteSet(Workers) /\ IsFiniteSet(Requests)
    /\ InitialWorkers \in Nat \ {0}
    /\ InitialWorkers <= Cardinality(Workers)
    /\ QueueSize \in Nat \ {0}
    /\ Sizes \subseteq Nat \ {0}
    /\ None \notin Requests

VARIABLES rpc,              \* where the goroutine of each request is
          expired,          \* requests whose context is done
          reply,            \* the channel Resp of each request, of capacity 1
          runs,             \* auxiliary: how often the handler was started
          jobs, jobsClosed, \* the channel jobs
          worker, job,      \* where each worker is, and the job it took
          workers, active,  \* the two atomic counters
          kill, killClosed, \* the channel kill: tokens in its buffer
          closed,           \* Pool.closed
          cancelled,        \* rootCtx is done
          admin, size, left,\* Resize: where it is, its n, tokens still to send
          close, sent,      \* Close: where it is, its loop counter
          stopping,         \* Graceful received the signal
          refusing,         \* which servers accept nothing new any more
          trouble           \* auxiliary: what Close met when it began

vars == <<rpc, expired, reply, runs, jobs, jobsClosed, worker, job, workers,
          active, kill, killClosed, closed, cancelled, admin, size, left,
          close, sent, stopping, refusing, trouble>>

requests == <<rpc, expired, reply>>
resizing == <<admin, size, left>>
closing == <<close, sent, closed, cancelled, stopping, refusing, trouble>>

KillCap == 2 * InitialWorkers

Alive == {w \in Workers : worker[w] # "none"}

Init ==
    /\ rpc = [r \in Requests |-> "none"]
    /\ expired = {}
    /\ reply = [r \in Requests |-> None]
    /\ runs = [r \in Requests |-> 0]
    /\ jobs = <<>> /\ jobsClosed = FALSE
    /\ \E W \in kSubset(InitialWorkers, Workers) :
          worker = [w \in Workers |-> IF w \in W THEN "select" ELSE "none"]
    /\ job = [w \in Workers |-> None]
    /\ workers = InitialWorkers /\ active = 0
    /\ kill = 0 /\ killClosed = FALSE
    /\ closed = FALSE /\ cancelled = FALSE
    /\ admin = [a \in Admins |-> "idle"]
    /\ size = [a \in Admins |-> 0]
    /\ left = [a \in Admins |-> 0]
    /\ close = "none" /\ sent = 0
    /\ stopping = FALSE /\ refusing = {} /\ trouble = "none"

-----------------------------------------------------------------------------
(* A request.                                                              *)

RpcGoto(r, l) == rpc' = [rpc EXCEPT ![r] = l]

\* The request returns; the deferred cancel of TimeoutInterceptor ends its
\* context.
Return(r, l) ==
    /\ RpcGoto(r, l)
    /\ expired' = expired \cup {r}

\* GracefulStop refuses new requests and waits for those in progress.
Arrive(r) ==
    /\ rpc[r] = "none" /\ "grpc" \notin refusing
    /\ RpcGoto(r, "submit")
    /\ UNCHANGED <<expired, reply, runs, jobs, jobsClosed, worker, job, workers,
                   active, kill, killClosed, resizing, closing>>

\* The two seconds are over, or the client is gone.
Expire(r) ==
    /\ rpc[r] \notin {"none", "done", "failed"} /\ r \notin expired
    /\ expired' = expired \cup {r}
    /\ UNCHANGED <<rpc, reply, runs, jobs, jobsClosed, worker, job, workers,
                   active, kill, killClosed, resizing, closing>>

\* Faulty variant: a full queue makes room by running its oldest job here.
SubmitSteals(r) ==
    /\ rpc[r] = "submit" /\ ~jobsClosed
    /\ IF Len(jobs) < QueueSize
         THEN /\ jobs' = Append(jobs, r)
              /\ RpcGoto(r, "wait")
              /\ UNCHANGED <<runs, active>>
         ELSE /\ RpcGoto(r, "sync")
              /\ active' = active + 1
              /\ runs' = [runs EXCEPT ![Head(jobs)] = @ + 1]
              /\ UNCHANGED jobs
    /\ UNCHANGED <<expired, reply, jobsClosed, worker, job, workers, kill,
                   killClosed, resizing, closing>>

\* Faulty variant: the queue takes one job too many.
SubmitOverfills(r) ==
    /\ rpc[r] = "submit" /\ ~jobsClosed
    /\ Len(jobs) <= QueueSize
    /\ jobs' = Append(jobs, r)
    /\ RpcGoto(r, "wait")
    /\ UNCHANGED <<expired, reply, runs, jobsClosed, worker, job, workers,
                   active, kill, killClosed, resizing, closing>>

\* Submit: into the queue, or, when it is full, run by this goroutine.
Submit(r) ==
    /\ rpc[r] = "submit" /\ ~jobsClosed
    /\ IF Len(jobs) < QueueSize
         THEN /\ jobs' = Append(jobs, r)
              /\ RpcGoto(r, "wait")
              /\ UNCHANGED <<runs, active>>
         ELSE /\ RpcGoto(r, "sync")
              /\ active' = active + 1
              /\ runs' = [runs EXCEPT ![r] = @ + 1]
              /\ UNCHANGED jobs
    /\ UNCHANGED <<expired, reply, jobsClosed, worker, job, workers, kill,
                   killClosed, resizing, closing>>

\* A send on the closed channel panics, in a select too; PanicInterceptor
\* turns it into an internal error.
SubmitPanics(r) ==
    /\ rpc[r] = "submit" /\ jobsClosed
    /\ Return(r, "failed")
    /\ UNCHANGED <<reply, runs, jobs, jobsClosed, worker, job, workers,
                   active, kill, killClosed, resizing, closing>>

\* What executeJobWithPanicRecovery does with the answer of Run, or with its
\* panic: the channel is empty, so it can always be sent, but when the
\* context is done select may take that case.
Answer(r) ==
    \/ reply' = [reply EXCEPT ![r] = "answer"]
    \/ r \in expired /\ UNCHANGED reply

SyncDone(r) ==
    /\ rpc[r] = "sync"
    /\ Answer(r)
    /\ active' = active - 1
    /\ RpcGoto(r, "wait")
    /\ UNCHANGED <<expired, runs, jobs, jobsClosed, worker, job, workers, kill,
                   killClosed, resizing, closing>>

\* Faulty variant: PoolInterceptor waits for the answer alone.
WaitsForAnswer(r) ==
    /\ rpc[r] = "wait"
    /\ reply[r] # None
    /\ Return(r, "done")
    /\ UNCHANGED <<reply, runs, jobs, jobsClosed, worker, job, workers,
                   active, kill, killClosed, resizing, closing>>

\* The select of PoolInterceptor.
Receive(r) ==
    /\ rpc[r] = "wait"
    /\ reply[r] # None \/ r \in expired
    /\ Return(r, "done")
    /\ UNCHANGED <<reply, runs, jobs, jobsClosed, worker, job, workers,
                   active, kill, killClosed, resizing, closing>>

-----------------------------------------------------------------------------
(* A worker: the cases of its select, and what follows each.               *)

Exit(w) == worker' = [worker EXCEPT ![w] = "none"]

TakeKill(w) ==
    /\ worker[w] = "select"
    /\ kill > 0
    /\ kill' = kill - 1
    /\ Exit(w)
    /\ UNCHANGED <<requests, runs, jobs, jobsClosed, job, workers, active,
                   killClosed, resizing, closing>>

\* A closed kill, a closed and empty jobs, or a done rootCtx.
Stop(w) ==
    /\ worker[w] = "select"
    /\ \/ killClosed /\ kill = 0
       \/ jobsClosed /\ jobs = <<>>
       \/ cancelled
    /\ Exit(w)
    /\ UNCHANGED <<requests, runs, jobs, jobsClosed, job, workers, active,
                   kill, killClosed, resizing, closing>>

TakeJob(w) ==
    /\ worker[w] = "select"
    /\ jobs # <<>>
    /\ job' = [job EXCEPT ![w] = Head(jobs)]
    /\ jobs' = Tail(jobs)
    /\ active' = active + 1
    /\ worker' = [worker EXCEPT ![w] = "took"]
    /\ UNCHANGED <<requests, runs, jobsClosed, workers, kill, killClosed,
                   resizing, closing>>

\* Faulty variant: the branch for a done context forgets the counter.
DispatchLeaks(w) ==
    /\ worker[w] = "took"
    /\ IF job[w] \in expired
         THEN /\ reply' = [reply EXCEPT ![job[w]] = IF @ = None THEN "expired" ELSE @]
              /\ worker' = [worker EXCEPT ![w] = "select"]
              /\ job' = [job EXCEPT ![w] = None]
              /\ UNCHANGED runs
         ELSE /\ worker' = [worker EXCEPT ![w] = "run"]
              /\ runs' = [runs EXCEPT ![job[w]] = @ + 1]
              /\ UNCHANGED <<reply, job>>
    /\ UNCHANGED <<rpc, expired, jobs, jobsClosed, workers, active, kill,
                   killClosed, resizing, closing>>

\* A job whose context is done is not run.
Dispatch(w) ==
    /\ worker[w] = "took"
    /\ IF job[w] \in expired
         THEN /\ reply' = [reply EXCEPT ![job[w]] = IF @ = None THEN "expired" ELSE @]
              /\ worker' = [worker EXCEPT ![w] = "select"]
              /\ job' = [job EXCEPT ![w] = None]
              /\ active' = active - 1
              /\ UNCHANGED runs
         ELSE /\ worker' = [worker EXCEPT ![w] = "run"]
              /\ runs' = [runs EXCEPT ![job[w]] = @ + 1]
              /\ UNCHANGED <<reply, job, active>>
    /\ UNCHANGED <<rpc, expired, jobs, jobsClosed, workers, kill, killClosed,
                   resizing, closing>>

JobDone(w) ==
    /\ worker[w] = "run"
    /\ Answer(job[w])
    /\ active' = active - 1
    /\ worker' = [worker EXCEPT ![w] = "select"]
    /\ job' = [job EXCEPT ![w] = None]
    /\ UNCHANGED <<rpc, expired, runs, jobs, jobsClosed, workers, kill,
                   killClosed, resizing, closing>>

-----------------------------------------------------------------------------
(* Resize.                                                                 *)

\* The request is refused when the pool is closed; else the counter is read
\* and decides what to do.
StartResize(a, n) ==
    /\ admin[a] = "idle" /\ "admin" \notin refusing
    /\ ~closed /\ n # workers
    /\ size' = [size EXCEPT ![a] = n]
    /\ IF n > workers
         THEN /\ admin' = [admin EXCEPT ![a] = "spawn"]
              /\ left' = [left EXCEPT ![a] = n - workers]
         ELSE /\ admin' = [admin EXCEPT ![a] = "kill"]
              /\ left' = [left EXCEPT ![a] = workers - n]
    /\ UNCHANGED <<requests, runs, jobs, jobsClosed, worker, job, workers,
                   active, kill, killClosed, closing>>

Spawn(a) ==
    /\ admin[a] = "spawn"
    /\ \E W \in kSubset(left[a], Workers \ Alive) :
          worker' = [w \in Workers |-> IF w \in W THEN "select" ELSE worker[w]]
    /\ admin' = [admin EXCEPT ![a] = "store"]
    /\ left' = [left EXCEPT ![a] = 0]
    /\ UNCHANGED <<requests, runs, jobs, jobsClosed, job, workers, active,
                   kill, killClosed, size, closing>>

\* One token of the loop; it waits while the channel is full.
SendKill(a) ==
    /\ admin[a] = "kill" /\ ~killClosed
    /\ kill < KillCap
    /\ kill' = kill + 1
    /\ left' = [left EXCEPT ![a] = @ - 1]
    /\ admin' = [admin EXCEPT ![a] = IF left[a] = 1 THEN "store" ELSE "kill"]
    /\ UNCHANGED <<requests, runs, jobs, jobsClosed, worker, job, workers,
                   active, killClosed, size, closing>>

\* A send on the closed channel panics; net/http recovers it.
KillPanics(a) ==
    /\ admin[a] = "kill" /\ killClosed
    /\ admin' = [admin EXCEPT ![a] = "idle"]
    /\ size' = [size EXCEPT ![a] = 0]
    /\ left' = [left EXCEPT ![a] = 0]
    /\ UNCHANGED <<requests, runs, jobs, jobsClosed, worker, job, workers,
                   active, kill, killClosed, closing>>

\* Faulty variant: the counter is changed only when the pool grows.
StoreGrowth(a) ==
    /\ admin[a] = "store"
    /\ workers' = IF size[a] > workers THEN size[a] ELSE workers
    /\ admin' = [admin EXCEPT ![a] = "idle"]
    /\ size' = [size EXCEPT ![a] = 0]
    /\ UNCHANGED <<requests, runs, jobs, jobsClosed, worker, job, active,
                   kill, killClosed, left, closing>>

Store(a) ==
    /\ admin[a] = "store"
    /\ workers' = size[a]
    /\ admin' = [admin EXCEPT ![a] = "idle"]
    /\ size' = [size EXCEPT ![a] = 0]
    /\ UNCHANGED <<requests, runs, jobs, jobsClosed, worker, job, active,
                   kill, killClosed, left, closing>>

-----------------------------------------------------------------------------
(* The shutdown: GracefulStop, admin.Shutdown and Close at once.           *)

Signal ==
    /\ ~stopping
    /\ stopping' = TRUE
    /\ UNCHANGED <<requests, runs, jobs, jobsClosed, worker, job, workers,
                   active, kill, killClosed, resizing, close, sent, closed,
                   cancelled, refusing, trouble>>

\* GracefulStop and admin.Shutdown begin.
Refuse(server) ==
    /\ stopping
    /\ refusing' = refusing \cup {server}
    /\ UNCHANGED <<requests, runs, jobs, jobsClosed, worker, job, workers,
                   active, kill, killClosed, resizing, close, sent, closed,
                   cancelled, stopping, trouble>>

\* closed is set under the mutex, then rootCtx is cancelled.
BeginClose ==
    /\ stopping /\ close = "none"
    /\ closed' = TRUE /\ cancelled' = TRUE
    /\ close' = "jobs"
    /\ trouble' = IF \E a \in Admins : admin[a] # "idle" THEN "resize"
                  ELSE IF workers + kill > KillCap THEN "tokens" ELSE "none"
    /\ UNCHANGED <<requests, runs, jobs, jobsClosed, worker, job, workers,
                   active, kill, killClosed, resizing, sent, stopping,
                   refusing>>

CloseJobs ==
    /\ close = "jobs"
    /\ jobsClosed' = TRUE
    /\ close' = "kill"
    /\ UNCHANGED <<requests, runs, jobs, worker, job, workers, active, kill,
                   killClosed, resizing, sent, closed, cancelled,
                   stopping, refusing, trouble>>

\* The loop reads the counter at every turn and waits while kill is full.
CloseKills ==
    /\ close = "kill"
    /\ IF sent < workers
         THEN /\ kill < KillCap
              /\ kill' = kill + 1
              /\ sent' = sent + 1
              /\ UNCHANGED close
         ELSE /\ close' = "wait"
              /\ UNCHANGED <<kill, sent>>
    /\ UNCHANGED <<requests, runs, jobs, jobsClosed, worker, job, workers,
                   active, killClosed, resizing, closed, cancelled,
                   stopping, refusing, trouble>>

\* Faulty variant: Close does not wait for the workers.
CloseHurries ==
    /\ close = "wait"
    /\ killClosed' = TRUE
    /\ close' = "done"
    /\ UNCHANGED <<requests, runs, jobs, jobsClosed, worker, job, workers,
                   active, kill, resizing, sent, closed, cancelled,
                   stopping, refusing, trouble>>

\* wg.Wait, then close(kill).
CloseDone ==
    /\ close = "wait"
    /\ Alive = {}
    /\ killClosed' = TRUE
    /\ close' = "done"
    /\ UNCHANGED <<requests, runs, jobs, jobsClosed, worker, job, workers,
                   active, kill, resizing, sent, closed, cancelled,
                   stopping, refusing, trouble>>

InProgress == {r \in Requests : rpc[r] \notin {"none", "done", "failed"}}

\* Graceful returns when its callbacks have: the requests are answered and
\* the pool is closed; admin.Shutdown gives up after ten seconds.
Stopped ==
    /\ refusing = {"grpc", "admin"}
    /\ InProgress = {} /\ close = "done"

Idle == Stopped /\ UNCHANGED vars

-----------------------------------------------------------------------------
RequestStep(r) == Submit(r) \/ SubmitPanics(r) \/ SyncDone(r) \/ Receive(r)

WorkerStep(w) == TakeKill(w) \/ Stop(w) \/ TakeJob(w) \/ Dispatch(w) \/ JobDone(w)

AdminStep(a) == Spawn(a) \/ SendKill(a) \/ KillPanics(a) \/ Store(a)

CloseStep == BeginClose \/ CloseJobs \/ CloseKills \/ CloseDone

ShutdownStep == CloseStep \/ \E server \in {"grpc", "admin"} : Refuse(server)

Next ==
    \/ \E r \in Requests : Arrive(r) \/ Expire(r) \/ RequestStep(r)
    \/ \E w \in Workers : WorkerStep(w)
    \/ \E a \in Admins : AdminStep(a) \/ \E n \in Sizes : StartResize(a, n)
    \/ Signal \/ ShutdownStep \/ Idle

Spec == Init /\ [][Next]_vars

\* The scheduler runs every goroutine that can run, a handler returns (its
\* queries end with its context), and the deadline of a request passes.
\* Expire, and each step of the shutdown, happens a bounded number of times:
\* fairness of the disjunction is as strong as that of each part.
FairSpec ==
    /\ Spec
    /\ \A r \in Requests : WF_vars(RequestStep(r) \/ Expire(r))
    /\ \A w \in Workers : WF_vars(WorkerStep(w))
    /\ \A a \in Admins : WF_vars(AdminStep(a))
    /\ WF_vars(ShutdownStep)

-----------------------------------------------------------------------------
(* Properties.                                                             *)

\* Every variable has its type.
TypeOK ==
    /\ rpc \in [Requests -> {"none", "submit", "sync", "wait", "done", "failed"}]
    /\ expired \subseteq Requests
    /\ reply \in [Requests -> {None, "answer", "expired"}]
    /\ runs \in [Requests -> Nat]
    /\ jobs \in Seq(Requests) /\ Len(jobs) <= QueueSize
    /\ worker \in [Workers -> {"none", "select", "took", "run"}]
    /\ job \in [Workers -> Requests \cup {None}]
    /\ workers \in Nat /\ active \in Nat
    /\ kill \in 0..KillCap
    /\ {jobsClosed, killClosed, closed, cancelled, stopping} \subseteq BOOLEAN
    /\ admin \in [Admins -> {"idle", "spawn", "kill", "store"}]
    /\ size \in [Admins -> Nat] /\ left \in [Admins -> Nat]
    /\ refusing \subseteq {"grpc", "admin"}
    /\ close \in {"none", "jobs", "kill", "wait", "done"}
    /\ sent \in Nat
    /\ trouble \in {"none", "resize", "tokens"}

Busy == {w \in Workers : worker[w] \in {"took", "run"}}
Inline == {r \in Requests : rpc[r] = "sync"}

\* Both counters tell the truth: the gauge of active workers counts the
\* goroutines that have a job in hand, workers and requests alike, and no
\* branch of the worker's loop loses or leaks a count; with one admin
\* connection WorkerCount is the number of goroutines less the tokens that
\* wait for them, whenever Resize is not at work and the pool is open.
CountersAreExact ==
    /\ active = Cardinality(Busy) + Cardinality(Inline)
    /\ ~closed /\ (\A a \in Admins : admin[a] = "idle")
          => Cardinality(Alive) = workers + kill

\* The handler of a request is started at most once: it is queued, held by a
\* worker, run by its own goroutine or finished, never two of these.
RunsOnce ==
    \A r \in Requests :
        /\ runs[r] <= 1
        /\ Cardinality({i \in 1..Len(jobs) : jobs[i] = r}) + runs[r]
              + Cardinality({w \in Workers : worker[w] = "took" /\ job[w] = r}) <= 1

\* When Close has returned no worker is left, and no handler is running in
\* one: nothing uses the database client that main closes next.  A Resize
\* that was past its look at Pool.closed when Close began can still start
\* workers.
ClosedMeansStopped ==
    close = "done" /\ trouble # "resize" => Alive = {} /\ Busy = {}

\* Every request is answered, whatever happens to the pool.
EveryRequestReturns == []<>(InProgress = {})

\* After the signal, which is never taken back, the process ends, unless Close
\* met a Resize at work, or its tokens and those left by Resize do not fit the
\* channel kill.
ShutdownEnds == []<>(stopping => Stopped \/ trouble # "none")

\* Graceful returns, whatever Resize has done before.
GracefulReturns == stopping ~> Stopped
=============================================================================
