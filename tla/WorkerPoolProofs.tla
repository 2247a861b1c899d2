-------------------------- MODULE WorkerPoolProofs ---------------------------
(***************************************************************************)
(* Safety of the worker pool, for any number of requests, workers and      *)
(* resizes and any size of the queue.                                      *)
(***************************************************************************)
EXTENDS WorkerPool, FiniteSetTheorems, TLAPS

\* A job is in the queue once, and nothing has been done with it.
QueueOK ==
    /\ \A i, j \in 1..Len(jobs) : jobs[i] = jobs[j] => i = j
    /\ \A i \in 1..Len(jobs) :
          runs[jobs[i]] = 0 /\ rpc[jobs[i]] \notin {"none", "submit"}

\* A job that was taken is in no other hand and not in the queue.
TakenOK ==
    \A w \in Workers :
        /\ worker[w] \in {"took", "run"} => job[w] \in Requests
        /\ worker[w] = "took" =>
              /\ runs[job[w]] = 0 /\ rpc[job[w]] \notin {"none", "submit"}
              /\ \A i \in 1..Len(jobs) : jobs[i] # job[w]
              /\ \A v \in Workers : worker[v] = "took" /\ job[v] = job[w] => v = w

RunsOK ==
    \A r \in Requests :
        /\ runs[r] \in {0, 1}
        /\ rpc[r] \in {"none", "submit"} => runs[r] = 0

ActiveOK == active = Cardinality(Busy) + Cardinality(Inline)

\* Resize sends tokens while some are left, and Close goes on from what it met.
CloseOK ==
    /\ \A a \in Admins : admin[a] = "kill" => left[a] > 0
    /\ closed <=> close # "none"
    /\ cancelled <=> close # "none"
    /\ jobsClosed <=> close \in {"kill", "wait", "done"}
    /\ killClosed <=> close = "done"
    /\ close # "none" /\ trouble # "resize" => \A a \in Admins : admin[a] = "idle"
    /\ ClosedMeansStopped

\* The inductive invariant.
Inv == TypeOK /\ QueueOK /\ TakenOK /\ RunsOK /\ ActiveOK /\ CloseOK

-----------------------------------------------------------------------------
LEMMA OneMore ==
  ASSUME NEW S, IsFiniteSet(S), NEW x, x \notin S
  PROVE  Cardinality(S \cup {x}) = Cardinality(S) + 1
BY FS_AddElement

LEMMA OneLess ==
  ASSUME NEW S, IsFiniteSet(S), NEW x \in S
  PROVE  /\ Cardinality(S \ {x}) = Cardinality(S) - 1
         /\ Cardinality(S) >= 1
<1>1. Cardinality(S \ {x}) = Cardinality(S) - 1
  BY FS_RemoveElement
<1>2. Cardinality(S) \in Nat /\ Cardinality(S) # 0
  BY FS_CardinalityType, FS_EmptySet
<1>3. QED
  BY <1>1, <1>2

LEMMA Finite ==
  ASSUME NEW W \in SUBSET Workers, NEW R \in SUBSET Requests
  PROVE  /\ IsFiniteSet(W) /\ Cardinality(W) \in Nat
         /\ IsFiniteSet(R) /\ Cardinality(R) \in Nat
BY PoolAssumption, FS_Subset, FS_CardinalityType

-----------------------------------------------------------------------------
(* The counter of active workers.                                          *)

LEMMA ActiveInit == Init => ActiveOK
<1> SUFFICES ASSUME Init PROVE ActiveOK
  OBVIOUS
<1>1. PICK W \in kSubset(InitialWorkers, Workers) :
         worker = [w \in Workers |-> IF w \in W THEN "select" ELSE "none"]
  BY DEF Init
<1>2. Busy = {} /\ Inline = {}
  BY <1>1 DEF Init, Busy, Inline
<1>3. QED
  BY <1>2, FS_EmptySet DEF Init, ActiveOK

\* A request counts itself while it runs its own job.
LEMMA ActiveRequest ==
  ASSUME TypeOK, ActiveOK, NEW r \in Requests,
         Arrive(r) \/ Expire(r) \/ RequestStep(r)
  PROVE  ActiveOK'
<1>0. /\ IsFiniteSet(Busy) /\ IsFiniteSet(Inline)
      /\ Cardinality(Busy) \in Nat /\ Cardinality(Inline) \in Nat
  BY Finite DEF Busy, Inline
<1>1. Busy' = Busy
  BY DEF Busy, Arrive, Expire, RequestStep, Submit, SubmitPanics, SyncDone,
         Receive
<1>2. CASE /\ rpc[r] # "sync" /\ rpc'[r] # "sync" /\ active' = active
           /\ \A q \in Requests : q # r => rpc'[q] = rpc[q]
  <2>1. Inline' = Inline
    BY <1>2 DEF Inline
  <2>2. QED
    BY <1>1, <1>2, <2>1 DEF ActiveOK
<1>3. CASE /\ rpc[r] # "sync" /\ rpc' = [rpc EXCEPT ![r] = "sync"]
           /\ active' = active + 1
  <2>1. Inline' = Inline \cup {r} /\ r \notin Inline
    BY <1>3 DEF Inline, TypeOK
  <2>2. Cardinality(Inline') = Cardinality(Inline) + 1
    BY <1>0, <2>1, OneMore
  <2>3. QED
    BY <1>0, <1>1, <1>3, <2>2 DEF ActiveOK
<1>4. CASE SyncDone(r)
  <2>1. Inline' = Inline \ {r} /\ r \in Inline /\ active' = active - 1
    BY <1>4 DEF Inline, TypeOK, SyncDone, RpcGoto
  <2>2. Cardinality(Inline') = Cardinality(Inline) - 1
    BY <1>0, <2>1, OneLess
  <2>3. QED
    BY <1>0, <1>1, <2>1, <2>2 DEF ActiveOK
<1>5. CASE Expire(r)
  BY <1>1, <1>5 DEF ActiveOK, Expire, Inline
<1>6. CASE Arrive(r) \/ SubmitPanics(r) \/ Receive(r)
  BY <1>2, <1>6 DEF Arrive, SubmitPanics, Receive, Return, RpcGoto, TypeOK
<1>7. CASE Submit(r)
  BY <1>2, <1>3, <1>7 DEF Submit, RpcGoto, TypeOK
<1>8. QED
  BY <1>4, <1>5, <1>6, <1>7 DEF RequestStep

\* A worker counts itself from the take of a job to its end.
LEMMA ActiveWorker ==
  ASSUME TypeOK, ActiveOK, NEW w \in Workers, WorkerStep(w)
  PROVE  ActiveOK'
<1>0. /\ IsFiniteSet(Busy) /\ IsFiniteSet(Inline)
      /\ Cardinality(Busy) \in Nat /\ Cardinality(Inline) \in Nat
  BY Finite DEF Busy, Inline
<1>1. Inline' = Inline
  BY DEF Inline, WorkerStep, TakeKill, Stop, TakeJob, Dispatch, JobDone, requests
<1>2. CASE TakeKill(w) \/ Stop(w)
  <2>1. Busy' = Busy /\ active' = active
    BY <1>2 DEF Busy, TakeKill, Stop, Exit, TypeOK
  <2>2. QED
    BY <1>1, <2>1 DEF ActiveOK
<1>3. CASE TakeJob(w)
  <2>1. Busy' = Busy \cup {w} /\ w \notin Busy /\ active' = active + 1
    BY <1>3 DEF Busy, TakeJob, TypeOK
  <2>2. Cardinality(Busy') = Cardinality(Busy) + 1
    BY <1>0, <2>1, OneMore
  <2>3. QED
    BY <1>0, <1>1, <2>1, <2>2 DEF ActiveOK
<1>4. ASSUME worker[w] \in {"took", "run"}, active' = active - 1,
             worker' = [worker EXCEPT ![w] = "select"]
      PROVE  ActiveOK'
  <2>1. Busy' = Busy \ {w} /\ w \in Busy
    BY <1>4 DEF Busy, TypeOK
  <2>2. Cardinality(Busy') = Cardinality(Busy) - 1
    BY <1>0, <2>1, OneLess
  <2>3. QED
    BY <1>0, <1>1, <1>4, <2>2 DEF ActiveOK
<1>5. CASE Dispatch(w)
  <2>1. CASE job[w] \in expired
    BY <1>4, <1>5, <2>1 DEF Dispatch
  <2>2. CASE job[w] \notin expired
    <3>1. Busy' = Busy /\ active' = active
      BY <1>5, <2>2 DEF Busy, Dispatch, TypeOK
    <3>2. QED
      BY <1>1, <3>1 DEF ActiveOK
  <2>3. QED
    BY <2>1, <2>2
<1>6. CASE JobDone(w)
  BY <1>4, <1>6 DEF JobDone
<1>7. QED
  BY <1>2, <1>3, <1>5, <1>6 DEF WorkerStep

\* Resize and Close leave jobs in hand alone.
LEMMA ActiveOthers ==
  ASSUME TypeOK, ActiveOK,
         \/ \E a \in Admins : AdminStep(a) \/ \E n \in Sizes : StartResize(a, n)
         \/ Signal \/ ShutdownStep \/ UNCHANGED vars
  PROVE  ActiveOK'
<1>1. Busy' = Busy /\ Inline' = Inline /\ active' = active
  <2>1. CASE \E a \in Admins : Spawn(a)
    <3>1. PICK a \in Admins : Spawn(a)
      BY <2>1
    <3>2. PICK W \in kSubset(left[a], Workers \ Alive) :
             worker' = [w \in Workers |-> IF w \in W THEN "select" ELSE worker[w]]
      BY <3>1 DEF Spawn
    <3>3. \A w \in W : w \in Workers /\ worker[w] = "none"
      BY DEF kSubset, Alive
    <3>4. Busy' = Busy
      BY <3>2, <3>3 DEF Busy
    <3>5. QED
      BY <3>1, <3>4 DEF Spawn, Inline, requests
  <2>2. CASE ~\E a \in Admins : Spawn(a)
    BY <2>2 DEF Busy, Inline, AdminStep, SendKill, KillPanics, Store,
                StartResize, Signal, ShutdownStep, Refuse, CloseStep,
                BeginClose, CloseJobs, CloseKills, CloseDone, requests, vars
  <2>3. QED
    BY <2>1, <2>2
<1>2. QED
  BY <1>1 DEF ActiveOK

LEMMA ActiveStep ==
  ASSUME TypeOK, ActiveOK, [Next]_vars
  PROVE  ActiveOK'
BY ActiveRequest, ActiveWorker, ActiveOthers DEF Next, Idle

-----------------------------------------------------------------------------
(* Where the job of a request is.                                          *)

\* What the rest of the step does to jobs that it does not touch.
LEMMA JobsUntouched ==
  ASSUME TypeOK, QueueOK, TakenOK, RunsOK,
         UNCHANGED <<jobs, runs, job>>,
         \A w \in Workers : worker'[w] # worker[w] => worker'[w] \in {"none", "select"},
         \A r \in Requests : rpc'[r] \in {"none", "submit"} => rpc[r] \in {"none", "submit"}
  PROVE  QueueOK' /\ TakenOK' /\ RunsOK'
<1>1. \A i \in 1..Len(jobs) : jobs[i] \in Requests
  BY DEF TypeOK
<1>2. QueueOK'
  BY <1>1 DEF QueueOK
<1>3. TakenOK'
  BY DEF TakenOK
<1>4. RunsOK'
  BY DEF RunsOK
<1>5. QED
  BY <1>2, <1>3, <1>4

LEMMA JobsRequest ==
  ASSUME TypeOK, QueueOK, TakenOK, RunsOK, NEW r \in Requests,
         Arrive(r) \/ Expire(r) \/ RequestStep(r)
  PROVE  QueueOK' /\ TakenOK' /\ RunsOK'
<1>1. CASE Arrive(r) \/ Expire(r) \/ SubmitPanics(r) \/ SyncDone(r) \/ Receive(r)
  BY <1>1, JobsUntouched DEF Arrive, Expire, SubmitPanics, SyncDone, Receive,
                             Return, RpcGoto, TypeOK
<1>2. CASE Submit(r) /\ Len(jobs) < QueueSize
  <2>1. /\ jobs' = Append(jobs, r) /\ rpc' = [rpc EXCEPT ![r] = "wait"]
        /\ UNCHANGED <<runs, worker, job>> /\ rpc[r] = "submit"
    BY <1>2 DEF Submit, RpcGoto
  <2>2. /\ Len(jobs') = Len(jobs) + 1 /\ jobs'[Len(jobs) + 1] = r
        /\ \A i \in 1..Len(jobs) : jobs'[i] = jobs[i] /\ jobs[i] \in Requests
        /\ Len(jobs) \in Nat
    BY <2>1 DEF TypeOK
  <2>3. \A i \in 1..Len(jobs') : i \in 1..Len(jobs) \/ i = Len(jobs) + 1
    BY <2>2
  <2>4. \A i \in 1..Len(jobs) : jobs[i] # r
    BY <2>1 DEF QueueOK
  <2>5. \A w \in Workers : worker[w] = "took" => job[w] # r
    BY <2>1 DEF TakenOK
  <2>6. /\ rpc'[r] = "wait" /\ \A q \in Requests : q # r => rpc'[q] = rpc[q]
        /\ runs[r] = 0
    BY <2>1 DEF TypeOK, RunsOK
  <2>7. QueueOK'
    BY <2>1, <2>2, <2>3, <2>4, <2>6 DEF QueueOK
  <2>8. TakenOK'
    BY <2>1, <2>2, <2>3, <2>5, <2>6 DEF TakenOK
  <2>9. RunsOK'
    BY <2>1, <2>6 DEF RunsOK
  <2>10. QED
    BY <2>7, <2>8, <2>9
<1>3. CASE Submit(r) /\ ~(Len(jobs) < QueueSize)
  <2>1. /\ rpc' = [rpc EXCEPT ![r] = "sync"] /\ runs' = [runs EXCEPT ![r] = @ + 1]
        /\ UNCHANGED <<jobs, worker, job>> /\ rpc[r] = "submit"
    BY <1>3 DEF Submit, RpcGoto
  <2>2. /\ \A i \in 1..Len(jobs) : jobs[i] # r
        /\ \A i \in 1..Len(jobs) : jobs[i] \in Requests
    <3>1. \A i \in 1..Len(jobs) : jobs[i] \in Requests
      BY DEF TypeOK
    <3>2. \A i \in 1..Len(jobs) : jobs[i] # r
      BY <2>1 DEF QueueOK
    <3>3. QED
      BY <3>1, <3>2
  <2>3. \A w \in Workers : worker[w] = "took" => job[w] # r
    BY <2>1 DEF TakenOK
  <2>4. /\ rpc'[r] = "sync" /\ \A q \in Requests : q # r => rpc'[q] = rpc[q]
        /\ runs'[r] = 1 /\ \A q \in Requests : q # r => runs'[q] = runs[q]
    BY <2>1 DEF TypeOK, RunsOK
  <2>5. QueueOK'
    BY <2>1, <2>2, <2>4 DEF QueueOK
  <2>6. TakenOK'
    BY <2>1, <2>3, <2>4 DEF TakenOK
  <2>7. RunsOK'
    BY <2>1, <2>4 DEF RunsOK
  <2>8. QED
    BY <2>5, <2>6, <2>7
<1>4. QED
  BY <1>1, <1>2, <1>3 DEF RequestStep

LEMMA JobsWorker ==
  ASSUME TypeOK, QueueOK, TakenOK, RunsOK, NEW w \in Workers, WorkerStep(w)
  PROVE  QueueOK' /\ TakenOK' /\ RunsOK'
<1>1. CASE TakeKill(w) \/ Stop(w)
  BY <1>1, JobsUntouched DEF TakeKill, Stop, Exit, requests, TypeOK
<1>2. CASE TakeJob(w)
  <2>1. /\ jobs # <<>> /\ jobs' = Tail(jobs)
        /\ job' = [job EXCEPT ![w] = jobs[1]]
        /\ worker' = [worker EXCEPT ![w] = "took"]
        /\ UNCHANGED <<rpc, runs>>
    BY <1>2 DEF TakeJob, requests
  <2>2. /\ Len(jobs) \in Nat /\ Len(jobs) > 0 /\ Len(jobs') = Len(jobs) - 1
        /\ \A i \in 1..Len(jobs') : i + 1 \in 1..Len(jobs) /\ jobs'[i] = jobs[i + 1]
        /\ \A i \in 1..Len(jobs) : jobs[i] \in Requests
    BY <2>1 DEF TypeOK
  <2>3. /\ job'[w] = jobs[1] /\ worker'[w] = "took" /\ 1 \in 1..Len(jobs)
        /\ \A v \in Workers : v # w => job'[v] = job[v] /\ worker'[v] = worker[v]
    BY <2>1, <2>2 DEF TypeOK
  <2>4. \A i \in 1..Len(jobs') : jobs'[i] # jobs[1]
    BY <2>2, <2>3 DEF QueueOK
  <2>5. QueueOK'
    BY <2>1, <2>2 DEF QueueOK
  <2>6. TakenOK'
    <3>1. ASSUME NEW v \in Workers, v # w
          PROVE  /\ worker'[v] \in {"took", "run"} => job'[v] \in Requests
                 /\ worker'[v] = "took" =>
                      /\ runs'[job'[v]] = 0 /\ rpc'[job'[v]] \notin {"none", "submit"}
                      /\ \A i \in 1..Len(jobs') : jobs'[i] # job'[v]
                      /\ job'[v] # job'[w]
                      /\ \A u \in Workers : worker'[u] = "took" /\ job'[u] = job'[v] => u = v
      BY <2>1, <2>2, <2>3, <3>1 DEF TakenOK
    <3>2. /\ job'[w] \in Requests
          /\ runs'[job'[w]] = 0 /\ rpc'[job'[w]] \notin {"none", "submit"}
          /\ \A i \in 1..Len(jobs') : jobs'[i] # job'[w]
      BY <2>1, <2>2, <2>3, <2>4 DEF QueueOK
    <3>3. QED
      BY <3>1, <3>2 DEF TakenOK
  <2>7. RunsOK'
    BY <2>1 DEF RunsOK
  <2>8. QED
    BY <2>5, <2>6, <2>7
<1>3. CASE (Dispatch(w) /\ job[w] \in expired) \/ JobDone(w)
  <2>1. /\ UNCHANGED <<jobs, runs, rpc>>
        /\ worker' = [worker EXCEPT ![w] = "select"]
        /\ job' = [job EXCEPT ![w] = None]
    BY <1>3 DEF Dispatch, JobDone
  <2>2. /\ worker'[w] = "select"
        /\ \A v \in Workers : v # w => job'[v] = job[v] /\ worker'[v] = worker[v]
    BY <2>1 DEF TypeOK
  <2>3. QueueOK' /\ RunsOK'
    BY <2>1 DEF QueueOK, RunsOK
  <2>4. TakenOK'
    BY <2>1, <2>2 DEF TakenOK
  <2>5. QED
    BY <2>3, <2>4
<1>4. CASE Dispatch(w) /\ job[w] \notin expired
  <2>1. /\ UNCHANGED <<jobs, job, rpc>> /\ worker[w] = "took"
        /\ worker' = [worker EXCEPT ![w] = "run"]
        /\ runs' = [runs EXCEPT ![job[w]] = @ + 1]
    BY <1>4 DEF Dispatch
  <2>2. /\ worker'[w] = "run"
        /\ \A v \in Workers : v # w => worker'[v] = worker[v]
    BY <2>1 DEF TypeOK
  <2>3. /\ job[w] \in Requests /\ runs[job[w]] = 0
        /\ \A i \in 1..Len(jobs) : jobs[i] # job[w] /\ jobs[i] \in Requests
        /\ \A v \in Workers : worker[v] = "took" /\ v # w => job[v] # job[w]
        /\ rpc[job[w]] \notin {"none", "submit"}
    BY <2>1 DEF TakenOK, TypeOK
  <2>4. /\ runs'[job[w]] = 1
        /\ \A r \in Requests : r # job[w] => runs'[r] = runs[r]
    BY <2>1, <2>3 DEF TypeOK
  <2>5. QueueOK'
    BY <2>1, <2>3, <2>4 DEF QueueOK
  <2>6. TakenOK'
    BY <2>1, <2>2, <2>3, <2>4 DEF TakenOK
  <2>7. RunsOK'
    BY <2>1, <2>3, <2>4 DEF RunsOK
  <2>8. QED
    BY <2>5, <2>6, <2>7
<1>5. QED
  BY <1>1, <1>2, <1>3, <1>4 DEF WorkerStep

LEMMA JobsOthers ==
  ASSUME TypeOK, QueueOK, TakenOK, RunsOK,
         \/ \E a \in Admins : AdminStep(a) \/ \E n \in Sizes : StartResize(a, n)
         \/ Signal \/ ShutdownStep \/ UNCHANGED vars
  PROVE  QueueOK' /\ TakenOK' /\ RunsOK'
<1>1. UNCHANGED <<jobs, runs, job, rpc>>
  BY DEF AdminStep, Spawn, SendKill, KillPanics, Store, StartResize, Signal,
         ShutdownStep, Refuse, CloseStep, BeginClose, CloseJobs, CloseKills,
         CloseDone, requests, vars
<1>2. \A w \in Workers : worker'[w] # worker[w] => worker'[w] \in {"none", "select"}
  <2>1. CASE \E a \in Admins : Spawn(a)
    <3>1. PICK a \in Admins : Spawn(a)
      BY <2>1
    <3>2. PICK W \in kSubset(left[a], Workers \ Alive) :
             worker' = [w \in Workers |-> IF w \in W THEN "select" ELSE worker[w]]
      BY <3>1 DEF Spawn
    <3>3. QED
      BY <3>2
  <2>2. CASE ~\E a \in Admins : Spawn(a)
    BY <2>2 DEF AdminStep, SendKill, KillPanics, Store, StartResize, Signal,
                ShutdownStep, Refuse, CloseStep, BeginClose, CloseJobs,
                CloseKills, CloseDone, vars
  <2>3. QED
    BY <2>1, <2>2
<1>3. QED
  BY <1>1, <1>2, JobsUntouched

LEMMA JobsStep ==
  ASSUME TypeOK, QueueOK, TakenOK, RunsOK, [Next]_vars
  PROVE  QueueOK' /\ TakenOK' /\ RunsOK'
BY JobsRequest, JobsWorker, JobsOthers DEF Next, Idle

-----------------------------------------------------------------------------
(* The shutdown.                                                           *)

\* The channels are closed in their order, and no worker is born behind Close.
LEMMA CloseStepOK ==
  ASSUME TypeOK, CloseOK, [Next]_vars
  PROVE  CloseOK'
<1>1. CASE \E r \in Requests : Arrive(r) \/ Expire(r) \/ RequestStep(r)
  BY <1>1 DEF CloseOK, ClosedMeansStopped, Alive, Busy, Arrive, Expire,
              RequestStep, Submit, SubmitPanics, SyncDone, Receive, resizing,
              closing
<1>2. CASE \E w \in Workers : WorkerStep(w)
  <2>1. PICK w \in Workers : WorkerStep(w)
    BY <1>2
  <2>2. UNCHANGED <<killClosed, jobsClosed, resizing, closing>>
    BY <2>1 DEF WorkerStep, TakeKill, Stop, TakeJob, Dispatch, JobDone
  <2>3. worker[w] # "none" /\ w \in Alive
    BY <2>1 DEF WorkerStep, TakeKill, Stop, TakeJob, Dispatch, JobDone, Alive
  <2>4. ClosedMeansStopped'
    BY <2>2, <2>3 DEF CloseOK, ClosedMeansStopped, closing
  <2>5. QED
    BY <2>2, <2>4 DEF CloseOK, closing, resizing
<1>3. CASE \E a \in Admins : AdminStep(a) \/ \E n \in Sizes : StartResize(a, n)
  <2>1. PICK a \in Admins : AdminStep(a) \/ \E n \in Sizes : StartResize(a, n)
    BY <1>3
  <2>2. UNCHANGED <<killClosed, jobsClosed, closing>>
    BY <2>1 DEF AdminStep, Spawn, SendKill, KillPanics, Store, StartResize
  <2>3. close # "none" /\ trouble # "resize" => FALSE
    BY <2>1 DEF CloseOK, AdminStep, Spawn, SendKill, KillPanics, Store, StartResize
  <2>4. \A b \in Admins : admin'[b] = "kill" => left'[b] > 0
    <3>1. \A b \in Admins : b # a => admin'[b] = admin[b] /\ left'[b] = left[b]
      BY <2>1 DEF AdminStep, Spawn, SendKill, KillPanics, Store, StartResize, TypeOK
    <3>2. admin'[a] = "kill" => left'[a] > 0
      <4>1. CASE SendKill(a)
        BY <4>1 DEF SendKill, TypeOK, CloseOK
      <4>2. CASE Spawn(a) \/ KillPanics(a) \/ Store(a)
        BY <4>2 DEF Spawn, KillPanics, Store, TypeOK
      <4>3. ASSUME NEW n \in Sizes, StartResize(a, n)
            PROVE  admin'[a] = "kill" => left'[a] > 0
        <5>1. n \in Nat
          BY PoolAssumption
        <5>2. QED
          BY <4>3, <5>1 DEF StartResize, TypeOK
      <4>4. QED
        BY <2>1, <4>1, <4>2, <4>3 DEF AdminStep
    <3>3. QED
      BY <3>1, <3>2 DEF CloseOK
  <2>5. QED
    BY <2>2, <2>3, <2>4 DEF CloseOK, ClosedMeansStopped, closing
<1>4. CASE Signal \/ (\E server \in {"grpc", "admin"} : Refuse(server)) \/ UNCHANGED vars
  BY <1>4 DEF CloseOK, ClosedMeansStopped, Alive, Busy, Signal, Refuse, resizing, vars
<1>5. CASE BeginClose
  BY <1>5 DEF CloseOK, ClosedMeansStopped, Alive, Busy, BeginClose, resizing, TypeOK
<1>6. CASE CloseJobs \/ CloseKills \/ CloseDone
  BY <1>6 DEF CloseOK, ClosedMeansStopped, Alive, Busy, CloseJobs, CloseKills,
              CloseDone, resizing, TypeOK
<1>7. QED
  BY <1>1, <1>2, <1>3, <1>4, <1>5, <1>6 DEF Next, Idle, ShutdownStep, CloseStep

-----------------------------------------------------------------------------
(* Types.                                                                  *)

LEMMA TypeStep ==
  ASSUME Inv, [Next]_vars, ActiveOK'
  PROVE  TypeOK'
<1>0. active' \in Nat
  <2>1. Busy' \in SUBSET Workers /\ Inline' \in SUBSET Requests
    BY DEF Busy, Inline
  <2>2. Cardinality(Busy') \in Nat /\ Cardinality(Inline') \in Nat
    BY <2>1, Finite
  <2>3. QED
    BY <2>2 DEF ActiveOK
<1> USE DEF TypeOK, Inv
<1>1. CASE \E r \in Requests : \/ Arrive(r) \/ Expire(r) \/ SubmitPanics(r)
                             \/ SyncDone(r) \/ Receive(r)
  <2>1. PICK r \in Requests : Arrive(r) \/ Expire(r) \/ SubmitPanics(r) \/ SyncDone(r) \/ Receive(r)
    BY <1>1
  <2>2. rpc' \in [Requests -> {"none", "submit", "sync", "wait", "done", "failed"}]
    BY <2>1 DEF Arrive, Expire, SubmitPanics, SyncDone, Receive, Return, RpcGoto
  <2>3. reply' \in [Requests -> {None, "answer", "expired"}]
    BY <2>1 DEF Arrive, Expire, SubmitPanics, SyncDone, Receive, Answer
  <2>4. expired' \subseteq Requests
    BY <2>1 DEF Arrive, Expire, SubmitPanics, SyncDone, Receive, Return
  <2>5. UNCHANGED <<runs, jobs, jobsClosed, worker, job, workers, kill, killClosed,
                    resizing, closing>>
    BY <2>1 DEF Arrive, Expire, SubmitPanics, SyncDone, Receive
  <2>6. QED
    BY <1>0, <2>2, <2>3, <2>4, <2>5 DEF resizing, closing
<1>2. CASE \E r \in Requests : Submit(r)
  <2>1. PICK r \in Requests : Submit(r)
    BY <1>2
  <2>2. rpc' \in [Requests -> {"none", "submit", "sync", "wait", "done", "failed"}]
    BY <2>1 DEF Submit, RpcGoto
  <2>3. jobs' \in Seq(Requests) /\ Len(jobs') <= QueueSize
    <3>1. CASE Len(jobs) < QueueSize
      <4>1. jobs' = Append(jobs, r)
        BY <2>1, <3>1 DEF Submit
      <4>2. jobs' \in Seq(Requests) /\ Len(jobs') = Len(jobs) + 1 /\ Len(jobs) \in Nat
        BY <4>1
      <4>3. QED
        BY <3>1, <4>2, PoolAssumption
    <3>2. CASE ~(Len(jobs) < QueueSize)
      BY <2>1, <3>2 DEF Submit
    <3>3. QED
      BY <3>1, <3>2
  <2>4. runs' \in [Requests -> Nat]
    <3>1. \A q \in Requests : runs[q] + 1 \in Nat
      OBVIOUS
    <3>2. QED
      BY <2>1, <3>1 DEF Submit
  <2>5. UNCHANGED <<expired, reply, jobsClosed, worker, job, workers, kill, killClosed,
                    resizing, closing>>
    BY <2>1 DEF Submit
  <2>6. QED
    BY <1>0, <2>2, <2>3, <2>4, <2>5 DEF resizing, closing
<1>3. CASE \E w \in Workers : TakeKill(w) \/ Stop(w)
  <2>1. PICK w \in Workers : TakeKill(w) \/ Stop(w)
    BY <1>3
  <2>2. worker' \in [Workers -> {"none", "select", "took", "run"}]
    BY <2>1 DEF TakeKill, Stop, Exit
  <2>3. kill' \in 0..KillCap
    BY <2>1, PoolAssumption DEF TakeKill, Stop, KillCap
  <2>4. UNCHANGED <<requests, runs, jobs, jobsClosed, job, workers, killClosed,
                    resizing, closing>>
    BY <2>1 DEF TakeKill, Stop
  <2>5. QED
    BY <1>0, <2>2, <2>3, <2>4 DEF requests, resizing, closing
<1>4. CASE \E w \in Workers : TakeJob(w)
  <2>1. PICK w \in Workers : TakeJob(w)
    BY <1>4
  <2>2. jobs' \in Seq(Requests) /\ Len(jobs') <= QueueSize /\ Head(jobs) \in Requests
    BY <2>1, PoolAssumption DEF TakeJob
  <2>3. QED
    BY <1>0, <2>1, <2>2 DEF TakeJob, requests, resizing, closing
<1>5. CASE \E w \in Workers : Dispatch(w) \/ JobDone(w)
  <2>1. PICK w \in Workers : Dispatch(w) \/ JobDone(w)
    BY <1>5
  <2>2. job[w] \in Requests
    BY <2>1 DEF TakenOK, Dispatch, JobDone
  <2>3. reply' \in [Requests -> {None, "answer", "expired"}]
    BY <2>1, <2>2 DEF Dispatch, JobDone, Answer
  <2>4. runs' \in [Requests -> Nat]
    <3>1. \A q \in Requests : runs[q] + 1 \in Nat
      OBVIOUS
    <3>2. QED
      BY <2>1, <2>2, <3>1 DEF Dispatch, JobDone
  <2>5. QED
    BY <1>0, <2>1, <2>3, <2>4 DEF Dispatch, JobDone, resizing, closing
<1>6. CASE \E a \in Admins : Spawn(a)
  <2>1. PICK a \in Admins : Spawn(a)
    BY <1>6
  <2>2. worker' \in [Workers -> {"none", "select", "took", "run"}]
    BY <2>1 DEF Spawn
  <2>3. QED
    BY <1>0, <2>1, <2>2 DEF Spawn, requests, closing
<1>7. CASE \E a \in Admins : SendKill(a)
  BY <1>0, <1>7, PoolAssumption DEF SendKill, KillCap, CloseOK, requests, closing
<1>8. CASE \E a \in Admins : KillPanics(a) \/ Store(a)
  <2>1. PICK a \in Admins : KillPanics(a) \/ Store(a)
    BY <1>8
  <2>2. /\ admin' \in [Admins -> {"idle", "spawn", "kill", "store"}]
        /\ size' \in [Admins -> Nat] /\ left' \in [Admins -> Nat]
        /\ workers' \in Nat
    <3>1. CASE KillPanics(a)
      BY <3>1 DEF KillPanics
    <3>2. CASE Store(a)
      BY <3>2 DEF Store
    <3>3. QED
      BY <2>1, <3>1, <3>2
  <2>3. UNCHANGED <<requests, runs, jobs, jobsClosed, worker, job, kill, killClosed, closing>>
    BY <2>1 DEF KillPanics, Store
  <2>4. QED
    BY <1>0, <2>2, <2>3 DEF requests, closing
<1>9. CASE \E a \in Admins, n \in Sizes : StartResize(a, n)
  <2>1. PICK a \in Admins, n \in Sizes : StartResize(a, n)
    BY <1>9
  <2>2. n \in Nat
    BY PoolAssumption
  <2>3. left' \in [Admins -> Nat] /\ size' \in [Admins -> Nat]
    BY <2>1, <2>2 DEF StartResize
  <2>4. QED
    BY <1>0, <2>1, <2>3 DEF StartResize, requests, closing
<1>10. CASE Signal \/ (\E server \in {"grpc", "admin"} : Refuse(server)) \/ UNCHANGED vars
  BY <1>0, <1>10 DEF Signal, Refuse, requests, resizing, vars
<1>11. CASE BeginClose \/ CloseJobs \/ CloseDone
  BY <1>0, <1>11 DEF BeginClose, CloseJobs, CloseDone, requests, resizing
<1>12. CASE CloseKills
  BY <1>0, <1>12, PoolAssumption DEF CloseKills, KillCap, requests, resizing
<1>13. QED
  BY <1>1, <1>2, <1>3, <1>4, <1>5, <1>6, <1>7, <1>8, <1>9, <1>10, <1>11, <1>12
     DEF Next, Idle, RequestStep, WorkerStep, AdminStep, ShutdownStep, CloseStep

LEMMA InvInit == Init => Inv
<1> SUFFICES ASSUME Init PROVE Inv
  OBVIOUS
<1>1. PICK W \in kSubset(InitialWorkers, Workers) :
         worker = [w \in Workers |-> IF w \in W THEN "select" ELSE "none"]
  BY DEF Init
<1>2. TypeOK
  <2>1. jobs \in Seq(Requests) /\ Len(jobs) <= QueueSize /\ kill \in 0..KillCap
    BY PoolAssumption DEF Init, KillCap
  <2>2. worker \in [Workers -> {"none", "select", "took", "run"}]
    BY <1>1
  <2>3. InitialWorkers \in Nat
    BY PoolAssumption
  <2>4. QED
    BY <2>1, <2>2, <2>3 DEF Init, TypeOK
<1>3. QueueOK /\ TakenOK /\ RunsOK
  BY <1>1 DEF Init, QueueOK, TakenOK, RunsOK
<1>4. CloseOK
  BY DEF Init, CloseOK, ClosedMeansStopped
<1>5. QED
  BY <1>2, <1>3, <1>4, ActiveInit DEF Inv

\* The invariant holds whatever is resized and whenever the pool is closed.
THEOREM PoolInvariance == Spec => []Inv
<1>1. Inv /\ [Next]_vars => Inv'
  <2> SUFFICES ASSUME Inv, [Next]_vars PROVE Inv'
    OBVIOUS
  <2>1. ActiveOK'
    BY ActiveStep DEF Inv
  <2>2. TypeOK'
    BY <2>1, TypeStep
  <2>3. QueueOK' /\ TakenOK' /\ RunsOK'
    BY JobsStep DEF Inv
  <2>4. CloseOK'
    BY CloseStepOK DEF Inv
  <2>5. QED
    BY <2>1, <2>2, <2>3, <2>4 DEF Inv
<1>2. QED
  BY <1>1, InvInit, PTL DEF Spec

\* Every variable has its type.
THEOREM PoolTypes == Spec => []TypeOK
BY PoolInvariance, PTL DEF Inv

\* When Close has returned no worker is left, unless it met a Resize.
THEOREM ClosedPoolStopped == Spec => []ClosedMeansStopped
<1>1. Inv => ClosedMeansStopped
  BY DEF Inv, CloseOK
<1>2. QED
  BY <1>1, PoolInvariance, PTL

\* The handler of a request is started at most once, by a worker or by the
\* goroutine of the request.
THEOREM HandlersRunOnce == Spec => []RunsOnce
<1>1. Inv => RunsOnce
  <2> SUFFICES ASSUME Inv, NEW r \in Requests
               PROVE  /\ runs[r] <= 1
                      /\ Cardinality({i \in 1..Len(jobs) : jobs[i] = r}) + runs[r]
                           + Cardinality({w \in Workers : worker[w] = "took" /\ job[w] = r}) <= 1
    BY DEF RunsOnce
  <2> DEFINE places == {i \in 1..Len(jobs) : jobs[i] = r}
             holders == {w \in Workers : worker[w] = "took" /\ job[w] = r}
  <2>1. runs[r] \in {0, 1}
    BY DEF Inv, RunsOK
  <2>2. places = {} \/ \E i : places = {i}
    <3>1. \A i, j \in places : i = j
      BY DEF Inv, QueueOK
    <3>2. QED
      BY <3>1, Zenon
  <2>3. holders = {} \/ \E w : holders = {w}
    BY DEF Inv, TakenOK
  <2>4. places # {} => runs[r] = 0 /\ holders = {}
    BY DEF Inv, QueueOK, TakenOK
  <2>5. holders # {} => runs[r] = 0
    BY DEF Inv, TakenOK
  <2> HIDE DEF places, holders
  <2>6. /\ Cardinality(places) = IF places = {} THEN 0 ELSE 1
        /\ Cardinality(holders) = IF holders = {} THEN 0 ELSE 1
    BY <2>2, <2>3, FS_EmptySet, FS_Singleton
  <2>7. runs[r] <= 1 /\ Cardinality(places) + runs[r] + Cardinality(holders) <= 1
    BY <2>1, <2>4, <2>5, <2>6
  <2>8. QED
    BY <2>7 DEF places, holders
<1>2. QED
  BY <1>1, PoolInvariance, PTL

-----------------------------------------------------------------------------
(* The counter of workers, with one connection to the admin server.        *)

OneAdmin == \A a, b \in Admins : a = b

\* Goroutines and the counter while Resize is at work and the pool is open.
WorkersOK ==
    ~closed =>
        /\ (\A a \in Admins : admin[a] = "idle") => Cardinality(Alive) = workers + kill
        /\ \A a \in Admins :
              /\ admin[a] = "spawn" => /\ Cardinality(Alive) = workers + kill
                                       /\ size[a] = workers + left[a]
              /\ admin[a] = "kill" => Cardinality(Alive) = size[a] + left[a] + kill
              /\ admin[a] = "store" => Cardinality(Alive) = size[a] + kill

LEMMA WorkersInit == Init => WorkersOK
<1> SUFFICES ASSUME Init PROVE WorkersOK
  OBVIOUS
<1>1. PICK W \in kSubset(InitialWorkers, Workers) :
         worker = [w \in Workers |-> IF w \in W THEN "select" ELSE "none"]
  BY DEF Init
<1>2. Alive = W /\ Cardinality(W) = InitialWorkers
  BY <1>1 DEF Alive, kSubset
<1>3. QED
  BY <1>2, PoolAssumption DEF Init, WorkersOK

LEMMA WorkersWorker ==
  ASSUME Inv, WorkersOK, NEW w \in Workers, WorkerStep(w)
  PROVE  WorkersOK'
<1>0. IsFiniteSet(Alive) /\ Cardinality(Alive) \in Nat
  BY Finite DEF Alive
<1>1. CASE TakeKill(w)
  <2>1. /\ Alive' = Alive \ {w} /\ w \in Alive
        /\ kill' = kill - 1 /\ kill \in Nat /\ kill > 0
        /\ UNCHANGED <<workers, admin, size, left, closed>>
    BY <1>1, PoolAssumption DEF TakeKill, Exit, Alive, Inv, TypeOK, KillCap, resizing, closing
  <2>2. Cardinality(Alive') = Cardinality(Alive) - 1 /\ Cardinality(Alive) >= 1
    BY <1>0, <2>1, OneLess
  <2>3. \A a \in Admins : size[a] \in Nat /\ left[a] \in Nat
    BY DEF Inv, TypeOK
  <2>4. workers \in Nat
    BY DEF Inv, TypeOK
  <2>5. Cardinality(Alive') + 1 = Cardinality(Alive) /\ kill' + 1 = kill
    BY <1>0, <2>1, <2>2
  <2>6. Cardinality(Alive') \in Nat /\ kill' \in Nat
    BY <1>0, <2>1, <2>2, <2>5
  <2>7. ~closed /\ (\A a \in Admins : admin[a] = "idle")
           => Cardinality(Alive') = workers + kill'
    BY <1>0, <2>1, <2>4, <2>5, <2>6 DEF WorkersOK
  <2>8. ASSUME ~closed, NEW a \in Admins
        PROVE  /\ admin[a] = "spawn" => /\ Cardinality(Alive') = workers + kill'
                                        /\ size[a] = workers + left[a]
               /\ admin[a] = "kill" => Cardinality(Alive') = size[a] + left[a] + kill'
               /\ admin[a] = "store" => Cardinality(Alive') = size[a] + kill'
    BY <1>0, <2>1, <2>3, <2>4, <2>5, <2>6, <2>8 DEF WorkersOK
  <2>9. QED
    BY <2>1, <2>7, <2>8 DEF WorkersOK
<1>2. CASE Stop(w)
  <2>1. closed
    BY <1>2 DEF Stop, Inv, CloseOK
  <2>2. closed'
    BY <1>2, <2>1 DEF Stop, closing
  <2>3. QED
    BY <2>2 DEF WorkersOK
<1>3. CASE TakeJob(w) \/ Dispatch(w) \/ JobDone(w)
  <2>1. Alive' = Alive
    BY <1>3 DEF TakeJob, Dispatch, JobDone, Alive, Inv, TypeOK
  <2>2. UNCHANGED <<workers, kill, admin, size, left, closed>>
    BY <1>3 DEF TakeJob, Dispatch, JobDone, resizing, closing
  <2>3. QED
    BY <2>1, <2>2 DEF WorkersOK
<1>4. QED
  BY <1>1, <1>2, <1>3 DEF WorkerStep

LEMMA WorkersAdmin ==
  ASSUME OneAdmin, Inv, WorkersOK, NEW a \in Admins,
         AdminStep(a) \/ \E n \in Sizes : StartResize(a, n)
  PROVE  WorkersOK'
<1>0. IsFiniteSet(Alive) /\ Cardinality(Alive) \in Nat
  BY Finite DEF Alive
<1>1. /\ workers \in Nat /\ kill \in Nat /\ size[a] \in Nat /\ left[a] \in Nat
      /\ Admins = {a}
  BY PoolAssumption DEF Inv, TypeOK, KillCap, OneAdmin
<1>2. ASSUME Spawn(a) PROVE WorkersOK'
  <2>1. PICK W \in kSubset(left[a], Workers \ Alive) :
           worker' = [w \in Workers |-> IF w \in W THEN "select" ELSE worker[w]]
    BY <1>2 DEF Spawn
  <2>2. W \in SUBSET Workers /\ Cardinality(W) = left[a] /\ Alive \cap W = {}
    BY DEF kSubset
  <2>3. Alive' = Alive \cup W
    BY <2>1, <2>2 DEF Alive
  <2>4. Cardinality(Alive') = Cardinality(Alive) + left[a]
    <3>1. IsFiniteSet(W)
      BY <2>2, Finite
    <3>2. Cardinality(Alive \cup W) = Cardinality(Alive) + Cardinality(W)
      <4>1. Cardinality(Alive \cup W) =
               Cardinality(Alive) + Cardinality(W) - Cardinality(Alive \cap W)
        BY <1>0, <3>1, FS_Union
      <4>2. Cardinality(Alive \cap W) = 0
        BY <2>2, FS_EmptySet
      <4>3. QED
        BY <1>0, <1>1, <2>2, <4>1, <4>2
    <3>3. QED
      BY <2>2, <2>3, <3>2
  <2>5. /\ admin[a] = "spawn" /\ admin'[a] = "store" /\ size' = size
        /\ UNCHANGED <<workers, kill, closed>>
    BY <1>2 DEF Spawn, closing, Inv, TypeOK
  <2>6. QED
    BY <1>0, <1>1, <2>4, <2>5 DEF WorkersOK
<1>3. CASE SendKill(a) \/ KillPanics(a) \/ Store(a)
  <2>1. Alive' = Alive /\ closed' = closed
    BY <1>3 DEF Alive, SendKill, KillPanics, Store, closing
  <2>2. CASE SendKill(a)
    <3>1. /\ admin[a] = "kill" /\ kill' = kill + 1 /\ left'[a] = left[a] - 1
          /\ admin'[a] = IF left[a] = 1 THEN "store" ELSE "kill"
          /\ UNCHANGED <<workers, size>>
      BY <2>2 DEF SendKill, Inv, TypeOK
    <3>2. left[a] > 0
      BY <3>1 DEF Inv, CloseOK
    <3>3. QED
      BY <1>0, <1>1, <2>1, <3>1, <3>2 DEF WorkersOK
  <2>3. CASE KillPanics(a)
    <3>1. closed
      BY <2>3 DEF KillPanics, Inv, CloseOK
    <3>2. QED
      BY <2>1, <3>1 DEF WorkersOK
  <2>4. CASE Store(a)
    <3>1. /\ admin[a] = "store" /\ workers' = size[a] /\ admin'[a] = "idle"
          /\ UNCHANGED kill
      BY <2>4 DEF Store, Inv, TypeOK
    <3>2. QED
      BY <1>0, <1>1, <2>1, <3>1 DEF WorkersOK
  <2>5. QED
    BY <1>3, <2>2, <2>3, <2>4
<1>4. ASSUME NEW n \in Sizes, StartResize(a, n) PROVE WorkersOK'
  <2>1. n \in Nat
    BY PoolAssumption
  <2>2. Alive' = Alive /\ UNCHANGED <<workers, kill, closed>> /\ admin[a] = "idle"
    BY <1>4 DEF StartResize, Alive, closing
  <2>3. size'[a] = n /\ n # workers
    BY <1>4 DEF StartResize, Inv, TypeOK
  <2>4. \/ n > workers /\ admin'[a] = "spawn" /\ left'[a] = n - workers
        \/ n < workers /\ admin'[a] = "kill" /\ left'[a] = workers - n
    BY <1>1, <1>4, <2>1, <2>3 DEF StartResize, Inv, TypeOK
  <2>5. QED
    BY <1>0, <1>1, <2>1, <2>2, <2>3, <2>4 DEF WorkersOK
<1>5. QED
  BY <1>2, <1>3, <1>4 DEF AdminStep

LEMMA WorkersStep ==
  ASSUME OneAdmin, Inv, WorkersOK, [Next]_vars
  PROVE  WorkersOK'
<1>1. CASE \/ \E r \in Requests : Arrive(r) \/ Expire(r) \/ RequestStep(r)
           \/ Signal \/ (\E server \in {"grpc", "admin"} : Refuse(server))
           \/ UNCHANGED vars
  <2>1. UNCHANGED <<worker, workers, kill, admin, size, left, closed>>
    BY <1>1 DEF Arrive, Expire, RequestStep, Submit, SubmitPanics, SyncDone,
                Receive, Signal, Refuse, resizing, closing, vars
  <2>2. QED
    BY <2>1 DEF WorkersOK, Alive
<1>2. CASE CloseStep
  <2>1. closed'
    BY <1>2 DEF CloseStep, BeginClose, CloseJobs, CloseKills, CloseDone, Inv, CloseOK
  <2>2. QED
    BY <2>1 DEF WorkersOK
<1>3. QED
  BY <1>1, <1>2, WorkersWorker, WorkersAdmin DEF Next, Idle, ShutdownStep

\* With one connection to the admin server both counters are exact.
THEOREM CountsAreRight == OneAdmin /\ Spec => []CountersAreExact
<1> SUFFICES ASSUME OneAdmin PROVE Spec => []CountersAreExact
  OBVIOUS
<1>1. Inv /\ WorkersOK /\ [Next]_vars => WorkersOK'
  BY WorkersStep
<1>2. Inv /\ WorkersOK => CountersAreExact
  BY DEF Inv, ActiveOK, WorkersOK, CountersAreExact
<1>3. QED
  BY <1>1, <1>2, WorkersInit, PoolInvariance, PTL DEF Spec
=============================================================================
