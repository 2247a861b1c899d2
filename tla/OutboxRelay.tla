----------------------------- MODULE OutboxRelay -----------------------------
(***************************************************************************)
(* cmd/outbox: the process that moves the rows of table outbox to Kafka in *)
(* two phases, gives a row up after three attempts by moving it to table   *)
(* dlq, and every five minutes resends what is in dlq.                     *)
(*                                                                         *)
(* One goroutine serves both tickers, so a worker does one thing at a      *)
(* time; every statement commits on its own, except the INSERT into dlq.   *)
(* Times are abstracted to whether a delay has passed.                     *)
(***************************************************************************)
EXTENDS Naturals, FiniteSets

CONSTANTS Messages,         \* rows of outbox, numbered by created_at
          Workers,          \* running instances of cmd/outbox
          BatchSize,        \* cfg.Outbox.BatchSize
          MaxPublished,     \* bound: publications of a message are counted so far
          Faults,           \* what may go wrong, a subset of AllFaults
          None

AllFaults == {"kafka",      \* Send fails and nothing is published
              "ack",        \* Send fails although the message is published
              "db",         \* a statement, or its reply, fails
              "crash"}      \* the process dies and is started again

ASSUME RelayAssumption ==
    /\ Messages \subseteq Nat
    /\ IsFiniteSet(Messages)
    /\ BatchSize \in Nat \ {0}
    /\ MaxPublished \in Nat \ {0}
    /\ Faults \subseteq AllFaults
    /\ None \notin Messages

VARIABLES status, attempts, \* the columns of outbox
          cooling,          \* rows whose last_attempt_at is less than 2 s old
          dlq,              \* rows of dlq
          published,        \* how often each message was written to the topic
          buried,           \* auxiliary: rows ever inserted into dlq
          pc,               \* where each worker is
          ids,              \* phaseOne's ids
          batch,            \* phaseTwo's messages still to be processed
          cur,              \* processMessage's msg, or processDLQMessage's
          graves            \* ProcessDLQ's messages still to be processed

vars == <<status, attempts, cooling, dlq, published, buried,
          pc, ids, batch, cur, graves>>

table == <<status, attempts, cooling>>
dead == <<dlq, buried>>
locals == <<pc, ids, batch, cur, graves>>

\* domain.MaxRetryAttempts and domain.DLQMaxRetries.
MaxRetryAttempts == 3
DLQMaxRetries == 3

Init ==
    /\ status = [m \in Messages |-> "NONE"]
    /\ attempts = [m \in Messages |-> 0]
    /\ cooling = {}
    /\ dlq = {}
    /\ published = [m \in Messages |-> 0]
    /\ buried = [m \in Messages |-> 0]
    /\ pc = [w \in Workers |-> "idle"]
    /\ ids = [w \in Workers |-> {}]
    /\ batch = [w \in Workers |-> {}]
    /\ cur = [w \in Workers |-> None]
    /\ graves = [w \in Workers |-> {}]

\* ORDER BY created_at ASC LIMIT BatchSize.
Oldest(S) == {m \in S : Cardinality({n \in S : n < m}) < BatchSize}

Goto(w, l) == pc' = [pc EXCEPT ![w] = l]

SetStatus(S, s) == status' = [m \in Messages |-> IF m \in S THEN s ELSE status[m]]

\* Faulty variant: the newest message first.
NextMessageNewest(w, b) ==
    IF b = {}
      THEN /\ Goto(w, "idle")
           /\ cur' = [cur EXCEPT ![w] = None]
           /\ batch' = [batch EXCEPT ![w] = {}]
      ELSE \E msg \in b :
              /\ \A other \in b : msg.id >= other.id
              /\ Goto(w, "attempt")
              /\ cur' = [cur EXCEPT ![w] = msg]
              /\ batch' = [batch EXCEPT ![w] = b \ {msg}]

\* The loop of phaseTwo takes the next message of b, or the round is over.
NextMessage(w, b) ==
    IF b = {}
      THEN /\ Goto(w, "idle")
           /\ cur' = [cur EXCEPT ![w] = None]
           /\ batch' = [batch EXCEPT ![w] = {}]
      ELSE \E msg \in b :
              /\ \A other \in b : msg.id <= other.id
              /\ Goto(w, "attempt")
              /\ cur' = [cur EXCEPT ![w] = msg]
              /\ batch' = [batch EXCEPT ![w] = b \ {msg}]

\* The loop of ProcessDLQ does the same.
NextGrave(w, g) ==
    IF g = {}
      THEN /\ Goto(w, "idle")
           /\ cur' = [cur EXCEPT ![w] = None]
           /\ graves' = [graves EXCEPT ![w] = {}]
      ELSE \E row \in g :
              /\ Goto(w, "resend")
              /\ cur' = [cur EXCEPT ![w] = row]
              /\ graves' = [graves EXCEPT ![w] = g \ {row}]

-----------------------------------------------------------------------------
(* The order service and time.                                             *)

\* A transaction of the order service that saved an event commits; it began,
\* and took its created_at, at any time before.
Arrive(m) ==
    /\ status[m] = "NONE"
    /\ status' = [status EXCEPT ![m] = "CREATED"]
    /\ UNCHANGED <<attempts, cooling, dead, published, locals>>

\* RetryDelay passes.
CoolDown(m) ==
    /\ m \in cooling
    /\ cooling' = cooling \ {m}
    /\ UNCHANGED <<status, attempts, dead, published, locals>>

\* retry_after passes.
GraveIsDue(row) ==
    /\ row \in dlq /\ ~row.due
    /\ dlq' = (dlq \ {row}) \cup {[row EXCEPT !.due = TRUE]}
    /\ UNCHANGED <<table, published, buried, locals>>

-----------------------------------------------------------------------------
(* phaseOne: CREATED becomes PROCESSING.                                   *)

\* GetPendingMessages. FOR UPDATE SKIP LOCKED runs outside a transaction:
\* the locks are gone when the statement ends.
TakePending(w) ==
    /\ pc[w] = "idle"
    /\ ids' = [ids EXCEPT ![w] = Oldest({m \in Messages : status[m] = "CREATED"})]
    /\ Goto(w, IF ids'[w] = {} THEN "fetch" ELSE "set")
    /\ UNCHANGED <<table, dead, published, batch, cur, graves>>

\* SetProcessing updates by id, whatever the status is by now.
SetProcessing(w) ==
    /\ pc[w] = "set"
    /\ SetStatus(ids[w], "PROCESSING")
    /\ ids' = [ids EXCEPT ![w] = {}]
    /\ Goto(w, "fetch")
    /\ UNCHANGED <<attempts, cooling, dead, published, batch, cur, graves>>

-----------------------------------------------------------------------------
(* phaseTwo: every PROCESSING message is attempted.                        *)

\* Faulty variant: the query does not look at the number of attempts.
EligibleForEver == {m \in Messages : status[m] = "PROCESSING" /\ m \notin cooling}

Eligible == {m \in Messages : /\ status[m] = "PROCESSING"
                              /\ m \notin cooling
                              /\ attempts[m] < MaxRetryAttempts}

\* GetProcessingMessages. CanRetry and ShouldFail repeat its conditions on
\* the rows it returned, so processMessage never takes those exits.
FetchProcessing(w) ==
    /\ pc[w] = "fetch"
    /\ NextMessage(w, {[id |-> m, attempts |-> attempts[m]] : m \in Oldest(Eligible)})
    /\ UNCHANGED <<table, dead, published, ids, graves>>

UpdateAttempt(w) ==
    /\ pc[w] = "attempt"
    /\ attempts' = [attempts EXCEPT ![cur[w].id] = @ + 1]
    /\ cooling' = cooling \cup {cur[w].id}
    /\ Goto(w, "send")
    /\ UNCHANGED <<status, dead, published, ids, batch, cur, graves>>

Count(m) == published' = [published EXCEPT ![m] = IF @ < MaxPublished THEN @ + 1 ELSE @]

Send(w) ==
    /\ pc[w] = "send"
    /\ Count(cur[w].id)
    /\ Goto(w, "complete")
    /\ UNCHANGED <<table, dead, ids, batch, cur, graves>>

\* Faulty variant: the error of Send is only logged.
SendFailsUnnoticed(w) ==
    /\ pc[w] = "send"
    /\ \/ "kafka" \in Faults /\ UNCHANGED published
       \/ "ack" \in Faults /\ Count(cur[w].id)
    /\ Goto(w, "complete")
    /\ UNCHANGED <<table, dead, ids, batch, cur, graves>>

\* Faulty variant: the count fetched by the round is taken for the new one.
SendFailsStaleCount(w) ==
    /\ pc[w] = "send"
    /\ \/ "kafka" \in Faults /\ UNCHANGED published
       \/ "ack" \in Faults /\ Count(cur[w].id)
    /\ IF cur[w].attempts >= MaxRetryAttempts
         THEN Goto(w, "bury") /\ UNCHANGED <<cur, batch>>
         ELSE NextMessage(w, batch[w])
    /\ UNCHANGED <<table, dead, ids, graves>>

\* The third failure leads to the dlq; the others leave the row PROCESSING.
\* The count is the one the row had when the round fetched it.
SendFails(w) ==
    /\ pc[w] = "send"
    /\ \/ "kafka" \in Faults /\ UNCHANGED published
       \/ "ack" \in Faults /\ Count(cur[w].id)
    /\ IF cur[w].attempts + 1 >= MaxRetryAttempts
         THEN Goto(w, "bury") /\ UNCHANGED <<cur, batch>>
         ELSE NextMessage(w, batch[w])
    /\ UNCHANGED <<table, dead, ids, graves>>

\* UpdateStatus(COMPLETED).
Complete(w) ==
    /\ pc[w] = "complete"
    /\ SetStatus({cur[w].id}, "COMPLETED")
    /\ NextMessage(w, batch[w])
    /\ UNCHANGED <<attempts, cooling, dead, published, ids, graves>>

-----------------------------------------------------------------------------
(* moveToDLQ: the INSERT is in a transaction, UpdateStatus(FAILED) is run  *)
(* in its callback but on the client, and commits by itself.               *)

SaveDLQ(w) ==
    /\ pc[w] = "bury"
    /\ Goto(w, "mark")
    /\ UNCHANGED <<table, dead, published, ids, batch, cur, graves>>

MarkFailed(w) ==
    /\ pc[w] = "mark"
    /\ SetStatus({cur[w].id}, "FAILED")
    /\ Goto(w, "commit")
    /\ UNCHANGED <<attempts, cooling, dead, published, ids, batch, cur, graves>>

\* Faulty variant: no return after moveToDLQ.
CommitDLQGoesOn(w) ==
    /\ pc[w] = "commit"
    /\ buried' = [buried EXCEPT ![cur[w].id] = @ + 1]
    /\ dlq' = dlq \cup {[id |-> cur[w].id, nr |-> buried'[cur[w].id],
                         tries |-> 0, due |-> FALSE]}
    /\ Goto(w, "complete")
    /\ UNCHANGED <<table, published, ids, batch, cur, graves>>

\* Faulty variant: a transaction whose commit got no reply is tried again.
CommitDLQRetried(w) ==
    /\ pc[w] = "commit"
    /\ buried[cur[w].id] < 2
    /\ buried' = [buried EXCEPT ![cur[w].id] = @ + 1]
    /\ dlq' = dlq \cup {[id |-> cur[w].id, nr |-> buried'[cur[w].id],
                         tries |-> 0, due |-> FALSE]}
    /\ \/ NextMessage(w, batch[w])
       \/ "db" \in Faults /\ Goto(w, "bury") /\ UNCHANGED <<batch, cur>>
    /\ UNCHANGED <<table, published, ids, graves>>

CommitDLQ(w) ==
    /\ pc[w] = "commit"
    /\ buried' = [buried EXCEPT ![cur[w].id] = @ + 1]
    /\ dlq' = dlq \cup {[id |-> cur[w].id, nr |-> buried'[cur[w].id],
                         tries |-> 0, due |-> FALSE]}
    /\ NextMessage(w, batch[w])
    /\ UNCHANGED <<table, published, ids, graves>>

-----------------------------------------------------------------------------
(* ProcessDLQ: rows of dlq are sent again, three failures at most.         *)

\* Faulty variant: the query does not look at process_count.
FetchDeadForEver(w) ==
    /\ pc[w] = "idle"
    /\ LET rows == {row \in dlq : row.due}
       IN  rows # {} /\ NextGrave(w, rows)
    /\ UNCHANGED <<table, dead, published, ids, batch>>

FetchDead(w) ==
    /\ pc[w] = "idle"
    /\ LET rows == {row \in dlq : row.due /\ row.tries < DLQMaxRetries}
       IN  rows # {} /\ NextGrave(w, rows)
    /\ UNCHANGED <<table, dead, published, ids, batch>>

Resend(w) ==
    /\ pc[w] = "resend"
    /\ Count(cur[w].id)
    /\ Goto(w, "delete")
    /\ UNCHANGED <<table, dead, ids, batch, cur, graves>>

ResendFails(w) ==
    /\ pc[w] = "resend"
    /\ \/ "kafka" \in Faults /\ UNCHANGED published
       \/ "ack" \in Faults /\ Count(cur[w].id)
    /\ Goto(w, "retry")
    /\ UNCHANGED <<table, dead, ids, batch, cur, graves>>

SameRow(a, b) == a.id = b.id /\ a.nr = b.nr

\* Faulty variant: a row that used up its retries is removed.
UpdateRetryDrops(w) ==
    /\ pc[w] = "retry"
    /\ dlq' = {row \in dlq : ~SameRow(row, cur[w])}
              \cup {[row EXCEPT !.tries = @ + 1, !.due = FALSE] :
                       row \in {r \in dlq : SameRow(r, cur[w])
                                            /\ r.tries + 1 < DLQMaxRetries}}
    /\ NextGrave(w, graves[w])
    /\ UNCHANGED <<table, published, buried, ids, batch>>

\* IncrementRetry on the copy, UpdateRetry in the table.
UpdateRetry(w) ==
    /\ pc[w] = "retry"
    /\ dlq' = {IF SameRow(row, cur[w])
                 THEN [row EXCEPT !.tries = cur[w].tries + 1, !.due = FALSE]
                 ELSE row : row \in dlq}
    /\ NextGrave(w, graves[w])
    /\ UNCHANGED <<table, published, buried, ids, batch>>

\* Faulty variant: the row that was sent stays in dlq.
DeleteDeadForgotten(w) ==
    /\ pc[w] = "delete"
    /\ NextGrave(w, graves[w])
    /\ UNCHANGED <<table, dead, published, ids, batch>>

DeleteDead(w) ==
    /\ pc[w] = "delete"
    /\ dlq' = {row \in dlq : ~SameRow(row, cur[w])}
    /\ NextGrave(w, graves[w])
    /\ UNCHANGED <<table, published, buried, ids, batch>>

-----------------------------------------------------------------------------
(* Failures.                                                               *)

\* A statement fails: it is logged and the worker goes on with the next
\* thing. In moveToDLQ the deferred Rollback takes back the INSERT only.
DbFails(w) ==
    /\ "db" \in Faults
    /\ UNCHANGED <<status, dead, published>>
    /\ \/ /\ pc[w] \in {"idle", "set"}
          /\ Goto(w, "fetch")
          /\ ids' = [ids EXCEPT ![w] = {}]
          /\ UNCHANGED <<attempts, cooling, batch, cur, graves>>
       \/ /\ pc[w] \in {"fetch", "attempt", "complete", "bury", "mark", "commit"}
          /\ NextMessage(w, IF pc[w] = "fetch" THEN {} ELSE batch[w])
          /\ UNCHANGED <<attempts, cooling, ids, graves>>
       \/ /\ pc[w] = "attempt"      \* the reply of UpdateAttempt is lost
          /\ attempts' = [attempts EXCEPT ![cur[w].id] = @ + 1]
          /\ cooling' = cooling \cup {cur[w].id}
          /\ NextMessage(w, batch[w])
          /\ UNCHANGED <<ids, graves>>
       \/ /\ pc[w] \in {"retry", "delete"}
          /\ NextGrave(w, graves[w])
          /\ UNCHANGED <<attempts, cooling, ids, batch>>

\* The process dies and is started again; an open transaction is rolled back.
Crash(w) ==
    /\ "crash" \in Faults
    /\ pc[w] # "idle"
    /\ Goto(w, "idle")
    /\ ids' = [ids EXCEPT ![w] = {}]
    /\ batch' = [batch EXCEPT ![w] = {}]
    /\ cur' = [cur EXCEPT ![w] = None]
    /\ graves' = [graves EXCEPT ![w] = {}]
    /\ UNCHANGED <<table, dead, published>>

-----------------------------------------------------------------------------
\* What the worker's goroutine does when nothing fails.
Work(w) ==
    \/ TakePending(w) \/ SetProcessing(w) \/ FetchProcessing(w)
    \/ UpdateAttempt(w) \/ Send(w) \/ Complete(w)
    \/ SaveDLQ(w) \/ MarkFailed(w) \/ CommitDLQ(w)
    \/ FetchDead(w) \/ Resend(w) \/ UpdateRetry(w) \/ DeleteDead(w)

Next ==
    \/ \E m \in Messages : Arrive(m) \/ CoolDown(m)
    \/ \E row \in dlq : GraveIsDue(row)
    \/ \E w \in Workers :
          Work(w) \/ SendFails(w) \/ ResendFails(w) \/ DbFails(w) \/ Crash(w)

Spec == Init /\ [][Next]_vars

\* The tickers keep firing and select serves each of them sooner or later;
\* delays pass.
FairSpec ==
    /\ Spec
    /\ \A w \in Workers : WF_vars(Work(w)) /\ SF_vars(TakePending(w))
    /\ \A m \in Messages : WF_vars(CoolDown(m))

-----------------------------------------------------------------------------
(* Properties.                                                             *)

MessageCopies == [id : Messages, attempts : Nat]
Graves == [id : Messages, nr : Nat, tries : 0..DLQMaxRetries, due : BOOLEAN]

\* Every variable has its type.
TypeOK ==
    /\ status \in [Messages -> {"NONE", "CREATED", "PROCESSING", "COMPLETED", "FAILED"}]
    /\ attempts \in [Messages -> Nat]
    /\ cooling \subseteq Messages
    /\ dlq \subseteq Graves
    /\ published \in [Messages -> 0..MaxPublished]
    /\ buried \in [Messages -> Nat]
    /\ pc \in [Workers -> {"idle", "set", "fetch", "attempt", "send", "complete",
                           "bury", "mark", "commit", "resend", "retry", "delete"}]
    /\ ids \in [Workers -> SUBSET Messages]
    /\ batch \in [Workers -> SUBSET MessageCopies]
    /\ cur \in [Workers -> MessageCopies \cup Graves \cup {None}]
    /\ graves \in [Workers -> SUBSET Graves]

\* A row is COMPLETED only when its event is in the topic, whatever crashes
\* or fails in between.
CompletedIsPublished ==
    \A m \in Messages : status[m] = "COMPLETED" => published[m] > 0

\* No row is attempted more than three times, although the counter is
\* incremented before the send and the limit is read a round earlier.
AtMostThreeAttempts ==
    \A m \in Messages : attempts[m] <= MaxRetryAttempts

\* COMPLETED and FAILED are final: phaseOne, which updates by id without a
\* condition, never reopens a row.
FinalStatusStays ==
    [][\A m \in Messages : status[m] \in {"COMPLETED", "FAILED"}
                              => status'[m] = status[m]]_vars

\* A message enters dlq at most once, so it is never resent twice for the
\* same failure.
BuriedOnce ==
    \A m \in Messages : buried[m] <= 1

\* A row that was given up is not lost: its copy is in dlq or on its way
\* there, or the event was published after all.
FailedIsKept ==
    \A m \in Messages : status[m] = "FAILED" =>
        \/ published[m] > 0
        \/ \E row \in dlq : row.id = m
        \/ \E w \in Workers : pc[w] = "commit" /\ cur[w].id = m

\* Without lost replies nobody is told twice: outbox and dlq together write
\* a message to the topic at most once.
PublishedOnce ==
    \A m \in Messages : published[m] <= 1

\* A message overtakes an older one that is PROCESSING, too, only after the
\* older one has been tried: phaseTwo takes the rows by created_at.
PublishedInOrder ==
    [][\A m, n \in Messages :
         /\ n < m /\ published'[m] > published[m]
         /\ status[m] = "PROCESSING" /\ status[n] = "PROCESSING"
         => attempts[n] > 0]_vars

\* Every committed event is dealt with: its row becomes COMPLETED or FAILED.
EveryMessageEnds ==
    \A m \in Messages :
        status[m] # "NONE" ~> status[m] \in {"COMPLETED", "FAILED"}

-----------------------------------------------------------------------------
(* What the documents say of the relay.                                    *)

\* docs/homework-7: after three attempts a task gets the status FAILED.
ExhaustedIsFinished ==
    \A m \in Messages :
        attempts[m] = MaxRetryAttempts ~> status[m] \in {"COMPLETED", "FAILED"}
=============================================================================
