-------------------------- MODULE OutboxRelayProofs --------------------------
(***************************************************************************)
(* Safety of the outbox relay, for any number of messages, any batch size  *)
(* and any combination of faults, with one worker, as deployed.            *)
(***************************************************************************)
EXTENDS OutboxRelay, FiniteSetTheorems, TLAPS

\* One instance of cmd/outbox.
OneWorker == \A v, w \in Workers : v = w

Attempting == {"attempt", "send", "complete", "bury", "mark"}
Resending == {"resend", "retry", "delete"}

\* Copies that agree with the table st, at, and may still be attempted.
Fresh(b, st, at) ==
    \A c \in b : /\ st[c.id] = "PROCESSING"
                 /\ at[c.id] = c.attempts
                 /\ c.attempts < MaxRetryAttempts

\* What phaseOne took is still CREATED.
IdsOK == \A w \in Workers : \A m \in ids[w] : status[m] = "CREATED"

\* What phaseTwo has still to process agrees with the table, and the message
\* in hand is not among it.
BatchOK ==
    \A w \in Workers :
        /\ Fresh(batch[w], status, attempts)
        /\ pc[w] \notin Attempting \cup {"commit"} => batch[w] = {}
        /\ pc[w] \in Attempting \cup {"commit"} =>
              cur[w] \in MessageCopies /\ \A c \in batch[w] : c.id # cur[w].id

\* Where the message in hand stands.
CurOK ==
    \A w \in Workers :
        /\ pc[w] \in Attempting => status[cur[w].id] = "PROCESSING"
        /\ pc[w] = "attempt" => Fresh({cur[w]}, status, attempts)
        /\ pc[w] = "complete" => published[cur[w].id] > 0
        /\ pc[w] = "commit" => status[cur[w].id] = "FAILED" /\ buried[cur[w].id] = 0

\* ProcessDLQ works on rows that may be sent again.
GravesOK ==
    \A w \in Workers :
        /\ pc[w] \in Resending =>
              cur[w] \in Graves /\ cur[w].tries < DLQMaxRetries
        /\ pc[w] \in Resending => \A row \in graves[w] : row.tries < DLQMaxRetries

\* A row of dlq belongs to a message that was given up.
BuriedOK == \A m \in Messages : buried[m] > 0 => status[m] = "FAILED"

RowsOK == CompletedIsPublished /\ AtMostThreeAttempts /\ BuriedOnce /\ BuriedOK

\* The inductive invariant.
Inv == TypeOK /\ IdsOK /\ BatchOK /\ CurOK /\ GravesOK /\ RowsOK

-----------------------------------------------------------------------------
\* The loop of phaseTwo keeps what is known of its copies.
LEMMA TakesNext ==
  ASSUME TypeOK, NEW w \in Workers, NEW b \in SUBSET MessageCopies,
         NextMessage(w, b), Fresh(b, status', attempts')
  PROVE  /\ pc' \in [Workers -> {"idle", "set", "fetch", "attempt", "send", "complete",
                           "bury", "mark", "commit", "resend", "retry", "delete"}]
         /\ cur' \in [Workers -> MessageCopies \cup Graves \cup {None}]
         /\ batch' \in [Workers -> SUBSET MessageCopies]
         /\ pc'[w] \in {"idle", "attempt"}
         /\ Fresh(batch'[w], status', attempts')
         /\ pc'[w] = "idle" => batch'[w] = {}
         /\ pc'[w] = "attempt" =>
              /\ cur'[w] \in MessageCopies
              /\ Fresh({cur'[w]}, status', attempts')
              /\ \A c \in batch'[w] : c.id # cur'[w].id
<1>1. CASE b = {}
  BY <1>1 DEF TypeOK, NextMessage, Goto, Fresh
<1>2. CASE b # {}
  <2>1. PICK msg \in b : /\ pc' = [pc EXCEPT ![w] = "attempt"]
                         /\ cur' = [cur EXCEPT ![w] = msg]
                         /\ batch' = [batch EXCEPT ![w] = b \ {msg}]
    BY <1>2, Zenon DEF NextMessage, Goto
  <2>2. msg \in MessageCopies /\ b \ {msg} \in SUBSET MessageCopies
    OBVIOUS
  <2>3. pc'[w] = "attempt" /\ cur'[w] = msg /\ batch'[w] = b \ {msg}
    BY <2>1 DEF TypeOK
  <2>4. \A c \in b \ {msg} : c.id # msg.id
    BY DEF Fresh, MessageCopies
  <2>5. Fresh({msg}, status', attempts') /\ Fresh(b \ {msg}, status', attempts')
    BY DEF Fresh
  <2>6. QED
    BY <2>1, <2>2, <2>3, <2>4, <2>5 DEF TypeOK
<1>3. QED
  BY <1>1, <1>2

\* The loop of ProcessDLQ does the same.
LEMMA TakesNextGrave ==
  ASSUME TypeOK, NEW w \in Workers, NEW g \in SUBSET Graves,
         NextGrave(w, g), \A row \in g : row.tries < DLQMaxRetries
  PROVE  /\ pc' \in [Workers -> {"idle", "set", "fetch", "attempt", "send", "complete",
                           "bury", "mark", "commit", "resend", "retry", "delete"}]
         /\ cur' \in [Workers -> MessageCopies \cup Graves \cup {None}]
         /\ graves' \in [Workers -> SUBSET Graves]
         /\ pc'[w] \in {"idle", "resend"}
         /\ pc'[w] = "resend" =>
              /\ cur'[w] \in Graves /\ cur'[w].tries < DLQMaxRetries
              /\ \A row \in graves'[w] : row.tries < DLQMaxRetries
<1>1. CASE g = {}
  BY <1>1 DEF TypeOK, NextGrave, Goto
<1>2. CASE g # {}
  <2>1. PICK row \in g : /\ pc' = [pc EXCEPT ![w] = "resend"]
                         /\ cur' = [cur EXCEPT ![w] = row]
                         /\ graves' = [graves EXCEPT ![w] = g \ {row}]
    BY <1>2, Zenon DEF NextGrave, Goto
  <2>2. row \in Graves /\ g \ {row} \in SUBSET Graves
    OBVIOUS
  <2>3. QED
    BY <2>1, <2>2 DEF TypeOK
<1>3. QED
  BY <1>1, <1>2

\* After a message, or before the first one, phaseTwo is where it should be.
LEMMA RoundGoesOn ==
  ASSUME OneWorker, TypeOK, NEW w \in Workers, NEW b \in SUBSET MessageCopies,
         NextMessage(w, b), Fresh(b, status', attempts')
  PROVE  BatchOK' /\ CurOK' /\ GravesOK'
<1>1. /\ pc'[w] \in {"idle", "attempt"}
      /\ Fresh(batch'[w], status', attempts')
      /\ pc'[w] = "idle" => batch'[w] = {}
      /\ pc'[w] = "attempt" =>
           /\ cur'[w] \in MessageCopies
           /\ Fresh({cur'[w]}, status', attempts')
           /\ \A c \in batch'[w] : c.id # cur'[w].id
  BY TakesNext
<1>2. \A v \in Workers : v = w
  BY DEF OneWorker
<1>3. pc'[w] = "attempt" => status'[cur'[w].id] = "PROCESSING"
  BY <1>1 DEF Fresh
<1>4. BatchOK'
  BY <1>1, <1>2, Zenon DEF BatchOK, Attempting
<1>5. CurOK'
  BY <1>1, <1>2, <1>3 DEF CurOK, Attempting
<1>6. GravesOK'
  BY <1>1, <1>2 DEF GravesOK, Resending
<1>7. QED
  BY <1>4, <1>5, <1>6

\* The same for ProcessDLQ, which runs between two rounds of phaseTwo.
LEMMA ResendingGoesOn ==
  ASSUME OneWorker, Inv, NEW w \in Workers, NEW g \in SUBSET Graves,
         NextGrave(w, g), \A row \in g : row.tries < DLQMaxRetries,
         pc[w] \notin Attempting \cup {"commit"}, batch' = batch
  PROVE  BatchOK' /\ CurOK' /\ GravesOK'
<1>1. /\ pc'[w] \in {"idle", "resend"}
      /\ pc'[w] = "resend" =>
           /\ cur'[w] \in Graves /\ cur'[w].tries < DLQMaxRetries
           /\ \A row \in graves'[w] : row.tries < DLQMaxRetries
  BY TakesNextGrave DEF Inv
<1>2. \A v \in Workers : v = w
  BY DEF OneWorker
<1>3. batch'[w] = {}
  BY DEF Inv, BatchOK
<1>4. BatchOK'
  BY <1>1, <1>2, <1>3 DEF BatchOK, Attempting, Fresh
<1>5. CurOK'
  BY <1>1, <1>2 DEF CurOK, Attempting
<1>6. GravesOK'
  BY <1>1, <1>2 DEF GravesOK, Resending
<1>7. QED
  BY <1>4, <1>5, <1>6

\* What the worker knows of the message in hand.
LEMMA InHand ==
  ASSUME Inv, NEW w \in Workers, pc[w] \in Attempting \cup {"commit"}
  PROVE  /\ cur[w] \in MessageCopies
         /\ cur[w].id \in Messages /\ cur[w].attempts \in Nat
         /\ batch[w] \in SUBSET MessageCopies
         /\ Fresh(batch[w], status, attempts)
         /\ \A c \in batch[w] : c.id \in Messages /\ c.id # cur[w].id
BY DEF Inv, TypeOK, BatchOK, MessageCopies

\* And of the row of dlq in hand.
LEMMA GraveInHand ==
  ASSUME Inv, NEW w \in Workers, pc[w] \in Resending
  PROVE  /\ cur[w] \in Graves /\ cur[w].id \in Messages
         /\ cur[w].tries \in 0..DLQMaxRetries /\ cur[w].tries < DLQMaxRetries
         /\ graves[w] \in SUBSET Graves
         /\ \A row \in graves[w] : row.tries < DLQMaxRetries
BY DEF Inv, TypeOK, GravesOK, Graves

\* Another publication is counted up to the bound.
LEMMA Counts ==
  ASSUME TypeOK, NEW m \in Messages, Count(m)
  PROVE  /\ published' \in [Messages -> 0..MaxPublished]
         /\ published'[m] > 0
         /\ \A n \in Messages : published[n] > 0 => published'[n] > 0
<1>1. MaxPublished \in Nat \ {0} /\ published \in [Messages -> 0..MaxPublished]
  BY RelayAssumption DEF TypeOK
<1>2. published[m] \in 0..MaxPublished
  BY <1>1
<1>3. (IF published[m] < MaxPublished THEN published[m] + 1 ELSE published[m])
        \in 1..MaxPublished
  BY <1>1, <1>2
<1>4. published' = [published EXCEPT ![m] =
                     IF published[m] < MaxPublished THEN published[m] + 1 ELSE published[m]]
  BY DEF Count
<1>5. QED
  BY <1>1, <1>3, <1>4

-----------------------------------------------------------------------------
(* Every action preserves the invariant.  OneWorker is needed wherever     *)
(* another worker could change what this one has read.                     *)

LEMMA InitInv == ASSUME Init PROVE Inv
<1>1. TypeOK
  BY RelayAssumption DEF Init, TypeOK
<1>2. IdsOK /\ BatchOK /\ CurOK /\ GravesOK
  BY DEF Init, IdsOK, BatchOK, CurOK, GravesOK, Attempting, Resending, Fresh
<1>3. RowsOK
  BY DEF Init, RowsOK, CompletedIsPublished, AtMostThreeAttempts, BuriedOnce, BuriedOK,
         MaxRetryAttempts
<1>4. QED
  BY <1>1, <1>2, <1>3 DEF Inv

LEMMA ArriveInv ==
  ASSUME OneWorker, Inv, NEW m \in Messages, Arrive(m)
  PROVE  Inv'
<1>1. TypeOK'
  BY DEF Inv, TypeOK, MessageCopies, Graves, Arrive, dead, locals
<1>2. IdsOK'
  BY OneWorker DEF OneWorker, Inv, TypeOK, IdsOK, Arrive, dead, locals
<1>3. BatchOK'
  BY OneWorker DEF OneWorker, Inv, TypeOK, BatchOK, Fresh, Attempting,
        MessageCopies, Arrive, dead, locals
<1>4. CurOK'
  BY OneWorker DEF OneWorker, Inv, TypeOK, BatchOK, CurOK, Fresh, Attempting,
        MessageCopies, Arrive, dead, locals
<1>5. GravesOK'
  BY OneWorker DEF OneWorker, Inv, TypeOK, GravesOK, Resending, Arrive, dead,
        locals
<1>6. RowsOK'
  BY DEF Inv, TypeOK, RowsOK, CompletedIsPublished, AtMostThreeAttempts,
        BuriedOnce, BuriedOK, MaxRetryAttempts, Arrive, dead, locals
<1>7. QED
  BY <1>1, <1>2, <1>3, <1>4, <1>5, <1>6 DEF Inv

LEMMA CoolDownInv ==
  ASSUME OneWorker, Inv, NEW m \in Messages, CoolDown(m)
  PROVE  Inv'
<1>1. TypeOK'
  BY DEF Inv, TypeOK, MessageCopies, Graves, CoolDown, dead, locals
<1>2. IdsOK'
  BY OneWorker DEF OneWorker, Inv, TypeOK, IdsOK, CoolDown, dead, locals
<1>3. BatchOK'
  BY OneWorker DEF OneWorker, Inv, TypeOK, BatchOK, Fresh, Attempting,
        MessageCopies, CoolDown, dead, locals
<1>4. CurOK'
  BY OneWorker DEF OneWorker, Inv, TypeOK, BatchOK, CurOK, Fresh, Attempting,
        MessageCopies, CoolDown, dead, locals
<1>5. GravesOK'
  BY OneWorker DEF OneWorker, Inv, TypeOK, GravesOK, Resending, CoolDown,
        dead, locals
<1>6. RowsOK'
  BY DEF Inv, TypeOK, RowsOK, CompletedIsPublished, AtMostThreeAttempts,
        BuriedOnce, BuriedOK, MaxRetryAttempts, CoolDown, dead, locals
<1>7. QED
  BY <1>1, <1>2, <1>3, <1>4, <1>5, <1>6 DEF Inv

LEMMA GraveIsDueInv ==
  ASSUME OneWorker, Inv, NEW row \in dlq, GraveIsDue(row)
  PROVE  Inv'
<1>1. TypeOK'
  BY DEF Inv, TypeOK, MessageCopies, Graves, GraveIsDue, table, locals
<1>2. IdsOK'
  BY OneWorker DEF OneWorker, Inv, TypeOK, IdsOK, GraveIsDue, table, locals
<1>3. BatchOK'
  BY OneWorker DEF OneWorker, Inv, TypeOK, BatchOK, Fresh, Attempting,
        MessageCopies, GraveIsDue, table, locals
<1>4. CurOK'
  BY OneWorker DEF OneWorker, Inv, TypeOK, BatchOK, CurOK, Fresh, Attempting,
        MessageCopies, GraveIsDue, table, locals
<1>5. GravesOK'
  BY OneWorker DEF OneWorker, Inv, TypeOK, GravesOK, Resending, GraveIsDue,
        table, locals
<1>6. RowsOK'
  BY DEF Inv, TypeOK, RowsOK, CompletedIsPublished, AtMostThreeAttempts,
        BuriedOnce, BuriedOK, MaxRetryAttempts, GraveIsDue, table, locals
<1>7. QED
  BY <1>1, <1>2, <1>3, <1>4, <1>5, <1>6 DEF Inv

LEMMA TakePendingInv ==
  ASSUME OneWorker, Inv, NEW w \in Workers, TakePending(w)
  PROVE  Inv'
<1>1. TypeOK'
  BY DEF Inv, TypeOK, MessageCopies, Graves, TakePending, table, dead, Goto,
        Oldest
<1>2. IdsOK'
  BY OneWorker DEF OneWorker, Inv, TypeOK, IdsOK, TakePending, table, dead,
        Goto, Oldest
<1>3. BatchOK'
  BY OneWorker DEF OneWorker, Inv, TypeOK, BatchOK, Fresh, Attempting,
        MessageCopies, TakePending, table, dead, Goto, Oldest
<1>4. CurOK'
  BY OneWorker DEF OneWorker, Inv, TypeOK, BatchOK, CurOK, Fresh, Attempting,
        MessageCopies, TakePending, table, dead, Goto, Oldest
<1>5. GravesOK'
  BY OneWorker DEF OneWorker, Inv, TypeOK, GravesOK, Resending, TakePending,
        table, dead, Goto, Oldest
<1>6. RowsOK'
  BY DEF Inv, TypeOK, RowsOK, CompletedIsPublished, AtMostThreeAttempts,
        BuriedOnce, BuriedOK, MaxRetryAttempts, TakePending, table, dead,
        Goto, Oldest
<1>7. QED
  BY <1>1, <1>2, <1>3, <1>4, <1>5, <1>6 DEF Inv

LEMMA SetProcessingInv ==
  ASSUME OneWorker, Inv, NEW w \in Workers, SetProcessing(w)
  PROVE  Inv'
<1>1. TypeOK'
  BY DEF Inv, TypeOK, MessageCopies, Graves, SetProcessing, dead, Goto,
        SetStatus
<1>2. IdsOK'
  BY OneWorker DEF OneWorker, Inv, TypeOK, IdsOK, SetProcessing, dead, Goto,
        SetStatus
<1>3. BatchOK'
  BY OneWorker DEF OneWorker, Inv, TypeOK, BatchOK, Fresh, Attempting,
        MessageCopies, SetProcessing, dead, Goto, SetStatus
<1>4. CurOK'
  BY OneWorker DEF OneWorker, Inv, TypeOK, BatchOK, CurOK, Fresh, Attempting,
        MessageCopies, SetProcessing, dead, Goto, SetStatus
<1>5. GravesOK'
  BY OneWorker DEF OneWorker, Inv, TypeOK, GravesOK, Resending,
        SetProcessing, dead, Goto, SetStatus
<1>6. RowsOK'
  BY DEF Inv, TypeOK, RowsOK, CompletedIsPublished, AtMostThreeAttempts,
        BuriedOnce, BuriedOK, MaxRetryAttempts, IdsOK, SetProcessing, dead,
        Goto, SetStatus
<1>7. QED
  BY <1>1, <1>2, <1>3, <1>4, <1>5, <1>6 DEF Inv

LEMMA FetchProcessingInv ==
  ASSUME OneWorker, Inv, NEW w \in Workers, FetchProcessing(w)
  PROVE  Inv'
<1> DEFINE b == {[id |-> m, attempts |-> attempts[m]] : m \in Oldest(Eligible)}
<1>1. Oldest(Eligible) \subseteq Eligible
  BY DEF Oldest
<1>2. \A c \in b : /\ c \in MessageCopies
                   /\ c.id \in Eligible /\ c.attempts = attempts[c.id]
  <2>1. SUFFICES ASSUME NEW m \in Oldest(Eligible),
                        NEW c, c = [id |-> m, attempts |-> attempts[m]]
                 PROVE  c \in MessageCopies /\ c.id \in Eligible /\ c.attempts = attempts[c.id]
    OBVIOUS
  <2>2. m \in Eligible /\ m \in Messages /\ attempts[m] \in Nat
    BY <1>1 DEF Inv, TypeOK, Eligible
  <2>3. QED
    BY <2>1, <2>2 DEF MessageCopies
<1>3. NextMessage(w, b) /\ UNCHANGED <<table, dead, published, ids, graves>>
  BY DEF FetchProcessing
<1>4. Fresh(b, status', attempts')
  BY <1>2, <1>3 DEF Fresh, Eligible, table
<1> HIDE DEF b
<1>5. TypeOK'
  <2>1. TypeOK
    BY DEF Inv
  <2>2. QED
    BY <1>2, <1>3, <1>4, <2>1, TakesNext DEF TypeOK, table, dead
<1>6. BatchOK' /\ CurOK' /\ GravesOK'
  BY <1>2, <1>3, <1>4, RoundGoesOn DEF Inv
<1>7. IdsOK' /\ RowsOK'
  BY <1>3 DEF Inv, IdsOK, RowsOK, CompletedIsPublished, AtMostThreeAttempts,
              BuriedOnce, BuriedOK, table, dead
<1>8. QED
  BY <1>5, <1>6, <1>7 DEF Inv

LEMMA UpdateAttemptInv ==
  ASSUME OneWorker, Inv, NEW w \in Workers, UpdateAttempt(w)
  PROVE  Inv'
<1>1. /\ cur[w] \in MessageCopies /\ cur[w].id \in Messages
      /\ cur[w].attempts \in Nat
  BY InHand DEF Attempting, UpdateAttempt
<1>2. TypeOK'
  BY <1>1 DEF Inv, TypeOK, MessageCopies, Graves, UpdateAttempt, dead, Goto
<1>3. IdsOK'
  BY OneWorker, <1>1 DEF OneWorker, Inv, TypeOK, IdsOK, UpdateAttempt, dead,
        Goto
<1>4. BatchOK'
  BY OneWorker, <1>1 DEF OneWorker, Inv, TypeOK, BatchOK, Fresh, Attempting,
        MessageCopies, UpdateAttempt, dead, Goto
<1>5. CurOK'
  BY OneWorker, <1>1 DEF OneWorker, Inv, TypeOK, BatchOK, CurOK, Fresh,
        Attempting, MessageCopies, UpdateAttempt, dead, Goto
<1>6. GravesOK'
  BY OneWorker, <1>1 DEF OneWorker, Inv, TypeOK, GravesOK, Resending,
        UpdateAttempt, dead, Goto
<1>7. RowsOK'
  BY <1>1 DEF Inv, TypeOK, RowsOK, CompletedIsPublished, AtMostThreeAttempts,
        BuriedOnce, BuriedOK, MaxRetryAttempts, CurOK, Fresh, Attempting,
        UpdateAttempt, dead, Goto
<1>8. QED
  BY <1>2, <1>3, <1>4, <1>5, <1>6, <1>7 DEF Inv

LEMMA SendInv ==
  ASSUME OneWorker, Inv, NEW w \in Workers, Send(w)
  PROVE  Inv'
<1>1. /\ cur[w] \in MessageCopies /\ cur[w].id \in Messages
      /\ cur[w].attempts \in Nat
  BY InHand DEF Attempting, Send
<1>2. /\ published' \in [Messages -> 0..MaxPublished]
      /\ published'[cur[w].id] > 0
      /\ \A n \in Messages : published[n] > 0 => published'[n] > 0
  BY <1>1, Counts DEF Inv, Send
<1>3. TypeOK'
  BY <1>1, <1>2 DEF Inv, TypeOK, MessageCopies, Graves, Send, table, dead,
        Goto
<1>4. IdsOK'
  BY OneWorker, <1>1, <1>2 DEF OneWorker, Inv, TypeOK, IdsOK, Send, table,
        dead, Goto
<1>5. BatchOK'
  BY OneWorker, <1>1, <1>2 DEF OneWorker, Inv, TypeOK, BatchOK, Fresh,
        Attempting, MessageCopies, Send, table, dead, Goto
<1>6. CurOK'
  BY OneWorker, <1>1, <1>2 DEF OneWorker, Inv, TypeOK, BatchOK, CurOK, Fresh,
        Attempting, MessageCopies, Send, table, dead, Goto
<1>7. GravesOK'
  BY OneWorker, <1>1, <1>2 DEF OneWorker, Inv, TypeOK, GravesOK, Resending,
        Send, table, dead, Goto
<1>8. RowsOK'
  BY <1>1, <1>2 DEF Inv, TypeOK, RowsOK, CompletedIsPublished,
        AtMostThreeAttempts, BuriedOnce, BuriedOK, MaxRetryAttempts, Send,
        table, dead, Goto
<1>9. QED
  BY <1>3, <1>4, <1>5, <1>6, <1>7, <1>8 DEF Inv

LEMMA SendFailsInv ==
  ASSUME OneWorker, Inv, NEW w \in Workers, SendFails(w)
  PROVE  Inv'
<1>1. /\ pc[w] = "send" /\ UNCHANGED <<table, dead, ids, graves>>
      /\ published' = published \/ Count(cur[w].id)
  BY DEF SendFails
<1>2. /\ cur[w] \in MessageCopies
      /\ cur[w].id \in Messages
      /\ batch[w] \in SUBSET MessageCopies
      /\ Fresh(batch[w], status, attempts)
  BY <1>1, InHand DEF Attempting
<1>3. /\ published' \in [Messages -> 0..MaxPublished]
      /\ \A n \in Messages : published[n] > 0 => published'[n] > 0
  BY <1>1, <1>2, Counts DEF Inv, TypeOK
<1>4. IdsOK' /\ RowsOK'
  BY <1>1, <1>3 DEF Inv, TypeOK, IdsOK, RowsOK, CompletedIsPublished,
                    AtMostThreeAttempts, BuriedOnce, BuriedOK, table, dead
<1>5. CASE Goto(w, "bury") /\ UNCHANGED <<cur, batch>>
  <2>1. TypeOK'
    BY <1>1, <1>3, <1>5 DEF Inv, TypeOK, Goto, table, dead
  <2>2. BatchOK'
    BY <1>1, <1>5, OneWorker DEF OneWorker, Inv, TypeOK, BatchOK, Attempting, Fresh,
                                 Goto, table
  <2>3. CurOK' /\ GravesOK'
    BY <1>1, <1>5, OneWorker DEF OneWorker, Inv, TypeOK, CurOK, GravesOK, Attempting,
                                 Resending, Goto, table
  <2>4. QED
    BY <1>4, <2>1, <2>2, <2>3 DEF Inv
<1>6. CASE NextMessage(w, batch[w])
  <2>1. Fresh(batch[w], status', attempts')
    BY <1>1, <1>2 DEF table
  <2>2. TypeOK'
    <3>1. TypeOK
      BY DEF Inv
    <3>2. QED
      BY <1>1, <1>2, <1>3, <1>6, <2>1, <3>1, TakesNext DEF TypeOK, table, dead
  <2>3. BatchOK' /\ CurOK' /\ GravesOK'
    BY <1>2, <1>6, <2>1, RoundGoesOn DEF Inv
  <2>4. QED
    BY <1>4, <2>2, <2>3 DEF Inv
<1>7. QED
  BY <1>5, <1>6 DEF SendFails

LEMMA CompleteInv ==
  ASSUME OneWorker, Inv, NEW w \in Workers, Complete(w)
  PROVE  Inv'
<1>1. /\ pc[w] = "complete" /\ SetStatus({cur[w].id}, "COMPLETED")
      /\ NextMessage(w, batch[w])
      /\ UNCHANGED <<attempts, cooling, dead, published, ids, graves>>
  BY DEF Complete
<1>2. /\ cur[w].id \in Messages
      /\ batch[w] \in SUBSET MessageCopies
      /\ Fresh(batch[w], status, attempts)
      /\ \A c \in batch[w] : c.id \in Messages /\ c.id # cur[w].id
  BY <1>1, InHand DEF Attempting
<1>3. status[cur[w].id] = "PROCESSING" /\ published[cur[w].id] > 0
  BY <1>1 DEF Inv, CurOK, Attempting
<1>4. Fresh(batch[w], status', attempts')
  BY <1>1, <1>2 DEF Fresh, SetStatus
<1>5. TypeOK'
  <2>1. TypeOK
    BY DEF Inv
  <2>2. QED
    BY <1>1, <1>2, <1>4, <2>1, TakesNext DEF TypeOK, SetStatus, dead
<1>6. BatchOK' /\ CurOK' /\ GravesOK'
  BY <1>1, <1>2, <1>4, RoundGoesOn DEF Inv
<1>7. IdsOK'
  BY <1>1, <1>3 DEF Inv, TypeOK, IdsOK, SetStatus
<1>8. RowsOK'
  BY <1>1, <1>3 DEF Inv, TypeOK, RowsOK, CompletedIsPublished, AtMostThreeAttempts,
                    BuriedOnce, BuriedOK, SetStatus, dead
<1>9. QED
  BY <1>5, <1>6, <1>7, <1>8 DEF Inv

LEMMA SaveDLQInv ==
  ASSUME OneWorker, Inv, NEW w \in Workers, SaveDLQ(w)
  PROVE  Inv'
<1>1. /\ cur[w] \in MessageCopies /\ cur[w].id \in Messages
      /\ cur[w].attempts \in Nat
  BY InHand DEF Attempting, SaveDLQ
<1>2. TypeOK'
  BY <1>1 DEF Inv, TypeOK, MessageCopies, Graves, SaveDLQ, table, dead, Goto
<1>3. IdsOK'
  BY OneWorker, <1>1 DEF OneWorker, Inv, TypeOK, IdsOK, SaveDLQ, table, dead,
        Goto
<1>4. BatchOK'
  BY OneWorker, <1>1 DEF OneWorker, Inv, TypeOK, BatchOK, Fresh, Attempting,
        MessageCopies, SaveDLQ, table, dead, Goto
<1>5. CurOK'
  BY OneWorker, <1>1 DEF OneWorker, Inv, TypeOK, BatchOK, CurOK, Fresh,
        Attempting, MessageCopies, SaveDLQ, table, dead, Goto
<1>6. GravesOK'
  BY OneWorker, <1>1 DEF OneWorker, Inv, TypeOK, GravesOK, Resending,
        SaveDLQ, table, dead, Goto
<1>7. RowsOK'
  BY <1>1 DEF Inv, TypeOK, RowsOK, CompletedIsPublished, AtMostThreeAttempts,
        BuriedOnce, BuriedOK, MaxRetryAttempts, SaveDLQ, table, dead, Goto
<1>8. QED
  BY <1>2, <1>3, <1>4, <1>5, <1>6, <1>7 DEF Inv

LEMMA MarkFailedInv ==
  ASSUME OneWorker, Inv, NEW w \in Workers, MarkFailed(w)
  PROVE  Inv'
<1>1. /\ cur[w] \in MessageCopies /\ cur[w].id \in Messages
      /\ cur[w].attempts \in Nat
  BY InHand DEF Attempting, MarkFailed
<1>2. TypeOK'
  BY <1>1 DEF Inv, TypeOK, MessageCopies, Graves, MarkFailed, dead, Goto,
        SetStatus
<1>3. IdsOK'
  BY OneWorker, <1>1 DEF OneWorker, Inv, TypeOK, IdsOK, CurOK, Attempting,
        MarkFailed, dead, Goto, SetStatus
<1>4. BatchOK'
  BY OneWorker, <1>1 DEF OneWorker, Inv, TypeOK, BatchOK, Fresh, Attempting,
        MessageCopies, MarkFailed, dead, Goto, SetStatus
<1>5. CurOK'
  BY OneWorker, <1>1 DEF OneWorker, Inv, TypeOK, BatchOK, CurOK, Fresh,
        Attempting, MessageCopies, RowsOK, BuriedOK, BuriedOnce, MarkFailed,
        dead, Goto, SetStatus
<1>6. GravesOK'
  BY OneWorker, <1>1 DEF OneWorker, Inv, TypeOK, GravesOK, Resending,
        MarkFailed, dead, Goto, SetStatus
<1>7. RowsOK'
  BY <1>1 DEF Inv, TypeOK, RowsOK, CompletedIsPublished, AtMostThreeAttempts,
        BuriedOnce, BuriedOK, MaxRetryAttempts, CurOK, Fresh, Attempting,
        MarkFailed, dead, Goto, SetStatus
<1>8. QED
  BY <1>2, <1>3, <1>4, <1>5, <1>6, <1>7 DEF Inv

LEMMA CommitDLQInv ==
  ASSUME OneWorker, Inv, NEW w \in Workers, CommitDLQ(w)
  PROVE  Inv'
<1>1. /\ pc[w] = "commit"
      /\ buried' = [buried EXCEPT ![cur[w].id] = @ + 1]
      /\ dlq' = dlq \cup {[id |-> cur[w].id, nr |-> buried'[cur[w].id],
                           tries |-> 0, due |-> FALSE]}
      /\ NextMessage(w, batch[w])
      /\ UNCHANGED <<table, published, ids, graves>>
  BY DEF CommitDLQ
<1>2. /\ cur[w].id \in Messages
      /\ batch[w] \in SUBSET MessageCopies
      /\ Fresh(batch[w], status, attempts)
  BY <1>1, InHand
<1>3. status[cur[w].id] = "FAILED" /\ buried[cur[w].id] = 0
  BY <1>1 DEF Inv, CurOK
<1>4. Fresh(batch[w], status', attempts')
  BY <1>1, <1>2 DEF table
<1>5. buried' \in [Messages -> Nat] /\ dlq' \subseteq Graves
  <2>1. buried' \in [Messages -> Nat] /\ buried'[cur[w].id] \in Nat
    BY <1>1, <1>2 DEF Inv, TypeOK
  <2>2. [id |-> cur[w].id, nr |-> buried'[cur[w].id], tries |-> 0, due |-> FALSE] \in Graves
    BY <1>2, <2>1 DEF Graves, DLQMaxRetries
  <2>3. QED
    BY <1>1, <2>1, <2>2 DEF Inv, TypeOK
<1>6. TypeOK'
  <2>1. TypeOK
    BY DEF Inv
  <2>2. QED
    BY <1>1, <1>2, <1>4, <1>5, <2>1, TakesNext DEF TypeOK, table
<1>7. BatchOK' /\ CurOK' /\ GravesOK'
  BY <1>1, <1>2, <1>4, RoundGoesOn DEF Inv
<1>8. IdsOK' /\ RowsOK'
  BY <1>1, <1>3 DEF Inv, TypeOK, IdsOK, RowsOK, CompletedIsPublished,
                    AtMostThreeAttempts, BuriedOnce, BuriedOK, table
<1>9. QED
  BY <1>6, <1>7, <1>8 DEF Inv

LEMMA FetchDeadInv ==
  ASSUME OneWorker, Inv, NEW w \in Workers, FetchDead(w)
  PROVE  Inv'
<1> DEFINE rows == {row \in dlq : row.due /\ row.tries < DLQMaxRetries}
<1>1. /\ pc[w] = "idle" /\ NextGrave(w, rows)
      /\ UNCHANGED <<table, dead, published, ids, batch>>
  BY DEF FetchDead
<1>2. rows \in SUBSET Graves /\ \A row \in rows : row.tries < DLQMaxRetries
  BY DEF Inv, TypeOK
<1> HIDE DEF rows
<1>3. TypeOK'
  <2>1. TypeOK
    BY DEF Inv
  <2>2. QED
    BY <1>1, <1>2, <2>1, TakesNextGrave DEF TypeOK, table, dead
<1>4. BatchOK' /\ CurOK' /\ GravesOK'
  BY <1>1, <1>2, ResendingGoesOn DEF Attempting
<1>5. IdsOK' /\ RowsOK'
  BY <1>1 DEF Inv, IdsOK, RowsOK, CompletedIsPublished, AtMostThreeAttempts,
              BuriedOnce, BuriedOK, table, dead
<1>6. QED
  BY <1>3, <1>4, <1>5 DEF Inv

LEMMA ResendInv ==
  ASSUME OneWorker, Inv, NEW w \in Workers, Resend(w)
  PROVE  Inv'
<1>1. cur[w] \in Graves /\ cur[w].id \in Messages
  BY GraveInHand DEF Resending, Resend
<1>2. /\ published' \in [Messages -> 0..MaxPublished]
      /\ \A n \in Messages : published[n] > 0 => published'[n] > 0
  BY <1>1, Counts DEF Inv, TypeOK, Resend
<1>3. TypeOK'
  BY <1>1, <1>2 DEF Inv, TypeOK, MessageCopies, Graves, Resend, table, dead,
        Goto
<1>4. IdsOK'
  BY OneWorker, <1>1, <1>2 DEF OneWorker, Inv, TypeOK, IdsOK, Resend, table,
        dead, Goto
<1>5. BatchOK'
  BY OneWorker, <1>1, <1>2 DEF OneWorker, Inv, TypeOK, BatchOK, Fresh,
        Attempting, MessageCopies, Resend, table, dead, Goto
<1>6. CurOK'
  BY OneWorker, <1>1, <1>2 DEF OneWorker, Inv, TypeOK, BatchOK, CurOK, Fresh,
        Attempting, MessageCopies, Resend, table, dead, Goto
<1>7. GravesOK'
  BY OneWorker, <1>1, <1>2 DEF OneWorker, Inv, TypeOK, GravesOK, Resending,
        Resend, table, dead, Goto
<1>8. RowsOK'
  BY <1>1, <1>2 DEF Inv, TypeOK, RowsOK, CompletedIsPublished,
        AtMostThreeAttempts, BuriedOnce, BuriedOK, MaxRetryAttempts, Resend,
        table, dead, Goto
<1>9. QED
  BY <1>3, <1>4, <1>5, <1>6, <1>7, <1>8 DEF Inv

LEMMA ResendFailsInv ==
  ASSUME OneWorker, Inv, NEW w \in Workers, ResendFails(w)
  PROVE  Inv'
<1>1. cur[w] \in Graves /\ cur[w].id \in Messages
  BY GraveInHand DEF Resending, ResendFails
<1>2. /\ published' \in [Messages -> 0..MaxPublished]
      /\ \A n \in Messages : published[n] > 0 => published'[n] > 0
  BY <1>1, Counts DEF Inv, TypeOK, ResendFails
<1>3. TypeOK'
  BY <1>1, <1>2 DEF Inv, TypeOK, MessageCopies, Graves, ResendFails, table,
        dead, Goto
<1>4. IdsOK'
  BY OneWorker, <1>1, <1>2 DEF OneWorker, Inv, TypeOK, IdsOK, ResendFails,
        table, dead, Goto
<1>5. BatchOK'
  BY OneWorker, <1>1, <1>2 DEF OneWorker, Inv, TypeOK, BatchOK, Fresh,
        Attempting, MessageCopies, ResendFails, table, dead, Goto
<1>6. CurOK'
  BY OneWorker, <1>1, <1>2 DEF OneWorker, Inv, TypeOK, BatchOK, CurOK, Fresh,
        Attempting, MessageCopies, ResendFails, table, dead, Goto
<1>7. GravesOK'
  BY OneWorker, <1>1, <1>2 DEF OneWorker, Inv, TypeOK, GravesOK, Resending,
        ResendFails, table, dead, Goto
<1>8. RowsOK'
  BY <1>1, <1>2 DEF Inv, TypeOK, RowsOK, CompletedIsPublished,
        AtMostThreeAttempts, BuriedOnce, BuriedOK, MaxRetryAttempts,
        ResendFails, table, dead, Goto
<1>9. QED
  BY <1>3, <1>4, <1>5, <1>6, <1>7, <1>8 DEF Inv

\* A step of ProcessDLQ that changes nothing but dlq, before the next row.
LEMMA GraveDoneInv ==
  ASSUME OneWorker, Inv, NEW w \in Workers, pc[w] \in {"retry", "delete"},
         dlq' \subseteq Graves, NextGrave(w, graves[w]),
         UNCHANGED <<table, published, buried, ids, batch>>
  PROVE  Inv'
<1>1. /\ graves[w] \in SUBSET Graves
      /\ \A row \in graves[w] : row.tries < DLQMaxRetries
  BY GraveInHand DEF Resending
<1>2. TypeOK'
  <2>1. TypeOK
    BY DEF Inv
  <2>2. QED
    BY <1>1, <2>1, TakesNextGrave DEF TypeOK, table
<1>3. BatchOK' /\ CurOK' /\ GravesOK'
  BY <1>1, ResendingGoesOn DEF Attempting
<1>4. IdsOK' /\ RowsOK'
  BY DEF Inv, IdsOK, RowsOK, CompletedIsPublished, AtMostThreeAttempts,
         BuriedOnce, BuriedOK, table
<1>5. QED
  BY <1>2, <1>3, <1>4 DEF Inv

LEMMA UpdateRetryInv ==
  ASSUME OneWorker, Inv, NEW w \in Workers, UpdateRetry(w)
  PROVE  Inv'
<1>1. cur[w].tries \in 0..DLQMaxRetries /\ cur[w].tries < DLQMaxRetries
  BY GraveInHand DEF UpdateRetry, Resending
<1>2. cur[w].tries + 1 \in 0..DLQMaxRetries
  BY <1>1 DEF DLQMaxRetries
<1>3. \A row \in dlq :
         row \in Graves /\ [row EXCEPT !.tries = cur[w].tries + 1, !.due = FALSE] \in Graves
  BY <1>2 DEF Inv, TypeOK, Graves
<1>4. dlq' \subseteq Graves
  BY <1>3 DEF UpdateRetry
<1>5. QED
  BY <1>4, GraveDoneInv DEF UpdateRetry

LEMMA DeleteDeadInv ==
  ASSUME OneWorker, Inv, NEW w \in Workers, DeleteDead(w)
  PROVE  Inv'
<1>1. dlq' \subseteq Graves
  BY DEF DeleteDead, Inv, TypeOK
<1>2. QED
  BY <1>1, GraveDoneInv DEF DeleteDead

\* A statement of phaseTwo fails, with or without effect on the counter, and
\* the worker goes on with the rest of the batch or gives up the round.
LEMMA RoundFailsInv ==
  ASSUME OneWorker, Inv, NEW w \in Workers, NEW b \in SUBSET MessageCopies,
         NextMessage(w, b), Fresh(b, status', attempts'),
         attempts' \in [Messages -> 0..MaxRetryAttempts], cooling' \subseteq Messages,
         UNCHANGED <<status, dead, published, ids, graves>>
  PROVE  Inv'
<1>1. TypeOK'
  <2>1. TypeOK
    BY DEF Inv
  <2>2. attempts' \in [Messages -> Nat]
    BY DEF MaxRetryAttempts
  <2>3. QED
    BY <2>1, <2>2, TakesNext DEF TypeOK, dead
<1>2. BatchOK' /\ CurOK' /\ GravesOK'
  BY RoundGoesOn DEF Inv
<1>3. IdsOK' /\ RowsOK'
  BY DEF Inv, TypeOK, IdsOK, RowsOK, CompletedIsPublished, AtMostThreeAttempts,
         BuriedOnce, BuriedOK, dead
<1>4. QED
  BY <1>1, <1>2, <1>3 DEF Inv

LEMMA DbFailsInv ==
  ASSUME OneWorker, Inv, NEW w \in Workers, DbFails(w)
  PROVE  Inv'
<1>1. attempts \in [Messages -> 0..MaxRetryAttempts] /\ cooling \subseteq Messages
  BY DEF Inv, TypeOK, RowsOK, AtMostThreeAttempts, MaxRetryAttempts
<1>2. CASE /\ pc[w] \in {"idle", "set"}
           /\ Goto(w, "fetch")
           /\ ids' = [ids EXCEPT ![w] = {}]
           /\ UNCHANGED <<status, dead, published, attempts, cooling, batch, cur, graves>>
  <2>1. TypeOK'
    BY <1>2 DEF Inv, TypeOK, Goto, dead
  <2>2. IdsOK' /\ RowsOK'
    BY <1>2 DEF Inv, TypeOK, IdsOK, RowsOK, CompletedIsPublished, AtMostThreeAttempts,
                BuriedOnce, BuriedOK, dead
  <2>3. BatchOK' /\ CurOK' /\ GravesOK'
    BY <1>2, OneWorker DEF OneWorker, Inv, TypeOK, BatchOK, CurOK, GravesOK, Fresh,
                           Attempting, Resending, Goto
  <2>4. QED
    BY <2>1, <2>2, <2>3 DEF Inv
<1>3. CASE /\ pc[w] = "fetch"
           /\ NextMessage(w, {})
           /\ UNCHANGED <<status, dead, published, attempts, cooling, ids, graves>>
  <2>1. Fresh({}, status', attempts')
    BY DEF Fresh
  <2>2. QED
    BY <1>1, <1>3, <2>1, RoundFailsInv
<1>4. CASE /\ pc[w] \in Attempting \cup {"commit"}
           /\ NextMessage(w, batch[w])
           /\ UNCHANGED <<status, dead, published, attempts, cooling, ids, graves>>
  <2>1. batch[w] \in SUBSET MessageCopies /\ Fresh(batch[w], status', attempts')
    BY <1>4, InHand
  <2>2. QED
    BY <1>1, <1>4, <2>1, RoundFailsInv
<1>5. CASE /\ pc[w] = "attempt"
           /\ attempts' = [attempts EXCEPT ![cur[w].id] = @ + 1]
           /\ cooling' = cooling \cup {cur[w].id}
           /\ NextMessage(w, batch[w])
           /\ UNCHANGED <<status, dead, published, ids, graves>>
  <2>1. /\ cur[w].id \in Messages
        /\ batch[w] \in SUBSET MessageCopies
        /\ Fresh(batch[w], status, attempts)
        /\ \A c \in batch[w] : c.id \in Messages /\ c.id # cur[w].id
    BY <1>5, InHand DEF Attempting
  <2>2. Fresh(batch[w], status', attempts')
    BY <1>1, <1>5, <2>1 DEF Fresh
  <2>3. attempts[cur[w].id] < MaxRetryAttempts
    BY <1>5 DEF Inv, CurOK, Fresh
  <2>4. attempts' \in [Messages -> 0..MaxRetryAttempts] /\ cooling' \subseteq Messages
    BY <1>1, <1>5, <2>1, <2>3 DEF MaxRetryAttempts
  <2>5. QED
    BY <1>5, <2>1, <2>2, <2>4, RoundFailsInv
<1>6. CASE /\ pc[w] \in {"retry", "delete"}
           /\ NextGrave(w, graves[w])
           /\ UNCHANGED <<status, dead, published, attempts, cooling, ids, batch>>
  <2>1. dlq' \subseteq Graves
    BY <1>6 DEF Inv, TypeOK, dead
  <2>2. UNCHANGED <<table, published, buried, ids, batch>>
    BY <1>6 DEF table, dead
  <2>3. QED
    BY <1>6, <2>1, <2>2, GraveDoneInv
<1>7. QED
  BY <1>2, <1>3, <1>4, <1>5, <1>6 DEF DbFails, Attempting

LEMMA CrashInv ==
  ASSUME OneWorker, Inv, NEW w \in Workers, Crash(w)
  PROVE  Inv'
<1>1. TypeOK'
  BY DEF Inv, TypeOK, MessageCopies, Graves, Crash, table, dead, Goto
<1>2. IdsOK'
  BY OneWorker DEF OneWorker, Inv, TypeOK, IdsOK, Crash, table, dead, Goto
<1>3. BatchOK'
  BY OneWorker DEF OneWorker, Inv, TypeOK, BatchOK, Fresh, Attempting,
        MessageCopies, Crash, table, dead, Goto
<1>4. CurOK'
  BY OneWorker DEF OneWorker, Inv, TypeOK, BatchOK, CurOK, Fresh, Attempting,
        MessageCopies, Crash, table, dead, Goto
<1>5. GravesOK'
  BY OneWorker DEF OneWorker, Inv, TypeOK, GravesOK, Resending, Crash, table,
        dead, Goto
<1>6. RowsOK'
  BY DEF Inv, TypeOK, RowsOK, CompletedIsPublished, AtMostThreeAttempts,
        BuriedOnce, BuriedOK, MaxRetryAttempts, Crash, table, dead, Goto
<1>7. QED
  BY <1>1, <1>2, <1>3, <1>4, <1>5, <1>6 DEF Inv

LEMMA NextInv ==
  ASSUME OneWorker, Inv, [Next]_vars
  PROVE  Inv'
<1>1. CASE UNCHANGED vars
  BY <1>1 DEF vars, Inv, TypeOK, IdsOK, BatchOK, CurOK, GravesOK, RowsOK, Fresh,
              CompletedIsPublished, AtMostThreeAttempts, BuriedOnce, BuriedOK
<1>2. CASE \E m \in Messages : Arrive(m) \/ CoolDown(m)
  BY <1>2, ArriveInv, CoolDownInv
<1>3. CASE \E row \in dlq : GraveIsDue(row)
  BY <1>3, GraveIsDueInv
<1>4. ASSUME NEW w \in Workers, Work(w)
      PROVE  Inv'
  BY <1>4, TakePendingInv, SetProcessingInv, FetchProcessingInv, UpdateAttemptInv,
     SendInv, CompleteInv, SaveDLQInv, MarkFailedInv, CommitDLQInv, FetchDeadInv,
     ResendInv, UpdateRetryInv, DeleteDeadInv DEF Work
<1>5. ASSUME NEW w \in Workers,
             SendFails(w) \/ ResendFails(w) \/ DbFails(w) \/ Crash(w)
      PROVE  Inv'
  BY <1>5, SendFailsInv, ResendFailsInv, DbFailsInv, CrashInv
<1>6. QED
  BY <1>1, <1>2, <1>3, <1>4, <1>5 DEF Next

-----------------------------------------------------------------------------
(* The theorems.                                                           *)

\* The invariant holds at every moment, whatever fails: phaseOne holds ids of
\* rows that are still CREATED, phaseTwo copies of rows that are still
\* PROCESSING, and a row of dlq belongs to a message that was given up.
THEOREM InvHolds ==
  ASSUME OneWorker
  PROVE  Spec => []Inv
<1>1. Init => Inv
  BY InitInv
<1>2. Inv /\ [Next]_vars => Inv'
  BY NextInv
<1>3. QED
  BY <1>1, <1>2, PTL DEF Spec

\* Every variable keeps its type.
THEOREM TypeCorrect ==
  ASSUME OneWorker
  PROVE  Spec => []TypeOK
<1>1. Inv => TypeOK
  BY DEF Inv
<1>2. QED
  BY <1>1, InvHolds, PTL

\* UpdateStatus(COMPLETED) is reached only behind a Send that went well, and
\* no crash and no failing statement lets a worker mark another row.
THEOREM NothingIsLostUnsent ==
  ASSUME OneWorker
  PROVE  Spec => []CompletedIsPublished
<1>1. Inv => CompletedIsPublished
  BY DEF Inv, RowsOK
<1>2. QED
  BY <1>1, InvHolds, PTL

\* The counter that UpdateAttempt increments before the send stays within
\* the limit that GetProcessingMessages has read a round earlier.
THEOREM AttemptsAreBounded ==
  ASSUME OneWorker
  PROVE  Spec => []AtMostThreeAttempts
<1>1. Inv => AtMostThreeAttempts
  BY DEF Inv, RowsOK
<1>2. QED
  BY <1>1, InvHolds, PTL

\* moveToDLQ inserts a message at most once, although the INSERT and the
\* status FAILED are not one transaction: it is the status that commits first.
THEOREM NobodyIsBuriedTwice ==
  ASSUME OneWorker
  PROVE  Spec => []BuriedOnce
<1>1. Inv => BuriedOnce
  BY DEF Inv, RowsOK
<1>2. QED
  BY <1>1, InvHolds, PTL

\* Only rows that were CREATED or PROCESSING when a statement ran are changed
\* by it.
LEMMA NextKeepsFinal ==
  ASSUME OneWorker, Inv, [Next]_vars,
         NEW m \in Messages, status[m] \in {"COMPLETED", "FAILED"}
  PROVE  status'[m] = status[m]
<1>1. status \in [Messages -> {"NONE", "CREATED", "PROCESSING", "COMPLETED", "FAILED"}]
  BY DEF Inv, TypeOK
<1>2. CASE \E n \in Messages : Arrive(n)
  BY <1>1, <1>2 DEF Arrive
<1>3. ASSUME NEW w \in Workers, SetProcessing(w)
      PROVE  status'[m] = status[m]
  BY <1>1, <1>3 DEF SetProcessing, SetStatus, Inv, IdsOK
<1>4. ASSUME NEW w \in Workers, Complete(w)
      PROVE  status'[m] = status[m]
  BY <1>1, <1>4 DEF Complete, SetStatus, Inv, CurOK, Attempting
<1>5. ASSUME NEW w \in Workers, MarkFailed(w)
      PROVE  status'[m] = status[m]
  BY <1>1, <1>5 DEF MarkFailed, SetStatus, Inv, CurOK, Attempting
<1>6. ASSUME NEW w \in Workers,
             \/ TakePending(w) \/ FetchProcessing(w) \/ UpdateAttempt(w) \/ Send(w)
             \/ SaveDLQ(w) \/ CommitDLQ(w) \/ FetchDead(w) \/ Resend(w)
             \/ UpdateRetry(w) \/ DeleteDead(w)
             \/ SendFails(w) \/ ResendFails(w) \/ DbFails(w) \/ Crash(w)
      PROVE  status'[m] = status[m]
  BY <1>6 DEF TakePending, FetchProcessing, UpdateAttempt, Send, SaveDLQ, CommitDLQ,
              FetchDead, Resend, UpdateRetry, DeleteDead, SendFails, ResendFails,
              DbFails, Crash, table
<1>7. CASE \/ \E n \in Messages : CoolDown(n)
           \/ \E row \in dlq : GraveIsDue(row)
           \/ UNCHANGED vars
  BY <1>7 DEF CoolDown, GraveIsDue, table, vars
<1>8. QED
  BY <1>2, <1>3, <1>4, <1>5, <1>6, <1>7 DEF Next, Work

\* phaseOne, phaseTwo and moveToDLQ update by id and without a condition, and
\* still no statement reopens a row that is finished.
THEOREM FinishedIsFinal ==
  ASSUME OneWorker
  PROVE  Spec => FinalStatusStays
<1>1. Inv /\ [Next]_vars =>
        [\A m \in Messages : status[m] \in {"COMPLETED", "FAILED"}
                                => status'[m] = status[m]]_vars
  BY NextKeepsFinal
<1>2. QED
  BY <1>1, InvHolds, PTL DEF Spec, FinalStatusStays

-----------------------------------------------------------------------------
(* While the database answers and the process lives, dlq loses nothing.    *)

NoCrash == Faults \cap {"db", "crash"} = {}

\* A row of dlq is deleted only behind a Send that went well.
SentOK == \A w \in Workers : pc[w] = "delete" => published[cur[w].id] > 0

\* What was in the topic stays there.
LEMMA PublishedStays ==
  ASSUME OneWorker, Inv, [Next]_vars
  PROVE  \A m \in Messages : published[m] > 0 => published'[m] > 0
<1>1. CASE UNCHANGED published
  BY <1>1
<1>2. ASSUME NEW w \in Workers, Count(cur[w].id), cur[w].id \in Messages
      PROVE  \A m \in Messages : published[m] > 0 => published'[m] > 0
  BY <1>2, Counts DEF Inv
<1>3. ASSUME NEW w \in Workers, Send(w) \/ SendFails(w)
      PROVE  UNCHANGED published \/ (Count(cur[w].id) /\ cur[w].id \in Messages)
  <2>1. pc[w] \in Attempting /\ (UNCHANGED published \/ Count(cur[w].id))
    BY <1>3 DEF Send, SendFails, Attempting
  <2>2. QED
    BY <2>1, InHand
<1>4. ASSUME NEW w \in Workers, Resend(w) \/ ResendFails(w)
      PROVE  UNCHANGED published \/ (Count(cur[w].id) /\ cur[w].id \in Messages)
  <2>1. pc[w] \in Resending /\ (UNCHANGED published \/ Count(cur[w].id))
    BY <1>4 DEF Resend, ResendFails, Resending
  <2>2. QED
    BY <2>1, GraveInHand
<1>5. CASE \/ \E m \in Messages : Arrive(m) \/ CoolDown(m)
           \/ \E row \in dlq : GraveIsDue(row)
           \/ UNCHANGED vars
  BY <1>5, <1>1 DEF Arrive, CoolDown, GraveIsDue, vars
<1>6. ASSUME NEW w \in Workers,
             \/ TakePending(w) \/ SetProcessing(w) \/ FetchProcessing(w)
             \/ UpdateAttempt(w) \/ Complete(w) \/ SaveDLQ(w) \/ MarkFailed(w)
             \/ CommitDLQ(w) \/ FetchDead(w) \/ UpdateRetry(w) \/ DeleteDead(w)
             \/ DbFails(w) \/ Crash(w)
      PROVE  UNCHANGED published
  BY <1>6 DEF TakePending, SetProcessing, FetchProcessing, UpdateAttempt, Complete,
              SaveDLQ, MarkFailed, CommitDLQ, FetchDead, UpdateRetry, DeleteDead,
              DbFails, Crash
<1>7. QED
  BY <1>1, <1>2, <1>3, <1>4, <1>5, <1>6 DEF Next, Work

\* Actions that give up no message, take nothing out of dlq and are not those
\* of a worker that is about to commit.
LEMMA KeepsWhatIsKept ==
  ASSUME OneWorker, FailedIsKept, NEW w \in Workers, pc[w] # "commit",
         \A m \in Messages : published[m] > 0 => published'[m] > 0,
         \A m \in Messages : status'[m] = "FAILED" => status[m] = "FAILED",
         \A row \in dlq : published'[row.id] > 0 \/ \E r \in dlq' : r.id = row.id
  PROVE  FailedIsKept'
BY DEF OneWorker, FailedIsKept

LEMMA NextKeepsFailed ==
  ASSUME OneWorker, NoCrash, Inv, FailedIsKept, SentOK, [Next]_vars
  PROVE  FailedIsKept' /\ SentOK'
<1>1. \A m \in Messages : published[m] > 0 => published'[m] > 0
  BY PublishedStays
<1>2. CASE \/ \E m \in Messages : Arrive(m) \/ CoolDown(m)
           \/ UNCHANGED vars
  BY <1>2 DEF Inv, TypeOK, Arrive, CoolDown, dead, locals, vars, FailedIsKept, SentOK
<1>3. ASSUME NEW row \in dlq, GraveIsDue(row)
      PROVE  FailedIsKept' /\ SentOK'
  <2>1. dlq \subseteq Graves /\ UNCHANGED <<table, published, buried, locals>>
    BY <1>3 DEF Inv, TypeOK, GraveIsDue
  <2>2. [row EXCEPT !.due = TRUE].id = row.id /\ [row EXCEPT !.due = TRUE] \in dlq'
    BY <1>3, <2>1 DEF GraveIsDue, Graves
  <2>3. \A r \in dlq : \E s \in dlq' : s.id = r.id
    BY <1>3, <2>2 DEF GraveIsDue
  <2>4. QED
    BY <2>1, <2>3 DEF table, locals, FailedIsKept, SentOK
<1>4. ASSUME NEW w \in Workers,
             \/ TakePending(w) \/ SetProcessing(w) \/ UpdateAttempt(w) \/ SaveDLQ(w)
             \/ ResendFails(w) \/ Send(w) \/ Resend(w)
      PROVE  FailedIsKept' /\ SentOK'
  <2>1. pc[w] # "commit" /\ UNCHANGED dead
    BY <1>4 DEF TakePending, SetProcessing, UpdateAttempt, SaveDLQ, ResendFails, Send,
                Resend
  <2>2. \A m \in Messages : status'[m] = "FAILED" => status[m] = "FAILED"
    BY <1>4 DEF TakePending, SetProcessing, SetStatus, UpdateAttempt, SaveDLQ,
                ResendFails, Send, Resend, table
  <2>3. FailedIsKept'
    BY <1>1, <2>1, <2>2, KeepsWhatIsKept DEF dead
  <2>4. CASE ~Resend(w)
    <3>1. pc'[w] # "delete"
      BY <1>4, <2>4 DEF TakePending, SetProcessing, UpdateAttempt, SaveDLQ, ResendFails,
                        Send, Goto, Inv, TypeOK
    <3>2. QED
      BY <2>3, <3>1 DEF OneWorker, SentOK
  <2>5. CASE Resend(w)
    <3>1. cur[w].id \in Messages /\ cur' = cur /\ Count(cur[w].id)
      BY <2>5, GraveInHand DEF Resend, Resending
    <3>2. published'[cur'[w].id] > 0
      BY <3>1, Counts DEF Inv
    <3>3. QED
      BY <2>3, <3>2 DEF OneWorker, SentOK
  <2>6. QED
    BY <2>4, <2>5
<1>5. ASSUME NEW w \in Workers, FetchProcessing(w) \/ SendFails(w) \/ Complete(w)
      PROVE  FailedIsKept' /\ SentOK'
  <2>1. pc[w] # "commit" /\ UNCHANGED dead
    BY <1>5 DEF FetchProcessing, SendFails, Complete
  <2>2. \A m \in Messages : status'[m] = "FAILED" => status[m] = "FAILED"
    BY <1>5 DEF FetchProcessing, SendFails, Complete, SetStatus, table
  <2>3. pc'[w] # "delete"
    BY <1>5 DEF FetchProcessing, SendFails, Complete, NextMessage, Goto, Inv, TypeOK
  <2>4. FailedIsKept'
    BY <1>1, <2>1, <2>2, KeepsWhatIsKept DEF dead
  <2>5. QED
    BY <2>3, <2>4 DEF OneWorker, SentOK
<1>6. ASSUME NEW w \in Workers, MarkFailed(w)
      PROVE  FailedIsKept' /\ SentOK'
  BY <1>6 DEF MarkFailed, SetStatus, Goto, dead, Inv, TypeOK, OneWorker, FailedIsKept,
              SentOK
<1>7. ASSUME NEW w \in Workers, CommitDLQ(w)
      PROVE  FailedIsKept' /\ SentOK'
  <2>1. UNCHANGED <<status, published>>
    BY <1>7 DEF CommitDLQ, table
  <2>2. \E row \in dlq' : row.id = cur[w].id
    <3> DEFINE new == [id |-> cur[w].id, nr |-> buried'[cur[w].id], tries |-> 0, due |-> FALSE]
    <3>1. new \in dlq'
      BY <1>7 DEF CommitDLQ
    <3>2. new.id = cur[w].id
      OBVIOUS
    <3>3. QED
      BY <3>1, <3>2
  <2>3. dlq \subseteq dlq' /\ pc'[w] # "delete"
    BY <1>7 DEF CommitDLQ, NextMessage, Goto, Inv, TypeOK
  <2>4. QED
    BY <2>1, <2>2, <2>3 DEF OneWorker, FailedIsKept, SentOK
<1>8. ASSUME NEW w \in Workers, FetchDead(w) \/ UpdateRetry(w) \/ DeleteDead(w)
      PROVE  FailedIsKept' /\ SentOK'
  <2>1. pc[w] # "commit" /\ UNCHANGED <<status, published>>
    BY <1>8 DEF FetchDead, UpdateRetry, DeleteDead, table
  <2>2. pc'[w] # "delete"
    BY <1>8 DEF FetchDead, UpdateRetry, DeleteDead, NextGrave, Goto, Inv, TypeOK
  <2>3. \A row \in dlq : published'[row.id] > 0 \/ \E r \in dlq' : r.id = row.id
    <3>1. CASE FetchDead(w)
      BY <3>1 DEF FetchDead, dead
    <3>2. CASE UpdateRetry(w)
      <4>1. SUFFICES ASSUME NEW row \in dlq PROVE \E r \in dlq' : r.id = row.id
        OBVIOUS
      <4>2. [row EXCEPT !.tries = cur[w].tries + 1, !.due = FALSE].id = row.id
        BY DEF Inv, TypeOK, Graves
      <4>3. QED
        BY <3>2, <4>2 DEF UpdateRetry
    <3>3. CASE DeleteDead(w)
      BY <3>3, <2>1 DEF DeleteDead, SameRow, SentOK
    <3>4. QED
      BY <1>8, <3>1, <3>2, <3>3
  <2>4. FailedIsKept'
    BY <1>1, <2>1, <2>3, KeepsWhatIsKept
  <2>5. QED
    BY <2>2, <2>4 DEF OneWorker, SentOK
<1>9. ASSUME NEW w \in Workers, DbFails(w) \/ Crash(w)
      PROVE  FALSE
  BY <1>9 DEF DbFails, Crash, NoCrash
<1>10. QED
  BY <1>2, <1>3, <1>4, <1>5, <1>6, <1>7, <1>8, <1>9 DEF Next, Work

\* A message that was given up is in the topic or in dlq: with a broker that
\* fails, even with its replies lost, but with a database and a process that
\* do not, the dead letter queue drops no row before its event is sent.
THEOREM GivenUpIsKept ==
  ASSUME OneWorker, NoCrash
  PROVE  Spec => []FailedIsKept
<1>1. Init => FailedIsKept /\ SentOK
  BY DEF Init, FailedIsKept, SentOK
<1>2. Inv /\ FailedIsKept /\ SentOK /\ [Next]_vars => (FailedIsKept /\ SentOK)'
  BY NextKeepsFailed
<1>3. QED
  BY <1>1, <1>2, InvHolds, PTL DEF Spec

-----------------------------------------------------------------------------
(* With no fault but a broker that refuses a message, nobody is told twice. *)

OnlyKafka == Faults \subseteq {"kafka"}

\* What is in the topic is finished, or about to be COMPLETED.
PublishedOK ==
    \A m \in Messages : published[m] > 0 =>
        \/ status[m] \in {"COMPLETED", "FAILED"}
        \/ /\ status[m] = "PROCESSING"
           /\ \E w \in Workers : pc[w] = "complete" /\ cur[w].id = m

\* What is in dlq is not in the topic, or about to be deleted.
UnsentOK ==
    /\ \A row \in dlq :
          /\ row.nr = 1 /\ buried[row.id] > 0
          /\ published[row.id] > 0 =>
                \E w \in Workers : pc[w] = "delete" /\ cur[w].id = row.id
    /\ \A r, s \in dlq : r.id = s.id => r = s
    /\ \A w \in Workers : pc[w] = "commit" => published[cur[w].id] = 0

\* What ProcessDLQ has read is one row of each message, none of them sent.
TakenOK ==
    \A w \in Workers : pc[w] \in Resending =>
        /\ cur[w].nr = 1 /\ buried[cur[w].id] > 0
        /\ pc[w] # "delete" => published[cur[w].id] = 0
        /\ \A row \in graves[w] :
              /\ row.nr = 1 /\ buried[row.id] > 0
              /\ published[row.id] = 0 /\ row.id # cur[w].id
        /\ \A r, s \in graves[w] : r.id = s.id => r = s

OnceInv == PublishedOnce /\ PublishedOK /\ UnsentOK /\ TakenOK

\* The first publication is counted as one.
LEMMA CountsOne ==
  ASSUME TypeOK, NEW m \in Messages, Count(m), published[m] = 0
  PROVE  published' = [published EXCEPT ![m] = 1]
<1>1. MaxPublished \in Nat \ {0} /\ published \in [Messages -> 0..MaxPublished]
  BY RelayAssumption DEF TypeOK
<1>2. (IF published[m] < MaxPublished THEN published[m] + 1 ELSE published[m]) = 1
  BY <1>1
<1>3. published' = [published EXCEPT ![m] =
                     IF published[m] < MaxPublished THEN published[m] + 1 ELSE published[m]]
  BY DEF Count
<1>4. QED
  BY <1>2, <1>3

\* Actions behind which the worker is in phaseTwo, or nowhere.
LEMMA OutsideDLQ ==
  ASSUME OneWorker, OnceInv, NEW w \in Workers,
         pc[w] \notin {"complete", "delete"}, UNCHANGED <<published, dead>>,
         pc'[w] \notin Resending \cup {"complete", "commit"},
         \A m \in Messages : status'[m] = status[m] \/ published[m] = 0
  PROVE  OnceInv'
<1>1. \A v \in Workers : v = w
  BY DEF OneWorker
<1>2. PublishedOnce' /\ PublishedOK'
  BY <1>1 DEF OnceInv, PublishedOnce, PublishedOK
<1>3. UnsentOK' /\ TakenOK'
  BY <1>1 DEF OnceInv, UnsentOK, TakenOK, dead
<1>4. QED
  BY <1>2, <1>3 DEF OnceInv

\* What ProcessDLQ reads while nothing is on its way is unsent.
LEMMA TakenNext ==
  ASSUME OneWorker, Inv, NEW w \in Workers, NEW g \in SUBSET Graves,
         NextGrave(w, g), \A r, s \in g : r.id = s.id => r = s,
         \A row \in g : row.nr = 1 /\ buried'[row.id] > 0 /\ published'[row.id] = 0
  PROVE  TakenOK' /\ pc'[w] \in {"idle", "resend"}
<1>1. \A v \in Workers : v = w
  BY DEF OneWorker
<1>2. CASE g = {}
  <2>1. pc'[w] = "idle"
    BY <1>2 DEF NextGrave, Goto, Inv, TypeOK
  <2>2. QED
    BY <1>1, <2>1 DEF TakenOK, Resending
<1>3. CASE g # {}
  <2>1. PICK row \in g : /\ pc' = [pc EXCEPT ![w] = "resend"]
                         /\ cur' = [cur EXCEPT ![w] = row]
                         /\ graves' = [graves EXCEPT ![w] = g \ {row}]
    BY <1>3, Zenon DEF NextGrave, Goto
  <2>2. pc'[w] = "resend" /\ cur'[w] = row /\ graves'[w] = g \ {row}
    BY <2>1 DEF Inv, TypeOK
  <2>3. QED
    BY <1>1, <2>2 DEF TakenOK
<1>4. QED
  BY <1>2, <1>3

LEMMA NextPublishesOnce ==
  ASSUME OneWorker, OnlyKafka, Inv, OnceInv, [Next]_vars
  PROVE  OnceInv'
<1>1. published \in [Messages -> 0..MaxPublished]
  BY DEF Inv, TypeOK
<1>2. ASSUME NEW m \in Messages, Arrive(m)
      PROVE  OnceInv'
  <2>1. published[m] = 0
    BY <1>1, <1>2 DEF Arrive, OnceInv, PublishedOK
  <2>2. PublishedOnce' /\ PublishedOK'
    BY <1>1, <1>2, <2>1 DEF Inv, TypeOK, Arrive, OnceInv, PublishedOnce, PublishedOK, locals
  <2>3. UnsentOK' /\ TakenOK'
    BY <1>2 DEF Arrive, OnceInv, UnsentOK, TakenOK, dead, locals
  <2>4. QED
    BY <2>2, <2>3 DEF OnceInv
<1>3. CASE (\E m \in Messages : CoolDown(m)) \/ UNCHANGED vars
  BY <1>3 DEF CoolDown, OnceInv, PublishedOnce, PublishedOK, UnsentOK, TakenOK, dead,
              locals, vars
<1>4. ASSUME NEW row \in dlq, GraveIsDue(row)
      PROVE  OnceInv'
  <2> DEFINE new == [row EXCEPT !.due = TRUE]
  <2>1. /\ dlq' = (dlq \ {row}) \cup {new}
        /\ UNCHANGED <<table, published, buried, locals>>
    BY <1>4 DEF GraveIsDue
  <2>2. new.id = row.id /\ new.nr = row.nr
    BY DEF Inv, TypeOK, Graves
  <2> HIDE DEF new
  <2>3. UnsentOK'
    BY <2>1, <2>2 DEF OnceInv, UnsentOK, locals
  <2>4. QED
    BY <2>1, <2>3 DEF OnceInv, PublishedOnce, PublishedOK, TakenOK, table, locals
<1>5. ASSUME NEW w \in Workers,
             TakePending(w) \/ SetProcessing(w) \/ FetchProcessing(w) \/ UpdateAttempt(w)
             \/ SaveDLQ(w) \/ SendFails(w)
      PROVE  OnceInv'
  <2>1. pc[w] \notin {"complete", "delete"}
    BY <1>5 DEF TakePending, SetProcessing, FetchProcessing, UpdateAttempt, SaveDLQ,
                SendFails
  <2>2. UNCHANGED <<published, dead>>
    BY <1>5 DEF TakePending, SetProcessing, FetchProcessing, UpdateAttempt, SaveDLQ,
                SendFails, OnlyKafka
  <2>3. pc'[w] \notin Resending \cup {"complete", "commit"}
    BY <1>5 DEF TakePending, SetProcessing, FetchProcessing, UpdateAttempt, SaveDLQ,
                SendFails, NextMessage, Goto, Resending, Inv, TypeOK
  <2>4. \A m \in Messages : status'[m] = status[m] \/ published[m] = 0
    <3>1. CASE SetProcessing(w)
      BY <1>1, <3>1 DEF SetProcessing, SetStatus, Inv, IdsOK, OnceInv, PublishedOK
    <3>2. CASE ~SetProcessing(w)
      BY <1>5, <3>2 DEF TakePending, FetchProcessing, UpdateAttempt, SaveDLQ, SendFails,
                        table
    <3>3. QED
      BY <3>1, <3>2
  <2>5. QED
    BY <2>1, <2>2, <2>3, <2>4, OutsideDLQ
<1>6. ASSUME NEW w \in Workers, Send(w)
      PROVE  OnceInv'
  <2>1. /\ pc[w] = "send" /\ Count(cur[w].id) /\ pc' = [pc EXCEPT ![w] = "complete"]
        /\ UNCHANGED <<table, dead, cur>>
    BY <1>6 DEF Send, Goto
  <2>2. /\ cur[w].id \in Messages /\ status[cur[w].id] = "PROCESSING"
        /\ \A v \in Workers : v = w
    BY <2>1, InHand DEF Inv, CurOK, Attempting, OneWorker
  <2>3. published[cur[w].id] = 0
    BY <1>1, <2>1, <2>2 DEF OnceInv, PublishedOK
  <2>4. published' = [published EXCEPT ![cur[w].id] = 1]
    BY <2>1, <2>2, <2>3, CountsOne DEF Inv
  <2>5. pc'[w] = "complete"
    BY <2>1 DEF Inv, TypeOK
  <2>6. PublishedOnce' /\ PublishedOK'
    BY <1>1, <2>1, <2>2, <2>4, <2>5 DEF OnceInv, PublishedOnce, PublishedOK, table
  <2>7. \A row \in dlq : row.id # cur[w].id /\ row.id \in Messages
    BY <2>2 DEF OnceInv, UnsentOK, Inv, TypeOK, RowsOK, BuriedOK, Graves
  <2>8. UnsentOK' /\ TakenOK'
    BY <1>1, <2>1, <2>2, <2>4, <2>5, <2>7
       DEF OnceInv, UnsentOK, TakenOK, Resending, dead
  <2>9. QED
    BY <2>6, <2>8 DEF OnceInv
<1>7. ASSUME NEW w \in Workers, Complete(w)
      PROVE  OnceInv'
  <2>1. /\ pc[w] = "complete" /\ SetStatus({cur[w].id}, "COMPLETED")
        /\ UNCHANGED <<dead, published>> /\ \A v \in Workers : v = w
    BY <1>7 DEF Complete, OneWorker
  <2>2. pc'[w] \in {"idle", "attempt"}
    BY <1>7 DEF Complete, NextMessage, Goto, Inv, TypeOK
  <2>3. PublishedOnce' /\ PublishedOK'
    BY <1>1, <2>1 DEF OnceInv, PublishedOnce, PublishedOK, SetStatus
  <2>4. UnsentOK' /\ TakenOK'
    BY <2>1, <2>2 DEF OnceInv, UnsentOK, TakenOK, Resending, dead
  <2>5. QED
    BY <2>3, <2>4 DEF OnceInv
<1>8. ASSUME NEW w \in Workers, MarkFailed(w)
      PROVE  OnceInv'
  <2>1. /\ pc[w] = "mark" /\ SetStatus({cur[w].id}, "FAILED")
        /\ pc' = [pc EXCEPT ![w] = "commit"]
        /\ UNCHANGED <<dead, published, cur>>
    BY <1>8 DEF MarkFailed, Goto
  <2>2. /\ cur[w].id \in Messages /\ status[cur[w].id] = "PROCESSING"
        /\ \A v \in Workers : v = w
    BY <2>1, InHand DEF Inv, CurOK, Attempting, OneWorker
  <2>3. published[cur[w].id] = 0
    BY <1>1, <2>1, <2>2 DEF OnceInv, PublishedOK
  <2>4. pc'[w] = "commit"
    BY <2>1 DEF Inv, TypeOK
  <2>5. PublishedOnce' /\ PublishedOK'
    BY <1>1, <2>1, <2>2, <2>3 DEF OnceInv, PublishedOnce, PublishedOK, SetStatus
  <2>6. UnsentOK' /\ TakenOK'
    BY <2>1, <2>2, <2>3, <2>4 DEF OnceInv, UnsentOK, TakenOK, Resending, dead
  <2>7. QED
    BY <2>5, <2>6 DEF OnceInv
<1>9. ASSUME NEW w \in Workers, CommitDLQ(w)
      PROVE  OnceInv'
  <2> DEFINE new == [id |-> cur[w].id, nr |-> buried'[cur[w].id], tries |-> 0, due |-> FALSE]
  <2>1. /\ pc[w] = "commit" /\ dlq' = dlq \cup {new}
        /\ buried' = [buried EXCEPT ![cur[w].id] = @ + 1]
        /\ UNCHANGED <<status, published>>
    BY <1>9 DEF CommitDLQ, table
  <2>2. cur[w].id \in Messages /\ \A v \in Workers : v = w
    BY <2>1, InHand DEF OneWorker
  <2>3. buried[cur[w].id] = 0 /\ published[cur[w].id] = 0
    BY <2>1 DEF Inv, CurOK, OnceInv, UnsentOK
  <2>4. new.id = cur[w].id /\ new.nr = buried'[cur[w].id]
    OBVIOUS
  <2>5. buried'[cur[w].id] = 1 /\ \A m \in Messages : buried[m] > 0 => buried'[m] > 0
    BY <2>1, <2>2, <2>3 DEF Inv, TypeOK
  <2> HIDE DEF new
  <2>6. pc'[w] \in {"idle", "attempt"}
    BY <1>9 DEF CommitDLQ, NextMessage, Goto, Inv, TypeOK
  <2>7. \A row \in dlq : row.id \in Messages /\ row.id # cur[w].id
    BY <2>3 DEF OnceInv, UnsentOK, Inv, TypeOK, Graves
  <2>8. UnsentOK'
    <3>1. \A row \in dlq' : row.nr = 1 /\ buried'[row.id] > 0 /\ published'[row.id] = 0
      <4>1. \A row \in dlq : row.nr = 1 /\ buried[row.id] > 0 /\ published[row.id] = 0
        BY <1>1, <2>1, <2>2, <2>7 DEF OnceInv, UnsentOK
      <4>2. QED
        BY <2>1, <2>3, <2>4, <2>5, <2>7, <4>1
    <3>2. \A r, s \in dlq' : r.id = s.id => r = s
      BY <2>1, <2>4, <2>7 DEF OnceInv, UnsentOK
    <3>3. QED
      BY <2>2, <2>6, <3>1, <3>2 DEF UnsentOK
  <2>9. TakenOK'
    BY <2>2, <2>6 DEF TakenOK, Resending
  <2>10. QED
    BY <2>1, <2>2, <2>8, <2>9 DEF OnceInv, PublishedOnce, PublishedOK
<1>10. ASSUME NEW w \in Workers, FetchDead(w)
      PROVE  OnceInv'
  <2> DEFINE rows == {row \in dlq : row.due /\ row.tries < DLQMaxRetries}
  <2>1. /\ pc[w] = "idle" /\ NextGrave(w, rows)
        /\ UNCHANGED <<status, published, dlq, buried>>
    BY <1>10 DEF FetchDead, table, dead
  <2>2. \A v \in Workers : v = w
    BY DEF OneWorker
  <2>3. \A row \in dlq : row.nr = 1 /\ buried[row.id] > 0 /\ published[row.id] = 0
    BY <1>1, <2>1, <2>2 DEF OnceInv, UnsentOK, Inv, TypeOK, Graves
  <2>4. rows \in SUBSET Graves /\ \A r, s \in rows : r.id = s.id => r = s
    BY DEF Inv, TypeOK, OnceInv, UnsentOK
  <2>5. \A row \in rows : row.nr = 1 /\ buried'[row.id] > 0 /\ published'[row.id] = 0
    BY <2>1, <2>3
  <2> HIDE DEF rows
  <2>6. TakenOK' /\ pc'[w] \in {"idle", "resend"}
    BY <2>1, <2>4, <2>5, TakenNext
  <2>7. UnsentOK'
    BY <2>1, <2>2, <2>3, <2>6 DEF OnceInv, UnsentOK
  <2>8. PublishedOnce' /\ PublishedOK'
    BY <2>1, <2>2 DEF OnceInv, PublishedOnce, PublishedOK
  <2>9. QED
    BY <2>6, <2>7, <2>8 DEF OnceInv
<1>11. ASSUME NEW w \in Workers, Resend(w)
      PROVE  OnceInv'
  <2>1. /\ pc[w] = "resend" /\ Count(cur[w].id) /\ pc' = [pc EXCEPT ![w] = "delete"]
        /\ UNCHANGED <<status, dlq, buried, cur, graves>>
    BY <1>11 DEF Resend, Goto, table, dead
  <2>2. /\ cur[w].id \in Messages /\ graves[w] \in SUBSET Graves
        /\ \A v \in Workers : v = w
    BY <2>1, GraveInHand DEF Resending, OneWorker
  <2>3. published[cur[w].id] = 0 /\ status[cur[w].id] = "FAILED"
    BY <2>1, <2>2 DEF OnceInv, TakenOK, Resending, Inv, RowsOK, BuriedOK
  <2>4. published' = [published EXCEPT ![cur[w].id] = 1]
    BY <2>1, <2>2, <2>3, CountsOne DEF Inv
  <2>5. pc'[w] = "delete"
    BY <2>1 DEF Inv, TypeOK
  <2>6. PublishedOnce' /\ PublishedOK'
    BY <1>1, <2>1, <2>2, <2>3, <2>4 DEF OnceInv, PublishedOnce, PublishedOK
  <2>7. \A row \in dlq \cup graves[w] : row.id \in Messages
    BY <2>2 DEF Inv, TypeOK, Graves
  <2>8. UnsentOK'
    BY <1>1, <2>1, <2>2, <2>4, <2>5, <2>7 DEF OnceInv, UnsentOK
  <2>9. TakenOK'
    BY <1>1, <2>1, <2>2, <2>4, <2>5, <2>7 DEF OnceInv, TakenOK, Resending
  <2>10. QED
    BY <2>6, <2>8, <2>9 DEF OnceInv
<1>12. ASSUME NEW w \in Workers, ResendFails(w)
      PROVE  OnceInv'
  <2>1. /\ pc[w] = "resend" /\ pc' = [pc EXCEPT ![w] = "retry"]
        /\ UNCHANGED <<status, dlq, buried, published, cur, graves>>
    BY <1>12 DEF ResendFails, Goto, table, dead, OnlyKafka
  <2>2. pc'[w] = "retry" /\ \A v \in Workers : v = w
    BY <2>1 DEF Inv, TypeOK, OneWorker
  <2>3. PublishedOnce' /\ PublishedOK'
    BY <2>1, <2>2 DEF OnceInv, PublishedOnce, PublishedOK
  <2>4. UnsentOK' /\ TakenOK'
    BY <2>1, <2>2 DEF OnceInv, UnsentOK, TakenOK, Resending
  <2>5. QED
    BY <2>3, <2>4 DEF OnceInv
<1>13. ASSUME NEW w \in Workers, UpdateRetry(w) \/ DeleteDead(w)
      PROVE  OnceInv'
  <2>1. /\ pc[w] \in {"retry", "delete"} /\ NextGrave(w, graves[w])
        /\ UNCHANGED <<status, published, buried>>
    BY <1>13 DEF UpdateRetry, DeleteDead, table
  <2>2. /\ cur[w] \in Graves /\ graves[w] \in SUBSET Graves
        /\ \A v \in Workers : v = w
    BY <2>1, GraveInHand DEF Resending, OneWorker
  <2>3. /\ cur[w].nr = 1
        /\ \A row \in graves[w] :
              row.nr = 1 /\ buried'[row.id] > 0 /\ published'[row.id] = 0
        /\ \A r, s \in graves[w] : r.id = s.id => r = s
    BY <2>1 DEF OnceInv, TakenOK, Resending
  <2>4. TakenOK' /\ pc'[w] \in {"idle", "resend"}
    BY <2>1, <2>2, <2>3, TakenNext
  <2>5. PublishedOnce' /\ PublishedOK'
    BY <2>1, <2>2 DEF OnceInv, PublishedOnce, PublishedOK
  <2>6. /\ \A row \in dlq' : row.nr = 1 /\ buried[row.id] > 0 /\ published[row.id] = 0
        /\ \A r, s \in dlq' : r.id = s.id => r = s
    <3>1. CASE UpdateRetry(w)
      <4> DEFINE new(row) == IF SameRow(row, cur[w])
                             THEN [row EXCEPT !.tries = cur[w].tries + 1, !.due = FALSE]
                             ELSE row
      <4>1. pc[w] = "retry" /\ dlq' = {new(row) : row \in dlq}
        BY <3>1 DEF UpdateRetry
      <4>2. \A row \in dlq : new(row).id = row.id /\ new(row).nr = row.nr
        BY DEF Inv, TypeOK, Graves
      <4> HIDE DEF new
      <4>3. \A row \in dlq : row.id \in Messages
        BY DEF Inv, TypeOK, Graves
      <4>4. \A row \in dlq : row.nr = 1 /\ buried[row.id] > 0 /\ published[row.id] = 0
        BY <1>1, <2>2, <4>1, <4>3 DEF OnceInv, UnsentOK
      <4>5. \A r, s \in dlq : r.id = s.id => r = s
        BY DEF OnceInv, UnsentOK
      <4>6. QED
        BY <4>1, <4>2, <4>4, <4>5
    <3>2. CASE DeleteDead(w)
      <4>1. pc[w] = "delete" /\ dlq' = {row \in dlq : ~SameRow(row, cur[w])}
        BY <3>2 DEF DeleteDead
      <4>2. \A row \in dlq' : row \in dlq /\ row.id # cur[w].id
        BY <2>3, <4>1 DEF SameRow, OnceInv, UnsentOK
      <4>3. QED
        BY <1>1, <2>2, <4>2 DEF OnceInv, UnsentOK, Inv, TypeOK, Graves
    <3>3. QED
      BY <1>13, <3>1, <3>2
  <2>7. UnsentOK'
    BY <2>1, <2>2, <2>4, <2>6 DEF UnsentOK
  <2>8. QED
    BY <2>4, <2>5, <2>7 DEF OnceInv
<1>14. ASSUME NEW w \in Workers, DbFails(w) \/ Crash(w)
      PROVE  FALSE
  BY <1>14 DEF DbFails, Crash, OnlyKafka
<1>15. QED
  BY <1>2, <1>3, <1>4, <1>5, <1>6, <1>7, <1>8, <1>9, <1>10, <1>11, <1>12, <1>13, <1>14
     DEF Next, Work

\* As long as a send that fails has published nothing, and the statements
\* behind a send go through, an event is written to the topic at most once,
\* by outbox and dead letter queue together.
THEOREM NobodyIsToldTwice ==
  ASSUME OneWorker, OnlyKafka
  PROVE  Spec => []PublishedOnce
<1>1. Init => OnceInv
  BY DEF Init, OnceInv, PublishedOnce, PublishedOK, UnsentOK, TakenOK, Resending
<1>2. Inv /\ OnceInv /\ [Next]_vars => OnceInv'
  BY NextPublishesOnce
<1>3. OnceInv => PublishedOnce
  BY DEF OnceInv
<1>4. QED
  BY <1>1, <1>2, <1>3, InvHolds, PTL DEF Spec

-----------------------------------------------------------------------------
(* phaseTwo takes the messages in the order of their creation.             *)

\* Rows no attempt was made at.
Untried(m) == status[m] = "PROCESSING" /\ attempts[m] = 0

\* An untried row is in the batch, or in hand, or younger than all of these;
\* the message in hand is older than the rest of the batch.
OrderedOK ==
    \A w \in Workers : pc[w] \in Attempting \cup {"commit"} =>
        /\ \A c \in batch[w] : cur[w].id < c.id
        /\ \A n \in Messages : Untried(n) =>
              \/ \E c \in batch[w] : c.id = n
              \/ pc[w] = "attempt" /\ cur[w].id = n
              \/ cur[w].id < n /\ \A c \in batch[w] : c.id < n

\* RetryDelay begins with an attempt.
CoolingOK == \A m \in cooling : attempts[m] > 0

\* Whatever is not among the oldest is younger than each of them.
LEMMA OldestAreOlder ==
  ASSUME NEW S \in SUBSET Messages, NEW m \in Oldest(S), NEW n \in S \ Oldest(S)
  PROVE  m < n
<1> DEFINE before(k) == {j \in S : j < k}
<1>1. m \in Nat /\ n \in Nat /\ m # n /\ m \in S
  BY RelayAssumption DEF Oldest
<1>2. Cardinality(before(m)) < BatchSize /\ ~(Cardinality(before(n)) < BatchSize)
  BY DEF Oldest
<1>3. SUFFICES ASSUME n < m PROVE FALSE
  BY <1>1
<1>4. before(n) \subseteq before(m)
  <2>1. \A j \in S : j \in Nat
    BY RelayAssumption
  <2>2. \A j \in S : j < n => j < m
    BY <1>1, <1>3, <2>1
  <2>3. QED
    BY <2>2
<1>5. IsFiniteSet(before(m))
  BY RelayAssumption, FS_Subset
<1>6. /\ Cardinality(before(n)) \in Nat /\ Cardinality(before(m)) \in Nat
      /\ Cardinality(before(n)) <= Cardinality(before(m))
  BY <1>4, <1>5, FS_Subset, FS_CardinalityType
<1> HIDE DEF before
<1>7. QED
  BY <1>2, <1>6, RelayAssumption

\* The next message is the oldest one left.
LEMMA NextIsOldest ==
  ASSUME OneWorker, Inv, NEW w \in Workers, NEW b \in SUBSET MessageCopies,
         NextMessage(w, b), \A c, d \in b : c.id = d.id => c = d,
         \A n \in Messages : Untried(n)' =>
            (\E c \in b : c.id = n) \/ (\A c \in b : c.id < n)
  PROVE  OrderedOK'
<1>1. \A v \in Workers : v = w
  BY DEF OneWorker
<1>2. CASE b = {}
  <2>1. pc'[w] = "idle"
    BY <1>2 DEF NextMessage, Goto, Inv, TypeOK
  <2>2. QED
    BY <1>1, <2>1 DEF OrderedOK, Attempting
<1>3. CASE b # {}
  <2>1. PICK msg \in b : /\ \A other \in b : msg.id <= other.id
                         /\ pc' = [pc EXCEPT ![w] = "attempt"]
                         /\ cur' = [cur EXCEPT ![w] = msg]
                         /\ batch' = [batch EXCEPT ![w] = b \ {msg}]
    BY <1>3, Zenon DEF NextMessage, Goto
  <2>2. pc'[w] = "attempt" /\ cur'[w] = msg /\ batch'[w] = b \ {msg}
    BY <2>1 DEF Inv, TypeOK
  <2>3. \A c \in b : c.id \in Nat
    BY RelayAssumption DEF MessageCopies
  <2>4. \A c \in b \ {msg} : msg.id < c.id
    BY <2>1, <2>3
  <2>5. \A n \in Messages : Untried(n)' =>
           \/ \E c \in b \ {msg} : c.id = n
           \/ msg.id = n
           \/ msg.id < n /\ \A c \in b \ {msg} : c.id < n
    BY <2>1
  <2>6. QED
    BY <1>1, <2>2, <2>4, <2>5 DEF OrderedOK
<1>4. QED
  BY <1>2, <1>3

LEMMA NextKeepsOrder ==
  ASSUME OneWorker, NoCrash, Inv, OrderedOK, CoolingOK, [Next]_vars
  PROVE  OrderedOK' /\ CoolingOK'
<1>1. /\ attempts \in [Messages -> Nat] /\ cooling \subseteq Messages
      /\ \A v, w \in Workers : v = w
  BY DEF Inv, TypeOK, OneWorker
<1>2. ASSUME NEW m \in Messages, Arrive(m)
      PROVE  OrderedOK' /\ CoolingOK'
  <2>1. \A n \in Messages : Untried(n)' => Untried(n)
    BY <1>2 DEF Arrive, Untried, Inv, TypeOK
  <2>2. QED
    BY <1>2, <2>1 DEF Arrive, locals, OrderedOK, CoolingOK
<1>3. CASE (\E m \in Messages : CoolDown(m)) \/ UNCHANGED vars
  BY <1>3 DEF CoolDown, vars, locals, OrderedOK, CoolingOK, Untried
<1>4. ASSUME NEW row \in dlq, GraveIsDue(row)
      PROVE  OrderedOK' /\ CoolingOK'
  BY <1>4 DEF GraveIsDue, table, locals, OrderedOK, CoolingOK, Untried
<1>5. ASSUME NEW w \in Workers,
             \/ TakePending(w) \/ SetProcessing(w) \/ FetchDead(w) \/ Resend(w)
             \/ ResendFails(w) \/ UpdateRetry(w) \/ DeleteDead(w)
      PROVE  OrderedOK' /\ CoolingOK'
  <2>1. pc'[w] \notin Attempting \cup {"commit"}
    BY <1>5 DEF TakePending, SetProcessing, FetchDead, Resend, ResendFails, UpdateRetry,
                DeleteDead, NextGrave, Goto, Attempting, Inv, TypeOK
  <2>2. UNCHANGED <<attempts, cooling>>
    BY <1>5 DEF TakePending, SetProcessing, FetchDead, Resend, ResendFails, UpdateRetry,
                DeleteDead, table
  <2>3. QED
    BY <1>1, <2>1, <2>2 DEF OrderedOK, CoolingOK
<1>6. ASSUME NEW w \in Workers, FetchProcessing(w)
      PROVE  OrderedOK' /\ CoolingOK'
  <2> DEFINE b == {[id |-> m, attempts |-> attempts[m]] : m \in Oldest(Eligible)}
  <2>1. NextMessage(w, b) /\ UNCHANGED <<table, ids, graves>>
    BY <1>6 DEF FetchProcessing
  <2>2. Oldest(Eligible) \subseteq Eligible /\ Eligible \in SUBSET Messages
    BY DEF Oldest, Eligible
  <2>3. \A c \in b : /\ c \in MessageCopies /\ c.id \in Oldest(Eligible)
                     /\ c.attempts = attempts[c.id]
    <3>1. SUFFICES ASSUME NEW m \in Oldest(Eligible),
                          NEW c, c = [id |-> m, attempts |-> attempts[m]]
                   PROVE  /\ c \in MessageCopies /\ c.id \in Oldest(Eligible)
                          /\ c.attempts = attempts[c.id]
      OBVIOUS
    <3>2. m \in Messages /\ attempts[m] \in Nat
      BY <1>1, <2>2
    <3>3. QED
      BY <3>1, <3>2 DEF MessageCopies
  <2>4. \A m \in Oldest(Eligible) : \E c \in b : c.id = m
    <3>1. SUFFICES ASSUME NEW m \in Oldest(Eligible) PROVE \E c \in b : c.id = m
      OBVIOUS
    <3>2. [id |-> m, attempts |-> attempts[m]] \in b
      OBVIOUS
    <3>3. [id |-> m, attempts |-> attempts[m]].id = m
      OBVIOUS
    <3>4. QED
      BY <3>2, <3>3
  <2> HIDE DEF b
  <2>5. \A c, d \in b : c.id = d.id => c = d
    BY <2>3 DEF MessageCopies
  <2>6. ASSUME NEW n \in Messages, Untried(n)'
        PROVE  (\E c \in b : c.id = n) \/ (\A c \in b : c.id < n)
    <3>1. n \in Eligible
      BY <1>1, <2>1, <2>6 DEF Untried, table, Eligible, CoolingOK, MaxRetryAttempts
    <3>2. CASE n \in Oldest(Eligible)
      BY <2>4, <3>2
    <3>3. CASE n \notin Oldest(Eligible)
      BY <2>2, <2>3, <3>1, <3>3, OldestAreOlder
    <3>4. QED
      BY <3>2, <3>3
  <2>7. b \in SUBSET MessageCopies
    BY <2>3
  <2>8. OrderedOK'
    BY <2>1, <2>5, <2>6, <2>7, NextIsOldest
  <2>9. QED
    BY <2>1, <2>8 DEF table, CoolingOK
<1>7. ASSUME NEW w \in Workers, UpdateAttempt(w)
      PROVE  OrderedOK' /\ CoolingOK'
  <2>1. /\ pc[w] = "attempt" /\ pc' = [pc EXCEPT ![w] = "send"]
        /\ attempts' = [attempts EXCEPT ![cur[w].id] = @ + 1]
        /\ cooling' = cooling \cup {cur[w].id}
        /\ UNCHANGED <<status, batch, cur>>
    BY <1>7 DEF UpdateAttempt, Goto
  <2>2. cur[w].id \in Messages
    BY <2>1, InHand DEF Attempting
  <2>3. attempts'[cur[w].id] > 0 /\ \A n \in Messages : n # cur[w].id => attempts'[n] = attempts[n]
    BY <1>1, <2>1, <2>2
  <2>4. CoolingOK'
    BY <1>1, <2>1, <2>3 DEF CoolingOK
  <2>5. \A n \in Messages : Untried(n)' => Untried(n) /\ n # cur[w].id
    BY <2>1, <2>3 DEF Untried
  <2>6. pc[w] \in Attempting \cup {"commit"} /\ pc'[w] = "send"
    BY <2>1 DEF Attempting, Inv, TypeOK
  <2>7. OrderedOK'
    BY <1>1, <2>1, <2>5, <2>6 DEF OrderedOK
  <2>8. QED
    BY <2>4, <2>7
<1>8. ASSUME NEW w \in Workers,
             \/ Send(w) \/ SaveDLQ(w) \/ MarkFailed(w)
             \/ SendFails(w) /\ UNCHANGED <<batch, cur>> /\ Goto(w, "bury")
      PROVE  OrderedOK' /\ CoolingOK'
  <2>1. /\ pc[w] \in {"send", "bury", "mark"} /\ pc'[w] \in Attempting \cup {"commit"}
        /\ UNCHANGED <<attempts, cooling, batch, cur>>
    BY <1>8 DEF Send, SaveDLQ, MarkFailed, SendFails, table, Goto, Attempting, Inv, TypeOK
  <2>2. \A n \in Messages : Untried(n)' => Untried(n)
    BY <1>8, <2>1 DEF Send, SaveDLQ, MarkFailed, SendFails, table, SetStatus, Untried
  <2>3. pc[w] \in Attempting
    BY <2>1 DEF Attempting
  <2>4. QED
    BY <1>1, <2>1, <2>2, <2>3 DEF OrderedOK, CoolingOK
<1>9. ASSUME NEW w \in Workers,
             Complete(w) \/ CommitDLQ(w) \/ (SendFails(w) /\ NextMessage(w, batch[w]))
      PROVE  OrderedOK' /\ CoolingOK'
  <2>1. /\ pc[w] \in {"send", "complete", "commit"} /\ NextMessage(w, batch[w])
        /\ UNCHANGED <<attempts, cooling>>
    BY <1>9 DEF Complete, CommitDLQ, SendFails, table
  <2>2. \A n \in Messages : Untried(n)' => Untried(n)
    BY <1>9, <2>1 DEF Complete, CommitDLQ, SendFails, table, SetStatus, Untried
  <2>3. pc[w] \in Attempting \cup {"commit"} /\ pc[w] # "attempt"
    BY <2>1 DEF Attempting
  <2>4. batch[w] \in SUBSET MessageCopies /\ Fresh(batch[w], status, attempts)
    BY <2>3, InHand
  <2>5. \A c, d \in batch[w] : c.id = d.id => c = d
    BY <2>4 DEF Fresh, MessageCopies
  <2>6. \A n \in Messages : Untried(n)' =>
           (\E c \in batch[w] : c.id = n) \/ (\A c \in batch[w] : c.id < n)
    BY <2>2, <2>3 DEF OrderedOK
  <2>7. OrderedOK'
    BY <2>1, <2>4, <2>5, <2>6, NextIsOldest
  <2>8. QED
    BY <2>1, <2>7 DEF CoolingOK
<1>10. ASSUME NEW w \in Workers, DbFails(w) \/ Crash(w)
      PROVE  FALSE
  BY <1>10 DEF DbFails, Crash, NoCrash
<1>11. ASSUME NEW w \in Workers, SendFails(w)
       PROVE  \/ UNCHANGED <<batch, cur>> /\ Goto(w, "bury")
              \/ NextMessage(w, batch[w])
  BY <1>11 DEF SendFails
<1>12. QED
  BY <1>2, <1>3, <1>4, <1>5, <1>6, <1>7, <1>8, <1>9, <1>10, <1>11 DEF Next, Work

\* The rows of dlq, and those ProcessDLQ has read, belong to FAILED messages.
DeadOK ==
    /\ \A row \in dlq : status[row.id] = "FAILED"
    /\ \A w \in Workers : pc[w] \in Resending =>
          /\ status[cur[w].id] = "FAILED"
          /\ \A row \in graves[w] : status[row.id] = "FAILED"

\* ProcessDLQ goes on with a row whose message is FAILED.
LEMMA NextIsDead ==
  ASSUME OneWorker, Inv, NEW w \in Workers, NEW g \in SUBSET Graves,
         NextGrave(w, g), \A row \in g : status'[row.id] = "FAILED"
  PROVE  \A v \in Workers : pc'[v] \in Resending =>
            /\ status'[cur'[v].id] = "FAILED"
            /\ \A row \in graves'[v] : status'[row.id] = "FAILED"
<1>1. CASE g = {}
  BY <1>1 DEF OneWorker, NextGrave, Goto, Resending, Inv, TypeOK
<1>2. CASE g # {}
  <2>1. PICK row \in g : /\ cur' = [cur EXCEPT ![w] = row]
                         /\ graves' = [graves EXCEPT ![w] = g \ {row}]
    BY <1>2, Zenon DEF NextGrave
  <2>2. cur'[w] = row /\ graves'[w] = g \ {row}
    BY <2>1 DEF Inv, TypeOK
  <2>3. QED
    BY <2>2 DEF OneWorker
<1>3. QED
  BY <1>1, <1>2

LEMMA NextKeepsDead ==
  ASSUME OneWorker, Inv, DeadOK, [Next]_vars
  PROVE  DeadOK'
<1>1. \A m \in Messages : status[m] = "FAILED" => status'[m] = "FAILED"
  BY NextKeepsFinal
<1>2. \A row \in dlq : row \in Graves /\ row.id \in Messages /\ status'[row.id] = "FAILED"
  BY <1>1 DEF DeadOK, Inv, TypeOK, Graves
<1>3. ASSUME NEW w \in Workers, pc[w] \in Resending
      PROVE  /\ status'[cur[w].id] = "FAILED" /\ graves[w] \in SUBSET Graves
             /\ \A row \in graves[w] : status'[row.id] = "FAILED"
  <2>1. cur[w].id \in Messages /\ graves[w] \in SUBSET Graves
    BY <1>3, GraveInHand
  <2>2. \A row \in graves[w] : row.id \in Messages
    BY <2>1 DEF Graves
  <2>3. QED
    BY <1>1, <1>3, <2>1, <2>2 DEF DeadOK
<1>4. CASE \/ \E m \in Messages : Arrive(m) \/ CoolDown(m)
           \/ UNCHANGED vars
  BY <1>2, <1>3, <1>4 DEF Arrive, CoolDown, dead, locals, vars, DeadOK
<1>5. ASSUME NEW row \in dlq, GraveIsDue(row)
      PROVE  DeadOK'
  <2>1. [row EXCEPT !.due = TRUE].id = row.id
    BY <1>2 DEF Graves
  <2>2. \A r \in dlq' : status'[r.id] = "FAILED"
    BY <1>2, <1>5, <2>1 DEF GraveIsDue
  <2>3. QED
    BY <1>3, <1>5, <2>2 DEF GraveIsDue, locals, DeadOK
<1>6. ASSUME NEW w \in Workers,
             \/ TakePending(w) \/ SetProcessing(w) \/ FetchProcessing(w)
             \/ UpdateAttempt(w) \/ Send(w) \/ SendFails(w) \/ Complete(w)
             \/ SaveDLQ(w) \/ MarkFailed(w) \/ Crash(w)
      PROVE  DeadOK'
  <2>1. pc'[w] \notin Resending
    BY <1>6 DEF TakePending, SetProcessing, FetchProcessing, UpdateAttempt, Send,
                SendFails, Complete, SaveDLQ, MarkFailed, Crash, NextMessage, Goto,
                Resending, Inv, TypeOK
  <2>2. UNCHANGED dlq
    BY <1>6 DEF TakePending, SetProcessing, FetchProcessing, UpdateAttempt, Send,
                SendFails, Complete, SaveDLQ, MarkFailed, Crash, dead
  <2>3. QED
    BY <1>2, <2>1, <2>2 DEF OneWorker, DeadOK
<1>7. ASSUME NEW w \in Workers, CommitDLQ(w)
      PROVE  DeadOK'
  <2> DEFINE new == [id |-> cur[w].id, nr |-> buried'[cur[w].id], tries |-> 0, due |-> FALSE]
  <2>1. pc[w] = "commit" /\ dlq' = dlq \cup {new} /\ NextMessage(w, batch[w])
    BY <1>7 DEF CommitDLQ
  <2>2. status'[cur[w].id] = "FAILED"
    BY <1>1, <2>1, InHand DEF Inv, CurOK
  <2>3. new.id = cur[w].id
    OBVIOUS
  <2> HIDE DEF new
  <2>4. pc'[w] \notin Resending
    BY <2>1 DEF NextMessage, Goto, Resending, Inv, TypeOK
  <2>5. QED
    BY <1>2, <2>1, <2>2, <2>3, <2>4 DEF OneWorker, DeadOK
<1>8. ASSUME NEW w \in Workers, Resend(w) \/ ResendFails(w)
      PROVE  DeadOK'
  <2>1. pc[w] \in Resending /\ UNCHANGED <<dlq, cur, graves>>
    BY <1>8 DEF Resend, ResendFails, Resending, dead
  <2>2. QED
    BY <1>2, <1>3, <2>1 DEF OneWorker, DeadOK
<1>9. ASSUME NEW w \in Workers, FetchDead(w)
      PROVE  DeadOK'
  <2>1. /\ NextGrave(w, {row \in dlq : row.due /\ row.tries < DLQMaxRetries})
        /\ UNCHANGED dlq
    BY <1>9 DEF FetchDead, dead
  <2>2. QED
    BY <1>2, <2>1, NextIsDead DEF DeadOK
<1>10. ASSUME NEW w \in Workers, pc[w] \in {"retry", "delete"}, NextGrave(w, graves[w]),
              \A r \in dlq' : \E row \in dlq : row.id = r.id
       PROVE  DeadOK'
  <2>1. pc[w] \in Resending
    BY <1>10 DEF Resending
  <2>2. QED
    BY <1>2, <1>3, <1>10, <2>1, NextIsDead DEF DeadOK
<1>11. ASSUME NEW w \in Workers, UpdateRetry(w)
       PROVE  DeadOK'
  <2> DEFINE new(row) == IF SameRow(row, cur[w])
                         THEN [row EXCEPT !.tries = cur[w].tries + 1, !.due = FALSE]
                         ELSE row
  <2>1. \A row \in dlq : new(row).id = row.id
    BY <1>2 DEF Graves
  <2>2. dlq' = {new(row) : row \in dlq}
    BY <1>11 DEF UpdateRetry
  <2> HIDE DEF new
  <2>3. \A r \in dlq' : \E row \in dlq : row.id = r.id
    BY <2>1, <2>2
  <2>4. QED
    BY <1>10, <1>11, <2>3 DEF UpdateRetry
<1>12. ASSUME NEW w \in Workers, DeleteDead(w)
       PROVE  DeadOK'
  BY <1>10, <1>12 DEF DeleteDead
<1>13. ASSUME NEW w \in Workers, DbFails(w)
       PROVE  DeadOK'
  <2>1. UNCHANGED dlq
    BY <1>13 DEF DbFails, dead
  <2>2. CASE pc[w] \in {"retry", "delete"} /\ NextGrave(w, graves[w])
    BY <1>10, <2>1, <2>2
  <2>3. CASE ~(pc[w] \in {"retry", "delete"} /\ NextGrave(w, graves[w]))
    <3>1. pc'[w] \notin Resending
      BY <1>13, <2>3 DEF DbFails, NextMessage, Goto, Resending, Inv, TypeOK
    <3>2. QED
      BY <1>2, <2>1, <3>1 DEF OneWorker, DeadOK
  <2>4. QED
    BY <2>2, <2>3
<1>14. QED
  BY <1>4, <1>5, <1>6, <1>7, <1>8, <1>9, <1>11, <1>12, <1>13 DEF Next, Work

\* Only the message in hand is published, and when it is one of phaseTwo,
\* every older one has been tried.
LEMMA NextInOrder ==
  ASSUME OneWorker, Inv, OrderedOK, DeadOK, [Next]_vars,
         NEW m \in Messages, NEW n \in Messages, n < m, published'[m] > published[m],
         status[m] = "PROCESSING", status[n] = "PROCESSING"
  PROVE  attempts[n] > 0
<1>1. /\ published[m] \in Nat /\ attempts[n] \in Nat /\ m \in Nat /\ n \in Nat
  BY RelayAssumption DEF Inv, TypeOK
<1>2. ~UNCHANGED published
  BY <1>1
<1>3. PICK w \in Workers : Send(w) \/ SendFails(w) \/ Resend(w) \/ ResendFails(w)
  BY <1>2 DEF Next, Work, vars, Arrive, CoolDown, GraveIsDue, TakePending, SetProcessing,
              FetchProcessing, UpdateAttempt, Complete, SaveDLQ, MarkFailed, CommitDLQ,
              FetchDead, UpdateRetry, DeleteDead, DbFails, Crash
<1>4. CASE Send(w) \/ SendFails(w)
  <2>1. pc[w] = "send" /\ Count(cur[w].id)
    BY <1>2, <1>4 DEF Send, SendFails
  <2>2. m = cur[w].id
    BY <1>1, <2>1 DEF Count, Inv, TypeOK
  <2>3. pc[w] \in Attempting
    BY <2>1 DEF Attempting
  <2>4. \A c \in batch[w] : c.id \in Nat
    BY <2>3, InHand, RelayAssumption
  <2>5. QED
    BY <1>1, <2>1, <2>2, <2>3, <2>4 DEF OrderedOK, Untried
<1>5. CASE Resend(w) \/ ResendFails(w)
  <2>1. pc[w] = "resend" /\ Count(cur[w].id)
    BY <1>2, <1>5 DEF Resend, ResendFails
  <2>2. m = cur[w].id
    BY <1>1, <2>1 DEF Count, Inv, TypeOK
  <2>3. status[m] = "FAILED"
    BY <2>1, <2>2 DEF DeadOK, Resending
  <2>4. QED
    BY <2>3
<1>6. QED
  BY <1>3, <1>4, <1>5

\* While the database answers and the process lives, the relay overtakes no
\* message in phaseTwo that it has not tried: among rows that are PROCESSING
\* the order of the topic is that of created_at, up to retries.
THEOREM NobodyIsOvertaken ==
  ASSUME OneWorker, NoCrash
  PROVE  Spec => PublishedInOrder
<1>1. Init => OrderedOK /\ CoolingOK /\ DeadOK
  BY DEF Init, OrderedOK, CoolingOK, DeadOK, Attempting, Resending
<1>2. /\ Inv /\ OrderedOK /\ CoolingOK /\ DeadOK /\ [Next]_vars
      => (OrderedOK /\ CoolingOK /\ DeadOK)'
  BY NextKeepsOrder, NextKeepsDead
<1>3. Inv /\ OrderedOK /\ DeadOK /\ [Next]_vars =>
        [\A m, n \in Messages :
           /\ n < m /\ published'[m] > published[m]
           /\ status[m] = "PROCESSING" /\ status[n] = "PROCESSING"
           => attempts[n] > 0]_vars
  BY NextInOrder
<1>4. QED
  BY <1>1, <1>2, <1>3, InvHolds, PTL DEF Spec, PublishedInOrder

=============================================================================
