------------------------------ MODULE Notifier ------------------------------
(***************************************************************************)
(* cmd/notifier: one consumer of the group pvz-notifier reads the topic,   *)
(* sends each event to Telegram, logs it and marks its offset; sarama      *)
(* commits the marked offset in the background and when a session ends.    *)
(*                                                                         *)
(* The topic has one partition: a log.  An offset is represented by the    *)
(* number of messages up to and including it, so that `committed' is also  *)
(* where a new session starts reading.                                     *)
(***************************************************************************)
EXTENDS Naturals, Sequences

CONSTANTS MaxLog,       \* messages the topic receives (a bound)
          MaxSessions,  \* sessions of the consumer group (a bound)
          Attempts      \* cfg.Telegram.RetryAttempts; 0 stands for disabled, too

ASSUME NotifierAssumption ==
    MaxLog \in Nat /\ MaxSessions \in Nat \ {0} /\ Attempts \in Nat

VARIABLES log,          \* the topic: which messages parse and validate
          committed,    \* the group's offset at the broker
          pc,           \* where the goroutine of ConsumeClaim is
          position,     \* messages taken from the claim in this session
          marked,       \* what the session would commit
          ctx,          \* the context of the session
          tries,        \* attempts of SendMessage made for the message in hand
          sessions,     \* auxiliary: sessions started
          logged,       \* auxiliary: how often each message was logged
          sent          \* auxiliary: how often Telegram received each message

vars == <<log, committed, pc, position, marked, ctx, tries, sessions,
          logged, sent>>

session == <<position, marked, ctx, tries, sessions>>

Kinds == {"event", "malformed"}
Offsets == 1..MaxLog

Init ==
    /\ log = <<>> /\ committed = 0
    /\ pc = "down"
    /\ position = 0 /\ marked = 0
    /\ ctx = "live" /\ tries = 0
    /\ sessions = 0
    /\ logged = [o \in Offsets |-> 0]
    /\ sent = [o \in Offsets |-> 0]

-----------------------------------------------------------------------------
Publish(kind) ==
    /\ Len(log) < MaxLog
    /\ log' = Append(log, kind)
    /\ UNCHANGED <<committed, pc, session, logged, sent>>

\* Faulty variant: a session starts with the oldest message of the topic.
JoinOldest ==
    /\ pc = "down"
    /\ sessions < MaxSessions
    /\ sessions' = sessions + 1
    /\ pc' = "waiting"
    /\ position' = 0 /\ marked' = 0
    /\ ctx' = "live" /\ tries' = 0
    /\ UNCHANGED <<log, committed, logged, sent>>

\* Faulty variant: without a committed offset, a session starts with what is
\* published next.
JoinNewest ==
    /\ pc = "down"
    /\ sessions < MaxSessions
    /\ sessions' = sessions + 1
    /\ pc' = "waiting"
    /\ position' = IF committed = 0 THEN Len(log) ELSE committed
    /\ marked' = committed
    /\ ctx' = "live" /\ tries' = 0
    /\ UNCHANGED <<log, committed, logged, sent>>

\* Consume: the session starts at the committed offset, and at the oldest
\* message when there is none.
Join ==
    /\ pc = "down"
    /\ sessions < MaxSessions
    /\ sessions' = sessions + 1
    /\ pc' = "waiting"
    /\ position' = committed /\ marked' = committed
    /\ ctx' = "live" /\ tries' = 0
    /\ UNCHANGED <<log, committed, logged, sent>>

\* Faulty variant: the message is marked when it is received.
TakeMarks ==
    /\ pc = "waiting"
    /\ position < Len(log)
    /\ position' = position + 1
    /\ marked' = position + 1
    /\ pc' = "notify" /\ tries' = 0
    /\ UNCHANGED <<log, committed, ctx, sessions, logged, sent>>

\* The select of ConsumeClaim takes a message, even when the context of the
\* session is done as well.
Take ==
    /\ pc = "waiting"
    /\ position < Len(log)
    /\ position' = position + 1
    /\ pc' = "notify" /\ tries' = 0
    /\ UNCHANGED <<log, committed, marked, ctx, sessions, logged, sent>>

-----------------------------------------------------------------------------
(* HandleMessage.  NotifyEvent or, for a message that does not parse or is *)
(* not valid, NotifyError: either sends one message to Telegram.           *)

\* Faulty variant: one attempt too many.
ExhaustedLate == tries > Attempts \/ (ctx = "done" /\ tries > 0)

\* The loop of SendMessage is over: no attempt is left, or the wait for the
\* next one ends with the session.
Exhausted == tries = Attempts \/ (ctx = "done" /\ tries > 0)

\* HandleMessage goes on whether or not Telegram was reached; a malformed
\* message is an error, and `continue' leaves it unmarked.
AfterTelegram == IF log[position] = "event" THEN "record" ELSE "waiting"

\* Nothing is sent under a context that is done.
Notify ==
    /\ pc = "notify" /\ ~Exhausted /\ ctx = "live"
    /\ sent' = [sent EXCEPT ![position] = @ + 1]
    /\ pc' = AfterTelegram
    /\ UNCHANGED <<log, committed, session, logged>>

\* Telegram has the message, its answer is lost.
NotifyReplyLost ==
    /\ pc = "notify" /\ ~Exhausted /\ ctx = "live"
    /\ sent' = [sent EXCEPT ![position] = @ + 1]
    /\ tries' = tries + 1
    /\ UNCHANGED <<log, committed, pc, position, marked, ctx, sessions, logged>>

\* Faulty variant: a failure is not counted.
NotifyFailsUncounted ==
    /\ pc = "notify" /\ ~Exhausted
    /\ UNCHANGED vars

NotifyFails ==
    /\ pc = "notify" /\ ~Exhausted
    /\ tries' = tries + 1
    /\ UNCHANGED <<log, committed, pc, position, marked, ctx, sessions,
                   logged, sent>>

GiveUpNotify ==
    /\ pc = "notify" /\ Exhausted
    /\ pc' = AfterTelegram
    /\ UNCHANGED <<log, committed, session, logged, sent>>

\* logEvent, which cannot fail.
LogEvent ==
    /\ pc = "record"
    /\ logged' = [logged EXCEPT ![position] = @ + 1]
    /\ pc' = "mark"
    /\ UNCHANGED <<log, committed, session, sent>>

\* Faulty variant: the mark runs one message ahead.
MarkAhead ==
    /\ pc = "mark"
    /\ marked' = position + 1
    /\ pc' = "waiting"
    /\ UNCHANGED <<log, committed, position, ctx, tries, sessions, logged, sent>>

\* MarkMessage covers every earlier offset.
Mark ==
    /\ pc = "mark"
    /\ marked' = position
    /\ pc' = "waiting"
    /\ UNCHANGED <<log, committed, position, ctx, tries, sessions, logged, sent>>

-----------------------------------------------------------------------------
(* The session.                                                            *)

AutoCommit ==
    /\ pc # "down" /\ committed # marked
    /\ committed' = marked
    /\ UNCHANGED <<log, pc, session, logged, sent>>

\* A rebalance, a lost heartbeat or the signal to stop ends the context.
EndSession ==
    /\ pc # "down" /\ ctx = "live"
    /\ sessions < MaxSessions
    /\ ctx' = "done"
    /\ UNCHANGED <<log, committed, pc, position, marked, tries, sessions,
                   logged, sent>>

\* ConsumeClaim returns; the last commit of the session may fail.  Consume
\* starts the next session, or the container a new process.
Leave ==
    /\ pc = "waiting" /\ ctx = "done"
    /\ committed' \in {committed, marked}
    /\ pc' = "down"
    /\ UNCHANGED <<log, session, logged, sent>>

Crash ==
    /\ pc # "down" /\ sessions < MaxSessions
    /\ pc' = "down"
    /\ UNCHANGED <<log, committed, session, logged, sent>>

\* The claim is empty and the session goes on.
Wait ==
    /\ pc = "waiting" /\ position = Len(log) /\ ctx = "live"
    /\ UNCHANGED vars

-----------------------------------------------------------------------------
Handle ==
    \/ Take \/ Notify \/ NotifyReplyLost \/ NotifyFails \/ GiveUpNotify
    \/ LogEvent \/ Mark

Next ==
    \/ \E kind \in Kinds : Publish(kind)
    \/ Join \/ Handle \/ AutoCommit
    \/ EndSession \/ Leave \/ Crash \/ Wait

Spec == Init /\ [][Next]_vars

\* The goroutine runs when it can, every attempt to reach Telegram ends (the
\* client has a timeout), and the container is started again.
FairSpec == Spec /\ WF_vars(Handle) /\ WF_vars(Join) /\ WF_vars(Leave)

-----------------------------------------------------------------------------
(* Properties.                                                             *)

\* Every variable has its type, and no offset is beyond the end of the log.
TypeOK ==
    /\ log \in Seq(Kinds) /\ Len(log) <= MaxLog
    /\ committed \in 0..Len(log)
    /\ pc \in {"down", "waiting", "notify", "record", "mark"}
    /\ position \in 0..Len(log)
    /\ marked \in 0..Len(log)
    /\ ctx \in {"live", "done"}
    /\ tries \in 0..Attempts
    /\ sessions \in 0..MaxSessions
    /\ logged \in [Offsets -> Nat]
    /\ sent \in [Offsets -> Nat]

\* No valid event is lost: whatever lies below the committed offset has been
\* logged, whenever the process died and whatever Telegram did, because
\* MarkMessage comes after HandleMessage.
NothingSkipped ==
    \A o \in 1..committed : log[o] = "event" => logged[o] > 0

\* Events are logged in the order of the topic: when one has been logged, so
\* have the valid ones before it.
LoggedInOrder ==
    \A i, j \in 1..Len(log) :
        i < j /\ logged[j] > 0 /\ log[i] = "event" => logged[i] > 0

\* A message reaches Telegram at most once per attempt and session; the
\* retries of SendMessage and of the consumer group do not add up to more.
TelegramIsBounded ==
    \A o \in Offsets : sent[o] <= Attempts * sessions

\* What is committed is never handled again: not after a crash, a rebalance
\* or a lost commit.
CommittedIsDone ==
    [][\A o \in 1..committed : logged'[o] = logged[o] /\ sent'[o] = sent[o]]_vars

\* Every valid event is logged in the end.
EveryEventIsLogged ==
    \A o \in Offsets :
        (o <= Len(log) /\ log[o] = "event") ~> logged[o] > 0

=============================================================================
