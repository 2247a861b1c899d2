--------------------------- MODULE NotifierProofs ---------------------------
(***************************************************************************)
(* Theorems about Notifier for every value of its constants: types, the    *)
(* delivery guarantee and the order of the log, that a committed message   *)
(* is never handled again, and the bound on what Telegram receives.        *)
(***************************************************************************)
EXTENDS Notifier, TLAPS

(* The valid events among the first n messages have been logged.           *)
Done(n) == \A o \in 1..n : log[o] = "event" => logged[o] > 0

(* Offsets only trail one another, and the message in hand is not marked.  *)
OffsetsOK ==
    /\ committed <= marked /\ marked <= position
    /\ pc \in {"notify", "record", "mark"} => marked < position
    /\ pc # "down" => sessions > 0

(* How far the valid events have been logged.                              *)
ProgressOK ==
    /\ Done(marked)
    /\ pc \in {"waiting", "mark"} => Done(position)
    /\ pc \in {"notify", "record"} => Done(position - 1)
    /\ \A o \in Offsets : o > Len(log) => logged[o] = 0

(* What Telegram may have received before this session.                    *)
Earlier == Attempts * (sessions - 1)

(* What the current session adds to the copies of each message.            *)
CopiesOK ==
    /\ TelegramIsBounded
    /\ pc # "down" => \A o \in Offsets : o > position => sent[o] <= Earlier
    /\ pc = "notify" => sent[position] <= Earlier + tries

(* The inductive invariant.                                                *)
Inv == TypeOK /\ OffsetsOK /\ ProgressOK /\ LoggedInOrder

-----------------------------------------------------------------------------
(* The initial state satisfies the invariant.                              *)
LEMMA InitInv == Init => Inv /\ CopiesOK
<1> SUFFICES ASSUME Init PROVE Inv /\ CopiesOK
  OBVIOUS
<1> USE NotifierAssumption DEF Init
<1>1. TypeOK
  BY DEF TypeOK, Offsets, Kinds
<1>2. OffsetsOK /\ ProgressOK /\ LoggedInOrder
  BY DEF OffsetsOK, ProgressOK, Done, LoggedInOrder
<1>3. Attempts * sessions = 0
  OBVIOUS
<1>4. CopiesOK
  BY <1>3 DEF CopiesOK, TelegramIsBounded
<1> QED
  BY <1>1, <1>2, <1>4 DEF Inv

(* Publishing appends one message and changes none that is there.          *)
LEMMA PublishAppends ==
    ASSUME TypeOK, NEW kind \in Kinds, Publish(kind)
    PROVE  /\ log' \in Seq(Kinds) /\ Len(log') = Len(log) + 1
           /\ Len(log) \in Nat /\ Len(log) < MaxLog
           /\ \A o \in 1..Len(log) : log'[o] = log[o]
BY NotifierAssumption DEF TypeOK, Publish

(* The messages of the log have offsets, the message in hand among them,   *)
(* and that one is not committed.                                          *)
LEMMA LogOffsets ==
    ASSUME Inv
    PROVE  /\ Len(log) \in Nat
           /\ \A o \in 1..Len(log) : o \in Offsets
           /\ \A o \in 1..committed : o \in 1..Len(log)
           /\ pc \in {"notify", "record", "mark"} =>
                 position \in 1..Len(log) /\ position \notin 1..committed
BY NotifierAssumption DEF Inv, TypeOK, OffsetsOK, Offsets

(* Counting one more at one offset leaves a function of the same type.     *)
LEMMA Counted ==
    ASSUME NEW f \in [Offsets -> Nat], NEW p
    PROVE  [f EXCEPT ![p] = @ + 1] \in [Offsets -> Nat]
<1>1. \A o \in Offsets : [f EXCEPT ![p] = @ + 1][o] \in Nat
  <2> TAKE o \in Offsets
  <2>1. f[o] \in Nat
    OBVIOUS
  <2>2. [f EXCEPT ![p] = @ + 1][o] = IF o = p THEN f[o] + 1 ELSE f[o]
    OBVIOUS
  <2> QED
    BY <2>1, <2>2
<1> QED
  BY <1>1

(* Every step keeps the types.                                             *)
LEMMA TypeStep ==
    ASSUME Inv, [Next]_vars
    PROVE  TypeOK'
<1> USE NotifierAssumption DEF Inv, TypeOK
<1>0. Len(log) \in Nat
  OBVIOUS
<1>1. ASSUME NEW kind \in Kinds, Publish(kind) PROVE TypeOK'
  BY <1>0, <1>1, PublishAppends DEF Publish, session
<1>2. CASE Join
  BY <1>0, <1>2 DEF Join
<1>3. CASE Take
  BY <1>0, <1>3 DEF Take
<1>4. CASE Notify
  <2>1. /\ UNCHANGED <<log, committed, session, logged>>
        /\ pc' \in {"record", "waiting"}
    BY <1>4 DEF Notify, AfterTelegram
  <2>2. sent' \in [Offsets -> Nat]
    BY <1>4, Counted DEF Notify
  <2> QED
    BY <2>1, <2>2 DEF session
<1>5. CASE NotifyReplyLost
  <2>1. /\ UNCHANGED <<log, committed, pc, position, marked, ctx, sessions, logged>>
        /\ tries' \in 0..Attempts
    BY <1>5 DEF NotifyReplyLost, Exhausted
  <2>2. sent' \in [Offsets -> Nat]
    BY <1>5, Counted DEF NotifyReplyLost
  <2> QED
    BY <2>1, <2>2
<1>6. CASE NotifyFails
  BY <1>0, <1>6 DEF NotifyFails, Exhausted
<1>7. CASE GiveUpNotify
  BY <1>0, <1>7 DEF GiveUpNotify, AfterTelegram, session
<1>8. CASE LogEvent
  <2>1. UNCHANGED <<log, committed, session, sent>> /\ pc' = "mark"
    BY <1>8 DEF LogEvent
  <2>2. logged' \in [Offsets -> Nat]
    BY <1>8, Counted DEF LogEvent
  <2> QED
    BY <2>1, <2>2 DEF session
<1>9. CASE Mark
  BY <1>0, <1>9 DEF Mark
<1>10. CASE AutoCommit
  BY <1>0, <1>10 DEF AutoCommit, session
<1>11. CASE EndSession
  BY <1>0, <1>11 DEF EndSession
<1>12. CASE Leave
  BY <1>0, <1>12 DEF Leave, session
<1>13. CASE Crash
  BY <1>0, <1>13 DEF Crash, session
<1>14. CASE Wait \/ UNCHANGED vars
  BY <1>14 DEF Wait, vars
<1> QED
  BY <1>1, <1>2, <1>3, <1>4, <1>5, <1>6, <1>7, <1>8, <1>9, <1>10, <1>11,
     <1>12, <1>13, <1>14 DEF Next, Handle

(* Every step keeps the offsets in order.                                  *)
LEMMA OffsetsStep ==
    ASSUME Inv, [Next]_vars
    PROVE  OffsetsOK'
<1> USE NotifierAssumption DEF Inv, TypeOK, OffsetsOK
<1>0. Len(log) \in Nat
  OBVIOUS
<1>1. CASE \E kind \in Kinds : Publish(kind)
  BY <1>1 DEF Publish, session
<1>2. CASE Join
  BY <1>0, <1>2 DEF Join
<1>3. CASE Handle
  BY <1>0, <1>3 DEF Handle, Take, Notify, NotifyReplyLost, NotifyFails,
                    GiveUpNotify, LogEvent, Mark, AfterTelegram, session
<1>4. CASE AutoCommit \/ EndSession \/ Leave \/ Crash
  BY <1>0, <1>4 DEF AutoCommit, EndSession, Leave, Crash, session
<1>5. CASE Wait \/ UNCHANGED vars
  BY <1>5 DEF Wait, vars
<1> QED
  BY <1>1, <1>2, <1>3, <1>4, <1>5 DEF Next

(* A new message is unlogged and lies behind everything marked or taken.   *)
LEMMA PublishProgress ==
    ASSUME Inv, NEW kind \in Kinds, Publish(kind)
    PROVE  ProgressOK' /\ LoggedInOrder'
<1>1. /\ Len(log') = Len(log) + 1
      /\ Len(log) \in Nat /\ Len(log) < MaxLog
      /\ \A o \in 1..Len(log) : log'[o] = log[o]
  BY PublishAppends DEF Inv
<1>2. UNCHANGED <<committed, pc, position, marked, logged>>
  BY DEF Publish, session
<1>3. Len(log) + 1 \in Offsets
  BY <1>1, NotifierAssumption DEF Offsets
<1>4. position \in 0..Len(log) /\ marked \in 0..Len(log)
  BY DEF Inv, TypeOK
<1>5. ProgressOK
  BY DEF Inv
<1>6. Done(marked)'
  BY <1>1, <1>2, <1>4, <1>5 DEF ProgressOK, Done
<1>7. (pc \in {"waiting", "mark"} => Done(position))'
  BY <1>1, <1>2, <1>4, <1>5 DEF ProgressOK, Done
<1>8. (pc \in {"notify", "record"} => Done(position - 1))'
  BY <1>1, <1>2, <1>4, <1>5 DEF ProgressOK, Done
<1>9. (\A o \in Offsets : o > Len(log) => logged[o] = 0)'
  BY <1>1, <1>2, <1>5, NotifierAssumption DEF ProgressOK, Offsets
<1>10. LoggedInOrder'
  <2> SUFFICES ASSUME NEW i \in 1..Len(log'), NEW j \in 1..Len(log'),
                      i < j, logged'[j] > 0, log'[i] = "event"
               PROVE  logged'[i] > 0
    BY DEF LoggedInOrder
  <2>1. j # Len(log) + 1
    BY <1>1, <1>2, <1>3, <1>5 DEF ProgressOK
  <2>2. i \in 1..Len(log) /\ j \in 1..Len(log)
    BY <1>1, <2>1
  <2> QED
    BY <1>1, <1>2, <2>2 DEF Inv, LoggedInOrder
<1> QED
  BY <1>6, <1>7, <1>8, <1>9, <1>10 DEF ProgressOK

(* LogEvent closes the gap at the message in hand.                         *)
LEMMA LogProgress ==
    ASSUME Inv, LogEvent
    PROVE  ProgressOK' /\ LoggedInOrder'
<1>1. /\ UNCHANGED <<log, committed, position, marked>>
      /\ pc = "record" /\ pc' = "mark"
      /\ logged' = [logged EXCEPT ![position] = @ + 1]
  BY DEF LogEvent, session
<1>2. /\ Len(log) \in Nat /\ position \in 1..Len(log)
      /\ \A o \in 1..Len(log) : o \in Offsets
      /\ marked \in 0..Len(log)
      /\ logged \in [Offsets -> Nat]
  BY <1>1, LogOffsets DEF Inv, TypeOK
<1>3. /\ logged'[position] > 0
      /\ \A o \in Offsets : o # position => logged'[o] = logged[o]
  BY <1>1, <1>2
<1>4. \A o \in Offsets : logged[o] > 0 => logged'[o] > 0
  BY <1>3
<1>5. Done(position - 1) /\ Done(marked)
  BY <1>1 DEF Inv, ProgressOK
<1>6. Done(position)'
  BY <1>1, <1>2, <1>3, <1>4, <1>5 DEF Done
<1>7. Done(marked)'
  BY <1>1, <1>2, <1>4, <1>5 DEF Done
<1>8. (\A o \in Offsets : o > Len(log) => logged[o] = 0)'
  BY <1>1, <1>2, <1>3 DEF Inv, ProgressOK
<1>9. LoggedInOrder'
  <2> SUFFICES ASSUME NEW i \in 1..Len(log), NEW j \in 1..Len(log),
                      i < j, logged'[j] > 0, log[i] = "event"
               PROVE  logged'[i] > 0
    BY <1>1 DEF LoggedInOrder
  <2>1. CASE j = position
    <3>1. i \in 1..(position - 1)
      BY <1>2, <2>1
    <3> QED
      BY <1>2, <1>4, <1>5, <3>1 DEF Done
  <2>2. CASE j # position
    <3>1. logged[j] > 0
      BY <1>2, <1>3, <2>2
    <3>2. logged[i] > 0
      BY <3>1 DEF Inv, LoggedInOrder
    <3> QED
      BY <1>2, <1>4, <3>2
  <2> QED
    BY <2>1, <2>2
<1> QED
  BY <1>1, <1>6, <1>7, <1>8, <1>9 DEF ProgressOK

(* Only LogEvent, Mark, Publish and the moves of `position' touch what the *)
(* invariant says of the logged events.                                    *)
LEMMA ProgressStep ==
    ASSUME Inv, [Next]_vars
    PROVE  ProgressOK' /\ LoggedInOrder'
<1> USE NotifierAssumption DEF Inv, TypeOK, OffsetsOK, ProgressOK, Done
<1>0. Len(log) \in Nat
  OBVIOUS
<1>1. CASE \E kind \in Kinds : Publish(kind)
  BY <1>1, PublishProgress
<1>2. CASE Join
  BY <1>0, <1>2 DEF Join, LoggedInOrder
<1>3. CASE Take
  BY <1>0, <1>3 DEF Take, LoggedInOrder
<1>4. CASE Notify \/ GiveUpNotify
  <2>1. /\ UNCHANGED <<log, committed, position, marked, logged>>
        /\ pc = "notify" /\ pc' = AfterTelegram
    BY <1>4 DEF Notify, GiveUpNotify, session
  <2>2. log[position] # "event" => Done(position)
    BY <1>0, <2>1
  <2>3. ProgressOK'
    BY <1>0, <2>1, <2>2 DEF AfterTelegram
  <2> QED
    BY <2>1, <2>3 DEF LoggedInOrder
<1>5. CASE NotifyReplyLost \/ NotifyFails
  BY <1>0, <1>5 DEF NotifyReplyLost, NotifyFails, LoggedInOrder
<1>6. CASE LogEvent
  BY <1>6, LogProgress
<1>7. CASE Mark
  BY <1>0, <1>7 DEF Mark, LoggedInOrder
<1>8. CASE AutoCommit \/ EndSession \/ Leave \/ Crash
  BY <1>0, <1>8 DEF AutoCommit, EndSession, Leave, Crash, session, LoggedInOrder
<1>9. CASE Wait \/ UNCHANGED vars
  BY <1>9 DEF Wait, vars, LoggedInOrder
<1> QED
  BY <1>1, <1>2, <1>3, <1>4, <1>5, <1>6, <1>7, <1>8, <1>9 DEF Next, Handle

(* Products with the constant are hidden behind these two facts.           *)
LEMMA OneSessionMore ==
    ASSUME NEW s \in Nat
    PROVE  /\ Attempts * s \in Nat
           /\ Attempts * (s + 1) = Attempts * s + Attempts
BY NotifierAssumption

(* Every step keeps the bound on the copies in Telegram.                   *)
LEMMA CopiesStep ==
    ASSUME Inv, CopiesOK, [Next]_vars
    PROVE  CopiesOK'
<1> USE NotifierAssumption DEF Inv, TypeOK, OffsetsOK, CopiesOK, TelegramIsBounded
<1>0. Len(log) \in Nat /\ (pc \in {"notify", "record"} => position \in Offsets)
  BY DEF Offsets
<1>1. pc # "down" => /\ Earlier \in Nat
                     /\ Attempts * sessions = Earlier + Attempts
  <2>1. ASSUME pc # "down" PROVE sessions - 1 \in Nat
    BY <2>1
  <2> QED
    BY <2>1, OneSessionMore DEF Earlier
<1>2. Attempts * sessions \in Nat
  BY OneSessionMore
<1>3. CASE Join
  <2>1. /\ sessions' = sessions + 1 /\ sent' = sent /\ pc' = "waiting"
    BY <1>3 DEF Join
  <2>2. Earlier' = Attempts * sessions
    BY <2>1 DEF Earlier
  <2>3. Attempts * sessions' = Attempts * sessions + Attempts
    BY <2>1, OneSessionMore
  <2>4. \A o \in Offsets : sent'[o] <= Attempts * sessions'
    BY <1>2, <2>1, <2>3
  <2>5. \A o \in Offsets : sent'[o] <= Earlier'
    BY <2>1, <2>2
  <2> QED
    BY <2>1, <2>4, <2>5
<1>4. ASSUME UNCHANGED <<sessions, sent>>, pc' # "down" => pc # "down",
             pc' # "down" => position' >= position,
             pc' = "notify" => sent'[position'] <= Earlier + tries'
      PROVE  CopiesOK'
  <2>1. Earlier' = Earlier /\ Attempts * sessions' = Attempts * sessions
    BY <1>4 DEF Earlier
  <2>2. TelegramIsBounded'
    BY <1>4, <2>1
  <2>3. ASSUME pc' # "down", NEW o \in Offsets, o > position'
        PROVE  sent'[o] <= Earlier'
    <3>1. position \in Nat /\ position' >= position /\ o \in Nat
      BY <1>4, <2>3 DEF Offsets
    <3>2. position' \in Nat
      BY TypeStep DEF Inv, TypeOK
    <3>3. o > position
      BY <2>3, <3>1, <3>2
    <3> QED
      BY <1>4, <2>1, <2>3, <3>3
  <2> QED
    BY <1>4, <2>1, <2>2, <2>3
<1>5. CASE \E kind \in Kinds : Publish(kind)
  BY <1>4, <1>5 DEF Publish, session
<1>6. CASE Take
  <2>1. position + 1 \in Offsets
    BY <1>0, <1>6 DEF Take, Offsets
  <2> QED
    BY <1>0, <1>1, <1>4, <1>6, <2>1 DEF Take
<1>7. CASE Notify \/ NotifyReplyLost
  <2>1. /\ pc = "notify" /\ tries < Attempts
        /\ sent' = [sent EXCEPT ![position] = @ + 1]
        /\ UNCHANGED <<position, sessions>>
        /\ pc' # "notify" \/ tries' = tries + 1
        /\ pc' # "down"
    BY <1>7 DEF Notify, NotifyReplyLost, Exhausted, AfterTelegram, session
  <2>2. Earlier' = Earlier /\ Attempts * sessions' = Attempts * sessions
    BY <2>1 DEF Earlier
  <2>3. /\ sent'[position] = sent[position] + 1
        /\ \A o \in Offsets : o # position => sent'[o] = sent[o]
    BY <1>0, <2>1
  <2>4. sent'[position] <= Earlier + tries + 1
    BY <1>0, <1>1, <2>1, <2>3
  <2>5. \A o \in Offsets : sent'[o] <= Attempts * sessions
    BY <1>0, <1>1, <2>1, <2>3, <2>4
  <2>6. \A o \in Offsets : o > position => sent'[o] <= Earlier
    BY <2>1, <2>3
  <2>7. pc' = "notify" => sent'[position] <= Earlier + tries'
    BY <1>1, <2>1, <2>4
  <2> QED
    BY <2>1, <2>2, <2>5, <2>6, <2>7
<1>8. CASE NotifyFails
  BY <1>0, <1>1, <1>4, <1>8 DEF NotifyFails
<1>9. CASE GiveUpNotify
  BY <1>4, <1>9 DEF GiveUpNotify, AfterTelegram, session
<1>10. CASE LogEvent \/ Mark
  BY <1>4, <1>10 DEF LogEvent, Mark, session
<1>11. CASE AutoCommit \/ EndSession
  BY <1>4, <1>11 DEF AutoCommit, EndSession, session
<1>12. CASE Leave \/ Crash
  BY <1>4, <1>12 DEF Leave, Crash, session
<1>13. CASE Wait \/ UNCHANGED vars
  BY <1>13, <1>4 DEF Wait, vars
<1> QED
  BY <1>3, <1>5, <1>6, <1>7, <1>8, <1>9, <1>10, <1>11, <1>12, <1>13
  DEF Next, Handle

-----------------------------------------------------------------------------
(* The inductive invariant holds in every reachable state.                 *)
THEOREM Invariance == Spec => []Inv
<1>1. Inv /\ [Next]_vars => Inv'
  BY TypeStep, OffsetsStep, ProgressStep DEF Inv
<1> QED
  BY InitInv, <1>1, PTL DEF Spec

(* Every variable of Notifier keeps its type, and no offset passes the end *)
(* of the log.                                                             *)
THEOREM TypeCorrect == Spec => []TypeOK
BY Invariance, PTL DEF Inv

(* At-least-once: no valid event below the committed offset is unlogged,   *)
(* for every log, any number of sessions and crashes, any Telegram.        *)
THEOREM DeliveredBeforeCommit == Spec => []NothingSkipped
<1>1. Inv => NothingSkipped
  BY DEF Inv, TypeOK, OffsetsOK, ProgressOK, Done, NothingSkipped
<1> QED
  BY Invariance, <1>1, PTL

(* Events are logged in the order of the topic.                            *)
THEOREM InOrder == Spec => []LoggedInOrder
BY Invariance, PTL DEF Inv

(* Retries of SendMessage and new sessions never add up to more copies in  *)
(* Telegram than attempts times sessions.                                  *)
THEOREM CopiesBounded == Spec => []TelegramIsBounded
<1>1. Inv /\ CopiesOK /\ [Next]_vars => (Inv /\ CopiesOK)'
  BY TypeStep, OffsetsStep, ProgressStep, CopiesStep DEF Inv
<1>2. Spec => [](Inv /\ CopiesOK)
  BY InitInv, <1>1, PTL DEF Spec
<1>3. CopiesOK => TelegramIsBounded
  BY DEF CopiesOK
<1> QED
  BY <1>2, <1>3, PTL

(* A committed message is never logged or sent again.                      *)
THEOREM CommittedStaysDone == Spec => CommittedIsDone
<1> DEFINE Same == \A o \in 1..committed :
                      logged'[o] = logged[o] /\ sent'[o] = sent[o]
<1>1. ASSUME Inv, [Next]_vars PROVE [Same]_vars
  <2>1. CASE Notify \/ NotifyReplyLost \/ LogEvent
    <3>1. /\ position \notin 1..committed
          /\ \A o \in 1..committed : o \in Offsets
          /\ logged \in [Offsets -> Nat] /\ sent \in [Offsets -> Nat]
      BY <1>1, <2>1, LogOffsets DEF Notify, NotifyReplyLost, LogEvent, Inv, TypeOK
    <3>2. ASSUME NEW o \in 1..committed
          PROVE  logged'[o] = logged[o] /\ sent'[o] = sent[o]
      BY <2>1, <3>1, <3>2 DEF Notify, NotifyReplyLost, LogEvent
    <3> QED
      BY <3>2
  <2>2. CASE UNCHANGED <<logged, sent>>
    BY <2>2
  <2>3. \/ Notify \/ NotifyReplyLost \/ LogEvent
        \/ UNCHANGED <<logged, sent>>
    BY <1>1 DEF Next, Handle, Publish, Join, Take, NotifyFails,
       GiveUpNotify, Mark, AutoCommit, EndSession, Leave, Crash, Wait, vars
  <2> QED
    BY <2>1, <2>2, <2>3
<1> QED
  BY Invariance, <1>1, PTL DEF Spec, CommittedIsDone
=============================================================================
