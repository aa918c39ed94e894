-------------------------- MODULE MessagingProofs --------------------------
(* Proofs about Messaging: the inductive invariant, and from it the safety   *)
(* properties, the settled-row action property and the delivery refinement.  *)
EXTENDS Messaging, SequenceTheorems, TLAPS

-----------------------------------------------------------------------------
(* The queue as a set *)

\* Putting a message that is not in the queue keeps the queue free of
\* duplicates and adds just that message.
LEMMA PutMessage ==
  ASSUME NEW q \in Seq(Messages \cup {Sentinel}),
         NEW m \in Messages,
         m \notin MessagesIn(q)
  PROVE  /\ Append(q, m) \in Seq(Messages \cup {Sentinel})
         /\ MessagesIn(Append(q, m)) = MessagesIn(q) \cup {m}
         /\ Distinct(q) => Distinct(Append(q, m))
<1> DEFINE r == Append(q, m)
<1>1. /\ r \in Seq(Messages \cup {Sentinel})
      /\ Len(r) = Len(q) + 1
      /\ \A i \in 1 .. Len(q) : r[i] = q[i]
      /\ r[Len(q) + 1] = m
  OBVIOUS
<1>2. m # Sentinel
  BY MessagingAssumption
<1>3. Len(q) \in Nat
  OBVIOUS
<1> HIDE DEF r
<1>4. MessagesIn(r) = MessagesIn(q) \cup {m}
  <2>1. ASSUME NEW x \in MessagesIn(r) PROVE x \in MessagesIn(q) \cup {m}
    BY <1>1, <1>3 DEF MessagesIn
  <2>2. ASSUME NEW x \in MessagesIn(q) \cup {m} PROVE x \in MessagesIn(r)
    BY <1>1, <1>2, <1>3 DEF MessagesIn
  <2>3. QED BY <2>1, <2>2
<1>5. ASSUME Distinct(q) PROVE Distinct(r)
  BY <1>1, <1>3, <1>5 DEF Distinct, MessagesIn
<1>6. QED BY <1>1, <1>4, <1>5 DEF r

\* Putting the sentinel changes no message.
LEMMA PutSentinel ==
  ASSUME NEW q \in Seq(Messages \cup {Sentinel})
  PROVE  /\ Append(q, Sentinel) \in Seq(Messages \cup {Sentinel})
         /\ MessagesIn(Append(q, Sentinel)) = MessagesIn(q)
         /\ Distinct(q) => Distinct(Append(q, Sentinel))
<1> DEFINE r == Append(q, Sentinel)
<1>1. /\ r \in Seq(Messages \cup {Sentinel})
      /\ Len(r) = Len(q) + 1
      /\ \A i \in 1 .. Len(q) : r[i] = q[i]
      /\ r[Len(q) + 1] = Sentinel
  OBVIOUS
<1>2. Len(q) \in Nat
  OBVIOUS
<1> HIDE DEF r
<1>3. MessagesIn(r) = MessagesIn(q)
  <2>1. ASSUME NEW x \in MessagesIn(r) PROVE x \in MessagesIn(q)
    BY <1>1, <1>2 DEF MessagesIn
  <2>2. ASSUME NEW x \in MessagesIn(q) PROVE x \in MessagesIn(r)
    BY <1>1, <1>2 DEF MessagesIn
  <2>3. QED BY <2>1, <2>2
<1>4. ASSUME Distinct(q) PROVE Distinct(r)
  BY <1>1, <1>2, <1>4 DEF Distinct
<1>5. QED BY <1>1, <1>3, <1>4 DEF r

\* Taking the head removes just that message.
LEMMA GetMessage ==
  ASSUME NEW q \in Seq(Messages \cup {Sentinel}),
         q # <<>>
  PROVE  /\ Head(q) \in Messages \cup {Sentinel}
         /\ Tail(q) \in Seq(Messages \cup {Sentinel})
         /\ MessagesIn(q) = MessagesIn(Tail(q)) \cup ({Head(q)} \ {Sentinel})
         /\ Distinct(q) => /\ Distinct(Tail(q))
                           /\ Head(q) \notin MessagesIn(Tail(q))
<1> DEFINE r == Tail(q)
<1>1. /\ Head(q) \in Messages \cup {Sentinel}
      /\ r \in Seq(Messages \cup {Sentinel})
      /\ Len(r) = Len(q) - 1
      /\ \A i \in 1 .. Len(r) : r[i] = q[i + 1]
  BY HeadTailProperties
<1>2. /\ Head(q) = q[1]
      /\ Len(q) \in Nat \ {0}
  BY EmptySeq
<1> HIDE DEF r
<1>3. MessagesIn(q) = MessagesIn(r) \cup ({Head(q)} \ {Sentinel})
  <2>1. ASSUME NEW x \in MessagesIn(q)
        PROVE  x \in MessagesIn(r) \cup ({Head(q)} \ {Sentinel})
    <3>1. PICK i \in 1 .. Len(q) : x = q[i]
      BY DEF MessagesIn
    <3>2. CASE i = 1
      BY <2>1, <3>1, <3>2, <1>2 DEF MessagesIn
    <3>3. CASE i # 1
      <4>1. i - 1 \in 1 .. Len(r) /\ r[i - 1] = q[i]
        BY <3>1, <3>3, <1>1, <1>2
      <4>2. QED BY <4>1, <2>1, <3>1 DEF MessagesIn
    <3>4. QED BY <3>2, <3>3
  <2>2. ASSUME NEW x \in MessagesIn(r)
        PROVE  x \in MessagesIn(q)
    <3>1. PICK i \in 1 .. Len(r) : x = r[i]
      BY DEF MessagesIn
    <3>2. i + 1 \in 1 .. Len(q) /\ q[i + 1] = x
      BY <3>1, <1>1, <1>2
    <3>3. QED BY <2>2, <3>2 DEF MessagesIn
  <2>3. {Head(q)} \ {Sentinel} \subseteq MessagesIn(q)
    BY <1>2 DEF MessagesIn
  <2>4. QED BY <2>1, <2>2, <2>3
<1>4. ASSUME Distinct(q)
      PROVE  Distinct(r) /\ Head(q) \notin MessagesIn(r)
  <2>1. ASSUME NEW i \in 1 .. Len(r)
        PROVE  i + 1 \in 1 .. Len(q) /\ r[i] = q[i + 1]
    BY <1>1, <1>2
  <2>2. Distinct(r)
    BY <1>4, <2>1 DEF Distinct
  <2>3. Head(q) \notin MessagesIn(r)
    BY <1>4, <2>1, <1>2 DEF Distinct, MessagesIn
  <2>4. QED BY <2>2, <2>3
<1>5. QED BY <1>1, <1>3, <1>4 DEF r

\* The queue holds messages only, besides the sentinel.
LEMMA QueuedIsMessages == TypeOK => Queued \subseteq Messages
  BY ElementOfSeq DEF TypeOK, Queued, MessagesIn

\* Updating a function at one point keeps its type.
LEMMA UpdateTyped ==
  ASSUME NEW S, NEW T, NEW f \in [S -> T], NEW x \in S, NEW y \in T
  PROVE  [f EXCEPT ![x] = y] \in [S -> T]
  OBVIOUS

-----------------------------------------------------------------------------
(* The inductive invariant *)

LEMMA MessagingInit == Init => MessagingInv
<1> SUFFICES ASSUME Init PROVE MessagingInv
  OBVIOUS
<1> USE MessagingAssumption
<1>1. TypeOK
  <2>1. queue \in Seq(Messages \cup {Sentinel})
    BY EmptySeq DEF Init
  <2>2. /\ pc \in [Senders -> {"idle", "waiting", "log", "provider", "record"}]
        /\ cur \in [Senders -> Messages \cup {NoMessage}]
        /\ answer \in [Senders -> BOOLEAN]
    BY DEF Init
  <2>3. /\ stage \in [Messages -> {"new", "emitted", "handed", "dropped"}]
        /\ log \in [Messages -> {"none", "PENDING", "SENT", "FAILED"}]
        /\ attempts \in [Messages -> Nat]
    BY DEF Init
  <2>4. /\ phase \in {"down", "up", "stopping"}
        /\ running \in BOOLEAN
        /\ accepted \subseteq Messages
        /\ billed \subseteq Messages
        /\ cut \subseteq Messages
    BY DEF Init
  <2>5. starts \in 0 .. MaxStarts /\ faults \in 0 .. MaxFaults
    BY DEF Init
  <2>6. QED
    BY <2>1, <2>2, <2>3, <2>4, <2>5 DEF TypeOK
<1>2. Queued = {}
  BY DEF Init, Queued, MessagesIn
<1>3. Distinct(queue)
  BY DEF Init, Distinct
<1>4. OnePlace
  BY <1>2, <1>3 DEF Init, OnePlace
<1>5. SenderStates /\ HeldRows
  BY DEF Init, SenderStates, HeldRows
<1>6. WaitingRows /\ RowsAgree
  BY <1>2 DEF Init, WaitingRows, RowsAgree
<1>7. LifeAgrees /\ AtMostOneAttempt
  BY DEF Init, LifeAgrees, QuietWhenDown, AtMostOneAttempt, Senders
<1>8. Accounted /\ BilledExactlyWhenSent
  BY DEF Init, Accounted, BilledExactlyWhenSent
<1>9. QED
  BY <1>1, <1>4, <1>5, <1>6, <1>7, <1>8 DEF MessagingInv

\* A step of the queue, of a sender or of the life cycle keeps each part.  The
\* parts are proved with the queue seen as the set Queued.
LEMMA EmitStep ==
  ASSUME MessagingInv, NEW m \in Messages, Emit(m)
  PROVE  MessagingInv'
<1> USE MessagingAssumption DEF Emit, lifeVars, senderVars, rowVars, providerVars, MessagingInv
<1>1. TypeOK'
  BY DEF TypeOK
<1>2. Queued' = Queued /\ InFlight(Senders)' = InFlight(Senders)
  BY DEF Queued, InFlight
<1>3. OnePlace'
  BY <1>2 DEF OnePlace, Distinct
<1>4. SenderStates'
  BY DEF SenderStates
<1>5. HeldRows'
  BY DEF HeldRows, TypeOK
<1>6. WaitingRows'
  BY <1>2 DEF WaitingRows, TypeOK, Queued
<1>7. RowsAgree' /\ AtMostOneAttempt' /\ LifeAgrees' /\ BilledExactlyWhenSent'
  BY DEF RowsAgree, AtMostOneAttempt, LifeAgrees, QuietWhenDown, BilledExactlyWhenSent
<1>8. Accounted'
  BY <1>2 DEF Accounted, TypeOK
<1>9. QED
  BY <1>1, <1>3, <1>4, <1>5, <1>6, <1>7, <1>8 DEF MessagingInv

LEMMA HandleEventStep ==
  ASSUME MessagingInv, NEW m \in Messages, HandleEvent(m)
  PROVE  MessagingInv'
<1> USE MessagingAssumption DEF HandleEvent, lifeVars, senderVars, rowVars, providerVars, MessagingInv
<1>1. m \notin Queued
  BY DEF WaitingRows
<1>2. /\ queue' \in Seq(Messages \cup {Sentinel})
      /\ Queued' = IF m \in Reachable THEN Queued \cup {m} ELSE Queued
      /\ Distinct(queue)'
  <2>1. queue \in Seq(Messages \cup {Sentinel}) /\ Distinct(queue) /\ m \notin MessagesIn(queue)
    BY <1>1 DEF TypeOK, OnePlace, Queued
  <2>2. CASE m \in Reachable
    BY <2>1, <2>2, PutMessage DEF Queued
  <2>3. CASE m \notin Reachable
    BY <2>1, <2>3 DEF Queued
  <2>4. QED BY <2>2, <2>3
<1>3. TypeOK'
  BY <1>2 DEF TypeOK
<1>4. InFlight(Senders)' = InFlight(Senders)
  BY DEF InFlight
<1>5. \A s \in Senders : cur[s] # m
  BY DEF HeldRows, SenderStates, TypeOK
<1>6. OnePlace'
  BY <1>2, <1>5 DEF OnePlace
<1>7. SenderStates'
  BY DEF SenderStates
<1>8. HeldRows'
  BY <1>5 DEF HeldRows, TypeOK
<1>9. Queued \subseteq Queued'
  BY <1>2
<1>10. WaitingRows'
  <2>1. log[m] = "none" /\ log' = log
    BY DEF WaitingRows
  <2>2. ASSUME NEW x \in Queued' PROVE log'[x] = "none" /\ stage'[x] = "handed"
    <3>1. x \in Queued => x \in Messages /\ x # m /\ log[x] = "none" /\ stage[x] = "handed"
      BY <1>1, QueuedIsMessages DEF WaitingRows
    <3>2. x = m => m \in Reachable
      BY <1>1, <1>2, <2>2
    <3>3. QED BY <1>2, <2>1, <2>2, <3>1, <3>2 DEF TypeOK
  <2>3. ASSUME NEW x \in Messages, stage'[x] # "handed" PROVE log'[x] = "none"
    BY <2>1, <2>3 DEF WaitingRows, TypeOK
  <2>4. QED BY <2>2, <2>3 DEF WaitingRows
<1>11. RowsAgree' /\ AtMostOneAttempt' /\ LifeAgrees' /\ BilledExactlyWhenSent'
  BY DEF RowsAgree, AtMostOneAttempt, LifeAgrees, QuietWhenDown, BilledExactlyWhenSent
<1>12. Accounted'
  BY <1>2, <1>4, <1>9 DEF Accounted, TypeOK
<1>13. QED
  BY <1>3, <1>6, <1>7, <1>8, <1>10, <1>11, <1>12 DEF MessagingInv

LEMMA RequestSendStep ==
  ASSUME MessagingInv, NEW r \in Callers, NEW m \in Messages, RequestSend(r, m)
  PROVE  MessagingInv'
<1> USE MessagingAssumption DEF RequestSend, lifeVars, rowVars, providerVars, MessagingInv
<1>1. r \in Senders /\ r # Worker /\ m # NoMessage
  BY DEF Senders
<1>2. TypeOK'
  BY <1>1 DEF TypeOK
<1>3. Queued' = Queued /\ Queued \subseteq Messages
  BY QueuedIsMessages DEF Queued
<1>4. m \notin Queued /\ log[m] = "none"
  BY DEF WaitingRows
<1>5. \A s \in Senders : cur[s] # m
  BY <1>1 DEF HeldRows
<1>6. cur[r] = NoMessage /\ ~ answer[r]
  BY <1>1 DEF SenderStates
<1>7. \A s \in Senders : /\ cur'[s] = IF s = r THEN m ELSE cur[s]
                         /\ pc'[s] = IF s = r THEN "log" ELSE pc[s]
  BY <1>1 DEF TypeOK
<1>8. OnePlace'
  BY <1>1, <1>3, <1>4, <1>5, <1>7 DEF OnePlace, Distinct
<1>9. SenderStates'
  BY <1>1, <1>6, <1>7 DEF SenderStates
<1>10. HeldRows'
  BY <1>1, <1>4, <1>5, <1>6, <1>7 DEF HeldRows, SenderStates, TypeOK
<1>11. WaitingRows'
  BY <1>3, <1>4 DEF WaitingRows, TypeOK
<1>12. RowsAgree' /\ AtMostOneAttempt' /\ LifeAgrees' /\ BilledExactlyWhenSent'
  BY <1>1, <1>7 DEF RowsAgree, AtMostOneAttempt, LifeAgrees, QuietWhenDown,
                    BilledExactlyWhenSent, Senders
<1>13. InFlight(Senders) \cup {m} \subseteq InFlight(Senders)'
  BY <1>1, <1>6, <1>7 DEF InFlight
<1>14. Accounted'
  BY <1>3, <1>13 DEF Accounted, TypeOK
<1>15. QED
  BY <1>2, <1>8, <1>9, <1>10, <1>11, <1>12, <1>14 DEF MessagingInv

LEMMA WorkerTakeStep ==
  ASSUME MessagingInv, WorkerTake
  PROVE  MessagingInv'
<1> DEFINE m == Head(queue)
<1> USE MessagingAssumption DEF WorkerTake, AfterGet, lifeVars, rowVars, providerVars, MessagingInv
<1>1. /\ m \in Messages
      /\ queue' \in Seq(Messages \cup {Sentinel})
      /\ Queued = Queued' \cup {m}
      /\ Distinct(queue)'
      /\ m \notin Queued'
  BY GetMessage DEF TypeOK, OnePlace, Queued
<1> HIDE DEF m
<1>2. cur' = [cur EXCEPT ![Worker] = m]
  BY DEF m
<1>3. Worker \in Senders /\ m # NoMessage
  BY <1>1 DEF Senders
<1>4. TypeOK'
  BY <1>1, <1>2, <1>3 DEF TypeOK
<1>5. log[m] = "none" /\ stage[m] = "handed"
  BY <1>1 DEF WaitingRows
<1>6. \A s \in Senders : cur[s] \notin Queued
  BY DEF OnePlace
<1>7. cur[Worker] = NoMessage /\ ~ answer[Worker]
  BY <1>3 DEF SenderStates
<1>8. \A s \in Senders : /\ cur'[s] = IF s = Worker THEN m ELSE cur[s]
                         /\ pc'[s] = IF s = Worker THEN "log" ELSE pc[s]
  BY <1>2, <1>3 DEF TypeOK
<1>9. OnePlace'
  BY <1>1, <1>3, <1>6, <1>8 DEF OnePlace
<1>10. SenderStates'
  BY <1>3, <1>7, <1>8 DEF SenderStates
<1>11. HeldRows'
  BY <1>3, <1>5, <1>7, <1>8 DEF HeldRows
<1>12. WaitingRows'
  BY <1>1 DEF WaitingRows
<1>13. RowsAgree' /\ AtMostOneAttempt' /\ BilledExactlyWhenSent'
  BY DEF RowsAgree, AtMostOneAttempt, BilledExactlyWhenSent
<1>14. LifeAgrees'
  BY DEF LifeAgrees, QuietWhenDown
<1>15. InFlight(Senders) \cup {m} \subseteq InFlight(Senders)'
  BY <1>3, <1>7, <1>8 DEF InFlight
<1>16. Accounted'
  BY <1>1, <1>15 DEF Accounted
<1>17. QED
  BY <1>4, <1>9, <1>10, <1>11, <1>12, <1>13, <1>14, <1>16 DEF MessagingInv

LEMMA WorkerBreakStep ==
  ASSUME MessagingInv, WorkerBreak
  PROVE  MessagingInv'
<1> USE MessagingAssumption DEF WorkerBreak, AfterGet, lifeVars, rowVars, providerVars, MessagingInv
<1>1. /\ queue' \in Seq(Messages \cup {Sentinel})
      /\ Queued = Queued'
      /\ Distinct(queue)'
  <2>1. queue \in Seq(Messages \cup {Sentinel}) /\ Distinct(queue) /\ queue # <<>>
    BY DEF TypeOK, OnePlace
  <2>2. /\ queue' \in Seq(Messages \cup {Sentinel})
        /\ MessagesIn(queue) = MessagesIn(queue') \cup ({Sentinel} \ {Sentinel})
        /\ Distinct(queue')
    BY <2>1, GetMessage
  <2>3. QED BY <2>2 DEF Queued
<1>2. Worker \in Senders
  BY DEF Senders
<1>3. TypeOK'
  BY <1>1, <1>2 DEF TypeOK
<1>4. \A s \in Senders : pc'[s] = IF s = Worker THEN "idle" ELSE pc[s]
  BY <1>2 DEF TypeOK
<1>5. OnePlace'
  BY <1>1 DEF OnePlace
<1>6. SenderStates'
  BY <1>2, <1>4 DEF SenderStates
<1>7. HeldRows'
  BY <1>2, <1>4 DEF HeldRows
<1>8. WaitingRows' /\ RowsAgree' /\ AtMostOneAttempt' /\ BilledExactlyWhenSent'
  BY <1>1 DEF WaitingRows, RowsAgree, AtMostOneAttempt, BilledExactlyWhenSent
<1>9. LifeAgrees'
  BY <1>2, <1>4 DEF LifeAgrees, QuietWhenDown
<1>10. Accounted'
  BY <1>1 DEF Accounted, InFlight
<1>11. QED
  BY <1>3, <1>5, <1>6, <1>7, <1>8, <1>9, <1>10 DEF MessagingInv

\* What the end of a send does to the senders, shared by the steps that end one.
LEMMA FinishEffect ==
  ASSUME TypeOK, NEW s \in Senders, Finish(s)
  PROVE  /\ pc' \in [Senders -> {"idle", "waiting", "log", "provider", "record"}]
         /\ cur' \in [Senders -> Messages \cup {NoMessage}]
         /\ answer' \in [Senders -> BOOLEAN]
         /\ AfterSend(s) \in {"idle", "waiting"}
         /\ AfterSend(s) = "waiting" => s = Worker /\ running
         /\ \A t \in Senders : /\ pc'[t] = IF t = s THEN AfterSend(s) ELSE pc[t]
                               /\ cur'[t] = IF t = s THEN NoMessage ELSE cur[t]
                               /\ answer'[t] = IF t = s THEN FALSE ELSE answer[t]
<1>1. /\ AfterSend(s) \in {"idle", "waiting"}
      /\ AfterSend(s) = "waiting" => s = Worker /\ running
  BY DEF AfterSend
<1>2. /\ pc' \in [Senders -> {"idle", "waiting", "log", "provider", "record"}]
      /\ \A t \in Senders : pc'[t] = IF t = s THEN AfterSend(s) ELSE pc[t]
  BY <1>1 DEF TypeOK, Finish
<1>3. /\ cur' \in [Senders -> Messages \cup {NoMessage}]
      /\ \A t \in Senders : cur'[t] = IF t = s THEN NoMessage ELSE cur[t]
  BY DEF TypeOK, Finish
<1>4. /\ answer' \in [Senders -> BOOLEAN]
      /\ \A t \in Senders : answer'[t] = IF t = s THEN FALSE ELSE answer[t]
  BY DEF TypeOK, Finish
<1>5. QED BY <1>1, <1>2, <1>3, <1>4

\* Ending a send keeps the parts that speak of senders and the queue only.
LEMMA FinishKeeps ==
  ASSUME MessagingInv, NEW s \in Senders, Finish(s),
         pc[s] \in {"log", "provider", "record"},
         UNCHANGED <<lifeVars, queue, stage>>
  PROVE  /\ cur[s] \in Messages
         /\ Queued' = Queued
         /\ OnePlace' /\ SenderStates' /\ LifeAgrees'
         /\ InFlight(Senders) \subseteq InFlight(Senders)' \cup {cur[s]}
         /\ \A t \in Senders : t # s => cur[t] # cur[s]
<1> USE MessagingAssumption DEF MessagingInv
<1>1. cur[s] \in Messages
  BY DEF SenderStates, TypeOK
<1>2. Queued' = Queued
  BY DEF Queued
<1>3. OnePlace'
  <2>1. /\ \A t \in Senders : cur'[t] = IF t = s THEN NoMessage ELSE cur[t]
        /\ NoMessage \notin Queued
    BY FinishEffect, QueuedIsMessages
  <2>2. Distinct(queue)'
    BY DEF OnePlace, Distinct
  <2>3. QED BY <1>2, <2>1, <2>2 DEF OnePlace
<1>4. SenderStates'
  BY FinishEffect DEF SenderStates
<1>5. Worker \in Senders
  BY DEF Senders
<1>6. LifeAgrees'
  BY <1>5, FinishEffect DEF LifeAgrees, QuietWhenDown, lifeVars
<1>7. InFlight(Senders) \subseteq InFlight(Senders)' \cup {cur[s]}
  <2>1. ASSUME NEW x \in InFlight(Senders), x # cur[s] PROVE x \in InFlight(Senders)'
    <3>1. PICK t \in Senders : x = cur[t]
      BY DEF InFlight
    <3>2. t # s /\ cur'[t] = x /\ x # NoMessage
      BY <2>1, <3>1, FinishEffect DEF InFlight
    <3>3. QED BY <3>2 DEF InFlight
  <2>2. QED BY <2>1
<1>8. \A t \in Senders : t # s => cur[t] # cur[s]
  BY <1>1 DEF OnePlace
<1>9. QED BY <1>1, <1>2, <1>3, <1>4, <1>6, <1>7, <1>8

LEMMA LogPendingStep ==
  ASSUME MessagingInv, NEW s \in Senders, LogPending(s)
  PROVE  MessagingInv'
<1> DEFINE m == cur[s]
<1> USE MessagingAssumption DEF LogPending, lifeVars, providerVars, MessagingInv
<1>1. m \in Messages /\ log[m] = "none" /\ stage[m] = "handed" /\ attempts[m] = 0
  BY DEF SenderStates, HeldRows, RowsAgree, TypeOK
<1> HIDE DEF m
<1>2. log' = [log EXCEPT ![m] = "PENDING"]
  BY DEF m
<1>3. \A t \in Senders : /\ t # s => cur[t] # m
                         /\ pc'[t] = IF t = s THEN "provider" ELSE pc[t]
  BY <1>1 DEF OnePlace, TypeOK, m
<1>4. Queued' = Queued /\ m \notin Queued
  BY DEF Queued, OnePlace, m
<1>5. TypeOK'
  BY <1>1, <1>2 DEF TypeOK
<1>6. OnePlace'
  BY <1>4 DEF OnePlace, Distinct
<1>7. SenderStates'
  BY <1>3 DEF SenderStates
<1>8. HeldRows'
  <2>1. ~ answer[s]
    BY DEF SenderStates
  <2>2. QED BY <1>1, <1>2, <1>3, <2>1, QueuedIsMessages DEF HeldRows, SenderStates, TypeOK, m
<1>9. WaitingRows'
  <2>1. stage' = stage /\ WaitingRows /\ Queued \subseteq Messages
    BY QueuedIsMessages
  <2>2. \A x \in Messages \ {m} : log'[x] = log[x]
    BY <1>2 DEF TypeOK
  <2>3. ASSUME NEW x \in Queued' PROVE log'[x] = "none" /\ stage'[x] = "handed"
    BY <1>4, <2>1, <2>2, <2>3 DEF WaitingRows
  <2>4. ASSUME NEW x \in Messages, stage'[x] # "handed" PROVE log'[x] = "none"
    BY <1>1, <2>1, <2>2, <2>4 DEF WaitingRows
  <2>5. QED BY <2>3, <2>4 DEF WaitingRows
<1>10. RowsAgree' /\ AtMostOneAttempt'
  BY <1>1, <1>2 DEF RowsAgree, AtMostOneAttempt, TypeOK
<1>11. BilledExactlyWhenSent'
  BY <1>1, <1>2 DEF BilledExactlyWhenSent, TypeOK
<1>12. LifeAgrees'
  BY <1>3 DEF LifeAgrees, QuietWhenDown, Senders
<1>13. InFlight(Senders)' = InFlight(Senders) /\ m \in InFlight(Senders)
  BY <1>1 DEF InFlight, m
<1>14. Accounted'
  BY <1>2, <1>4, <1>13 DEF Accounted, TypeOK
<1>15. QED
  BY <1>5, <1>6, <1>7, <1>8, <1>9, <1>10, <1>11, <1>12, <1>14 DEF MessagingInv

\* Ending a send whose row is left as status (its old one when the first commit
\* failed) keeps the parts that speak of rows.
LEMMA FinishRows ==
  ASSUME MessagingInv, NEW s \in Senders, Finish(s),
         pc[s] \in {"log", "provider", "record"},
         UNCHANGED <<lifeVars, queue, stage, providerVars>>,
         NEW status \in {"none", "PENDING", "SENT", "FAILED"},
         log' = [log EXCEPT ![cur[s]] = status],
         status = "none" => log[cur[s]] = "none",
         status = "SENT" => cur[s] \in accepted
  PROVE  log' \in [Messages -> {"none", "PENDING", "SENT", "FAILED"}]
         /\ HeldRows' /\ WaitingRows' /\ RowsAgree' /\ AtMostOneAttempt'
<1> DEFINE m == cur[s]
<1> USE MessagingAssumption DEF MessagingInv
<1>1. /\ m \in Messages
      /\ \A t \in Senders : t # s => cur[t] # m
      /\ Queued' = Queued
  BY FinishKeeps
<1>2. m \notin Queued /\ stage[m] = "handed"
  BY <1>1 DEF OnePlace, HeldRows
<1> HIDE DEF m
<1>3. /\ log' = [log EXCEPT ![m] = status]
      /\ status = "none" => log[m] = "none"
      /\ status = "SENT" => m \in accepted
  BY DEF m
<1>4. /\ log' \in [Messages -> {"none", "PENDING", "SENT", "FAILED"}]
      /\ \A x \in Messages : log'[x] = IF x = m THEN status ELSE log[x]
  <2>1. log \in [Messages -> {"none", "PENDING", "SENT", "FAILED"}]
    BY DEF TypeOK
  <2>2. \A x \in Messages : log'[x] = IF x = m THEN status ELSE log[x]
    BY <1>1, <1>3, <2>1
  <2>3. log' \in [Messages -> {"none", "PENDING", "SENT", "FAILED"}]
    BY <1>1, <1>3, <2>1, UpdateTyped
  <2>4. QED BY <2>2, <2>3
<1>5. \A t \in Senders : /\ pc'[t] = IF t = s THEN AfterSend(s) ELSE pc[t]
                         /\ cur'[t] = IF t = s THEN NoMessage ELSE cur[t]
                         /\ answer'[t] = IF t = s THEN FALSE ELSE answer[t]
                         /\ AfterSend(s) \in {"idle", "waiting"}
  BY FinishEffect
<1>6. \A t \in Senders : cur[t] # NoMessage => cur[t] \in Messages
  BY DEF TypeOK
<1>7. HeldRows'
  <2>1. ASSUME NEW t \in Senders
        PROVE  /\ pc'[t] = "log" => log'[cur'[t]] = "none"
               /\ pc'[t] = "provider" => log'[cur'[t]] = "PENDING" /\ attempts'[cur'[t]] = 0
               /\ pc'[t] = "record" => log'[cur'[t]] = "PENDING"
               /\ answer'[t] => cur'[t] \in accepted'
               /\ cur'[t] # NoMessage => stage'[cur'[t]] = "handed"
    <3>1. CASE t = s
      BY <1>5, <3>1
    <3>2. CASE t # s
      <4>1. /\ pc'[t] = pc[t] /\ cur'[t] = cur[t] /\ answer'[t] = answer[t]
            /\ attempts' = attempts /\ accepted' = accepted /\ stage' = stage
        BY <1>5, <3>2 DEF providerVars
      <4>2. cur[t] # NoMessage => log'[cur[t]] = log[cur[t]]
        BY <1>1, <1>4, <1>6, <3>2
      <4>3. pc[t] \in {"log", "provider", "record"} => cur[t] # NoMessage
        BY DEF SenderStates
      <4>4. QED BY <4>1, <4>2, <4>3 DEF HeldRows
    <3>3. QED BY <3>1, <3>2
  <2>2. QED BY <2>1 DEF HeldRows
<1>8. WaitingRows'
  BY <1>1, <1>2, <1>4, QueuedIsMessages DEF WaitingRows
<1>9. RowsAgree' /\ AtMostOneAttempt'
  BY <1>1, <1>3, <1>4 DEF RowsAgree, AtMostOneAttempt, providerVars
<1>10. QED BY <1>4, <1>7, <1>8, <1>9

LEMMA LogPendingFailsStep ==
  ASSUME MessagingInv, NEW s \in Senders, LogPendingFails(s)
  PROVE  MessagingInv'
<1> DEFINE m == cur[s]
<1> USE MessagingAssumption DEF LogPendingFails, MessagingInv
<1>1. /\ m \in Messages
      /\ Queued' = Queued
      /\ OnePlace' /\ SenderStates' /\ LifeAgrees'
      /\ InFlight(Senders) \subseteq InFlight(Senders)' \cup {m}
  BY FinishKeeps
<1>2. log[m] = "none"
  BY DEF HeldRows
<1>3. UNCHANGED <<log, billed>> /\ cut' = cut \cup {m}
  BY DEF rowVars
<1>4. log' = [log EXCEPT ![m] = "none"]
  BY <1>1, <1>2, <1>3 DEF TypeOK
<1>5. HeldRows' /\ WaitingRows' /\ RowsAgree' /\ AtMostOneAttempt'
  BY <1>2, <1>4, FinishRows
<1>6. faults' \in 0 .. MaxFaults
  BY DEF TypeOK
<1>7. TypeOK'
  BY <1>1, <1>3, <1>6, FinishEffect DEF TypeOK, lifeVars, providerVars
<1>8. Accounted' /\ BilledExactlyWhenSent'
  BY <1>1, <1>3 DEF Accounted, BilledExactlyWhenSent
<1>9. QED
  BY <1>1, <1>5, <1>7, <1>8 DEF MessagingInv

LEMMA CallProviderStep ==
  ASSUME MessagingInv, NEW s \in Senders, CallProvider(s)
  PROVE  MessagingInv'
<1> DEFINE m == cur[s]
<1> USE MessagingAssumption DEF MessagingInv
<1>1. m \in Messages /\ log[m] = "PENDING" /\ attempts[m] = 0 /\ m \notin accepted
  BY DEF CallProvider, SenderStates, HeldRows, RowsAgree, TypeOK
<1>2. /\ UNCHANGED <<phase, running, starts, queue, cur, stage, log, billed, cut, faults>>
      /\ pc' = [pc EXCEPT ![s] = "record"]
      /\ pc[s] = "provider"
      /\ answer' \in [Senders -> BOOLEAN]
      /\ \A t \in Senders : t # s => answer'[t] = answer[t]
      /\ answer'[s] => m \in accepted'
  BY DEF CallProvider, TypeOK, lifeVars, rowVars
<1>3. /\ attempts' = attempts \/ attempts' = [attempts EXCEPT ![m] = 1]
      /\ accepted' = accepted \/ accepted' = accepted \cup {m}
      /\ accepted' # accepted => attempts' = [attempts EXCEPT ![m] = 1]
  BY <1>1 DEF CallProvider, TypeOK, providerVars
<1> HIDE DEF m
<1>4. TypeOK'
  <2>1. attempts' \in [Messages -> Nat] /\ accepted' \subseteq Messages
    BY <1>1, <1>3 DEF TypeOK
  <2>2. pc' \in [Senders -> {"idle", "waiting", "log", "provider", "record"}]
    BY <1>2 DEF TypeOK
  <2>3. QED BY <1>2, <2>1, <2>2 DEF TypeOK
<1>5. Queued' = Queued /\ InFlight(Senders)' = InFlight(Senders)
  BY <1>2 DEF Queued, InFlight
<1>6. OnePlace'
  BY <1>2, <1>5 DEF OnePlace, Distinct
<1>7. \A t \in Senders : /\ t # s => cur[t] # m
                         /\ pc'[t] = IF t = s THEN "record" ELSE pc[t]
  BY <1>1, <1>2 DEF OnePlace, TypeOK, m
<1>8. SenderStates'
  BY <1>2, <1>7 DEF SenderStates
<1>9. \A x \in Messages : x # m => /\ attempts'[x] = attempts[x]
                                   /\ x \in accepted' <=> x \in accepted
  BY <1>3 DEF TypeOK
<1>10. HeldRows'
  <2>1. ASSUME NEW t \in Senders
        PROVE  /\ pc'[t] = "log" => log'[cur'[t]] = "none"
               /\ pc'[t] = "provider" => log'[cur'[t]] = "PENDING" /\ attempts'[cur'[t]] = 0
               /\ pc'[t] = "record" => log'[cur'[t]] = "PENDING"
               /\ answer'[t] => cur'[t] \in accepted'
               /\ cur'[t] # NoMessage => stage'[cur'[t]] = "handed"
    <3>1. CASE t = s
      BY <1>1, <1>2, <1>7, <3>1 DEF HeldRows, m
    <3>2. CASE t # s
      <4>1. /\ pc'[t] = pc[t] /\ cur'[t] = cur[t] /\ answer'[t] = answer[t]
            /\ log' = log /\ stage' = stage
        BY <1>2, <1>7, <3>2
      <4>2. pc[t] \in {"log", "provider", "record"} \/ answer[t] => cur[t] \in Messages \ {m}
        BY <1>7, <3>2 DEF SenderStates, TypeOK
      <4>3. QED BY <4>1, <4>2, <1>9 DEF HeldRows
    <3>3. QED BY <3>1, <3>2
  <2>2. QED BY <2>1 DEF HeldRows
<1>11. WaitingRows' /\ BilledExactlyWhenSent'
  BY <1>2, <1>5 DEF WaitingRows, BilledExactlyWhenSent
<1>12. attempts'[m] \in {0, 1} /\ (m \in accepted' => attempts'[m] = 1)
  BY <1>1, <1>3 DEF TypeOK
<1>13. RowsAgree' /\ AtMostOneAttempt'
  BY <1>1, <1>2, <1>9, <1>12 DEF RowsAgree, AtMostOneAttempt
<1>14. LifeAgrees'
  BY <1>2, <1>7 DEF LifeAgrees, QuietWhenDown, Senders
<1>15. Accounted'
  BY <1>2, <1>5 DEF Accounted
<1>16. QED
  BY <1>4, <1>6, <1>8, <1>10, <1>11, <1>13, <1>14, <1>15 DEF MessagingInv

LEMMA RecordOutcomeStep ==
  ASSUME MessagingInv, NEW s \in Senders, RecordOutcome(s)
  PROVE  MessagingInv'
<1> DEFINE m == cur[s]
<1> DEFINE status == Outcome(answer[s])
<1> USE MessagingAssumption DEF MessagingInv
<1>1. /\ Finish(s) /\ pc[s] = "record"
      /\ UNCHANGED <<lifeVars, queue, stage, providerVars, cut, faults>>
      /\ log' = [log EXCEPT ![m] = status]
      /\ billed' = IF Charged(m, answer[s]) THEN billed \cup {m} ELSE billed
  BY DEF RecordOutcome
<1>2. /\ m \in Messages
      /\ Queued' = Queued
      /\ OnePlace' /\ SenderStates' /\ LifeAgrees'
      /\ InFlight(Senders) \subseteq InFlight(Senders)' \cup {m}
  BY <1>1, FinishKeeps
<1>3. /\ status \in {"SENT", "FAILED"}
      /\ status = "SENT" <=> answer[s]
  BY DEF Outcome
<1>4. /\ answer[s] => m \in accepted
      /\ log[m] = "PENDING"
  BY <1>1 DEF HeldRows
<1>5. log' \in [Messages -> {"none", "PENDING", "SENT", "FAILED"}]
      /\ HeldRows' /\ WaitingRows' /\ RowsAgree' /\ AtMostOneAttempt'
  BY <1>1, <1>3, <1>4, FinishRows
<1>6. \A x \in Messages : log'[x] = IF x = m THEN status ELSE log[x]
  BY <1>1, <1>2 DEF TypeOK
<1>7. billed' \subseteq Messages
  BY <1>1, <1>2 DEF TypeOK
<1>8. TypeOK'
  BY <1>1, <1>2, <1>5, <1>7, FinishEffect DEF TypeOK, lifeVars, providerVars
<1>9. Accounted'
  BY <1>1, <1>2, <1>3, <1>6 DEF Accounted
<1>10. BilledExactlyWhenSent'
  <2>1. m \in Billable => m \notin billed
    BY <1>2, <1>4 DEF BilledExactlyWhenSent
  <2>2. ASSUME NEW x \in Billable PROVE x \in billed' <=> log'[x] = "SENT"
    <3>1. CASE x = m
      BY <1>1, <1>2, <1>3, <1>6, <2>1, <3>1 DEF Charged
    <3>2. CASE x # m
      BY <1>1, <1>6, <3>2 DEF BilledExactlyWhenSent
    <3>3. QED BY <3>1, <3>2
  <2>3. QED BY <2>2 DEF BilledExactlyWhenSent
<1>11. QED
  BY <1>2, <1>5, <1>8, <1>9, <1>10 DEF MessagingInv

LEMMA RecordErrorStep ==
  ASSUME MessagingInv, NEW s \in Senders, RecordError(s)
  PROVE  MessagingInv'
<1> DEFINE m == cur[s]
<1> USE MessagingAssumption DEF MessagingInv
<1>1. PICK status \in {"FAILED", "PENDING"} : log' = [log EXCEPT ![m] = status]
  BY DEF RecordError
<1>2. /\ Finish(s) /\ pc[s] = "record"
      /\ UNCHANGED <<lifeVars, queue, stage, providerVars, billed>>
      /\ cut' = cut \cup {m}
      /\ faults' \in 0 .. MaxFaults
  BY DEF RecordError, TypeOK
<1>3. /\ m \in Messages
      /\ Queued' = Queued
      /\ OnePlace' /\ SenderStates' /\ LifeAgrees'
      /\ InFlight(Senders) \subseteq InFlight(Senders)' \cup {m}
  BY <1>2, FinishKeeps
<1>4. log[m] = "PENDING"
  BY <1>2 DEF HeldRows
<1>5. log' \in [Messages -> {"none", "PENDING", "SENT", "FAILED"}]
      /\ HeldRows' /\ WaitingRows' /\ RowsAgree' /\ AtMostOneAttempt'
  BY <1>1, <1>2, <1>4, FinishRows
<1>6. \A x \in Messages : log'[x] = IF x = m THEN status ELSE log[x]
  BY <1>1, <1>3 DEF TypeOK
<1>7. TypeOK'
  BY <1>2, <1>3, <1>5, FinishEffect DEF TypeOK, lifeVars, providerVars
<1>8. Accounted' /\ BilledExactlyWhenSent'
  BY <1>2, <1>3, <1>4, <1>6 DEF Accounted, BilledExactlyWhenSent
<1>9. QED
  BY <1>3, <1>5, <1>7, <1>8 DEF MessagingInv

LEMMA StartStopStep ==
  ASSUME MessagingInv, Start \/ Stop \/ StopReturns
  PROVE  MessagingInv'
<1> USE MessagingAssumption DEF MessagingInv
<1>1. /\ UNCHANGED <<cur, answer, stage, log, billed, attempts, accepted, cut, faults>>
      /\ starts' \in 0 .. MaxStarts
  BY DEF Start, Stop, StopReturns, TypeOK, senderVars, rowVars, providerVars
<1>2. /\ phase' \in {"down", "up", "stopping"}
      /\ running' \in BOOLEAN
      /\ running' <=> phase' = "up"
  <2>1. CASE Start
    <3>1. phase' = "up" /\ running' = TRUE
      BY <2>1 DEF Start
    <3>2. QED BY <3>1
  <2>2. CASE Stop
    <3>1. phase' = "stopping" /\ running' = FALSE
      BY <2>2 DEF Stop
    <3>2. QED BY <3>1
  <2>3. CASE StopReturns
    <3>1. phase = "stopping" /\ phase' = "down" /\ running' = running
      BY <2>3 DEF StopReturns
    <3>2. ~ running /\ running \in BOOLEAN
      BY <3>1 DEF LifeAgrees, TypeOK
    <3>3. QED BY <3>1, <3>2
  <2>4. QED BY <2>1, <2>2, <2>3
<1>3. /\ queue' \in Seq(Messages \cup {Sentinel})
      /\ Queued' = Queued
      /\ Distinct(queue)'
  <2>1. queue \in Seq(Messages \cup {Sentinel}) /\ Distinct(queue)
    BY DEF TypeOK, OnePlace
  <2>2. CASE queue' = queue
    BY <2>1, <2>2 DEF Queued
  <2>3. CASE queue' = Append(queue, Sentinel)
    BY <2>1, <2>3, PutSentinel DEF Queued
  <2>4. QED BY <2>2, <2>3 DEF Start, Stop, StopReturns
<1>4. Worker \in Senders
  BY DEF Senders
<1>5. \/ pc' = pc
      \/ pc' = [pc EXCEPT ![Worker] = "waiting"] /\ pc[Worker] = "idle" /\ phase' # "down"
  BY DEF Start, Stop, StopReturns, senderVars, LifeAgrees, QuietWhenDown
<1>6. /\ pc' \in [Senders -> {"idle", "waiting", "log", "provider", "record"}]
      /\ \A t \in Senders : \/ pc'[t] = pc[t]
                            \/ t = Worker /\ pc'[t] = "waiting" /\ pc[t] = "idle"
  BY <1>4, <1>5 DEF TypeOK
<1>7. TypeOK'
  BY <1>1, <1>2, <1>3, <1>6 DEF TypeOK
<1>8. OnePlace'
  BY <1>1, <1>3 DEF OnePlace
<1>9. SenderStates'
  BY <1>1, <1>6 DEF SenderStates
<1>10. HeldRows'
  BY <1>1, <1>6 DEF HeldRows
<1>11. WaitingRows' /\ RowsAgree' /\ AtMostOneAttempt' /\ BilledExactlyWhenSent'
  BY <1>1, <1>3 DEF WaitingRows, RowsAgree, AtMostOneAttempt, BilledExactlyWhenSent
<1>12. QuietWhenDown'
  BY <1>5 DEF Start, Stop, StopReturns, MayReturn, LifeAgrees, QuietWhenDown
<1>13. Accounted'
  BY <1>1, <1>3 DEF Accounted, InFlight
<1>14. QED
  BY <1>2, <1>7, <1>8, <1>9, <1>10, <1>11, <1>12, <1>13 DEF MessagingInv, LifeAgrees

\* What the loss of the senders in S does to the senders.
LEMMA AbandonEffect ==
  ASSUME MessagingInv, NEW S \in SUBSET Senders, Abandon(S)
  PROVE  /\ pc' \in [Senders -> {"idle", "waiting", "log", "provider", "record"}]
         /\ cur' \in [Senders -> Messages \cup {NoMessage}]
         /\ answer' \in [Senders -> BOOLEAN]
         /\ \A t \in Senders :
              /\ pc'[t] = IF t \in S THEN "idle" ELSE pc[t]
              /\ cur'[t] = IF t \in S THEN NoMessage ELSE cur[t]
              /\ answer'[t] = IF t \in S THEN FALSE ELSE answer[t]
         /\ SenderStates'
         /\ InFlight(Senders) \subseteq InFlight(Senders)' \cup InFlight(S)
<1> USE DEF MessagingInv
<1>1. /\ pc' \in [Senders -> {"idle", "waiting", "log", "provider", "record"}]
      /\ \A t \in Senders : pc'[t] = IF t \in S THEN "idle" ELSE pc[t]
  BY DEF Abandon, TypeOK
<1>2. /\ cur' \in [Senders -> Messages \cup {NoMessage}]
      /\ \A t \in Senders : cur'[t] = IF t \in S THEN NoMessage ELSE cur[t]
  BY DEF Abandon, TypeOK
<1>3. /\ answer' \in [Senders -> BOOLEAN]
      /\ \A t \in Senders : answer'[t] = IF t \in S THEN FALSE ELSE answer[t]
  BY DEF Abandon, TypeOK
<1>4. SenderStates'
  BY <1>1, <1>2, <1>3 DEF SenderStates
<1>5. ASSUME NEW x \in InFlight(Senders), x \notin InFlight(S)
      PROVE  x \in InFlight(Senders)'
  <2>1. PICK t \in Senders : x = cur[t] /\ x # NoMessage
    BY DEF InFlight
  <2>2. t \notin S
    BY <1>5, <2>1 DEF InFlight
  <2>3. QED BY <1>2, <2>1, <2>2 DEF InFlight
<1>6. QED BY <1>1, <1>2, <1>3, <1>4, <1>5

\* The rows of the messages still held are as they were.
LEMMA AbandonRows ==
  ASSUME MessagingInv, NEW S \in SUBSET Senders, Abandon(S),
         UNCHANGED <<rowVars, providerVars>>,
         \A m \in Messages : stage[m] = "handed" => stage'[m] = "handed"
  PROVE  HeldRows'
<1> USE DEF MessagingInv
<1>1. UNCHANGED <<log, attempts, accepted>>
  BY DEF rowVars, providerVars
<1>2. SUFFICES ASSUME NEW t \in Senders
      PROVE  /\ pc'[t] = "log" => log'[cur'[t]] = "none"
             /\ pc'[t] = "provider" => log'[cur'[t]] = "PENDING" /\ attempts'[cur'[t]] = 0
             /\ pc'[t] = "record" => log'[cur'[t]] = "PENDING"
             /\ answer'[t] => cur'[t] \in accepted'
             /\ cur'[t] # NoMessage => stage'[cur'[t]] = "handed"
  BY DEF HeldRows
<1>3. CASE t \in S
  BY <1>3, AbandonEffect
<1>4. CASE t \notin S
  <2>1. pc'[t] = pc[t] /\ cur'[t] = cur[t] /\ answer'[t] = answer[t]
    BY <1>4, AbandonEffect
  <2>2. cur[t] # NoMessage => cur[t] \in Messages
    BY DEF TypeOK
  <2>3. QED BY <1>1, <2>1, <2>2 DEF HeldRows
<1>5. QED BY <1>3, <1>4

LEMMA StopTimesOutStep ==
  ASSUME MessagingInv, StopTimesOut
  PROVE  MessagingInv'
<1> USE MessagingAssumption DEF MessagingInv
<1>1. /\ UNCHANGED <<running, starts, queue, stage, log, billed, attempts, accepted, faults>>
      /\ Abandon({Worker}) /\ {Worker} \in SUBSET Senders
      /\ phase = "stopping" /\ phase' = "down"
      /\ cut' = cut \cup InFlight({Worker})
  BY DEF StopTimesOut, rowVars, providerVars, Senders
<1>2. cut' \subseteq Messages
  BY <1>1 DEF TypeOK, InFlight
<1>3. TypeOK'
  BY <1>1, <1>2, AbandonEffect DEF TypeOK
<1>4. Queued' = Queued /\ NoMessage \notin Queued
  BY <1>1, QueuedIsMessages DEF Queued
<1>5. \A t \in Senders : cur'[t] = IF t \in {Worker} THEN NoMessage ELSE cur[t]
  BY <1>1, AbandonEffect
<1>6. OnePlace'
  BY <1>1, <1>4, <1>5 DEF OnePlace, Distinct
<1>7. SenderStates'
  BY <1>1, AbandonEffect
<1>8. HeldRows'
  BY <1>1, AbandonRows DEF rowVars, providerVars
<1>9. WaitingRows' /\ RowsAgree' /\ AtMostOneAttempt' /\ BilledExactlyWhenSent'
  BY <1>1, <1>4 DEF WaitingRows, RowsAgree, AtMostOneAttempt, BilledExactlyWhenSent
<1>10. LifeAgrees'
  BY <1>1, AbandonEffect DEF LifeAgrees, QuietWhenDown
<1>11. InFlight(Senders) \subseteq InFlight(Senders)' \cup InFlight({Worker})
  BY <1>1, AbandonEffect
<1>12. Accounted'
  BY <1>1, <1>4, <1>11 DEF Accounted
<1>13. QED
  BY <1>3, <1>6, <1>7, <1>8, <1>9, <1>10, <1>12 DEF MessagingInv

LEMMA CrashStep ==
  ASSUME MessagingInv, Crash
  PROVE  MessagingInv'
<1> USE MessagingAssumption DEF MessagingInv
<1>1. /\ UNCHANGED <<starts, log, billed, attempts, accepted, faults>>
      /\ Abandon(Senders) /\ Senders \in SUBSET Senders
      /\ phase' = "down" /\ running' = FALSE /\ queue' = <<>>
      /\ cut' = cut \cup InFlight(Senders) \cup Queued
  BY DEF Crash, rowVars, providerVars
<1>2. /\ stage' \in [Messages -> {"new", "emitted", "handed", "dropped"}]
      /\ \A m \in Messages : stage'[m] = "handed" <=> stage[m] = "handed"
  BY DEF Crash, TypeOK
<1>3. Queued \subseteq Messages /\ cut' \subseteq Messages
  BY <1>1, QueuedIsMessages DEF TypeOK, InFlight
<1>4. queue' \in Seq(Messages \cup {Sentinel}) /\ Queued' = {} /\ Distinct(queue)'
  BY <1>1, EmptySeq DEF Queued, MessagesIn, Distinct
<1>5. TypeOK'
  BY <1>1, <1>2, <1>3, <1>4, AbandonEffect DEF TypeOK
<1>6. \A t \in Senders : cur'[t] = NoMessage
  BY <1>1, AbandonEffect
<1>7. OnePlace'
  BY <1>4, <1>6 DEF OnePlace
<1>8. SenderStates'
  BY <1>1, AbandonEffect
<1>9. HeldRows'
  BY <1>1, <1>2, AbandonRows DEF rowVars, providerVars
<1>10. WaitingRows'
  BY <1>1, <1>2, <1>4 DEF WaitingRows
<1>11. RowsAgree' /\ AtMostOneAttempt' /\ BilledExactlyWhenSent'
  BY <1>1 DEF RowsAgree, AtMostOneAttempt, BilledExactlyWhenSent
<1>12. LifeAgrees'
  BY <1>1, AbandonEffect DEF LifeAgrees, QuietWhenDown, Senders
<1>13. Accounted'
  BY <1>1, <1>2 DEF Accounted
<1>14. QED
  BY <1>5, <1>7, <1>8, <1>9, <1>10, <1>11, <1>12, <1>13 DEF MessagingInv

LEMMA MessagingStutter ==
  ASSUME MessagingInv, UNCHANGED messagingVars
  PROVE  MessagingInv'
<1> USE DEF MessagingInv, messagingVars
<1>1. Queued' = Queued /\ InFlight(Senders)' = InFlight(Senders)
  BY DEF Queued, InFlight
<1>2. TypeOK' /\ SenderStates' /\ HeldRows'
  BY DEF TypeOK, SenderStates, HeldRows
<1>3. OnePlace' /\ WaitingRows' /\ RowsAgree'
  BY <1>1 DEF OnePlace, Distinct, WaitingRows, RowsAgree
<1>4. LifeAgrees' /\ AtMostOneAttempt' /\ Accounted' /\ BilledExactlyWhenSent'
  BY <1>1 DEF LifeAgrees, QuietWhenDown, AtMostOneAttempt, Accounted, BilledExactlyWhenSent
<1>5. QED BY <1>2, <1>3, <1>4

-----------------------------------------------------------------------------
(* The theorems *)

LEMMA MessagingStep == MessagingInv /\ [Next]_messagingVars => MessagingInv'
<1> SUFFICES ASSUME MessagingInv, [Next]_messagingVars PROVE MessagingInv'
  OBVIOUS
<1>1. CASE \E m \in Messages : Emit(m)
  BY <1>1, EmitStep
<1>2. CASE \E m \in Messages : HandleEvent(m)
  BY <1>2, HandleEventStep
<1>3. CASE \E r \in Callers, m \in Messages : RequestSend(r, m)
  BY <1>3, RequestSendStep
<1>4. CASE WorkerTake
  BY <1>4, WorkerTakeStep
<1>5. CASE WorkerBreak
  BY <1>5, WorkerBreakStep
<1>6. CASE \E s \in Senders : Send(s)
  BY <1>6, LogPendingStep, LogPendingFailsStep, CallProviderStep,
     RecordOutcomeStep, RecordErrorStep DEF Send
<1>7. CASE Start \/ Stop \/ StopReturns
  BY <1>7, StartStopStep
<1>8. CASE StopTimesOut
  BY <1>8, StopTimesOutStep
<1>9. CASE Crash
  BY <1>9, CrashStep
<1>10. CASE UNCHANGED messagingVars
  BY <1>10, MessagingStutter
<1>11. QED
  BY <1>1, <1>2, <1>3, <1>4, <1>5, <1>6, <1>7, <1>8, <1>9, <1>10 DEF Next

\* The inductive invariant holds in every reachable state of MessagingService.
THEOREM MessagingInvariant == Spec => []MessagingInv
  BY MessagingInit, MessagingStep, PTL DEF Spec

\* Every variable of the messaging service keeps its type.
THEOREM MessagingTypes == Spec => []TypeOK
<1>1. MessagingInv => TypeOK
  BY DEF MessagingInv
<1>2. QED BY <1>1, MessagingInvariant, PTL

\* The provider is called at most once for each message, through queue, direct
\* calls, errors, shutdown cancels and restarts.
THEOREM NoMessageTwice == Spec => []AtMostOneAttempt
<1>1. MessagingInv => AtMostOneAttempt
  BY DEF MessagingInv
<1>2. QED BY <1>1, MessagingInvariant, PTL

\* Every message handed to the service is queued, being sent, settled, or cut
\* short by an error, a cancel or a crash.
THEOREM NoMessageForgotten == Spec => []Accounted
<1>1. MessagingInv => Accounted
  BY DEF MessagingInv
<1>2. QED BY <1>1, MessagingInvariant, PTL

\* Credits are deducted exactly for the billable messages whose row says SENT.
THEOREM BillingMatchesLog == Spec => []BilledExactlyWhenSent
<1>1. MessagingInv => BilledExactlyWhenSent
  BY DEF MessagingInv
<1>2. QED BY <1>1, MessagingInvariant, PTL

\* After shutdown the worker task is over.
THEOREM ShutdownIsQuiet == Spec => []QuietWhenDown
<1>1. MessagingInv => QuietWhenDown
  BY DEF MessagingInv, LifeAgrees
<1>2. QED BY <1>1, MessagingInvariant, PTL

-----------------------------------------------------------------------------
(* The refinement *)

LEMMA DeliveryInit == Init => Delivery!Init
  BY DEF Init, Delivery!Init

LEMMA DeliveryStep == MessagingInv /\ [Next]_messagingVars => [Delivery!Next]_Delivery!vars
<1> DEFINE tried == {m \in Messages : attempts[m] > 0}
<1> SUFFICES ASSUME MessagingInv, [Next]_messagingVars
             PROVE  Delivery!Next \/ UNCHANGED <<log, tried, accepted>>
  BY DEF Delivery!vars
<1> USE DEF MessagingInv
<1>1. ASSUME UNCHANGED <<log, providerVars>>
      PROVE  UNCHANGED <<log, tried, accepted>>
  BY <1>1 DEF providerVars
<1>2. \A s \in Senders : pc[s] \in {"log", "provider", "record"} => cur[s] \in Messages
  BY DEF SenderStates, TypeOK
<1>3. ASSUME NEW s \in Senders, LogPending(s)
      PROVE  Delivery!Next
  <2>1. cur[s] \in Messages /\ Delivery!Record(cur[s])
    BY <1>2, <1>3 DEF LogPending, HeldRows, Delivery!Record, providerVars
  <2>2. QED BY <2>1 DEF Delivery!Next
<1>4. ASSUME NEW s \in Senders, CallProvider(s)
      PROVE  Delivery!Next \/ UNCHANGED <<log, tried, accepted>>
  <2>1. /\ cur[s] \in Messages
        /\ log[cur[s]] = "PENDING" /\ attempts[cur[s]] = 0
        /\ log' = log
    BY <1>2, <1>4 DEF CallProvider, HeldRows, rowVars
  <2>2. CASE UNCHANGED providerVars
    BY <1>1, <2>1, <2>2
  <2>3. CASE /\ attempts' = [attempts EXCEPT ![cur[s]] = @ + 1]
             /\ accepted' \in {accepted, accepted \cup {cur[s]}}
    <3>1. tried' = tried \cup {cur[s]} /\ cur[s] \notin tried
      BY <2>1, <2>3 DEF TypeOK
    <3>2. QED
      BY <2>1, <2>3, <3>1 DEF Delivery!Next, Delivery!Attempt
  <2>4. QED BY <1>4, <2>2, <2>3 DEF CallProvider
<1>5. ASSUME NEW s \in Senders, RecordOutcome(s)
      PROVE  Delivery!Next
  <2> DEFINE status == Outcome(answer[s])
  <2>1. /\ cur[s] \in Messages
        /\ log[cur[s]] = "PENDING"
        /\ answer[s] => cur[s] \in accepted
    BY <1>2, <1>5 DEF RecordOutcome, HeldRows
  <2>2. status \in {"SENT", "FAILED"} /\ (status = "SENT" => answer[s])
    BY DEF Outcome
  <2>3. Delivery!Settle(cur[s], status)
    BY <1>5, <2>1, <2>2 DEF RecordOutcome, Delivery!Settle, providerVars
  <2>4. QED BY <2>1, <2>2, <2>3 DEF Delivery!Next
<1>6. ASSUME NEW s \in Senders, RecordError(s)
      PROVE  Delivery!Next \/ UNCHANGED <<log, tried, accepted>>
  <2>1. cur[s] \in Messages /\ log[cur[s]] = "PENDING"
    BY <1>2, <1>6 DEF RecordError, HeldRows
  <2>2. PICK status \in {"FAILED", "PENDING"} : log' = [log EXCEPT ![cur[s]] = status]
    BY <1>6 DEF RecordError
  <2>3. UNCHANGED providerVars
    BY <1>6 DEF RecordError
  <2>4. CASE status = "FAILED"
    <3>1. Delivery!Settle(cur[s], "FAILED")
      BY <2>1, <2>2, <2>3, <2>4 DEF Delivery!Settle, providerVars
    <3>2. QED BY <2>1, <3>1 DEF Delivery!Next
  <2>5. CASE status = "PENDING"
    <3>1. log' = log
      BY <2>1, <2>2, <2>5 DEF TypeOK
    <3>2. QED BY <1>1, <2>3, <3>1
  <2>6. QED BY <2>4, <2>5
<1>7. ASSUME NEW s \in Senders, LogPendingFails(s)
      PROVE  UNCHANGED <<log, providerVars>>
  BY <1>7 DEF LogPendingFails, rowVars
<1>8. ASSUME \/ \E m \in Messages : Emit(m) \/ HandleEvent(m)
             \/ \E r \in Callers, m \in Messages : RequestSend(r, m)
             \/ WorkerTake \/ WorkerBreak
             \/ Start \/ Stop \/ StopReturns \/ StopTimesOut \/ Crash
             \/ UNCHANGED messagingVars
      PROVE  UNCHANGED <<log, providerVars>>
  BY <1>8 DEF Emit, HandleEvent, RequestSend, WorkerTake, WorkerBreak, Start, Stop,
     StopReturns, StopTimesOut, Crash, rowVars, providerVars, messagingVars
<1>9. QED
  BY <1>1, <1>3, <1>4, <1>5, <1>6, <1>7, <1>8 DEF Next, Send

\* MessagingService implements the delivery promise: rows are written before
\* the one provider call and settled at most once, SENT only when accepted.
THEOREM MessagingImplementsDelivery == Spec => DeliverySpec
<1>1. Init => Delivery!Init
  BY DeliveryInit
<1>2. MessagingInv /\ [Next]_messagingVars => [Delivery!Next]_Delivery!vars
  BY DeliveryStep
<1>3. QED
  BY <1>1, <1>2, MessagingInvariant, PTL DEF Spec, DeliverySpec, Delivery!Spec
-----------------------------------------------------------------------------
(* The worker of the first start *)

\* Before the first stop there is no sentinel in the queue: stop() alone puts
\* one there, and a crash empties the queue.
FreshQueue ==
  /\ starts = 0 => phase = "down"
  /\ (starts = 0 \/ (starts = 1 /\ phase = "up"))
       => \A i \in 1 .. Len(queue) : queue[i] # Sentinel

LEMMA FreshInit == Init => FreshQueue
  BY DEF Init, FreshQueue

\* A message put at the end, or the head taken off, brings no sentinel in.
LEMMA NoSentinelPut ==
  ASSUME NEW q \in Seq(Messages \cup {Sentinel}), NEW m \in Messages,
         \A i \in 1 .. Len(q) : q[i] # Sentinel
  PROVE  \A i \in 1 .. Len(Append(q, m)) : Append(q, m)[i] # Sentinel
<1>1. m # Sentinel
  BY MessagingAssumption
<1>2. QED BY <1>1

LEMMA NoSentinelGet ==
  ASSUME NEW q \in Seq(Messages \cup {Sentinel}), q # <<>>,
         \A i \in 1 .. Len(q) : q[i] # Sentinel
  PROVE  \A i \in 1 .. Len(Tail(q)) : Tail(q)[i] # Sentinel
<1>1. Len(Tail(q)) = Len(q) - 1 /\ \A i \in 1 .. Len(Tail(q)) : Tail(q)[i] = q[i + 1]
  BY HeadTailProperties
<1>2. Len(q) \in Nat
  OBVIOUS
<1>3. QED BY <1>1, <1>2

LEMMA FreshStep == MessagingInv /\ FreshQueue /\ [Next]_messagingVars => FreshQueue'
<1> SUFFICES ASSUME MessagingInv, FreshQueue, [Next]_messagingVars PROVE FreshQueue'
  OBVIOUS
<1>1. /\ queue \in Seq(Messages \cup {Sentinel})
      /\ starts \in Nat
      /\ running <=> phase = "up"
      /\ phase \in {"down", "up", "stopping"}
  BY MessagingAssumption DEF MessagingInv, TypeOK, LifeAgrees
<1>2. ASSUME NEW m \in Messages, HandleEvent(m) PROVE FreshQueue'
  <2>1. UNCHANGED <<phase, starts>> /\ (queue' = queue \/ queue' = Append(queue, m))
    BY <1>2 DEF HandleEvent, lifeVars
  <2>2. QED BY <1>1, <2>1, NoSentinelPut DEF FreshQueue
<1>3. ASSUME WorkerTake \/ WorkerBreak PROVE FreshQueue'
  <2>1. UNCHANGED <<phase, starts>> /\ queue # <<>> /\ queue' = Tail(queue)
    BY <1>3 DEF WorkerTake, WorkerBreak, AfterGet, lifeVars
  <2>2. QED BY <1>1, <2>1, NoSentinelGet DEF FreshQueue
<1>4. ASSUME Start PROVE FreshQueue'
  <2>1. phase = "down" /\ starts' = starts + 1 /\ queue' = queue
    BY <1>4 DEF Start
  <2>2. starts' # 0 /\ (starts' = 1 => starts = 0)
    BY <1>1, <2>1
  <2>3. CASE starts = 0
    <3>1. \A i \in 1 .. Len(queue) : queue[i] # Sentinel
      BY <2>3 DEF FreshQueue
    <3>2. \A i \in 1 .. Len(queue') : queue'[i] # Sentinel
      BY <2>1, <3>1
    <3>3. QED BY <2>2, <3>2 DEF FreshQueue
  <2>4. CASE starts # 0
    BY <2>2, <2>4 DEF FreshQueue
  <2>5. QED BY <2>3, <2>4
<1>5. ASSUME Stop \/ StopReturns \/ StopTimesOut PROVE FreshQueue'
  BY <1>1, <1>5 DEF Stop, StopReturns, StopTimesOut, FreshQueue
<1>6. ASSUME Crash PROVE FreshQueue'
  BY <1>6 DEF Crash, FreshQueue
<1>7. ASSUME UNCHANGED <<phase, starts, queue>> PROVE FreshQueue'
  BY <1>7 DEF FreshQueue
<1>8. ASSUME \/ \E m \in Messages : Emit(m)
             \/ \E r \in Callers, m \in Messages : RequestSend(r, m)
             \/ \E s \in Senders : Send(s)
             \/ UNCHANGED messagingVars
      PROVE  UNCHANGED <<phase, starts, queue>>
  BY <1>8 DEF Emit, RequestSend, Send, LogPending, LogPendingFails, CallProvider,
     RecordOutcome, RecordError, messagingVars, lifeVars
<1>9. QED BY <1>2, <1>3, <1>4, <1>5, <1>6, <1>7, <1>8 DEF Next

\* What can end the worker, when its queue holds no sentinel while it is up.
LEMMA WorkerEnds ==
  MessagingInv /\ FreshQueue /\ [Next]_messagingVars
    => [starts <= 1 /\ pc[Worker] # "idle" /\ pc'[Worker] = "idle"
          => phase = "stopping" \/ phase' = "down"]_messagingVars
<1> SUFFICES ASSUME MessagingInv, FreshQueue, Next, starts <= 1,
                    pc[Worker] # "idle", pc'[Worker] = "idle",
                    phase # "stopping", phase' # "down"
             PROVE  FALSE
  OBVIOUS
<1>1. /\ queue \in Seq(Messages \cup {Sentinel})
      /\ pc \in [Senders -> {"idle", "waiting", "log", "provider", "record"}]
      /\ Worker \in Senders
      /\ starts \in Nat
      /\ running <=> phase = "up"
      /\ QuietWhenDown
      /\ phase \in {"down", "up", "stopping"}
  BY MessagingAssumption DEF MessagingInv, TypeOK, LifeAgrees, Senders
<1>2. phase = "up" /\ running
  BY <1>1 DEF QuietWhenDown
<1>3. starts = 1 /\ \A i \in 1 .. Len(queue) : queue[i] # Sentinel
  BY <1>1, <1>2 DEF FreshQueue
<1>4. pc' # pc
  OBVIOUS
<1>5. ASSUME NEW s \in Senders, Send(s) PROVE FALSE
  <2>1. s = Worker => pc'[Worker] # "idle"
    BY <1>1, <1>2, <1>5 DEF Send, LogPending, LogPendingFails, CallProvider, RecordOutcome,
       RecordError, Finish, AfterSend
  <2>2. s # Worker => pc'[Worker] = pc[Worker]
    BY <1>1, <1>5 DEF Send, LogPending, LogPendingFails, CallProvider, RecordOutcome,
       RecordError, Finish
  <2>3. QED BY <2>1, <2>2
<1>6. ASSUME WorkerBreak PROVE FALSE
  <2>1. queue # <<>> /\ Head(queue) = Sentinel
    BY <1>6 DEF WorkerBreak
  <2>2. Head(queue) = queue[1] /\ 1 \in 1 .. Len(queue)
    BY <1>1, <2>1, EmptySeq
  <2>3. QED BY <1>3, <2>1, <2>2
<1>7. ASSUME WorkerTake PROVE FALSE
  BY <1>1, <1>7 DEF WorkerTake
<1>8. ASSUME NEW r \in Callers, NEW m \in Messages, RequestSend(r, m) PROVE FALSE
  BY <1>1, <1>8, MessagingAssumption DEF RequestSend
<1>9. ASSUME \/ \E m \in Messages : Emit(m) \/ HandleEvent(m)
             \/ Stop
      PROVE  pc' = pc
  BY <1>9 DEF Emit, HandleEvent, Stop, senderVars
<1>10. ~Start /\ ~StopReturns /\ ~StopTimesOut /\ ~Crash
  BY <1>2 DEF Start, StopReturns, StopTimesOut, Crash
<1>11. QED BY <1>4, <1>5, <1>6, <1>7, <1>8, <1>9, <1>10 DEF Next

\* process_queue runs until the service is stopped, as its docstring says, in a
\* process that starts the service once: neither a send that fails nor a
\* message that a handler queues ends the worker.
THEOREM FirstWorkerKeepsOn == Spec => FirstWorkerRunsUntilStopped
<1>1. Init => FreshQueue
  BY FreshInit
<1>2. MessagingInv /\ FreshQueue /\ [Next]_messagingVars => FreshQueue'
  BY FreshStep
<1>3. MessagingInv /\ FreshQueue /\ [Next]_messagingVars
        => [starts <= 1 /\ pc[Worker] # "idle" /\ pc'[Worker] = "idle"
              => phase = "stopping" \/ phase' = "down"]_messagingVars
  BY WorkerEnds
<1>4. QED
  BY <1>1, <1>2, <1>3, MessagingInvariant, PTL DEF Spec, FirstWorkerRunsUntilStopped
=============================================================================
