-------------------------- MODULE SmtpServerProofs --------------------------
(***************************************************************************)
(* Proofs about SmtpServer for any number of connections and recipients,   *)
(* any capacity of the queues and any number of transactions.              *)
(***************************************************************************)
EXTENDS SmtpServer, TLAPS

\* What a connection has done when it is past DATA: it has authenticated, it
\* has recipients, and the mails before todo are queued.
SessionInv ==
    \A c \in Conn :
        /\ state[c] = "RCPT" => rcpts[c] # <<>>
        /\ pc[c] = "data" => isAuthenticated(c) /\ state[c] = "RCPT"
        /\ pc[c] = "queue" =>
              /\ isAuthenticated(c)
              /\ rcpts[c] # <<>>
              /\ \A i \in 1..(todo[c] - 1) :
                    \E m \in queued : m.by = c /\ m.tx = tx[c] /\ m.i = i

\* The inductive invariant.
IInv == TypeOK /\ SessionInv /\ AuthenticatedMail /\ AcceptedIsQueued

\* A transaction as CheckedTx and ZeroTx return it.
Tx == [state : {"ZERO", "HELO", "AUTH", "MAIL", "RCPT", "DATA", "QUIT"},
       from : Sender \cup {Nil}, rcpts : Seq(Rcpt)]

\* receiver.reset and the test for authentication return transactions.
LEMMA TxType ==
    ASSUME TypeOK, NEW c \in Conn
    PROVE  ZeroTx(c) \in Tx /\ CheckedTx(c) \in Tx
BY DEF TypeOK, Tx, ZeroTx, CheckedTx

\* A queue of mails stays one when a mail is sent to it.
LEMMA AppendMail ==
    ASSUME NEW q \in Seq(Mail), NEW m \in Mail
    PROVE  Append(q, m) \in Seq(Mail)
OBVIOUS

\* A step of a connection that leaves the queues alone keeps the types.
LEMMA ConnType ==
    ASSUME TypeOK, NEW c \in Conn, ConnNext(c)
    PROVE  TypeOK'
<1> USE DEF session, workers, queues, server
<1>0. ZeroTx(c) \in Tx /\ CheckedTx(c) \in Tx
  BY TxType
<1>1. CASE Accept(c)
  BY <1>1 DEF TypeOK, Accept
<1>2. CASE Disconnect(c)
  BY <1>2 DEF TypeOK, Disconnect
<1>3. CASE Refuse(c)
  BY <1>0, <1>3 DEF TypeOK, Refuse, Again, SetTx, Tx
<1>4. CASE Greet(c)
  BY <1>4 DEF TypeOK, Greet, Again
<1>5. CASE Auth(c)
  BY <1>5 DEF TypeOK, Auth, Again
<1>6. ASSUME NEW s \in Sender, MailFrom(c, s)  PROVE TypeOK'
  BY <1>6 DEF TypeOK, MailFrom, Again
<1>7. ASSUME NEW r \in Rcpt, RcptTo(c, r)  PROVE TypeOK'
  <2>1. Append(CheckedTx(c).rcpts, r) \in Seq(Rcpt) /\ CheckedTx(c).from \in Sender \cup {Nil}
    BY <1>0 DEF Tx
  <2> QED
    BY <1>7, <2>1 DEF TypeOK, RcptTo, Again, SetTx
<1>8. CASE Data(c)
  BY <1>0, <1>8, ZenonT(60) DEF TypeOK, Data, Again, SetTx, Tx
<1>9. CASE ReadData(c)
  BY <1>9, SMTT(60) DEF TypeOK, ReadData
<1>10. CASE Enqueue(c)
  <2>1. MailOf(c, todo[c]) \in Mail
    BY <1>10 DEF TypeOK, Enqueue, MailOf, Mail
  <2> HIDE DEF Mail
  <2> QED
    BY <1>10, <2>1, SMTT(60) DEF TypeOK, Enqueue
<1>11. CASE AnswerData(c)
  <2>1. [by |-> c, tx |-> tx[c], n |-> Len(rcpts[c])] \in [by : Conn, tx : Nat, n : Nat]
    BY DEF TypeOK
  <2>2. accepted' \subseteq [by : Conn, tx : Nat, n : Nat]
    BY <1>11, <2>1 DEF TypeOK, AnswerData, Again
  <2>3. /\ pc' \in [Conn -> {"off", "command", "data", "queue", "closed"}]
        /\ UNCHANGED <<auth, tx, todo, workers, queues, server>>
    BY <1>11 DEF TypeOK, AnswerData, Again
  <2>4. SetTx(c, ZeroTx(c)) \/ UNCHANGED <<state, from, rcpts>>
    BY <1>11 DEF AnswerData
  <2>5. /\ state' \in [Conn -> {"ZERO", "HELO", "AUTH", "MAIL", "RCPT", "DATA", "QUIT"}]
        /\ from' \in [Conn -> Sender \cup {Nil}]
        /\ rcpts' \in [Conn -> Seq(Rcpt)]
    BY <1>0, <2>4 DEF TypeOK, SetTx, Tx
  <2> QED
    BY <2>2, <2>3, <2>5 DEF TypeOK
<1>12. CASE Quit(c)
  BY <1>12 DEF TypeOK, Quit
<1> QED
  BY <1>1, <1>2, <1>3, <1>4, <1>5, <1>6, <1>7, <1>8, <1>9, <1>10, <1>11, <1>12
     DEF ConnNext

\* A step of a queue goroutine, and Stop, keep the types.
LEMMA WorkType ==
    ASSUME TypeOK, WorkNext \/ Stop \/ StartReturns
    PROVE  TypeOK'
<1> USE DEF session, workers, queues, server
<1>1. CASE TakeMail
  <2>1. Head(mailTxQueue) \in Mail /\ Tail(mailTxQueue) \in Seq(Mail)
    BY <1>1 DEF TypeOK, TakeMail
  <2> QED
    BY <1>1, <2>1 DEF TypeOK, TakeMail
<1>2. CASE Deliver
  BY <1>2 DEF TypeOK, Deliver
<1>3. CASE DeliverFail
  <2>1. txMail \in Mail
    BY <1>3 DEF TypeOK, DeliverFail
  <2>2. retry' = retry + 1 \/ retry' = retry
    BY <1>3 DEF DeliverFail
  <2>3. postponed' = TRUE \/ postponed' = postponed
    BY <1>3, Zenon DEF DeliverFail
  <2>4. bounceQueue' = bounceQueue \/ bounceQueue' = Append(bounceQueue, txMail)
    BY <1>3 DEF DeliverFail
  <2>5. retry' \in Nat /\ failures' \in Nat
    BY <1>3, <2>2 DEF TypeOK, DeliverFail
  <2>6. postponed' \in BOOLEAN
    BY <2>3, Zenon DEF TypeOK
  <2>7. bounceQueue' \in Seq(Mail)
    <3>1. bounceQueue \in Seq(Mail)
      BY DEF TypeOK
    <3> QED
      BY <2>1, <2>4, <3>1, AppendMail
  <2>8. UNCHANGED <<txMail, bounceMail, relayMail, delivered, ended, mailTxQueue,
                    relayQueue, queued, session, server>>
    BY <1>3 DEF DeliverFail
  <2>9. /\ pc' = pc /\ state' = state /\ auth' = auth /\ from' = from /\ rcpts' = rcpts
        /\ tx' = tx /\ todo' = todo /\ accepted' = accepted
        /\ listening' = listening /\ closed' = closed /\ running' = running
        /\ txMail' = txMail /\ bounceMail' = bounceMail /\ relayMail' = relayMail
        /\ delivered' = delivered /\ ended' = ended /\ mailTxQueue' = mailTxQueue
        /\ relayQueue' = relayQueue /\ queued' = queued
    BY <2>8, Zenon
  <2> HIDE DEF session, workers, queues, server
  <2> QED
    BY <2>5, <2>6, <2>7, <2>9, Zenon DEF TypeOK
<1>4. CASE PostponeOver
  BY <1>4 DEF TypeOK, PostponeOver
<1>5. CASE Relay
  BY <1>5, SMTT(20) DEF TypeOK, Relay
<1>6. CASE Bounce
  BY <1>6, SMTT(20) DEF TypeOK, Bounce
<1>7. CASE TakeBounce
  BY <1>7, SMTT(20) DEF TypeOK, TakeBounce
<1>8. CASE TakeRelay
  BY <1>8, SMTT(20) DEF TypeOK, TakeRelay
<1>9. CASE EndWorker
  BY <1>9 DEF TypeOK, EndWorker, End
<1>10. CASE Stop
  BY <1>10 DEF TypeOK, Stop
<1>11. CASE StartReturns
  BY <1>11 DEF TypeOK, StartReturns
<1> QED
  BY <1>1, <1>2, <1>3, <1>4, <1>5, <1>6, <1>7, <1>8, <1>9, <1>10, <1>11 DEF WorkNext

\* A step of a connection keeps the promises of SessionInv.
LEMMA ConnSession ==
    ASSUME TypeOK, SessionInv, AuthenticatedMail, AcceptedIsQueued,
           NEW c \in Conn, ConnNext(c)
    PROVE  SessionInv' /\ AuthenticatedMail' /\ AcceptedIsQueued'
<1> USE DEF session, workers, queues, server, SessionInv, AuthenticatedMail,
            AcceptedIsQueued, isAuthenticated
<1>1. CASE Accept(c)
  BY <1>1 DEF TypeOK, Accept
<1>2. CASE Disconnect(c)
  BY <1>2 DEF TypeOK, Disconnect
<1>3. CASE Refuse(c)
  BY <1>3 DEF TypeOK, Refuse, Again, Command, SetTx, ZeroTx
<1>4. CASE Greet(c)
  BY <1>4 DEF TypeOK, Greet, Again, Command
<1>5. CASE Auth(c)
  BY <1>5 DEF TypeOK, Auth, Again, Command
<1>6. ASSUME NEW s \in Sender, MailFrom(c, s)
      PROVE  SessionInv' /\ AuthenticatedMail' /\ AcceptedIsQueued'
  BY <1>6 DEF TypeOK, MailFrom, Again, Command
<1>7. ASSUME NEW r \in Rcpt, RcptTo(c, r)
      PROVE  SessionInv' /\ AuthenticatedMail' /\ AcceptedIsQueued'
  <2>1. Append(CheckedTx(c).rcpts, r) # <<>>
    BY TxType, SMTT(20) DEF Tx
  <2> QED
    BY <1>7, <2>1, SMTT(20) DEF TypeOK, RcptTo, Again, Command, SetTx
<1>8. CASE Data(c)
  BY <1>8 DEF TypeOK, Data, Again, Command, SetTx, CheckedTx, ZeroTx
<1>9. CASE ReadData(c)
  BY <1>9 DEF TypeOK, ReadData
<1>10. CASE Enqueue(c)
  <2> DEFINE mail == MailOf(c, todo[c])
  <2>1. mail.by = c /\ mail.tx = tx[c] /\ mail.i = todo[c]
    BY DEF MailOf
  <2>2. /\ queued' = queued \cup {mail}
        /\ todo' = [todo EXCEPT ![c] = todo[c] + 1]
        /\ pc[c] = "queue"
        /\ UNCHANGED <<pc, state, auth, from, rcpts, tx, accepted>>
    BY <1>10 DEF Enqueue
  <2> HIDE DEF mail
  <2>3. AuthenticatedMail'
    BY <2>1, <2>2
  <2>4. AcceptedIsQueued'
    BY <2>2
  <2>5. ASSUME NEW d \in Conn, pc[d] = "queue", NEW i \in 1..(todo'[d] - 1)
        PROVE  \E m \in queued' : m.by = d /\ m.tx = tx[d] /\ m.i = i
    <3>1. todo[d] \in Nat
      BY DEF TypeOK
    <3>2. CASE i \in 1..(todo[d] - 1)
      BY <2>2, <2>5, <3>2
    <3>3. CASE d = c /\ i = todo[c]
      BY <2>1, <2>2, <3>3
    <3> QED
      BY <2>2, <2>5, <3>1, <3>2, <3>3 DEF TypeOK
  <2>6. SessionInv'
    BY <2>2, <2>5
  <2> QED
    BY <2>3, <2>4, <2>6
<1>11. CASE AnswerData(c)
  <2>1. /\ pc[c] = "queue" /\ todo[c] > Len(rcpts[c])
        /\ UNCHANGED <<auth, tx, todo, queued>>
    BY <1>11 DEF AnswerData
  <2>2. SessionInv'
    BY <1>11, SMTT(20) DEF TypeOK, AnswerData, Again, SetTx, ZeroTx
  <2>3. AuthenticatedMail'
    BY <2>1
  <2>4. Len(rcpts[c]) > 0 /\ Len(rcpts[c]) \in Nat /\ todo[c] \in Nat
    BY <2>1 DEF TypeOK
  <2>5. \A i \in 1..Len(rcpts[c]) : \E m \in queued : m.by = c /\ m.tx = tx[c] /\ m.i = i
    BY <2>1, <2>4
  <2> DEFINE done == [by |-> c, tx |-> tx[c], n |-> Len(rcpts[c])]
  <2>6. done.by = c /\ done.tx = tx[c] /\ done.n = Len(rcpts[c])
    OBVIOUS
  <2>7. accepted' = accepted \cup {done} \/ accepted' = accepted
    BY <1>11 DEF AnswerData
  <2> HIDE DEF done
  <2>8. AcceptedIsQueued'
    BY <2>1, <2>4, <2>5, <2>6, <2>7
  <2> QED
    BY <2>2, <2>3, <2>8
<1>12. CASE Quit(c)
  BY <1>12 DEF TypeOK, Quit, Command
<1> QED
  BY <1>1, <1>2, <1>3, <1>4, <1>5, <1>6, <1>7, <1>8, <1>9, <1>10, <1>11, <1>12
     DEF ConnNext

\* The queue goroutines and Stop do not touch what SessionInv speaks of.
LEMMA WorkSession ==
    ASSUME SessionInv, AuthenticatedMail, AcceptedIsQueued,
           WorkNext \/ Stop \/ StartReturns
    PROVE  SessionInv' /\ AuthenticatedMail' /\ AcceptedIsQueued'
<1>1. UNCHANGED <<session, queued>>
  BY DEF WorkNext, TakeMail, Deliver, DeliverFail, PostponeOver, Relay, Bounce,
         TakeBounce, TakeRelay, EndWorker, End, Stop, StartReturns, queues
<1> QED
  BY <1>1 DEF session, SessionInv, AuthenticatedMail, AcceptedIsQueued, isAuthenticated

\* The inductive invariant holds in every state the server can reach.
THEOREM SmtpInvariant == Spec => []IInv
<1>1. ASSUME Init  PROVE IInv
  <2>1. TypeOK
    <3>1. /\ pc \in [Conn -> {"off", "command", "data", "queue", "closed"}]
          /\ state \in [Conn -> {"ZERO", "HELO", "AUTH", "MAIL", "RCPT", "DATA", "QUIT"}]
          /\ auth \in [Conn -> BOOLEAN]
          /\ from \in [Conn -> Sender \cup {Nil}]
          /\ tx \in [Conn -> Nat]
          /\ todo \in [Conn -> Nat \ {0}]
      BY <1>1 DEF Init
    <3>2. /\ rcpts \in [Conn -> Seq(Rcpt)]
          /\ mailTxQueue \in Seq(Mail) /\ bounceQueue \in Seq(Mail)
          /\ relayQueue \in Seq(Mail)
      BY <1>1 DEF Init
    <3>3. /\ retry \in Nat /\ failures \in Nat
          /\ accepted \subseteq [by : Conn, tx : Nat, n : Nat]
          /\ queued \subseteq Mail /\ delivered \subseteq Mail
          /\ ended \subseteq {"tx", "bounce", "relay"}
          /\ txMail \in Mail \cup {Nil} /\ bounceMail \in Mail \cup {Nil}
          /\ relayMail \in Mail \cup {Nil}
      BY <1>1 DEF Init
    <3>4. /\ postponed \in BOOLEAN /\ listening \in BOOLEAN
          /\ closed \in BOOLEAN /\ running \in BOOLEAN
      BY <1>1, Zenon DEF Init
    <3> QED
      BY <3>1, <3>2, <3>3, <3>4, Zenon DEF TypeOK
  <2>2. SessionInv /\ AuthenticatedMail /\ AcceptedIsQueued
    BY <1>1 DEF Init, SessionInv, AuthenticatedMail, AcceptedIsQueued
  <2> QED
    BY <2>1, <2>2 DEF IInv
<1>2. ASSUME IInv, [Next]_vars  PROVE IInv'
  <2>1. ASSUME NEW c \in Conn, ConnNext(c)  PROVE IInv'
    BY <1>2, <2>1, ConnType, ConnSession DEF IInv
  <2>2. CASE WorkNext \/ Stop \/ StartReturns
    BY <1>2, <2>2, WorkType, WorkSession DEF IInv
  <2>3. CASE UNCHANGED vars
    <3>1. TypeOK'
      BY <1>2, <2>3 DEF IInv, TypeOK, vars, session, workers, queues, server
    <3>2. SessionInv' /\ AuthenticatedMail' /\ AcceptedIsQueued'
      BY <1>2, <2>3 DEF IInv, SessionInv, AuthenticatedMail, AcceptedIsQueued,
                        isAuthenticated, vars, session, queues
    <3> QED
      BY <3>1, <3>2 DEF IInv
  <2> QED
    BY <1>2, <2>1, <2>2, <2>3 DEF Next
<1> QED
  BY <1>1, <1>2, PTL DEF Spec

\* The types of the server's state.
THEOREM SmtpTypes == Spec => []TypeOK
BY SmtpInvariant, PTL DEF IInv

\* Only authenticated clients of port 465 get a mail into the queue, although
\* handleRCPT and handleDATA go on after they have refused a command.
THEOREM NoOpenRelay == Spec => []AuthenticatedMail
BY SmtpInvariant, PTL DEF IInv

\* What was answered 250 has been queued, for every recipient.
THEOREM PromisesKept == Spec => []AcceptedIsQueued
BY SmtpInvariant, PTL DEF IInv

-----------------------------------------------------------------------------

\* Why a bounced mail to a known recipient is the mail in work: the loop of
\* processMailTxQueue takes one mail and keeps it, and sends to bounceQueue
\* that mail only.  Up to RetryMax its count is the number of its failures;
\* the failures after that are not counted, and each of them bounces it.
RetryInv ==
    /\ retry <= RetryMax /\ retry <= failures
    /\ failures > retry => failures > RetryMax /\ retry = RetryMax
    /\ txMail = Nil => bounceQueue = <<>> /\ bounceMail = Nil /\ failures = 0
    /\ BounceAfterRetries

\* A mail sent to bounceQueue is the last of it; the others stay in place.
LEMMA AppendPlaces ==
    ASSUME NEW q \in Seq(Mail), NEW m \in Mail, NEW k \in 1..Len(Append(q, m))
    PROVE  \/ k \in 1..Len(q) /\ Append(q, m)[k] = q[k]
           \/ k = Len(q) + 1 /\ Append(q, m)[k] = m
OBVIOUS

\* Of a queue whose first mail is received, the others move up.
LEMMA TailPlaces ==
    ASSUME NEW q \in Seq(Mail), q # <<>>, NEW k \in 1..Len(Tail(q))
    PROVE  k + 1 \in 1..Len(q) /\ Tail(q)[k] = q[k + 1]
OBVIOUS

\* What BounceAfterRetries says of the mails that were bounced.
LEMMA BouncedMails ==
    BounceAfterRetries <=>
        /\ failures > RetryMax => Bounced(txMail)
        /\ bounceMail # Nil /\ bounceMail.to \in LocalRcpt =>
              bounceMail = txMail /\ failures > RetryMax
        /\ \A k \in 1..Len(bounceQueue) :
              bounceQueue[k] # Nil /\ bounceQueue[k].to \in LocalRcpt =>
                  bounceQueue[k] = txMail /\ failures > RetryMax
BY DEF BounceAfterRetries

\* No step bounces a mail to a known recipient before its last failure, or
\* lets that failure pass without a bounce.
LEMMA RetryStep ==
    ASSUME TypeOK, RetryInv, [Next]_vars
    PROVE  RetryInv'
<1> USE DEF session, workers, queues, server
<1>0. /\ RetryMax \in Nat /\ Nil \notin Mail /\ retry \in Nat /\ failures \in Nat
      /\ bounceQueue \in Seq(Mail) /\ mailTxQueue \in Seq(Mail)
      /\ LocalRcpt \cap BadRcpt = {}
  BY SmtpAssumption DEF TypeOK
<1>1. CASE UNCHANGED <<retry, failures, txMail, bounceQueue, bounceMail>>
  BY <1>1 DEF RetryInv, BounceAfterRetries, Bounced
<1>2. CASE TakeMail
  <2>1. /\ txMail = Nil /\ bounceQueue' = bounceQueue /\ bounceMail' = bounceMail
        /\ retry' = 0 /\ failures' = 0 /\ txMail' = Head(mailTxQueue) /\ mailTxQueue # <<>>
    BY <1>2 DEF TakeMail
  <2>2. bounceQueue = <<>> /\ bounceMail = Nil
    BY <2>1 DEF RetryInv
  <2>3. txMail' # Nil
    BY <1>0, <2>1
  <2> QED
    BY <1>0, <2>1, <2>2, <2>3 DEF RetryInv, BounceAfterRetries
<1>3. CASE DeliverFail
  <2>1. /\ txMail \in Mail /\ txMail # Nil /\ txMail' = txMail /\ txMail.to \in LocalRcpt
        /\ failures' = failures + 1 /\ bounceMail' = bounceMail
    BY <1>3 DEF DeliverFail, TypeOK
  <2>2. CASE retry < RetryMax /\ retry' = retry + 1 /\ UNCHANGED bounceQueue
    <3>1. failures = retry
      BY <1>0, <2>2 DEF RetryInv
    <3> QED
      BY <1>0, <2>1, <2>2, <3>1 DEF RetryInv, BounceAfterRetries
  <2>3. CASE retry >= RetryMax /\ bounceQueue' = Append(bounceQueue, txMail) /\ UNCHANGED retry
    <3>1. retry' = RetryMax /\ failures' > RetryMax /\ retry' <= failures'
      BY <1>0, <2>1, <2>3 DEF RetryInv
    <3>2. Bounced(txMail)'
      <4>1. /\ Len(bounceQueue) + 1 \in 1..Len(bounceQueue')
            /\ bounceQueue'[Len(bounceQueue) + 1] = txMail
        BY <1>0, <2>1, <2>3
      <4> QED
        BY <2>1, <4>1 DEF Bounced
    <3>3. ASSUME NEW k \in 1..Len(bounceQueue'), bounceQueue'[k].to \in LocalRcpt
          PROVE  txMail = bounceQueue'[k]
      <4>1. CASE k \in 1..Len(bounceQueue) /\ bounceQueue'[k] = bounceQueue[k]
        <5>1. bounceQueue[k] # Nil
          BY <1>0, <4>1
        <5> QED
          BY <3>3, <4>1, <5>1, BouncedMails DEF RetryInv
      <4>2. CASE bounceQueue'[k] = txMail
        BY <4>2
      <4> QED
        BY <1>0, <2>1, <2>3, <4>1, <4>2, AppendPlaces
    <3>4. bounceMail # Nil /\ bounceMail.to \in LocalRcpt => bounceMail = txMail
      BY BouncedMails DEF RetryInv
    <3>5. BounceAfterRetries'
      BY <2>1, <3>1, <3>2, <3>3, <3>4 DEF BounceAfterRetries
    <3> QED
      BY <1>0, <2>1, <3>1, <3>5 DEF RetryInv
  <2> QED
    BY <1>3, <2>2, <2>3 DEF DeliverFail
<1>4. CASE Bounce
  <2>1. /\ txMail \in Mail /\ txMail # Nil /\ txMail' = txMail /\ txMail.to \notin LocalRcpt
        /\ retry' = retry /\ failures' = failures /\ bounceMail' = bounceMail
        /\ bounceQueue' = Append(bounceQueue, txMail)
    BY <1>0, <1>4 DEF Bounce, TypeOK
  <2>2. ASSUME NEW k \in 1..Len(bounceQueue'), bounceQueue'[k].to \in LocalRcpt
        PROVE  bounceQueue'[k] = txMail /\ failures > RetryMax
    <3>1. k \in 1..Len(bounceQueue) /\ bounceQueue'[k] = bounceQueue[k]
      BY <1>0, <2>1, <2>2, AppendPlaces
    <3>2. bounceQueue[k] # Nil
      BY <1>0, <3>1
    <3> QED
      BY <2>2, <3>1, <3>2, BouncedMails DEF RetryInv
  <2>3. Bounced(txMail)'
    <3>1. /\ Len(bounceQueue) + 1 \in 1..Len(bounceQueue')
          /\ bounceQueue'[Len(bounceQueue) + 1] = txMail
      BY <1>0, <2>1
    <3> QED
      BY <2>1, <3>1 DEF Bounced
  <2>4. bounceMail # Nil /\ bounceMail.to \in LocalRcpt =>
            bounceMail = txMail /\ failures > RetryMax
    BY BouncedMails DEF RetryInv
  <2>5. BounceAfterRetries'
    BY <2>1, <2>2, <2>3, <2>4 DEF BounceAfterRetries
  <2> QED
    BY <2>1, <2>5 DEF RetryInv
<1>5. CASE TakeBounce
  <2>1. /\ bounceQueue # <<>> /\ bounceQueue' = Tail(bounceQueue)
        /\ bounceMail = Nil /\ bounceMail' = bounceQueue[1]
        /\ txMail' = txMail /\ retry' = retry /\ failures' = failures
    BY <1>0, <1>5 DEF TakeBounce
  <2>2. ASSUME NEW k \in 1..Len(bounceQueue), bounceQueue[k].to \in LocalRcpt
        PROVE  bounceQueue[k] = txMail /\ failures > RetryMax
    <3>1. bounceQueue[k] # Nil
      BY <1>0
    <3> QED
      BY <2>2, <3>1, BouncedMails DEF RetryInv
  <2>3. \A k \in 1..Len(bounceQueue') :
            k + 1 \in 1..Len(bounceQueue) /\ bounceQueue'[k] = bounceQueue[k + 1]
    BY <1>0, <2>1, TailPlaces
  <2>4. 1 \in 1..Len(bounceQueue)
    BY <1>0, <2>1
  <2>5. \A k \in 2..Len(bounceQueue) : k - 1 \in 1..Len(bounceQueue') /\ bounceQueue[k] = bounceQueue'[k - 1]
    BY <1>0, <2>1
  <2>6. ASSUME failures > RetryMax  PROVE Bounced(txMail)'
    <3>1. txMail # Nil
      BY <1>0, <2>6 DEF RetryInv
    <3>2. PICK k \in 1..Len(bounceQueue) : txMail = bounceQueue[k]
      BY <2>1, <2>6, <3>1, BouncedMails DEF RetryInv, Bounced
    <3>3. CASE k = 1
      BY <2>1, <3>2, <3>3 DEF Bounced
    <3>4. CASE k \in 2..Len(bounceQueue)
      BY <2>1, <2>5, <3>2, <3>4 DEF Bounced
    <3> QED
      BY <1>0, <3>3, <3>4
  <2>7. txMail # Nil
    BY <2>1 DEF RetryInv
  <2>8. BounceAfterRetries'
    <3>1. \A k \in 1..Len(bounceQueue') : bounceQueue'[k].to \in LocalRcpt =>
              bounceQueue'[k] = txMail /\ failures > RetryMax
      BY <2>2, <2>3
    <3>2. bounceMail'.to \in LocalRcpt => bounceMail' = txMail /\ failures > RetryMax
      BY <2>1, <2>2, <2>4
    <3> QED
      BY <2>1, <2>6, <3>1, <3>2 DEF BounceAfterRetries
  <2> QED
    BY <2>1, <2>7, <2>8 DEF RetryInv
<1>6. ASSUME NEW c \in Conn, ConnNext(c)
      PROVE  UNCHANGED <<retry, failures, txMail, bounceQueue, bounceMail>>
  BY <1>6 DEF ConnNext, Accept, Disconnect, Refuse, Greet, Auth, MailFrom, RcptTo, Data,
              ReadData, Enqueue, AnswerData, Quit
<1>7. ASSUME Deliver \/ PostponeOver \/ Relay \/ TakeRelay \/ EndWorker \/ Stop \/ StartReturns
             \/ UNCHANGED vars
      PROVE  UNCHANGED <<retry, failures, txMail, bounceQueue, bounceMail>>
  BY <1>7 DEF Deliver, PostponeOver, Relay, TakeRelay, EndWorker, End, Stop, StartReturns, vars
<1> QED
  BY <1>1, <1>2, <1>3, <1>4, <1>5, <1>6, <1>7 DEF Next, WorkNext

\* ServeMailTx fails RetryMax + 1 times for a mail to a known recipient, no
\* fewer and no more, before the mail is bounced, whatever the capacity of the
\* queues and wherever Stop comes.
THEOREM BouncedInTime == Spec => []BounceAfterRetries
<1>1. Init => RetryInv
  BY SmtpAssumption DEF Init, RetryInv, BounceAfterRetries
<1>2. TypeOK /\ RetryInv /\ [Next]_vars => RetryInv'
  BY RetryStep
<1>3. RetryInv => BounceAfterRetries
  BY DEF RetryInv
<1> QED
  BY <1>1, <1>2, <1>3, SmtpTypes, PTL DEF Spec
=============================================================================
