----------------------------- MODULE SmtpServer -----------------------------
(***************************************************************************)
(* The SMTP server (lib/smtp/server.go, receiver.go, mail.go): one handle  *)
(* goroutine per connection, which reads commands and keeps the state of   *)
(* the mail transaction, and the three goroutines that take mail from      *)
(* mailTxQueue, bounceQueue and relayQueue.                                *)
(*                                                                         *)
(* A connection to port 25 is in server mode, one to port 465 in client    *)
(* mode; only the latter can authenticate.  A read or a write that fails   *)
(* ends the connection.  Since nothing but the connection changes between  *)
(* two commands, Disconnect stands for all of these failures.              *)
(***************************************************************************)
EXTENDS Integers, Sequences

CONSTANTS
    Conn,       \* connections
    ClientMode, \* the connections to port 465
    LocalRcpt,  \* recipients in a domain of the server, and postmaster
    RemoteRcpt, \* recipients in another domain
    BadRcpt,    \* other recipients
    Sender,     \* values of MAIL FROM
    RetryMax,   \* how often a failed delivery is tried again (5)
    Cap,        \* capacity of the three queues (512)
    MaxRcpt,    \* bound on the RCPT commands of one transaction
    MaxTx,      \* bound on the transactions of one connection
    Nil

Rcpt == LocalRcpt \cup RemoteRcpt \cup BadRcpt

\* A mail with one recipient, as processMailTx makes it.  The connection, the
\* transaction and the place of the recipient in it tell two mails apart, as
\* the nanoseconds of MailTx.ID do.
Mail == [by : Conn, tx : Nat, i : Nat, from : Sender \cup {Nil}, to : Rcpt]

ASSUME SmtpAssumption ==
    /\ ClientMode \subseteq Conn
    /\ LocalRcpt \cap (RemoteRcpt \cup BadRcpt) = {}
    /\ RemoteRcpt \cap BadRcpt = {}
    /\ RetryMax \in Nat /\ Cap \in Nat \ {0}
    /\ MaxRcpt \in Nat /\ MaxTx \in Nat
    /\ Nil \notin Mail /\ Nil \notin Sender

VARIABLES
    pc,          \* where the handle goroutine of a connection is
    state,       \* receiver.state
    auth,        \* receiver.authenticated
    from,        \* receiver.mail.From
    rcpts,       \* receiver.mail.Recipients
    tx,          \* number of transactions that got as far as processMailTx
    todo,        \* place of the next recipient in the loop of processMailTx
    accepted,    \* transactions that were answered 250 after their data
    mailTxQueue, bounceQueue, relayQueue,
    txMail,      \* the mail that processMailTxQueue works on, or Nil
    retry,       \* its Retry
    postponed,   \* is its Postpone in the future?
    failures,    \* history: how often ServeMailTx has failed for it
    bounceMail,  \* the mail that processBounceQueue works on, or Nil
    relayMail,   \* the mail that processRelayQueue works on, or Nil
    queued,      \* history: mails that were sent to mailTxQueue
    delivered,   \* history: mails that ServeMailTx accepted
    listening,   \* are the listeners open?
    closed,      \* did Stop close the queues?
    ended,       \* the queue goroutines that have called wg.Done
    running      \* Server.running

session == <<pc, state, auth, from, rcpts, tx, todo, accepted>>
workers == <<txMail, retry, postponed, failures, bounceMail, relayMail, delivered,
             ended>>
queues == <<mailTxQueue, bounceQueue, relayQueue, queued>>
server == <<listening, closed, running>>
vars == <<session, workers, queues, server>>

\* Start: the queues are empty and the goroutines are started.
Init ==
    /\ pc = [c \in Conn |-> "off"]
    /\ state = [c \in Conn |-> "ZERO"]
    /\ auth = [c \in Conn |-> FALSE]
    /\ from = [c \in Conn |-> Nil]
    /\ rcpts = [c \in Conn |-> <<>>]
    /\ tx = [c \in Conn |-> 0]
    /\ todo = [c \in Conn |-> 1]
    /\ accepted = {}
    /\ mailTxQueue = <<>> /\ bounceQueue = <<>> /\ relayQueue = <<>>
    /\ txMail = Nil /\ retry = 0 /\ postponed = FALSE /\ failures = 0
    /\ bounceMail = Nil /\ relayMail = Nil
    /\ queued = {} /\ delivered = {}
    /\ listening = TRUE /\ closed = FALSE /\ ended = {} /\ running = TRUE

(***************************************************************************)
(* A connection.                                                           *)
(***************************************************************************)

isAuthenticated(c) == c \in ClientMode /\ auth[c]

\* serveIncoming or serveTLS accepts a connection; handle greets it.
Accept(c) ==
    /\ listening
    /\ pc[c] = "off"
    /\ pc' = [pc EXCEPT ![c] = "command"]
    /\ UNCHANGED <<state, auth, from, rcpts, tx, todo, accepted, workers, queues, server>>

\* The connection ends: a read or a write fails, a line is not a command, a
\* handler returns an error.
Disconnect(c) ==
    /\ pc[c] \in {"command", "data"}
    /\ pc' = [pc EXCEPT ![c] = "closed"]
    /\ UNCHANGED <<state, auth, from, rcpts, tx, todo, accepted, workers, queues, server>>

\* A command is read in the loop of handle.  The loop has tested running
\* before the read, which may have waited since.
Command(c) == pc[c] = "command"

\* The loop of handle goes on, if the server is still running.
Again(c) == pc' = [pc EXCEPT ![c] = IF running THEN "command" ELSE "closed"]

\* The state and the envelope of the transaction become t.
SetTx(c, t) ==
    /\ state' = [state EXCEPT ![c] = t.state]
    /\ from' = [from EXCEPT ![c] = t.from]
    /\ rcpts' = [rcpts EXCEPT ![c] = t.rcpts]

\* Mutants of ZeroTx: sendError resets nothing; it resets the mail only.
ZeroTxMissing(c) == [state |-> state[c], from |-> from[c], rcpts |-> rcpts[c]]

ZeroTxMail(c) == [state |-> state[c], from |-> Nil, rcpts |-> <<>>]

\* What receiver.reset leaves of a transaction.
ZeroTx(c) == [state |-> "ZERO", from |-> Nil, rcpts |-> <<>>]

\* The transaction after the test for authentication at the beginning of
\* handleRCPT and handleDATA: sendError resets it, and the handler goes on.
CheckedTx(c) ==
    IF isAuthenticated(c)
    THEN [state |-> state[c], from |-> from[c], rcpts |-> rcpts[c]]
    ELSE ZeroTx(c)

\* NOOP, HELP, VRFY and EXPN of an authenticated client and a cancelled AUTH
\* change nothing.

\* RSET, or a command that is answered with sendError: AUTH, VRFY and EXPN in
\* server mode, AUTH out of sequence or with wrong credentials, MAIL, HELP,
\* VRFY and EXPN without authentication, parameters an extension refuses.
Refuse(c) ==
    /\ Command(c)
    /\ SetTx(c, ZeroTx(c))
    /\ Again(c)
    /\ UNCHANGED <<auth, tx, todo, accepted, workers, queues, server>>

\* HELO and EHLO.  The envelope is left as it is.
Greet(c) ==
    /\ Command(c)
    /\ state' = [state EXCEPT ![c] = "HELO"]
    /\ Again(c)
    /\ UNCHANGED <<auth, from, rcpts, tx, todo, accepted, workers, queues, server>>

\* AUTH with credentials that ServeAuth accepts.  Every other outcome is
\* Refuse or Disconnect.
Auth(c) ==
    /\ Command(c)
    /\ c \in ClientMode
    /\ ~isAuthenticated(c)
    /\ state[c] \notin {"MAIL", "RCPT", "DATA"}
    /\ auth' = [auth EXCEPT ![c] = TRUE]
    /\ state' = [state EXCEPT ![c] = "AUTH"]
    /\ Again(c)
    /\ UNCHANGED <<from, rcpts, tx, todo, accepted, workers, queues, server>>

\* MAIL of an authenticated client; of any other it is Refuse.
MailFrom(c, s) ==
    /\ Command(c)
    /\ isAuthenticated(c)
    /\ from' = [from EXCEPT ![c] = s]
    /\ state' = [state EXCEPT ![c] = "MAIL"]
    /\ Again(c)
    /\ UNCHANGED <<auth, rcpts, tx, todo, accepted, workers, queues, server>>

\* RCPT.  Its reply is 452 instead of 250 from the 101st recipient on, which
\* is added all the same.
RcptTo(c, r) ==
    /\ Command(c)
    /\ Len(rcpts[c]) < MaxRcpt
    /\ SetTx(c, [state |-> "RCPT", from |-> CheckedTx(c).from,
                 rcpts |-> Append(CheckedTx(c).rcpts, r)])
    /\ Again(c)
    /\ UNCHANGED <<auth, tx, todo, accepted, workers, queues, server>>

\* DATA, up to the reply 354 or 503.
Data(c) ==
    /\ Command(c)
    /\ tx[c] < MaxTx
    /\ \/ /\ CheckedTx(c).state = "RCPT"
          /\ SetTx(c, CheckedTx(c))
          /\ pc' = [pc EXCEPT ![c] = "data"]
       \/ /\ CheckedTx(c).state # "RCPT"
          /\ SetTx(c, ZeroTx(c))
          /\ Again(c)
    /\ UNCHANGED <<auth, tx, todo, accepted, workers, queues, server>>

\* Mutant of ReadData: processMailTx counts the recipients from zero.
ReadDataFromZero(c) ==
    /\ pc[c] = "data"
    /\ pc' = [pc EXCEPT ![c] = "queue"]
    /\ state' = [state EXCEPT ![c] = "DATA"]
    /\ tx' = [tx EXCEPT ![c] = @ + 1]
    /\ todo' = [todo EXCEPT ![c] = 0]
    /\ UNCHANGED <<auth, from, rcpts, accepted, workers, queues, server>>

\* The rest of handleDATA: the data and its terminator have been read.
ReadData(c) ==
    /\ pc[c] = "data"
    /\ pc' = [pc EXCEPT ![c] = "queue"]
    /\ state' = [state EXCEPT ![c] = "DATA"]
    /\ tx' = [tx EXCEPT ![c] = @ + 1]
    /\ todo' = [todo EXCEPT ![c] = 1]
    /\ UNCHANGED <<auth, from, rcpts, accepted, workers, queues, server>>

\* The i-th mail that processMailTx makes of the transaction.
MailOf(c, i) == [by |-> c, tx |-> tx[c], i |-> i, from |-> from[c], to |-> rcpts[c][i]]

\* One iteration of the loop of processMailTx; it waits for a free place.
Enqueue(c) ==
    /\ pc[c] = "queue"
    /\ ~closed
    /\ todo[c] <= Len(rcpts[c])
    /\ Len(mailTxQueue) < Cap
    /\ mailTxQueue' = Append(mailTxQueue, MailOf(c, todo[c]))
    /\ queued' = queued \cup {MailOf(c, todo[c])}
    /\ todo' = [todo EXCEPT ![c] = @ + 1]
    /\ UNCHANGED <<pc, state, auth, from, rcpts, tx, accepted, bounceQueue, relayQueue,
                   workers, server>>

\* handle answers 250 and resets the transaction, or the write fails.
AnswerData(c) ==
    /\ pc[c] = "queue"
    /\ todo[c] > Len(rcpts[c])
    /\ \/ /\ Again(c)
          /\ accepted' = accepted \cup {[by |-> c, tx |-> tx[c], n |-> Len(rcpts[c])]}
          /\ SetTx(c, ZeroTx(c))
       \/ /\ pc' = [pc EXCEPT ![c] = "closed"]
          /\ UNCHANGED <<accepted, state, from, rcpts>>
    /\ UNCHANGED <<auth, tx, todo, workers, queues, server>>

\* QUIT.
Quit(c) ==
    /\ Command(c)
    /\ state' = [state EXCEPT ![c] = "QUIT"]
    /\ pc' = [pc EXCEPT ![c] = "closed"]
    /\ UNCHANGED <<auth, from, rcpts, tx, todo, accepted, workers, queues, server>>

(***************************************************************************)
(* The queues.  Each of the three loops receives in the init statement of  *)
(* a for statement, that is once: `for mail, ok := <-q; ok; { ... }`.      *)
(***************************************************************************)

TakeMail ==
    /\ txMail = Nil /\ "tx" \notin ended
    /\ mailTxQueue # <<>>
    /\ txMail' = Head(mailTxQueue)
    /\ mailTxQueue' = Tail(mailTxQueue)
    /\ retry' = 0 /\ postponed' = FALSE /\ failures' = 0
    /\ UNCHANGED <<bounceQueue, relayQueue, queued, bounceMail, relayMail, delivered,
                   ended, session, server>>

\* ServeMailTx of the handler accepts the mail.
Deliver ==
    /\ txMail # Nil /\ ~postponed
    /\ txMail.to \in LocalRcpt
    /\ delivered' = delivered \cup {txMail}
    /\ UNCHANGED <<txMail, retry, postponed, failures, bounceMail, relayMail, ended,
                   session, queues, server>>

\* Mutant of DeliverFail: one attempt too many.
DeliverFailOnceMore ==
    /\ txMail # Nil /\ ~postponed
    /\ txMail.to \in LocalRcpt
    /\ failures' = failures + 1
    /\ \/ /\ retry <= RetryMax
          /\ retry' = retry + 1
          /\ postponed' = TRUE
          /\ UNCHANGED bounceQueue
       \/ /\ retry > RetryMax
          /\ ~closed /\ Len(bounceQueue) < Cap
          /\ bounceQueue' = Append(bounceQueue, txMail)
          /\ UNCHANGED <<retry, postponed>>
    /\ UNCHANGED <<txMail, bounceMail, relayMail, delivered, ended, mailTxQueue,
                   relayQueue, queued, session, server>>

\* ServeMailTx fails: the mail is postponed, which counts it, or bounced when
\* its count has reached RetryMax.  The test comes before the count, so the
\* bounce follows the failure after the last of RetryMax retries.
DeliverFail ==
    /\ txMail # Nil /\ ~postponed
    /\ txMail.to \in LocalRcpt
    /\ failures' = failures + 1
    /\ \/ /\ retry < RetryMax
          /\ retry' = retry + 1
          /\ postponed' = TRUE
          /\ UNCHANGED bounceQueue
       \/ /\ retry >= RetryMax
          /\ ~closed /\ Len(bounceQueue) < Cap
          /\ bounceQueue' = Append(bounceQueue, txMail)
          /\ UNCHANGED <<retry, postponed>>
    /\ UNCHANGED <<txMail, bounceMail, relayMail, delivered, ended, mailTxQueue,
                   relayQueue, queued, session, server>>

\* The time of MailTx.Postpone passes.
PostponeOver ==
    /\ txMail # Nil /\ postponed
    /\ postponed' = FALSE
    /\ UNCHANGED <<txMail, retry, failures, bounceMail, relayMail, delivered, ended,
                   session, queues, server>>

Relay ==
    /\ txMail # Nil /\ ~postponed
    /\ txMail.to \in RemoteRcpt
    /\ ~closed /\ Len(relayQueue) < Cap
    /\ relayQueue' = Append(relayQueue, txMail)
    /\ UNCHANGED <<mailTxQueue, bounceQueue, queued, session, workers, server>>

Bounce ==
    /\ txMail # Nil /\ ~postponed
    /\ txMail.to \in BadRcpt
    /\ ~closed /\ Len(bounceQueue) < Cap
    /\ bounceQueue' = Append(bounceQueue, txMail)
    /\ UNCHANGED <<mailTxQueue, relayQueue, queued, session, workers, server>>

\* processBounceQueue and processRelayQueue receive their mail.
TakeBounce ==
    /\ bounceMail = Nil /\ "bounce" \notin ended
    /\ bounceQueue # <<>>
    /\ bounceMail' = Head(bounceQueue)
    /\ bounceQueue' = Tail(bounceQueue)
    /\ UNCHANGED <<mailTxQueue, relayQueue, queued, txMail, retry, postponed, failures,
                   relayMail, delivered, ended, session, server>>

TakeRelay ==
    /\ relayMail = Nil /\ "relay" \notin ended
    /\ relayQueue # <<>>
    /\ relayMail' = Head(relayQueue)
    /\ relayQueue' = Tail(relayQueue)
    /\ UNCHANGED <<mailTxQueue, bounceQueue, queued, txMail, retry, postponed, failures,
                   bounceMail, delivered, ended, session, server>>

(***************************************************************************)
(* Stop.  A goroutine that sends to a queue after Stop has closed it       *)
(* panics, which ends the program: the model has no step for it.           *)
(***************************************************************************)

\* Stop closes the listeners, whose goroutines call wg.Done, and the queues.
Stop ==
    /\ listening
    /\ listening' = FALSE
    /\ closed' = TRUE
    /\ UNCHANGED <<running, session, workers, queues>>

\* A queue goroutine that never received a mail finds its queue closed.
End(w, mail, queue) ==
    /\ closed
    /\ mail = Nil /\ queue = <<>>
    /\ w \notin ended
    /\ ended' = ended \cup {w}
    /\ UNCHANGED <<txMail, retry, postponed, failures, bounceMail, relayMail, delivered,
                   session, queues, server>>

EndWorker ==
    \/ End("tx", txMail, mailTxQueue)
    \/ End("bounce", bounceMail, bounceQueue)
    \/ End("relay", relayMail, relayQueue)

\* Start returns from wg.Wait.
StartReturns ==
    /\ running /\ ~listening
    /\ ended = {"tx", "bounce", "relay"}
    /\ running' = FALSE
    /\ UNCHANGED <<listening, closed, session, workers, queues>>

(***************************************************************************)
(* The specification.                                                      *)
(***************************************************************************)

ConnNext(c) ==
    \/ Accept(c)
    \/ Disconnect(c)
    \/ Refuse(c)
    \/ Greet(c)
    \/ Auth(c)
    \/ \E s \in Sender : MailFrom(c, s)
    \/ \E r \in Rcpt : RcptTo(c, r)
    \/ Data(c)
    \/ ReadData(c)
    \/ Enqueue(c)
    \/ AnswerData(c)
    \/ Quit(c)

WorkNext ==
    \/ TakeMail
    \/ Deliver
    \/ DeliverFail
    \/ PostponeOver
    \/ Relay
    \/ Bounce
    \/ TakeBounce
    \/ TakeRelay
    \/ EndWorker

Next ==
    \/ \E c \in Conn : ConnNext(c)
    \/ WorkNext
    \/ Stop
    \/ StartReturns

Spec == Init /\ [][Next]_vars

\* The goroutines of the queues run, and a handler of the user's succeeds in
\* the end.
FairSpec ==
    /\ Spec
    /\ WF_vars(TakeMail) /\ WF_vars(Relay) /\ WF_vars(Bounce)
    /\ WF_vars(PostponeOver) /\ SF_vars(Deliver)
    /\ WF_vars(TakeBounce) /\ WF_vars(TakeRelay)

(***************************************************************************)
(* Properties.                                                             *)
(***************************************************************************)

\* Every variable has the type of the Go variable it stands for.
TypeOK ==
    /\ pc \in [Conn -> {"off", "command", "data", "queue", "closed"}]
    /\ state \in [Conn -> {"ZERO", "HELO", "AUTH", "MAIL", "RCPT", "DATA", "QUIT"}]
    /\ auth \in [Conn -> BOOLEAN]
    /\ from \in [Conn -> Sender \cup {Nil}]
    /\ rcpts \in [Conn -> Seq(Rcpt)]
    /\ tx \in [Conn -> Nat]
    /\ todo \in [Conn -> Nat \ {0}]
    /\ accepted \subseteq [by : Conn, tx : Nat, n : Nat]
    /\ mailTxQueue \in Seq(Mail) /\ bounceQueue \in Seq(Mail) /\ relayQueue \in Seq(Mail)
    /\ txMail \in Mail \cup {Nil} /\ bounceMail \in Mail \cup {Nil}
    /\ relayMail \in Mail \cup {Nil}
    /\ retry \in Nat /\ postponed \in BOOLEAN /\ failures \in Nat
    /\ queued \subseteq Mail /\ delivered \subseteq Mail
    /\ ended \subseteq {"tx", "bounce", "relay"}
    /\ listening \in BOOLEAN /\ closed \in BOOLEAN /\ running \in BOOLEAN

\* The server is no open relay: whatever commands a client sends in whatever
\* order, a mail reaches the queue only from a connection to port 465 that
\* has authenticated.  handleRCPT and handleDATA go on after they refused a
\* command; only the reset inside sendError keeps the mail out.
AuthenticatedMail == \A m \in queued : isAuthenticated(m.by)

\* A 250 after the data is a promise: the transaction had a recipient, and
\* for every one of its recipients a mail was queued.
AcceptedIsQueued ==
    \A a \in accepted :
        /\ a.n > 0
        /\ \A i \in 1..a.n : \E m \in queued : m.by = a.by /\ m.tx = a.tx /\ m.i = i

\* A mail that was sent to bounceQueue.
Bounced(m) == m = bounceMail \/ \E k \in 1..Len(bounceQueue) : m = bounceQueue[k]

\* A mail to a known recipient is given up neither too early nor too late: it
\* is bounced when ServeMailTx has failed for it RetryMax + 1 times, that is
\* at the first attempt and at each of RetryMax retries, and once it has
\* failed so often it is bounced.  Six failures with the 5 of the code, since
\* processMailTxQueue tests the count before postpone increments it.
BounceAfterRetries ==
    /\ failures > RetryMax => Bounced(txMail)
    /\ \A m \in {bounceMail} \cup {bounceQueue[k] : k \in 1..Len(bounceQueue)} :
          m # Nil /\ m.to \in LocalRcpt => m = txMail /\ failures > RetryMax

(***************************************************************************)
(* What comments of the code say and the code does not do.                 *)
(***************************************************************************)

\* server.go:629, "process incoming mail transactions": a queued mail is
\* delivered, relayed or bounced.
MailProcessed ==
    \A c \in Conn, t \in 1..MaxTx, i \in 1..MaxRcpt :
        (\E m \in queued : m.by = c /\ m.tx = t /\ m.i = i)
        ~> (closed \/ (txMail # Nil /\ txMail.by = c /\ txMail.tx = t /\ txMail.i = i))
=============================================================================
