----------------------------- MODULE SmtpClient -----------------------------
(***************************************************************************)
(* The client of lib/smtp talking to the session of lib/smtp's server      *)
(* (handleEHLO, handleAUTH, handleMAIL, handleRCPT, handleDATA), over a    *)
(* connection that may deliver a reply in two parts.  The program calls    *)
(* Authenticate and MailTx one after the other, whatever they return.      *)
(***************************************************************************)
EXTENDS Integers, Sequences, SequencesExt, FiniteSetsExt

CONSTANTS ScMails,      \* mails the program sends: [from, to], to a sequence of recipients
          ScMaxTo,      \* recipients the server takes (100 in the code)
          ScMXs,        \* what LookupMX may return: sequences of [pref, host]
          ScMaxMails, ScMaxSplits \* bounds: calls of a behaviour, replies that arrive in parts
ScSenders == {0} \cup {mail.from : mail \in ScMails}
ScAddresses == UNION {Range(mail.to) : mail \in ScMails}
ASSUME ScAssumption == /\ ScMaxTo \in Nat /\ ScMaxMails \in Nat /\ ScMaxSplits \in Nat
                       /\ ScMails \subseteq [from : ScSenders, to : Seq(ScAddresses)]

VARIABLES scPc,      \* the client: "new", "greet", "ehlo", "starttls", "idle", "auth", "mail", "rcpt", "data", "message", "closed", "panic"
          scHost,    \* the host lookup chose
          scMail, scTo, \* the mail of MailTx, and the recipients still to be sent
          scReq, scIn,  \* commands on their way to the server; parts of replies on their way back
          scSrv,     \* the receiver: [state, from, to, auth]; "closed" is a connection that it has closed
          scTaken,   \* the mails the server accepted: [from, to]
          scSent,    \* the MailTx calls that returned no error: [mail, taken], taken the mails accepted by then
          scFailed,  \* a call of this session returned an error
          scCut,     \* a call has read part of a reply and left the rest in the connection
          scCount, scSplits
scVars == <<scPc, scHost, scMail, scTo, scReq, scIn, scSrv, scTaken, scSent, scFailed, scCut, scCount, scSplits>>

ScNone == [from |-> 0, to |-> <<>>]
ScFreshSrv == [state |-> "new", from |-> 0, to |-> <<>>, auth |-> "no"]
ScCodes == {220, 235, 250, 354, 451, 452, 503, 530, 535}
ScInit == /\ scPc = "new" /\ scHost = "" /\ scMail = ScNone /\ scTo = <<>> /\ scReq = <<>> /\ scIn = <<>>
          /\ scSrv = ScFreshSrv /\ scTaken = <<>> /\ scSent = {} /\ scFailed = FALSE /\ scCut = FALSE /\ scCount = 0 /\ scSplits = 0

-----------------------------------------------------------------------------
(* The server: what it replies to a command, and its state afterwards.     *)
ScReply(code, srv) == [code |-> code, srv |-> srv]
\* recv.reset, after a mail and in every sendError; a second MAIL keeps the recipients.
ScReset == [scSrv EXCEPT !.state = "new", !.from = 0, !.to = <<>>]
\* Mutant of ScRcpt: a recipient takes the place of the one before.
ScRcptLast(srv, to) == [srv EXCEPT !.to = <<to>>, !.state = "rcpt"]
ScRcpt(srv, to) == [srv EXCEPT !.to = Append(@, to), !.state = "rcpt"]
\* handleRCPT and handleDATA reply that authentication is required, reset, and go on.
ScWarns(cmd) == cmd.kind \in {"rcpt", "data"} /\ scSrv.auth = "no"
\* handleAUTH, of the port for clients: arg 0 are wrong credentials, or any on the port for other servers (500 there).
ScServedAuth(cmd) ==
  IF scSrv.auth = "yes" \/ scSrv.state \in {"mail", "rcpt"} THEN ScReply(503, ScReset)
  ELSE IF cmd.arg = 0 THEN ScReply(535, ScReset)
  ELSE ScReply(235, [scSrv EXCEPT !.auth = "yes", !.state = "auth"])
ScServedRcpt(cmd) ==
  LET srv == IF scSrv.auth = "yes" THEN scSrv ELSE ScReset
  IN ScReply(IF Len(srv.to) + 1 > ScMaxTo THEN 452 ELSE 250, ScRcpt(srv, cmd.arg))
\* What readCommand cannot parse is an error that ends the connection: STARTTLS, and a message where a command should be.
ScServed(cmd) ==
  CASE cmd.kind = "ehlo" -> ScReply(250, [scSrv EXCEPT !.state = "ehlo"])
    [] cmd.kind = "auth" -> ScServedAuth(cmd)
    [] cmd.kind = "mail" -> IF scSrv.auth = "yes" THEN ScReply(250, [scSrv EXCEPT !.from = cmd.arg, !.state = "mail"]) ELSE ScReply(530, ScReset)
    [] cmd.kind = "rcpt" -> ScServedRcpt(cmd)
    [] cmd.kind = "data" -> IF scSrv.auth = "yes" /\ scSrv.state = "rcpt" THEN ScReply(354, [scSrv EXCEPT !.state = "data"]) ELSE ScReply(503, ScReset)
    [] cmd.kind = "message" -> IF scSrv.state = "data" THEN ScReply(250, ScReset) ELSE ScReply(451, [scSrv EXCEPT !.state = "closed"])
    [] cmd.kind = "starttls" -> ScReply(451, [scSrv EXCEPT !.state = "closed"])

\* readDATA takes whatever comes before the end of a message for its content, and answers nothing.
ScSwallow ==
  /\ scReq # <<>> /\ scPc # "closed" /\ scSrv.state = "data" /\ Head(scReq).kind # "message"
  /\ scReq' = Tail(scReq)
  /\ UNCHANGED <<scPc, scHost, scMail, scTo, scIn, scSrv, scTaken, scSent, scFailed, scCut, scCount, scSplits>>

ScServe == \E split \in BOOLEAN :
  LET cmd == Head(scReq)
      reply == ScServed(cmd)
      part(p, code) == [part |-> p, code |-> code]
      warning == IF ScWarns(cmd) THEN <<part("whole", 530)>> ELSE <<>>
      parts == IF split THEN <<part("head", reply.code), part("tail", reply.code)>> ELSE <<part("whole", reply.code)>>
  IN /\ scReq # <<>> /\ scPc # "closed" /\ scSrv.state # "closed" /\ scReq' = Tail(scReq) /\ scSrv' = reply.srv
     /\ scSrv.state = "data" => cmd.kind = "message"
     /\ scTaken' = IF cmd.kind = "message" /\ scSrv.state = "data" THEN Append(scTaken, [from |-> scSrv.from, to |-> scSrv.to]) ELSE scTaken
     /\ split => scSplits < ScMaxSplits
     /\ scSplits' = IF split THEN scSplits + 1 ELSE scSplits
     /\ scIn' = (scIn \o warning) \o parts
     /\ UNCHANGED <<scPc, scHost, scMail, scTo, scSent, scFailed, scCut, scCount>>

-----------------------------------------------------------------------------
(* The client.  recv reads what has arrived, once; NewResponse wants one   *)
(* whole reply.  0 stands for an error.                                    *)
ScParsed(parts) == IF Len(parts) = 1 /\ parts[1].part = "whole" THEN parts[1].code
                   ELSE IF Len(parts) = 2 /\ parts[1].part = "head" /\ parts[2].part = "tail" THEN parts[1].code
                   ELSE 0
\* The server closes the connection only on STARTTLS here, which fails NewClient: no call reads the end of it.
ScRecv(code, n) == /\ n \in 1..Len(scIn) /\ code = ScParsed(SubSeq(scIn, 1, n)) /\ scIn' = SubSeq(scIn, n + 1, Len(scIn))
ScSend(kind, arg) == scReq' = Append(scReq, [kind |-> kind, arg |-> arg])
ScFail == scPc' = "idle" /\ scFailed' = TRUE /\ UNCHANGED <<scReq, scTo, scSent>>

\* lookup: pref is never lowered, so the last host with a preference below 65535 is taken.
ScLookup(mxs) == LET below == {i \in DOMAIN mxs : mxs[i].pref < 65535} IN IF below = {} THEN "self" ELSE mxs[Max(below)].host

ScNewClient == \E mxs \in ScMXs :
  /\ scPc = "new" /\ scPc' = "greet" /\ scHost' = ScLookup(mxs)
  /\ scIn' = <<[part |-> "whole", code |-> 220]>>
  /\ UNCHANGED <<scMail, scTo, scReq, scSrv, scTaken, scSent, scFailed, scCut, scCount, scSplits>>

\* connect, ehlo and StartTLS; any other reply fails NewClient.
ScConnect == \E n \in 1..3, code \in ScCodes \cup {0}, tls \in BOOLEAN :
  /\ scPc \in {"greet", "ehlo", "starttls"} /\ ScRecv(code, n)
  /\ IF code # (IF scPc = "ehlo" THEN 250 ELSE 220) THEN scPc' = "closed" /\ UNCHANGED scReq
     ELSE IF scPc = "greet" THEN scPc' = "ehlo" /\ ScSend("ehlo", 0)
     ELSE IF scPc = "ehlo" /\ tls THEN scPc' = "starttls" /\ ScSend("starttls", 0)
     ELSE scPc' = "idle" /\ UNCHANGED scReq
  /\ UNCHANGED <<scHost, scMail, scTo, scSrv, scTaken, scSent, scFailed, scCut, scCount, scSplits>>

\* Authenticate returns whatever the server replies.
ScAuthenticate == \E credentials \in {0, 1} :
  /\ scPc = "idle" /\ scPc' = "auth" /\ scCount < ScMaxMails /\ scCount' = scCount + 1 /\ ScSend("auth", credentials)
  /\ UNCHANGED <<scHost, scMail, scTo, scIn, scSrv, scTaken, scSent, scFailed, scCut, scSplits>>
ScAuthenticated == \E n \in 1..3, code \in ScCodes \cup {0} :
  /\ scPc = "auth" /\ scPc' = "idle" /\ ScRecv(code, n) /\ scCut' = (scCut \/ code = 0) /\ scFailed' = (scFailed \/ code = 0)
  /\ UNCHANGED <<scHost, scMail, scTo, scReq, scSrv, scTaken, scSent, scCount, scSplits>>

ScMailTx == \E mail \in ScMails :
  /\ scPc = "idle" /\ scCount < ScMaxMails /\ scCount' = scCount + 1
  /\ IF mail.to = <<>> THEN scFailed' = TRUE /\ UNCHANGED <<scPc, scMail, scTo, scReq>>
     ELSE scPc' = "mail" /\ scMail' = mail /\ scTo' = mail.to /\ ScSend("mail", mail.from) /\ UNCHANGED scFailed
  /\ UNCHANGED <<scHost, scIn, scSrv, scTaken, scSent, scCut, scSplits>>

\* After MAIL an error is returned; from RCPT on res is nil with an error, and its code is read.
ScAfterMail(code) ==
  IF code # 250 THEN ScFail
  ELSE scPc' = "rcpt" /\ ScSend("rcpt", Head(scTo)) /\ scTo' = Tail(scTo) /\ UNCHANGED <<scSent, scFailed>>
ScAfterRcpt(code) ==
  IF code # 250 THEN ScFail
  ELSE IF scTo = <<>> THEN scPc' = "data" /\ ScSend("data", 0) /\ UNCHANGED <<scTo, scSent, scFailed>>
  ELSE scPc' = "rcpt" /\ ScSend("rcpt", Head(scTo)) /\ scTo' = Tail(scTo) /\ UNCHANGED <<scSent, scFailed>>
ScAfterData(code) ==
  IF code # 354 THEN ScFail
  ELSE scPc' = "message" /\ ScSend("message", 0) /\ UNCHANGED <<scTo, scSent, scFailed>>
ScAfterMessage(code) ==
  IF code # 250 THEN ScFail
  ELSE scPc' = "idle" /\ scSent' = scSent \cup {[mail |-> scMail, taken |-> Len(scTaken)]} /\ UNCHANGED <<scReq, scTo, scFailed>>

ScReceive == \E n \in 1..3, code \in ScCodes \cup {0} :
  /\ scPc \in {"mail", "rcpt", "data", "message"} /\ ScRecv(code, n) /\ scCut' = (scCut \/ code = 0)
  /\ IF code = 0 /\ scPc # "mail" THEN scPc' = "panic" /\ UNCHANGED <<scReq, scTo, scSent, scFailed>>
     ELSE CASE scPc = "mail" -> ScAfterMail(code) [] scPc = "rcpt" -> ScAfterRcpt(code)
            [] scPc = "data" -> ScAfterData(code) [] scPc = "message" -> ScAfterMessage(code)
  /\ UNCHANGED <<scHost, scMail, scSrv, scTaken, scCount, scSplits>>

ScQuit == /\ scPc = "idle" /\ scPc' = "closed"
          /\ UNCHANGED <<scHost, scMail, scTo, scReq, scIn, scSrv, scTaken, scSent, scFailed, scCut, scCount, scSplits>>

ScNext == ScServe \/ ScSwallow \/ ScNewClient \/ ScConnect \/ ScAuthenticate \/ ScAuthenticated \/ ScMailTx \/ ScReceive \/ ScQuit
ScSpec == ScInit /\ [][ScNext]_scVars

-----------------------------------------------------------------------------
ScTypeOK == /\ scPc \in {"new", "greet", "ehlo", "starttls", "idle", "auth", "mail", "rcpt", "data", "message", "closed", "panic"}
            /\ scCount \in 0..ScMaxMails /\ scSplits \in 0..ScMaxSplits /\ scSrv.state \in {"new", "ehlo", "auth", "mail", "rcpt", "data", "closed"}

(* A MailTx that returns no error has given the server its own mail: the   *)
(* last mail accepted has its sender and all its recipients, though        *)
(* earlier ones may have failed half way - up to the first reply that a    *)
(* call reads in part, whose rest the next ones take for their own: behind *)
(* by three replies, MailTx returns the success of another mail.           *)
ScDelivered == ~scCut => \A s \in scSent :
  s.taken > 0 /\ scTaken[s.taken].from = s.mail.from /\ Range(s.mail.to) \subseteq Range(scTaken[s.taken].to)

(* And no other recipients, unless a MailTx before it failed: the client   *)
(* sends no RSET, and the server keeps the recipients of the transaction.  *)
ScOwnRecipients == ~scFailed => \A s \in scSent : scTaken[s.taken].to = s.mail.to

\* lookup: "Select the lowest MX preferences."
ScLowestMX == scHost \in {"", "self"} \/ \E mxs \in ScMXs : \E i \in DOMAIN mxs :
  scHost = mxs[i].host /\ \A j \in DOMAIN mxs : mxs[i].pref <= mxs[j].pref

(* The server takes mails only in an authenticated session, although RCPT  *)
(* and DATA go on without, and however far the client is behind.           *)
ScAuthFirst == scTaken # <<>> \/ scSrv.state = "data" => scSrv.auth = "yes"

(* What MailTx reports as sent is the mail it was given, up to the first   *)
(* reply read in part, and to the recipients it was given, up to the first *)
(* call that fails; and nothing is taken without authentication.           *)
ScSound == ScDelivered /\ ScOwnRecipients /\ ScAuthFirst
=============================================================================
