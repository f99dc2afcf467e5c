-------------------------- MODULE SmtpClientProofs --------------------------
(***************************************************************************)
(* Theorems about the SMTP client and the session it talks to              *)
(* (SmtpClient), alone and in the run that has it (MCNet).                 *)
(***************************************************************************)
EXTENDS MCNet, SequenceTheorems, TLAPS

ScPartType == [part : {"whole", "head", "tail"}, code : ScCodes]
ScCommandType == [kind : {"mail"}, arg : ScSenders] \cup [kind : {"rcpt"}, arg : ScAddresses] \cup [kind : {"auth"}, arg : {0, 1}]
                 \cup [kind : {"ehlo", "starttls", "data", "message"}, arg : {0}]
ScSrvType == [state : {"new", "ehlo", "auth", "mail", "rcpt", "data", "closed"}, from : ScSenders, to : Seq(ScAddresses), auth : {"no", "yes"}]

ScTypes ==
  /\ scPc \in {"new", "greet", "ehlo", "starttls", "idle", "auth", "mail", "rcpt", "data", "message", "closed", "panic"}
  /\ scCount \in 0..ScMaxMails /\ scSplits \in 0..ScMaxSplits /\ scFailed \in BOOLEAN /\ scCut \in BOOLEAN
  /\ scMail \in [from : ScSenders, to : Seq(ScAddresses)] /\ scTo \in Seq(ScAddresses)
  /\ scReq \in Seq(ScCommandType) /\ scIn \in Seq(ScPartType) /\ scSrv \in ScSrvType
  /\ scTaken \in Seq([from : ScSenders, to : Seq(ScAddresses)])
  /\ scPc = "mail" => scTo # <<>>

\* One whole reply, in one part or in two.
ScWhole(parts, code) == \/ parts = <<[part |-> "whole", code |-> code]>>
                        \/ parts = <<[part |-> "head", code |-> code], [part |-> "tail", code |-> code]>>
\* A command is on its way, or its reply is.
ScAsked(kind, arg) == scReq = <<[kind |-> kind, arg |-> arg]>> /\ scIn = <<>>
ScAnswered(code) == scReq = <<>> /\ ScWhole(scIn, code)

\* The server has the recipients of the mail but the rest, and no other if nothing failed before.
ScHas(rest) == /\ Range(scMail.to) \subseteq Range(scSrv.to) \cup Range(rest)
               /\ ~scFailed => scMail.to = scSrv.to \o rest
\* The last mail the server has accepted is the one of MailTx.
ScTook == /\ scTaken # <<>> /\ scTaken[Len(scTaken)].from = scMail.from
          /\ Range(scMail.to) \subseteq Range(scTaken[Len(scTaken)].to)
          /\ ~scFailed => scTaken[Len(scTaken)].to = scMail.to

\* Where client and server are while MailTx waits for the reply to MAIL, RCPT, DATA and the message.
ScAtMail == /\ scTo = scMail.to
            /\ \/ ScAsked("mail", scMail.from)
               \/ ScAnswered(250) /\ scSrv.from = scMail.from /\ scSrv.auth = "yes"
               \/ ScAnswered(530)
ScAskedRcpt(to) == ScAsked("rcpt", to) /\ ScHas(<<to>> \o scTo)
ScAtRcpt == /\ scSrv.from = scMail.from /\ scSrv.auth = "yes"
            /\ \/ \E to \in ScAddresses : ScAskedRcpt(to)
               \/ (ScAnswered(250) \/ ScAnswered(452)) /\ scSrv.state = "rcpt" /\ ScHas(scTo)
ScAtData == /\ scSrv.from = scMail.from /\ scSrv.auth = "yes" /\ ScHas(<<>>)
            /\ (ScAsked("data", 0) /\ scSrv.state = "rcpt") \/ (ScAnswered(354) /\ scSrv.state = "data")
ScAtMessage == \/ ScAsked("message", 0) /\ scSrv.state = "data" /\ scSrv.from = scMail.from /\ ScHas(<<>>)
               \/ ScAnswered(250) /\ scSrv.state # "data" /\ scSrv.to = <<>> /\ ScTook
\* And while Authenticate does.
ScAtAuth == (\E c \in {0, 1} : ScAsked("auth", c)) \/ (\E code \in {235, 503, 535} : ScAnswered(code))
\* Client and server are in step: there is one command, or its reply, on the way when the client
\* waits, and what the server has is what the client has sent.
ScInStep ==
  /\ scPc \in {"new", "idle"} => scReq = <<>> /\ scIn = <<>>
  /\ scPc = "greet" => ScAnswered(220)
  /\ scPc = "ehlo" => ScAsked("ehlo", 0) \/ ScAnswered(250)
  /\ scPc = "starttls" => ScAsked("starttls", 0) \/ ScAnswered(451)
  /\ scPc = "auth" => ScAtAuth
  /\ scPc = "mail" => ScAtMail
  /\ scPc = "rcpt" => ScAtRcpt
  /\ scPc = "data" => ScAtData
  /\ scPc = "message" => ScAtMessage
ScStep == ~scCut /\ scPc \notin {"closed", "panic"} =>
  /\ ScInStep
  /\ scPc \notin {"data", "message"} => scSrv.state # "data"
  /\ ~scFailed /\ scPc \notin {"rcpt", "data", "message"} => scSrv.to = <<>>

\* What was reported as sent.
ScKept ==
  /\ ~scCut => \A s \in scSent : /\ s.taken \in 1..Len(scTaken) /\ scTaken[s.taken].from = s.mail.from
                                 /\ Range(s.mail.to) \subseteq Range(scTaken[s.taken].to)
  /\ ~scFailed => \A s \in scSent : s.taken \in 1..Len(scTaken) /\ scTaken[s.taken].to = s.mail.to

\* A call that reads part of a reply fails, or panics.
ScCutFails == scCut => scFailed \/ scPc = "panic"

ScInv == ScTypes /\ ScAuthFirst /\ ScCutFails /\ ScStep /\ ScKept

-----------------------------------------------------------------------------
(* One whole reply is a sequence of parts, and not empty.                  *)
LEMMA ScWholeType ==
  ASSUME NEW parts, NEW c \in ScCodes, ScWhole(parts, c)
  PROVE  parts \in Seq(ScPartType) /\ parts # <<>>
<1> DEFINE w == [part |-> "whole", code |-> c]
<1> DEFINE h == [part |-> "head", code |-> c]
<1> DEFINE l == [part |-> "tail", code |-> c]
<1>1. w \in ScPartType /\ h \in ScPartType /\ l \in ScPartType
  BY DEF ScPartType
<1>2. parts = <<w>> \/ parts = <<h, l>>
  BY DEF ScWhole
<1> HIDE DEF w, h, l
<1>3. <<w>> \in Seq(ScPartType) /\ <<h, l>> \in Seq(ScPartType)
  BY <1>1
<1>4. Len(<<w>>) = 1 /\ Len(<<h, l>>) = 2 /\ Len(<<>>) = 0
  BY EmptySeq
<1>5. Len(parts) \in {1, 2}
  BY <1>2, <1>4
<1>6. parts \in Seq(ScPartType)
  BY <1>2, <1>3
<1>7. parts # <<>>
  BY <1>4, <1>5
<1> QED BY <1>6, <1>7

(* What recv reads of one whole reply is all of it, or no reply at all.    *)
LEMMA ScWholeRead ==
  ASSUME NEW parts, NEW c \in ScCodes, ScWhole(parts, c), NEW n \in 1..Len(parts)
  PROVE  \/ ScParsed(SubSeq(parts, 1, n)) = 0
         \/ ScParsed(SubSeq(parts, 1, n)) = c /\ SubSeq(parts, n + 1, Len(parts)) = <<>>
<1>0. parts \in Seq(ScPartType) /\ n \in 1..Len(parts)
  BY ScWholeType
<1> DEFINE got == SubSeq(parts, 1, n)
<1>1. got \in Seq(ScPartType) /\ Len(got) = n /\ \A i \in 1..n : got[i] = parts[i]
  BY <1>0, SubSeqProperties
<1>2. n = Len(parts) => SubSeq(parts, n + 1, Len(parts)) = <<>>
  BY <1>0, SubSeqEmpty
<1> HIDE DEF got
<1>3. CASE parts = <<[part |-> "whole", code |-> c]>>
  <2>1. Len(parts) = 1 /\ n = 1 /\ got[1] = parts[1]
    BY <1>0, <1>1, <1>3
  <2>2. parts[1].part = "whole" /\ parts[1].code = c
    BY <1>3
  <2>3. ScParsed(got) = c
    BY <1>1, <2>1, <2>2 DEF ScParsed
  <2> QED BY <1>2, <2>1, <2>3 DEF got
<1>4. CASE parts = <<[part |-> "head", code |-> c], [part |-> "tail", code |-> c]>>
  <2>1. Len(parts) = 2 /\ n \in {1, 2} /\ got[1] = parts[1] /\ (n = 2 => got[2] = parts[2])
    BY <1>0, <1>1, <1>4
  <2>2. parts[1].part = "head" /\ parts[1].code = c /\ parts[2].part = "tail"
    BY <1>4
  <2>3. n = 1 => ScParsed(got) = 0
    BY <1>1, <2>1, <2>2 DEF ScParsed
  <2>4. n = 2 => ScParsed(got) = c
    BY <1>1, <2>1, <2>2 DEF ScParsed
  <2> QED BY <1>2, <2>1, <2>3, <2>4 DEF got
<1> QED BY <1>3, <1>4 DEF ScWhole

(* What the receiver answers to each command, and what it has then.        *)
LEMMA ScServedKinds ==
  ASSUME NEW cmd
  PROVE  /\ cmd.kind = "ehlo" => ScServed(cmd) = ScReply(250, [scSrv EXCEPT !.state = "ehlo"])
         /\ cmd.kind = "auth" => ScServed(cmd) = ScServedAuth(cmd)
         /\ cmd.kind = "starttls" => ScServed(cmd) = ScReply(451, [scSrv EXCEPT !.state = "closed"])
         /\ cmd.kind = "rcpt" => ScServed(cmd) = ScServedRcpt(cmd)
<1>1. cmd.kind = "ehlo" => ScServed(cmd) = ScReply(250, [scSrv EXCEPT !.state = "ehlo"])
  BY DEF ScServed
<1>2. cmd.kind = "auth" => ScServed(cmd) = ScServedAuth(cmd)
  BY DEF ScServed
<1>3. cmd.kind = "starttls" => ScServed(cmd) = ScReply(451, [scSrv EXCEPT !.state = "closed"])
  BY DEF ScServed
<1>4. cmd.kind = "rcpt" => ScServed(cmd) = ScServedRcpt(cmd)
  BY DEF ScServed
<1> QED BY <1>1, <1>2, <1>3, <1>4

(* To MAIL, in a session that is authenticated or not.                     *)
LEMMA ScServedMail ==
  ASSUME NEW cmd, cmd.kind = "mail"
  PROVE  ScServed(cmd) = IF scSrv.auth = "yes" THEN ScReply(250, [scSrv EXCEPT !.from = cmd.arg, !.state = "mail"])
                         ELSE ScReply(530, ScReset)
BY DEF ScServed

(* To DATA.                                                                *)
LEMMA ScServedData ==
  ASSUME NEW cmd, cmd.kind = "data"
  PROVE  ScServed(cmd) = IF scSrv.auth = "yes" /\ scSrv.state = "rcpt" THEN ScReply(354, [scSrv EXCEPT !.state = "data"])
                         ELSE ScReply(503, ScReset)
BY DEF ScServed

(* And to the text of a message.                                           *)
LEMMA ScServedMessage ==
  ASSUME NEW cmd, cmd.kind = "message"
  PROVE  ScServed(cmd) = IF scSrv.state = "data" THEN ScReply(250, ScReset) ELSE ScReply(451, [scSrv EXCEPT !.state = "closed"])
BY DEF ScServed

(* A receiver that is reset keeps that its session is authenticated.       *)
LEMMA ScResetSrv ==
  ASSUME scSrv \in ScSrvType
  PROVE  /\ ScReset \in ScSrvType /\ ScReset.state = "new" /\ ScReset.to = <<>> /\ ScReset.auth = scSrv.auth
         /\ \A state \in {"new", "ehlo", "auth", "mail", "rcpt", "data", "closed"} :
              /\ [scSrv EXCEPT !.state = state] \in ScSrvType /\ [scSrv EXCEPT !.state = state].state = state
              /\ [scSrv EXCEPT !.state = state].to = scSrv.to /\ [scSrv EXCEPT !.state = state].from = scSrv.from
              /\ [scSrv EXCEPT !.state = state].auth = scSrv.auth
<1>1. 0 \in ScSenders /\ <<>> \in Seq(ScAddresses)
  BY EmptySeq DEF ScSenders
<1>2. /\ ScReset \in ScSrvType /\ ScReset.state = "new" /\ ScReset.to = <<>> /\ ScReset.auth = scSrv.auth
  BY <1>1 DEF ScReset, ScSrvType
<1>3. ASSUME NEW state \in {"new", "ehlo", "auth", "mail", "rcpt", "data", "closed"}
      PROVE  /\ [scSrv EXCEPT !.state = state] \in ScSrvType /\ [scSrv EXCEPT !.state = state].state = state
             /\ [scSrv EXCEPT !.state = state].to = scSrv.to /\ [scSrv EXCEPT !.state = state].from = scSrv.from
             /\ [scSrv EXCEPT !.state = state].auth = scSrv.auth
  BY DEF ScSrvType
<1> QED BY <1>2, <1>3

(* The elements of a sequence that one is added to.                        *)
LEMMA RangeAppended ==
  ASSUME NEW S, NEW seq \in Seq(S), NEW e \in S
  PROVE  Range(Append(seq, e)) = Range(seq) \cup {e}
<1>1. /\ Append(seq, e) \in Seq(S) /\ Len(Append(seq, e)) = Len(seq) + 1
      /\ \A i \in 1..Len(seq) : Append(seq, e)[i] = seq[i]
      /\ Append(seq, e)[Len(seq) + 1] = e /\ Len(seq) \in Nat
  BY AppendProperties, LenProperties
<1>2. DOMAIN Append(seq, e) = 1..(Len(seq) + 1) /\ DOMAIN seq = 1..Len(seq)
  BY <1>1
<1> QED BY <1>1, <1>2 DEF Range

(* The elements of a sequence that one is put before.                      *)
LEMMA RangePrefixed ==
  ASSUME NEW S, NEW seq \in Seq(S), NEW e \in S
  PROVE  Range(<<e>> \o seq) = {e} \cup Range(seq)
<1>0. <<e>> \in Seq(S) /\ Len(<<e>>) = 1 /\ Len(seq) \in Nat
  BY LenProperties
<1>1. /\ <<e>> \o seq \in Seq(S) /\ Len(<<e>> \o seq) = 1 + Len(seq)
      /\ \A i \in 1..(1 + Len(seq)) : (<<e>> \o seq)[i] = IF i <= 1 THEN <<e>>[i] ELSE seq[i - 1]
  BY <1>0, ConcatProperties
<1>2. DOMAIN (<<e>> \o seq) = 1..(1 + Len(seq)) /\ DOMAIN seq = 1..Len(seq)
  BY <1>1
<1>3. (<<e>> \o seq)[1] = e /\ \A i \in 1..Len(seq) : (<<e>> \o seq)[i + 1] = seq[i]
  BY <1>0, <1>1
<1>4. ASSUME NEW x PROVE x \in Range(<<e>> \o seq) <=> x \in {e} \cup Range(seq)
  <2>1. ASSUME x \in Range(<<e>> \o seq) PROVE x \in {e} \cup Range(seq)
    <3>1. PICK i \in 1..(1 + Len(seq)) : x = (<<e>> \o seq)[i]
      BY <1>2, <2>1 DEF Range
    <3>2. CASE i = 1
      BY <1>3, <3>1, <3>2
    <3>3. CASE i # 1
      <4>1. i - 1 \in 1..Len(seq) /\ x = seq[i - 1]
        BY <1>0, <1>1, <3>1, <3>3
      <4> QED BY <1>2, <4>1 DEF Range
    <3> QED BY <3>2, <3>3
  <2>2. ASSUME x \in {e} \cup Range(seq) PROVE x \in Range(<<e>> \o seq)
    <3>1. CASE x = e
      BY <1>0, <1>2, <1>3, <3>1 DEF Range
    <3>2. CASE x \in Range(seq)
      <4>1. PICK i \in 1..Len(seq) : x = seq[i]
        BY <1>2, <3>2 DEF Range
      <4>2. i + 1 \in 1..(1 + Len(seq)) /\ x = (<<e>> \o seq)[i + 1]
        BY <1>0, <1>3, <4>1
      <4> QED BY <1>2, <4>2 DEF Range
    <3> QED BY <2>2, <3>1, <3>2
  <2> QED BY <2>1, <2>2
<1> QED BY <1>4

(* A sequence is its head and its tail.                                    *)
LEMMA HeadThenTail ==
  ASSUME NEW S, NEW seq \in Seq(S), seq # <<>>
  PROVE  /\ Head(seq) \in S /\ Tail(seq) \in Seq(S)
         /\ seq = <<Head(seq)>> \o Tail(seq)
<1>1. Head(seq) \in S /\ Tail(seq) \in Seq(S) /\ Len(Tail(seq)) = Len(seq) - 1
      /\ \A i \in 1..Len(Tail(seq)) : Tail(seq)[i] = seq[i + 1]
  BY HeadTailProperties
<1>2. Len(seq) \in Nat \ {0} /\ Head(seq) = seq[1] /\ DOMAIN seq = 1..Len(seq)
  BY EmptySeq, LenProperties
<1> DEFINE h == <<Head(seq)>>
<1>3. h \in Seq(S) /\ Len(h) = 1 /\ h[1] = seq[1]
  BY <1>1, <1>2
<1>4. /\ h \o Tail(seq) \in Seq(S) /\ Len(h \o Tail(seq)) = Len(seq)
      /\ \A i \in 1..Len(seq) : (h \o Tail(seq))[i] = IF i <= 1 THEN h[i] ELSE Tail(seq)[i - 1]
  BY <1>1, <1>2, <1>3, ConcatProperties
<1>5. \A i \in 1..Len(seq) : (h \o Tail(seq))[i] = seq[i]
  BY <1>1, <1>2, <1>3, <1>4
<1>6. seq = h \o Tail(seq)
  BY <1>4, <1>5, SeqEqual
<1> QED BY <1>1, <1>6

(* Putting one before the rest is adding it at the end of what comes first. *)
LEMMA AppendThenRest ==
  ASSUME NEW S, NEW seq \in Seq(S), NEW e \in S, NEW rest \in Seq(S)
  PROVE  seq \o (<<e>> \o rest) = Append(seq, e) \o rest
<1>1. <<e>> \in Seq(S)
  OBVIOUS
<1>2. Append(seq, e) = seq \o <<e>>
  BY AppendIsConcat
<1> QED BY <1>1, <1>2, ConcatAssociative

-----------------------------------------------------------------------------
\* A reply of the protocol, and state of the receiver's types; a session stays authenticated, and only
\* one that is takes a message.
ScGood(served) == /\ served.code \in ScCodes /\ served.srv \in ScSrvType
                  /\ scSrv.auth = "yes" => served.srv.auth = "yes"
                  /\ served.srv.state = "data" => served.srv.auth = "yes"

(* What the receiver does with a command is good.                          *)
LEMMA ScServedType ==
  ASSUME scSrv \in ScSrvType, NEW cmd \in ScCommandType
  PROVE  ScGood(ScServed(cmd))
<1>c. 250 \in ScCodes /\ 535 \in ScCodes /\ 235 \in ScCodes /\ 503 \in ScCodes /\ 451 \in ScCodes /\ 530 \in ScCodes
      /\ 354 \in ScCodes /\ 452 \in ScCodes
  BY DEF ScCodes
<1>s. PICK s : s = ScServed(cmd)
  OBVIOUS
<1> SUFFICES ScGood(s)
  BY <1>s
<1>1. CASE cmd.kind = "ehlo"
  <2>1. PICK srv : srv = [scSrv EXCEPT !.state = "ehlo"]
    OBVIOUS
  <2>2. srv \in ScSrvType /\ srv.state = "ehlo" /\ srv.auth = scSrv.auth
    BY <2>1, ScResetSrv
  <2>3. s = ScReply(250, srv)
    BY <1>s, <1>1, <2>1, ScServedKinds
  <2> QED BY <1>c, <2>2, <2>3 DEF ScGood, ScReply
<1>2. CASE cmd.kind \in {"starttls", "message"}
  <2>1. PICK closed : closed = [scSrv EXCEPT !.state = "closed"]
    OBVIOUS
  <2>2. closed \in ScSrvType /\ closed.state = "closed" /\ closed.auth = scSrv.auth
    BY <2>1, ScResetSrv
  <2>3. ScReset \in ScSrvType /\ ScReset.state = "new" /\ ScReset.auth = scSrv.auth
    BY ScResetSrv
  <2>4. s = ScReply(451, closed) \/ s = ScReply(250, ScReset)
    <3>1. CASE cmd.kind = "starttls"
      BY <1>s, <2>1, <3>1, ScServedKinds
    <3>2. CASE cmd.kind = "message" /\ scSrv.state = "data"
      BY <1>s, <3>2, ScServedMessage
    <3>3. CASE cmd.kind = "message" /\ scSrv.state # "data"
      BY <1>s, <2>1, <3>3, ScServedMessage
    <3> QED BY <1>2, <3>1, <3>2, <3>3
  <2>5. CASE s = ScReply(451, closed)
    BY <1>c, <2>2, <2>5 DEF ScGood, ScReply
  <2>6. CASE s = ScReply(250, ScReset)
    BY <1>c, <2>3, <2>6 DEF ScGood, ScReply
  <2> QED BY <2>4, <2>5, <2>6
<1>3. CASE cmd.kind = "auth"
  <2>1. PICK entered : entered = [scSrv EXCEPT !.auth = "yes", !.state = "auth"]
    OBVIOUS
  <2>2. entered \in ScSrvType /\ entered.auth = "yes" /\ entered.state = "auth"
    BY <2>1 DEF ScSrvType
  <2>3. ScReset \in ScSrvType /\ ScReset.state = "new" /\ ScReset.auth = scSrv.auth
    BY ScResetSrv
  <2>4. s = ScServedAuth(cmd)
    BY <1>s, <1>3, ScServedKinds
  <2>5. \/ s = ScReply(503, ScReset) \/ s = ScReply(535, ScReset) \/ s = ScReply(235, entered)
    BY <2>1, <2>4 DEF ScServedAuth
  <2>6. CASE s = ScReply(235, entered)
    BY <1>c, <2>2, <2>6 DEF ScGood, ScReply
  <2>7. CASE s = ScReply(503, ScReset)
    BY <1>c, <2>3, <2>7 DEF ScGood, ScReply
  <2>8. CASE s = ScReply(535, ScReset)
    BY <1>c, <2>3, <2>8 DEF ScGood, ScReply
  <2> QED BY <2>5, <2>6, <2>7, <2>8
<1>4. CASE cmd.kind = "mail"
  <2>1. PICK begun : begun = [scSrv EXCEPT !.from = cmd.arg, !.state = "mail"]
    OBVIOUS
  <2>2. cmd.arg \in ScSenders
    BY <1>4 DEF ScCommandType
  <2>3. begun \in ScSrvType /\ begun.state = "mail" /\ begun.auth = scSrv.auth
    BY <2>1, <2>2 DEF ScSrvType
  <2>4. ScReset \in ScSrvType /\ ScReset.state = "new" /\ ScReset.auth = scSrv.auth
    BY ScResetSrv
  <2>5. s = ScReply(250, begun) \/ s = ScReply(530, ScReset)
    <3>1. CASE scSrv.auth = "yes"
      BY <1>s, <1>4, <2>1, <3>1, ScServedMail
    <3>2. CASE scSrv.auth # "yes"
      BY <1>s, <1>4, <3>2, ScServedMail
    <3> QED BY <3>1, <3>2
  <2>6. CASE s = ScReply(250, begun)
    BY <1>c, <2>3, <2>6 DEF ScGood, ScReply
  <2>7. CASE s = ScReply(530, ScReset)
    BY <1>c, <2>4, <2>7 DEF ScGood, ScReply
  <2> QED BY <2>5, <2>6, <2>7
<1>5. CASE cmd.kind = "rcpt"
  <2>1. PICK old \in ScSrvType : old = (IF scSrv.auth = "yes" THEN scSrv ELSE ScReset) /\ old.auth = scSrv.auth
    BY ScResetSrv
  <2>2. cmd.arg \in ScAddresses
    BY <1>5 DEF ScCommandType
  <2>3. Append(old.to, cmd.arg) \in Seq(ScAddresses)
    BY <2>1, <2>2, AppendProperties DEF ScSrvType
  <2>4. PICK new : new = ScRcpt(old, cmd.arg)
    OBVIOUS
  <2>5. new \in ScSrvType /\ new.state = "rcpt" /\ new.auth = scSrv.auth
    BY <2>1, <2>3, <2>4 DEF ScRcpt, ScSrvType
  <2>6. PICK c \in {250, 452} : c = IF Len(old.to) + 1 > ScMaxTo THEN 452 ELSE 250
    OBVIOUS
  <2>7. s = ScReply(c, new)
    <3>1. s = ScServedRcpt(cmd)
      BY <1>s, <1>5, ScServedKinds
    <3>2. ScServedRcpt(cmd) = ScReply(IF Len(old.to) + 1 > ScMaxTo THEN 452 ELSE 250, ScRcpt(old, cmd.arg))
      BY <2>1 DEF ScServedRcpt
    <3> QED BY <2>4, <2>6, <3>1, <3>2
  <2> QED BY <1>c, <2>5, <2>6, <2>7 DEF ScGood, ScReply
<1>6. CASE cmd.kind = "data"
  <2>1. PICK data : data = [scSrv EXCEPT !.state = "data"]
    OBVIOUS
  <2>2. data \in ScSrvType /\ data.auth = scSrv.auth
    BY <2>1, ScResetSrv
  <2>3. ScReset \in ScSrvType /\ ScReset.state = "new" /\ ScReset.auth = scSrv.auth
    BY ScResetSrv
  <2>4. (s = ScReply(354, data) /\ scSrv.auth = "yes") \/ s = ScReply(503, ScReset)
    <3>1. CASE scSrv.auth = "yes" /\ scSrv.state = "rcpt"
      BY <1>s, <1>6, <2>1, <3>1, ScServedData
    <3>2. CASE ~(scSrv.auth = "yes" /\ scSrv.state = "rcpt")
      BY <1>s, <1>6, <3>2, ScServedData
    <3> QED BY <3>1, <3>2
  <2>5. CASE s = ScReply(354, data) /\ scSrv.auth = "yes"
    BY <1>c, <2>2, <2>5 DEF ScGood, ScReply
  <2>6. CASE s = ScReply(503, ScReset)
    BY <1>c, <2>3, <2>6 DEF ScGood, ScReply
  <2> QED BY <2>4, <2>5, <2>6
<1>7. ScGood(s)
  BY <1>1, <1>2, <1>3, <1>4, <1>5, <1>6 DEF ScCommandType
<1> QED BY <1>s, <1>7

\* What comes before the reply: nothing, unless the command is answered with a warning first.
ScWarned(warning) == warning \in Seq(ScPartType) /\ (~ScWarns(Head(scReq)) => warning = <<>>)

(* A step of the server takes the first command, and adds one whole reply  *)
(* to what is on its way to the client, behind a warning or not.           *)
LEMMA ScServeStep ==
  ASSUME ScTypes, ScServe
  PROVE  /\ scReq # <<>> /\ scPc # "closed" /\ Head(scReq) \in ScCommandType /\ scReq' = Tail(scReq)
         /\ scSrv' = ScServed(Head(scReq)).srv
         /\ scSrv.state = "data" => Head(scReq).kind = "message"
         /\ scTaken' = IF Head(scReq).kind = "message" /\ scSrv.state = "data"
                       THEN Append(scTaken, [from |-> scSrv.from, to |-> scSrv.to]) ELSE scTaken
         /\ \E warning, parts : ScWhole(parts, ScServed(Head(scReq)).code) /\ scIn' = (scIn \o warning) \o parts /\ ScWarned(warning)
         /\ UNCHANGED <<scPc, scHost, scMail, scTo, scSent, scFailed, scCut, scCount>>
         /\ ScTypes'
<1>1. PICK split \in BOOLEAN :
        LET cmd == Head(scReq)
            reply == ScServed(cmd)
            piece(p, code) == [part |-> p, code |-> code]
            warning == IF ScWarns(cmd) THEN <<piece("whole", 530)>> ELSE <<>>
            parts == IF split THEN <<piece("head", reply.code), piece("tail", reply.code)>> ELSE <<piece("whole", reply.code)>>
        IN /\ scReq # <<>> /\ scPc # "closed" /\ scSrv.state # "closed" /\ scReq' = Tail(scReq) /\ scSrv' = reply.srv
           /\ scSrv.state = "data" => cmd.kind = "message"
           /\ scTaken' = IF cmd.kind = "message" /\ scSrv.state = "data" THEN Append(scTaken, [from |-> scSrv.from, to |-> scSrv.to]) ELSE scTaken
           /\ split => scSplits < ScMaxSplits
           /\ scSplits' = IF split THEN scSplits + 1 ELSE scSplits
           /\ scIn' = (scIn \o warning) \o parts
           /\ UNCHANGED <<scPc, scHost, scMail, scTo, scSent, scFailed, scCut, scCount>>
  BY DEF ScServe
<1> DEFINE reply == ScServed(Head(scReq))
<1>2. Head(scReq) \in ScCommandType /\ Tail(scReq) \in Seq(ScCommandType)
  BY <1>1, HeadTailProperties DEF ScTypes
<1>3. reply.code \in ScCodes /\ reply.srv \in ScSrvType
  BY <1>2, ScServedType DEF ScTypes, ScGood
<1>4. \E warning, parts : ScWhole(parts, reply.code) /\ scIn' = (scIn \o warning) \o parts /\ ScWarned(warning)
  <2> HIDE DEF reply
  <2>0. PICK warning : warning = IF ScWarns(Head(scReq)) THEN <<[part |-> "whole", code |-> 530]>> ELSE <<>>
    OBVIOUS
  <2>1. ScWarned(warning)
    <3>1. [part |-> "whole", code |-> 530] \in ScPartType
      BY DEF ScPartType, ScCodes
    <3>2. <<[part |-> "whole", code |-> 530]>> \in Seq(ScPartType) /\ <<>> \in Seq(ScPartType)
      BY <3>1, EmptySeq
    <3> QED BY <2>0, <3>2 DEF ScWarned
  <2>2. CASE split
    <3>1. scIn' = (scIn \o warning) \o <<[part |-> "head", code |-> reply.code], [part |-> "tail", code |-> reply.code]>>
      BY <1>1, <2>0, <2>2 DEF reply
    <3> QED BY <2>1, <3>1 DEF ScWhole
  <2>3. CASE ~split
    <3>1. scIn' = (scIn \o warning) \o <<[part |-> "whole", code |-> reply.code]>>
      BY <1>1, <2>0, <2>3 DEF reply
    <3> QED BY <2>1, <3>1 DEF ScWhole
  <2> QED BY <2>2, <2>3
<1>5. scIn' \in Seq(ScPartType)
  <2>1. PICK warning, parts : ScWhole(parts, reply.code) /\ scIn' = (scIn \o warning) \o parts /\ ScWarned(warning)
    BY <1>4
  <2>2. parts \in Seq(ScPartType)
    BY <1>3, <2>1, ScWholeType
  <2>3. scIn \o warning \in Seq(ScPartType)
    BY <2>1, ConcatProperties DEF ScTypes, ScWarned
  <2> QED BY <2>1, <2>2, <2>3, ConcatProperties
<1>6. scTaken' \in Seq([from : ScSenders, to : Seq(ScAddresses)])
  <2>1. [from |-> scSrv.from, to |-> scSrv.to] \in [from : ScSenders, to : Seq(ScAddresses)]
    BY DEF ScTypes, ScSrvType
  <2> HIDE DEF reply
  <2>2. scTaken' = scTaken \/ scTaken' = Append(scTaken, [from |-> scSrv.from, to |-> scSrv.to])
    BY <1>1
  <2>3. Append(scTaken, [from |-> scSrv.from, to |-> scSrv.to]) \in Seq([from : ScSenders, to : Seq(ScAddresses)])
    BY <2>1, AppendProperties DEF ScTypes
  <2> QED BY <2>2, <2>3 DEF ScTypes
<1>7. scSplits' \in 0..ScMaxSplits
  <2>1. (split => scSplits < ScMaxSplits) /\ scSplits' = IF split THEN scSplits + 1 ELSE scSplits
    BY <1>1
  <2> QED BY <2>1, ScAssumption DEF ScTypes
<1>8. scReq # <<>> /\ scPc # "closed" /\ scReq' = Tail(scReq) /\ scSrv' = reply.srv
      /\ UNCHANGED <<scPc, scHost, scMail, scTo, scSent, scFailed, scCut, scCount>>
  BY <1>1
<1>9. ScTypes'
  <2> HIDE DEF reply
  <2> QED BY <1>2, <1>3, <1>5, <1>6, <1>7, <1>8 DEF ScTypes
<1>10. /\ scSrv.state = "data" => Head(scReq).kind = "message"
       /\ scTaken' = IF Head(scReq).kind = "message" /\ scSrv.state = "data"
                     THEN Append(scTaken, [from |-> scSrv.from, to |-> scSrv.to]) ELSE scTaken
  BY <1>1
<1> QED BY <1>2, <1>4, <1>8, <1>9, <1>10

(* When the one command on its way is taken, its reply is all there is.    *)
LEMMA ScAskedServed ==
  ASSUME ScTypes, ScServe, NEW kind, NEW arg, ScAsked(kind, arg), kind \in {"rcpt", "data"} => scSrv.auth = "yes",
         NEW c, c = ScServed([kind |-> kind, arg |-> arg]).code
  PROVE  /\ Head(scReq) = [kind |-> kind, arg |-> arg] /\ ScAnswered(c)'
         /\ scSrv' = ScServed([kind |-> kind, arg |-> arg]).srv
<1> DEFINE cmd == [kind |-> kind, arg |-> arg]
<1>1. scReq = <<cmd>> /\ scIn = <<>>
  BY DEF ScAsked
<1> HIDE DEF cmd
<1>2. Head(scReq) = cmd /\ Tail(scReq) = <<>>
  BY <1>1
<1>3. cmd \in ScCommandType /\ scReq' = <<>> /\ scSrv' = ScServed(cmd).srv
  BY <1>2, ScServeStep
<1>4. PICK parts : ScWhole(parts, ScServed(cmd).code) /\ scIn' = (scIn \o <<>>) \o parts
  <2>1. ~ScWarns(Head(scReq))
    BY <1>2 DEF ScWarns, cmd
  <2>2. PICK warning, parts : ScWhole(parts, ScServed(cmd).code) /\ scIn' = (scIn \o warning) \o parts /\ ScWarned(warning)
    BY <1>2, ScServeStep
  <2>3. warning = <<>>
    BY <2>1, <2>2 DEF ScWarned
  <2> QED BY <2>2, <2>3
<1>5. c = ScServed(cmd).code
  BY DEF cmd
<1>6. c \in ScCodes
  BY <1>3, <1>5, ScServedType DEF ScTypes, ScGood
<1>7. parts \in Seq(ScPartType)
  BY <1>4, <1>5, <1>6, ScWholeType
<1>8. scIn' = parts
  <2>1. scIn \o <<>> = <<>>
    BY <1>1, ConcatEmptySeq, EmptySeq DEF ScTypes
  <2> QED BY <1>4, <1>7, <2>1, ConcatEmptySeq
<1>9. ScAnswered(c)'
  BY <1>3, <1>4, <1>5, <1>8 DEF ScAnswered
<1> QED BY <1>2, <1>3, <1>9 DEF cmd

(* Mails reported as sent stay what they were while the server takes more. *)
LEMMA ScKeptGrows ==
  ASSUME ScTypes, ScKept, scSent' = scSent, scCut => scCut', scFailed => scFailed',
         scTaken' = scTaken \/ scTaken' = Append(scTaken, [from |-> scSrv.from, to |-> scSrv.to])
  PROVE  ScKept'
<1> DEFINE T == [from : ScSenders, to : Seq(ScAddresses)]
<1> DEFINE m == [from |-> scSrv.from, to |-> scSrv.to]
<1>0. m \in T /\ scTaken \in Seq(T) /\ (scTaken' = scTaken \/ scTaken' = Append(scTaken, m))
  BY DEF ScTypes, ScSrvType
<1> HIDE DEF T, m
<1>1. Len(scTaken) \in Nat
  BY <1>0, LenProperties
<1>2. Len(scTaken') \in Nat /\ Len(scTaken) <= Len(scTaken')
      /\ \A i \in 1..Len(scTaken) : scTaken'[i] = scTaken[i]
  <2>1. CASE scTaken' = scTaken
    BY <1>1, <2>1
  <2>2. CASE scTaken' = Append(scTaken, m)
    <3>1. Len(scTaken') = Len(scTaken) + 1 /\ \A i \in 1..Len(scTaken) : scTaken'[i] = scTaken[i]
      BY <1>0, <2>2, AppendProperties
    <3> QED BY <1>1, <3>1
  <2> QED BY <1>0, <2>1, <2>2
<1>3. \A i \in 1..Len(scTaken) : i \in 1..Len(scTaken') /\ scTaken'[i] = scTaken[i]
  BY <1>1, <1>2
<1> QED BY <1>3 DEF ScKept

(* A step of the server keeps the invariant.                               *)
LEMMA ScServeInv == ASSUME ScInv, ScServe PROVE ScInv'
<1>0. ScTypes /\ ScAuthFirst /\ ScCutFails /\ ScStep /\ ScKept
  BY DEF ScInv
<1>1. /\ scReq # <<>> /\ scPc # "closed" /\ ScTypes'
      /\ UNCHANGED <<scPc, scMail, scTo, scSent, scFailed, scCut>>
      /\ scTaken' = IF Head(scReq).kind = "message" /\ scSrv.state = "data"
                    THEN Append(scTaken, [from |-> scSrv.from, to |-> scSrv.to]) ELSE scTaken
  BY <1>0, ScServeStep
<1>2. ScCutFails'
  BY <1>0, <1>1 DEF ScCutFails
<1>a. ScAuthFirst'
  <2>1. scSrv' = ScServed(Head(scReq)).srv /\ Head(scReq) \in ScCommandType
    BY <1>0, ScServeStep
  <2>2. (scSrv.auth = "yes" => scSrv'.auth = "yes") /\ (scSrv'.state = "data" => scSrv'.auth = "yes")
    BY <1>0, <2>1, ScServedType DEF ScTypes, ScGood
  <2>3. scTaken' = scTaken \/ scSrv.state = "data"
    BY <1>1
  <2> QED BY <1>0, <2>2, <2>3 DEF ScAuthFirst
<1>3. ScKept'
  <2>1. scTaken' = scTaken \/ scTaken' = Append(scTaken, [from |-> scSrv.from, to |-> scSrv.to])
    BY <1>1
  <2> QED BY <1>0, <1>1, <2>1, ScKeptGrows
<1>4. ASSUME ~scCut, scPc \notin {"closed", "panic"}
      PROVE  /\ ScInStep'
             /\ scPc' \notin {"data", "message"} => scSrv'.state # "data"
             /\ ~scFailed' /\ scPc' \notin {"rcpt", "data", "message"} => scSrv'.to = <<>>
  <2>1. /\ ScInStep
        /\ scPc \notin {"data", "message"} => scSrv.state # "data"
        /\ ~scFailed /\ scPc \notin {"rcpt", "data", "message"} => scSrv.to = <<>>
    BY <1>0, <1>4 DEF ScStep
  <2>2. scPc \in {"ehlo", "starttls", "auth", "mail", "rcpt", "data", "message"}
    BY <1>0, <1>1, <1>4, <2>1 DEF ScInStep, ScAnswered, ScTypes
  <2>3. scSrv \in ScSrvType /\ scSrv.to \in Seq(ScAddresses) /\ scSrv.from \in ScSenders
    BY <1>0 DEF ScTypes, ScSrvType
  <2>4. CASE scPc = "ehlo"
    <3>1. ScAsked("ehlo", 0)
      BY <1>1, <2>1, <2>4 DEF ScInStep, ScAnswered
    <3>2. ScServed([kind |-> "ehlo", arg |-> 0]) = ScReply(250, [scSrv EXCEPT !.state = "ehlo"])
      BY ScServedKinds
    <3>3. ScAnswered(250)' /\ scSrv' = [scSrv EXCEPT !.state = "ehlo"]
      BY <1>0, <3>1, <3>2, ScAskedServed DEF ScReply
    <3>4. scSrv'.state = "ehlo" /\ scSrv'.to = scSrv.to
      BY <2>3, <3>3, ScResetSrv
    <3> QED BY <1>1, <2>1, <2>4, <3>3, <3>4 DEF ScInStep
  <2>5. CASE scPc = "starttls"
    <3>1. ScAsked("starttls", 0)
      BY <1>1, <2>1, <2>5 DEF ScInStep, ScAnswered
    <3>2. ScServed([kind |-> "starttls", arg |-> 0]) = ScReply(451, [scSrv EXCEPT !.state = "closed"])
      BY ScServedKinds
    <3>3. ScAnswered(451)' /\ scSrv' = [scSrv EXCEPT !.state = "closed"]
      BY <1>0, <3>1, <3>2, ScAskedServed DEF ScReply
    <3>4. scSrv'.state = "closed" /\ scSrv'.to = scSrv.to
      BY <2>3, <3>3, ScResetSrv
    <3> QED BY <1>1, <2>1, <2>5, <3>3, <3>4 DEF ScInStep
  <2>a. CASE scPc = "auth"
    <3>1. PICK arg \in {0, 1} : ScAsked("auth", arg)
      BY <1>1, <2>1, <2>a DEF ScInStep, ScAtAuth, ScAnswered
    <3>2. PICK cmd : cmd = [kind |-> "auth", arg |-> arg]
      OBVIOUS
    <3>3. cmd.kind = "auth"
      BY <3>2
    <3>4. ScServed(cmd) = ScServedAuth(cmd)
      BY <3>3, ScServedKinds
    <3>5. PICK entered : entered = [scSrv EXCEPT !.auth = "yes", !.state = "auth"]
      OBVIOUS
    <3>6. entered.state = "auth" /\ entered.to = scSrv.to
      BY <2>3, <3>5 DEF ScSrvType
    <3>7. PICK code \in {235, 503, 535}, srv \in {ScReset, entered} : ScServed(cmd) = ScReply(code, srv)
      BY <3>4, <3>5 DEF ScServedAuth
    <3>8. srv.state # "data" /\ (scSrv.to = <<>> => srv.to = <<>>)
      BY <2>3, <3>6, <3>7, ScResetSrv
    <3>9. code = ScServed(cmd).code /\ srv = ScServed(cmd).srv
      BY <3>7 DEF ScReply
    <3>10. ScAnswered(code)' /\ scSrv' = srv
      BY <1>0, <3>1, <3>2, <3>9, ScAskedServed
    <3>11. ScAtAuth'
      BY <3>7, <3>10 DEF ScAtAuth
    <3> QED BY <1>1, <2>1, <2>a, <3>8, <3>10, <3>11 DEF ScInStep
  <2>6. CASE scPc = "mail"
    <3>1. ScAsked("mail", scMail.from) /\ scTo = scMail.to
      BY <1>1, <2>1, <2>6 DEF ScInStep, ScAtMail, ScAnswered
    <3>2. PICK cmd : cmd = [kind |-> "mail", arg |-> scMail.from]
      OBVIOUS
    <3>3. cmd.kind = "mail" /\ cmd.arg = scMail.from
      BY <3>2
    <3>4. CASE scSrv.auth = "yes"
      <4>1. PICK begun : begun = [scSrv EXCEPT !.from = scMail.from, !.state = "mail"]
        OBVIOUS
      <4>2. begun.state = "mail" /\ begun.to = scSrv.to /\ begun.from = scMail.from /\ begun.auth = "yes"
        BY <2>3, <3>4, <4>1 DEF ScSrvType
      <4>3. ScServed(cmd) = ScReply(250, begun)
        BY <3>3, <3>4, <4>1, ScServedMail
      <4>4. 250 = ScServed(cmd).code /\ begun = ScServed(cmd).srv
        BY <4>3 DEF ScReply
      <4>5. ScAnswered(250)' /\ scSrv' = begun
        BY <1>0, <3>1, <3>2, <4>4, ScAskedServed
      <4>6. ScAtMail'
        BY <1>1, <3>1, <4>2, <4>5 DEF ScAtMail
      <4> QED BY <1>1, <2>1, <2>6, <4>2, <4>5, <4>6 DEF ScInStep
    <3>5. CASE scSrv.auth # "yes"
      <4>1. ScServed(cmd) = ScReply(530, ScReset)
        BY <3>3, <3>5, ScServedMail
      <4>2. 530 = ScServed(cmd).code /\ ScReset = ScServed(cmd).srv
        BY <4>1 DEF ScReply
      <4>3. ScAnswered(530)' /\ scSrv' = ScReset
        BY <1>0, <3>1, <3>2, <4>2, ScAskedServed
      <4>4. ScReset.state = "new" /\ ScReset.to = <<>>
        BY <2>3, ScResetSrv
      <4>5. ScAtMail'
        BY <1>1, <3>1, <4>3 DEF ScAtMail
      <4> QED BY <1>1, <2>1, <2>6, <4>3, <4>4, <4>5 DEF ScInStep
    <3> QED BY <3>4, <3>5
  <2>7. CASE scPc = "rcpt"
    <3>0. scSrv.from = scMail.from /\ scSrv.auth = "yes"
      BY <2>1, <2>7 DEF ScInStep, ScAtRcpt
    <3>1. PICK to \in ScAddresses : ScAskedRcpt(to)
      BY <1>1, <2>1, <2>7 DEF ScInStep, ScAtRcpt, ScAnswered
    <3>2. ScAsked("rcpt", to) /\ ScHas(<<to>> \o scTo)
      BY <3>1 DEF ScAskedRcpt
    <3>3. PICK c \in {250, 452} : c = IF Len(scSrv.to) + 1 > ScMaxTo THEN 452 ELSE 250
      OBVIOUS
    <3>c. PICK cmd \in {[kind |-> "rcpt", arg |-> to]} : TRUE
      OBVIOUS
    <3>4. PICK new : new = ScRcpt(scSrv, to)
      OBVIOUS
    <3>5. ScAnswered(c)' /\ scSrv' = new
      <4>1. cmd.kind = "rcpt" /\ cmd.arg = to
        BY <3>c
      <4>2. ScServed(cmd) = ScServedRcpt(cmd)
        BY <4>1, ScServedKinds
      <4>3. ScServedRcpt(cmd) = ScReply(IF Len(scSrv.to) + 1 > ScMaxTo THEN 452 ELSE 250, ScRcpt(scSrv, cmd.arg))
        BY <3>0 DEF ScServedRcpt
      <4>4. ScServed(cmd) = ScReply(c, new)
        BY <3>3, <3>4, <4>1, <4>2, <4>3
      <4>5. c = ScServed(cmd).code /\ new = ScServed(cmd).srv
        BY <4>4 DEF ScReply
      <4> QED BY <1>0, <3>0, <3>2, <3>c, <4>5, ScAskedServed
    <3>6. scSrv'.state = "rcpt" /\ scSrv'.to = Append(scSrv.to, to) /\ scSrv'.from = scMail.from /\ scSrv'.auth = "yes"
      BY <2>3, <3>0, <3>4, <3>5 DEF ScRcpt, ScSrvType
    <3>7. scSrv.to \in Seq(ScAddresses) /\ scTo \in Seq(ScAddresses)
      BY <1>0, <2>3 DEF ScTypes
    <3>8. Range(scSrv'.to) = Range(scSrv.to) \cup {to} /\ Range(<<to>> \o scTo) = {to} \cup Range(scTo)
          /\ scSrv.to \o (<<to>> \o scTo) = scSrv'.to \o scTo
      <4>1. Range(Append(scSrv.to, to)) = Range(scSrv.to) \cup {to}
        BY <3>7, RangeAppended
      <4>2. Range(<<to>> \o scTo) = {to} \cup Range(scTo)
        BY <3>7, RangePrefixed
      <4>3. scSrv.to \o (<<to>> \o scTo) = Append(scSrv.to, to) \o scTo
        <5> DEFINE had == scSrv.to
        <5>1. had \in Seq(ScAddresses)
          BY <3>7
        <5> HIDE DEF had
        <5>2. had \o (<<to>> \o scTo) = Append(had, to) \o scTo
          BY <3>7, <5>1, AppendThenRest
        <5> QED BY <5>2 DEF had
      <4> QED BY <3>6, <4>1, <4>2, <4>3
    <3>9. Range(scMail.to) \subseteq Range(scSrv'.to) \cup Range(scTo)
      BY <3>2, <3>8 DEF ScHas
    <3>10. ~scFailed => scMail.to = scSrv'.to \o scTo
      BY <3>2, <3>8 DEF ScHas
    <3>11. ScHas(scTo)'
      BY <1>1, <3>9, <3>10 DEF ScHas
    <3>12. ScAnswered(250)' \/ ScAnswered(452)'
      BY <3>3, <3>5
    <3>13. ScAtRcpt'
      BY <1>1, <3>6, <3>11, <3>12 DEF ScAtRcpt
    <3> QED BY <1>1, <2>7, <3>6, <3>13 DEF ScInStep
  <2>8. CASE scPc = "data"
    <3>1. scSrv.from = scMail.from /\ scSrv.auth = "yes" /\ ScHas(<<>>) /\ ScAsked("data", 0) /\ scSrv.state = "rcpt"
      BY <1>1, <2>1, <2>8 DEF ScInStep, ScAtData, ScAnswered
    <3>2. ScServed([kind |-> "data", arg |-> 0]) = ScReply(354, [scSrv EXCEPT !.state = "data"])
      BY <3>1, ScServedData
    <3>3. ScAnswered(354)' /\ scSrv' = [scSrv EXCEPT !.state = "data"]
      BY <1>0, <3>1, <3>2, ScAskedServed DEF ScReply
    <3>4. scSrv'.state = "data" /\ scSrv'.to = scSrv.to /\ scSrv'.from = scSrv.from /\ scSrv'.auth = "yes"
      BY <2>3, <3>1, <3>3, ScResetSrv
    <3>5. ScHas(<<>>)'
      BY <1>1, <3>1, <3>4 DEF ScHas
    <3>6. ScAtData'
      BY <1>1, <3>1, <3>3, <3>4, <3>5 DEF ScAtData
    <3> QED BY <1>1, <2>8, <3>4, <3>6 DEF ScInStep
  <2>9. CASE scPc = "message"
    <3>1. ScAsked("message", 0) /\ scSrv.state = "data" /\ scSrv.from = scMail.from /\ ScHas(<<>>)
      BY <1>1, <2>1, <2>9 DEF ScInStep, ScAtMessage, ScAnswered
    <3>2. ScServed([kind |-> "message", arg |-> 0]) = ScReply(250, ScReset)
      BY <3>1, ScServedMessage
    <3>3. ScAnswered(250)' /\ scSrv' = ScReset /\ Head(scReq) = [kind |-> "message", arg |-> 0]
      BY <1>0, <3>1, <3>2, ScAskedServed DEF ScReply
    <3>4. scSrv'.state = "new" /\ scSrv'.to = <<>>
      BY <2>3, <3>3, ScResetSrv
    <3>5. scTaken' = Append(scTaken, [from |-> scSrv.from, to |-> scSrv.to])
      BY <1>1, <3>1, <3>3
    <3>6. scTaken' # <<>> /\ scTaken'[Len(scTaken')] = [from |-> scSrv.from, to |-> scSrv.to]
      <4> DEFINE T == [from : ScSenders, to : Seq(ScAddresses)]
      <4> DEFINE m == [from |-> scSrv.from, to |-> scSrv.to]
      <4>1. m \in T /\ scTaken \in Seq(T) /\ scTaken' = Append(scTaken, m)
        BY <1>0, <2>3, <3>5 DEF ScTypes
      <4> HIDE DEF T, m
      <4>2. scTaken' # <<>> /\ Len(scTaken') = Len(scTaken) + 1 /\ scTaken'[Len(scTaken) + 1] = m
        BY <4>1, AppendProperties
      <4>3. scTaken'[Len(scTaken')] = m
        BY <4>2
      <4> QED BY <4>2, <4>3 DEF m
    <3>7. Range(scMail.to) \subseteq Range(scSrv.to) /\ (~scFailed => scMail.to = scSrv.to)
      <4>1. Range(<<>>) = {} /\ scSrv.to \o <<>> = scSrv.to
        BY <2>3, ConcatEmptySeq DEF Range
      <4> QED BY <3>1, <4>1 DEF ScHas
    <3>8. ScTook'
      BY <1>1, <3>1, <3>6, <3>7 DEF ScTook
    <3>9. ScAtMessage'
      BY <3>3, <3>4, <3>8 DEF ScAtMessage
    <3> QED BY <1>1, <2>9, <3>4, <3>9 DEF ScInStep
  <2> QED BY <2>2, <2>4, <2>5, <2>a, <2>6, <2>7, <2>8, <2>9
<1>5. ScStep'
  BY <1>1, <1>4 DEF ScStep
<1> QED BY <1>1, <1>2, <1>a, <1>3, <1>5 DEF ScInv

(* The text of a message swallows commands only when the client is behind. *)
LEMMA ScSwallowInv == ASSUME ScInv, ScSwallow PROVE ScInv'
<1>0. ScTypes /\ ScAuthFirst /\ ScCutFails /\ ScStep /\ ScKept
  BY DEF ScInv
<1>1. /\ scReq # <<>> /\ scPc # "closed" /\ scSrv.state = "data" /\ Head(scReq).kind # "message" /\ scReq' = Tail(scReq)
      /\ UNCHANGED <<scPc, scHost, scMail, scTo, scIn, scSrv, scTaken, scSent, scFailed, scCut, scCount, scSplits>>
  BY DEF ScSwallow
<1>2. ScTypes'
  <2>1. scReq' \in Seq(ScCommandType)
    BY <1>0, <1>1, HeadTailProperties DEF ScTypes
  <2> QED BY <1>0, <1>1, <2>1 DEF ScTypes
<1>3. ScAuthFirst' /\ ScCutFails' /\ ScKept'
  BY <1>0, <1>1 DEF ScAuthFirst, ScCutFails, ScKept
<1>4. ASSUME ~scCut, scPc \notin {"closed", "panic"} PROVE FALSE
  <2>1. ScInStep /\ scPc \in {"data", "message"}
    BY <1>0, <1>1, <1>4 DEF ScStep
  <2>2. CASE scPc = "data"
    BY <1>1, <2>1, <2>2 DEF ScInStep, ScAtData, ScAnswered
  <2>3. CASE scPc = "message"
    <3>1. ScAsked("message", 0)
      BY <1>1, <2>1, <2>3 DEF ScInStep, ScAtMessage, ScAnswered
    <3>2. Head(scReq) = [kind |-> "message", arg |-> 0]
      BY <3>1 DEF ScAsked
    <3> QED BY <1>1, <3>2
  <2> QED BY <2>1, <2>2, <2>3
<1>5. ScStep'
  BY <1>1, <1>4 DEF ScStep
<1> QED BY <1>2, <1>3, <1>5 DEF ScInv

(* The connection is made, and the greeting is on its way.                 *)
LEMMA ScNewClientInv == ASSUME ScInv, ScNewClient PROVE ScInv'
<1>0. ScTypes /\ ScAuthFirst /\ ScCutFails /\ ScStep /\ ScKept
  BY DEF ScInv
<1>1. /\ scPc = "new" /\ scPc' = "greet" /\ scIn' = <<[part |-> "whole", code |-> 220]>>
      /\ UNCHANGED <<scMail, scTo, scReq, scSrv, scTaken, scSent, scFailed, scCut, scCount, scSplits>>
  BY DEF ScNewClient
<1>2. ScWhole(scIn', 220) /\ 220 \in ScCodes
  BY <1>1 DEF ScWhole, ScCodes
<1>3. scIn' \in Seq(ScPartType)
  BY <1>2, ScWholeType
<1>4. ScTypes'
  BY <1>0, <1>1, <1>3 DEF ScTypes
<1>5. ScAuthFirst' /\ ScCutFails' /\ ScKept'
  BY <1>0, <1>1 DEF ScAuthFirst, ScCutFails, ScKept
<1>6. ~scCut => /\ scReq = <<>> /\ scSrv.state # "data" /\ (~scFailed => scSrv.to = <<>>)
  BY <1>0, <1>1 DEF ScStep, ScInStep
<1>7. ~scCut => ScAnswered(220)'
  BY <1>1, <1>2, <1>6 DEF ScAnswered
<1>8. ScStep'
  BY <1>1, <1>6, <1>7 DEF ScStep, ScInStep
<1> QED BY <1>4, <1>5, <1>8 DEF ScInv

(* What recv leaves are parts of replies; of a reply that is all there is, *)
(* it leaves nothing, or it has found no reply.                            *)
LEMMA ScRecvRest ==
  ASSUME ScTypes, NEW code, NEW n \in 1..3, ScRecv(code, n)
  PROVE  /\ scIn' \in Seq(ScPartType) /\ scIn # <<>>
         /\ \A c \in ScCodes : ScAnswered(c) => code = 0 \/ (code = c /\ scIn' = <<>>)
<1>1. n \in 1..Len(scIn) /\ code = ScParsed(SubSeq(scIn, 1, n)) /\ scIn' = SubSeq(scIn, n + 1, Len(scIn))
  BY DEF ScRecv
<1>2. scIn \in Seq(ScPartType) /\ Len(scIn) \in Nat
  BY LenProperties DEF ScTypes
<1>3. \A i \in (n + 1)..Len(scIn) : scIn[i] \in ScPartType
  BY <1>1, <1>2
<1>4. n + 1 \in Int /\ Len(scIn) \in Int
  BY <1>2
<1>5. scIn' \in Seq(ScPartType)
  BY <1>1, <1>3, <1>4, SubSeqProperties
<1>6. scIn # <<>>
  BY <1>1, EmptySeq
<1>7. ASSUME NEW c \in ScCodes, ScAnswered(c) PROVE code = 0 \/ (code = c /\ scIn' = <<>>)
  BY <1>1, <1>7, ScWholeRead DEF ScAnswered
<1> QED BY <1>5, <1>6, <1>7

(* A command that is sent when nothing is on its way is all there is.      *)
LEMMA ScSendOne ==
  ASSUME ScTypes, NEW kind, NEW arg, [kind |-> kind, arg |-> arg] \in ScCommandType, ScSend(kind, arg)
  PROVE  /\ scReq' \in Seq(ScCommandType)
         /\ scReq = <<>> /\ scIn' = <<>> => ScAsked(kind, arg)'
<1> DEFINE cmd == [kind |-> kind, arg |-> arg]
<1>1. cmd \in ScCommandType /\ scReq' = Append(scReq, cmd) /\ scReq \in Seq(ScCommandType)
  BY DEF ScSend, ScTypes
<1> HIDE DEF cmd
<1>2. scReq' \in Seq(ScCommandType)
  BY <1>1, AppendProperties
<1>3. scReq = <<>> => scReq' = <<cmd>>
  BY <1>1
<1> QED BY <1>2, <1>3 DEF ScAsked, cmd

(* The steps of connect, ehlo and StartTLS.                                *)
LEMMA ScConnectInv == ASSUME ScInv, ScConnect PROVE ScInv'
<1>0. ScTypes /\ ScAuthFirst /\ ScCutFails /\ ScStep /\ ScKept
  BY DEF ScInv
<1>1. PICK n \in 1..3, code \in ScCodes \cup {0}, tls \in BOOLEAN :
        /\ scPc \in {"greet", "ehlo", "starttls"} /\ ScRecv(code, n)
        /\ IF code # (IF scPc = "ehlo" THEN 250 ELSE 220) THEN scPc' = "closed" /\ UNCHANGED scReq
           ELSE IF scPc = "greet" THEN scPc' = "ehlo" /\ ScSend("ehlo", 0)
           ELSE IF scPc = "ehlo" /\ tls THEN scPc' = "starttls" /\ ScSend("starttls", 0)
           ELSE scPc' = "idle" /\ UNCHANGED scReq
        /\ UNCHANGED <<scHost, scMail, scTo, scSrv, scTaken, scSent, scFailed, scCut, scCount, scSplits>>
  BY DEF ScConnect
<1>2. scIn' \in Seq(ScPartType) /\ \A c \in ScCodes : ScAnswered(c) => code = 0 \/ (code = c /\ scIn' = <<>>)
  BY <1>0, <1>1, ScRecvRest
<1>3. UNCHANGED <<scMail, scTo, scSrv, scTaken, scSent, scFailed, scCut, scCount, scSplits>>
  BY <1>1
<1>4. [kind |-> "ehlo", arg |-> 0] \in ScCommandType /\ [kind |-> "starttls", arg |-> 0] \in ScCommandType
  BY DEF ScCommandType
<1>5. \/ scPc' = "closed" /\ UNCHANGED scReq
      \/ scPc = "greet" /\ code = 220 /\ scPc' = "ehlo" /\ ScSend("ehlo", 0)
      \/ scPc = "ehlo" /\ code = 250 /\ scPc' = "starttls" /\ ScSend("starttls", 0)
      \/ scPc = "ehlo" /\ code = 250 /\ scPc' = "idle" /\ UNCHANGED scReq
      \/ scPc = "starttls" /\ code = 220 /\ scPc' = "idle" /\ UNCHANGED scReq
  BY <1>1
<1>6. scReq' \in Seq(ScCommandType)
  BY <1>0, <1>4, <1>5, ScSendOne DEF ScTypes
<1>7. ScTypes'
  BY <1>0, <1>2, <1>3, <1>5, <1>6 DEF ScTypes
<1>8. ScAuthFirst' /\ ScCutFails' /\ ScKept'
  <2>0. ScAuthFirst'
    BY <1>0, <1>3 DEF ScAuthFirst
  <2>1. scPc # "panic"
    BY <1>1
  <2>2. ScCutFails'
    BY <1>0, <1>3, <2>1 DEF ScCutFails
  <2>3. ScKept'
    BY <1>0, <1>3 DEF ScKept
  <2> QED BY <2>0, <2>2, <2>3
<1>9. ASSUME ~scCut, scPc' # "closed"
      PROVE  ScInStep' /\ scSrv.state # "data" /\ (~scFailed => scSrv.to = <<>>)
  <2>1. ScInStep /\ scSrv.state # "data" /\ (~scFailed => scSrv.to = <<>>)
    BY <1>0, <1>1, <1>9 DEF ScStep
  <2>2. scIn # <<>>
    BY <1>0, <1>1, ScRecvRest
  <2>3. \/ scPc = "greet" /\ ScAnswered(220)
        \/ scPc = "ehlo" /\ ScAnswered(250)
        \/ scPc = "starttls" /\ ScAnswered(451)
    BY <1>1, <2>1, <2>2 DEF ScInStep, ScAsked
  <2>4. scReq = <<>>
    BY <2>3 DEF ScAnswered
  <2>5. scIn' = <<>>
    BY <1>2, <1>5, <1>9, <2>3 DEF ScCodes
  <2>6. CASE scPc' = "ehlo"
    BY <1>0, <1>4, <1>5, <2>4, <2>5, <2>6, ScSendOne, <2>1 DEF ScInStep
  <2>7. CASE scPc' = "starttls"
    BY <1>0, <1>4, <1>5, <2>4, <2>5, <2>7, ScSendOne, <2>1 DEF ScInStep
  <2>8. CASE scPc' = "idle"
    BY <1>5, <2>4, <2>5, <2>8, <2>1 DEF ScInStep
  <2> QED BY <1>5, <1>9, <2>6, <2>7, <2>8
<1>10. ScStep'
  BY <1>3, <1>9 DEF ScStep
<1> QED BY <1>7, <1>8, <1>10 DEF ScInv

(* MailTx begins: MAIL is on its way, or the mail has no recipients.       *)
LEMMA ScMailTxInv == ASSUME ScInv, ScMailTx PROVE ScInv'
<1>0. ScTypes /\ ScAuthFirst /\ ScCutFails /\ ScStep /\ ScKept
  BY DEF ScInv
<1>1. PICK mail \in ScMails :
        /\ scPc = "idle" /\ scCount < ScMaxMails /\ scCount' = scCount + 1
        /\ IF mail.to = <<>> THEN scFailed' = TRUE /\ UNCHANGED <<scPc, scMail, scTo, scReq>>
           ELSE scPc' = "mail" /\ scMail' = mail /\ scTo' = mail.to /\ ScSend("mail", mail.from) /\ UNCHANGED scFailed
        /\ UNCHANGED <<scHost, scIn, scSrv, scTaken, scSent, scCut, scSplits>>
  BY DEF ScMailTx
<1>2. mail \in [from : ScSenders, to : Seq(ScAddresses)] /\ scCount' \in 0..ScMaxMails
  BY <1>0, <1>1, ScAssumption DEF ScTypes
<1>3. ~scCut => scReq = <<>> /\ scIn = <<>> /\ scSrv.state # "data" /\ (~scFailed => scSrv.to = <<>>)
  BY <1>0, <1>1 DEF ScStep, ScInStep
<1>4. CASE mail.to = <<>>
  <2>1. scFailed' = TRUE /\ UNCHANGED <<scPc, scMail, scTo, scReq, scIn, scSrv, scTaken, scSent, scCut, scSplits>>
    BY <1>1, <1>4
  <2>2. ScTypes'
    <3>1. scFailed' \in BOOLEAN
      BY <2>1, Zenon
    <3> QED BY <1>0, <1>2, <2>1, <3>1 DEF ScTypes
  <2>3. ScAuthFirst' /\ ScCutFails' /\ ScKept'
    BY <1>0, <2>1 DEF ScAuthFirst, ScCutFails, ScKept
  <2>4. ScStep'
    BY <1>1, <1>3, <2>1 DEF ScStep, ScInStep
  <2> QED BY <2>2, <2>3, <2>4 DEF ScInv
<1>5. CASE mail.to # <<>>
  <2>1. scPc' = "mail" /\ scMail' = mail /\ scTo' = mail.to /\ ScSend("mail", mail.from) /\ scFailed' = scFailed
        /\ UNCHANGED <<scIn, scSrv, scTaken, scSent, scCut, scSplits>>
    BY <1>1, <1>5
  <2>2. [kind |-> "mail", arg |-> mail.from] \in ScCommandType
    BY <1>2 DEF ScCommandType
  <2>3. scReq' \in Seq(ScCommandType) /\ (scReq = <<>> /\ scIn' = <<>> => ScAsked("mail", mail.from)')
    BY <1>0, <2>1, <2>2, ScSendOne
  <2>4. ScTypes'
    BY <1>0, <1>2, <1>5, <2>1, <2>3 DEF ScTypes
  <2>5. ScAuthFirst' /\ ScCutFails' /\ ScKept'
    BY <1>0, <1>1, <2>1 DEF ScAuthFirst, ScCutFails, ScKept
  <2>6. ~scCut => ScAtMail'
    BY <1>3, <2>1, <2>3 DEF ScAtMail, ScAsked
  <2>7. ScStep'
    BY <1>3, <2>1, <2>6 DEF ScStep, ScInStep
  <2> QED BY <2>4, <2>5, <2>7 DEF ScInv
<1> QED BY <1>4, <1>5

(* Authenticate begins: AUTH is on its way.                                *)
LEMMA ScAuthenticateInv == ASSUME ScInv, ScAuthenticate PROVE ScInv'
<1>0. ScTypes /\ ScAuthFirst /\ ScCutFails /\ ScStep /\ ScKept
  BY DEF ScInv
<1>1. PICK credentials \in {0, 1} :
        /\ scPc = "idle" /\ scPc' = "auth" /\ scCount < ScMaxMails /\ scCount' = scCount + 1 /\ ScSend("auth", credentials)
        /\ UNCHANGED <<scHost, scMail, scTo, scIn, scSrv, scTaken, scSent, scFailed, scCut, scSplits>>
  BY DEF ScAuthenticate
<1>2. scCount' \in 0..ScMaxMails
  BY <1>0, <1>1, ScAssumption DEF ScTypes
<1>3. ~scCut => scReq = <<>> /\ scIn = <<>> /\ scSrv.state # "data" /\ (~scFailed => scSrv.to = <<>>)
  BY <1>0, <1>1 DEF ScStep, ScInStep
<1>4. [kind |-> "auth", arg |-> credentials] \in ScCommandType
  BY DEF ScCommandType
<1>5. scReq' \in Seq(ScCommandType) /\ (scReq = <<>> /\ scIn' = <<>> => ScAsked("auth", credentials)')
  BY <1>0, <1>1, <1>4, ScSendOne
<1>6. ScTypes'
  BY <1>0, <1>1, <1>2, <1>5 DEF ScTypes
<1>7. ScAuthFirst' /\ ScCutFails' /\ ScKept'
  BY <1>0, <1>1 DEF ScAuthFirst, ScCutFails, ScKept
<1>8. ~scCut => ScAtAuth'
  BY <1>1, <1>3, <1>5 DEF ScAtAuth
<1>9. ScStep'
  BY <1>1, <1>3, <1>8 DEF ScStep, ScInStep
<1> QED BY <1>6, <1>7, <1>9 DEF ScInv

(* Authenticate reads the reply.                                           *)
LEMMA ScAuthenticatedInv == ASSUME ScInv, ScAuthenticated PROVE ScInv'
<1>0. ScTypes /\ ScAuthFirst /\ ScCutFails /\ ScStep /\ ScKept
  BY DEF ScInv
<1>1. PICK n \in 1..3, code \in ScCodes \cup {0} :
        /\ scPc = "auth" /\ scPc' = "idle" /\ ScRecv(code, n) /\ scCut' = (scCut \/ code = 0) /\ scFailed' = (scFailed \/ code = 0)
        /\ UNCHANGED <<scHost, scMail, scTo, scReq, scSrv, scTaken, scSent, scCount, scSplits>>
  BY DEF ScAuthenticated
<1>2. scIn' \in Seq(ScPartType) /\ scIn # <<>> /\ \A c \in ScCodes : ScAnswered(c) => code = 0 \/ (code = c /\ scIn' = <<>>)
  BY <1>0, <1>1, ScRecvRest
<1>3. (scCut' <=> scCut \/ code = 0) /\ (scFailed' <=> scFailed \/ code = 0) /\ scCut' \in BOOLEAN /\ scFailed' \in BOOLEAN
  BY <1>1
<1>4. scPc = "auth" /\ scPc' = "idle" /\ UNCHANGED <<scMail, scTo, scReq, scSrv, scTaken, scSent, scCount, scSplits>>
  BY <1>1
<1>5. ScTypes'
  BY <1>0, <1>2, <1>3, <1>4 DEF ScTypes
<1>6. ScAuthFirst' /\ ScCutFails'
  BY <1>0, <1>3, <1>4 DEF ScAuthFirst, ScCutFails
<1>7. ScKept'
  BY <1>0, <1>3, <1>4 DEF ScKept
<1>8. ASSUME ~scCut' PROVE ScInStep' /\ scSrv.state # "data" /\ (~scFailed' => scSrv.to = <<>>)
  <2>1. ~scCut /\ code # 0
    BY <1>3, <1>8
  <2>2. ScAtAuth /\ scSrv.state # "data" /\ (~scFailed => scSrv.to = <<>>)
    BY <1>0, <1>4, <2>1 DEF ScStep, ScInStep
  <2>3. PICK c \in {235, 503, 535} : ScAnswered(c)
    BY <1>2, <2>2 DEF ScAtAuth, ScAsked
  <2>4. scReq = <<>> /\ scIn' = <<>>
    BY <1>2, <2>1, <2>3 DEF ScCodes, ScAnswered
  <2> QED BY <1>3, <1>4, <2>2, <2>4 DEF ScInStep
<1>9. ScStep'
  BY <1>4, <1>8 DEF ScStep
<1> QED BY <1>5, <1>6, <1>7, <1>9 DEF ScInv

(* Quit closes the connection.                                             *)
LEMMA ScQuitInv == ASSUME ScInv, ScQuit PROVE ScInv'
BY DEF ScInv, ScQuit, ScTypes, ScAuthFirst, ScCutFails, ScStep, ScKept

(* MailTx reads a reply: a step of the client for each of its answers.     *)
LEMMA ScReceiveCases ==
  ASSUME ScReceive
  PROVE  \E n \in 1..3, code \in ScCodes \cup {0} :
           /\ ScRecv(code, n) /\ scCut' = (scCut \/ code = 0)
           /\ \/ scPc \in {"rcpt", "data", "message"} /\ code = 0 /\ scPc' = "panic" /\ UNCHANGED <<scReq, scTo, scSent, scFailed>>
              \/ scPc = "mail" /\ ScAfterMail(code)
              \/ scPc = "rcpt" /\ code # 0 /\ ScAfterRcpt(code)
              \/ scPc = "data" /\ code # 0 /\ ScAfterData(code)
              \/ scPc = "message" /\ code # 0 /\ ScAfterMessage(code)
           /\ UNCHANGED <<scHost, scMail, scSrv, scTaken, scCount, scSplits>>
<1>1. PICK n \in 1..3, code \in ScCodes \cup {0} :
        /\ scPc \in {"mail", "rcpt", "data", "message"} /\ ScRecv(code, n) /\ scCut' = (scCut \/ code = 0)
        /\ IF code = 0 /\ scPc # "mail" THEN scPc' = "panic" /\ UNCHANGED <<scReq, scTo, scSent, scFailed>>
           ELSE CASE scPc = "mail" -> ScAfterMail(code) [] scPc = "rcpt" -> ScAfterRcpt(code)
                  [] scPc = "data" -> ScAfterData(code) [] scPc = "message" -> ScAfterMessage(code)
        /\ UNCHANGED <<scHost, scMail, scSrv, scTaken, scCount, scSplits>>
  BY DEF ScReceive
<1> WITNESS n \in 1..3, code \in ScCodes \cup {0}
<1>2. CASE code = 0 /\ scPc # "mail"
  BY <1>1, <1>2
<1>3. CASE scPc = "mail"
  BY <1>1, <1>3
<1>4. CASE code # 0 /\ scPc = "rcpt"
  BY <1>1, <1>4
<1>5. CASE code # 0 /\ scPc = "data"
  BY <1>1, <1>5
<1>6. CASE code # 0 /\ scPc = "message"
  BY <1>1, <1>6
<1> QED BY <1>1, <1>2, <1>3, <1>4, <1>5, <1>6

(* What a step of MailTx does with the commands and the recipients, on     *)
(* every path: the next command is sent, or none.                          *)
LEMMA ScReceiveTypes ==
  ASSUME ScTypes, ScReceive
  PROVE  ScTypes'
<1>1. PICK n \in 1..3, code \in ScCodes \cup {0} :
        /\ ScRecv(code, n) /\ scCut' = (scCut \/ code = 0)
        /\ \/ scPc \in {"rcpt", "data", "message"} /\ code = 0 /\ scPc' = "panic" /\ UNCHANGED <<scReq, scTo, scSent, scFailed>>
           \/ scPc = "mail" /\ ScAfterMail(code)
           \/ scPc = "rcpt" /\ code # 0 /\ ScAfterRcpt(code)
           \/ scPc = "data" /\ code # 0 /\ ScAfterData(code)
           \/ scPc = "message" /\ code # 0 /\ ScAfterMessage(code)
        /\ UNCHANGED <<scHost, scMail, scSrv, scTaken, scCount, scSplits>>
  BY ScReceiveCases
<1>2. scIn' \in Seq(ScPartType)
  BY <1>1, ScRecvRest
<1>3. scCut' \in BOOLEAN
  BY <1>1 DEF ScTypes
<1>4. \/ scPc' \in {"panic", "idle"} /\ (scFailed' = scFailed \/ scFailed' = TRUE) /\ UNCHANGED <<scReq, scTo>>
      \/ scTo # <<>> /\ scPc' = "rcpt" /\ ScSend("rcpt", Head(scTo)) /\ scTo' = Tail(scTo) /\ scFailed' = scFailed
      \/ scPc' = "data" /\ ScSend("data", 0) /\ UNCHANGED <<scTo, scFailed>>
      \/ scPc' = "message" /\ ScSend("message", 0) /\ UNCHANGED <<scTo, scFailed>>
  BY <1>1 DEF ScAfterMail, ScAfterRcpt, ScAfterData, ScAfterMessage, ScFail, ScTypes
<1>5. scFailed' \in BOOLEAN
  <2>1. scFailed' = scFailed \/ scFailed' = TRUE
    BY <1>4
  <2>2. scFailed \in BOOLEAN
    BY DEF ScTypes
  <2> QED BY <2>1, <2>2, Zenon
<1>6. scReq' \in Seq(ScCommandType) /\ scTo' \in Seq(ScAddresses)
      /\ scPc' \in {"panic", "idle", "rcpt", "data", "message"}
  <2>1. CASE scPc' \in {"panic", "idle"} /\ UNCHANGED <<scReq, scTo>>
    BY <2>1 DEF ScTypes
  <2>2. CASE scTo # <<>> /\ scPc' = "rcpt" /\ ScSend("rcpt", Head(scTo)) /\ scTo' = Tail(scTo)
    <3>1. Head(scTo) \in ScAddresses /\ Tail(scTo) \in Seq(ScAddresses)
      BY <2>2, HeadThenTail DEF ScTypes
    <3>2. [kind |-> "rcpt", arg |-> Head(scTo)] \in ScCommandType
      BY <3>1 DEF ScCommandType
    <3> QED BY <2>2, <3>1, <3>2, ScSendOne
  <2>3. CASE scPc' \in {"data", "message"} /\ ScSend(scPc', 0) /\ scTo' = scTo
    <3>1. PICK kind \in {"data", "message"} : kind = scPc'
      BY <2>3
    <3>2. [kind |-> kind, arg |-> 0] \in ScCommandType
      BY DEF ScCommandType
    <3>3. ScSend(kind, 0)
      BY <2>3, <3>1 DEF ScSend
    <3> QED BY <2>3, <3>2, <3>3, ScSendOne DEF ScTypes
  <2> QED BY <1>4, <2>1, <2>2, <2>3
<1>7. UNCHANGED <<scMail, scSrv, scTaken, scCount, scSplits>>
  BY <1>1
<1> QED BY <1>2, <1>3, <1>5, <1>6, <1>7 DEF ScTypes

(* A step of MailTx keeps the invariant.                                   *)
LEMMA ScReceiveInv == ASSUME ScInv, ScReceive PROVE ScInv'
<1>0. ScTypes /\ ScAuthFirst /\ ScCutFails /\ ScStep /\ ScKept
  BY DEF ScInv
<1>1. PICK n \in 1..3, code \in ScCodes \cup {0} :
        /\ ScRecv(code, n) /\ scCut' = (scCut \/ code = 0)
        /\ \/ scPc \in {"rcpt", "data", "message"} /\ code = 0 /\ scPc' = "panic" /\ UNCHANGED <<scReq, scTo, scSent, scFailed>>
           \/ scPc = "mail" /\ ScAfterMail(code)
           \/ scPc = "rcpt" /\ code # 0 /\ ScAfterRcpt(code)
           \/ scPc = "data" /\ code # 0 /\ ScAfterData(code)
           \/ scPc = "message" /\ code # 0 /\ ScAfterMessage(code)
        /\ UNCHANGED <<scHost, scMail, scSrv, scTaken, scCount, scSplits>>
  BY ScReceiveCases
<1>2. ScTypes'
  BY <1>0, ScReceiveTypes
<1>3. scPc \in {"mail", "rcpt", "data", "message"} /\ UNCHANGED <<scMail, scSrv, scTaken>>
  BY <1>1
<1>a. ScAuthFirst'
  BY <1>0, <1>3 DEF ScAuthFirst
<1>4. CASE scCut
  <2>1. scCut' /\ scFailed
    BY <1>0, <1>1, <1>3, <1>4 DEF ScCutFails
  <2>2. scFailed'
    BY <1>1, <2>1, ZenonT(60) DEF ScAfterMail, ScAfterRcpt, ScAfterData, ScAfterMessage, ScFail
  <2> QED BY <1>2, <1>a, <2>1, <2>2 DEF ScInv, ScCutFails, ScStep, ScKept
<1>5. CASE ~scCut /\ code = 0
  <2>0. \/ scPc' = "panic" /\ UNCHANGED <<scSent, scFailed>>
        \/ ScAfterMail(code)
    BY <1>1, <1>5
  <2>1. scCut' /\ scSent' = scSent /\ (scFailed => scFailed')
    <3>1. scCut'
      BY <1>1, <1>5
    <3>2. scSent' = scSent
      BY <1>5, <2>0 DEF ScAfterMail, ScFail
    <3>3. scFailed => scFailed'
      BY <1>5, <2>0 DEF ScAfterMail, ScFail
    <3> QED BY <3>1, <3>2, <3>3
  <2>2. scFailed' \/ scPc' = "panic"
    BY <1>1, <1>5 DEF ScAfterMail, ScFail
  <2>3. ScKept'
    BY <1>0, <1>3, <2>1 DEF ScKept
  <2> QED BY <1>2, <1>a, <2>1, <2>2, <2>3 DEF ScInv, ScCutFails, ScStep
<1>6. CASE ~scCut /\ code # 0
  <2>1. ~scCut' /\ ScInStep /\ (scPc \notin {"data", "message"} => scSrv.state # "data")
        /\ (~scFailed /\ scPc = "mail" => scSrv.to = <<>>)
    BY <1>0, <1>1, <1>3, <1>6, ZenonT(60) DEF ScStep
  <2>2. scIn # <<>> /\ \A c \in ScCodes : ScAnswered(c) => code = c /\ scIn' = <<>>
    BY <1>0, <1>1, <1>6, ScRecvRest
  <2>3. scTo \in Seq(ScAddresses) /\ scSrv.to \in Seq(ScAddresses) /\ scMail.to \in Seq(ScAddresses)
    BY <1>0 DEF ScTypes, ScSrvType
  <2>4. ASSUME NEW rest, scTo # <<>>, rest = scTo, scReq = <<>>, scIn' = <<>>, ScHas(rest), scSrv.from = scMail.from, scSrv.auth = "yes",
               scPc' = "rcpt", ScSend("rcpt", Head(scTo)), scTo' = Tail(scTo), UNCHANGED scFailed
        PROVE  ScAtRcpt'
    <3>1. PICK to : to = Head(scTo)
      OBVIOUS
    <3>2. to \in ScAddresses /\ scTo' \in Seq(ScAddresses) /\ scTo = <<to>> \o scTo'
      BY <2>3, <2>4, <3>1, HeadThenTail
    <3>3. [kind |-> "rcpt", arg |-> to] \in ScCommandType /\ ScSend("rcpt", to)
      BY <2>4, <3>1, <3>2 DEF ScCommandType
    <3>4. ScAsked("rcpt", to)'
      BY <1>0, <2>4, <3>3, ScSendOne
    <3>5. ScHas(<<to>> \o scTo)'
      BY <1>3, <2>4, <3>2, ZenonT(60) DEF ScHas
    <3>6. ScAskedRcpt(to)'
      BY <3>4, <3>5 DEF ScAskedRcpt
    <3> QED BY <1>3, <2>4, <3>2, <3>6 DEF ScAtRcpt
  <2>5. CASE scPc = "mail"
    <3>0. CASE ScAnswered(530)
      <4>1. code = 530 /\ scIn' = <<>> /\ scReq = <<>>
        BY <2>2, <3>0 DEF ScCodes, ScAnswered
      <4>2. scPc' = "idle" /\ scFailed' = TRUE /\ UNCHANGED <<scReq, scTo, scSent>>
        BY <1>1, <2>5, <4>1 DEF ScAfterMail, ScFail
      <4>3. ScStep'
        BY <1>3, <2>1, <2>5, <4>1, <4>2 DEF ScStep, ScInStep
      <4>4. ScKept' /\ ScCutFails'
        BY <1>0, <1>3, <1>6, <2>1, <4>2 DEF ScKept, ScCutFails
      <4> QED BY <1>2, <1>a, <4>3, <4>4 DEF ScInv
    <3>1. CASE ScAnswered(250) /\ scSrv.from = scMail.from /\ scSrv.auth = "yes"
      <4>1. scTo = scMail.to
        BY <2>1, <2>5 DEF ScInStep, ScAtMail
      <4>2. code = 250 /\ scIn' = <<>> /\ scReq = <<>>
        BY <2>2, <3>1 DEF ScCodes, ScAnswered
      <4>3. scPc' = "rcpt" /\ ScSend("rcpt", Head(scTo)) /\ scTo' = Tail(scTo) /\ UNCHANGED <<scSent, scFailed>>
        BY <1>1, <2>5, <4>2 DEF ScAfterMail
      <4>4. scTo # <<>>
        BY <1>0, <2>5 DEF ScTypes
      <4>5. ScHas(scTo)
        <5>1. ~scFailed => scMail.to = scSrv.to \o scTo
          <6>1. <<>> \o scTo = scTo
            BY <2>3, ConcatEmptySeq
          <6>2. ~scFailed => scSrv.to = <<>>
            BY <2>1, <2>5
          <6> QED BY <4>1, <6>1, <6>2
        <5> QED BY <4>1, <5>1 DEF ScHas
      <4>6. ScAtRcpt'
        BY <2>4, <3>1, <4>2, <4>3, <4>4, <4>5
      <4>7. ScStep'
        BY <1>3, <2>1, <2>5, <4>3, <4>6 DEF ScStep, ScInStep
      <4>8. ScKept' /\ ScCutFails'
        BY <1>0, <1>3, <1>6, <2>1, <4>3 DEF ScKept, ScCutFails
      <4> QED BY <1>2, <1>a, <4>7, <4>8 DEF ScInv
    <3> QED BY <2>1, <2>2, <2>5, <3>0, <3>1 DEF ScInStep, ScAtMail, ScAsked
  <2>6. CASE scPc = "rcpt"
    <3>1. (ScAnswered(250) \/ ScAnswered(452)) /\ scSrv.from = scMail.from /\ scSrv.auth = "yes" /\ scSrv.state = "rcpt" /\ ScHas(scTo)
      BY <2>1, <2>2, <2>6 DEF ScInStep, ScAtRcpt, ScAskedRcpt, ScAsked
    <3>2. code \in {250, 452} /\ scIn' = <<>> /\ scReq = <<>>
      BY <2>2, <3>1 DEF ScCodes, ScAnswered
    <3>3. ScAfterRcpt(code)
      BY <1>1, <2>6, <1>6
    <3>4. ScKept' /\ ScCutFails'
      <4>1. scSent' = scSent /\ (scFailed => scFailed')
        BY <3>3 DEF ScAfterRcpt, ScFail
      <4>2. ScKept'
        BY <1>0, <1>3, <1>6, <2>1, <4>1 DEF ScKept
      <4>3. ScCutFails'
        BY <2>1 DEF ScCutFails
      <4> QED BY <4>2, <4>3
    <3>5. ScStep'
      <4>1. CASE code = 452
        <5>1. scPc' = "idle" /\ scFailed' = TRUE /\ scReq' = scReq
          BY <3>3, <4>1 DEF ScAfterRcpt, ScFail
        <5> QED BY <1>3, <3>1, <3>2, <5>1 DEF ScStep, ScInStep
      <4>2. CASE code = 250 /\ scTo = <<>>
        <5>1. scPc' = "data" /\ ScSend("data", 0) /\ UNCHANGED <<scTo, scFailed>>
          BY <3>3, <4>2 DEF ScAfterRcpt
        <5>2. [kind |-> "data", arg |-> 0] \in ScCommandType
          BY DEF ScCommandType
        <5>3. ScAsked("data", 0)'
          BY <1>0, <3>2, <5>1, <5>2, ScSendOne
        <5>4. ScHas(<<>>)'
          BY <1>3, <3>1, <4>2, <5>1 DEF ScHas
        <5>5. ScAtData'
          BY <1>3, <3>1, <5>3, <5>4 DEF ScAtData
        <5> QED BY <5>1, <5>5 DEF ScStep, ScInStep
      <4>3. CASE code = 250 /\ scTo # <<>>
        <5>1. scPc' = "rcpt" /\ ScSend("rcpt", Head(scTo)) /\ scTo' = Tail(scTo) /\ UNCHANGED scFailed
          BY <3>3, <4>3 DEF ScAfterRcpt
        <5>2. ScAtRcpt'
          BY <2>4, <3>1, <3>2, <4>3, <5>1
        <5> QED BY <1>3, <2>1, <2>6, <5>1, <5>2 DEF ScStep, ScInStep
      <4> QED BY <3>2, <4>1, <4>2, <4>3
    <3> QED BY <1>2, <1>a, <3>4, <3>5 DEF ScInv
  <2>7. CASE scPc = "data"
    <3>1. ScAnswered(354) /\ scSrv.from = scMail.from /\ scSrv.state = "data" /\ ScHas(<<>>)
      BY <2>1, <2>2, <2>7 DEF ScInStep, ScAtData, ScAsked
    <3>2. code = 354 /\ scIn' = <<>> /\ scReq = <<>>
      BY <2>2, <3>1 DEF ScCodes, ScAnswered
    <3>3. scPc' = "message" /\ ScSend("message", 0) /\ UNCHANGED <<scTo, scSent, scFailed>>
      BY <1>1, <2>7, <3>2 DEF ScAfterData
    <3>4. [kind |-> "message", arg |-> 0] \in ScCommandType
      BY DEF ScCommandType
    <3>5. ScAsked("message", 0)'
      BY <1>0, <3>2, <3>3, <3>4, ScSendOne
    <3>6. ScHas(<<>>)'
      BY <1>3, <3>1, <3>3 DEF ScHas
    <3>7. ScAtMessage'
      BY <1>3, <3>1, <3>5, <3>6 DEF ScAtMessage
    <3>8. ScStep'
      BY <3>3, <3>7 DEF ScStep, ScInStep
    <3>9. ScKept' /\ ScCutFails'
      BY <1>0, <1>3, <1>6, <2>1, <3>3 DEF ScKept, ScCutFails
    <3> QED BY <1>2, <1>a, <3>8, <3>9 DEF ScInv
  <2>8. CASE scPc = "message"
    <3>1. ScAnswered(250) /\ scSrv.state # "data" /\ scSrv.to = <<>> /\ ScTook
      BY <2>1, <2>2, <2>8 DEF ScInStep, ScAtMessage, ScAsked
    <3>2. code = 250 /\ scIn' = <<>> /\ scReq = <<>>
      BY <2>2, <3>1 DEF ScCodes, ScAnswered
    <3>3. scPc' = "idle" /\ scSent' = scSent \cup {[mail |-> scMail, taken |-> Len(scTaken)]} /\ UNCHANGED <<scReq, scTo, scFailed>>
      BY <1>1, <2>8, <3>2 DEF ScAfterMessage
    <3>4. ScStep'
      BY <1>3, <3>1, <3>2, <3>3 DEF ScStep, ScInStep
    <3>5. ScCutFails'
      BY <1>6, <2>1 DEF ScCutFails
    <3>6. ScKept'
      <4>1. Len(scTaken) \in 1..Len(scTaken)
        <5>1. Len(scTaken) \in Nat \ {0}
          BY <1>0, <3>1, EmptySeq DEF ScTypes, ScTook
        <5> QED BY <5>1
      <4>2. ASSUME NEW s \in scSent'
            PROVE  /\ s.taken \in 1..Len(scTaken) /\ scTaken[s.taken].from = s.mail.from
                   /\ Range(s.mail.to) \subseteq Range(scTaken[s.taken].to)
                   /\ ~scFailed => scTaken[s.taken].to = s.mail.to
        <5>1. CASE s \in scSent
          BY <1>0, <1>6, <5>1 DEF ScKept
        <5>2. CASE s = [mail |-> scMail, taken |-> Len(scTaken)]
          <6>1. s.mail = scMail /\ s.taken = Len(scTaken)
            BY <5>2
          <6> QED BY <3>1, <4>1, <6>1 DEF ScTook
        <5> QED BY <3>3, <4>2, <5>1, <5>2
      <4> QED BY <1>3, <3>3, <4>2 DEF ScKept
    <3> QED BY <1>2, <1>a, <3>4, <3>5, <3>6 DEF ScInv
  <2> QED BY <1>3, <2>5, <2>6, <2>7, <2>8
<1> QED BY <1>4, <1>5, <1>6

(* Every step keeps the invariant.                                         *)
LEMMA ScNextInv == ScInv /\ [ScNext]_scVars => ScInv'
<1> SUFFICES ASSUME ScInv, [ScNext]_scVars PROVE ScInv'
  OBVIOUS
<1>1. CASE UNCHANGED scVars
  <2>1. UNCHANGED <<scPc, scMail, scTo, scReq, scIn, scSrv, scTaken, scSent, scFailed, scCut, scCount, scSplits>>
    BY <1>1 DEF scVars
  <2>2. ScTypes' /\ ScAuthFirst' /\ ScCutFails'
    BY <2>1 DEF ScInv, ScTypes, ScAuthFirst, ScCutFails
  <2>3. ScKept'
    BY <2>1 DEF ScInv, ScKept
  <2>4. ScInStep' <=> ScInStep
    <3>1. \A k, a : ScAsked(k, a)' <=> ScAsked(k, a)
      BY <2>1 DEF ScAsked
    <3>2. \A c : ScAnswered(c)' <=> ScAnswered(c)
      BY <2>1 DEF ScAnswered
    <3>3. \A rest : ScHas(rest)' <=> ScHas(rest)
      BY <2>1 DEF ScHas
    <3>4. ScTook' <=> ScTook
      BY <2>1 DEF ScTook
    <3>5. \A to : ScAskedRcpt(to)' <=> ScAskedRcpt(to)
      BY <2>1 DEF ScAskedRcpt, ScAsked, ScHas
    <3>6. ScAtMail' <=> ScAtMail
      BY <2>1 DEF ScAtMail, ScAsked, ScAnswered
    <3>7. ScAtRcpt' <=> ScAtRcpt
      BY <2>1, <3>2, <3>5 DEF ScAtRcpt, ScHas
    <3>8. ScAtData' <=> ScAtData
      BY <2>1, <3>1, <3>2, <3>3 DEF ScAtData
    <3>9. ScAtMessage' <=> ScAtMessage
      BY <2>1, <3>1, <3>2, <3>3, <3>4 DEF ScAtMessage
    <3>10. ScAtAuth' <=> ScAtAuth
      BY <3>1, <3>2 DEF ScAtAuth
    <3> QED BY <2>1, <3>1, <3>2, <3>6, <3>7, <3>8, <3>9, <3>10 DEF ScInStep
  <2>5. ScStep'
    BY <2>1, <2>4 DEF ScInv, ScStep
  <2> QED BY <2>2, <2>3, <2>5 DEF ScInv
<1>2. CASE ScNext
  BY <1>2, ScServeInv, ScSwallowInv, ScNewClientInv, ScConnectInv, ScAuthenticateInv, ScAuthenticatedInv, ScMailTxInv, ScReceiveInv, ScQuitInv DEF ScNext
<1> QED BY <1>1, <1>2

(* Up to the first reply that a call reads in part, what MailTx reports as *)
(* sent is the mail it was given; up to the first call that fails, to      *)
(* those recipients only; and the server takes nothing without             *)
(* authentication, in part or not.  For any mails, any number of calls,    *)
(* any limit of recipients, and replies that arrive in any parts.          *)
THEOREM SentIsOwn == ScSpec => [](ScSound /\ ScTypeOK)
<1>1. ScInit => ScInv
  <2> SUFFICES ASSUME ScInit PROVE ScInv
    OBVIOUS
  <2>1. 0 \in ScSenders /\ <<>> \in Seq(ScAddresses) /\ <<>> \in Seq(ScCommandType) /\ <<>> \in Seq(ScPartType)
        /\ <<>> \in Seq([from : ScSenders, to : Seq(ScAddresses)])
    BY EmptySeq DEF ScSenders
  <2>2. ScNone \in [from : ScSenders, to : Seq(ScAddresses)] /\ ScFreshSrv \in ScSrvType
    BY <2>1 DEF ScNone, ScFreshSrv, ScSrvType
  <2>3. ScTypes
    <3>1. scFailed \in BOOLEAN /\ scCut \in BOOLEAN
      BY Zenon DEF ScInit
    <3>2. scCount \in 0..ScMaxMails /\ scSplits \in 0..ScMaxSplits
      <4>1. ScMaxMails \in Nat /\ ScMaxSplits \in Nat
        BY ScAssumption
      <4>2. scCount = 0 /\ scSplits = 0
        BY DEF ScInit
      <4> QED BY <4>1, <4>2
    <3>3. /\ scPc = "new" /\ scMail = ScNone /\ scTo = <<>> /\ scReq = <<>> /\ scIn = <<>>
          /\ scSrv = ScFreshSrv /\ scTaken = <<>>
      BY DEF ScInit
    <3> QED BY <2>1, <2>2, <3>1, <3>2, <3>3 DEF ScTypes
  <2>4. ScAuthFirst /\ ScCutFails /\ ScKept
    BY DEF ScInit, ScAuthFirst, ScCutFails, ScKept, ScFreshSrv
  <2>5. ScStep
    BY DEF ScInit, ScStep, ScInStep, ScFreshSrv
  <2> QED BY <2>3, <2>4, <2>5 DEF ScInv
<1>2. ScInv => ScSound /\ ScTypeOK
  <2> SUFFICES ASSUME ScInv PROVE ScSound /\ ScTypeOK
    OBVIOUS
  <2>1. ScTypeOK
    BY DEF ScInv, ScTypes, ScTypeOK, ScSrvType
  <2>2. ScOwnRecipients
    BY DEF ScInv, ScKept, ScOwnRecipients
  <2>3. ScDelivered
    <3>1. \A s \in scSent : s.taken \in 1..Len(scTaken) => s.taken > 0
      BY LenProperties DEF ScInv, ScTypes
    <3> QED BY <3>1 DEF ScInv, ScKept, ScDelivered
  <2> QED BY <2>1, <2>2, <2>3 DEF ScSound, ScInv
<1> QED BY <1>1, <1>2, ScNextInv, PTL DEF ScSpec

-----------------------------------------------------------------------------
(* The same in the run that has every component of the network side: up to *)
(* the first reply that is read in part, and the first call that fails.    *)
THEOREM SmtpClientInNet == MCSpec => []ScSound
<1>1. MCInit => ScInit
  BY DEF MCInit
<1>2. [MCNext]_<<part, wsVars, wcVars, wfVars, whVars, wrVars, dcVars, dlVars, scVars>> => [ScNext]_scVars
  BY DEF MCNext
<1>3. ScSpec => []ScSound
  BY SentIsOwn, PTL
<1> QED BY <1>1, <1>2, <1>3, PTL DEF MCSpec, ScSpec
=============================================================================
