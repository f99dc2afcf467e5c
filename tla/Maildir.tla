------------------------------ MODULE Maildir ------------------------------
(***************************************************************************)
(* Manager of lib/email/maildir: mail is written to a file with a unique   *)
(* name, in tmp and then linked to new, or in out.  Several processes,     *)
(* each with a Manager of its own, use one directory; a process may crash  *)
(* between any two system calls and start again, with the same pid, its    *)
(* counter at zero.  A process calls its Manager from one goroutine.       *)
(***************************************************************************)
EXTENDS Integers, FiniteSets

CONSTANTS MdPids,    \* the processes, by their pid
          MdMaxMail, \* bound: mails given to Incoming and OutQueue
          MdMaxClock \* bound: the time, in microseconds
ASSUME MdAssumption == MdMaxMail \in Nat /\ MdMaxClock \in Nat

VARIABLES mdClock, mdMails, \* the time; mails so far, the content of each is its number
          mdDir,     \* directory -> name -> content, 0 for no file, -m for a part of mail m
          mdCount,   \* counter of the Manager
          mdCall,    \* [pc, dir, name, mail]: the call of a process
          mdDone,    \* mail -> what its call returned: "no", "ok", "err"
          mdRemoved, \* mails removed by Delete, DeleteOutQueue or RemoveAll
          mdBlame    \* mails whose call met a failing disk or lost its file to RemoveAll

mdVars == <<mdClock, mdMails, mdDir, mdCount, mdCall, mdDone, mdRemoved, mdBlame>>

MdNames == (0..MdMaxClock) \X MdPids \X (0..MdMaxMail)
MdMail == 1..MdMaxMail
MdIdle == [pc |-> "idle", dir |-> "tmp", name |-> <<0, 0, 0>>, mail |-> 0]

MdInit ==
  /\ mdClock = 0 /\ mdMails = 0
  /\ mdDir = [d \in {"tmp", "new", "cur", "out"} |-> [n \in MdNames |-> 0]]
  /\ mdCount = [p \in MdPids |-> 0] /\ mdCall = [p \in MdPids |-> MdIdle]
  /\ mdDone = [m \in MdMail |-> "no"] /\ mdRemoved = {} /\ mdBlame = {}

MdTime == mdClock < MdMaxClock /\ mdClock' = mdClock + 1
          /\ UNCHANGED <<mdMails, mdDir, mdCount, mdCall, mdDone, mdRemoved, mdBlame>>

\* Mutant of MdUniqueName: without the counter.
MdUniqueNameNoCount(p) == <<mdClock, p, 0>>
MdUniqueName(p) == <<mdClock, p, mdCount[p]>>

\* generateUniqueName: a name whose file exists is left alone; the next attempt is two seconds later.
MdFree(dir, name) == mdDir[dir][name] = 0
MdStart(p, dir) ==
  LET name == MdUniqueName(p)
  IN /\ mdCall[p] = MdIdle /\ mdMails < MdMaxMail /\ MdFree(dir, name)
     /\ mdMails' = mdMails + 1
     /\ mdCall' = [mdCall EXCEPT ![p] = [pc |-> "open", dir |-> dir, name |-> name, mail |-> mdMails + 1]]
     /\ UNCHANGED <<mdClock, mdDir, mdCount, mdDone, mdRemoved, mdBlame>>
\* Mutant of MdIncoming: straight into new.
MdIncomingNew == \E p \in MdPids : MdStart(p, "new")
MdIncoming == \E p \in MdPids : MdStart(p, "tmp")
MdOutQueue == \E p \in MdPids : MdStart(p, "out")

MdReturn(p, how) ==
  /\ mdDone' = [mdDone EXCEPT ![mdCall[p].mail] = how] /\ mdCall' = [mdCall EXCEPT ![p] = MdIdle]
  /\ mdCount' = [mdCount EXCEPT ![p] = IF how = "ok" THEN @ + 1 ELSE @]
MdPut(dir, name, content) == mdDir' = [mdDir EXCEPT ![dir][name] = content]
MdGoto(p, pc) == mdCall' = [mdCall EXCEPT ![p].pc = pc]

\* WriteFile creates the file, then writes it; an error leaves what is written.
MdOpen == \E p \in MdPids : LET c == mdCall[p] IN
  /\ c.pc = "open" /\ MdPut(c.dir, c.name, -c.mail) /\ MdGoto(p, "write")
  /\ UNCHANGED <<mdClock, mdMails, mdCount, mdDone, mdRemoved, mdBlame>>
MdWrite == \E p \in MdPids : LET c == mdCall[p] IN
  /\ c.pc = "write"
  /\ IF mdDir[c.dir][c.name] = 0 THEN UNCHANGED mdDir ELSE MdPut(c.dir, c.name, c.mail)
  /\ IF c.dir = "out" THEN MdReturn(p, "ok") ELSE MdGoto(p, "link") /\ UNCHANGED <<mdDone, mdCount>>
  /\ UNCHANGED <<mdClock, mdMails, mdRemoved, mdBlame>>
MdWriteFail == \E p \in MdPids :
  /\ mdCall[p].pc = "write" /\ MdReturn(p, "err") /\ mdBlame' = mdBlame \cup {mdCall[p].mail}
  /\ UNCHANGED <<mdClock, mdMails, mdDir, mdRemoved>>

\* Link fails when the name exists in new, or the file has gone from tmp; tmp is removed then.
\* Mutant of MdLink: its error is ignored.
MdLinkIgnored == \E p \in MdPids : LET c == mdCall[p] IN
  /\ c.pc = "link" /\ MdGoto(p, "remove")
  /\ IF mdDir["tmp"][c.name] = 0 \/ mdDir["new"][c.name] # 0 THEN UNCHANGED mdDir
                                                          ELSE MdPut("new", c.name, mdDir["tmp"][c.name])
  /\ UNCHANGED <<mdClock, mdMails, mdCount, mdDone, mdRemoved, mdBlame>>
MdLink == \E p \in MdPids : LET c == mdCall[p] IN
  /\ c.pc = "link"
  /\ IF mdDir["tmp"][c.name] = 0 \/ mdDir["new"][c.name] # 0
     THEN MdReturn(p, "err") /\ MdPut("tmp", c.name, 0)
     ELSE MdPut("new", c.name, mdDir["tmp"][c.name]) /\ MdGoto(p, "remove") /\ UNCHANGED <<mdDone, mdCount>>
  /\ UNCHANGED <<mdClock, mdMails, mdRemoved, mdBlame>>
MdRemoveTmp == \E p \in MdPids : LET c == mdCall[p] IN
  /\ c.pc = "remove" /\ MdPut("tmp", c.name, 0) /\ MdReturn(p, "ok")
  /\ UNCHANGED <<mdClock, mdMails, mdRemoved, mdBlame>>

\* The process is gone; its successor starts later.
MdCrash == \E p \in MdPids :
  /\ mdClock < MdMaxClock /\ mdClock' = mdClock + 1
  /\ mdCall' = [mdCall EXCEPT ![p] = MdIdle] /\ mdCount' = [mdCount EXCEPT ![p] = 0]
  /\ UNCHANGED <<mdMails, mdDir, mdDone, mdRemoved, mdBlame>>

\* Get renames from new to cur, over what is there; Delete and DeleteOutQueue; RemoveAll of tmp.
MdGet == \E n \in MdNames :
  /\ mdDir["new"][n] # 0
  /\ mdDir' = [mdDir EXCEPT !["cur"][n] = mdDir["new"][n], !["new"][n] = 0]
  /\ UNCHANGED <<mdClock, mdMails, mdCount, mdCall, mdDone, mdRemoved, mdBlame>>
MdDelete == \E n \in MdNames, dir \in {"cur", "out"} :
  /\ mdDir[dir][n] # 0 /\ MdPut(dir, n, 0) /\ mdRemoved' = mdRemoved \cup {m \in MdMail : mdDir[dir][n] \in {m, -m}}
  /\ UNCHANGED <<mdClock, mdMails, mdCount, mdCall, mdDone, mdBlame>>
MdRemoveAll ==
  /\ \E n \in MdNames : mdDir["tmp"][n] # 0
  /\ mdDir' = [mdDir EXCEPT !["tmp"] = [n \in MdNames |-> 0]]
  /\ mdBlame' = mdBlame \cup {mdCall[p].mail : p \in {q \in MdPids : mdCall[q].pc \in {"write", "link"}}}
  /\ UNCHANGED <<mdClock, mdMails, mdCount, mdCall, mdDone, mdRemoved>>

MdNext == MdTime \/ MdIncoming \/ MdOutQueue \/ MdOpen \/ MdWrite \/ MdWriteFail \/ MdLink \/ MdRemoveTmp
          \/ MdCrash \/ MdGet \/ MdDelete \/ MdRemoveAll
MdSpec == MdInit /\ [][MdNext]_mdVars

-----------------------------------------------------------------------------
MdTypeOK == /\ mdClock \in 0..MdMaxClock /\ mdMails \in 0..MdMaxMail /\ mdBlame \subseteq MdMail
            /\ \A p \in MdPids : mdCall[p].name \in MdNames \cup {MdIdle.name} /\ mdCount[p] \in 0..MdMaxMail

(* Mail for which Incoming or OutQueue returned no error is in new, cur or *)
(* out, whole, until somebody removes it: no other delivery, crash or      *)
(* restart writes over it.                                                 *)
MdKept == \A m \in MdMail : mdDone[m] = "ok" /\ m \notin mdRemoved =>
  \E dir \in {"new", "cur", "out"}, n \in MdNames : mdDir[dir][n] = m

(* What a reader finds in new or cur is a whole mail, at any moment, and   *)
(* no mail is there twice.                                                 *)
MdWhole == /\ \A n \in MdNames : mdDir["new"][n] >= 0 /\ mdDir["cur"][n] >= 0
           /\ \A m \in 1..mdMails : Cardinality({x \in {"new", "cur"} \X MdNames : mdDir[x[1]][x[2]] = m}) <= 1

(* A call fails only for a reason outside: the disk, or somebody who       *)
(* clears tmp; two names are never the same.                               *)
MdNoClash == \A m \in MdMail : mdDone[m] = "err" => m \in mdBlame

(* Deliveries by several processes lose, mix or refuse no mail.            *)
MdSound == MdKept /\ MdWhole /\ MdNoClash
=============================================================================
