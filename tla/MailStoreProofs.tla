--------------------------- MODULE MailStoreProofs ---------------------------
(***************************************************************************)
(* Theorems about what the library keeps of a mail on disk: the local      *)
(* storage and accounts of lib/smtp (SmtpLocal) and the Manager of         *)
(* lib/email/maildir (Maildir).                                            *)
(***************************************************************************)
EXTENDS Maildir, SmtpLocal, FiniteSetTheorems, TLAPS

-----------------------------------------------------------------------------
(* The local storage.                                                      *)
SlFiles == {"none", "partial", "typed", "plain"}

\* The variables the storage's files depend on, with their types.
SlTypes == /\ slDisk \in [SlMails -> SlFiles] /\ slLoaded \in [SlMails -> {"none", "mail", "error"}]
           /\ slSaved \subseteq SlMails /\ slGone \subseteq SlMails
           /\ slRuns \in 1..SlMaxRuns /\ slLoads \in 0..SlMaxLoads

\* The file MailSave is writing is partial, and its mail neither promised nor gone.
SlWriting == slSaving # <<>> => \E m \in SlMails, c \in {"typed", "plain"} :
               slSaving = <<m, c>> /\ slDisk[m] = "partial" /\ m \notin slGone

SlInv == SlTypes /\ SlWriting /\ SlKept /\ SlAuthVerify

(* NewLocalStorage over an empty directory establishes the invariant.      *)
LEMMA SlInitInv == SlInit => SlInv
  BY SlAssumption DEF SlInit, SlInv, SlTypes, SlFiles, SlWriting, SlKept, SlAuthVerify

(* Whoever ServeAuth lets in is found by ServeVerify: both look the name   *)
(* up in the primary domain and in the virtual ones.                       *)
LEMMA SlAuthIsKnown == ASSUME NEW domain, NEW user, NEW pass, SlServeAuth(domain, user, pass)
                       PROVE  SlServeVerify(domain, user)
  BY DEF SlServeAuth, SlServeVerify, SlPassOK, SlHas

(* Every operation of the storage and of the handler, and a crash at any   *)
(* point of MailSave, preserves the invariant.                             *)
LEMMA SlNextInv == SlInv /\ [SlNext]_slVars => SlInv'
<1> SUFFICES ASSUME SlInv, [SlNext]_slVars PROVE SlInv'
  OBVIOUS
<1> USE SlAssumption DEF SlInv, SlFiles
<1>1. CASE SlSaveBegin
  <2>1. PICK m \in SlMails, opened \in BOOLEAN :
          /\ slSaving = <<>>
          /\ slSaving' = IF opened THEN <<m, SlEncoded>> ELSE <<>>
          /\ slDisk' = IF opened THEN [slDisk EXCEPT ![m] = "partial"] ELSE slDisk
          /\ slSaved' = IF opened THEN slSaved \ {m} ELSE slSaved
          /\ slGone' = IF opened THEN slGone \ {m} ELSE slGone
    BY <1>1 DEF SlSaveBegin
  <2>2. SlEncoded \in {"typed", "plain"}
    BY DEF SlEncoded
  <2>3. SlTypes'
    BY <1>1, <2>1 DEF SlTypes, SlSaveBegin
  <2>4. SlWriting'
    BY <1>1, <2>1, <2>2 DEF SlWriting, SlTypes, SlSaveBegin
  <2>5. SlKept' /\ SlAuthVerify'
    BY <1>1, <2>1 DEF SlKept, SlTypes, SlAuthVerify, SlSaveBegin
  <2> QED BY <2>3, <2>4, <2>5
<1>2. CASE SlSaveEnd
  <2>1. PICK m \in SlMails, c \in {"typed", "plain"} :
          slSaving = <<m, c>> /\ slDisk[m] = "partial" /\ m \notin slGone
    BY <1>2 DEF SlSaveEnd, SlWriting
  <2>2. /\ slDisk' = [slDisk EXCEPT ![m] = c] /\ slSaved' = slSaved \cup {m} /\ slSaving' = <<>>
    BY <1>2, <2>1 DEF SlSaveEnd
  <2>3. SlTypes' /\ SlWriting'
    BY <1>2, <2>1, <2>2 DEF SlTypes, SlWriting, SlSaveEnd
  <2>4. SlKept' /\ SlAuthVerify'
    BY <1>2, <2>1, <2>2 DEF SlKept, SlTypes, SlAuthVerify, SlSaveEnd
  <2> QED BY <2>3, <2>4
<1>3. CASE SlLoad
  <2>1. SlTypes'
    BY <1>3 DEF SlTypes, SlLoad
  <2>2. SlWriting' /\ SlKept' /\ SlAuthVerify'
    BY <1>3 DEF SlWriting, SlKept, SlAuthVerify, SlLoad
  <2> QED BY <2>1, <2>2
<1>4. CASE SlLoadAll
  <2>1. /\ UNCHANGED <<slDisk, slSaving, slSaved, slGone, slLoaded, slRuns, slAsked>>
        /\ slLoads < SlMaxLoads /\ slLoads' = slLoads + 1
    BY <1>4, Zenon DEF SlLoadAll
  <2> QED BY <2>1 DEF SlTypes, SlWriting, SlKept, SlAuthVerify
<1>5. CASE SlDelete
  BY <1>5 DEF SlTypes, SlWriting, SlKept, SlAuthVerify, SlDelete
<1>6. CASE SlBounce
  BY <1>6 DEF SlTypes, SlWriting, SlKept, SlAuthVerify, SlBounce, SlMoved
<1>7. CASE SlRestart
  BY <1>7 DEF SlTypes, SlWriting, SlKept, SlAuthVerify, SlRestart
<1>8. CASE SlAsk
  <2>1. UNCHANGED <<slDisk, slSaving, slSaved, slGone, slLoaded, slLoads, slRuns>>
    BY <1>8 DEF SlAsk
  <2>2. SlAuthVerify'
    BY <1>8, SlAuthIsKnown DEF SlAsk, SlAuthVerify
  <2> QED BY <2>1, <2>2 DEF SlTypes, SlWriting, SlKept
<1>9. CASE SlSaveFail
  BY <1>9 DEF SlTypes, SlWriting, SlKept, SlAuthVerify, SlSaveFail
<1>10. CASE UNCHANGED slVars
  BY <1>10 DEF slVars, SlTypes, SlWriting, SlKept, SlAuthVerify
<1> QED BY <1>1, <1>2, <1>3, <1>4, <1>5, <1>6, <1>7, <1>8, <1>9, <1>10 DEF SlNext

(* A mail whose MailSave returned is a whole file until it is deleted,     *)
(* bounced or saved again, whatever crashes and failed writes come         *)
(* between, one deleted or bounced does not come back by itself, and       *)
(* whoever may authenticate is found by VRFY: for any set of mails and     *)
(* accounts and any number of restarts.                                    *)
THEOREM SavedMailKept == SlSpec => []SlSound
<1>1. SlInv => SlSound
  BY DEF SlInv, SlSound
<1> QED BY <1>1, SlInitInv, SlNextInv, PTL DEF SlSpec

(* The storage's variables keep their types.                               *)
THEOREM SlTypeCorrect == SlSpec => []SlTypeOK
<1>1. SlInv => SlTypeOK
  BY DEF SlInv, SlTypes, SlTypeOK, SlFiles
<1> QED BY <1>1, SlInitInv, SlNextInv, PTL DEF SlSpec

-----------------------------------------------------------------------------
(* The Manager of a maildir.                                               *)
MdDirs == {"tmp", "new", "cur", "out"}
MdRead == {"new", "cur"}
MdBusy(p) == mdCall[p].pc # "idle"

MdCallType == [pc : {"open", "write", "link", "remove"}, dir : {"tmp", "out"}, name : MdNames, mail : MdMail]

MdTypes ==
  /\ mdClock \in 0..MdMaxClock /\ mdMails \in 0..MdMaxMail
  /\ mdDir \in [MdDirs -> [MdNames -> Int]] /\ mdCount \in [MdPids -> 0..MdMaxMail]
  /\ mdDone \in [MdMail -> {"no", "ok", "err"}] /\ mdBlame \subseteq MdMail
  /\ mdCall \in [MdPids -> {MdIdle} \cup MdCallType]

\* A call has the name of its start, the count of its Manager, and a mail of its own.
MdCalls == \A p \in MdPids : MdBusy(p) =>
  /\ mdCall[p].name[1] <= mdClock /\ mdCall[p].name[2] = p /\ mdCall[p].name[3] = mdCount[p]
  /\ mdCount[p] < mdMails /\ mdCall[p].mail <= mdMails
  /\ mdCall[p].pc \in {"link", "remove"} => mdCall[p].dir = "tmp"
  /\ \A q \in MdPids : q # p /\ MdBusy(q) => mdCall[q].mail # mdCall[p].mail
MdCounted == \A p \in MdPids : mdCount[p] <= mdMails

\* A name in new or cur is behind what its process generates next, or is the call's that linked it.
MdPast == \A d \in MdRead, n \in MdNames : mdDir[d][n] # 0 =>
  \/ n[1] < mdClock
  \/ n[1] = mdClock /\ n[3] < mdCount[n[2]]
  \/ mdCall[n[2]].pc = "remove" /\ mdCall[n[2]].name = n

\* Until its link, neither the name nor the mail of a call is in new or cur.
MdUnlinkedOf(p) == mdCall[p].pc \in {"open", "write", "link"} /\ mdCall[p].dir = "tmp" =>
  \A d \in MdRead : mdDir[d][mdCall[p].name] = 0 /\ \A n \in MdNames : mdDir[d][n] # mdCall[p].mail
MdUnlinked == \A p \in MdPids : MdUnlinkedOf(p)

\* What new and cur hold: whole mails that were started, each once, and no name in both.
MdOnce ==
  /\ \A d \in MdRead, n \in MdNames : mdDir[d][n] \in 0..mdMails
  /\ \A n \in MdNames : mdDir["new"][n] # 0 => mdDir["cur"][n] = 0
  /\ \A d, e \in MdRead, n, k \in MdNames : mdDir[d][n] # 0 /\ mdDir[d][n] = mdDir[e][k] => d = e /\ n = k

\* What the file of a call holds as the call goes on.
MdContentOf(p) == LET c == mdCall[p] IN
  /\ c.pc = "open" => mdDir[c.dir][c.name] = 0
  /\ c.pc = "write" => \/ mdDir[c.dir][c.name] = -c.mail
                       \/ mdDir[c.dir][c.name] = 0 /\ c.mail \in (IF c.dir = "tmp" THEN mdBlame ELSE mdRemoved)
  /\ c.pc = "link" => mdDir["tmp"][c.name] = c.mail \/ (mdDir["tmp"][c.name] = 0 /\ c.mail \in mdBlame)
  /\ c.pc = "remove" => mdDir["new"][c.name] = c.mail \/ mdDir["cur"][c.name] = c.mail \/ c.mail \in mdRemoved
MdContent == \A p \in MdPids : MdContentOf(p)

MdInv == MdTypes /\ MdCalls /\ MdCounted /\ MdPast /\ MdUnlinked /\ MdOnce /\ MdContent /\ MdKept /\ MdNoClash

(* The components of a file's name.                                        *)
LEMMA MdNameParts == \A n \in MdNames : /\ n[1] \in 0..MdMaxClock /\ n[2] \in MdPids /\ n[3] \in 0..MdMaxMail
                                        /\ n = <<n[1], n[2], n[3]>>
  BY DEF MdNames

(* What a write of one file leaves in every directory.                     *)
LEMMA MdPutFile == ASSUME NEW dir \in MdDirs, NEW name \in MdNames, NEW content \in Int, MdTypes, MdPut(dir, name, content)
                   PROVE  /\ mdDir' \in [MdDirs -> [MdNames -> Int]]
                          /\ \A d \in MdDirs, n \in MdNames :
                               mdDir'[d][n] = IF d = dir /\ n = name THEN content ELSE mdDir[d][n]
  BY DEF MdTypes, MdPut, MdDirs

(* An empty directory tree and idle Managers satisfy the invariant.        *)
LEMMA MdInitInv == MdInit => MdInv
<1> SUFFICES ASSUME MdInit PROVE MdInv
  OBVIOUS
<1> USE MdAssumption DEF MdInit
<1>1. MdTypes
  BY DEF MdTypes, MdDirs, MdIdle, MdMail
<1>2. MdCalls /\ MdCounted /\ MdUnlinked /\ MdContent
  BY DEF MdCalls, MdCounted, MdUnlinked, MdUnlinkedOf, MdContent, MdContentOf, MdBusy, MdIdle
<1>3. MdPast /\ MdOnce
  BY DEF MdPast, MdOnce, MdRead
<1>4. MdKept /\ MdNoClash
  BY DEF MdKept, MdNoClash
<1> QED BY <1>1, <1>2, <1>3, <1>4 DEF MdInv

(* Incoming and OutQueue take a name that is in no directory a reader      *)
(* uses, and a mail number that is new.                                    *)
LEMMA MdStartInv == ASSUME MdInv, NEW p \in MdPids, NEW dir \in {"tmp", "out"}, MdStart(p, dir) PROVE MdInv'
<1> DEFINE name == <<mdClock, p, mdCount[p]>>
<1> USE DEF MdInv
<1>1. /\ mdCall[p] = MdIdle /\ mdMails < MdMaxMail /\ mdDir[dir][name] = 0 /\ mdMails' = mdMails + 1
      /\ mdCall' = [mdCall EXCEPT ![p] = [pc |-> "open", dir |-> dir, name |-> name, mail |-> mdMails + 1]]
      /\ UNCHANGED <<mdClock, mdDir, mdCount, mdDone, mdRemoved, mdBlame>>
  BY DEF MdStart, MdUniqueName, MdFree
<1>2. name \in MdNames /\ mdMails \in Nat /\ mdMails + 1 \in MdMail /\ mdCount[p] \in Nat
  BY <1>1, MdAssumption DEF MdTypes, MdNames, MdMail
<1>n. name[1] = mdClock /\ name[2] = p /\ name[3] = mdCount[p]
  OBVIOUS
<1> HIDE DEF name
<1>3. /\ mdCall'[p].pc = "open" /\ mdCall'[p].dir = dir /\ mdCall'[p].name = name /\ mdCall'[p].mail = mdMails + 1
      /\ \A q \in MdPids \ {p} : mdCall'[q] = mdCall[q]
      /\ mdCall[p].pc = "idle"
  BY <1>1 DEF MdTypes, MdIdle
<1>4. MdTypes'
  BY <1>1, <1>2, MdAssumption DEF MdTypes, MdCallType
<1>5. MdCalls' /\ MdCounted'
  <2>1. ASSUME NEW q \in MdPids PROVE mdCount[q] <= mdMails /\ mdCount[q] \in Nat
    BY DEF MdCounted, MdTypes
  <2>2. MdCounted'
    BY <1>1, <1>2, <2>1 DEF MdCounted
  <2>3. ASSUME NEW q \in MdPids, MdBusy(q)', q # p PROVE mdCall[q].mail <= mdMails /\ mdCall[q].mail \in Nat
    BY <1>3, <2>3 DEF MdCalls, MdBusy, MdTypes, MdCallType, MdIdle, MdMail
  <2>4. MdCalls'
    BY <1>1, <1>2, <1>n, <1>3, <2>1, <2>3 DEF MdCalls, MdBusy, MdTypes
  <2> QED BY <2>2, <2>4
<1>6. MdPast'
  BY <1>1, <1>3, MdNameParts DEF MdPast, MdTypes
<1>7. MdUnlinked'
  <2>1. \A d \in MdRead : mdDir[d][name] = 0
    BY <1>2, <1>3, <1>n DEF MdPast, MdTypes
  <2>2. \A d \in MdRead, n \in MdNames : mdDir[d][n] # mdMails + 1
    BY <1>2 DEF MdOnce
  <2> QED BY <1>1, <1>3, <2>1, <2>2 DEF MdUnlinked, MdUnlinkedOf
<1>8. MdOnce'
  BY <1>1, <1>2 DEF MdOnce
<1>9. MdContent'
  BY <1>1, <1>3 DEF MdContent, MdContentOf
<1>10. MdKept' /\ MdNoClash'
  BY <1>1 DEF MdKept, MdNoClash
<1> QED BY <1>4, <1>5, <1>6, <1>7, <1>8, <1>9, <1>10

(* A call that is not idle has a record of the types its fields need.      *)
LEMMA MdCallParts == ASSUME MdTypes, NEW p \in MdPids, MdBusy(p)
                     PROVE  /\ mdCall[p] \in MdCallType /\ mdCall[p].pc \in {"open", "write", "link", "remove"}
                            /\ mdCall[p].dir \in {"tmp", "out"} /\ mdCall[p].name \in MdNames
                            /\ mdCall[p].mail \in MdMail
  BY DEF MdTypes, MdBusy, MdIdle, MdCallType

(* A call that returns gives the process back its idle Manager, whose      *)
(* counter only grows, and leaves the other calls alone.                   *)
LEMMA MdReturned == ASSUME MdTypes, MdCalls, MdCounted, NEW p \in MdPids, MdBusy(p), NEW how \in {"ok", "err"},
                           MdReturn(p, how), UNCHANGED <<mdClock, mdMails>>
                    PROVE  /\ mdCall' \in [MdPids -> {MdIdle} \cup MdCallType] /\ mdCount' \in [MdPids -> 0..MdMaxMail]
                           /\ mdDone' \in [MdMail -> {"no", "ok", "err"}]
                           /\ mdCall'[p].pc = "idle" /\ mdCount'[p] = (IF how = "ok" THEN mdCount[p] + 1 ELSE mdCount[p])
                           /\ \A q \in MdPids \ {p} : mdCall'[q] = mdCall[q] /\ mdCount'[q] = mdCount[q]
                           /\ mdDone'[mdCall[p].mail] = how
                           /\ \A m \in MdMail \ {mdCall[p].mail} : mdDone'[m] = mdDone[m]
                           /\ MdCalls' /\ MdCounted'
<1>1. /\ mdCount[p] \in 0..MdMaxMail /\ mdCount[p] < mdMails /\ mdMails \in 0..MdMaxMail /\ MdMaxMail \in Nat
  BY MdAssumption DEF MdTypes, MdCalls
<1>2. mdCall[p].mail \in MdMail
  BY MdCallParts
<1>3. mdCall' = [mdCall EXCEPT ![p] = MdIdle] /\ mdDone' = [mdDone EXCEPT ![mdCall[p].mail] = how]
      /\ mdCount' = [mdCount EXCEPT ![p] = IF how = "ok" THEN @ + 1 ELSE @]
  BY DEF MdReturn
<1>4. mdCall' \in [MdPids -> {MdIdle} \cup MdCallType] /\ mdDone' \in [MdMail -> {"no", "ok", "err"}]
  BY <1>2, <1>3 DEF MdTypes
<1>5. mdCount' \in [MdPids -> 0..MdMaxMail] /\ mdCount'[p] = (IF how = "ok" THEN mdCount[p] + 1 ELSE mdCount[p])
  BY <1>1, <1>3 DEF MdTypes
<1>6. /\ mdCall'[p].pc = "idle" /\ mdDone'[mdCall[p].mail] = how
      /\ \A q \in MdPids \ {p} : mdCall'[q] = mdCall[q] /\ mdCount'[q] = mdCount[q]
      /\ \A m \in MdMail \ {mdCall[p].mail} : mdDone'[m] = mdDone[m]
  BY <1>2, <1>3 DEF MdTypes, MdIdle
<1>7. MdCounted'
  BY <1>1, <1>5, <1>6 DEF MdCounted
<1>8. MdCalls'
  BY <1>6 DEF MdCalls, MdBusy
<1> QED BY <1>4, <1>5, <1>6, <1>7, <1>8

(* A call that goes on keeps its directory, name and mail, and leaves the  *)
(* other calls alone.                                                      *)
LEMMA MdWentOn == ASSUME MdTypes, MdCalls, NEW p \in MdPids, MdBusy(p), NEW pc \in {"write", "link", "remove"},
                         MdGoto(p, pc), pc # "write" => mdCall[p].dir = "tmp", UNCHANGED <<mdClock, mdMails, mdCount>>
                  PROVE  /\ mdCall' \in [MdPids -> {MdIdle} \cup MdCallType] /\ MdCalls'
                         /\ mdCall'[p].pc = pc /\ mdCall'[p].dir = mdCall[p].dir
                         /\ mdCall'[p].name = mdCall[p].name /\ mdCall'[p].mail = mdCall[p].mail
                         /\ \A q \in MdPids \ {p} : mdCall'[q] = mdCall[q]
<1>1. mdCall' = [mdCall EXCEPT ![p] = [mdCall[p] EXCEPT !.pc = pc]]
  BY DEF MdGoto
<1>2. mdCall[p] \in MdCallType
  BY MdCallParts
<1>3. [mdCall[p] EXCEPT !.pc = pc] \in MdCallType
  BY <1>2 DEF MdCallType
<1>4. mdCall' \in [MdPids -> {MdIdle} \cup MdCallType]
  BY <1>1, <1>3 DEF MdTypes
<1>5. /\ mdCall'[p].pc = pc /\ mdCall'[p].dir = mdCall[p].dir
      /\ mdCall'[p].name = mdCall[p].name /\ mdCall'[p].mail = mdCall[p].mail
  BY <1>1, <1>2 DEF MdTypes, MdCallType
<1>6. \A q \in MdPids \ {p} : mdCall'[q] = mdCall[q]
  BY <1>1 DEF MdTypes
<1>7. MdCalls'
  BY <1>5, <1>6 DEF MdCalls, MdBusy
<1> QED BY <1>4, <1>5, <1>6, <1>7

(* Two calls never have the same name: the name holds the pid.             *)
LEMMA MdNamesDiffer == ASSUME MdCalls, NEW p \in MdPids, NEW q \in MdPids, p # q, MdBusy(p), MdBusy(q)
                       PROVE  mdCall[p].name # mdCall[q].name /\ mdCall[p].mail # mdCall[q].mail
  BY DEF MdCalls

(* A step of one call touches only files of its own name, so the file of   *)
(* every other call stays what it was.                                     *)
LEMMA MdOthersContent == ASSUME MdInv, NEW p \in MdPids, MdBusy(p), \A q \in MdPids \ {p} : mdCall'[q] = mdCall[q],
                                \A d \in MdDirs, n \in MdNames : n # mdCall[p].name => mdDir'[d][n] = mdDir[d][n],
                                mdRemoved \subseteq mdRemoved', mdBlame \subseteq mdBlame'
                         PROVE  \A q \in MdPids \ {p} : MdContentOf(q)'
<1> SUFFICES ASSUME NEW q \in MdPids, q # p PROVE MdContentOf(q)'
  OBVIOUS
<1> USE DEF MdInv
<1>1. CASE MdBusy(q)
  <2>1. mdCall[q].name # mdCall[p].name /\ mdCall[q].name \in MdNames /\ mdCall[q].dir \in MdDirs
    BY <1>1, MdNamesDiffer, MdCallParts DEF MdDirs
  <2>2. /\ mdDir'["tmp"][mdCall[q].name] = mdDir["tmp"][mdCall[q].name]
        /\ mdDir'["new"][mdCall[q].name] = mdDir["new"][mdCall[q].name]
        /\ mdDir'["cur"][mdCall[q].name] = mdDir["cur"][mdCall[q].name]
        /\ mdDir'[mdCall[q].dir][mdCall[q].name] = mdDir[mdCall[q].dir][mdCall[q].name]
    BY <2>1 DEF MdDirs
  <2>3. mdCall'[q] = mdCall[q] /\ MdContentOf(q)
    BY DEF MdContent
  <2> QED BY <2>2, <2>3 DEF MdContentOf
<1>2. CASE ~MdBusy(q)
  BY <1>2 DEF MdBusy, MdContentOf
<1> QED BY <1>1, <1>2

(* Calls stay unlinked while new and cur do not change.                    *)
LEMMA MdStillUnlinked == ASSUME MdInv, \A d \in MdRead, n \in MdNames : mdDir'[d][n] = mdDir[d][n],
                                \A q \in MdPids : mdCall'[q].pc \in {"open", "write", "link"} =>
                                  /\ mdCall[q].pc \in {"open", "write", "link"} /\ mdCall'[q].dir = mdCall[q].dir
                                  /\ mdCall'[q].name = mdCall[q].name /\ mdCall'[q].mail = mdCall[q].mail
                         PROVE  MdUnlinked'
<1>1. \A q \in MdPids : mdCall[q].pc \in {"open", "write", "link"} => mdCall[q].name \in MdNames
  BY MdCallParts DEF MdBusy, MdInv
<1> QED BY <1>1 DEF MdUnlinked, MdUnlinkedOf, MdInv

(* Mail that is kept stays kept when no whole mail disappears from new,    *)
(* cur and out together, and each call that returns leaves its mail there. *)
LEMMA MdStillKept == ASSUME MdInv, mdRemoved \subseteq mdRemoved',
                            \A m \in MdMail : mdDone'[m] = "ok" /\ m \notin mdRemoved' => mdDone[m] = "ok" \/
                              \E dir \in {"new", "cur", "out"}, n \in MdNames : mdDir'[dir][n] = m,
                            \A dir \in {"new", "cur", "out"}, n \in MdNames : mdDir[dir][n] \in MdMail \ mdRemoved' =>
                              \E e \in {"new", "cur", "out"} : mdDir'[e][n] = mdDir[dir][n]
                     PROVE  MdKept'
<1> SUFFICES ASSUME NEW m \in MdMail, mdDone'[m] = "ok", m \notin mdRemoved'
             PROVE  \E dir \in {"new", "cur", "out"}, n \in MdNames : mdDir'[dir][n] = m
  BY DEF MdKept
<1>1. CASE mdDone[m] = "ok"
  <2>1. PICK dir \in {"new", "cur", "out"} : \E n \in MdNames : mdDir[dir][n] = m
    BY <1>1 DEF MdKept, MdInv
  <2>2. PICK n \in MdNames : mdDir[dir][n] = m
    BY <2>1
  <2> QED BY <2>2
<1> QED BY <1>1

(* Creating the file of a call overwrites nothing.                         *)
LEMMA MdOpenInv == MdInv /\ MdOpen => MdInv'
<1> SUFFICES ASSUME MdInv, MdOpen PROVE MdInv'
  OBVIOUS
<1> USE DEF MdInv
<1>1. PICK p \in MdPids : /\ mdCall[p].pc = "open" /\ MdPut(mdCall[p].dir, mdCall[p].name, -mdCall[p].mail)
                          /\ MdGoto(p, "write") /\ UNCHANGED <<mdClock, mdMails, mdCount, mdDone, mdRemoved, mdBlame>>
  BY DEF MdOpen
<1> DEFINE c == mdCall[p]
<1>2. MdBusy(p) /\ c.dir \in {"tmp", "out"} /\ c.name \in MdNames /\ c.mail \in MdMail /\ -c.mail \in Int
  BY <1>1, MdCallParts DEF MdBusy, MdMail
<1>3. /\ mdCall' \in [MdPids -> {MdIdle} \cup MdCallType] /\ MdCalls'
      /\ mdCall'[p].pc = "write" /\ mdCall'[p].dir = c.dir /\ mdCall'[p].name = c.name /\ mdCall'[p].mail = c.mail
      /\ \A q \in MdPids \ {p} : mdCall'[q] = mdCall[q]
  BY <1>1, <1>2, MdWentOn
<1>4. /\ mdDir' \in [MdDirs -> [MdNames -> Int]]
      /\ \A d \in MdDirs, n \in MdNames : mdDir'[d][n] = IF d = c.dir /\ n = c.name THEN -c.mail ELSE mdDir[d][n]
  BY <1>1, <1>2, MdPutFile DEF MdDirs
<1>5. \A d \in MdRead, n \in MdNames : mdDir'[d][n] = mdDir[d][n]
  BY <1>2, <1>4 DEF MdRead, MdDirs
<1>6. MdTypes'
  BY <1>1, <1>3, <1>4 DEF MdTypes
<1>7. MdPast'
  BY <1>1, <1>3, <1>5, MdNameParts DEF MdPast
<1>8. MdUnlinked'
  <2>1. \A q \in MdPids : /\ mdCall'[q].pc \in {"open", "write", "link"} => mdCall[q].pc \in {"open", "write", "link"}
                          /\ mdCall'[q].dir = mdCall[q].dir /\ mdCall'[q].name = mdCall[q].name /\ mdCall'[q].mail = mdCall[q].mail
    BY <1>1, <1>3
  <2> QED BY <2>1, <1>5, MdStillUnlinked
<1>9. MdOnce' /\ MdCounted'
  BY <1>1, <1>5 DEF MdOnce, MdCounted, MdRead
<1>10. MdContent'
  <2>1. mdDir'[c.dir][c.name] = -c.mail
    BY <1>2, <1>4 DEF MdDirs
  <2>2. MdContentOf(p)'
    BY <1>3, <2>1 DEF MdContentOf
  <2>3. \A q \in MdPids \ {p} : MdContentOf(q)'
    BY <1>1, <1>2, <1>3, <1>4, MdOthersContent
  <2> QED BY <2>2, <2>3 DEF MdContent
<1>11. MdKept'
  <2>1. mdDir[c.dir][c.name] = 0
    BY <1>1 DEF MdContent, MdContentOf
  <2>2. ASSUME NEW dir \in {"new", "cur", "out"}, NEW n \in MdNames, mdDir[dir][n] \in MdMail
        PROVE  mdDir'[dir][n] = mdDir[dir][n]
    BY <1>4, <2>1, <2>2 DEF MdDirs, MdMail
  <2> QED BY <1>1, <2>2, MdStillKept
<1>12. MdNoClash'
  BY <1>1 DEF MdNoClash
<1> QED BY <1>3, <1>6, <1>7, <1>8, <1>9, <1>10, <1>11, <1>12

(* The write of a call completes its own file, or leaves it removed; a     *)
(* call of OutQueue returns with the whole mail in out.                    *)
LEMMA MdWriteInv == MdInv /\ MdWrite => MdInv'
<1> SUFFICES ASSUME MdInv, MdWrite PROVE MdInv'
  OBVIOUS
<1> USE DEF MdInv
<1>1. PICK p \in MdPids :
        /\ mdCall[p].pc = "write"
        /\ IF mdDir[mdCall[p].dir][mdCall[p].name] = 0 THEN UNCHANGED mdDir
                                                      ELSE MdPut(mdCall[p].dir, mdCall[p].name, mdCall[p].mail)
        /\ IF mdCall[p].dir = "out" THEN MdReturn(p, "ok") ELSE MdGoto(p, "link") /\ UNCHANGED <<mdDone, mdCount>>
        /\ UNCHANGED <<mdClock, mdMails, mdRemoved, mdBlame>>
  BY DEF MdWrite
<1> DEFINE c == mdCall[p]
<1>2. MdBusy(p) /\ c.dir \in {"tmp", "out"} /\ c.name \in MdNames /\ c.mail \in MdMail /\ c.mail \in Int /\ c.mail # 0
  BY <1>1, MdCallParts DEF MdBusy, MdMail
<1>3. \/ mdDir[c.dir][c.name] = -c.mail
      \/ mdDir[c.dir][c.name] = 0 /\ c.mail \in (IF c.dir = "tmp" THEN mdBlame ELSE mdRemoved)
  BY <1>1 DEF MdContent, MdContentOf
<1>4. /\ mdDir' \in [MdDirs -> [MdNames -> Int]]
      /\ \A d \in MdDirs, n \in MdNames : ~(d = c.dir /\ n = c.name) => mdDir'[d][n] = mdDir[d][n]
      /\ mdDir'[c.dir][c.name] = IF mdDir[c.dir][c.name] = 0 THEN 0 ELSE c.mail
  <2>1. CASE mdDir[c.dir][c.name] = 0
    BY <1>1, <2>1 DEF MdTypes
  <2>2. CASE mdDir[c.dir][c.name] # 0
    BY <1>1, <1>2, <2>2, MdPutFile DEF MdDirs
  <2> QED BY <2>1, <2>2
<1>5. \A d \in MdRead, n \in MdNames : mdDir'[d][n] = mdDir[d][n]
  BY <1>2, <1>4 DEF MdRead, MdDirs
<1>6. MdOnce'
  BY <1>1, <1>5 DEF MdOnce, MdRead
<1>7. \A dir \in {"new", "cur", "out"}, n \in MdNames : mdDir[dir][n] \in MdMail => mdDir'[dir][n] = mdDir[dir][n]
  BY <1>2, <1>3, <1>4 DEF MdDirs, MdMail
<1>8. CASE c.dir = "out"
  <2>1. /\ mdCall' \in [MdPids -> {MdIdle} \cup MdCallType] /\ mdCount' \in [MdPids -> 0..MdMaxMail]
        /\ mdDone' \in [MdMail -> {"no", "ok", "err"}]
        /\ mdCall'[p].pc = "idle" /\ mdCount'[p] = mdCount[p] + 1
        /\ \A q \in MdPids \ {p} : mdCall'[q] = mdCall[q] /\ mdCount'[q] = mdCount[q]
        /\ mdDone'[c.mail] = "ok"
        /\ \A m \in MdMail \ {c.mail} : mdDone'[m] = mdDone[m]
        /\ MdCalls' /\ MdCounted'
    BY <1>1, <1>2, <1>8, MdReturned
  <2>2. MdTypes'
    BY <1>1, <1>4, <2>1 DEF MdTypes
  <2>3. MdPast'
    <3>1. \A q \in MdPids : mdCount[q] \in Int /\ mdCount[q] <= mdCount'[q]
      BY <2>1 DEF MdTypes
    <3> QED BY <1>1, <1>5, <2>1, <3>1, MdNameParts DEF MdPast, MdTypes
  <2>4. MdUnlinked'
    BY <1>5, <2>1, MdStillUnlinked
  <2>5. MdContent'
    <3>1. MdContentOf(p)'
      BY <2>1 DEF MdContentOf
    <3>2. \A q \in MdPids \ {p} : MdContentOf(q)'
      BY <1>1, <1>2, <1>4, <2>1, MdOthersContent
    <3> QED BY <3>1, <3>2 DEF MdContent
  <2>6. MdKept'
    <3>1. c.mail \notin mdRemoved => mdDir'["out"][c.name] = c.mail
      BY <1>2, <1>3, <1>4, <1>8
    <3> QED BY <1>1, <1>2, <1>7, <2>1, <3>1, MdStillKept
  <2>7. MdNoClash'
    BY <1>1, <2>1 DEF MdNoClash
  <2> QED BY <1>6, <2>1, <2>2, <2>3, <2>4, <2>5, <2>6, <2>7
<1>9. CASE c.dir = "tmp"
  <2>1. /\ mdCall' \in [MdPids -> {MdIdle} \cup MdCallType] /\ MdCalls'
        /\ mdCall'[p].pc = "link" /\ mdCall'[p].dir = c.dir /\ mdCall'[p].name = c.name /\ mdCall'[p].mail = c.mail
        /\ \A q \in MdPids \ {p} : mdCall'[q] = mdCall[q]
    BY <1>1, <1>2, <1>9, MdWentOn
  <2>2. UNCHANGED <<mdDone, mdCount>>
    BY <1>1, <1>9
  <2>3. MdTypes' /\ MdCounted'
    BY <1>1, <1>4, <2>1, <2>2 DEF MdTypes, MdCounted
  <2>4. MdPast'
    BY <1>1, <1>5, <2>1, <2>2, MdNameParts DEF MdPast
  <2>5. MdUnlinked'
    BY <1>1, <1>5, <2>1, MdStillUnlinked
  <2>6. MdContent'
    <3>0. mdDir'["tmp"][c.name] = c.mail \/ (mdDir'["tmp"][c.name] = 0 /\ c.mail \in mdBlame)
      BY <1>2, <1>3, <1>4, <1>9
    <3>1. MdContentOf(p)'
      BY <1>1, <2>1, <3>0 DEF MdContentOf
    <3>2. \A q \in MdPids \ {p} : MdContentOf(q)'
      BY <1>1, <1>2, <1>4, <2>1, MdOthersContent
    <3> QED BY <3>1, <3>2 DEF MdContent
  <2>7. MdKept' /\ MdNoClash'
    <3>1. MdKept'
      BY <1>1, <1>7, <2>2, MdStillKept
    <3> QED BY <1>1, <2>2, <3>1 DEF MdNoClash
  <2> QED BY <1>6, <2>1, <2>3, <2>4, <2>5, <2>6, <2>7
<1> QED BY <1>2, <1>8, <1>9

(* A failing disk leaves what was written and blames no other call.        *)
LEMMA MdWriteFailInv == MdInv /\ MdWriteFail => MdInv'
<1> SUFFICES ASSUME MdInv, MdWriteFail PROVE MdInv'
  OBVIOUS
<1> USE DEF MdInv
<1>1. PICK p \in MdPids :
        /\ mdCall[p].pc = "write" /\ MdReturn(p, "err") /\ mdBlame' = mdBlame \cup {mdCall[p].mail}
        /\ UNCHANGED <<mdClock, mdMails, mdDir, mdRemoved>>
  BY DEF MdWriteFail
<1> DEFINE c == mdCall[p]
<1>2. MdBusy(p) /\ c.name \in MdNames /\ c.mail \in MdMail
  BY <1>1, MdCallParts DEF MdBusy
<1>3. /\ mdCall' \in [MdPids -> {MdIdle} \cup MdCallType] /\ mdCount' \in [MdPids -> 0..MdMaxMail]
      /\ mdDone' \in [MdMail -> {"no", "ok", "err"}]
      /\ mdCall'[p].pc = "idle" /\ mdCount'[p] = mdCount[p]
      /\ \A q \in MdPids \ {p} : mdCall'[q] = mdCall[q] /\ mdCount'[q] = mdCount[q]
      /\ mdDone'[c.mail] = "err"
      /\ \A m \in MdMail \ {c.mail} : mdDone'[m] = mdDone[m]
      /\ MdCalls' /\ MdCounted'
  BY <1>1, <1>2, MdReturned
<1>4. MdTypes'
  BY <1>1, <1>2, <1>3 DEF MdTypes
<1>5. MdPast' /\ MdOnce'
  BY <1>1, <1>3, MdNameParts DEF MdPast, MdOnce
<1>6. MdUnlinked'
  BY <1>1, <1>3, MdStillUnlinked
<1>7. MdContent'
  <2>1. MdContentOf(p)'
    BY <1>3 DEF MdContentOf
  <2>2. \A q \in MdPids \ {p} : MdContentOf(q)'
    BY <1>1, <1>2, <1>3, MdOthersContent
  <2> QED BY <2>1, <2>2 DEF MdContent
<1>8. MdKept'
  BY <1>1, <1>3, MdStillKept
<1>9. MdNoClash'
  BY <1>1, <1>3 DEF MdNoClash
<1> QED BY <1>3, <1>4, <1>5, <1>6, <1>7, <1>8, <1>9

(* The link of a call finds its name free in new: it fails only for a file *)
(* that RemoveAll took, and puts a whole mail where no name and no mail    *)
(* was before.                                                             *)
LEMMA MdLinkInv == MdInv /\ MdLink => MdInv'
<1> SUFFICES ASSUME MdInv, MdLink PROVE MdInv'
  OBVIOUS
<1> USE DEF MdInv
<1>1. PICK p \in MdPids :
        /\ mdCall[p].pc = "link"
        /\ IF mdDir["tmp"][mdCall[p].name] = 0 \/ mdDir["new"][mdCall[p].name] # 0
           THEN MdReturn(p, "err") /\ MdPut("tmp", mdCall[p].name, 0)
           ELSE /\ MdPut("new", mdCall[p].name, mdDir["tmp"][mdCall[p].name])
                /\ MdGoto(p, "remove") /\ UNCHANGED <<mdDone, mdCount>>
        /\ UNCHANGED <<mdClock, mdMails, mdRemoved, mdBlame>>
  BY DEF MdLink
<1> DEFINE c == mdCall[p]
<1>2. /\ MdBusy(p) /\ c.name \in MdNames /\ c.mail \in MdMail /\ c.mail \in Int /\ c.mail # 0
      /\ c.dir = "tmp" /\ c.mail <= mdMails /\ c.mail \in 0..mdMails
  BY <1>1, MdCallParts DEF MdBusy, MdMail, MdCalls, MdTypes
<1>3. mdDir["tmp"][c.name] = c.mail \/ (mdDir["tmp"][c.name] = 0 /\ c.mail \in mdBlame)
  BY <1>1 DEF MdContent, MdContentOf
<1>4. \A d \in MdRead : mdDir[d][c.name] = 0 /\ \A n \in MdNames : mdDir[d][n] # c.mail
  BY <1>1, <1>2 DEF MdUnlinked, MdUnlinkedOf
<1>5. mdDir["new"][c.name] = 0 /\ mdDir["cur"][c.name] = 0
  BY <1>4 DEF MdRead
<1>6. CASE mdDir["tmp"][c.name] = 0
  <2>1. MdReturn(p, "err") /\ MdPut("tmp", c.name, 0)
    BY <1>1, <1>6
  <2>2. /\ mdCall' \in [MdPids -> {MdIdle} \cup MdCallType] /\ mdCount' \in [MdPids -> 0..MdMaxMail]
        /\ mdDone' \in [MdMail -> {"no", "ok", "err"}]
        /\ mdCall'[p].pc = "idle" /\ mdCount'[p] = mdCount[p]
        /\ \A q \in MdPids \ {p} : mdCall'[q] = mdCall[q] /\ mdCount'[q] = mdCount[q]
        /\ mdDone'[c.mail] = "err"
        /\ \A m \in MdMail \ {c.mail} : mdDone'[m] = mdDone[m]
        /\ MdCalls' /\ MdCounted'
    BY <1>1, <1>2, <2>1, MdReturned
  <2>3. /\ mdDir' \in [MdDirs -> [MdNames -> Int]]
        /\ \A d \in MdDirs, n \in MdNames : mdDir'[d][n] = IF d = "tmp" /\ n = c.name THEN 0 ELSE mdDir[d][n]
    BY <1>2, <2>1, MdPutFile DEF MdDirs
  <2>4. /\ \A d \in MdRead, n \in MdNames : mdDir'[d][n] = mdDir[d][n]
        /\ \A n \in MdNames : mdDir'["out"][n] = mdDir["out"][n]
    BY <2>3 DEF MdRead, MdDirs
  <2>5. MdTypes'
    BY <1>1, <2>2, <2>3 DEF MdTypes
  <2>6. MdPast' /\ MdOnce'
    BY <1>1, <2>2, <2>4, MdNameParts DEF MdPast, MdOnce, MdRead
  <2>7. MdUnlinked'
    BY <2>2, <2>4, MdStillUnlinked
  <2>8. MdContent'
    <3>1. MdContentOf(p)'
      BY <2>2 DEF MdContentOf
    <3>2. \A q \in MdPids \ {p} : MdContentOf(q)'
      BY <1>1, <1>2, <2>2, <2>3, MdOthersContent
    <3> QED BY <3>1, <3>2 DEF MdContent
  <2>9. MdKept'
    BY <1>1, <2>2, <2>4, MdStillKept DEF MdRead
  <2>10. MdNoClash'
    BY <1>1, <1>2, <1>3, <1>6, <2>2 DEF MdNoClash
  <2> QED BY <2>2, <2>5, <2>6, <2>7, <2>8, <2>9, <2>10
<1>7. CASE mdDir["tmp"][c.name] = c.mail
  <2>1. MdPut("new", c.name, c.mail) /\ MdGoto(p, "remove") /\ UNCHANGED <<mdDone, mdCount>>
    BY <1>1, <1>2, <1>5, <1>7
  <2>2. /\ mdCall' \in [MdPids -> {MdIdle} \cup MdCallType] /\ MdCalls'
        /\ mdCall'[p].pc = "remove" /\ mdCall'[p].dir = c.dir /\ mdCall'[p].name = c.name /\ mdCall'[p].mail = c.mail
        /\ \A q \in MdPids \ {p} : mdCall'[q] = mdCall[q]
    BY <1>1, <1>2, <2>1, MdWentOn
  <2>3. /\ mdDir' \in [MdDirs -> [MdNames -> Int]]
        /\ \A d \in MdDirs, n \in MdNames : mdDir'[d][n] = IF d = "new" /\ n = c.name THEN c.mail ELSE mdDir[d][n]
    BY <1>2, <2>1, MdPutFile DEF MdDirs
  <2>4. \A d \in MdRead, n \in MdNames : mdDir'[d][n] = IF d = "new" /\ n = c.name THEN c.mail ELSE mdDir[d][n]
    BY <2>3 DEF MdRead, MdDirs
  <2>5. MdTypes' /\ MdCounted'
    BY <1>1, <2>1, <2>2, <2>3 DEF MdTypes, MdCounted
  <2>6. MdPast'
    <3>1. c.name[2] = p
      BY <1>2 DEF MdCalls
    <3> QED BY <1>1, <2>1, <2>2, <2>4, <3>1, MdNameParts DEF MdPast
  <2>7. MdUnlinked'
    <3>1. ASSUME NEW q \in MdPids, mdCall'[q].pc \in {"open", "write", "link"}, mdCall'[q].dir = "tmp"
          PROVE  /\ q # p /\ mdCall'[q] = mdCall[q] /\ mdCall[q].name # c.name /\ mdCall[q].mail # c.mail
                 /\ mdCall[q].name \in MdNames
      <4>1. q # p /\ mdCall'[q] = mdCall[q]
        BY <2>2, <3>1
      <4>2. MdBusy(q)
        BY <3>1, <4>1 DEF MdBusy
      <4> QED BY <1>2, <4>1, <4>2, MdNamesDiffer, MdCallParts
    <3> QED BY <2>4, <3>1 DEF MdUnlinked, MdUnlinkedOf
  <2>8. MdOnce'
    <3>1. \A d \in MdRead, n \in MdNames : mdDir'[d][n] \in 0..mdMails
      BY <1>2, <2>4 DEF MdOnce
    <3>2. \A n \in MdNames : mdDir'["new"][n] # 0 => mdDir'["cur"][n] = 0
      BY <1>5, <2>4 DEF MdOnce, MdRead
    <3>3. \A d, e \in MdRead, n, k \in MdNames : mdDir'[d][n] # 0 /\ mdDir'[d][n] = mdDir'[e][k] => d = e /\ n = k
      BY <1>4, <2>4 DEF MdOnce
    <3> QED BY <1>1, <3>1, <3>2, <3>3 DEF MdOnce
  <2>9. MdContent'
    <3>0. mdDir'["new"][c.name] = c.mail
      BY <1>2, <2>3 DEF MdDirs
    <3>1. MdContentOf(p)'
      BY <2>2, <3>0 DEF MdContentOf
    <3>2. \A q \in MdPids \ {p} : MdContentOf(q)'
      BY <1>1, <1>2, <2>2, <2>3, MdOthersContent
    <3> QED BY <3>1, <3>2 DEF MdContent
  <2>10. MdKept'
    <3>1. ASSUME NEW dir \in {"new", "cur", "out"}, NEW n \in MdNames, mdDir[dir][n] \in MdMail
          PROVE  mdDir'[dir][n] = mdDir[dir][n]
      BY <1>5, <2>3, <3>1 DEF MdDirs, MdMail
    <3> QED BY <1>1, <2>1, <3>1, MdStillKept
  <2>11. MdNoClash'
    BY <1>1, <2>1 DEF MdNoClash
  <2> QED BY <2>2, <2>5, <2>6, <2>7, <2>8, <2>9, <2>10, <2>11
<1> QED BY <1>3, <1>6, <1>7

(* Removing the file from tmp ends a call whose mail is in new, or went on *)
(* from there.                                                             *)
LEMMA MdRemoveTmpInv == MdInv /\ MdRemoveTmp => MdInv'
<1> SUFFICES ASSUME MdInv, MdRemoveTmp PROVE MdInv'
  OBVIOUS
<1> USE DEF MdInv
<1>1. PICK p \in MdPids :
        /\ mdCall[p].pc = "remove" /\ MdPut("tmp", mdCall[p].name, 0) /\ MdReturn(p, "ok")
        /\ UNCHANGED <<mdClock, mdMails, mdRemoved, mdBlame>>
  BY DEF MdRemoveTmp
<1> DEFINE c == mdCall[p]
<1>2. MdBusy(p) /\ c.name \in MdNames /\ c.mail \in MdMail
  BY <1>1, MdCallParts DEF MdBusy
<1>3. /\ mdCall' \in [MdPids -> {MdIdle} \cup MdCallType] /\ mdCount' \in [MdPids -> 0..MdMaxMail]
      /\ mdDone' \in [MdMail -> {"no", "ok", "err"}]
      /\ mdCall'[p].pc = "idle" /\ mdCount'[p] = mdCount[p] + 1
      /\ \A q \in MdPids \ {p} : mdCall'[q] = mdCall[q] /\ mdCount'[q] = mdCount[q]
      /\ mdDone'[c.mail] = "ok"
      /\ \A m \in MdMail \ {c.mail} : mdDone'[m] = mdDone[m]
      /\ MdCalls' /\ MdCounted'
  BY <1>1, <1>2, MdReturned
<1>4. /\ mdDir' \in [MdDirs -> [MdNames -> Int]]
      /\ \A d \in MdDirs, n \in MdNames : mdDir'[d][n] = IF d = "tmp" /\ n = c.name THEN 0 ELSE mdDir[d][n]
  BY <1>1, <1>2, MdPutFile DEF MdDirs
<1>5. /\ \A d \in MdRead, n \in MdNames : mdDir'[d][n] = mdDir[d][n]
      /\ \A dir \in {"new", "cur", "out"}, n \in MdNames : mdDir'[dir][n] = mdDir[dir][n]
  BY <1>4 DEF MdRead, MdDirs
<1>6. MdTypes'
  BY <1>1, <1>3, <1>4 DEF MdTypes
<1>7. MdPast'
  <2>1. c.name[1] <= mdClock /\ c.name[2] = p /\ c.name[3] = mdCount[p]
    BY <1>2 DEF MdCalls
  <2>2. \A q \in MdPids : mdCount[q] \in Int /\ mdCount[q] <= mdCount'[q]
    BY <1>3 DEF MdTypes
  <2>3. ASSUME NEW d \in MdRead, NEW n \in MdNames, mdDir'[d][n] # 0
        PROVE  \/ n[1] < mdClock
               \/ n[1] = mdClock /\ n[3] < mdCount'[n[2]]
               \/ mdCall'[n[2]].pc = "remove" /\ mdCall'[n[2]].name = n
    <3>1. n[2] \in MdPids /\ n[1] \in Int /\ n[3] \in Int /\ mdClock \in Int
      BY MdNameParts DEF MdTypes
    <3>2. CASE mdCall[n[2]].pc = "remove" /\ mdCall[n[2]].name = n /\ n[2] = p
      BY <1>3, <2>1, <2>2, <3>1, <3>2
    <3>3. CASE mdCall[n[2]].pc = "remove" /\ mdCall[n[2]].name = n /\ n[2] # p
      BY <1>3, <3>1, <3>3
    <3>4. CASE n[1] < mdClock \/ (n[1] = mdClock /\ n[3] < mdCount[n[2]])
      BY <1>3, <2>2, <3>1, <3>4
    <3>5. mdDir[d][n] # 0
      BY <1>5, <2>3
    <3>6. \/ n[1] < mdClock
          \/ n[1] = mdClock /\ n[3] < mdCount[n[2]]
          \/ mdCall[n[2]].pc = "remove" /\ mdCall[n[2]].name = n
      BY <3>5 DEF MdPast
    <3> QED BY <3>2, <3>3, <3>4, <3>6
  <2> QED BY <1>1, <2>3 DEF MdPast
<1>8. MdOnce'
  BY <1>1, <1>5 DEF MdOnce
<1>9. MdUnlinked'
  BY <1>3, <1>5, MdStillUnlinked
<1>10. MdContent'
  <2>1. MdContentOf(p)'
    BY <1>3 DEF MdContentOf
  <2>2. \A q \in MdPids \ {p} : MdContentOf(q)'
    BY <1>1, <1>2, <1>3, <1>4, MdOthersContent
  <2> QED BY <2>1, <2>2 DEF MdContent
<1>11. MdKept'
  <2>1. mdDir["new"][c.name] = c.mail \/ mdDir["cur"][c.name] = c.mail \/ c.mail \in mdRemoved
    BY <1>1 DEF MdContent, MdContentOf
  <2> QED BY <1>1, <1>2, <1>3, <1>5, <2>1, MdStillKept
<1>12. MdNoClash'
  BY <1>1, <1>3 DEF MdNoClash
<1> QED BY <1>3, <1>6, <1>7, <1>8, <1>9, <1>10, <1>11, <1>12

(* Time passing, and a crash with its restart at a later time, move every  *)
(* name that exists behind the ones generated next.                        *)
LEMMA MdLaterInv == MdInv /\ (MdTime \/ MdCrash) => MdInv'
<1> SUFFICES ASSUME MdInv, MdTime \/ MdCrash PROVE MdInv'
  OBVIOUS
<1> USE DEF MdInv
<1>1. /\ mdClock < MdMaxClock /\ mdClock' = mdClock + 1 /\ mdClock \in Int
      /\ UNCHANGED <<mdMails, mdDir, mdDone, mdRemoved, mdBlame>>
  BY DEF MdTime, MdCrash, MdTypes
<1>2. /\ mdCall' \in [MdPids -> {MdIdle} \cup MdCallType] /\ mdCount' \in [MdPids -> 0..MdMaxMail]
      /\ \A q \in MdPids : \/ mdCall'[q] = mdCall[q] /\ mdCount'[q] = mdCount[q]
                           \/ mdCall'[q].pc = "idle" /\ mdCount'[q] = 0
  <2>1. CASE MdTime
    BY <2>1 DEF MdTime, MdTypes
  <2>2. CASE MdCrash
    BY <2>2, MdAssumption DEF MdCrash, MdTypes, MdIdle
  <2> QED BY <2>1, <2>2
<1>3. MdTypes'
  BY <1>1, <1>2, MdAssumption DEF MdTypes
<1>4. MdCounted'
  BY <1>1, <1>2 DEF MdCounted, MdTypes
<1>5. MdCalls'
  <2>1. \A q \in MdPids : MdBusy(q)' => /\ mdCall'[q] = mdCall[q] /\ mdCount'[q] = mdCount[q] /\ MdBusy(q)
                                        /\ mdCall[q].name[1] \in Int
    BY <1>2, MdCallParts, MdNameParts DEF MdBusy
  <2> QED BY <1>1, <2>1 DEF MdCalls
<1>6. MdPast'
  <2>1. ASSUME NEW d \in MdRead, NEW n \in MdNames, mdDir[d][n] # 0 PROVE n[1] < mdClock + 1
    <3>1. n[2] \in MdPids /\ n[1] \in Int
      BY MdNameParts
    <3>2. mdCall[n[2]].pc = "remove" => mdCall[n[2]].name[1] <= mdClock
      BY <3>1 DEF MdCalls, MdBusy
    <3> QED BY <1>1, <2>1, <3>1, <3>2 DEF MdPast
  <2> QED BY <1>1, <2>1 DEF MdPast
<1>7. MdUnlinked'
  BY <1>1, <1>2, MdStillUnlinked
<1>8. MdOnce' /\ MdNoClash' /\ MdKept'
  BY <1>1 DEF MdOnce, MdNoClash, MdKept
<1>9. MdContent'
  BY <1>1, <1>2 DEF MdContent, MdContentOf
<1> QED BY <1>3, <1>4, <1>5, <1>6, <1>7, <1>8, <1>9

(* Get moves a whole mail to a name that is free in cur.                   *)
LEMMA MdGetInv == MdInv /\ MdGet => MdInv'
<1> SUFFICES ASSUME MdInv, MdGet PROVE MdInv'
  OBVIOUS
<1> USE DEF MdInv
<1>1. PICK k \in MdNames :
        /\ mdDir["new"][k] # 0
        /\ mdDir' = [mdDir EXCEPT !["cur"][k] = mdDir["new"][k], !["new"][k] = 0]
        /\ UNCHANGED <<mdClock, mdMails, mdCount, mdCall, mdDone, mdRemoved, mdBlame>>
  BY DEF MdGet
<1>2. /\ mdDir' \in [MdDirs -> [MdNames -> Int]]
      /\ \A n \in MdNames : /\ mdDir'["new"][n] = IF n = k THEN 0 ELSE mdDir["new"][n]
                            /\ mdDir'["cur"][n] = IF n = k THEN mdDir["new"][k] ELSE mdDir["cur"][n]
      /\ mdDir'["tmp"] = mdDir["tmp"] /\ mdDir'["out"] = mdDir["out"]
  BY <1>1 DEF MdTypes, MdDirs
<1>3. mdDir["cur"][k] = 0
  BY <1>1 DEF MdOnce
<1>4. MdTypes' /\ MdCounted'
  BY <1>1, <1>2 DEF MdTypes, MdCounted
<1>5. MdCalls' /\ MdNoClash'
  BY <1>1 DEF MdCalls, MdBusy, MdNoClash
<1>6. \A d \in MdRead, n \in MdNames : mdDir'[d][n] # 0 =>
        \E e \in MdRead : mdDir[e][n] # 0 /\ mdDir[e][n] = mdDir'[d][n]
  BY <1>1, <1>2 DEF MdRead
<1>7. MdPast'
  BY <1>1, <1>6 DEF MdPast
<1>8. MdUnlinked'
  <2>1. ASSUME NEW p \in MdPids, mdCall[p].pc \in {"open", "write", "link"}, mdCall[p].dir = "tmp", NEW d \in MdRead
        PROVE  mdDir'[d][mdCall[p].name] = 0 /\ \A n \in MdNames : mdDir'[d][n] # mdCall[p].mail
    <3>1. MdBusy(p)
      BY <2>1 DEF MdBusy
    <3>2. mdCall[p].name \in MdNames /\ mdCall[p].mail # 0
      BY <3>1, MdCallParts DEF MdMail
    <3>3. \A e \in MdRead : mdDir[e][mdCall[p].name] = 0 /\ \A n \in MdNames : mdDir[e][n] # mdCall[p].mail
      BY <2>1 DEF MdUnlinked, MdUnlinkedOf
    <3> QED BY <1>6, <3>2, <3>3
  <2>2. ASSUME NEW p \in MdPids PROVE MdUnlinkedOf(p)'
    <3>1. mdCall' = mdCall
      BY <1>1
    <3> QED BY <2>1, <3>1 DEF MdUnlinkedOf
  <2> QED BY <2>2 DEF MdUnlinked
<1>9. MdOnce'
  <2>1. \A d \in MdRead, n \in MdNames : mdDir'[d][n] \in 0..mdMails
    BY <1>6 DEF MdOnce, MdTypes
  <2>2. \A n \in MdNames : mdDir'["new"][n] # 0 => mdDir'["cur"][n] = 0
    BY <1>2 DEF MdOnce
  <2>3. \A d, e \in MdRead, n, j \in MdNames : mdDir'[d][n] # 0 /\ mdDir'[d][n] = mdDir'[e][j] => d = e /\ n = j
    <3> SUFFICES ASSUME NEW d \in MdRead, NEW e \in MdRead, NEW n \in MdNames, NEW j \in MdNames,
                        mdDir'[d][n] # 0, mdDir'[d][n] = mdDir'[e][j]
                 PROVE  d = e /\ n = j
      OBVIOUS
    <3>1. PICK f \in MdRead : mdDir[f][n] # 0 /\ mdDir[f][n] = mdDir'[d][n]
      BY <1>6
    <3>2. PICK g \in MdRead : mdDir[g][j] # 0 /\ mdDir[g][j] = mdDir'[e][j]
      BY <1>6
    <3>3. n = j
      BY <3>1, <3>2 DEF MdOnce
    <3> QED BY <1>2, <2>2, <3>3 DEF MdRead
  <2> QED BY <1>1, <2>1, <2>2, <2>3 DEF MdOnce
<1>10. MdContent'
  <2> SUFFICES ASSUME NEW p \in MdPids PROVE MdContentOf(p)'
    BY DEF MdContent
  <2>1. CASE MdBusy(p)
    <3>1. mdCall[p].name \in MdNames /\ mdCall[p].dir \in {"tmp", "out"} /\ mdCall[p].mail # 0
      BY <2>1, MdCallParts DEF MdMail
    <3>2. MdContentOf(p) /\ mdDir'[mdCall[p].dir] = mdDir[mdCall[p].dir]
      BY <1>2, <3>1 DEF MdContent
    <3>3. mdDir["new"][mdCall[p].name] = mdCall[p].mail \/ mdDir["cur"][mdCall[p].name] = mdCall[p].mail =>
            mdDir'["new"][mdCall[p].name] = mdCall[p].mail \/ mdDir'["cur"][mdCall[p].name] = mdCall[p].mail
      BY <1>2, <1>3, <3>1
    <3> QED BY <1>1, <1>2, <3>2, <3>3 DEF MdContentOf
  <2>2. CASE ~MdBusy(p)
    BY <1>1, <2>2 DEF MdContentOf, MdBusy
  <2> QED BY <2>1, <2>2
<1>11. MdKept'
  <2>1. ASSUME NEW dir \in {"new", "cur", "out"}, NEW n \in MdNames, mdDir[dir][n] \in MdMail
        PROVE  \E e \in {"new", "cur", "out"} : mdDir'[e][n] = mdDir[dir][n]
    BY <1>2, <1>3, <2>1 DEF MdMail
  <2> QED BY <1>1, <2>1, MdStillKept
<1> QED BY <1>4, <1>5, <1>7, <1>8, <1>9, <1>10, <1>11

(* Delete and DeleteOutQueue take one file away, and account for its mail. *)
LEMMA MdDeleteInv == MdInv /\ MdDelete => MdInv'
<1> SUFFICES ASSUME MdInv, MdDelete PROVE MdInv'
  OBVIOUS
<1> USE DEF MdInv
<1>1. PICK k \in MdNames, dir \in {"cur", "out"} :
        /\ mdDir[dir][k] # 0 /\ MdPut(dir, k, 0)
        /\ mdRemoved' = mdRemoved \cup {m \in MdMail : mdDir[dir][k] \in {m, -m}}
        /\ UNCHANGED <<mdClock, mdMails, mdCount, mdCall, mdDone, mdBlame>>
  BY DEF MdDelete
<1>2. /\ mdDir' \in [MdDirs -> [MdNames -> Int]]
      /\ \A d \in MdDirs, n \in MdNames : mdDir'[d][n] = IF d = dir /\ n = k THEN 0 ELSE mdDir[d][n]
  BY <1>1, MdPutFile DEF MdDirs
<1>3. \A d \in MdRead, n \in MdNames : mdDir'[d][n] = mdDir[d][n] \/ mdDir'[d][n] = 0
  BY <1>2 DEF MdRead, MdDirs
<1>4. MdTypes' /\ MdCounted' /\ MdCalls' /\ MdNoClash'
  BY <1>1, <1>2 DEF MdTypes, MdCounted, MdCalls, MdBusy, MdNoClash
<1>5. MdPast'
  BY <1>1, <1>3 DEF MdPast
<1>6. MdUnlinked'
  <2>1. ASSUME NEW p \in MdPids, mdCall[p].pc \in {"open", "write", "link"}
        PROVE  mdCall[p].name \in MdNames /\ mdCall[p].mail # 0
    <3>1. MdBusy(p)
      BY <2>1 DEF MdBusy
    <3> QED BY <3>1, MdCallParts DEF MdMail
  <2> QED BY <1>1, <1>3, <2>1 DEF MdUnlinked, MdUnlinkedOf
<1>7. MdOnce'
  <2>1. \A d \in MdRead, n \in MdNames : mdDir'[d][n] \in 0..mdMails
    BY <1>3 DEF MdOnce, MdTypes
  <2>2. \A n \in MdNames : mdDir'["new"][n] # 0 => mdDir'["cur"][n] = 0
    BY <1>3 DEF MdOnce, MdRead
  <2>3. \A d, e \in MdRead, n, j \in MdNames : mdDir'[d][n] # 0 /\ mdDir'[d][n] = mdDir'[e][j] => d = e /\ n = j
    BY <1>3 DEF MdOnce
  <2> QED BY <1>1, <2>1, <2>2, <2>3 DEF MdOnce
<1>8. MdContent'
  <2> SUFFICES ASSUME NEW p \in MdPids PROVE MdContentOf(p)'
    BY DEF MdContent
  <2>1. CASE MdBusy(p)
    <3> DEFINE c == mdCall[p]
    <3>1. c.name \in MdNames /\ c.dir \in {"tmp", "out"} /\ c.mail \in MdMail /\ MdContentOf(p) /\ c = mdCall'[p]
      BY <1>1, <2>1, MdCallParts DEF MdContent
    <3>2. mdDir'["tmp"][c.name] = mdDir["tmp"][c.name] /\ mdDir'["new"][c.name] = mdDir["new"][c.name]
      BY <1>2, <3>1 DEF MdDirs
    <3>3. mdDir["cur"][c.name] = c.mail => mdDir'["cur"][c.name] = c.mail \/ c.mail \in mdRemoved'
      BY <1>1, <1>2, <3>1 DEF MdDirs
    <3>4. mdDir["out"][c.name] = -c.mail => \/ mdDir'["out"][c.name] = -c.mail
                                            \/ mdDir'["out"][c.name] = 0 /\ c.mail \in mdRemoved'
      BY <1>1, <1>2, <3>1 DEF MdDirs
    <3>5. mdDir["out"][c.name] = 0 => mdDir'["out"][c.name] = 0
      BY <1>2, <3>1 DEF MdDirs
    <3>6. mdRemoved \subseteq mdRemoved' /\ mdBlame' = mdBlame
      BY <1>1
    <3>7. CASE c.dir = "tmp"
      BY <3>1, <3>2, <3>3, <3>6, <3>7 DEF MdContentOf
    <3>8. CASE c.dir = "out"
      <4>1. c.pc \in {"open", "write"}
        BY <2>1, <3>8, MdCallParts DEF MdCalls
      <4> QED BY <3>1, <3>4, <3>5, <3>6, <3>8, <4>1 DEF MdContentOf
    <3> QED BY <3>1, <3>7, <3>8
  <2>2. CASE ~MdBusy(p)
    BY <1>1, <2>2 DEF MdContentOf, MdBusy
  <2> QED BY <2>1, <2>2
<1>9. MdKept'
  <2>1. ASSUME NEW d \in {"new", "cur", "out"}, NEW n \in MdNames, mdDir[d][n] \in MdMail \ mdRemoved'
        PROVE  mdDir'[d][n] = mdDir[d][n]
    BY <1>1, <1>2, <2>1 DEF MdDirs
  <2> QED BY <1>1, <2>1, MdStillKept
<1> QED BY <1>4, <1>5, <1>6, <1>7, <1>8, <1>9

(* RemoveAll of tmp can only fail calls that have a file there.            *)
LEMMA MdRemoveAllInv == MdInv /\ MdRemoveAll => MdInv'
<1> SUFFICES ASSUME MdInv, MdRemoveAll PROVE MdInv'
  OBVIOUS
<1> USE DEF MdInv
<1>1. /\ mdDir' = [mdDir EXCEPT !["tmp"] = [n \in MdNames |-> 0]]
      /\ mdBlame' = mdBlame \cup {mdCall[p].mail : p \in {q \in MdPids : mdCall[q].pc \in {"write", "link"}}}
      /\ UNCHANGED <<mdClock, mdMails, mdCount, mdCall, mdDone, mdRemoved>>
  BY DEF MdRemoveAll
<1>2. /\ mdDir' \in [MdDirs -> [MdNames -> Int]] /\ \A n \in MdNames : mdDir'["tmp"][n] = 0
      /\ mdDir'["new"] = mdDir["new"] /\ mdDir'["cur"] = mdDir["cur"] /\ mdDir'["out"] = mdDir["out"]
  BY <1>1 DEF MdTypes, MdDirs
<1>3. mdBlame' \subseteq MdMail /\ mdBlame \subseteq mdBlame'
  <2>1. ASSUME NEW q \in MdPids, mdCall[q].pc \in {"write", "link"} PROVE mdCall[q].mail \in MdMail
    BY <2>1, MdCallParts DEF MdBusy
  <2> QED BY <1>1, <2>1 DEF MdTypes
<1>4. MdTypes' /\ MdCounted' /\ MdCalls' /\ MdNoClash'
  BY <1>1, <1>2, <1>3 DEF MdTypes, MdCounted, MdCalls, MdBusy, MdNoClash
<1>5. MdPast' /\ MdOnce'
  BY <1>1, <1>2 DEF MdPast, MdOnce, MdRead
<1>6. MdUnlinked'
  BY <1>1, <1>2, MdStillUnlinked DEF MdRead
<1>7. MdContent'
  <2> SUFFICES ASSUME NEW p \in MdPids PROVE MdContentOf(p)'
    BY DEF MdContent
  <2>1. CASE MdBusy(p)
    <3>1. mdCall[p].name \in MdNames /\ mdCall[p].dir \in {"tmp", "out"} /\ MdContentOf(p) /\ mdCall'[p] = mdCall[p]
      BY <1>1, <2>1, MdCallParts DEF MdContent
    <3>2. mdCall[p].pc \in {"write", "link"} => mdCall[p].mail \in mdBlame'
      BY <1>1
    <3> QED BY <1>1, <1>2, <1>3, <3>1, <3>2 DEF MdContentOf
  <2>2. CASE ~MdBusy(p)
    BY <1>1, <2>2 DEF MdContentOf, MdBusy
  <2> QED BY <2>1, <2>2
<1>8. MdKept'
  BY <1>1, <1>2, MdStillKept
<1> QED BY <1>4, <1>5, <1>6, <1>7, <1>8

(* Every system call of every process, and every crash, preserves the      *)
(* invariant.                                                              *)
LEMMA MdNextInv == MdInv /\ [MdNext]_mdVars => MdInv'
<1> SUFFICES ASSUME MdInv, [MdNext]_mdVars PROVE MdInv'
  OBVIOUS
<1>1. CASE MdIncoming
  BY <1>1, MdStartInv DEF MdIncoming
<1>2. CASE MdOutQueue
  BY <1>2, MdStartInv DEF MdOutQueue
<1>3. CASE UNCHANGED mdVars
  BY <1>3 DEF mdVars, MdInv, MdTypes, MdCalls, MdBusy, MdCounted, MdPast, MdUnlinked, MdUnlinkedOf, MdOnce,
              MdContent, MdContentOf, MdKept, MdNoClash
<1> QED BY <1>1, <1>2, <1>3, MdOpenInv, MdWriteInv, MdWriteFailInv, MdLinkInv, MdRemoveTmpInv, MdLaterInv, MdGetInv,
           MdDeleteInv, MdRemoveAllInv DEF MdNext

(* Where no two files of new and cur hold the same mail there is at most   *)
(* one file for each.                                                      *)
LEMMA MdOnceIsWhole == MdInv => MdWhole
<1> SUFFICES ASSUME MdInv PROVE MdWhole
  OBVIOUS
<1>1. \A n \in MdNames : mdDir["new"][n] >= 0 /\ mdDir["cur"][n] >= 0
  <2>1. \A n \in MdNames : mdDir["new"][n] \in 0..mdMails /\ mdDir["cur"][n] \in 0..mdMails
    BY DEF MdInv, MdOnce, MdRead
  <2> QED BY <2>1 DEF MdInv, MdTypes
<1>2. ASSUME NEW m \in MdMail
      PROVE  Cardinality({x \in {"new", "cur"} \X MdNames : mdDir[x[1]][x[2]] = m}) <= 1
  <2> DEFINE S == {x \in {"new", "cur"} \X MdNames : mdDir[x[1]][x[2]] = m}
  <2>1. ASSUME NEW x \in S, NEW y \in S PROVE x = y
    <3>1. x[1] \in MdRead /\ x[2] \in MdNames /\ y[1] \in MdRead /\ y[2] \in MdNames /\ x = <<x[1], x[2]>> /\ y = <<y[1], y[2]>>
      BY DEF MdRead
    <3>2. mdDir[x[1]][x[2]] = m /\ mdDir[y[1]][y[2]] = m /\ m # 0
      BY DEF MdMail
    <3>3. x[1] = y[1] /\ x[2] = y[2]
      BY <3>1, <3>2 DEF MdInv, MdOnce
    <3> QED BY <3>1, <3>3
  <2> HIDE DEF S
  <2>2. CASE S = {}
    BY <2>2, FS_EmptySet DEF S
  <2>3. CASE S # {}
    <3>1. PICK x : x \in S
      BY <2>3
    <3>2. S = {x}
      BY <2>1, <3>1
    <3>3. Cardinality({x}) = 1
      BY FS_Singleton
    <3> QED BY <3>2, <3>3 DEF S
  <2> QED BY <2>2, <2>3
<1>3. 1..mdMails \subseteq MdMail
  <2>1. mdMails \in 0..MdMaxMail
    BY DEF MdInv, MdTypes
  <2> QED BY <2>1, MdAssumption DEF MdMail
<1> QED BY <1>1, <1>2, <1>3 DEF MdWhole

(* Mail that Incoming or OutQueue accepted is in new, cur or out, whole,   *)
(* until somebody removes it; what a reader finds is whole and there once; *)
(* no call fails for the name of another: for any number of processes,     *)
(* mails and crashes.                                                      *)
THEOREM AcceptedMailKept == MdSpec => []MdSound
<1>1. MdInv => MdSound
  BY MdOnceIsWhole DEF MdInv, MdSound
<1> QED BY <1>1, MdInitInv, MdNextInv, PTL DEF MdSpec

(* The Manager's variables keep their types.                               *)
THEOREM MdTypeCorrect == MdSpec => []MdTypeOK
<1>1. MdInv => MdTypeOK
  BY DEF MdInv, MdTypes, MdTypeOK, MdIdle, MdCallType
<1> QED BY <1>1, MdInitInv, MdNextInv, PTL DEF MdSpec
=============================================================================
