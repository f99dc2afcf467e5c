----------------------------- MODULE SmtpLocal -----------------------------
(***************************************************************************)
(* The local storage and the local handler of lib/smtp.  Mails are files   *)
(* written with one gob encoder and read with one gob decoder per process: *)
(* the encoder sends the types with its first mail only, the decoder wants *)
(* them exactly once.  A crash may leave a file half written.              *)
(***************************************************************************)
EXTENDS Integers, FiniteSets, Sequences

CONSTANTS SlMails,      \* mail ids
          SlAccounts,   \* accounts: [domain, user, pass]; pass "" is a system account
          SlPrimary, SlVirtual, \* the name of the primary domain, and the sequence of virtual ones
          SlMaxRuns, SlMaxLoads \* bounds: processes one after the other, loads of a process
ASSUME SlAssumption == SlMaxRuns \in Nat \ {0} /\ SlMaxLoads \in Nat

VARIABLES slDisk,    \* files of the directory: id -> "none", "partial", "typed" or "plain"
          slBounced, \* files of the bounce directory
          slSaving,  \* the id MailSave is writing, with the bytes it has encoded, or <<>>
          slSent, slKnown, \* the encoder has sent the types; the decoder knows them
          slSaved,   \* ids MailSave returned for, less the ones deleted, bounced and being saved again
          slGone,    \* ids deleted or bounced, less the ones saved again
          slLoaded, slLoads, \* what the last load of each id gave; loads of this process
          slMissed,  \* the mails saved that the last MailLoadAll left out
          slRuns,
          slAsked    \* the last ServeAuth or ServeVerify: [user, auth, verify]
slVars == <<slDisk, slBounced, slSaving, slSent, slKnown, slSaved, slGone, slLoaded, slLoads, slMissed, slRuns, slAsked>>

SlInit == /\ slDisk = [m \in SlMails |-> "none"] /\ slBounced = {} /\ slSaving = <<>> /\ slSent = FALSE /\ slKnown = FALSE
          /\ slSaved = {} /\ slGone = {} /\ slLoaded = [m \in SlMails |-> "none"] /\ slLoads = 0 /\ slMissed = {} /\ slRuns = 1
          /\ slAsked = [user |-> "none", auth |-> FALSE, verify |-> FALSE]

-----------------------------------------------------------------------------
(* The storage.                                                            *)
\* MailSave: the mail is encoded and the file opened and truncated, a file of the same id too; then it
\* is written and the call returns.  Opening it or writing it may fail: the types were sent all the same.
SlEncoded == IF slSent THEN "plain" ELSE "typed"

SlSaveBegin == \E m \in SlMails, opened \in BOOLEAN :
  /\ slSaving = <<>> /\ slSent' = TRUE
  /\ slSaving' = IF opened THEN <<m, SlEncoded>> ELSE <<>>
  /\ slDisk' = IF opened THEN [slDisk EXCEPT ![m] = "partial"] ELSE slDisk
  /\ slSaved' = IF opened THEN slSaved \ {m} ELSE slSaved
  /\ slGone' = IF opened THEN slGone \ {m} ELSE slGone
  /\ UNCHANGED <<slBounced, slKnown, slLoaded, slLoads, slMissed, slRuns, slAsked>>

SlSaveFail ==
  /\ slSaving # <<>> /\ slSaving' = <<>>
  /\ UNCHANGED <<slDisk, slBounced, slSent, slKnown, slSaved, slGone, slLoaded, slLoads, slMissed, slRuns, slAsked>>

SlSaveEnd ==
  /\ slSaving # <<>>
  /\ slDisk' = [slDisk EXCEPT ![slSaving[1]] = slSaving[2]] /\ slSaved' = slSaved \cup {slSaving[1]} /\ slSaving' = <<>>
  /\ UNCHANGED <<slBounced, slSent, slKnown, slGone, slLoaded, slLoads, slMissed, slRuns, slAsked>>

\* Decode: the types of a file are an error when known, and must be known for a file without.
SlDecodes(file, known) == (file = "typed" /\ ~known) \/ (file = "plain" /\ known)

SlLoad == \E m \in SlMails :
  /\ slSaving = <<>> /\ slDisk[m] # "none" /\ slLoads < SlMaxLoads /\ slLoads' = slLoads + 1
  /\ slLoaded' = [slLoaded EXCEPT ![m] = IF SlDecodes(slDisk[m], slKnown) THEN "mail" ELSE "error"]
  /\ slKnown' = (slKnown \/ slDisk[m] = "typed")
  /\ UNCHANGED <<slDisk, slBounced, slSaving, slSent, slSaved, slGone, slMissed, slRuns, slAsked>>

\* MailLoadAll: in the order of the directory; a mail that fails is logged and left out.
SlOrders(S) == {f \in [1..Cardinality(S) -> S] : \A i, j \in DOMAIN f : i # j => f[i] # f[j]}
SlLoadAll == \E order \in SlOrders({m \in SlMails : slDisk[m] # "none"}) :
  LET known[i \in 0..Len(order)] == IF i = 0 THEN slKnown ELSE known[i - 1] \/ slDisk[order[i]] = "typed"
  IN /\ slSaving = <<>> /\ slLoads < SlMaxLoads /\ slLoads' = slLoads + 1
     /\ slMissed' = slSaved \cap {order[i] : i \in {j \in DOMAIN order : ~SlDecodes(slDisk[order[j]], known[j - 1])}}
     /\ slKnown' = known[Len(order)]
     /\ UNCHANGED <<slDisk, slBounced, slSaving, slSent, slSaved, slGone, slLoaded, slRuns, slAsked>>

SlDelete == \E m \in SlMails :
  /\ slSaving = <<>> /\ slDisk[m] # "none"
  /\ slDisk' = [slDisk EXCEPT ![m] = "none"] /\ slSaved' = slSaved \ {m} /\ slGone' = slGone \cup {m}
  /\ UNCHANGED <<slBounced, slSaving, slSent, slKnown, slLoaded, slLoads, slMissed, slRuns, slAsked>>

\* MailBounce: os.Rename out of the directory.
\* Mutant of SlMoved: the file is copied to the bounce directory.
SlMovedCopy(m) == slDisk
SlMoved(m) == [slDisk EXCEPT ![m] = "none"]

SlBounce == \E m \in SlMails :
  /\ slSaving = <<>> /\ slDisk[m] # "none"
  /\ slDisk' = SlMoved(m) /\ slSaved' = slSaved \ {m} /\ slGone' = slGone \cup {m} /\ slBounced' = slBounced \cup {m}
  /\ UNCHANGED <<slSaving, slSent, slKnown, slLoaded, slLoads, slMissed, slRuns, slAsked>>

\* A crash, perhaps within MailSave, and NewLocalStorage of the next process.
SlRestart ==
  /\ slRuns < SlMaxRuns /\ slRuns' = slRuns + 1
  /\ slSaving' = <<>> /\ slSent' = FALSE /\ slKnown' = FALSE /\ slLoaded' = [m \in SlMails |-> "none"] /\ slLoads' = 0
  /\ slMissed' = {}
  /\ UNCHANGED <<slDisk, slBounced, slSaved, slGone, slAsked>>

-----------------------------------------------------------------------------
(* The handler: accounts of a domain, and the two ways to look one up.     *)
SlHas(domain, user) == \E a \in SlAccounts : a.domain = domain /\ a.user = user
SlPassOK(domain, user, pass) == \E a \in SlAccounts : a.domain = domain /\ a.user = user /\ a.pass # "" /\ a.pass = pass

\* ServeAuth stops at the first domain of the name, ServeVerify goes on to the virtual ones.
SlServeAuth(domain, user, pass) == domain \in {SlPrimary} \cup {SlVirtual[i] : i \in DOMAIN SlVirtual} /\ SlPassOK(domain, user, pass)
\* Mutant of SlServeVerify: only the primary domain is searched.
SlServeVerifyPrimary(domain, user) == domain = SlPrimary /\ SlHas(domain, user)
SlServeVerify(domain, user) ==
  \/ domain = SlPrimary /\ SlHas(domain, user)
  \/ \E i \in DOMAIN SlVirtual : domain = SlVirtual[i] /\ SlHas(domain, user)

SlAsk == \E a \in SlAccounts, pass \in {b.pass : b \in SlAccounts} \cup {"wrong"} :
  /\ slAsked' = [user |-> a.user, auth |-> SlServeAuth(a.domain, a.user, pass), verify |-> SlServeVerify(a.domain, a.user)]
  /\ UNCHANGED <<slDisk, slBounced, slSaving, slSent, slKnown, slSaved, slGone, slLoaded, slLoads, slMissed, slRuns>>

SlNext == SlSaveBegin \/ SlSaveEnd \/ SlSaveFail \/ SlLoad \/ SlLoadAll \/ SlDelete \/ SlBounce \/ SlRestart \/ SlAsk
SlSpec == SlInit /\ [][SlNext]_slVars

-----------------------------------------------------------------------------
SlTypeOK == /\ \A m \in SlMails : slDisk[m] \in {"none", "partial", "typed", "plain"} /\ slLoaded[m] \in {"none", "mail", "error"}
            /\ slRuns \in 1..SlMaxRuns /\ slLoads \in 0..SlMaxLoads

(* A mail whose MailSave returned is a whole file, through any number of   *)
(* crashes and failed writes of other mails, until it is deleted, bounced  *)
(* or saved again under its id (a save truncates the file first); a mail   *)
(* deleted or bounced does not come back unless it is saved again.         *)
SlKept == /\ \A m \in slSaved : slDisk[m] \in {"typed", "plain"}
          /\ \A m \in slGone : slDisk[m] = "none"

(* Whoever may authenticate is found by VRFY.                              *)
SlAuthVerify == slAsked.auth => slAsked.verify

\* MailLoadAll: "mail objects from file system" - every mail saved is among them.
SlAllLoaded == slMissed = {}

(* Storage and accounts: mail that was saved stays, and AUTH and VRFY know *)
(* the same accounts.                                                      *)
SlSound == SlKept /\ SlAuthVerify
=============================================================================
