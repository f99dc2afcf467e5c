-------------------------------- MODULE Dkim --------------------------------
(***************************************************************************)
(* lib/email and lib/email/dkim: messages are signed, change on their way, *)
(* and are verified with keys looked up in the DNS and kept in the pool    *)
(* that all verifying goroutines share.  A hash is what it is computed     *)
(* from, a signature names the private key that made it, and a clock tick  *)
(* is an hour.                                                             *)
(***************************************************************************)
EXTENDS Integers, Sequences, SequencesExt, FiniteSetsExt

CONSTANTS DkMsgs,     \* messages
          DkSignatures, \* what the program fills in before DKIMSign
          DkZones,    \* TXT records the domain may publish: sequences of tags
          DkTTL, DkMaxClock, DkMaxSteps \* TTL of the TXT record; bounds: ticks, changes of a message
ASSUME DkAssumption == DkTTL \in Nat /\ DkMaxClock \in Nat /\ DkMaxSteps \in Nat

VARIABLES dkMsg,   \* per message: [header, body, status, ret, sig, pc, key, used, steps]; used is the
                   \* private key of the key that Get returned for it, 0 when it found none, -1 before
          dkOrg,   \* per message: what was signed last: [sig, gen, fields, body], and whether the message has changed since
          dkPool,  \* DefaultKeyPool, for the one domain: a Key or DkNoKey
          dkZone, dkLast, \* the TXT record, and for each key the last time it was published
          dkGot,   \* the key the last KeyPool.Get returned, when it returned it, and whether the key had expired by then
          dkClock
dkVars == <<dkMsg, dkOrg, dkPool, dkZone, dkLast, dkGot, dkClock>>

-----------------------------------------------------------------------------
(* Tags: their key, the parts of their value, and its number.              *)
DkTag(key, v, n) == [key |-> key, v |-> v, n |-> n]
DkHas(tags, key) == \E i \in DOMAIN tags : tags[i].key = key
\* fetchTagKey refuses the second tag of a key, unknown keys aside.
DkDuplicate(seen, tag) == tag.key # "unknown" /\ tag.key \in seen

DkNoHash == [alg |-> "nil", blocks |-> <<>>]
DkNoSign == [gen |-> 0, alg |-> "nil", fields |-> <<>>, tags |-> <<>>, bh |-> DkNoHash, form |-> ""]
DkSignature == [v |-> "", alg |-> "nil", sdid |-> <<>>, sel |-> "", headers |-> <<>>, bh |-> DkNoHash, b |-> DkNoSign, t |-> 0, x |-> 0,
                ch |-> "nil", cb |-> "nil", z |-> <<>>, auid |-> <<>>, l |-> -1, q |-> "nil"]
DkSetDefault(sig) ==
  [sig EXCEPT !.v = IF @ = "" THEN "1" ELSE @, !.alg = IF @ = "nil" THEN "rsa-sha256" ELSE @,
              !.ch = IF @ = "nil" THEN "relaxed" ELSE @, !.cb = IF @ = "nil" THEN "relaxed" ELSE @]

\* Pack: required tags always, the others when they are set; c= with the body only behind the header.
DkPack(sig) ==
  LET opt(on, tag) == IF on THEN <<tag>> ELSE <<>>
  IN <<DkTag("v", <<sig.v>>, 0), DkTag("a", <<IF sig.alg = "nil" THEN "rsa-sha256" ELSE sig.alg>>, 0), DkTag("d", sig.sdid, 0),
       DkTag("s", <<sig.sel>>, 0), DkTag("h", sig.headers, 0), DkTag("bh", <<>>, 0), DkTag("b", <<>>, 0)>>
     \o opt(sig.t > 0, DkTag("t", <<>>, sig.t)) \o opt(sig.x > 0, DkTag("x", <<>>, sig.x))
     \o opt(sig.ch # "nil", DkTag("c", IF sig.cb = "nil" THEN <<sig.ch>> ELSE <<sig.ch, sig.cb>>, 0))
     \o opt(sig.z # <<>>, DkTag("z", sig.z, 0)) \o opt(sig.auid # <<>>, DkTag("i", sig.auid, 0))
     \o opt(sig.l >= 0, DkTag("l", <<>>, sig.l)) \o opt(sig.q # "nil", DkTag("q", <<sig.q>>, 0))

\* validateTime: an hour of grace, and only a signature that says when it was made expires.
DkValidTime(sig, now) == sig.t = 0 \/ sig.x = 0 \/ (sig.x >= sig.t /\ now - 1 <= sig.x)
DkValidHeaders(sig) == "from" \in Range(sig.headers)
\* validateAUID; the AUID is its text before the @ and the characters of its domain.
DkValidAUID(sig) == sig.auid = <<>> \/ (Len(sig.auid) > 1 /\ IsSuffix(sig.sdid, Tail(sig.auid)))
\* setQueryMethods: each method of the list replaces the one before, an unknown one resets it.
DkQueryMethods(methods) ==
  FoldLeft(LAMBDA q, m : IF m = "" THEN q ELSE IF m \in {"dns", "dns/txt"} THEN "dns/txt" ELSE "nil", "nil", methods)
DkCanons == {"simple", "relaxed"}
\* Mutant of DkUnpackCanons: the second name is not read.
DkUnpackCanonsOne(v) == <<v[1], "nil">>
\* unpackCanons: one name is the header's.
DkUnpackCanons(v) == <<v[1], IF Len(v) = 2 THEN v[2] ELSE "nil">>

\* Signature.set, for a field with hashes bh and b.
DkSet(sig, tag, bh, b) ==
  CASE tag.key = "v" -> [sig EXCEPT !.v = tag.v[1]]
    [] tag.key = "a" -> [sig EXCEPT !.alg = tag.v[1]]
    [] tag.key = "d" -> [sig EXCEPT !.sdid = tag.v]
    [] tag.key = "s" -> [sig EXCEPT !.sel = tag.v[1]]
    [] tag.key = "h" -> [sig EXCEPT !.headers = @ \o tag.v]
    [] tag.key = "bh" -> [sig EXCEPT !.bh = bh]
    [] tag.key = "b" -> [sig EXCEPT !.b = b]
    [] tag.key = "t" -> [sig EXCEPT !.t = tag.n]
    [] tag.key = "x" -> [sig EXCEPT !.x = tag.n]
    [] tag.key = "c" -> [sig EXCEPT !.ch = DkUnpackCanons(tag.v)[1], !.cb = DkUnpackCanons(tag.v)[2]]
    [] tag.key = "z" -> [sig EXCEPT !.z = tag.v]
    [] tag.key = "i" -> [sig EXCEPT !.auid = tag.v]
    [] tag.key = "l" -> [sig EXCEPT !.l = tag.n]
    [] tag.key = "q" -> [sig EXCEPT !.q = DkQueryMethods(tag.v)]
    [] OTHER -> sig
DkSetOk(sig, tag, now) ==
  CASE tag.key = "v" -> sig.v = "1"
    [] tag.key = "a" -> sig.alg \in {"rsa-sha256", "rsa-sha1"}
    [] tag.key = "d" -> sig.sdid # <<>>
    [] tag.key = "s" -> sig.sel # ""
    [] tag.key = "h" -> sig.headers # <<>> /\ DkValidHeaders(sig)
    [] tag.key = "bh" -> sig.bh # DkNoHash
    [] tag.key = "b" -> sig.b # DkNoSign
    [] tag.key \in {"t", "x"} -> DkValidTime(sig, now)
    [] tag.key = "c" -> Len(tag.v) <= 2 /\ Range(tag.v) \subseteq DkCanons
    [] tag.key = "i" -> DkValidAUID(sig)
    [] OTHER -> TRUE
\* Parse: tags one by one; a tag that is known and comes twice, or has a bad value, ends it.
DkParse(f, now) ==
  LET step(st, tag) ==
        LET sig == DkSet(st.sig, tag, f.bh, f.b)
        IN IF ~st.ok THEN st
           ELSE IF DkDuplicate(st.seen, tag) THEN [st EXCEPT !.ok = FALSE]
           ELSE [sig |-> sig, seen |-> st.seen \cup {tag.key}, ok |-> DkSetOk(sig, tag, now)]
  IN FoldLeft(step, [sig |-> DkSignature, seen |-> {}, ok |-> TRUE], f.tags)
DkValidate(sig, now) ==
  /\ sig.v = "1" /\ sig.alg # "nil" /\ sig.sdid # <<>> /\ sig.sel # "" /\ sig.headers # <<>> /\ DkValidHeaders(sig)
  /\ sig.bh # DkNoHash /\ sig.b # DkNoSign /\ DkValidTime(sig, now) /\ DkValidAUID(sig)

-----------------------------------------------------------------------------
(* Headers, bodies and their canonical forms.                              *)
DkField(name, val, form) == [name |-> name, val |-> val, form |-> form, tags |-> <<>>, bh |-> DkNoHash, b |-> DkNoSign]
\* The relaxed form of a field keeps no spacing; Pack ends in a blank unless q= comes last, and a parsed field does not.
DkText(f, canon) ==
  [name |-> f.name, val |-> f.val,
   form |-> IF canon # "relaxed" THEN f.form ELSE IF f.form = "packed" /\ ~DkHas(f.tags, "q") THEN "blank" ELSE ""]
\* popByName takes every field of the name out, and returns the one nearest the top.
DkPop(fields, name) ==
  LET at == {i \in DOMAIN fields : fields[i].name = name}
  IN [field |-> IF at = {} THEN <<>> ELSE <<fields[Min(at)]>>, rest |-> SelectSeq(fields, LAMBDA f : f.name # name)]
\* Mutant of DkSigned: the fields are those at the bottom, and their values are not looked at.
DkSignedNames(fields, names, canon) == SelectSeq([i \in DOMAIN names |-> [name |-> names[i], val |-> "", form |-> ""]], LAMBDA t : \E i \in DOMAIN fields : fields[i].name = t.name)
\* The fields the signature covers, in the order of h=.
DkSigned(fields, names, canon) ==
  FoldLeft(LAMBDA st, name : LET pop == DkPop(st.rest, name)
                             IN [rest |-> pop.rest, out |-> st.out \o [i \in DOMAIN pop.field |-> DkText(pop.field[i], canon)]],
           [rest |-> fields, out |-> <<>>], names).out
\* CanonHeader: those fields, then the signature without its b=.
DkCanonHeader(sig, fields, f, gen) ==
  LET canon == IF sig.ch = "nil" THEN "simple" ELSE sig.ch
  IN [gen |-> gen, alg |-> sig.alg, fields |-> DkSigned(fields, sig.headers, canon), tags |-> f.tags, bh |-> f.bh, form |-> DkText(f, canon).form]
\* CanonBody, of the first l= blocks; 0 leaves the body out.
DkCanonBody(sig, body) ==
  [alg |-> sig.alg, blocks |-> [i \in 1..(IF sig.l < 0 THEN Len(body) ELSE sig.l) |->
                                  IF sig.cb = "relaxed" THEN [body[i] EXCEPT !.form = ""] ELSE body[i]]]

DkDraft == <<DkField("to", "v1", "raw"), DkField("from", "v1", "raw"), DkField("to", "v2", "raw")>>
DkBody == <<[v |-> "l1", form |-> "raw"], [v |-> "l2", form |-> "raw"]>>
DkNoKey == [p |-> 0, v |-> <<>>, k |-> <<>>, h |-> <<>>, n |-> <<>>, s |-> <<>>, t |-> <<>>, exp |-> -1]
DkInit == /\ dkMsg = [m \in DkMsgs |-> [header |-> DkDraft, body |-> DkBody, status |-> "none", ret |-> "none", sig |-> DkSignature,
                                        pc |-> "idle", key |-> DkNoKey, used |-> -1, steps |-> 0]]
          /\ dkOrg = [m \in DkMsgs |-> [sig |-> DkSignature, gen |-> 0, fields |-> <<>>, body |-> <<>>, clean |-> FALSE]]
          /\ dkPool = DkNoKey /\ dkZone = <<DkTag("p", <<>>, 1)>> /\ dkLast = [g \in 1..2 |-> IF g = 1 THEN 0 ELSE -1]
          /\ dkGot = [gen |-> 0, at |-> 0, late |-> FALSE] /\ dkClock = 0

-----------------------------------------------------------------------------
(* Keys.                                                                   *)
\* Key.set: p= must hold a key; a list of unknown hash algorithms stands for all of them; flags are kept once.
DkKeySet(key, tag) ==
  CASE tag.key = "p" -> [key EXCEPT !.p = tag.n]
    [] tag.key = "v" -> [key EXCEPT !.v = tag.v]
    [] tag.key = "h" -> LET known == SelectSeq(tag.v, LAMBDA a : a \in {"sha1", "sha256"}) IN [key EXCEPT !.h = IF known = <<>> THEN <<"all">> ELSE known]
    [] tag.key = "k" -> [key EXCEPT !.k = SelectSeq(tag.v, LAMBDA a : a = "rsa")]
    [] tag.key = "n" -> [key EXCEPT !.n = tag.v]
    [] tag.key = "s" -> [key EXCEPT !.s = tag.v]
    [] tag.key = "t" -> [key EXCEPT !.t = FoldLeft(LAMBDA out, a : IF a \in {"y", "s"} /\ a \notin Range(out) THEN Append(out, a) ELSE out, <<>>, tag.v)]
    [] OTHER -> key
\* ParseTXT: the key expires with the record, counted from here.
DkParseTXT(txt, now) ==
  LET step(st, tag) == IF ~st.ok \/ DkDuplicate(st.seen, tag) \/ (tag.key = "p" /\ tag.n = 0) THEN [st EXCEPT !.ok = FALSE]
                       ELSE [key |-> DkKeySet(st.key, tag), seen |-> st.seen \cup {tag.key}, ok |-> TRUE]
  IN FoldLeft(step, [key |-> [DkNoKey EXCEPT !.exp = now + DkTTL], seen |-> {}, ok |-> TRUE], txt)
\* Mutant of DkKeyPack: the list of all hash algorithms is left out.
DkKeyPackAll(key) ==
  LET opt(on, tag) == IF on THEN <<tag>> ELSE <<>>
  IN opt(key.v # <<>>, DkTag("v", key.v, 0)) \o opt(key.p # 0, DkTag("p", <<>>, key.p)) \o opt(key.k # <<>>, DkTag("k", key.k, 0))
     \o opt(key.h \notin {<<>>, <<"all">>}, DkTag("h", key.h, 0)) \o opt(key.n # <<>>, DkTag("n", key.n, 0))
     \o opt(key.s # <<>>, DkTag("s", key.s, 0)) \o opt(key.t # <<>>, DkTag("t", key.t, 0))
DkKeyPack(key) ==
  LET opt(on, tag) == IF on THEN <<tag>> ELSE <<>>
  IN opt(key.v # <<>>, DkTag("v", key.v, 0)) \o opt(key.p # 0, DkTag("p", <<>>, key.p)) \o opt(key.k # <<>>, DkTag("k", key.k, 0))
     \o opt(key.h # <<>>, DkTag("h", IF key.h = <<"all">> THEN <<>> ELSE key.h, 0)) \o opt(key.n # <<>>, DkTag("n", key.n, 0))
     \o opt(key.s # <<>>, DkTag("s", key.s, 0)) \o opt(key.t # <<>>, DkTag("t", key.t, 0))
DkExpired(key) == key.exp < dkClock

-----------------------------------------------------------------------------
(* The sender, and what happens to a message on its way.                   *)
DkMsgIs(m, msg) == dkMsg' = [dkMsg EXCEPT ![m] = msg]
DkMaySteps(m) == dkMsg[m].pc = "idle" /\ dkMsg[m].steps < DkMaxSteps

\* DKIMSign, with private key gen: defaults, h= of all fields when it is empty, Validate, the hashes, and the field on top.
DkSign(m, template, gen) ==
  LET msg == dkMsg[m]
      named == [template EXCEPT !.headers = IF @ = <<>> THEN [i \in DOMAIN msg.header |-> msg.header[i].name] ELSE @]
      filled == DkSetDefault(named)
      sig == [filled EXCEPT !.bh = DkCanonBody(filled, msg.body)]
      unsigned == [DkField("dkim-signature", IF DkHas(msg.header[1].tags, "v") THEN "sig2" ELSE "sig1", "packed") EXCEPT !.tags = DkPack(sig), !.bh = sig.bh]
      b == DkCanonHeader(sig, msg.header, unsigned, gen)
      dummy == [filled EXCEPT !.bh.alg = "dummy", !.b.gen = -1]
  IN /\ DkMaySteps(m) /\ DkValidate(dummy, dkClock) /\ msg.status = "none" /\ template.l <= Len(msg.body)
     /\ DkMsgIs(m, [msg EXCEPT !.header = <<[unsigned EXCEPT !.b = b]>> \o @, !.steps = @ + 1])
     /\ dkOrg' = [dkOrg EXCEPT ![m] = [sig |-> [sig EXCEPT !.b = b], gen |-> gen, fields |-> msg.header, body |-> msg.body, clean |-> gen # 0]]
     /\ UNCHANGED <<dkPool, dkZone, dkLast, dkGot, dkClock>>

\* String and ParseMessage: fields in relaxed form, and the body behind an empty line of its own.
DkSend(m) ==
  LET msg == dkMsg[m]
      sent(f) == [f EXCEPT !.form = "sent"]
  IN /\ DkMaySteps(m) /\ DkMsgIs(m, [msg EXCEPT !.header = [i \in DOMAIN @ |-> sent(@[i])], !.body = <<[v |-> "", form |-> "raw"]>> \o @,
                                                !.status = "none", !.ret = "none", !.steps = @ + 1])
     /\ dkOrg' = [dkOrg EXCEPT ![m].clean = FALSE] /\ UNCHANGED <<dkPool, dkZone, dkLast, dkGot, dkClock>>

\* A relay adds a field on top, or changes a field or a block of the body: its value or only its spacing.
DkAlter(m) ==
  LET msg == dkMsg[m]
      new == [DkField("to", "v3", "raw") EXCEPT !.name = "received"]
  IN /\ DkMaySteps(m) /\ msg.status = "none"
     /\ \/ DkMsgIs(m, [msg EXCEPT !.header = <<new>> \o @, !.steps = @ + 1]) /\ UNCHANGED dkOrg
        \/ \E i \in DOMAIN msg.header, space \in BOOLEAN :
             /\ DkMsgIs(m, [msg EXCEPT !.header[i] = IF space THEN [@ EXCEPT !.form = "folded"] ELSE [@ EXCEPT !.val = "v9"], !.steps = @ + 1])
             /\ dkOrg' = [dkOrg EXCEPT ![m].clean = FALSE]
        \/ \E i \in DOMAIN msg.body, space \in BOOLEAN :
             /\ DkMsgIs(m, [msg EXCEPT !.body[i] = IF space THEN [@ EXCEPT !.form = "folded"] ELSE [@ EXCEPT !.v = "l9"], !.steps = @ + 1])
             /\ dkOrg' = [dkOrg EXCEPT ![m].clean = FALSE]
     /\ UNCHANGED <<dkPool, dkZone, dkLast, dkGot, dkClock>>

-----------------------------------------------------------------------------
(* The verifier.                                                           *)
DkReturn(m, msg, status, ret) == DkMsgIs(m, [msg EXCEPT !.status = status, !.ret = ret, !.pc = "idle", !.key = DkNoKey])
DkUsed(msg, gen) == [msg EXCEPT !.used = gen]
\* The part of DKIMVerify after it has the key; the bodies are never shorter than l=, where the slice would panic.
DkCheck(m, msg, key) ==
  LET sub == SubSeq(msg.header, SelectInSeq(msg.header, LAMBDA h : h.name = "dkim-signature"), Len(msg.header))
      sig == msg.sig
      text == DkCanonHeader(sig, sub, Head(sub), key.p)
  IN IF sig.bh # DkCanonBody(sig, msg.body) THEN DkReturn(m, DkUsed(msg, key.p), "permfail", "nil")
     ELSE IF key.p = 0 \/ sig.b # text THEN DkReturn(m, DkUsed(msg, key.p), "permfail", "permfail")
     ELSE DkReturn(m, DkUsed(msg, key.p), "ok", "ok")

\* DKIMVerify up to KeyPool.Get, which returns a cached key or goes to look it up.
\* Mutant of DkVerify: a message that was verified is verified again.
DkVerifyAgain(m) ==
  LET msg == dkMsg[m]
      at == SelectInSeq(msg.header, LAMBDA h : h.name = "dkim-signature")
      parsed == DkParse(msg.header[at], dkClock)
  IN /\ msg.pc = "idle" /\ msg.steps > 0 /\ UNCHANGED <<dkOrg, dkPool, dkZone, dkLast, dkClock>>
     /\ IF at = 0 THEN DkReturn(m, msg, "nosignature", "nosignature") /\ UNCHANGED dkGot
        ELSE IF ~parsed.ok \/ ~DkValidate(parsed.sig, dkClock) THEN DkReturn(m, msg, "permfail", "permfail") /\ UNCHANGED dkGot
        ELSE DkMsgIs(m, [msg EXCEPT !.status = "unverify", !.sig = parsed.sig, !.pc = "lookup"]) /\ UNCHANGED dkGot
DkVerify(m) ==
  LET msg == dkMsg[m]
      at == SelectInSeq(msg.header, LAMBDA h : h.name = "dkim-signature")
      parsed == DkParse(msg.header[at], dkClock)
      hasFrom == \E i \in at..Len(msg.header) : msg.header[i].name = "from"
      begun == [msg EXCEPT !.status = "unverify", !.sig = parsed.sig]
  IN /\ msg.pc = "idle" /\ msg.steps > 0 /\ UNCHANGED <<dkOrg, dkPool, dkZone, dkLast, dkClock>>
     /\ IF msg.status \in {"nosignature", "ok", "permfail"} THEN msg.ret # msg.status /\ DkReturn(m, msg, msg.status, msg.status) /\ UNCHANGED dkGot
        ELSE IF at = 0 THEN DkReturn(m, msg, "nosignature", "nosignature") /\ UNCHANGED dkGot
        ELSE IF ~parsed.ok \/ ~DkValidate(parsed.sig, dkClock) \/ ~hasFrom THEN DkReturn(m, msg, "permfail", "permfail") /\ UNCHANGED dkGot
        ELSE IF dkPool # DkNoKey /\ ~DkExpired(dkPool) THEN dkGot' = [gen |-> dkPool.p, at |-> dkClock, late |-> FALSE] /\ DkCheck(m, begun, dkPool)
        ELSE DkMsgIs(m, [begun EXCEPT !.pc = "lookup"]) /\ UNCHANGED dkGot
\* LookupKey: a timeout is a failure for now, any other error or a bad record one for good.
DkLookup(m) ==
  LET msg == dkMsg[m]
      parsed == DkParseTXT(dkZone, dkClock)
  IN /\ msg.pc = "lookup" /\ UNCHANGED <<dkOrg, dkPool, dkZone, dkLast, dkGot, dkClock>>
     /\ \/ DkReturn(m, msg, "tempfail", "tempfail")
        \/ (dkZone = <<>> \/ ~parsed.ok) /\ DkReturn(m, DkUsed(msg, 0), "permfail", "permfail")
        \/ dkZone # <<>> /\ parsed.ok /\ DkMsgIs(m, [msg EXCEPT !.pc = "put", !.key = parsed.key])
\* Mutant of DkPooled: the time to live counts from when the key is put into the pool.
DkPooledNow(key) == [key EXCEPT !.exp = dkClock + DkTTL]
DkPooled(key) == key
\* KeyPool.Put, whatever the pool holds by then; Get returns the key that it looked up without testing its expiry.
DkPut(m) ==
  LET key == dkMsg[m].key
  IN /\ dkMsg[m].pc = "put" /\ dkPool' = DkPooled(key) /\ DkCheck(m, dkMsg[m], key)
     /\ dkGot' = [gen |-> key.p, at |-> dkClock, late |-> DkExpired(key)]
     /\ UNCHANGED <<dkOrg, dkZone, dkLast, dkClock>>

DkClear == dkPool # DkNoKey /\ dkPool' = DkNoKey /\ UNCHANGED <<dkMsg, dkOrg, dkZone, dkLast, dkGot, dkClock>>
DkPublished(zone, g) == \E i \in DOMAIN zone : zone[i].key = "p" /\ zone[i].n = g
DkPublish == \E zone \in DkZones :
  /\ zone # dkZone /\ dkZone' = zone /\ dkLast' = [g \in DOMAIN dkLast |-> IF DkPublished(zone, g) THEN dkClock ELSE dkLast[g]]
  /\ UNCHANGED <<dkMsg, dkOrg, dkPool, dkGot, dkClock>>
DkTick == /\ dkClock < DkMaxClock /\ dkClock' = dkClock + 1
          /\ dkLast' = [g \in DOMAIN dkLast |-> IF DkPublished(dkZone, g) THEN dkClock + 1 ELSE dkLast[g]]
          /\ UNCHANGED <<dkMsg, dkOrg, dkPool, dkZone, dkGot>>

DkStep(m) == \/ \E s \in DkSignatures, gen \in 1..2 : DkSign(m, s, gen)
             \/ DkSend(m) \/ DkAlter(m) \/ DkVerify(m) \/ DkLookup(m) \/ DkPut(m)
DkNext == (\E m \in DkMsgs : DkStep(m)) \/ DkClear \/ DkPublish \/ DkTick
DkSpec == DkInit /\ [][DkNext]_dkVars

-----------------------------------------------------------------------------
DkTypeOK == /\ dkClock \in 0..DkMaxClock /\ dkPool.p \in 0..2
            /\ \A m \in DkMsgs : /\ dkMsg[m].status \in {"none", "unverify", "nosignature", "ok", "tempfail", "permfail"}
                                 /\ dkMsg[m].pc \in {"idle", "lookup", "put"} /\ dkMsg[m].steps \in 0..DkMaxSteps
                                 /\ dkMsg[m].used \in -1..2

(* A message is found to be signed only if the first blocks of its body,   *)
(* and the field nearest the top of each name its signature lists, are the *)
(* ones that were signed, up to the spacing that the relaxed form ignores. *)
DkNoFalseAccept == \A m \in DkMsgs : dkMsg[m].status = "ok" =>
  LET org == dkOrg[m]
      sig == org.sig
      below == SubSeq(dkMsg[m].header, SelectInSeq(dkMsg[m].header, LAMBDA h : h.name = "dkim-signature") + 1, Len(dkMsg[m].header))
      top(fields, name) == SelectInSeq(fields, LAMBDA h : h.name = name)
      same(new, old) == new.val = old.val /\ (sig.ch = "relaxed" \/ new.form = old.form)
      sameBlock(new, old) == new.v = old.v /\ (sig.cb = "relaxed" \/ new.form = old.form)
  IN /\ \A name \in Range(sig.headers) :
          IF top(org.fields, name) = 0 THEN top(below, name) = 0
          ELSE top(below, name) # 0 /\ same(below[top(below, name)], org.fields[top(org.fields, name)])
     /\ IF sig.l < 0 THEN Len(dkMsg[m].body) = Len(org.body) ELSE TRUE
     /\ \A i \in 1..(IF sig.l < 0 THEN Len(org.body) ELSE sig.l) : sameBlock(dkMsg[m].body[i], org.body[i])

(* A message that was signed once, and is verified as it was signed but    *)
(* for fields added on top, is refused for good only when its signature    *)
(* has expired, or when the key found for it in the pool or in the zone    *)
(* was not its own, or none was found there.                               *)
DkNoFalseReject == \A m \in DkMsgs : dkMsg[m].status = "permfail" /\ dkOrg[m].clean /\ "dkim-signature" \notin Range(dkOrg[m].sig.headers) =>
  \/ ~DkValidTime(dkOrg[m].sig, dkClock)
  \/ dkMsg[m].used \notin {-1, dkOrg[m].gen}

(* A key that Get returns, when it returns it, has been withdrawn by the   *)
(* domain for no longer than its time to live, although lookups of several *)
(* goroutines may finish in any order and the last one to finish fills the *)
(* pool, with an older key than it held perhaps.  The exception is a Get   *)
(* that was kept between its lookup and its return until the key expired,  *)
(* which it does not test: that key too is in the pool, but no other Get   *)
(* returns it.                                                             *)
DkFresh == dkGot.gen # 0 /\ ~dkGot.late => dkGot.at <= dkLast[dkGot.gen] + DkTTL

\* The same without the exception, which the code does not do.
DkFreshAlways == dkGot.gen # 0 => dkGot.at <= dkLast[dkGot.gen] + DkTTL

(* A verdict other than a failure for now is never changed by verifying    *)
(* the message again.                                                      *)
DkSettled == [][\A m \in DkMsgs : dkMsg[m].status \in {"ok", "permfail", "nosignature"} /\ dkMsg'[m].header = dkMsg[m].header /\ dkMsg'[m].body = dkMsg[m].body
                  => dkMsg'[m].status = dkMsg[m].status]_dkVars

(* The key in the pool packs into a record that parses into the key.       *)
DkKeyRoundTrip == dkPool # DkNoKey => DkParseTXT(DkKeyPack(dkPool), dkPool.exp - DkTTL) = [DkParseTXT(DkKeyPack(dkPool), 0) EXCEPT !.key = dkPool]

\* DKIMVerify "verify the message signature": the status is returned with the verdict.
DkStatusReturned == \A m \in DkMsgs : dkMsg[m].status = "permfail" => dkMsg[m].ret # "nil"
\* Message.String: "return the text representation of Message object".
DkSentVerifies == \A m \in DkMsgs : dkMsg[m].status = "permfail" => \E i \in DOMAIN dkMsg[m].header : dkMsg[m].header[i].form # "sent"
=============================================================================
