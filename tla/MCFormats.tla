------------------------------ MODULE MCFormats ------------------------------
(***************************************************************************)
(* Readers, writers and tables of data in one run: DNS messages, zone and  *)
(* hosts files, ini, canonical and signed mail, dsv, tabula, hunspell, the *)
(* text comparison and the sorts.  The components below do not share       *)
(* state: a behaviour picks one of them and stays with it.                 *)
(***************************************************************************)
EXTENDS MasterFile, Hosts, Ini, IniReader, DnsMessage, TextDiff, Tabula, Dsv, Sorts, EmailCanon, Dkim, Hunspell

CONSTANTS Parts
VARIABLE part

\* A zone file: records with and without owner, TTL and class, and the directives.
Word(s) == [kind |-> "word", value |-> s]
Number(n) == [kind |-> "ttl", value |-> n]
RR(owner, toks, words) == [kind |-> "rr", owner |-> owner, toks |-> toks, words |-> words, ends |-> "newline"]
Include(name, ends) == [kind |-> "include", name |-> name, ends |-> ends]
MzLinesDef ==
  {RR("n", <<Word("A")>>, <<"name">>), RR("", <<Word("A")>>, <<"name">>),
   RR("@", <<Number(60), Word("CH"), Word("NS")>>, <<"name">>), RR("abs.", <<Word("CH"), Number(900), Word("A")>>, <<"name">>),
   RR("", <<Word("IN"), Word("SOA")>>, MzSoaWords), RR("", <<Word("IN"), Word("SOA")>>, MzSoaPlain),
   RR("", <<Word("MX")>>, <<"num", "name">>), RR("", <<Word("CH"), Word("SRV")>>, MzSrvWords),
   RR("n", <<Number(60), Number(60), Word("A")>>, <<"name">>), RR("n", <<Word("TXT")>>, MzTxtWord),
   RR("n", <<Word("TXT")>>, MzTxtWords), [kind |-> "origin", name |-> <<"sub", "zone">>, ends |-> "newline"],
   [kind |-> "ttl", value |-> 500, ends |-> "newline"], [kind |-> "ttl", value |-> 40, ends |-> "comment"],
   Include(<<>>, "comment"), Include(MzZone, "comment"), Include(<<>>, "newline")}

\* Ini files with sections and keys that come twice, and the structs to marshal.
IniLowerDef == [k |-> "k", K |-> "k"]
Sect(sub, vars) == IniSection("s", sub, vars)
IniFilesDef ==
  {<<Sect("x", <<IniVariable("k", "1"), IniVariable("k", "2")>>), Sect("x", <<IniVariable("k", "1")>>)>>,
   <<IniSection("", "", <<IniVariable("", "")>>), Sect("x", <<IniVariable("k", "2"), IniVariable("", "")>>),
     Sect("", <<IniVariable("K", "1"), IniVariable("k", "2")>>)>>,
   <<Sect("x", <<IniVariable("k", "2")>>), Sect("x", <<IniVariable("k", "1")>>)>>}
FieldOf(kind, sub, key, vals) == [kind |-> kind, sub |-> sub, key |-> key, vals |-> vals]
IniStructsDef ==
  {<<FieldOf("string", "", "k", <<"1">>), FieldOf("slice", "x", "k", <<"1", "2", "1">>), FieldOf("slice", "", "j", <<"2", "1">>)>>,
   <<FieldOf("string", "x", "K", <<"">>), FieldOf("nilptr", "x", "j", <<"">>), FieldOf("slice", "", "k", <<"1", "2">>)>>}

\* DNS names are sequences of labels; the records share suffixes, so that pointers are written.
Rec(kind, name, names, ttl) == [kind |-> kind, name |-> name, names |-> names, ttl |-> ttl]
DmQuestionsDef == {<<97, 98>>, <<99>>}
DmRecordsDef ==
  {Rec("A", <<97, 98>>, <<>>, 60), Rec("NS", <<98>>, <<<<99, 98>>>>, 60), Rec("MX", <<99, 97, 98>>, <<<<97, 98>>>>, 300),
   Rec("SRV", <<99>>, <<<<99, 97, 98>>>>, 60), Rec("MINFO", <<97, 98>>, <<<<98>>, <<97, 99>>>>, 90),
   Rec("SOA", <<98>>, <<<<97, 98>>, <<99, 98>>>>, 60), Rec("AAAA", <<97, 98>>, <<>>, 60), Rec("TXT", <<98>>, <<>>, 60),
   Rec("OPT", <<>>, <<>>, 0), Rec("NS", <<>>, <<<<97>>>>, 60), Rec("NS", <<97, 98>>, <<<<99, 98, DmDot>>>>, 60)}

DfSimilarDef == {<<"a", "a2">>, <<"a2", "a">>}

TaRowsDef == {<<1, 1>>, <<2, 2>>}
TaTypesDef == <<"number", "string">>
TaNamesDef == <<"k", "c">>

\* Columns with quotes, without, skipped, and numbers; values and files with quotes, separators and line ends.
Meta(quoted, sep, skip, number) == [quoted |-> quoted, sep |-> sep, skip |-> skip, number |-> number]
DvMetasDef ==
  {<<Meta(TRUE, TRUE, FALSE, FALSE), Meta(TRUE, FALSE, FALSE, FALSE)>>, <<Meta(FALSE, TRUE, FALSE, TRUE), Meta(FALSE, FALSE, FALSE, FALSE)>>,
   <<Meta(FALSE, TRUE, TRUE, FALSE), Meta(FALSE, TRUE, FALSE, FALSE)>>, <<Meta(TRUE, TRUE, FALSE, FALSE), Meta(FALSE, FALSE, FALSE, TRUE)>>}
DvValuesDef == {<<>>, <<"x">>, <<"q", "s">>, <<"b", "q">>, <<"x", "n", "b">>, <<"s", "b">>}
DvFilesDef == BoundedSeq({"x", "q", "s", "n", "_"}, 4) \cup {a \o <<"n">> : a \in BoundedSeq({"x", "q", "s", "n"}, 5)}

\* Affix files: scalars and tables, or classes with their rules, and then a dictionary.
Flag(n, list) == [n |-> n, list |-> list]
Morph(key, n) == [key |-> key, n |-> n]
Opt(o, argc, n) == [opt |-> o, argc |-> argc, n |-> n]
FlagType(t) == [opt |-> "FLAG", argc |-> 1, n |-> -1, type |-> t]
Row(o, argc, n, item) == [opt |-> o, argc |-> argc, n |-> n, good |-> TRUE, item |-> item]
Class(o, f, cross) == [opt |-> o, flag |-> f, argc |-> 3, n |-> 1, cross |-> cross, strip |-> "Y", add |-> <<"1">>, cond |-> ".",
                       flags |-> HuNoFlags, morphs |-> <<>>]
Rule(o, f, strip, add, cond, flags, morphs) ==
  [opt |-> o, flag |-> f, argc |-> 4, n |-> -1, cross |-> FALSE, strip |-> strip, add |-> add, cond |-> cond,
   flags |-> flags, morphs |-> morphs]
TableLines ==
  {Opt("MAXDIFF", 1, 12), Opt("WARN", 2, -1), Opt("COMPLEXPREFIXES", 0, -1), Opt("COMPOUNDSYLLABLE", 2, 3), Opt("PHONE", 0, -1),
   FlagType("zz"), Row("REP", 1, 2, "r"), Row("REP", 2, -1, "r1"), Row("MAP", 1, 0, "m0"), Row("MAP", 1, 1, "m1"),
   Row("MAP", 1, -1, "mx"), Row("OCONV", 1, 1, "o"), Row("OCONV", 2, -1, "o1"), Row("ICONV", 1, 3, "i"), Row("ICONV", 2, 7, "i7"),
   Row("CHECKCOMPOUNDPATTERN", 1, 1, "c")}
Classes == {Class("SFX", "A", TRUE), Class("SFX", "B", FALSE), Class("PFX", "B", TRUE)}
AffixLines == Classes \cup
  {FlagType("num"), FlagType("long"), Class("SFX", "AB", TRUE), Rule("SFX", "AB", "0", <<"s">>, ".", HuNoFlags, <<>>), Row("AF", 1, 2, Flag(2, <<"2">>)), Row("AF", 1, -1, Flag(-1, <<"A", "B">>)),
   Row("AM", 1, 1, <<Morph("po", 7)>>), Row("AM", 2, -1, <<Morph("po", 3), Morph("is", 3)>>),
   Class("SFX", "A", FALSE), Class("PFX", "1", TRUE),
   Rule("SFX", "A", "0", <<"s">>, "a", HuNoFlags, <<Morph("is", 1)>>),
   Rule("SFX", "A", "a", <<"b">>, ".", Flag(-1, <<"B">>), <<Morph("", 1)>>),
   Rule("SFX", "B", "0", <<"s">>, ".", HuNoFlags, <<Morph("po", 2)>>),
   Rule("PFX", "B", "0", <<"u">>, ".", HuNoFlags, <<Morph("po", 9)>>),
   Rule("PFX", "B", "0", <<"u">>, ".", Flag(-1, <<"B">>), <<>>),
   Rule("PFX", "1", "a", <<"u">>, "a", Flag(1, <<"1">>), <<>>)}
HuLinesDef == TableLines \cup AffixLines
Entry(word, flags, morphs, forbidden) == [kind |-> "ok", word |-> word, flags |-> flags, morphs |-> morphs, forbidden |-> forbidden]
HuWordsDef ==
  {Entry(<<"a">>, Flag(-1, <<"A", "B">>), <<Morph("po", 1)>>, FALSE), Entry(<<"a">>, Flag(1, <<"1">>), <<Morph("", 1)>>, FALSE),
   Entry(<<"a", "s">>, HuNoFlags, <<>>, TRUE), Entry(<<"b">>, Flag(-1, <<"B">>), <<Morph("", 2)>>, FALSE),
   [Entry(<<>>, HuNoFlags, <<>>, FALSE) EXCEPT !.kind = "bad"], [Entry(<<>>, HuNoFlags, <<>>, FALSE) EXCEPT !.kind = "number"]}
HuPart ==
  /\ HuNext
  /\ Len(huRead') > Len(huRead) =>
       \/ Range(huRead') \subseteq TableLines /\ Len(huRead') <= 3
       \/ Range(huRead') \subseteq AffixLines /\ Last(huRead') \notin Range(huRead)
  /\ Len(huRead') = 5 => {huRead[1], huRead[2]} \subseteq Classes /\ huFlag = "ascii"
  /\ huPc' = "dic" => Range(huRead) \subseteq AffixLines
  /\ Len(huRoots') = 2 => Len(huRead) <= 3

\* Signatures: as NewSignature makes them, with both canonicalizations simple, and with a length and times.
DkPlain == [DkSignature EXCEPT !.sdid = <<"e">>, !.sel = "s"]
DkSignaturesDef ==
  {DkPlain,
   [DkPlain EXCEPT !.headers = <<"from", "to">>, !.ch = "simple", !.cb = "simple", !.auid = <<"u", "f", "e">>,
                   !.q = "dns/txt", !.z = <<"z">>],
   [DkPlain EXCEPT !.l = 1, !.t = 1, !.x = 1, !.headers = <<"from", "cc">>, !.alg = "rsa-sha1"]}
DkZonesDef ==
  {<<>>, <<DkTag("p", <<>>, 1)>>, <<DkTag("p", <<>>, 0)>>, <<DkTag("k", <<"rsa">>, 0)>>,
   <<DkTag("v", <<"DKIM1">>, 0), DkTag("p", <<>>, 2), DkTag("h", <<"md5">>, 0), DkTag("t", <<"y", "y", "s">>, 0)>>}
DkEnv == DkClear \/ DkPublish \/ DkTick
\* One message with everything that may happen to it.
DkOne == (DkStep(1) \/ DkEnv) /\ (dkZone' # dkZone => dkClock = 0)
\* Two messages, signed once each, while the key changes.
DkTwo == \/ \E m \in DkMsgs : DkSign(m, DkPlain, 1) /\ dkMsg[m].steps = 0
         \/ \E m \in DkMsgs : DkVerify(m) \/ DkLookup(m) \/ DkPut(m)
         \/ DkEnv /\ (dkZone' # dkZone => DkPublished(dkZone', 2))

MCInit == /\ part \in Parts /\ MzInit /\ HsInit /\ IniInit /\ IrInit /\ DmInit /\ DfInit /\ TaInit /\ DvInit /\ SoInit
          /\ EcInit /\ DkInit /\ HuInit

MCNext ==
  /\ UNCHANGED part
  /\ IF part = "masterfile" THEN MzNext ELSE UNCHANGED mzVars
  /\ IF part = "hosts" THEN HsNext ELSE UNCHANGED hsVars
  /\ IF part = "ini" THEN IniNext ELSE UNCHANGED iniVars
  /\ IF part = "inireader" THEN IrNext ELSE UNCHANGED irVars
  /\ IF part = "dnsmessage" THEN DmNext ELSE UNCHANGED dmVars
  /\ IF part = "diff" THEN DfNext ELSE UNCHANGED dfVars
  /\ IF part = "tabula" THEN taOps < TaMaxOps /\ TaNext ELSE UNCHANGED taVars
  /\ IF part = "dsv" THEN DvNext ELSE UNCHANGED dvVars
  /\ IF part = "sorts" THEN SoNext ELSE UNCHANGED soVars
  /\ IF part = "canon" THEN EcNext ELSE UNCHANGED ecVars
  /\ IF part = "dkimOne" THEN DkOne ELSE IF part = "dkimTwo" THEN DkTwo ELSE UNCHANGED dkVars
  /\ IF part = "hunspell" THEN HuPart ELSE UNCHANGED huVars
MCSpec == MCInit /\ [][MCNext]_<<part, mzVars, hsVars, iniVars, irVars, dmVars, dfVars, taVars, dvVars, soVars, ecVars, dkVars,
                                 huVars>>

(* Every component's variables keep their types.                           *)
FormatsTypeOK == /\ MzTypeOK /\ HsTypeOK /\ IniTypeOK /\ IrTypeOK /\ DmTypeOK /\ DfTypeOK /\ TaTypeOK /\ DvTypeOK
                 /\ SoTypeOK /\ EcTypeOK /\ DkTypeOK /\ HuTypeOK

(* What is written is read back as what it was: structs through ini, ini   *)
(* variables through their text, rows through a dsv file, keys through a   *)
(* TXT record, DNS records and their header through the packet.            *)
FormatsRoundTrip == IniRoundTrip /\ IrRoundTrip /\ DvRoundTrip /\ DkKeyRoundTrip /\ DmDecodes /\ DmHeaderAgrees

(* Zone and hosts files: a record means what RFC 1035 says of its line and *)
(* the lines before it, and is kept with its name's other records; a host  *)
(* has the address of its own line.                                        *)
ZonesRead == MzMeaning /\ MzOneMessage /\ HsOwnLine

(* Ini: a text means what its lines say, each in its own section; what     *)
(* Prune, Subs, Set and Rebase keep of the values that readers get, all of *)
(* a key and its last, and that objects are independent of each other      *)
(* until they share a section.                                             *)
IniRead == IrMeaning /\ IrOwnSection /\ IniReadsKept /\ IniRebased /\ IniApart

(* Data sets: no value is lost, duplicated or moved by reading a file, by  *)
(* splitting a table or by sorting.                                        *)
DataKept == DvAccounted /\ TaMatrixAgrees /\ TaPartition /\ SoSorted /\ SoDistance

(* DKIM: the canonical forms ignore what they must and no more, a changed  *)
(* mail or a key from another time is not accepted, an intact one is not   *)
(* refused.                                                                *)
MailSigned == EcTailIgnored /\ EcFieldStable /\ DkNoFalseAccept /\ DkNoFalseReject /\ DkFresh

(* A verdict on a mail is not taken back while the mail stays as it is,    *)
(* and the comparison of two files always goes forward.                    *)
FormatsSteps == DkSettled /\ DfProgress
=============================================================================
