------------------------------ MODULE Hunspell ------------------------------
(***************************************************************************)
(* lib/hunspell: the affix file, line by line into affixOptions, then the  *)
(* dictionary, stem by stem: its flags unpacked, the affix classes applied *)
(* to it, and the derived words entered.  A word is a sequence of letters, *)
(* all lower case: load enters the upper-case spelling beside each word,   *)
(* with the same stem.  A line comes as its tokens mean: how many follow   *)
(* the option, and the number the first one reads as (-1 for none).        *)
(***************************************************************************)
EXTENDS Integers, Sequences, SequencesExt, FiniteSetsExt, TLC

CONSTANTS HuLines,    \* lines an affix file may hold
          HuWords,    \* lines a dictionary may hold
          HuMaxLines, HuMaxWords, \* bounds: lines of each file
          HuMaxDepth  \* bound: affixes applied one on the other; more is a recursion without end
ASSUME HuAssumption == HuMaxLines \in Nat /\ HuMaxWords \in Nat /\ HuMaxDepth \in Nat \ {0}

VARIABLES huPc,     \* "aff", "dic"
          huErr,    \* "", "error" (load returned one) or "panic"
          huRead, huRoots, \* the lines of both files taken so far
          huFlag, huScalar, \* FLAG, and the options of one value that are set
          huTab,    \* tables: option -> [made |-> its capacity is not 0, items]
          huPfx, huSfx, \* prefixes, suffixes: flag -> [cross, rules]
          huStems   \* dict.stems: word -> stem
huVars == <<huPc, huErr, huRead, huRoots, huFlag, huScalar, huTab, huPfx, huSfx, huStems>>

HuNone == <<>> \* the empty map
HuTables == {"AF", "AM", "REP", "MAP", "BREAK", "COMPOUNDRULE", "CHECKCOMPOUNDPATTERN", "ICONV", "OCONV"}
HuInit == /\ huPc = "aff" /\ huErr = "" /\ huRead = <<>> /\ huRoots = <<>>
          /\ huFlag = "ascii" /\ huScalar = HuNone /\ huTab = [t \in HuTables |-> [made |-> FALSE, items |-> <<>>]]
          /\ huPfx = HuNone /\ huSfx = HuNone /\ huStems = HuNone

HuFail(how) == huErr' = how /\ UNCHANGED <<huFlag, huScalar, huTab, huPfx, huSfx, huStems>>
HuPut(map, key, value) == (key :> value) @@ map

-----------------------------------------------------------------------------
(* Options of one value.                                                   *)
HuBare == {"COMPLEXPREFIXES", "ONLYMAXDIFF", "NOSPLITSUGS", "SUGSWITHDOTS", "FORBIDWARN", "COMPOUNDMORESUFFIXES",
  "CHECKCOMPOUNDDUP", "CHECKCOMPOUNDREP", "CHECKCOMPOUNDCASE", "CHECKCOMPOUNDTRIPLE", "SIMPLIFIEDTRIPLE", "FULLSTRIP", "CHECKSHARPS"}
HuSome == {"LANG", "IGNORE", "KEY", "TRY", "NOSUGGEST", "MAXCPDSUGS", "MAXNGRAMSUGS", "MAXDIFF"}
HuOne == {"WARN", "COMPOUNDMIN", "COMPOUNDFLAG", "COMPOUNDBEGIN", "COMPOUNDLAST", "COMPOUNDMIDDLE", "ONLYINCOMPOUND",
  "COMPOUNDPERMITFLAG", "COMPOUNDFORBIDFLAG", "COMPOUNDROOT", "COMPOUNDWORDMAX", "FORCEUCASE", "SYLLABLENUM", "CIRCUMFIX",
  "FORBIDDENWORD", "KEEPCASE", "LEMMA_PRESENT", "NEEDAFFIX", "PSEUDOROOT", "SUBSTANDARD", "WORDCHARS"}
HuTwo == {"COMPOUNDSYLLABLE"}
HuNumeric == {"MAXCPDSUGS", "MAXNGRAMSUGS", "MAXDIFF", "COMPOUNDMIN", "COMPOUNDWORDMAX", "COMPOUNDSYLLABLE"}

HuArgsOk(line) == /\ line.opt \in HuSome => line.argc >= 1
                  /\ line.opt \in HuOne => line.argc = 1
                  /\ line.opt \in HuTwo => line.argc = 2
                  /\ line.opt \in HuNumeric => line.n >= 0
HuLoadScalar(line) ==
  /\ line.opt \in HuBare \cup HuSome \cup HuOne \cup HuTwo
  /\ IF HuArgsOk(line)
     THEN LET value == IF line.opt = "MAXDIFF" /\ line.n \notin 1..10 THEN 5 ELSE line.n
          IN huScalar' = HuPut(huScalar, line.opt, value) /\ UNCHANGED <<huErr, huFlag, huTab, huPfx, huSfx, huStems>>
     ELSE HuFail("error")

HuFlags == {"ascii", "utf-8", "long", "num"}
HuParseFlag(line) ==
  /\ line.opt = "FLAG"
  /\ IF line.argc # 1 THEN HuFail("error")
     ELSE /\ huFlag' = IF line.type \in HuFlags THEN line.type ELSE huFlag
          /\ UNCHANGED <<huErr, huScalar, huTab, huPfx, huSfx, huStems>>

\* PHONE changes nothing; SET names an encoding that nothing reads.
HuIgnored(line) == line.opt \in {"PHONE", "SET"} /\ UNCHANGED <<huErr, huFlag, huScalar, huTab, huPfx, huSfx, huStems>>

-----------------------------------------------------------------------------
(* Tables: the first line of an option holds the number of its entries.    *)
HuNoFlags == [n |-> -1, list |-> <<>>]
HuRowOk(line, made) ==
  /\ line.opt \in {"AF", "AM", "ICONV", "CHECKCOMPOUNDPATTERN"} => line.argc >= 1
  /\ line.opt \in {"MAP", "BREAK", "COMPOUNDRULE"} => line.argc = 1
  /\ line.opt = "OCONV" => line.argc = 2
  /\ ~made => line.n >= 0 /\ line.opt # "CHECKCOMPOUNDPATTERN" /\ (line.opt = "REP" => line.argc = 1)
  /\ made => line.good /\ (line.opt \in {"REP", "ICONV"} => line.argc = 2)
\* parseAF and parseAM begin with an empty entry, whose append makes the capacity positive.
HuFirst(t) == IF t = "AF" THEN <<HuNoFlags>> ELSE IF t = "AM" THEN << <<>> >> ELSE <<>>
\* Mutant of HuIsCount: the number of entries is tested, not the capacity.
HuIsCountLen(tab) == tab.items = <<>>
HuIsCount(tab) == ~tab.made
HuLoadRow(line) ==
  /\ line.opt \in HuTables
  /\ LET tab == huTab[line.opt]
     IN IF ~HuRowOk(line, ~HuIsCount(tab)) THEN HuFail("error")
        ELSE /\ huTab' = [huTab EXCEPT ![line.opt] =
                  IF HuIsCount(tab) THEN [made |-> line.n > 0 \/ HuFirst(line.opt) # <<>>, items |-> HuFirst(line.opt)]
                  ELSE [tab EXCEPT !.items = Append(@, line.item)]]
             /\ UNCHANGED <<huErr, huFlag, huScalar, huPfx, huSfx, huStems>>

-----------------------------------------------------------------------------
(* Flags and morphemes.  Either may be the number of an alias.             *)
HuNumbers == {"1", "2"}
HuIsValidFlag(flag) == CASE huFlag = "long" -> flag = "AB" [] huFlag = "num" -> flag \in HuNumbers [] OTHER -> flag # "AB"

\* unpackFlags: "" (fine), "error" or "panic" (an index beyond the aliases), and the flags.  A text
\* comes as its characters, numbers between commas as one each; two characters make a long flag.
HuAliased(raw) == Len(huTab["AF"].items) > 1 /\ raw.n >= 0
HuText(raw) == IF HuAliased(raw) THEN huTab["AF"].items[raw.n + 1].list ELSE raw.list
HuList(raw) == IF huFlag = "long" THEN [i \in 1..Len(HuText(raw)) \div 2 |-> HuText(raw)[2 * i - 1] \o HuText(raw)[2 * i]] ELSE HuText(raw)
HuFlagsHow(raw) == IF HuAliased(raw) /\ raw.n >= Len(huTab["AF"].items) THEN "panic"
                   ELSE IF \/ huFlag = "num" /\ (HuText(raw) = <<>> \/ ~(Range(HuText(raw)) \subseteq HuNumbers))
                           \/ huFlag = "long" /\ Len(HuText(raw)) % 2 = 1 THEN "error" ELSE ""

\* newMorphemes: fields [key, value], or [alias] numbers; the last of a key stays.
HuMorphsHow(raws) == IF \E i \in DOMAIN raws : raws[i].key = "" /\ huTab["AM"].items # <<>> /\ raws[i].n >= Len(huTab["AM"].items)
                     THEN "panic" ELSE ""
HuNewMorphemes(raws) ==
  LET fields(raw) == IF raw.key # "" THEN <<raw>>
                     ELSE IF huTab["AM"].items = <<>> THEN <<>> ELSE huTab["AM"].items[raw.n + 1]
  IN FoldLeft(LAMBDA m, f : HuPut(m, f.key, f.n), HuNone, FlattenSeq([i \in DOMAIN raws |-> fields(raws[i])]))

-----------------------------------------------------------------------------
(* Affix classes.  parsePfx and parseSfx: the first line of a flag makes   *)
(* its class, every other line of it is a rule, whatever it looks like.    *)
HuRule(strip, add, cond, subs, morphs) == [strip |-> strip, add |-> add, cond |-> cond, subs |-> subs, morphs |-> morphs]
HuAddRule(line, map) ==
  LET how == IF line.flags = HuNoFlags THEN "" ELSE HuFlagsHow(line.flags)
      subs == HuList(line.flags)
  IN IF HuMorphsHow(line.morphs) # "" \/ how # "" THEN [how |-> IF HuMorphsHow(line.morphs) # "" THEN "panic" ELSE how, map |-> map]
     ELSE IF \E i \in DOMAIN subs : subs[i] \notin DOMAIN map THEN [how |-> "error", map |-> map]
     ELSE [how |-> "", map |-> [map EXCEPT ![line.flag].rules =
             Append(@, HuRule(line.strip, line.add, line.cond, subs, HuNewMorphemes(line.morphs)))]]
HuParseAffix(line, map) ==
  IF line.argc < 2 \/ ~HuIsValidFlag(line.flag) THEN [how |-> "error", map |-> map]
  ELSE IF line.argc = 2 THEN [how |-> "panic", map |-> map] \* args[2]
  ELSE IF line.flag \in DOMAIN map THEN HuAddRule(line, map)
  ELSE IF line.n < 0 THEN [how |-> "error", map |-> map]
  ELSE [how |-> "", map |-> HuPut(map, line.flag, [cross |-> line.cross, rules |-> <<>>])]
HuLoadAffix(line) ==
  /\ line.opt \in {"PFX", "SFX"}
  /\ LET did == HuParseAffix(line, IF line.opt = "PFX" THEN huPfx ELSE huSfx)
     IN IF did.how # "" THEN HuFail(did.how)
        ELSE /\ huPfx' = IF line.opt = "PFX" THEN did.map ELSE huPfx
             /\ huSfx' = IF line.opt = "SFX" THEN did.map ELSE huSfx
             /\ UNCHANGED <<huErr, huFlag, huScalar, huTab, huStems>>

HuLoadLine ==
  /\ huPc = "aff" /\ huErr = "" /\ Len(huRead) < HuMaxLines
  /\ \E line \in HuLines : /\ huRead' = Append(huRead, line)
                           /\ \/ HuLoadScalar(line) \/ HuParseFlag(line) \/ HuIgnored(line)
                              \/ HuLoadRow(line) \/ HuLoadAffix(line)
  /\ UNCHANGED <<huPc, huRoots>>
HuAddDictionary == huPc = "aff" /\ huErr = "" /\ huPc' = "dic"
                   /\ UNCHANGED <<huErr, huRead, huRoots, huFlag, huScalar, huTab, huPfx, huSfx, huStems>>

-----------------------------------------------------------------------------
(* Stems: a word, its morphemes, its ancestors from the nearest on.        *)
\* Mutant of HuNewStem: the morphemes of the rule go over those of the parent.
HuNewStemRule(parent, word, morphs) ==
  [word |-> word, morphs |-> morphs @@ parent.morphs, forbidden |-> FALSE,
   up |-> <<[word |-> parent.word, morphs |-> parent.morphs]>> \o parent.up]

HuNewStem(parent, word, morphs) ==
  [word |-> word, morphs |-> parent.morphs @@ morphs, forbidden |-> FALSE,
   up |-> <<[word |-> parent.word, morphs |-> parent.morphs]>> \o parent.up]

\* A rule's condition looks at one letter of the word, at the end where the affix goes.
HuEnd(prefix, word) == IF word = <<>> THEN "" ELSE IF prefix THEN Head(word) ELSE Last(word)
HuMatches(rule, prefix, word) == rule.cond = "." \/ rule.cond = HuEnd(prefix, word)
HuAffixed(rule, prefix, word) ==
  LET strips == rule.strip # "0" /\ HuEnd(prefix, word) = rule.strip
  IN IF prefix THEN rule.add \o (IF strips THEN Tail(word) ELSE word)
               ELSE (IF strips THEN Front(word) ELSE word) \o rule.add

\* affix.apply; a stem of depth HuMaxDepth stands for the recursion of a class that leads back to itself.
RECURSIVE HuApply(_, _, _, _)
HuApply(map, flag, prefix, root) ==
  IF Len(root.up) >= HuMaxDepth THEN <<root>>
  ELSE FoldLeft(LAMBDA ss, rule :
         IF ~HuMatches(rule, prefix, root.word) THEN ss
         ELSE LET stem == HuNewStem(root, HuAffixed(rule, prefix, root.word), rule.morphs)
              IN ss \o FlattenSeq([i \in DOMAIN rule.subs |-> HuApply(map, rule.subs[i], prefix, stem)]) \o <<stem>>,
         <<>>, map[flag].rules)

\* Mutant of HuCrosses: every suffix is combined with the prefixes.
HuCrossesAll(flag) == flag \in DOMAIN huSfx
HuCrosses(flag) == IF flag \in DOMAIN huSfx THEN huSfx[flag].cross ELSE FALSE
HuApplySuffixes(flags, stems) ==
  FlattenSeq([i \in DOMAIN stems |-> FlattenSeq([j \in DOMAIN flags |->
    IF HuCrosses(flags[j]) THEN HuApply(huSfx, flags[j], FALSE, stems[i]) ELSE <<>>])])
\* unpackFlags of a stem: a flag that is a prefix is not looked up among the suffixes.
HuDerive(stem, flag, flags) ==
  IF flag \in DOMAIN huPfx
  THEN LET stems == HuApply(huPfx, flag, TRUE, stem)
       IN stems \o (IF huPfx[flag].cross THEN HuApplySuffixes(flags, stems) ELSE <<>>)
  ELSE HuApply(huSfx, flag, FALSE, stem)
HuDerivatives(stem, flags) == FlattenSeq([i \in DOMAIN flags |-> HuDerive(stem, flags[i], flags)])

\* parse fails on a bad line; a line that begins with a number has no word, and unpack looks at its
\* first letter.
HuWordHow(line) ==
  LET flags == HuList(line.flags)
      known == \A i \in DOMAIN flags : flags[i] \in DOMAIN huPfx \cup DOMAIN huSfx
  IN IF line.kind = "bad" THEN "error" ELSE IF line.kind = "number" THEN "panic"
     ELSE IF HuMorphsHow(line.morphs) # "" THEN HuMorphsHow(line.morphs)
     ELSE IF HuFlagsHow(line.flags) # "" THEN HuFlagsHow(line.flags)
     ELSE IF ~known THEN "error" ELSE ""
\* dictionary.load: what a later stem or derivative is called replaces what was there.
HuEnter(stems, entered) == FoldLeft(LAMBDA m, stem : HuPut(m, stem.word, stem), stems, entered)
HuLoadWord ==
  /\ huPc = "dic" /\ huErr = "" /\ Len(huRoots) < HuMaxWords
  /\ \E line \in HuWords :
       /\ huRoots' = Append(huRoots, line)
       /\ IF HuWordHow(line) # "" THEN HuFail(HuWordHow(line))
          ELSE LET stem == [word |-> line.word, morphs |-> HuNewMorphemes(line.morphs), forbidden |-> line.forbidden, up |-> <<>>]
                   all == HuDerivatives(stem, HuList(line.flags))
               IN IF \E i \in DOMAIN all : Len(all[i].up) >= HuMaxDepth THEN HuFail("panic")
                  ELSE /\ huStems' = HuEnter(huStems, <<stem>> \o all)
                       /\ UNCHANGED <<huErr, huFlag, huScalar, huTab, huPfx, huSfx>>
  /\ UNCHANGED <<huPc, huRead>>

\* Analyze overlays the morphemes of the ancestors, the root's last.
HuAnalyze(stem) ==
  LET chain == <<[word |-> stem.word, morphs |-> stem.morphs]>> \o stem.up
  IN HuPut(FoldLeft(LAMBDA m, s : s.morphs @@ m, HuNone, chain), "st", Last(chain).word)

HuNext == HuLoadLine \/ HuAddDictionary \/ HuLoadWord
HuSpec == HuInit /\ [][HuNext]_huVars

-----------------------------------------------------------------------------
HuTypeOK == /\ huPc \in {"aff", "dic"} /\ huErr \in {"", "error", "panic"} /\ huFlag \in HuFlags
            /\ Len(huRead) <= HuMaxLines /\ Len(huRoots) <= HuMaxWords
            /\ \A w \in DOMAIN huStems : huStems[w].word = w

(* A table that begins with a positive count holds every entry that        *)
(* follows, in order, wherever other options come in between.              *)
HuTablesKept == huErr = "" => \A t \in {huRead[i].opt : i \in DOMAIN huRead} \cap HuTables :
  LET rows == SelectSeq(huRead, LAMBDA line : line.opt = t)
  IN rows[1].n > 0 =>
       huTab[t].items = HuFirst(t) \o [i \in 1..Len(rows) - 1 |-> rows[i + 1].item]

\* The ways to build a word from a root: rules one after the other, each <<side, flag, number>>.
HuSteps == {<<side, flag, n>> \in {"pfx", "sfx"} \X (DOMAIN huPfx \cup DOMAIN huSfx) \X (1..HuMaxLines) :
  LET map == IF side = "pfx" THEN huPfx ELSE huSfx IN IF flag \in DOMAIN map THEN n <= Len(map[flag].rules) ELSE FALSE}
HuRuleOf(s) == (IF s[1] = "pfx" THEN huPfx ELSE huSfx)[s[2]].rules[s[3]]
\* As Stem.unpackFlags has it, a flag that names a prefix class hides the suffix class of its name.
HuFollows(way, s, flags) ==
  IF way = <<>> THEN s[2] \in flags /\ (s[1] = "sfx" => s[2] \notin DOMAIN huPfx)
  ELSE \/ s[1] = Last(way)[1] /\ s[2] \in Range(HuRuleOf(Last(way)).subs)
       \/ /\ s[1] = "sfx" /\ Last(way)[1] = "pfx" /\ s[2] \in flags
          /\ huPfx[way[1][2]].cross /\ huSfx[s[2]].cross
\* All words of at most HuMaxDepth affixes.
HuWays(root, flags) ==
  LET more(ways) == ways \cup {[way |-> Append(x[1].way, x[2]), word |-> HuAffixed(HuRuleOf(x[2]), x[2][1] = "pfx", x[1].word)] :
        x \in {y \in ways \X HuSteps : HuFollows(y[1].way, y[2], flags) /\ HuMatches(HuRuleOf(y[2]), y[2][1] = "pfx", y[1].word)}}
      after[n \in 0..HuMaxDepth] == IF n = 0 THEN {[way |-> <<>>, word |-> root]} ELSE more(after[n - 1])
  IN after[HuMaxDepth]

(* The words the dictionary knows are the ones its rules allow: every root *)
(* and every chain of rules that starts from one of its flags, prefixes    *)
(* and suffixes together only when both classes are cross products.        *)
HuDerived == huErr = "" => DOMAIN huStems =
  UNION {{w.word : w \in HuWays(huRoots[i].word, Range(HuList(huRoots[i].flags)))} : i \in DOMAIN huRoots}

(* What Analyze says of a word is already in its own stem, the root's word *)
(* aside, and what the dictionary says of a root is never overruled by a   *)
(* rule that derives from it.                                              *)
HuRootWins == \A w \in DOMAIN huStems :
  LET stem == huStems[w]
      root == IF stem.up = <<>> THEN stem.morphs ELSE Last(stem.up).morphs
  IN /\ HuAnalyze(stem) = HuPut(stem.morphs, "st", HuAnalyze(stem)["st"])
     /\ \A key \in DOMAIN root : stem.morphs[key] = root[key]

\* A word the dictionary forbids stays forbidden.
HuForbiddenKept == \A i \in DOMAIN huRoots :
  huRoots[i].forbidden /\ huRoots[i].word \in DOMAIN huStems => huStems[huRoots[i].word].forbidden

(* Affix file and dictionary: no row of a table is lost, the words are the *)
(* ones the rules derive, and a root keeps the last word about itself.     *)
HuSound == HuTablesKept /\ HuDerived /\ HuRootWins
=============================================================================
