-------------------------------- MODULE Ini --------------------------------
(***************************************************************************)
(* The INI objects of lib/ini: two objects whose sections are pointers,    *)
(* so that Rebase and Subs make them share sections.  A section named ""   *)
(* holds the lines before the first header; a variable with key "" is an   *)
(* empty line or a comment.  Section names are kept in lower case.         *)
(***************************************************************************)
EXTENDS Integers, Sequences, SequencesExt, FiniteSetsExt

CONSTANTS IniKeys, IniLowerOf,  \* variable keys, and the lower case of each
          IniSubs, IniValues,   \* subsection names; values Set and Add are given
          IniFiles,             \* what Parse may return: sequences of sections
          IniStructs,           \* what Marshal may be given: sequences of fields
          IniMaxOps             \* bound: operations of a behaviour

ASSUME IniAssumption == IniMaxOps \in Nat

VARIABLES iniHeap,  \* the sections allocated so far: [name, sub, vars]
          iniObj,   \* the two objects: sequences of indexes of iniHeap
          iniStruct, \* the struct Marshal encoded last, and what Unmarshal returned
          iniDid,    \* the last operation, and what its object and the other gave readers before it
          iniOps

iniVars == <<iniHeap, iniObj, iniStruct, iniDid, iniOps>>

IniObjects == {"in", "other"}
IniMissing == "missing"
IniLower(key) == IF key \in IniKeys THEN IniLowerOf[key] ELSE key
IniOrTrue(value) == IF value = "" THEN "true" ELSE value
IniVariable(key, value) == [key |-> key, value |-> value]
IniSection(name, sub, vars) == [name |-> name, sub |-> sub, vars |-> vars]
IniSecs(o) == [i \in DOMAIN iniObj[o] |-> iniHeap[iniObj[o][i]]]
IniLines(sec) == {i \in DOMAIN sec.vars : sec.vars[i].key # ""}

-----------------------------------------------------------------------------
(* Section.  The indexes of the variables with this key; set, add, unset   *)
(* and addUniqValue on the variables of a section.                         *)
IniAt(sec, key) == {i \in IniLines(sec) : IniLower(sec.vars[i].key) = IniLower(key)}

SectionGet(sec, key) == LET at == IniAt(sec, key) IN IF at = {} THEN IniMissing ELSE sec.vars[Max(at)].value

SectionGets(sec, key) ==
  LET hits == SelectSeq(sec.vars, LAMBDA v : v.key # "" /\ IniLower(v.key) = IniLower(key))
  IN [i \in DOMAIN hits |-> hits[i].value]

SectionAdd(sec, key, value) ==
  IF \E i \in IniAt(sec, key) : sec.vars[i].value = IniOrTrue(value) THEN sec
  ELSE [sec EXCEPT !.vars = Append(@, IniVariable(key, IniOrTrue(value)))]

SectionSet(sec, key, value) ==
  LET at == IniAt(sec, key)
  IN IF at = {} THEN [sec EXCEPT !.vars = Append(@, IniVariable(IniLower(key), IniOrTrue(value)))]
     ELSE [sec EXCEPT !.vars[Max(at)].value = IniOrTrue(value)]

SectionUnset(sec, key) ==
  LET at == IniAt(sec, key) IN IF at = {} THEN sec ELSE [sec EXCEPT !.vars = RemoveAt(@, Max(at))]

\* Mutant of SectionAddUniq: the variable found stays where it is.
SectionAddUniqStay(vars, key, value) ==
  IF \E i \in DOMAIN vars : IniLower(vars[i].key) = IniLower(key) /\ vars[i].value = value THEN vars
  ELSE Append(vars, IniVariable(key, value))
SectionAddUniq(vars, key, value) ==
  LET same == {i \in DOMAIN vars : IniLower(vars[i].key) = IniLower(key) /\ vars[i].value = value}
  IN IF same = {} THEN Append(vars, IniVariable(key, value))
     ELSE Append(RemoveAt(vars, Min(same)), vars[Min(same)])

-----------------------------------------------------------------------------
(* Ini, on a sequence of sections.                                         *)
IniMatching(secs, name, sub) == {i \in DOMAIN secs : secs[i].name = name /\ secs[i].sub = sub}

IniGet(secs, name, sub, key) ==
  LET found == {i \in IniMatching(secs, name, sub) : SectionGet(secs[i], key) # IniMissing}
  IN IF found = {} THEN IniMissing ELSE SectionGet(secs[Max(found)], key)

IniGets(secs, name, sub, key) ==
  FoldLeft(LAMBDA out, sec : out \o SectionGets(sec, key), <<>>,
           SelectSeq(secs, LAMBDA sec : sec.name = name /\ sec.sub = sub))

\* Mutant of IniSet: the first section of the name is changed.
IniSetFirst(secs, name, sub, key, value) ==
  LET at == IniMatching(secs, name, sub)
  IN IF at = {} THEN Append(secs, IniSection(name, sub, <<IniVariable(key, value)>>))
     ELSE [secs EXCEPT ![Min(at)] = SectionSet(@, key, value)]
IniSet(secs, name, sub, key, value) ==
  LET at == IniMatching(secs, name, sub)
  IN IF at = {} THEN Append(secs, IniSection(name, sub, <<IniVariable(key, value)>>))
     ELSE [secs EXCEPT ![Max(at)] = SectionSet(@, key, value)]

IniAdd(secs, name, sub, key, value) ==
  LET at == IniMatching(secs, name, sub)
  IN IF at = {} THEN Append(secs, IniSection(name, sub, <<IniVariable(key, IniOrTrue(value))>>))
     ELSE [secs EXCEPT ![Max(at)] = SectionAdd(@, key, value)]

IniUnset(secs, name, sub, key) ==
  LET at == IniMatching(secs, name, sub)
  IN IF at = {} THEN secs ELSE [secs EXCEPT ![Max(at)] = SectionUnset(@, key)]

\* mergeSection of two sections that are different objects; the key becomes lower case.
IniMerged(sec, newSec) ==
  [sec EXCEPT !.vars = FoldLeft(LAMBDA vars, v : IF v.key = "" THEN vars ELSE SectionAddUniq(vars, IniLower(v.key), v.value),
                                @, newSec.vars)]

\* mergeSection of a section into itself: the loop reads the array it is moving.
IniSelfMerged(sec) ==
  [sec EXCEPT !.vars = FoldLeft(LAMBDA vars, i : IF vars[i].key = "" THEN vars ELSE SectionAddUniq(vars, vars[i].key, vars[i].value),
                                @, [i \in DOMAIN sec.vars |-> i])]

IniPruned(secs) ==
  LET fresh(sec) == [sec EXCEPT !.vars = FoldLeft(LAMBDA vars, v : IF v.key = "" THEN vars ELSE SectionAddUniq(vars, v.key, IniOrTrue(v.value)),
                                                  <<>>, @)]
      merge(out, sec) == LET at == IniMatching(out, sec.name, sec.sub)
                         IN IF sec.name = "" THEN out
                            ELSE IF at = {} THEN Append(out, fresh(sec))
                            ELSE [out EXCEPT ![Min(at)] = IniMerged(@, fresh(sec))]
  IN FoldLeft(merge, <<>>, secs)

\* mergeSection on pointers: st.ids gets the pointer id, or the first section of its name its variables.
IniMergeId(st, id) ==
  LET sec == st.heap[id]
      at == {i \in DOMAIN st.ids : st.heap[st.ids[i]].name = sec.name /\ st.heap[st.ids[i]].sub = sec.sub}
      to == st.ids[Min(at)]
  IN IF at = {} THEN [st EXCEPT !.ids = Append(@, id)]
     ELSE [st EXCEPT !.heap[to] = IF to = id THEN IniSelfMerged(sec) ELSE IniMerged(@, sec)]

\* AsMap and Vars: the values of a key without repetitions, and the last of those.
IniVars(secs, name, sub, key) ==
  LET vals == IniGets(secs, name, sub, key)
      firsts == {i \in DOMAIN vals : \A j \in 1..i - 1 : vals[j] # vals[i]}
  IN IF vals = <<>> THEN IniMissing ELSE vals[Max(firsts)]

-----------------------------------------------------------------------------
(* The operations on an object.  IniStore writes changed and new sections. *)
\* What the readers of an object get: Get and Val the last value of a key, Gets and Vals all of them.
IniReadAll(o) == [sub \in IniSubs, key \in IniKeys |->
                    [get |-> IniGet(IniSecs(o), "s", sub, key), gets |-> IniGets(IniSecs(o), "s", sub, key)]]
IniOther(o) == CHOOSE p \in IniObjects : p # o
IniUnique(o) == \A i, j \in DOMAIN iniObj[o] : i # j => LET a == IniSecs(o)[i] b == IniSecs(o)[j] IN <<a.name, a.sub>> # <<b.name, b.sub>>
IniShared == \E i \in DOMAIN iniObj["in"], j \in DOMAIN iniObj["other"] : iniObj["in"][i] = iniObj["other"][j]

IniOp(op, o, args) ==
  /\ iniOps < IniMaxOps /\ iniOps' = iniOps + 1
  /\ iniDid' = [op |-> op, o |-> o, args |-> args, mine |-> IniReadAll(o), its |-> IniReadAll(IniOther(o)),
                unique |-> IniUnique(o), apart |-> ~IniShared]

IniInit == /\ iniHeap = <<>> /\ iniObj = [o \in IniObjects |-> <<>>]
           /\ iniStruct = [fields |-> <<>>, back |-> <<>>] /\ iniOps = 0
           /\ iniDid = [op |-> "none"]

IniStore(o, secs) ==
  LET ids == iniObj[o]
      changed(h) == {i \in DOMAIN ids : ids[i] = h}
      new == SubSeq(secs, Len(ids) + 1, Len(secs))
  IN /\ iniHeap' = [h \in DOMAIN iniHeap |-> IF changed(h) = {} THEN iniHeap[h] ELSE secs[Max(changed(h))]] \o new
     /\ iniObj' = [iniObj EXCEPT ![o] = @ \o [i \in DOMAIN new |-> Len(iniHeap) + i]]
     /\ UNCHANGED iniStruct

\* Parse, for both objects.
IniParseOp == \E mine, its \in IniFiles :
  /\ iniOps = 0 /\ IniOp("parse", "in", <<>>)
  /\ iniHeap' = mine \o its
  /\ iniObj' = [o \in IniObjects |-> IF o = "in" THEN [i \in DOMAIN mine |-> i] ELSE [i \in DOMAIN its |-> Len(mine) + i]]
  /\ UNCHANGED iniStruct

IniSetOp(o, sub, key, value) == IniOp("set", o, <<sub, key, value>>) /\ IniStore(o, IniSet(IniSecs(o), "s", sub, key, value))
IniAddOp(o, sub, key, value) == IniOp("add", o, <<sub, key, value>>) /\ IniStore(o, IniAdd(IniSecs(o), "s", sub, key, value))
IniUnsetOp(o, sub, key) == IniOp("unset", o, <<sub, key>>) /\ IniStore(o, IniUnset(IniSecs(o), "s", sub, key))

IniPruneOp(o) ==
  LET secs == IniPruned(IniSecs(o))
  IN /\ IniOp("prune", o, <<>>) /\ UNCHANGED iniStruct
     /\ iniHeap' = iniHeap \o secs
     /\ iniObj' = [iniObj EXCEPT ![o] = [i \in DOMAIN secs |-> Len(iniHeap) + i]]

IniRebaseOp(o, p) ==
  LET end == FoldLeft(IniMergeId, [heap |-> iniHeap, ids |-> iniObj[o]], iniObj[p])
  IN o # p /\ IniOp("rebase", o, <<>>) /\ iniHeap' = end.heap /\ iniObj' = [iniObj EXCEPT ![o] = end.ids] /\ UNCHANGED iniStruct

\* Subs, a getter: the list it returns holds the object's own sections, and merging changes them.
IniSubsOp(o) ==
  LET subs == SelectSeq(iniObj[o], LAMBDA id : iniHeap[id].sub # "" /\ iniHeap[id].name = "s")
      end == FoldLeft(IniMergeId, [heap |-> iniHeap, ids |-> <<>>], subs)
  IN IniOp("subs", o, <<>>) /\ iniHeap' = end.heap /\ UNCHANGED <<iniObj, iniStruct>>

-----------------------------------------------------------------------------
(* Marshal and Unmarshal.  A field is [kind, sub, key, vals]; what Write   *)
(* puts in the file, Parse reads back, but for an empty value ("true").    *)
IniMarshalField(secs, f) ==
  IF f.kind = "slice" THEN FoldLeft(LAMBDA out, v : IniAdd(out, "s", f.sub, IniLower(f.key), v), secs, f.vals)
  ELSE IF f.kind = "nilptr" THEN IniSet(secs, "s", f.sub, IniLower(f.key), "<invalid Value>")
  ELSE IniSet(secs, "s", f.sub, IniLower(f.key), f.vals[1])

IniReparsed(secs) ==
  [i \in DOMAIN secs |-> [secs[i] EXCEPT !.vars = [j \in DOMAIN @ |-> IniVariable(@[j].key, IniOrTrue(@[j].value))]]]

\* Mutant of IniUnmarshalField: a slice gets the last value only.
IniUnmarshalFieldLast(secs, f) == <<IniGet(secs, "s", f.sub, IniLower(f.key))>>
IniUnmarshalField(secs, f) ==
  LET value == IniGet(secs, "s", f.sub, IniLower(f.key))
  IN IF f.kind = "slice" THEN IniGets(secs, "s", f.sub, IniLower(f.key))
     ELSE <<IF value = IniMissing THEN "" ELSE value>>

IniMarshalOp == \E fields \in IniStructs :
  LET secs == IniReparsed(FoldLeft(IniMarshalField, <<>>, fields))
  IN /\ iniOps = 0 /\ IniOp("marshal", "in", <<>>)
     /\ iniStruct' = [fields |-> fields, back |-> [i \in DOMAIN fields |-> IniUnmarshalField(secs, fields[i])]]
     /\ UNCHANGED <<iniHeap, iniObj>>

IniNext == \/ IniParseOp \/ IniMarshalOp
           \/ \E o \in IniObjects : IniPruneOp(o) \/ IniSubsOp(o) \/ \E p \in IniObjects : IniRebaseOp(o, p)
           \/ \E o \in IniObjects, sub \in IniSubs, key \in IniKeys :
                \/ IniUnsetOp(o, sub, key)
                \/ \E value \in IniValues : IniSetOp(o, sub, key, value) \/ IniAddOp(o, sub, key, value)

IniSpec == IniInit /\ [][IniNext]_iniVars

-----------------------------------------------------------------------------
IniTypeOK == /\ iniOps \in 0..IniMaxOps
             /\ \A o \in IniObjects : \A i \in DOMAIN iniObj[o] : iniObj[o][i] \in DOMAIN iniHeap

\* The values in the order in which each of them comes last.
IniLastOnly(vals) ==
  LET lasts == {i \in DOMAIN vals : \A j \in DOMAIN vals : vals[j] = vals[i] => j <= i}
      kept == SelectSeq([i \in DOMAIN vals |-> i], LAMBDA i : i \in lasts)
  IN [i \in DOMAIN kept |-> vals[kept[i]]]

(* What an operation does to what the readers of its object get.  Prune    *)
(* leaves one section of a name and keeps the last value and, each once,   *)
(* all values of a key, an empty one as "true".  Subs, although a getter,  *)
(* merges the object's own sections of one name: Get still gives the last  *)
(* value, and Gets no value that was not there and all that were, but only *)
(* when no name comes twice the same ones in the same order.  Set changes  *)
(* the last value of its key, or adds one, and no other key.               *)
IniReadsKept == iniDid.op \in {"prune", "subs", "set"} =>
  \A at \in DOMAIN iniDid.mine :
    LET now == IniReadAll(iniDid.o)[at]
        was == iniDid.mine[at]
        given == iniDid.args[3]
    IN CASE iniDid.op = "prune" -> /\ now.get = IniOrTrue(was.get) /\ IniUnique(iniDid.o)
                                   /\ now.gets = IniLastOnly([i \in DOMAIN was.gets |-> IniOrTrue(was.gets[i])])
         [] iniDid.op = "subs"  -> /\ now.get = was.get /\ Range(now.gets) = Range(was.gets)
                                   /\ iniDid.unique => now.gets = was.gets
         [] iniDid.op = "set"   -> IF at[1] = iniDid.args[1] /\ IniLower(at[2]) = IniLower(iniDid.args[2])
                                   THEN \E v \in {given, IniOrTrue(given)} :
                                          now.get = v /\ now.gets \in {Append(was.gets, v), Append(Front(was.gets), v)}
                                   ELSE now = was

(* Rebase loses no value of either object and invents none, whatever the   *)
(* two share and however often a section comes in them.  The other's last  *)
(* value wins, and the own one stays where the other has none, if the      *)
(* sections of the object are unique and the other's are not its own:      *)
(* otherwise merging takes the first section of a name, reading the last,  *)
(* and merging a section into itself reorders it.                          *)
IniRebased == iniDid.op = "rebase" =>
  \A at \in DOMAIN iniDid.mine :
    LET now == IniReadAll(iniDid.o)[at]
        mine == iniDid.mine[at]
        its == iniDid.its[at]
    IN /\ Range(now.gets) = Range(mine.gets) \cup Range(its.gets)
       /\ iniDid.unique /\ iniDid.apart => now.get = IF its.get = IniMissing THEN mine.get ELSE its.get

(* An operation on one object changes nothing that the readers of the      *)
(* other get, unless an earlier Rebase has made them share a section; the  *)
(* Rebase itself changes nothing of the object it takes them from.         *)
IniApart == iniDid.op \notin {"none", "parse"} /\ iniDid.apart => IniReadAll(IniOther(iniDid.o)) = iniDid.its

\* What Get gives after a Rebase of any two objects, which the code does not do: see IniRebased.
IniRebasedAlways == iniDid.op = "rebase" =>
  \A at \in DOMAIN iniDid.mine :
    IniReadAll(iniDid.o)[at].get = IF iniDid.its[at].get = IniMissing THEN iniDid.mine[at].get ELSE iniDid.its[at].get

(* Unmarshal gives back the struct Marshal encoded, but for what the code  *)
(* loses: repeated elements of a slice, empty strings and nil pointers.    *)
IniRoundTrip == \A i \in DOMAIN iniStruct.fields :
  LET f == iniStruct.fields[i] IN
  f.kind # "nilptr" /\ "" \notin Range(f.vals) /\ IsInjective(f.vals) => iniStruct.back[i] = f.vals

\* Vars: "only the last key value that will be store on map value".
IniVarsLast == \A o \in IniObjects, sub \in IniSubs, key \in IniKeys :
  IniVars(IniSecs(o), "s", sub, key) = IniGet(IniSecs(o), "s", sub, key)
=============================================================================
