----------------------------- MODULE FilesProofs -----------------------------
(***************************************************************************)
(* Theorems about what the library reads and serves from the disk: the     *)
(* file tree of lib/memfs (MemFS), the watchers of lib/io (DirWatcher), the *)
(* routes of lib/http (HttpServer), the parsers of hosts files (Hosts),    *)
(* zone files (MasterFile) and ini files (IniReader), and the datasets of  *)
(* lib/tabula (Tabula).                                                    *)
(***************************************************************************)
EXTENDS MCFiles, Hosts, MasterFile, IniReader, Tabula, MailStoreProofs, FiniteSetTheorems, SequenceTheorems, WellFoundedInduction, TLAPS

-----------------------------------------------------------------------------
(* Loops.                                                                  *)

(* Induction over the naturals, for a set instead of a predicate: the set  *)
(* of the others would have a least element.                               *)
LEMMA NatSetInduction == ASSUME NEW S, 0 \in S, \A n \in Nat : n \in S => n + 1 \in S
                         PROVE  \A n \in Nat : n \in S
<1> DEFINE T == Nat \ S
           R == {ss \in Nat \X Nat : ss[1] < ss[2]}
<1>1. IsWellFoundedOn(R, Nat)
  BY NatLessThanWellFounded DEF OpToRel
<1>2. SUFFICES ASSUME T # {} PROVE FALSE
  OBVIOUS
<1>3. \E x \in T : \A y \in T : ~ (<<y, x>> \in R)
  <2>1. T \subseteq Nat
    OBVIOUS
  <2> HIDE DEF R, T
  <2> QED
    BY <1>1, <1>2, <2>1, WFMin
<1>4. PICK x \in T : \A y \in T : ~ (<<y, x>> \in R)
  BY <1>3
<1>5. x \in Nat /\ x # 0
  OBVIOUS
<1>6. x - 1 \in Nat /\ <<x - 1, x>> \in R
  BY <1>5
<1> QED
  BY <1>4, <1>5, <1>6

(* The elements of a finite set in some order.                             *)
LEMMA InOrder == ASSUME NEW S, IsFiniteSet(S) PROVE SetToSeq(S) \in Seq(S) /\ \A order \in SetToSeqs(S) : order \in Seq(S)
<1>1. Cardinality(S) \in Nat /\ ExistsBijection(1..Cardinality(S), S)
  BY FS_CardinalityType
<1> DEFINE n == Cardinality(S)
<1> HIDE DEF n
<1>2. n \in Nat /\ ExistsBijection(1..n, S)
  BY <1>1 DEF n
<1>3. \E f \in [1..n -> S] : IsInjective(f)
  BY <1>2 DEF ExistsBijection, Bijection, Injection
<1>4. SetToSeq(S) \in [1..n -> S]
  BY <1>3 DEF SetToSeq, n
<1>5. \A order \in SetToSeqs(S) : order \in [1..n -> S]
  BY DEF SetToSeqs, n
<1> QED
  BY <1>2, <1>4, <1>5

-----------------------------------------------------------------------------
(* memfs.                                                                  *)
MfFile == [there : BOOLEAN, size : {"empty", "small", "big"}, version : 0..mfVersion, mode : MfModes]
MfTypes ==
  /\ mfGen \in 0..MfMaxGen /\ mfVersion \in 0..MfMaxVersion
  /\ mfDev \in BOOLEAN /\ mfWith \in BOOLEAN /\ mfMounted \in BOOLEAN
  /\ mfDisk \in [MfPaths -> MfFile]
  /\ mfPn \in [MfAll -> 0..mfGen] /\ mfChilds \in [MfNodes -> 0..mfGen] /\ mfContent \in [MfNodes -> 0..mfVersion]
  /\ mfMode \in [MfNodes -> MfModes]

\* Without a root there is no node; before the first scan nothing was answered.
MfDown == /\ ~mfMounted => \A n \in MfNodes : mfChilds[n] = 0
          /\ mfGen = 0 => ~mfMounted /\ mfGot.err

\* Outside development an indexed directory has at most one child of a path, the indexed one.
MfOwn == ~mfDev => \A n \in MfNodes :
  n[1] # <<>> /\ mfChilds[n] # 0 /\ mfChilds[n] = mfPn[MfParent(n[1])] => mfPn[n[1]] = n[2]

MfInv == MfTypes /\ MfDown /\ MfOwn /\ MfFresh

(* The state before New satisfies the invariant.                           *)
LEMMA MfInitInv == MfInit => MfInv
<1> SUFFICES ASSUME MfInit PROVE MfInv
  OBVIOUS
<1>1. mfDisk \in [MfPaths -> MfFile]
  BY MfAssumption DEF MfInit, MfFile, MfModes
<1>7. mfMode \in [MfNodes -> MfModes]
  BY DEF MfInit, MfModes
<1>4. mfGen = 0 /\ 0 \in 0..mfGen /\ 0 \in 0..mfVersion /\ mfGen \in 0..MfMaxGen /\ mfVersion \in 0..MfMaxVersion
  BY MfAssumption DEF MfInit
<1>5. mfPn \in [MfAll -> 0..mfGen] /\ mfChilds \in [MfNodes -> 0..mfGen] /\ mfContent \in [MfNodes -> 0..mfVersion]
  BY <1>4 DEF MfInit
<1>6. mfDev \in BOOLEAN /\ mfWith \in BOOLEAN /\ mfMounted \in BOOLEAN
  BY DEF MfInit
<1>3. MfTypes
  BY <1>1, <1>4, <1>5, <1>6, <1>7 DEF MfTypes
<1>2. MfDown /\ MfOwn /\ MfFresh
  BY DEF MfInit, MfDown, MfOwn, MfFresh, MfNothing
<1> QED
  BY <1>2, <1>3 DEF MfInv

(* The parent of a path is the root or a directory of the disk.            *)
LEMMA MfParentAll == \A p \in MfPaths : MfParent(p) \in MfAll
  BY MfAssumption DEF MfParent, MfAll

(* What updateContent leaves in a node is what it had or what is on disk.  *)
LEMMA MfReadVersion == ASSUME NEW p \in MfPaths \ MfDirs, NEW old, mfWith
                       PROVE  MfRead(p, old) = mfDisk[p].version \/ mfDisk[p].size = "big"
  BY DEF MfRead

(* The mode of a file.                                                     *)
LEMMA MfModeType == ASSUME MfTypes PROVE \A p \in MfPaths : mfDisk[p].mode \in MfModes
  BY DEF MfTypes, MfFile

(* And it is a version the disk has had.                                   *)
LEMMA MfReadType == ASSUME MfTypes, NEW p \in MfPaths, NEW old \in 0..mfVersion PROVE MfRead(p, old) \in 0..mfVersion
<1>1. mfDisk[p].version \in 0..mfVersion
  BY DEF MfTypes, MfFile
<1> QED
  BY <1>1 DEF MfRead

\* One turn of pruneEmptyDirs, f being what the turns before it left.
MfTurn(kept, order, f, i) ==
  IF i = 0 THEN kept ELSE IF MfHasChild(f[i - 1], order[i]) THEN f[i - 1] ELSE f[i - 1] \ {order[i]}

(* The loop runs any number of turns.                                      *)
LEMMA MfLoops == ASSUME NEW kept, NEW order PROVE \A n \in Nat : \E f : f = [i \in 0..n |-> MfTurn(kept, order, f, i)]
<1> DEFINE S == {n \in Nat : \E f : f = [i \in 0..n |-> MfTurn(kept, order, f, i)]}
<1>1. 0 \in S
  <2> DEFINE f == [i \in 0..0 |-> kept]
  <2>1. f = [i \in 0..0 |-> MfTurn(kept, order, f, i)]
    BY DEF MfTurn
  <2> QED
    BY <2>1
<1>2. ASSUME NEW n \in Nat, n \in S PROVE n + 1 \in S
  <2>1. PICK f : f = [i \in 0..n |-> MfTurn(kept, order, f, i)]
    BY <1>2
  <2> DEFINE g == [i \in 0..(n + 1) |-> IF i <= n THEN f[i] ELSE MfTurn(kept, order, f, i)]
  <2>2. ASSUME NEW i \in 0..(n + 1) PROVE g[i] = MfTurn(kept, order, g, i)
    <3>1. g[i] = MfTurn(kept, order, f, i)
      BY <2>1
    <3>2. i # 0 => i - 1 \in 0..n /\ g[i - 1] = f[i - 1]
      OBVIOUS
    <3> HIDE DEF g
    <3> QED
      BY <3>1, <3>2 DEF MfTurn
  <2>3. DOMAIN g = 0..(n + 1) /\ g = [i \in 0..(n + 1) |-> g[i]]
    OBVIOUS
  <2> HIDE DEF g
  <2>4. g = [i \in 0..(n + 1) |-> MfTurn(kept, order, g, i)]
    BY <2>2, <2>3
  <2> QED
    BY <2>4
<1>3. \A n \in Nat : n \in S
  <2> HIDE DEF S
  <2> QED
    BY <1>1, <1>2, NatSetInduction
<1> QED
  BY <1>3

(* pruneEmptyDirs only takes nodes out.                                    *)
LEMMA MfPruned == ASSUME NEW T, NEW order \in Seq(T), NEW kept PROVE MfPrune(kept, order) \subseteq kept
<1> DEFINE left[n \in 0..Len(order)] ==
             IF n = 0 THEN kept ELSE IF MfHasChild(left[n - 1], order[n]) THEN left[n - 1] ELSE left[n - 1] \ {order[n]}
<1>1. MfPrune(kept, order) = left[Len(order)]
  BY DEF MfPrune
<1>0. Len(order) \in Nat
  OBVIOUS
<1>2. \E f : f = [n \in 0..Len(order) |-> MfTurn(kept, order, f, n)]
  BY <1>0, MfLoops, ZenonT(60)
<1>3. left = [n \in 0..Len(order) |-> MfTurn(kept, order, left, n)]
  BY <1>2 DEF MfTurn
<1> HIDE DEF left
<1> DEFINE S == {n \in Nat : n <= Len(order) => left[n] \subseteq kept}
<1>4. 0 \in S
  <2>1. left[0] = kept
    BY <1>0, <1>3 DEF MfTurn
  <2> QED
    BY <2>1
<1>5. ASSUME NEW n \in Nat, n \in S PROVE n + 1 \in S
  <2> SUFFICES ASSUME n + 1 <= Len(order) PROVE left[n + 1] \subseteq kept
    OBVIOUS
  <2>1. n + 1 \in 0..Len(order) /\ n + 1 # 0 /\ (n + 1) - 1 = n /\ left[n] \subseteq kept
    BY <1>0, <1>5
  <2>2. left[n + 1] = MfTurn(kept, order, left, n + 1)
    BY <1>3, <2>1
  <2>3. left[n + 1] \subseteq left[n]
    BY <2>1, <2>2 DEF MfTurn
  <2> QED
    BY <2>1, <2>3
<1>6. \A n \in Nat : n \in S
  <2> HIDE DEF S
  <2> QED
    BY <1>4, <1>5, NatSetInduction
<1> QED
  BY <1>0, <1>1, <1>6

(* A scan looks at a path itself after its parents.                        *)
LEMMA MfScannedAdded == \A p \in MfScanned : p \in MfPaths /\ MfAdded(p)
<1> SUFFICES ASSUME NEW p \in MfScanned PROVE p \in MfPaths /\ MfAdded(p)
  OBVIOUS
<1>1. p \in Seq(STRING) /\ p # <<>> /\ p \in MfPaths
  BY MfAssumption DEF MfScanned
<1>2. Len(p) \in 1..Len(p) /\ SubSeq(p, 1, Len(p)) = p
  BY <1>1
<1> QED
  BY <1>1, <1>2 DEF MfScanned

(* RemoveChild takes one path out of the index, and its node and the       *)
(* node's children out of the tree.                                        *)
LEMMA MfRemoved == MfRemoveChild => \E p \in MfPaths :
  /\ mfPn[p] # 0 /\ mfPn' = [mfPn EXCEPT ![p] = 0]
  /\ mfChilds' = [m \in MfNodes |-> IF m = <<p, mfPn[p]>> \/ (m[1] # <<>> /\ MfParent(m[1]) = p /\ mfChilds[m] = mfPn[p])
                                    THEN 0 ELSE mfChilds[m]]
  /\ UNCHANGED mfDev
  BY Zenon DEF MfRemoveChild

(* New, the disk's changes, the scans, Get and the changes of the tree     *)
(* keep the types and leave nothing behind when the root is dropped.       *)
LEMMA MfNextTypes == MfInv /\ [MfNext]_mfVars => MfTypes' /\ MfDown'
<1> SUFFICES ASSUME MfInv, [MfNext]_mfVars PROVE MfTypes' /\ MfDown'
  OBVIOUS
<1> USE MfAssumption DEF MfInv
<1>1. CASE MfNew
  BY <1>1 DEF MfNew, MfTypes, MfDown, MfFile
<1>2. CASE MfDiskWrite
  <2>1. PICK p \in MfPaths, size \in {"empty", "small", "big"} : 
          /\ mfVersion < MfMaxVersion
          /\ mfVersion' = mfVersion + 1
          /\ mfDisk' = [mfDisk EXCEPT ![p] = [there |-> TRUE, size |-> size, version |-> mfVersion + 1, mode |-> mfDisk[p].mode]]
          /\ mfGot' = MfNothing /\ UNCHANGED <<mfMounted, mfGen, mfPn, mfChilds, mfContent, mfMode, mfDev, mfWith>>
    BY <1>2 DEF MfDiskWrite
  <2>2. mfVersion' \in 0..MfMaxVersion /\ 0..mfVersion \subseteq 0..mfVersion'
    BY <2>1 DEF MfTypes
  <2>3. mfDisk' \in [MfPaths -> MfFile']
    BY <2>1, <2>2 DEF MfTypes, MfFile
  <2>4. mfContent' \in [MfNodes -> 0..mfVersion']
    BY <2>1, <2>2 DEF MfTypes
  <2> QED
    BY <2>1, <2>2, <2>3, <2>4 DEF MfTypes, MfDown, MfNothing
<1>11. CASE MfDiskChmod
  <2>1. PICK p \in MfPaths \ MfDirs, mode \in MfModes :
          /\ mfVersion < MfMaxVersion
          /\ mfVersion' = mfVersion + 1
          /\ mfDisk' = [mfDisk EXCEPT ![p] = [mfDisk[p] EXCEPT !.mode = mode]]
          /\ mfGot' = MfNothing /\ UNCHANGED <<mfMounted, mfGen, mfPn, mfChilds, mfContent, mfMode, mfDev, mfWith>>
    BY <1>11 DEF MfDiskChmod
  <2>2. mfVersion' \in 0..MfMaxVersion /\ 0..mfVersion \subseteq 0..mfVersion'
    BY <2>1 DEF MfTypes
  <2>5. \A q \in MfPaths : mfDisk[q] \in MfFile'
    BY <2>2 DEF MfTypes, MfFile
  <2>6. [mfDisk[p] EXCEPT !.mode = mode] \in MfFile'
    BY <2>5 DEF MfFile
  <2>3. mfDisk' \in [MfPaths -> MfFile']
    BY <2>1, <2>5, <2>6 DEF MfTypes
  <2>4. mfContent' \in [MfNodes -> 0..mfVersion']
    BY <2>1, <2>2 DEF MfTypes
  <2> QED
    BY <2>1, <2>2, <2>3, <2>4 DEF MfTypes, MfDown, MfNothing
<1>3. CASE MfDiskRemove
  <2>1. PICK p \in MfPaths :
          /\ mfVersion < MfMaxVersion
          /\ mfVersion' = mfVersion + 1
          /\ mfDisk' = [q \in MfPaths |-> IF IsPrefix(p, q) THEN [mfDisk[q] EXCEPT !.there = FALSE] ELSE mfDisk[q]]
          /\ mfGot' = MfNothing /\ UNCHANGED <<mfMounted, mfGen, mfPn, mfChilds, mfContent, mfMode, mfDev, mfWith>>
    BY <1>3 DEF MfDiskRemove
  <2>2. mfVersion' \in 0..MfMaxVersion /\ 0..mfVersion \subseteq 0..mfVersion'
    BY <2>1 DEF MfTypes
  <2>3. mfDisk' \in [MfPaths -> MfFile']
    BY <2>1, <2>2, ZenonT(60) DEF MfTypes, MfFile
  <2>4. mfContent' \in [MfNodes -> 0..mfVersion']
    BY <2>1, <2>2 DEF MfTypes
  <2> QED
    BY <2>1, <2>2, <2>3, <2>4 DEF MfTypes, MfDown, MfNothing
<1>4. CASE MfMount
  <2>1. PICK order \in SetToSeqs(MfScanned \cap MfDirs) :
          LET kept == IF mfWith THEN MfPrune(MfScanned, order) ELSE MfScanned
          IN /\ mfPn' = [p \in MfAll |-> IF p \in kept \cup {<<>>} THEN mfGen + 1 ELSE mfPn[p]]
             /\ mfChilds' = [n \in MfNodes |-> IF n[2] = mfGen + 1 /\ n[1] \in kept THEN mfGen + 1 ELSE mfChilds[n]]
             /\ mfContent' = [n \in MfNodes |-> IF n[2] = mfGen + 1 /\ n[1] \in kept THEN MfRead(n[1], 0) ELSE mfContent[n]]
             /\ mfMode' = [n \in MfNodes |-> IF n[2] = mfGen + 1 /\ n[1] \in kept THEN mfDisk[n[1]].mode ELSE mfMode[n]]
    BY <1>4 DEF MfMount
  <2> DEFINE kept == IF mfWith THEN MfPrune(MfScanned, order) ELSE MfScanned
  <2>2. mfGen' = mfGen + 1 /\ mfGen + 1 \in 0..MfMaxGen /\ 0..mfGen \subseteq 0..mfGen' /\ mfMounted' = TRUE
    BY <1>4 DEF MfMount, MfTypes
  <2> HIDE DEF kept
  <2>3. mfPn' \in [MfAll -> 0..mfGen'] /\ mfChilds' \in [MfNodes -> 0..mfGen']
    BY <2>1, <2>2 DEF kept, MfTypes
  <2>4. kept \subseteq MfPaths
    <3>1. MfScanned \subseteq MfPaths /\ MfScanned \cap MfDirs \in SUBSET MfPaths
      BY DEF MfScanned
    <3>2. IsFiniteSet(MfScanned \cap MfDirs)
      BY <3>1, FS_Subset
    <3>3. order \in Seq(MfScanned \cap MfDirs)
      BY <2>1, <3>2, InOrder
    <3>4. MfPrune(MfScanned, order) \subseteq MfScanned
      BY <3>3, MfPruned
    <3> QED
      BY <3>1, <3>4 DEF kept
  <2>5. mfContent' = [n \in MfNodes |-> IF n[2] = mfGen + 1 /\ n[1] \in kept THEN MfRead(n[1], 0) ELSE mfContent[n]]
    BY <2>1 DEF kept
  <2>6. 0 \in 0..mfVersion /\ \A p \in kept : MfRead(p, 0) \in 0..mfVersion
    BY <2>4, MfReadType DEF MfTypes
  <2>7. mfContent' \in [MfNodes -> 0..mfVersion]
    BY <2>5, <2>6 DEF MfTypes
  <2>8. mfMode' = [n \in MfNodes |-> IF n[2] = mfGen + 1 /\ n[1] \in kept THEN mfDisk[n[1]].mode ELSE mfMode[n]]
    BY <2>1 DEF kept
  <2>9. mfMode' \in [MfNodes -> MfModes]
    BY <2>4, <2>8, MfModeType DEF MfTypes
  <2> QED
    BY <1>4, <2>2, <2>3, <2>7, <2>9 DEF MfMount, MfTypes, MfDown, MfFile
<1>5. CASE MfUnmount
  <2>3. UNCHANGED <<mfDisk, mfVersion, mfGen, mfDev, mfWith>> /\ mfMounted' = FALSE /\ 0 \in 0..mfGen'
    BY <1>5 DEF MfUnmount, MfTypes
  <2>5. 0 \in 0..mfVersion'
    BY <2>3 DEF MfTypes
  <2>4. /\ mfPn' \in [MfAll -> 0..mfGen'] /\ mfChilds' \in [MfNodes -> 0..mfGen']
        /\ mfContent' \in [MfNodes -> 0..mfVersion'] /\ mfMode' \in [MfNodes -> MfModes]
    BY <1>5, <2>3, <2>5 DEF MfUnmount, MfModes
  <2>1. MfTypes'
    BY <2>3, <2>4 DEF MfTypes, MfFile
  <2>2. MfDown'
    BY <1>5 DEF MfUnmount, MfDown, MfNothing
  <2> QED
    BY <2>1, <2>2
<1>6. CASE MfGetKnown
  <2>1. UNCHANGED <<mfDisk, mfVersion, mfMounted, mfGen, mfPn, mfChilds, mfDev, mfWith>> /\ mfMounted
    BY <1>6 DEF MfGetKnown
  <2>a. PICK p \in MfAll : \E version :
          /\ mfPn[p] # 0 /\ version \in {MfRead(p, mfContent[<<p, mfPn[p]>>]), mfContent[<<p, mfPn[p]>>]}
          /\ p = <<>> => version = mfContent[<<p, mfPn[p]>>]
          /\ mfMode' = mfMode \/ (p # <<>> /\ mfMode' = [mfMode EXCEPT ![<<p, mfPn[p]>>] = mfDisk[p].mode])
          /\ mfContent' = mfContent \/ mfContent' = [mfContent EXCEPT ![<<p, mfPn[p]>>] = version]
    BY <1>6, Zenon DEF MfGetKnown
  <2>2. PICK version :
          /\ mfPn[p] # 0 /\ version \in {MfRead(p, mfContent[<<p, mfPn[p]>>]), mfContent[<<p, mfPn[p]>>]}
          /\ p = <<>> => version = mfContent[<<p, mfPn[p]>>]
          /\ mfMode' = mfMode \/ (p # <<>> /\ mfMode' = [mfMode EXCEPT ![<<p, mfPn[p]>>] = mfDisk[p].mode])
          /\ mfContent' = mfContent \/ mfContent' = [mfContent EXCEPT ![<<p, mfPn[p]>>] = version]
    BY <2>a, Zenon
  <2> DEFINE n == <<p, mfPn[p]>>
  <2>3. mfPn[p] \in 1..MfMaxGen
    BY <2>2 DEF MfTypes
  <2>4. n \in MfNodes
    BY <2>3 DEF MfNodes
  <2> HIDE DEF n
  <2>5. mfContent[n] \in 0..mfVersion
    BY <2>4 DEF MfTypes
  <2>6. p # <<>> => p \in MfPaths
    BY DEF MfAll
  <2>7. version \in 0..mfVersion
    BY <2>2, <2>5, <2>6, MfReadType DEF n
  <2>8. mfContent' \in [MfNodes -> 0..mfVersion]
    BY <2>2, <2>4, <2>7 DEF MfTypes, n
  <2>9. mfMode' \in [MfNodes -> MfModes]
    BY <2>2, <2>4, <2>6, MfModeType DEF MfTypes, n
  <2> QED
    BY <2>1, <2>8, <2>9 DEF MfTypes, MfDown, MfFile
<1>7. CASE MfGetUnknown
  <2>1. UNCHANGED <<mfDisk, mfVersion, mfMounted, mfDev, mfWith>> /\ mfMounted /\ mfGen + 1 <= MfMaxGen
    BY <1>7 DEF MfGetUnknown
  <2>2. CASE UNCHANGED <<mfGen, mfPn, mfChilds, mfContent, mfMode>>
    BY <2>1, <2>2 DEF MfTypes, MfDown, MfFile
  <2>3. CASE /\ mfGen' = mfGen + 1 /\ MfScan(mfGen + 1, mfPn[<<>>])
             /\ mfPn' = [q \in MfAll |-> IF q \in MfScanned THEN mfGen + 1 ELSE mfPn[q]]
    <3>1. mfGen' \in 0..MfMaxGen /\ 0..mfGen \subseteq 0..mfGen' /\ mfGen + 1 \in 0..mfGen' /\ mfGen' # 0
      BY <2>1, <2>3 DEF MfTypes
    <3>2. mfPn' \in [MfAll -> 0..mfGen'] /\ mfPn[<<>>] \in 0..mfGen'
      BY <2>3, <3>1 DEF MfTypes, MfAll
    <3>3. mfChilds' \in [MfNodes -> 0..mfGen']
      BY <2>3, <3>1, <3>2 DEF MfTypes, MfScan
    <3>4. 0 \in 0..mfVersion /\ \A p \in MfScanned : MfRead(p, 0) \in 0..mfVersion
      BY MfReadType DEF MfTypes, MfScanned
    <3>5. mfContent' \in [MfNodes -> 0..mfVersion]
      BY <2>3, <3>4 DEF MfTypes, MfScan
    <3>6. MfScanned \subseteq MfPaths
      BY DEF MfScanned
    <3>7. mfMode' \in [MfNodes -> MfModes]
      BY <2>3, <3>6, MfModeType DEF MfTypes, MfScan
    <3> QED
      BY <2>1, <3>1, <3>2, <3>3, <3>5, <3>7 DEF MfTypes, MfDown, MfFile
  <2> QED
    BY <1>7, <2>2, <2>3 DEF MfGetUnknown
<1>8. CASE MfRemoveChild
  <2>6. UNCHANGED <<mfDisk, mfVersion, mfMounted, mfGen, mfContent, mfMode, mfDev, mfWith>> /\ mfMounted
    BY <1>8 DEF MfRemoveChild
  <2>1. PICK p \in MfPaths :
          /\ mfPn[p] # 0 /\ mfPn' = [mfPn EXCEPT ![p] = 0]
          /\ mfChilds' = [m \in MfNodes |-> IF m = <<p, mfPn[p]>> \/ (m[1] # <<>> /\ MfParent(m[1]) = p /\ mfChilds[m] = mfPn[p])
                                            THEN 0 ELSE mfChilds[m]]
    BY <1>8, MfRemoved
  <2>3. 0 \in 0..mfGen /\ mfGen' = mfGen
    BY <2>6 DEF MfTypes
  <2>4. mfPn' \in [MfAll -> 0..mfGen']
    BY <2>1, <2>3 DEF MfTypes
  <2>5. mfChilds' \in [MfNodes -> 0..mfGen']
    BY <2>1, <2>3 DEF MfTypes
  <2>2. mfPn' \in [MfAll -> 0..mfGen'] /\ mfChilds' \in [MfNodes -> 0..mfGen']
    BY <2>4, <2>5
  <2> QED
    BY <2>6, <2>2 DEF MfTypes, MfDown, MfFile
<1>9. CASE MfAddChild
  <2>1. PICK p \in MfPaths :
          /\ mfMounted /\ mfGen + 1 <= MfMaxGen
          /\ mfGen' = mfGen + 1 /\ mfPn' = [mfPn EXCEPT ![p] = mfGen + 1]
          /\ mfChilds' = [mfChilds EXCEPT ![<<p, mfGen + 1>>] = mfPn[MfParent(p)]]
          /\ mfContent' = [mfContent EXCEPT ![<<p, mfGen + 1>>] = MfRead(p, 0)]
          /\ mfMode' = [mfMode EXCEPT ![<<p, mfGen + 1>>] = mfDisk[p].mode]
          /\ UNCHANGED <<mfDisk, mfVersion, mfMounted, mfDev, mfWith>>
    BY <1>9 DEF MfAddChild
  <2>2. mfGen' \in 0..MfMaxGen /\ 0..mfGen \subseteq 0..mfGen' /\ mfGen' # 0
    BY <2>1 DEF MfTypes
  <2>3. mfPn[MfParent(p)] \in 0..mfGen
    BY MfParentAll DEF MfTypes
  <2>5. mfGen + 1 \in 0..mfGen' /\ mfPn \in [MfAll -> 0..mfGen'] /\ mfChilds \in [MfNodes -> 0..mfGen']
    BY <2>1, <2>2 DEF MfTypes
  <2>6. mfPn[MfParent(p)] \in 0..mfGen'
    BY <2>2, <2>3
  <2>7. mfPn' \in [MfAll -> 0..mfGen']
    BY <2>1, <2>5
  <2>8. mfChilds' \in [MfNodes -> 0..mfGen']
    BY <2>1, <2>5, <2>6
  <2>4. mfPn' \in [MfAll -> 0..mfGen'] /\ mfChilds' \in [MfNodes -> 0..mfGen']
    BY <2>7, <2>8
  <2>9. MfRead(p, 0) \in 0..mfVersion
    BY MfReadType DEF MfTypes
  <2>10. mfContent' \in [MfNodes -> 0..mfVersion]
    BY <2>1, <2>9 DEF MfTypes
  <2>11. mfMode' \in [MfNodes -> MfModes]
    BY <2>1, MfModeType DEF MfTypes
  <2> QED
    BY <2>1, <2>2, <2>4, <2>10, <2>11 DEF MfTypes, MfDown, MfFile
<1>10. CASE UNCHANGED mfVars
  BY <1>10 DEF mfVars, MfTypes, MfDown, MfFile
<1> QED
  BY <1>1, <1>2, <1>3, <1>4, <1>5, <1>6, <1>7, <1>8, <1>9, <1>10, <1>11 DEF MfNext

(* No two children of an indexed directory come to have one path.          *)
LEMMA MfNextOwn == MfInv /\ [MfNext]_mfVars => MfOwn'
<1> SUFFICES ASSUME MfInv, [MfNext]_mfVars, ~mfDev',
                    NEW n \in MfNodes, n[1] # <<>>, mfChilds'[n] # 0, mfChilds'[n] = mfPn'[MfParent(n[1])]
             PROVE  mfPn'[n[1]] = n[2]
  BY DEF MfOwn
<1> USE MfAssumption DEF MfInv
<1>0. n[1] \in MfPaths /\ n[1] \in MfAll /\ MfParent(n[1]) \in MfAll /\ n[2] \in Nat \ {0} /\ n = <<n[1], n[2]>>
  BY MfParentAll DEF MfNodes, MfAll
<1>1. CASE MfNew
  BY <1>1 DEF MfNew, MfDown
<1>2. CASE MfDiskWrite \/ MfDiskChmod \/ MfDiskRemove \/ UNCHANGED mfVars
  BY <1>2 DEF MfDiskWrite, MfDiskChmod, MfDiskRemove, mfVars, MfOwn
<1>4. CASE MfMount
  <2>1. PICK order \in SetToSeqs(MfScanned \cap MfDirs) :
          LET kept == IF mfWith THEN MfPrune(MfScanned, order) ELSE MfScanned
          IN /\ mfPn' = [p \in MfAll |-> IF p \in kept \cup {<<>>} THEN mfGen + 1 ELSE mfPn[p]]
             /\ mfChilds' = [m \in MfNodes |-> IF m[2] = mfGen + 1 /\ m[1] \in kept THEN mfGen + 1 ELSE mfChilds[m]]
    BY <1>4 DEF MfMount
  <2>2. mfChilds[n] = 0
    BY <1>4 DEF MfMount, MfDown
  <2> QED
    BY <1>0, <2>1, <2>2
<1>5. CASE MfUnmount
  BY <1>5 DEF MfUnmount
<1>6. CASE MfGetKnown
  <2>1. UNCHANGED <<mfPn, mfChilds, mfDev>>
    BY <1>6 DEF MfGetKnown
  <2> QED
    BY <2>1 DEF MfOwn
<1>7. CASE MfGetUnknown
  <2>1. UNCHANGED <<mfPn, mfChilds, mfDev>>
    BY <1>7 DEF MfGetUnknown
  <2> QED
    BY <2>1 DEF MfOwn
<1>8. CASE MfRemoveChild
  <2>1. PICK p \in MfPaths :
          /\ mfPn[p] # 0 /\ mfPn' = [mfPn EXCEPT ![p] = 0]
          /\ mfChilds' = [m \in MfNodes |-> IF m = <<p, mfPn[p]>> \/ (m[1] # <<>> /\ MfParent(m[1]) = p /\ mfChilds[m] = mfPn[p])
                                            THEN 0 ELSE mfChilds[m]]
          /\ UNCHANGED mfDev
    BY <1>8, MfRemoved
  <2>2. mfChilds'[n] = mfChilds[n] /\ n # <<p, mfPn[p]>>
    BY <2>1
  <2>3. MfParent(n[1]) # p
    BY <1>0, <2>1 DEF MfTypes
  <2>4. mfChilds[n] = mfPn[MfParent(n[1])]
    BY <1>0, <2>1, <2>2, <2>3 DEF MfTypes
  <2>5. mfPn[n[1]] = n[2]
    BY <2>1, <2>2, <2>4 DEF MfOwn
  <2>6. n[1] # p
    BY <1>0, <2>2, <2>5
  <2> QED
    BY <1>0, <2>1, <2>5, <2>6 DEF MfTypes
<1>9. CASE MfAddChild
  <2>1. PICK p \in MfPaths :
          /\ mfPn[p] = 0 /\ mfPn[MfParent(p)] # 0 /\ mfPn' = [mfPn EXCEPT ![p] = mfGen + 1]
          /\ mfChilds' = [mfChilds EXCEPT ![<<p, mfGen + 1>>] = mfPn[MfParent(p)]]
          /\ UNCHANGED mfDev
    BY <1>9 DEF MfAddChild
  <2>2. CASE n = <<p, mfGen + 1>>
    BY <1>0, <2>1, <2>2 DEF MfTypes
  <2>3. CASE n # <<p, mfGen + 1>>
    <3>1. mfChilds'[n] = mfChilds[n] /\ mfChilds[n] \in 0..mfGen
      BY <2>1, <2>3 DEF MfTypes
    <3>2. MfParent(n[1]) # p
      BY <1>0, <2>1, <3>1, SMTT(60) DEF MfTypes
    <3>3. mfPn[n[1]] = n[2]
      BY <1>0, <2>1, <3>1, <3>2 DEF MfOwn, MfTypes
    <3>4. n[1] # p
      BY <1>0, <2>1, <3>3
    <3> QED
      BY <1>0, <2>1, <3>3, <3>4 DEF MfTypes
  <2> QED
    BY <2>2, <2>3
<1> QED
  BY <1>1, <1>2, <1>4, <1>5, <1>6, <1>7, <1>8, <1>9 DEF MfNext

(* Get answers from the disk in development, and nothing that changes the  *)
(* disk or the mode leaves an answer standing.                             *)
LEMMA MfNextFresh == MfInv /\ [MfNext]_mfVars => MfFresh'
<1> SUFFICES ASSUME MfInv, [MfNext]_mfVars PROVE MfFresh'
  OBVIOUS
<1> USE MfAssumption DEF MfInv
<1>1. CASE MfNew
  BY <1>1 DEF MfNew, MfDown, MfFresh
<1>2. CASE mfGot' = MfNothing
  BY <1>2 DEF MfFresh, MfNothing
<1>6. CASE MfGetKnown
  <2> SUFFICES ASSUME mfDev', mfWith', ~mfGot'.err, mfGot'.path \in MfPaths \ MfDirs
               PROVE  /\ mfDisk'[mfGot'.path].there
                      /\ \/ mfGot'.version = mfDisk'[mfGot'.path].version \/ mfDisk'[mfGot'.path].size = "big"
                         \/ mfGot'.modeOnly /\ mfMode'[<<mfGot'.path, mfPn'[mfGot'.path]>>] = mfDisk'[mfGot'.path].mode
    BY DEF MfFresh
  <2>0. UNCHANGED <<mfDisk, mfDev, mfWith, mfPn>>
    BY <1>6 DEF MfGetKnown
  <2> DEFINE node(p) == <<p, mfPn[p]>>
             modeOnly(p) == mfDev /\ p # <<>> /\ mfMode[node(p)] # mfDisk[p].mode
             version(p) == IF mfDev /\ p # <<>> /\ ~modeOnly(p) THEN MfRead(p, mfContent[node(p)]) ELSE mfContent[node(p)]
  <2>1. PICK p \in MfAll :
          /\ mfPn[p] # 0
          /\ IF mfDev /\ ~MfOnDisk(p) THEN mfGot' = [path |-> p, version |-> 0, err |-> TRUE, modeOnly |-> FALSE]
             ELSE /\ mfGot' = [path |-> p, version |-> version(p), err |-> FALSE, modeOnly |-> modeOnly(p)]
                  /\ mfMode' = IF modeOnly(p) THEN [mfMode EXCEPT ![node(p)] = mfDisk[p].mode] ELSE mfMode
    BY <1>6, ZenonT(60) DEF MfGetKnown
  <2> HIDE DEF version, modeOnly
  <2>2. /\ MfOnDisk(p) /\ mfGot' = [path |-> p, version |-> version(p), err |-> FALSE, modeOnly |-> modeOnly(p)]
        /\ mfMode' = IF modeOnly(p) THEN [mfMode EXCEPT ![node(p)] = mfDisk[p].mode] ELSE mfMode
    BY <2>0, <2>1
  <2>3. p \in MfPaths \ MfDirs /\ p # <<>>
    BY <2>2
  <2>4. mfDisk[p].there
    BY <2>2, <2>3 DEF MfOnDisk
  <2>5. CASE modeOnly(p)
    <3>1. mfPn[p] \in 1..MfMaxGen
      BY <2>1 DEF MfTypes
    <3>2. node(p) \in MfNodes
      BY <3>1 DEF MfNodes
    <3>3. mfMode'[node(p)] = mfDisk[p].mode
      BY <2>2, <2>5, <3>2 DEF MfTypes
    <3> QED
      BY <2>0, <2>2, <2>4, <2>5, <3>3
  <2>6. CASE ~modeOnly(p)
    <3>1. version(p) = MfRead(p, mfContent[node(p)])
      BY <2>0, <2>3, <2>6 DEF version
    <3>2. version(p) = mfDisk[p].version \/ mfDisk[p].size = "big"
      BY <2>0, <2>3, <3>1, MfReadVersion
    <3> QED
      BY <2>0, <2>2, <2>4, <3>2
  <2> QED
    BY <2>5, <2>6
<1>7. CASE MfGetUnknown
  <2> SUFFICES ASSUME mfDev', mfWith', ~mfGot'.err, mfGot'.path \in MfPaths \ MfDirs
               PROVE  mfDisk'[mfGot'.path].there
                      /\ (mfGot'.version = mfDisk'[mfGot'.path].version \/ mfDisk'[mfGot'.path].size = "big")
    BY DEF MfFresh
  <2>0. UNCHANGED <<mfDisk, mfDev, mfWith>>
    BY <1>7 DEF MfGetUnknown
  <2>1. PICK p \in MfPaths :
          /\ mfGen + 1 <= MfMaxGen
          /\ \/ /\ mfContent' = [n \in MfNodes |-> IF n[2] = mfGen + 1 /\ n[1] \in MfScanned THEN MfRead(n[1], 0) ELSE mfContent[n]]
                /\ mfGot' = [path |-> p, version |-> mfContent'[<<p, mfGen + 1>>], err |-> p \notin MfScanned, modeOnly |-> FALSE]
             \/ mfGot' = [path |-> p, version |-> 0, err |-> TRUE, modeOnly |-> FALSE]
    BY <1>7 DEF MfGetUnknown, MfScan
  <2>2. /\ mfContent' = [n \in MfNodes |-> IF n[2] = mfGen + 1 /\ n[1] \in MfScanned THEN MfRead(n[1], 0) ELSE mfContent[n]]
        /\ mfGot' = [path |-> p, version |-> mfContent'[<<p, mfGen + 1>>], err |-> p \notin MfScanned, modeOnly |-> FALSE]
    BY <2>1
  <2>3. p \in MfPaths \ MfDirs /\ p \in MfScanned
    BY <2>2
  <2>4. mfDisk[p].there
    BY <2>3, MfScannedAdded DEF MfAdded
  <2>5. <<p, mfGen + 1>> \in MfNodes
    BY <2>1 DEF MfNodes, MfAll, MfTypes
  <2>6. mfGot'.version = MfRead(p, 0)
    BY <2>2, <2>3, <2>5
  <2>7. MfRead(p, 0) = mfDisk[p].version \/ mfDisk[p].size = "big"
    BY <2>0, <2>3, MfReadVersion
  <2> QED
    BY <2>0, <2>2, <2>4, <2>6, <2>7
<1>10. CASE UNCHANGED mfVars
  BY <1>10 DEF mfVars, MfFresh
<1> QED
  BY <1>1, <1>2, <1>6, <1>7, <1>10
     DEF MfNext, MfDiskWrite, MfDiskChmod, MfDiskRemove, MfMount, MfUnmount, MfRemoveChild, MfAddChild

(* In every behaviour of memfs the tree and its index agree outside        *)
(* development, and Get in development answers with what the disk holds;   *)
(* a node has a content that the disk has had.                             *)
THEOREM TreeIndexed == MfSpec => [](MfSound /\ MfTypeOK)
<1>1. MfInv /\ [MfNext]_mfVars => MfInv'
  BY MfNextTypes, MfNextOwn, MfNextFresh DEF MfInv
<1>2. MfInv => MfSound
  <2> SUFFICES ASSUME MfInv PROVE MfTreeIndexed
    BY DEF MfInv, MfSound
  <2>1. \A n \in MfNodes : n[2] # 0
    BY DEF MfNodes
  <2> QED
    BY <2>1 DEF MfInv, MfOwn, MfTreeIndexed
<1>3. MfInv => MfTypeOK
  BY DEF MfInv, MfTypes, MfTypeOK
<1> QED
  BY <1>1, <1>2, <1>3, MfInitInv, PTL DEF MfSpec

-----------------------------------------------------------------------------
(* The watchers.                                                           *)
DwInfo(clock) == {i \in [born : 0..clock, mtime : 0..clock, mode : {0, 1}] : i.born # 0 => i.mtime # 0}
DwTreeOK(t, clock) ==
  /\ t = [mounted |-> t.mounted, childs |-> t.childs, node |-> t.node, dirs |-> t.dirs]
  /\ t.node \in [DwAll -> DwInfo(clock)] /\ t.dirs \subseteq DwDirs
DwFoundOK(found, clock) == found = DwNone \/ \E d \in DwAllDirs, i \in DwInfo(clock) : found = [dir |-> d, info |-> i]

\* A file that is the one its node was made from has a watcher, whether or not the tree still shows it.
DwHeld == \A p \in DwPaths \ DwDirs :
  dwDisk[p].born # 0 /\ dwTree.node[p].born = dwDisk[p].born => dwWatch[p] # <<>>

DwTypes == /\ dwClock \in Nat /\ dwDisk \in [DwAll -> DwInfo(dwClock)]
           /\ dwTree = [mounted |-> dwTree.mounted, childs |-> dwTree.childs, node |-> dwTree.node, dirs |-> dwTree.dirs]
           /\ dwTree.node \in [DwAll -> DwInfo(dwClock)] /\ dwTree.dirs \subseteq DwDirs
           /\ \/ dwFound = DwNone
              \/ \E d \in DwAllDirs, i \in DwInfo(dwClock) : dwFound = [dir |-> d, info |-> i]
           /\ dwTodo \subseteq DwDirs /\ dwWatch \in [DwPaths -> Seq(Nat)]
DwInv == DwTypes /\ DwHeld

(* Times seen before a change of the disk are times after it.              *)
LEMMA DwInfoGrows == ASSUME NEW c \in Nat PROVE DwInfo(c) \subseteq DwInfo(c + 1)
<1>1. 0..c \subseteq 0..(c + 1)
  OBVIOUS
<1> QED
  BY <1>1 DEF DwInfo

(* A tree without nodes is a tree.                                         *)
LEMMA DwEmptyTree == ASSUME NEW c \in Nat PROVE DwTreeOK(DwEmpty, c) /\ \A p \in DwAll : DwEmpty.node[p].born = 0
<1>1. DwGone \in DwInfo(c) /\ DwGone.born = 0
  BY DEF DwGone, DwInfo
<1> HIDE DEF DwGone
<1>2. DwEmpty.node = [p \in DwAll |-> DwGone] /\ DwEmpty.dirs = {}
  BY DEF DwEmpty
<1>3. DwEmpty = [mounted |-> DwEmpty.mounted, childs |-> DwEmpty.childs, node |-> DwEmpty.node, dirs |-> DwEmpty.dirs]
  BY DEF DwEmpty
<1> QED
  BY <1>1, <1>2, <1>3 DEF DwTreeOK

(* Nothing is watched before Start.                                        *)
LEMMA DwInitInv == DwInit => DwInv
<1> SUFFICES ASSUME DwInit PROVE DwInv
  OBVIOUS
<1>1. dwClock = 1 /\ dwTree = DwEmpty /\ dwTodo = {} /\ dwFound = DwNone
  BY DEF DwInit
<1>2. DwTreeOK(dwTree, dwClock) /\ \A p \in DwAll : dwTree.node[p].born = 0
  BY <1>1, DwEmptyTree
<1>3. dwDisk \in [DwAll -> DwInfo(dwClock)]
  <2> DEFINE first == [born |-> 1, mtime |-> 1, mode |-> 0]
  <2>1. first \in DwInfo(dwClock) /\ DwGone \in DwInfo(dwClock)
    BY <1>1 DEF DwInfo, DwGone
  <2>2. PICK there \in DwFirst : dwDisk = [p \in DwAll |-> IF p = <<>> \/ p \in there THEN first ELSE DwGone]
    BY DEF DwInit
  <2> HIDE DEF first
  <2> QED
    BY <2>1, <2>2
<1>4. dwWatch \in [DwPaths -> Seq(Nat)]
  BY DEF DwInit
<1>5. DwTypes
  BY <1>1, <1>2, <1>3, <1>4 DEF DwTypes, DwTreeOK
<1>6. DwHeld
  BY <1>2 DEF DwHeld, DwAll
<1> QED
  BY <1>5, <1>6 DEF DwInv

(* The time of the parent changes when an entry comes or goes, and no file *)
(* becomes another by it.                                                  *)
LEMMA DwTouchedIs == ASSUME dwClock \in Nat, NEW p \in DwAll, NEW disk \in [DwAll -> DwInfo(dwClock + 1)]
                     PROVE  /\ DwTouched(disk, p) \in [DwAll -> DwInfo(dwClock + 1)]
                            /\ \A q \in DwAll : DwTouched(disk, p)[q].born = disk[q].born
<1>1. CASE p = <<>>
  BY <1>1 DEF DwTouched
<1>2. CASE p # <<>>
  <2>1. Front(p) \in DwAll
    BY <1>2, DwAssumption DEF DwAll
  <2>2. DwTouched(disk, p) = [disk EXCEPT ![Front(p)].mtime = dwClock + 1]
    BY <1>2 DEF DwTouched
  <2> DEFINE d == Front(p)
  <2> HIDE DEF d
  <2>3. d \in DwAll /\ DwTouched(disk, p) = [disk EXCEPT ![d].mtime = dwClock + 1]
    BY <2>1, <2>2 DEF d
  <2>4. [disk[d] EXCEPT !.mtime = dwClock + 1] \in DwInfo(dwClock + 1) /\ [disk[d] EXCEPT !.mtime = dwClock + 1].born = disk[d].born
    BY <2>3 DEF DwInfo
  <2> QED
    BY <2>3, <2>4
<1> QED
  BY <1>1, <1>2

(* A change of the disk that makes no file, or makes one at a new time,    *)
(* leaves every file that has its watcher with it.                         *)
LEMMA DwDiskInv == ASSUME DwInv, NEW disk \in [DwAll -> DwInfo(dwClock + 1)], DwDiskChange(disk),
                          \A q \in DwAll : disk[q].born \in {0, dwClock + 1, dwDisk[q].born}
                   PROVE  DwInv'
<1>1. /\ dwClock \in Nat /\ dwClock' = dwClock + 1 /\ dwDisk' = disk
      /\ UNCHANGED <<dwTree, dwWatch, dwTodo, dwFound>>
  BY DEF DwInv, DwTypes, DwDiskChange
<1>2. DwInfo(dwClock) \subseteq DwInfo(dwClock')
  BY <1>1, DwInfoGrows
<1>3. DwTypes'
  BY <1>1, <1>2 DEF DwInv, DwTypes
<1>4. \A p \in DwAll : dwTree.node[p].born \in 0..dwClock
  BY DEF DwInv, DwTypes, DwInfo
<1>5. DwHeld'
  BY <1>1, <1>4 DEF DwInv, DwHeld, DwAll
<1> QED
  BY <1>3, <1>5 DEF DwInv

(* The disk without an entry.                                              *)
LEMMA DwWithoutIs == ASSUME DwInv, NEW p \in DwAll
                     PROVE  /\ DwWithout(p) \in [DwAll -> DwInfo(dwClock + 1)]
                            /\ \A q \in DwAll : DwWithout(p)[q].born \in {0, dwClock + 1, dwDisk[q].born}
<1>0. dwClock \in Nat /\ dwDisk \in [DwAll -> DwInfo(dwClock + 1)]
  BY DwInfoGrows DEF DwInv, DwTypes
<1>2. DwGone \in DwInfo(dwClock + 1) /\ DwGone.born = 0
  BY <1>0 DEF DwInfo, DwGone
<1> DEFINE disk == [q \in DwAll |-> IF IsPrefix(p, q) THEN DwGone ELSE dwDisk[q]]
<1>3. disk \in [DwAll -> DwInfo(dwClock + 1)] /\ \A q \in DwAll : disk[q].born \in {0, dwClock + 1, dwDisk[q].born}
  BY <1>0, <1>2
<1>5. DwWithout(p) = DwTouched(disk, p)
  BY Zenon DEF DwWithout
<1> HIDE DEF disk
<1>4. DwTouched(disk, p) \in [DwAll -> DwInfo(dwClock + 1)] /\ \A q \in DwAll : DwTouched(disk, p)[q].born = disk[q].born
  BY <1>0, <1>3, DwTouchedIs
<1> QED
  BY <1>3, <1>4, <1>5

(* Creation, removal, writing and a change of mode.                        *)
LEMMA DwDiskActions == DwInv /\ (DwCreate \/ DwRemove \/ DwWrite \/ DwChmod) => DwInv'
<1> SUFFICES ASSUME DwInv, DwCreate \/ DwRemove \/ DwWrite \/ DwChmod PROVE DwInv'
  OBVIOUS
<1>0. dwClock \in Nat /\ dwDisk \in [DwAll -> DwInfo(dwClock)] /\ dwDisk \in [DwAll -> DwInfo(dwClock + 1)]
  BY DwInfoGrows DEF DwInv, DwTypes
<1>1. CASE DwCreate
  <2> DEFINE new == [born |-> dwClock + 1, mtime |-> dwClock + 1, mode |-> 0]
  <2>1. PICK p \in DwAll : DwDiskChange(DwTouched([dwDisk EXCEPT ![p] = new], p))
    BY <1>1 DEF DwCreate
  <2>2. new \in DwInfo(dwClock + 1) /\ new.born = dwClock + 1
    BY <1>0 DEF DwInfo
  <2> HIDE DEF new
  <2> DEFINE disk == [dwDisk EXCEPT ![p] = new]
  <2>3. disk \in [DwAll -> DwInfo(dwClock + 1)] /\ \A q \in DwAll : disk[q].born \in {0, dwClock + 1, dwDisk[q].born}
    BY <1>0, <2>2
  <2> HIDE DEF disk
  <2>4. DwTouched(disk, p) \in [DwAll -> DwInfo(dwClock + 1)] /\ \A q \in DwAll : DwTouched(disk, p)[q].born = disk[q].born
    BY <1>0, <2>3, DwTouchedIs
  <2>5. DwDiskChange(DwTouched(disk, p))
    BY <2>1 DEF disk
  <2> QED
    BY <2>3, <2>4, <2>5, DwDiskInv
<1>2. CASE DwRemove
  BY <1>0, <1>2, DwWithoutIs, DwDiskInv DEF DwRemove
<1>3. CASE DwWrite
  <2>1. PICK p \in DwAll : DwDiskChange([dwDisk EXCEPT ![p].mtime = dwClock + 1])
    BY <1>3 DEF DwWrite, DwAll
  <2> DEFINE disk == [dwDisk EXCEPT ![p].mtime = dwClock + 1]
  <2>2. [dwDisk[p] EXCEPT !.mtime = dwClock + 1] \in DwInfo(dwClock + 1)
        /\ [dwDisk[p] EXCEPT !.mtime = dwClock + 1].born = dwDisk[p].born
    BY <1>0 DEF DwInfo
  <2>3. disk \in [DwAll -> DwInfo(dwClock + 1)] /\ \A q \in DwAll : disk[q].born \in {0, dwClock + 1, dwDisk[q].born}
    BY <1>0, <2>2
  <2> HIDE DEF disk
  <2>4. DwDiskChange(disk)
    BY <2>1 DEF disk
  <2> QED
    BY <2>3, <2>4, DwDiskInv
<1>4. CASE DwChmod
  <2>1. PICK p \in DwAll : DwDiskChange([dwDisk EXCEPT ![p].mode = 1 - @])
    BY <1>4, DwAssumption DEF DwChmod, DwAll, DwAllDirs
  <2> DEFINE disk == [dwDisk EXCEPT ![p].mode = 1 - @]
  <2>2. [dwDisk[p] EXCEPT !.mode = 1 - @] \in DwInfo(dwClock + 1)
        /\ [dwDisk[p] EXCEPT !.mode = 1 - @].born = dwDisk[p].born
    BY <1>0 DEF DwInfo
  <2>3. disk \in [DwAll -> DwInfo(dwClock + 1)] /\ \A q \in DwAll : disk[q].born \in {0, dwClock + 1, dwDisk[q].born}
    BY <1>0, <2>2
  <2> HIDE DEF disk
  <2>4. DwDiskChange(disk)
    BY <2>1 DEF disk
  <2> QED
    BY <2>3, <2>4, DwDiskInv
<1> QED
  BY <1>1, <1>2, <1>3, <1>4

(* What AddChild enters is what the disk holds under the new entries.      *)
LEMMA DwAddAllIs == ASSUME DwInv, NEW t, DwTreeOK(t, dwClock), NEW d, NEW order
                    PROVE  /\ DwTreeOK(DwAddAll(t, d, order), dwClock)
                           /\ \A p \in DwAll : DwAddAll(t, d, order).node[p] =
                                IF p \in DwUnder(Range(order)) THEN dwDisk[p] ELSE t.node[p]
<1> DEFINE under == DwUnder(Range(order))
           childs == [e \in DwAllDirs |-> IF e = d THEN t.childs[d] \o order
                        ELSE IF e \in under THEN SetToSeq(DwEntries(e)) ELSE t.childs[e]]
           node == [p \in DwAll |-> IF p \in under THEN dwDisk[p] ELSE t.node[p]]
           dirs == t.dirs \cup (under \cap DwDirs)
<1>1. DwAddAll(t, d, order) = [t EXCEPT !.childs = childs, !.node = node, !.dirs = dirs]
  BY Zenon DEF DwAddAll
<1>2. node \in [DwAll -> DwInfo(dwClock)] /\ dirs \subseteq DwDirs
  BY DEF DwInv, DwTypes, DwTreeOK
<1>3. \A p \in DwAll : node[p] = IF p \in DwUnder(Range(order)) THEN dwDisk[p] ELSE t.node[p]
  OBVIOUS
<1> HIDE DEF under, childs, node, dirs
<1>4. t = [mounted |-> t.mounted, childs |-> t.childs, node |-> t.node, dirs |-> t.dirs]
  BY DEF DwTreeOK
<1>5. DwAddAll(t, d, order) = [mounted |-> t.mounted, childs |-> childs, node |-> node, dirs |-> dirs]
  BY <1>1, <1>4
<1>6. DwTreeOK(DwAddAll(t, d, order), dwClock) /\ DwAddAll(t, d, order).node = node
  BY <1>2, <1>5 DEF DwTreeOK
<1> QED
  BY <1>3, <1>6

(* Every file that is entered gets a watcher in the same step.             *)
LEMMA DwEntered == ASSUME DwInv, dwDisk' = dwDisk, NEW files, dwWatch' = DwWatchMore(files),
                          \A p \in DwPaths \ DwDirs : \/ p \in files
                                                     \/ dwTree'.node[p] = dwTree.node[p]
                                                     \/ dwTree'.node[p].born = 0
                   PROVE  DwHeld' /\ dwWatch' \in [DwPaths -> Seq(Nat)]
<1>1. \A p \in DwPaths : dwWatch[p] \in Seq(Nat) /\ dwDisk[p].mtime \in Nat
  BY DEF DwInv, DwTypes, DwInfo, DwAll
<1>2. \A p \in DwPaths : Append(dwWatch[p], dwDisk[p].mtime) \in Seq(Nat) /\ Append(dwWatch[p], dwDisk[p].mtime) # <<>>
  BY <1>1
<1>3. dwWatch' = [p \in DwPaths |-> IF p \in files \ DwDirs THEN Append(dwWatch[p], dwDisk[p].mtime) ELSE dwWatch[p]]
  BY DEF DwWatchMore
<1>4. dwWatch' \in [DwPaths -> Seq(Nat)]
  BY <1>1, <1>2, <1>3
<1>5. ASSUME NEW p \in DwPaths \ DwDirs, dwDisk'[p].born # 0, dwTree'.node[p].born = dwDisk'[p].born
      PROVE  dwWatch'[p] # <<>>
  <2>1. CASE p \in files
    BY <1>2, <1>3, <2>1
  <2>2. CASE p \notin files
    <3>1. dwTree.node[p].born = dwDisk[p].born /\ dwDisk[p].born # 0
      BY <1>5, <2>2
    <3> QED
      BY <1>3, <2>2, <3>1 DEF DwInv, DwHeld
  <2> QED
    BY <2>1, <2>2
<1> QED
  BY <1>4, <1>5 DEF DwHeld

(* A tree with a root.                                                     *)
LEMMA DwRooted ==
  ASSUME NEW t, NEW m, NEW n, NEW r, t = [mounted |-> t.mounted, childs |-> t.childs, node |-> t.node, dirs |-> t.dirs],
         r = [t EXCEPT !.mounted = m, !.node = n]
  PROVE  r = [mounted |-> m, childs |-> t.childs, node |-> n, dirs |-> t.dirs]
  OBVIOUS

(* Mounting, by Start or by a tick.                                        *)
LEMMA DwMountInv == ASSUME DwInv, DwMount, UNCHANGED <<dwDisk, dwClock, dwTodo, dwFound>>
                    PROVE  DwInv'
<1>1. PICK order : dwTree' = DwMounted(order) /\ dwWatch' = DwWatchMore(DwUnder(Range(order)))
  BY DEF DwMount
<1> DEFINE node == [DwEmpty.node EXCEPT ![<<>>] = dwDisk[<<>>]]
           root == [DwEmpty EXCEPT !.mounted = TRUE, !.node = node]
<1>2. dwTree' = DwAddAll(root, <<>>, order)
  BY <1>1, Zenon DEF DwMounted
<1>3. dwClock \in Nat /\ dwDisk[<<>>] \in DwInfo(dwClock) /\ <<>> \in DwAll
  BY DEF DwInv, DwTypes, DwAll
<1>4. DwTreeOK(DwEmpty, dwClock) /\ \A p \in DwAll : DwEmpty.node[p].born = 0
  BY <1>3, DwEmptyTree
<1>6. node \in [DwAll -> DwInfo(dwClock)] /\ \A p \in DwAll : p # <<>> => node[p].born = 0
  BY <1>3, <1>4 DEF DwTreeOK
<1> HIDE DEF node
<1>5. DwEmpty = [mounted |-> DwEmpty.mounted, childs |-> DwEmpty.childs, node |-> DwEmpty.node, dirs |-> DwEmpty.dirs]
  BY <1>4 DEF DwTreeOK
<1>7. root = [mounted |-> TRUE, childs |-> DwEmpty.childs, node |-> node, dirs |-> DwEmpty.dirs]
  BY <1>5, DwRooted, Zenon
<1> HIDE DEF root
<1>8. DwTreeOK(root, dwClock) /\ root.node = node
  BY <1>4, <1>6, <1>7 DEF DwTreeOK
<1>9. /\ DwTreeOK(dwTree', dwClock)
      /\ \A p \in DwAll : dwTree'.node[p] = IF p \in DwUnder(Range(order)) THEN dwDisk[p] ELSE node[p]
  BY <1>2, <1>8, DwAddAllIs
<1>10. \A p \in DwPaths \ DwDirs : p \in DwUnder(Range(order)) \/ dwTree'.node[p].born = 0
  BY <1>6, <1>9, DwAssumption DEF DwAll
<1>11. DwHeld' /\ dwWatch' \in [DwPaths -> Seq(Nat)]
  BY <1>1, <1>10, DwEntered
<1>12. DwTypes'
  BY <1>9, <1>11 DEF DwInv, DwTypes, DwTreeOK
<1> QED
  BY <1>11, <1>12 DEF DwInv

(* The listing of a directory.                                             *)
LEMMA DwListInv == DwInv /\ DwList => DwInv'
<1> SUFFICES ASSUME DwInv, DwList PROVE DwInv'
  OBVIOUS
<1> DEFINE d == dwFound.dir
           t == [dwTree EXCEPT !.node[d] = DwUpdated(@, dwFound.info)]
           upd == DwUpdated(dwTree.node[d], dwFound.info)
<1>1. /\ DwOnContentChange(t, d) /\ dwFound' = DwNone /\ UNCHANGED <<dwDisk, dwClock>>
      /\ dwTodo' = dwTree'.dirs \/ \E more \in SUBSET (dwTree'.dirs \ dwTree.dirs) : dwTodo' = (dwTodo \cap dwTree'.dirs) \cup more
  BY DEF DwList
<1>2. d \in DwAllDirs /\ d \in DwAll /\ dwFound.info \in DwInfo(dwClock)
  BY DwAssumption DEF DwInv, DwTypes, DwList, DwAllDirs, DwAll
<1>3. dwTree.node[d] \in DwInfo(dwClock)
  BY <1>2 DEF DwInv, DwTypes
<1>4. upd \in DwInfo(dwClock)
  BY <1>2, <1>3 DEF DwUpdated, DwInfo
<1>0. dwTree = [mounted |-> dwTree.mounted, childs |-> dwTree.childs, node |-> dwTree.node, dirs |-> dwTree.dirs]
  BY DEF DwInv, DwTypes
<1>5. t = [mounted |-> dwTree.mounted, childs |-> dwTree.childs, node |-> [dwTree.node EXCEPT ![d] = upd], dirs |-> dwTree.dirs]
  BY <1>0
<1> HIDE DEF upd, d, t
<1>6. /\ DwTreeOK(t, dwClock) /\ t.dirs = dwTree.dirs
      /\ \A p \in DwPaths \ DwDirs : t.node[p] = dwTree.node[p]
  <2>1. [dwTree.node EXCEPT ![d] = upd] \in [DwAll -> DwInfo(dwClock)]
    BY <1>4 DEF DwInv, DwTypes
  <2>2. \A p \in DwPaths \ DwDirs : p # d /\ p \in DwAll
    BY <1>2, DwAssumption DEF DwAllDirs, DwAll
  <2>3. \A p \in DwPaths \ DwDirs : [dwTree.node EXCEPT ![d] = upd][p] = dwTree.node[p]
    BY <2>2 DEF DwInv, DwTypes
  <2> DEFINE node == [dwTree.node EXCEPT ![d] = upd]
  <2> HIDE DEF node
  <2>4. t = [mounted |-> dwTree.mounted, childs |-> dwTree.childs, node |-> node, dirs |-> dwTree.dirs]
    BY <1>5 DEF node
  <2>5. t.node = node /\ t.dirs = dwTree.dirs
    BY <2>4
  <2>6. DwTreeOK(t, dwClock)
    BY <2>1, <2>4, <2>5 DEF DwTreeOK, DwInv, DwTypes, node
  <2> QED
    BY <2>3, <2>5, <2>6 DEF node
<1>7. CASE dwTree' = t /\ UNCHANGED dwWatch
  <2>1. DwHeld'
    BY <1>1, <1>6, <1>7 DEF DwInv, DwHeld
  <2>2. DwTypes'
    BY <1>1, <1>6, <1>7 DEF DwInv, DwTypes, DwTreeOK
  <2> QED
    BY <2>1, <2>2 DEF DwInv
<1>8. ASSUME NEW less, DwTreeOK(less, dwClock), less.node = t.node, NEW new, NEW order \in SetToSeqs(new),
             dwTree' = DwAddAll(less, d, order), dwWatch' = DwWatchMore(DwUnder(new))
      PROVE  DwInv'
  <2>1. Range(order) \subseteq new
    BY <1>8 DEF SetToSeqs, Range
  <2>2. DwUnder(Range(order)) \subseteq DwUnder(new)
    BY <2>1, Zenon DEF DwUnder
  <2>3. /\ DwTreeOK(dwTree', dwClock)
        /\ \A p \in DwAll : dwTree'.node[p] = IF p \in DwUnder(Range(order)) THEN dwDisk[p] ELSE t.node[p]
    BY <1>8, DwAddAllIs
  <2>4. \A p \in DwPaths \ DwDirs : p \in DwUnder(new) \/ dwTree'.node[p] = dwTree.node[p]
    BY <1>6, <2>2, <2>3 DEF DwAll
  <2>5. DwHeld' /\ dwWatch' \in [DwPaths -> Seq(Nat)]
    BY <1>1, <1>8, <2>4, DwEntered
  <2>6. DwTypes'
    BY <1>1, <2>3, <2>5 DEF DwInv, DwTypes, DwTreeOK
  <2> QED
    BY <2>5, <2>6 DEF DwInv
<1>9. CASE DwThere(d)
  <2> DEFINE there == DwEntries(d)
             kept == DwKeep(t.childs[d], there)
             gone == Range(t.childs[d]) \ Range(kept)
             childs == [e \in DwAllDirs |-> IF e = d THEN kept ELSE IF e \in gone THEN <<>> ELSE t.childs[e]]
             dirs == t.dirs \ DwUnmap(t, gone)
             less == [t EXCEPT !.childs = childs, !.dirs = dirs]
             new == there \ Range(kept)
  <2>1. PICK order \in SetToSeqs(new) : dwTree' = DwAddAll(less, d, order) /\ dwWatch' = DwWatchMore(DwUnder(new))
    BY <1>1, <1>9, Zenon DEF DwOnContentChange
  <2>6. less = [t EXCEPT !.childs = childs, !.dirs = dirs]
    OBVIOUS
  <2> HIDE DEF childs, dirs, new, less, there, kept, gone
  <2>5. t = [mounted |-> t.mounted, childs |-> t.childs, node |-> t.node, dirs |-> t.dirs]
    BY <1>6 DEF DwTreeOK
  <2>2. less = [mounted |-> t.mounted, childs |-> childs, node |-> t.node, dirs |-> dirs]
    BY <2>5, <2>6
  <2>3. dirs \subseteq DwDirs
    BY <1>6 DEF dirs, DwTreeOK
  <2>4. DwTreeOK(less, dwClock) /\ less.node = t.node
    BY <1>6, <2>2, <2>3 DEF DwTreeOK
  <2> QED
    BY <1>8, <2>1, <2>4
<1>10. CASE ~DwThere(d)
  BY <1>1, <1>7, <1>10, Zenon DEF DwOnContentChange
<1> QED
  BY <1>9, <1>10

(* A tick and the turns of processSubdirs.                                 *)
LEMMA DwTickInv == DwInv /\ (DwTick \/ DwSub) => DwInv'
<1> SUFFICES ASSUME DwInv, DwTick \/ DwSub PROVE DwInv'
  OBVIOUS
<1>0. dwClock \in Nat /\ UNCHANGED <<dwDisk, dwClock>>
  BY DEF DwInv, DwTypes, DwTick, DwSub
<1>1. ASSUME DwTreeOK(dwTree', dwClock), UNCHANGED dwWatch, dwTodo' \subseteq DwDirs, DwFoundOK(dwFound', dwClock),
             \A p \in DwPaths \ DwDirs : dwTree'.node[p] = dwTree.node[p] \/ dwTree'.node[p].born = 0
      PROVE  DwInv'
  <2>1. DwHeld'
    BY <1>0, <1>1 DEF DwInv, DwHeld
  <2>2. DwTypes'
    BY <1>0, <1>1 DEF DwInv, DwTypes, DwTreeOK, DwFoundOK
  <2> QED
    BY <2>1, <2>2 DEF DwInv
<1>2. DwTreeOK(dwTree, dwClock) /\ DwFoundOK(dwFound, dwClock) /\ dwTodo \subseteq DwDirs
  BY DEF DwInv, DwTypes, DwTreeOK, DwFoundOK
<1>3. ASSUME NEW d \in DwAllDirs, dwTree' = [dwTree EXCEPT !.node[d] = DwUpdated(@, dwDisk[d])]
      PROVE  DwTreeOK(dwTree', dwClock) /\ \A p \in DwPaths \ DwDirs : dwTree'.node[p] = dwTree.node[p]
  <2> DEFINE upd == DwUpdated(dwTree.node[d], dwDisk[d])
             node == [dwTree.node EXCEPT ![d] = upd]
  <2>1. d \in DwAll /\ \A p \in DwPaths \ DwDirs : p # d /\ p \in DwAll
    BY DwAssumption DEF DwAllDirs, DwAll
  <2>2. dwTree.node[d] \in DwInfo(dwClock) /\ dwDisk[d] \in DwInfo(dwClock)
    BY <2>1 DEF DwInv, DwTypes
  <2>3. upd \in DwInfo(dwClock)
    BY <2>2 DEF DwUpdated, DwInfo
  <2>4. dwTree' = [mounted |-> dwTree.mounted, childs |-> dwTree.childs, node |-> node, dirs |-> dwTree.dirs]
    BY <1>2, <1>3 DEF DwTreeOK
  <2> HIDE DEF upd
  <2>5. node \in [DwAll -> DwInfo(dwClock)] /\ \A p \in DwPaths \ DwDirs : node[p] = dwTree.node[p]
    BY <1>2, <2>1, <2>3 DEF DwTreeOK
  <2> HIDE DEF node
  <2> QED
    BY <1>2, <2>4, <2>5 DEF DwTreeOK
<1>4. ASSUME NEW d \in DwAllDirs, dwFound' = [dir |-> d, info |-> dwDisk[d]] PROVE DwFoundOK(dwFound', dwClock)
  <2>1. dwDisk[d] \in DwInfo(dwClock)
    BY DwAssumption DEF DwInv, DwTypes, DwAllDirs, DwAll
  <2> QED
    BY <1>4, <2>1 DEF DwFoundOK
<1>5. CASE DwTick
  <2>1. CASE ~DwThere(<<>>)
    <3>1. dwTree' = DwEmpty \/ dwTree' = dwTree
      BY <1>5, <2>1 DEF DwTick
    <3>2. UNCHANGED <<dwWatch, dwTodo, dwFound>>
      BY <1>5, <2>1 DEF DwTick
    <3>3. DwTreeOK(DwEmpty, dwClock) /\ \A p \in DwAll : DwEmpty.node[p].born = 0
      BY <1>0, DwEmptyTree
    <3> QED
      BY <1>1, <1>2, <3>1, <3>2, <3>3 DEF DwAll
  <2>2. CASE DwThere(<<>>) /\ ~dwTree.mounted
    <3>1. DwMount /\ UNCHANGED <<dwDisk, dwClock, dwTodo, dwFound>>
      BY <1>5, <2>2 DEF DwTick
    <3> QED
      BY <3>1, DwMountInv
  <2>3. CASE DwThere(<<>>) /\ dwTree.mounted /\ dwTree.node[<<>>].mode # dwDisk[<<>>].mode
    <3>1. dwTree' = [dwTree EXCEPT !.node[<<>>] = DwUpdated(@, dwDisk[<<>>])] /\ UNCHANGED <<dwWatch, dwTodo, dwFound>>
      BY <1>5, <2>3 DEF DwTick
    <3>2. <<>> \in DwAllDirs
      BY DEF DwAllDirs
    <3> QED
      BY <1>1, <1>2, <1>3, <3>1, <3>2
  <2>4. CASE DwThere(<<>>) /\ dwTree.mounted /\ dwTree.node[<<>>].mode = dwDisk[<<>>].mode
    <3>1. /\ UNCHANGED <<dwTree, dwWatch>>
          /\ dwTodo' = dwTodo \/ dwTodo' = dwTree.dirs
          /\ dwFound' = dwFound \/ dwFound' = [dir |-> <<>>, info |-> dwDisk[<<>>]]
      BY <1>5, <2>4 DEF DwTick
    <3>2. <<>> \in DwAllDirs
      BY DEF DwAllDirs
    <3>3. DwFoundOK(dwFound', dwClock)
      BY <1>2, <1>4, <3>1, <3>2
    <3>4. dwTodo' \subseteq DwDirs
      BY <1>2, <3>1 DEF DwTreeOK
    <3> QED
      BY <1>1, <1>2, <3>1, <3>3, <3>4
  <2> QED
    BY <2>1, <2>2, <2>3, <2>4
<1>6. CASE DwSub
  <2>1. PICK d \in dwTodo :
          \/ dwTree' = [dwTree EXCEPT !.dirs = @ \ DwUnmap(dwTree, {d})] /\ dwTodo' = DwRange(d) /\ UNCHANGED dwFound
          \/ dwTree' = [dwTree EXCEPT !.node[d] = DwUpdated(@, dwDisk[d])] /\ dwTodo' = dwTodo \ {d} /\ UNCHANGED dwFound
          \/ dwTodo' = dwTodo \ {d} /\ UNCHANGED <<dwTree, dwFound>>
          \/ dwFound' = [dir |-> d, info |-> dwDisk[d]] /\ dwTodo' = dwTodo \ {d} /\ UNCHANGED dwTree
    BY <1>6 DEF DwSub
  <2>2. UNCHANGED dwWatch /\ dwTodo' \subseteq DwDirs /\ d \in DwAllDirs
    BY <1>2, <1>6, <2>1 DEF DwSub, DwRange, DwAllDirs
  <2>3. CASE dwTree' = [dwTree EXCEPT !.dirs = @ \ DwUnmap(dwTree, {d})] /\ UNCHANGED dwFound
    <3> DEFINE dirs == dwTree.dirs \ DwUnmap(dwTree, {d})
    <3>1. dirs \subseteq DwDirs
      BY <1>2 DEF DwTreeOK
    <3>2. dwTree' = [mounted |-> dwTree.mounted, childs |-> dwTree.childs, node |-> dwTree.node, dirs |-> dirs]
      BY <1>2, <2>3 DEF DwTreeOK
    <3> HIDE DEF dirs
    <3>3. DwTreeOK(dwTree', dwClock) /\ dwTree'.node = dwTree.node
      BY <1>2, <3>1, <3>2 DEF DwTreeOK
    <3> QED
      BY <1>1, <1>2, <2>2, <2>3, <3>3
  <2>4. CASE dwTree' = [dwTree EXCEPT !.node[d] = DwUpdated(@, dwDisk[d])] /\ UNCHANGED dwFound
    BY <1>1, <1>2, <1>3, <2>2, <2>4
  <2>5. CASE UNCHANGED <<dwTree, dwFound>>
    BY <1>1, <1>2, <2>2, <2>5
  <2>6. CASE dwFound' = [dir |-> d, info |-> dwDisk[d]] /\ UNCHANGED dwTree
    BY <1>1, <1>2, <1>4, <2>2, <2>6
  <2> QED
    BY <2>1, <2>3, <2>4, <2>5, <2>6
<1> QED
  BY <1>5, <1>6

(* A watcher goes on while its file is there, also when the file is        *)
(* another by now, and ends when it is not.                                *)
LEMMA DwWatcherInv == DwInv /\ DwWatcherTick => DwInv'
<1> SUFFICES ASSUME DwInv, DwWatcherTick PROVE DwInv'
  OBVIOUS
<1>1. PICK p \in DwPaths : \E i \in 1..Len(dwWatch[p]) :
        dwWatch' = [dwWatch EXCEPT ![p] = IF DwThere(p) THEN [@ EXCEPT ![i] = dwDisk[p].mtime] ELSE RemoveAt(@, i)]
  BY DEF DwWatcherTick
<1>2. UNCHANGED <<dwDisk, dwClock, dwOn, dwTree, dwTodo, dwFound>>
  BY DEF DwWatcherTick
<1>3. PICK i \in 1..Len(dwWatch[p]) :
        dwWatch' = [dwWatch EXCEPT ![p] = IF DwThere(p) THEN [@ EXCEPT ![i] = dwDisk[p].mtime] ELSE RemoveAt(@, i)]
  BY <1>1
<1>4. dwWatch[p] \in Seq(Nat) /\ dwDisk[p].mtime \in Nat
  BY DEF DwInv, DwTypes, DwInfo, DwAll
<1> DEFINE s == dwWatch[p]
           seen == [s EXCEPT ![i] = dwDisk[p].mtime]
           left == RemoveAt(s, i)
<1>5. seen \in Seq(Nat) /\ seen # <<>>
  BY <1>4
<1>6. left \in Seq(Nat)
  BY <1>4, SMTT(60) DEF RemoveAt
<1>7. dwWatch' = [dwWatch EXCEPT ![p] = IF DwThere(p) THEN seen ELSE left]
  BY <1>3
<1> HIDE DEF seen, left
<1>8. dwWatch' \in [DwPaths -> Seq(Nat)]
  BY <1>5, <1>6, <1>7 DEF DwInv, DwTypes
<1>9. DwTypes'
  BY <1>2, <1>8 DEF DwInv, DwTypes
<1>10. DwHeld'
  BY <1>2, <1>5, <1>7 DEF DwInv, DwTypes, DwHeld, DwThere
<1> QED
  BY <1>9, <1>10 DEF DwInv

(* A tree that counts as mounted.                                          *)
LEMMA DwMarked == ASSUME NEW t, NEW m, t = [mounted |-> t.mounted, childs |-> t.childs, node |-> t.node, dirs |-> t.dirs]
                  PROVE  [t EXCEPT !.mounted = m] = [mounted |-> m, childs |-> t.childs, node |-> t.node, dirs |-> t.dirs]
  OBVIOUS

(* A Mount that fails, and the panic it leads to, leave nothing to watch.  *)
LEMMA DwFailInv == DwInv /\ (DwMountFail \/ DwPanic) => DwInv'
<1> SUFFICES ASSUME DwInv, DwMountFail \/ DwPanic PROVE DwInv'
  OBVIOUS
<1>0. dwClock \in Nat /\ dwClock + 1 \in Nat
  BY DEF DwInv, DwTypes
<1>1. ASSUME NEW c \in Nat PROVE DwTreeOK([DwEmpty EXCEPT !.mounted = TRUE], c)
                              /\ \A p \in DwAll : [DwEmpty EXCEPT !.mounted = TRUE].node[p].born = 0
  <2>1. DwTreeOK(DwEmpty, c) /\ \A p \in DwAll : DwEmpty.node[p].born = 0
    BY DwEmptyTree
  <2> DEFINE e == DwEmpty
             r == [e EXCEPT !.mounted = TRUE]
  <2>3. DwTreeOK(e, c) /\ (\A p \in DwAll : e.node[p].born = 0) /\ [DwEmpty EXCEPT !.mounted = TRUE] = r
    BY <2>1
  <2> HIDE DEF e
  <2>4. e = [mounted |-> e.mounted, childs |-> e.childs, node |-> e.node, dirs |-> e.dirs]
    BY <2>3 DEF DwTreeOK
  <2>2. r = [mounted |-> TRUE, childs |-> e.childs, node |-> e.node, dirs |-> e.dirs]
    BY <2>4, DwMarked, Zenon
  <2> HIDE DEF r
  <2>5. DwTreeOK(r, c) /\ \A p \in DwAll : r.node[p].born = 0
    BY <2>2, <2>3 DEF DwTreeOK
  <2> QED
    BY <2>3, <2>5
<1>2. CASE DwMountFail
  <2>1. PICK p \in DwDirs : dwDisk' = DwWithout(p)
    BY <1>2 DEF DwMountFail
  <2>2. dwClock' = dwClock + 1 /\ dwTree' = [DwEmpty EXCEPT !.mounted = TRUE] /\ UNCHANGED <<dwWatch, dwTodo, dwFound>>
    BY <1>2 DEF DwMountFail
  <2>3. p \in DwAll
    BY DwAssumption DEF DwAll
  <2>4. dwDisk' \in [DwAll -> DwInfo(dwClock')]
    BY <2>1, <2>2, <2>3, DwWithoutIs
  <2>5. DwTreeOK(dwTree', dwClock') /\ \A q \in DwAll : dwTree'.node[q].born = 0
    BY <1>0, <1>1, <2>2
  <2>6. dwFound' = DwNone
    BY <1>2, <2>2 DEF DwMountFail, DwIdle
  <2>7. DwTypes'
    BY <1>0, <2>2, <2>4, <2>5, <2>6 DEF DwInv, DwTypes, DwTreeOK
  <2>8. DwHeld'
    BY <2>5 DEF DwHeld, DwAll
  <2> QED
    BY <2>7, <2>8 DEF DwInv
<1>3. CASE DwPanic
  <2>1. dwTree' = DwEmpty /\ dwWatch' = [p \in DwPaths |-> <<>>] /\ UNCHANGED <<dwDisk, dwClock, dwTodo, dwFound>>
    BY <1>3 DEF DwPanic
  <2>2. DwTreeOK(dwTree', dwClock) /\ \A q \in DwAll : dwTree'.node[q].born = 0
    BY <1>0, <2>1, DwEmptyTree
  <2>3. dwWatch' \in [DwPaths -> Seq(Nat)]
    BY <2>1
  <2>4. DwTypes'
    BY <1>0, <2>1, <2>2, <2>3 DEF DwInv, DwTypes, DwTreeOK
  <2>5. DwHeld'
    BY <2>2 DEF DwHeld, DwAll
  <2> QED
    BY <2>4, <2>5 DEF DwInv
<1> QED
  BY <1>2, <1>3

(* Every step of the watchers and of the disk keeps the invariant.         *)
LEMMA DwStepInv == DwInv /\ [DwNext]_dwVars => DwInv'
<1> SUFFICES ASSUME DwInv, [DwNext]_dwVars PROVE DwInv'
  OBVIOUS
<1>1. CASE UNCHANGED dwVars
  BY <1>1 DEF dwVars, DwInv, DwTypes, DwHeld
<1>2. CASE DwStart
  BY <1>2, DwMountInv DEF DwStart
<1> QED
  BY <1>1, <1>2, DwDiskActions, DwTickInv, DwListInv, DwWatcherInv, DwFailInv DEF DwNext

(* In every behaviour of the watchers and the disk, a file that is in the  *)
(* tree and is the one its node was made from has a watcher.               *)
THEOREM FilesWatched == DwSpec => []DwWatched
<1>1. DwInv => DwWatched
  BY DEF DwInv, DwHeld, DwWatched, DwThere
<1> QED
  BY <1>1, DwInitInv, DwStepInv, PTL DEF DwSpec

-----------------------------------------------------------------------------
(* The routes.                                                             *)

\* One turn of the loop of newRoute, f being what the turns before it left.
HtTurn(path, f, i) == IF i = 0 THEN <<>> ELSE IF HtName(path[i]) = "" THEN f[i - 1] ELSE Append(f[i - 1], HtName(path[i]))

(* The loop runs any number of turns.                                      *)
LEMMA HtLoops == ASSUME NEW path PROVE \A n \in Nat : \E f : f = [i \in 0..n |-> HtTurn(path, f, i)]
<1> DEFINE S == {n \in Nat : \E f : f = [i \in 0..n |-> HtTurn(path, f, i)]}
<1>1. 0 \in S
  <2> DEFINE f == [i \in 0..0 |-> <<>>]
  <2>1. f = [i \in 0..0 |-> HtTurn(path, f, i)]
    BY DEF HtTurn
  <2> QED
    BY <2>1
<1>2. ASSUME NEW n \in Nat, n \in S PROVE n + 1 \in S
  <2>1. PICK f : f = [i \in 0..n |-> HtTurn(path, f, i)]
    BY <1>2
  <2> DEFINE g == [i \in 0..(n + 1) |-> IF i <= n THEN f[i] ELSE HtTurn(path, f, i)]
  <2>2. ASSUME NEW i \in 0..(n + 1) PROVE g[i] = HtTurn(path, g, i)
    <3>1. g[i] = HtTurn(path, f, i)
      BY <2>1
    <3>2. i # 0 => i - 1 \in 0..n /\ g[i - 1] = f[i - 1]
      OBVIOUS
    <3> HIDE DEF g
    <3> QED
      BY <3>1, <3>2 DEF HtTurn
  <2>3. DOMAIN g = 0..(n + 1) /\ g = [i \in 0..(n + 1) |-> g[i]]
    OBVIOUS
  <2> HIDE DEF g
  <2>4. g = [i \in 0..(n + 1) |-> HtTurn(path, g, i)]
    BY <2>2, <2>3
  <2> QED
    BY <2>4
<1>3. \A n \in Nat : n \in S
  <2> HIDE DEF S
  <2> QED
    BY <1>1, <1>2, NatSetInduction
<1> QED
  BY <1>3

(* What newRoute keeps of a path is what the last turn leaves.             *)
LEMMA HtSomeIs == ASSUME NEW path \in Seq(STRING)
                  PROVE  \E f : f = [i \in 0..Len(path) |-> HtTurn(path, f, i)] /\ HtSome(path) = f[Len(path)]
<1> DEFINE some[n \in 0..Len(path)] ==
        IF n = 0 THEN <<>> ELSE IF HtName(path[n]) = "" THEN some[n - 1] ELSE Append(some[n - 1], HtName(path[n]))
<1>1. HtSome(path) = some[Len(path)]
  BY DEF HtSome
<1>0. Len(path) \in Nat
  OBVIOUS
<1>2. \E f : f = [n \in 0..Len(path) |-> HtTurn(path, f, n)]
  BY <1>0, HtLoops, Zenon
<1>3. some = [n \in 0..Len(path) |-> HtTurn(path, some, n)]
  BY <1>2 DEF HtTurn
<1> HIDE DEF some
<1> QED
  BY <1>1, <1>3

(* The first turn, a turn at an empty sub-path and one at another.         *)
LEMMA HtTurns == /\ \A path, f : HtTurn(path, f, 0) = <<>>
                 /\ \A path, f, i : i # 0 /\ HtName(path[i]) = "" => HtTurn(path, f, i) = f[i - 1]
                 /\ \A path, f, i : i # 0 /\ HtName(path[i]) # "" => HtTurn(path, f, i) = Append(f[i - 1], HtName(path[i]))
  BY Zenon DEF HtTurn

\* The sub-paths of a path, trimmed and in lower case.
HtNames(path) == {HtName(path[i]) : i \in 1..Len(path)} \cup {""}

(* The name that stands for all others is in no path.                      *)
LEMMA HtOther == ASSUME NEW path \in HtPaths PROVE "other" \notin HtNames(path)
<1>1. ASSUME NEW i \in 1..Len(path) PROVE HtName(path[i]) # "other"
  <2>1. path \in Seq(STRING) /\ "other" \notin Range(path)
    BY HtAssumption
  <2>2. i \in DOMAIN path
    BY <2>1
  <2>3. path[i] # "other"
    BY <2>1, <2>2, Zenon DEF Range
  <2>4. "a" # "other" /\ ":x" # "other"
    OBVIOUS
  <2>5. "" # "other"
    OBVIOUS
  <2>6. HtLower(path[i]) # "other"
    BY <2>3, <2>4, Zenon DEF HtLower
  <2> QED
    BY <2>4, <2>5, <2>6, Zenon DEF HtName, HtTrim
<1>2. "" # "other"
  OBVIOUS
<1> QED
  BY <1>1, <1>2, Zenon DEF HtNames

(* They are in lower case.                                                 *)
LEMMA HtNamesLower == ASSUME NEW path, NEW s \in HtNames(path) PROVE HtLower(s) = s
<1>1. "a" # "A" /\ ":x" # "A"
  OBVIOUS
<1>2. "" # "A"
  OBVIOUS
<1>3. ASSUME NEW t PROVE HtLower(t) # "A"
  BY <1>1, Zenon DEF HtLower
<1>4. ASSUME NEW t PROVE HtName(t) # "A"
  BY <1>1, <1>2, <1>3, Zenon DEF HtName, HtTrim
<1>5. s # "A"
  BY <1>2, <1>4, Zenon DEF HtNames
<1> QED
  BY <1>5, Zenon DEF HtLower

(* The nodes of a route are names and keys of its path, in lower case.     *)
LEMMA HtNodesType == ASSUME NEW path \in HtPaths PROVE HtNodes(path) \in Seq(HtNames(path))
<1> DEFINE Names == HtNames(path)
<1>0. path \in Seq(STRING) /\ Len(path) \in Nat
  BY HtAssumption
<1>1. PICK f : f = [i \in 0..Len(path) |-> HtTurn(path, f, i)] /\ HtSome(path) = f[Len(path)]
  BY <1>0, HtSomeIs
<1>2. ASSUME NEW i \in 1..Len(path) PROVE HtName(path[i]) \in Names
  BY Zenon DEF HtNames
<1>8. "" \in Names
  BY Zenon DEF HtNames
<1> HIDE DEF Names
<1> DEFINE S == {n \in Nat : n <= Len(path) => f[n] \in Seq(Names)}
<1>3. 0 \in S
  <2>1. f[0] = HtTurn(path, f, 0)
    BY <1>0, <1>1
  <2>2. f[0] = <<>>
    BY <2>1, HtTurns
  <2>3. <<>> \in Seq(Names) /\ 0 \in Nat
    OBVIOUS
  <2> QED
    BY <2>2, <2>3, Zenon
<1>4. ASSUME NEW n \in Nat, n \in S PROVE n + 1 \in S
  <2> SUFFICES ASSUME n + 1 <= Len(path) PROVE f[n + 1] \in Seq(Names)
    OBVIOUS
  <2>1. n + 1 \in 1..Len(path) /\ n + 1 \in 0..Len(path) /\ n + 1 # 0 /\ (n + 1) - 1 = n /\ f[n] \in Seq(Names)
    BY <1>0, <1>4
  <2>2. f[n + 1] = HtTurn(path, f, n + 1)
    BY <1>1, <2>1
  <2>3. f[n + 1] = f[(n + 1) - 1] \/ f[n + 1] = Append(f[(n + 1) - 1], HtName(path[n + 1]))
    BY <2>1, <2>2, HtTurns, ZenonT(60)
  <2>4. HtName(path[n + 1]) \in Names
    BY <1>2, <2>1
  <2> DEFINE e == HtName(path[n + 1])
  <2> HIDE DEF e
  <2>5. e \in Names /\ (f[n + 1] = f[n] \/ f[n + 1] = Append(f[n], e))
    BY <2>1, <2>3, <2>4 DEF e
  <2> QED
    BY <2>1, <2>5, SMTT(60)
<1>5. \A n \in Nat : n \in S
  <2> HIDE DEF S
  <2> QED
    BY <1>3, <1>4, NatSetInduction
<1>6. HtSome(path) \in Seq(Names)
  BY <1>0, <1>1, <1>5
<1>7. ASSUME NEW e \in Names PROVE <<e>> \in Seq(Names)
  OBVIOUS
<1> QED
  BY <1>6, <1>7, <1>8, Zenon DEF HtNodes, Names

HtRoute == {[path |-> p, nodes |-> HtNodes(p), reqt |-> HtRequestType(m, k[1]), rest |-> HtResponseType(m, k[2]), eval |-> k[3]] :
              p \in HtPaths, m \in HtMethods, k \in HtKinds}
HtTypes == htRoutes \in [HtMethods -> Seq(HtRoute)]

\* No route of a method takes the path of a later one.
HtUnhidden == \A m \in HtMethods : \A i, j \in DOMAIN htRoutes[m] :
  j < i => ~HtParse(htRoutes[m][j].nodes, htRoutes[m][i].path)

HtInv == HtTypes /\ HtUnhidden

(* A route has the nodes of its path.                                      *)
LEMMA HtRouteIs == ASSUME NEW r \in HtRoute PROVE r.path \in HtPaths /\ r.nodes = HtNodes(r.path)
  BY DEF HtRoute

(* What a Register function appends is one.                                *)
LEMMA HtRouteMade == ASSUME NEW m \in HtMethods, NEW path \in HtPaths, NEW kind \in HtKinds
                     PROVE  LET r == [path |-> path, nodes |-> HtNodes(path), reqt |-> HtRequestType(m, kind[1]),
                                      rest |-> HtResponseType(m, kind[2]), eval |-> kind[3]]
                            IN r \in HtRoute /\ r.nodes = HtNodes(path)
  BY DEF HtRoute

(* A server without routes.                                                *)
LEMMA HtInitInv == HtInit => HtInv
<1> SUFFICES ASSUME HtInit PROVE HtInv
  OBVIOUS
<1>1. htRoutes = [m \in HtMethods |-> <<>>]
  BY DEF HtInit
<1> QED
  BY <1>1 DEF HtInv, HtTypes, HtUnhidden

(* The Register functions refuse a path that an earlier route takes.       *)
LEMMA HtNextInv == HtInv /\ [HtNext]_htVars => HtInv'
<1> SUFFICES ASSUME HtInv, [HtNext]_htVars PROVE HtInv'
  OBVIOUS
<1>1. CASE HtRegister
  <2>1. PICK m \in HtMethods, path \in HtPaths, kind \in HtKinds :
          /\ ~HtAmbiguous(m, path)
          /\ htRoutes' = [htRoutes EXCEPT ![m] = Append(@,
               [path |-> path, nodes |-> HtNodes(path), reqt |-> HtRequestType(m, kind[1]),
                rest |-> HtResponseType(m, kind[2]), eval |-> kind[3]])]
    BY <1>1 DEF HtRegister
  <2> DEFINE r == [path |-> path, nodes |-> HtNodes(path), reqt |-> HtRequestType(m, kind[1]),
                   rest |-> HtResponseType(m, kind[2]), eval |-> kind[3]]
  <2>2. r \in HtRoute /\ r.path = path
    BY DEF HtRoute
  <2>3. htRoutes' = [htRoutes EXCEPT ![m] = Append(@, r)]
    BY <2>1
  <2> HIDE DEF r
  <2>4. htRoutes[m] \in Seq(HtRoute) /\ htRoutes \in [HtMethods -> Seq(HtRoute)]
    BY DEF HtInv, HtTypes
  <2>5. HtTypes'
    BY <2>2, <2>3, <2>4 DEF HtTypes
  <2>6. ASSUME NEW n \in HtMethods, NEW i \in DOMAIN htRoutes'[n], NEW j \in DOMAIN htRoutes'[n], j < i
        PROVE  ~HtParse(htRoutes'[n][j].nodes, htRoutes'[n][i].path)
    <3>1. CASE n # m
      BY <2>3, <2>4, <2>6, <3>1 DEF HtInv, HtUnhidden
    <3>2. CASE n = m
      <4>1. htRoutes'[n] = Append(htRoutes[m], r)
        BY <2>3, <2>4, <3>2
      <4>2. i \in 1..(Len(htRoutes[m]) + 1) /\ j \in 1..Len(htRoutes[m])
        BY <2>4, <2>6, <4>1
      <4>3. htRoutes'[n][j] = htRoutes[m][j] /\ j \in DOMAIN htRoutes[m]
        BY <2>4, <4>1, <4>2
      <4>4. CASE i = Len(htRoutes[m]) + 1
        <5>1. htRoutes'[n][i] = r
          BY <2>4, <4>1, <4>4
        <5> QED
          BY <2>1, <2>2, <4>3, <5>1 DEF HtAmbiguous
      <4>5. CASE i # Len(htRoutes[m]) + 1
        <5>1. htRoutes'[n][i] = htRoutes[m][i] /\ i \in DOMAIN htRoutes[m]
          BY <2>4, <4>1, <4>2, <4>5
        <5> QED
          BY <2>6, <4>3, <5>1 DEF HtInv, HtUnhidden
      <4> QED
        BY <4>4, <4>5
    <3> QED
      BY <3>1, <3>2
  <2>7. HtUnhidden'
    BY <2>6 DEF HtUnhidden
  <2> QED
    BY <2>5, <2>7 DEF HtInv
<1>2. CASE HtNew \/ HtRegisterEvaluator \/ HtServe \/ UNCHANGED htVars
  <2>1. htRoutes' = htRoutes
    BY <1>2 DEF HtNew, HtRegisterEvaluator, HtServe, htVars
  <2> QED
    BY <2>1 DEF HtInv, HtTypes, HtUnhidden
<1> QED
  BY <1>1, <1>2 DEF HtNext

(* A value that is no name is in lower case and no key.                    *)
LEMMA HtOtherLower == HtLower("other") = "other" /\ "other" \notin HtKeys
<1>1. "other" # "A" /\ "other" \notin {":x", ":y", ":"}
  OBVIOUS
<1> QED
  BY <1>1, Zenon DEF HtLower, HtKeys

\* A request for the nodes of a route, with a value that is no name for every key.
HtAsked(nodes) == [k \in DOMAIN nodes |-> IF nodes[k] \in HtKeys THEN "other" ELSE nodes[k]]

(* A route takes the requests that are made of its nodes.                  *)
LEMMA HtTakes == ASSUME NEW path \in HtPaths PROVE HtParse(HtNodes(path), HtAsked(HtNodes(path)))
<1> DEFINE nodes == HtNodes(path)
           n == Len(nodes)
           names == HtNames(path)
<1>1. nodes \in Seq(names)
  BY HtNodesType
<1>6. \A s \in names : HtLower(s) = s
  BY HtNamesLower
<1> HIDE DEF nodes, names
<1>2. DOMAIN nodes = 1..n /\ n \in Nat
  BY <1>1
<1>3. DOMAIN HtAsked(nodes) = 1..n /\ Len(HtAsked(nodes)) = n
  BY <1>1, <1>2 DEF HtAsked
<1>4. ASSUME NEW i \in DOMAIN nodes, nodes[i] \notin HtKeys PROVE nodes[i] = HtLower(HtAsked(nodes)[i])
  <2>1. HtAsked(nodes)[i] = nodes[i]
    BY <1>4 DEF HtAsked
  <2>2. nodes[i] \in names
    BY <1>1, <1>2
  <2> QED
    BY <1>6, <2>1, <2>2, Zenon
<1>5. HtParse(nodes, HtAsked(nodes))
  BY <1>2, <1>3, <1>4 DEF HtParse
<1> QED
  BY <1>5 DEF nodes

(* A route that takes such a request of a route that takes its own path    *)
(* takes that path.                                                        *)
LEMMA HtTakesPath == ASSUME NEW path \in HtPaths, HtParse(HtNodes(path), path), NEW p \in HtPaths,
                            HtParse(HtNodes(p), HtAsked(HtNodes(path)))
                     PROVE  HtParse(HtNodes(p), path)
<1> DEFINE nodes == HtNodes(path)
           others == HtNodes(p)
           names == HtNames(path)
           n == Len(path)
<1>1. nodes \in Seq(names) /\ Len(nodes) = n /\ \A s \in names : HtLower(s) = s
  BY HtNodesType, HtNamesLower DEF HtParse
<1>0. ASSUME NEW i \in DOMAIN nodes PROVE nodes[i] \in HtKeys \/ nodes[i] = HtLower(path[i])
  BY <1>0, Zenon DEF HtParse
<1>2. others \in Seq(HtNames(p)) /\ "other" \notin HtNames(p)
  BY HtNodesType, HtOther
<1>3. HtParse(others, HtAsked(nodes))
  OBVIOUS
<1> HIDE DEF nodes, others, names
<1>4. DOMAIN nodes = 1..n /\ Len(HtAsked(nodes)) = n /\ n = Len(path)
  BY <1>1 DEF HtAsked
<1> HIDE DEF n
<1>5. Len(others) = n /\ DOMAIN others = 1..n /\ \A i \in 1..n : others[i] \in HtNames(p)
  <2>1. Len(others) = n
    BY <1>3, <1>4, Zenon DEF HtParse
  <2>2. others \in Seq(HtNames(p))
    BY <1>2
  <2> QED
    BY <2>1, <2>2
<1>6. ASSUME NEW i \in 1..n, others[i] \notin HtKeys PROVE others[i] = HtLower(path[i])
  <2>1. others[i] = HtLower(HtAsked(nodes)[i])
    BY <1>3, <1>5, <1>6, Zenon DEF HtParse
  <2>2. others[i] # "other"
    BY <1>2, <1>5, Zenon
  <2>3. HtAsked(nodes)[i] = IF nodes[i] \in HtKeys THEN "other" ELSE nodes[i]
    BY <1>4 DEF HtAsked
  <2>4. nodes[i] \notin HtKeys
    BY <2>1, <2>2, <2>3, HtOtherLower, Zenon
  <2>5. nodes[i] = HtLower(path[i])
    BY <1>0, <1>4, <2>4, Zenon
  <2>6. nodes[i] \in names
    BY <1>1, <1>4
  <2> QED
    BY <1>1, <2>1, <2>3, <2>4, <2>5, <2>6, Zenon
<1>7. HtParse(others, path)
  BY <1>4, <1>5, <1>6 DEF HtParse
<1> QED
  BY <1>7 DEF others

(* So every route is the first to take the requests made of its nodes.     *)
LEMMA HtInvReachable == HtInv => HtReachable
<1> SUFFICES ASSUME HtInv, NEW m \in HtMethods, NEW i \in DOMAIN htRoutes[m], HtParse(htRoutes[m][i].nodes, htRoutes[m][i].path)
             PROVE  /\ HtMatches(m, HtAsked(htRoutes[m][i].nodes)) # {}
                    /\ HtFirst(m, HtAsked(htRoutes[m][i].nodes)) = i
  BY Zenon DEF HtReachable, HtAsked
<1> DEFINE r == htRoutes[m][i]
           request == HtAsked(r.nodes)
<1>0. htRoutes[m] \in Seq(HtRoute)
  BY DEF HtInv, HtTypes
<1>1. \A j \in DOMAIN htRoutes[m] : j \in Nat /\ htRoutes[m][j] \in HtRoute
  BY <1>0
<1>2. r.path \in HtPaths /\ r.nodes = HtNodes(r.path)
  BY <1>1, HtRouteIs
<1>3. HtParse(r.nodes, request)
  BY <1>2, HtTakes
<1>4. ASSUME NEW j \in DOMAIN htRoutes[m], j < i PROVE ~HtParse(htRoutes[m][j].nodes, request)
  <2>1. htRoutes[m][j].path \in HtPaths /\ htRoutes[m][j].nodes = HtNodes(htRoutes[m][j].path)
    BY <1>1, HtRouteIs
  <2>2. ~HtParse(htRoutes[m][j].nodes, r.path)
    BY <1>4 DEF HtInv, HtUnhidden
  <2> QED
    BY <1>2, <2>1, <2>2, HtTakesPath
<1> HIDE DEF request
<1>5. i \in HtMatches(m, request) /\ \A j \in HtMatches(m, request) : j \in Nat /\ i <= j
  BY <1>1, <1>3, <1>4 DEF HtMatches
<1>6. HtFirst(m, request) = i
  BY <1>1, <1>5 DEF HtFirst
<1> QED
  BY <1>5, <1>6 DEF request

(* What the statuses of the answers are.                                   *)
LEMMA HtAnswers == \A status : HtAnswer(status).status = status /\ HtAnswer(status).allow = {}
  BY DEF HtAnswer, HtNoRes

(* An endpoint that is found is never answered with 404, unless an         *)
(* evaluator or the callback returns that code.                            *)
LEMMA HtCalled == ASSUME NEW m, NEW i, NEW path, NEW fails, NEW code
                  PROVE  HtCall(m, i, path, fails, code).status \in {-1, 200, 204, 400, 500, code}
<1> DEFINE r == htRoutes[m][i]
           vals == HtVals(r.nodes, path)
           base == IF fails = "call" THEN HtError(code) ELSE HtAnswer(IF r.rest = "none" THEN 204 ELSE 200)
           called == [base EXCEPT !.called = i, !.vals = vals]
           panics == r.reqt = "none" /\ (\E v \in vals : v[2] # "")
           stops == (fails = "global" /\ htEvals) \/ (fails = "local" /\ r.eval)
<1>4. HtCall(m, i, path, fails, code) = IF fails = "body" THEN HtAnswer(400)
                                        ELSE IF panics THEN HtAnswer(-1) ELSE IF stops THEN HtError(code) ELSE called
  BY Zenon DEF HtCall
<1>5. \E c \in {500, code} : HtError(code) = HtAnswer(c)
  BY Zenon DEF HtError
<1>2. \E c \in {200, 204, 500, code} : base = HtAnswer(c)
  BY <1>5, ZenonT(120)
<1> HIDE DEF base, vals, r, panics, stops
<1>6. PICK c \in {200, 204, 500, code} : base = HtAnswer(c)
  BY <1>2
<1>3. called.status = c
  <2>1. base = [status |-> c, called |-> 0, vals |-> {}, allow |-> {}]
    BY <1>6 DEF HtAnswer, HtNoRes
  <2>2. called = [[base EXCEPT !.called = i] EXCEPT !.vals = vals]
    BY Zenon
  <2>3. [base EXCEPT !.called = i].status = c /\ DOMAIN [base EXCEPT !.called = i] = DOMAIN base
    BY <2>1
  <2> QED
    BY <2>1
<1> HIDE DEF called
<1>1. HtCall(m, i, path, fails, code) \in {HtAnswer(400), HtAnswer(-1), HtError(code), called}
  BY <1>4, Zenon
<1> QED
  BY <1>1, <1>3, <1>5, HtAnswers

(* A method is served if it has a route for the path, GET and HEAD also if *)
(* there is a file, and HEAD also if GET has a route; an error has no code *)
(* of its own here.                                                        *)
LEMMA HtServed == ASSUME NEW path, NEW fails
                  PROVE  /\ \A m \in HtMethods : HtServeHTTP(m, path, fails, 0).status # 404
                                                 <=> HtMatches(m, path) # {} \/ (m = "GET" /\ HtHasNode(path))
                         /\ HtServeHTTP("HEAD", path, fails, 0).status # 404 <=> HtMatches("GET", path) # {} \/ HtHasNode(path)
<1>0. HtHandleFS(path, fails).status # 404 <=> HtHasNode(path)
  BY HtAnswers DEF HtHandleFS
<1>1. ASSUME NEW m \in HtMethods
      PROVE  HtServeHTTP(m, path, fails, 0).status # 404 <=> HtMatches(m, path) # {} \/ (m = "GET" /\ HtHasNode(path))
  <2>1. HtServeHTTP(m, path, fails, 0) = HtHandle(m, path, fails, 0)
    BY Zenon DEF HtServeHTTP
  <2>2. CASE HtMatches(m, path) # {}
    <3>1. HtHandle(m, path, fails, 0) = HtCall(m, HtFirst(m, path), path, fails, 0)
      BY <2>2, Zenon DEF HtHandle
    <3> QED
      BY <2>1, <2>2, <3>1, HtCalled
  <2>3. CASE HtMatches(m, path) = {} /\ m = "GET"
    BY <1>0, <2>1, <2>3 DEF HtHandle
  <2>4. CASE HtMatches(m, path) = {} /\ m # "GET"
    <3>1. HtHandle(m, path, fails, 0) = HtAnswer(404)
      BY <2>4, Zenon DEF HtHandle
    <3> QED
      BY <2>1, <2>4, <3>1, HtAnswers
  <2> QED
    BY <2>2, <2>3, <2>4
<1>2. HtServeHTTP("HEAD", path, fails, 0).status # 404 <=> HtMatches("GET", path) # {} \/ HtHasNode(path)
  <2>0. "HEAD" \notin HtMethods
    BY DEF HtMethods
  <2>1. HtServeHTTP("HEAD", path, fails, 0) = HtHandleHead(path, fails)
    BY <2>0, Zenon DEF HtServeHTTP
  <2>2. CASE HtMatches("GET", path) = {}
    BY <1>0, <2>1, <2>2 DEF HtHandleHead
  <2>3. CASE HtMatches("GET", path) # {}
    <3>1. HtHandleHead(path, fails) = HtAnswer(204) \/ HtHandleHead(path, fails) = HtAnswer(200)
      BY <2>3, ZenonT(60) DEF HtHandleHead
    <3>2. HtHandleHead(path, fails).status # 404
      BY <3>1, HtAnswers
    <3> QED
      BY <2>1, <2>3, <3>2
  <2> QED
    BY <2>2, <2>3
<1> QED
  BY <1>1, <1>2

(* OPTIONS lists the same methods.                                         *)
LEMMA HtListed == ASSUME NEW path
                  PROVE  \/ HtAllow(path) = {} /\ HtHandleOptions(path).allow = {}
                         \/ HtHandleOptions(path).allow = HtAllow(path) \cup {"OPTIONS"}
<1>1. CASE HtAllow(path) = {}
  <2>1. HtHandleOptions(path) = HtAnswer(404)
    BY <1>1, Zenon DEF HtHandleOptions
  <2> QED
    BY <1>1, <2>1, HtAnswers
<1>2. CASE HtAllow(path) # {}
  <2> DEFINE all == HtAllow(path) \cup {"OPTIONS"}
  <2>1. HtHandleOptions(path) = [HtAnswer(200) EXCEPT !.allow = all]
    BY <1>2, Zenon DEF HtHandleOptions
  <2> HIDE DEF all
  <2>2. [HtAnswer(200) EXCEPT !.allow = all].allow = all
    BY DEF HtAnswer, HtNoRes
  <2>3. HtHandleOptions(path).allow = all
    BY <2>1, <2>2
  <2> QED
    BY <2>3 DEF all
<1> QED
  BY <1>1, <1>2

(* What OPTIONS lists is what is served, on every path, whatever the       *)
(* routes and the files are.                                               *)
LEMMA HtAgree ==
  ASSUME NEW path, NEW fails
  PROVE  LET listed == HtHandleOptions(path).allow
             served == {m \in HtMethods \cup {"HEAD"} : HtServeHTTP(m, path, fails, 0).status # 404}
         IN listed \ {"OPTIONS"} \subseteq served /\ served \ listed \subseteq {"HEAD"}
<1> DEFINE listed == HtHandleOptions(path).allow
           served == {m \in HtMethods \cup {"HEAD"} : HtServeHTTP(m, path, fails, 0).status # 404}
           all == HtAllow(path)
           routed == {m \in HtMethods : HtMatches(m, path) # {}}
<1>1. all = routed \cup (IF HtHasNode(path) THEN {"GET", "HEAD"} ELSE {})
  BY Zenon DEF HtAllow
<1>8. /\ \A m \in HtMethods : HtServeHTTP(m, path, fails, 0).status # 404
                             <=> HtMatches(m, path) # {} \/ (m = "GET" /\ HtHasNode(path))
      /\ HtServeHTTP("HEAD", path, fails, 0).status # 404 <=> HtMatches("GET", path) # {} \/ HtHasNode(path)
  BY HtServed
<1>2. ASSUME NEW m \in HtMethods PROVE m \in served <=> m \in routed \/ (m = "GET" /\ HtHasNode(path))
  <2>1. m \in served <=> HtServeHTTP(m, path, fails, 0).status # 404
    BY Zenon
  <2>2. m \in routed <=> HtMatches(m, path) # {}
    BY Zenon
  <2> HIDE DEF served, routed
  <2> QED
    BY <1>8, <2>1, <2>2
<1>3. /\ "HEAD" \in served <=> "GET" \in routed \/ HtHasNode(path)
      /\ \A m \in served : m \in HtMethods \/ m = "HEAD"
      /\ routed \subseteq HtMethods
  <2>1. "GET" \in HtMethods
    BY DEF HtMethods
  <2>2. "HEAD" \in served <=> HtServeHTTP("HEAD", path, fails, 0).status # 404
    BY Zenon
  <2>3. "GET" \in routed <=> HtMatches("GET", path) # {}
    BY <2>1, Zenon
  <2>4. "HEAD" \in served <=> "GET" \in routed \/ HtHasNode(path)
    BY <1>8, <2>2, <2>3
  <2> QED
    BY <2>4, Zenon
<1>4. (all = {} /\ listed = {}) \/ listed = all \cup {"OPTIONS"}
  BY HtListed, Zenon
<1>5. "GET" \in HtMethods /\ "HEAD" \notin HtMethods /\ "OPTIONS" \notin HtMethods /\ "HEAD" # "OPTIONS"
  BY DEF HtMethods
<1> HIDE DEF listed, served, all, routed
<1>6. listed \ {"OPTIONS"} \subseteq served
  BY <1>1, <1>2, <1>3, <1>4, <1>5
<1>7. served \ listed \subseteq {"HEAD"}
  BY <1>1, <1>2, <1>3, <1>4, <1>5
<1> QED
  BY <1>6, <1>7, Zenon DEF listed, served

(* In every behaviour of the server an endpoint that was accepted, and     *)
(* whose route takes the path it was registered with, can be called, and   *)
(* OPTIONS lists the methods that are served.                              *)
THEOREM RoutesAgree == HtSpec => []HtSound
<1>1. HtOptionsAgree
  BY HtAgree, ZenonT(60) DEF HtOptionsAgree
<1>2. HtInv => HtSound
  BY <1>1, HtInvReachable DEF HtSound
<1> QED
  BY <1>2, HtInitInv, HtNextInv, PTL DEF HtSpec
-----------------------------------------------------------------------------
(* The types of the watchers' state.                                       *)

\* What a directory may list.
DwKids(d) == {p \in DwPaths \ DwExcluded : Front(p) = d}
DwChildsOK(childs) == \A d \in DwAllDirs : childs[d] \in Seq(DwKids(d))
DwShape == /\ dwClock \in 1..DwMaxChange /\ dwQuiet \in -1..3 /\ dwTodo \subseteq dwTree.dirs /\ (~dwOn => DwIdle)
           /\ DwChildsOK(dwTree.childs) /\ \A p \in DwPaths : dwWatch[p] \in Seq(1..dwClock)

\* One turn of the loop over Childs, f being what the turns before it left.
DwTurn(childs, gone, f, i) == IF i = 0 THEN <<>> ELSE IF gone[i] THEN f[i - 1] ELSE Append(f[i - 1], childs[i])

(* The loop runs any number of turns.                                      *)
LEMMA DwLoops == ASSUME NEW childs, NEW gone PROVE \A n \in Nat : \E f : f = [i \in 0..n |-> DwTurn(childs, gone, f, i)]
<1> DEFINE S == {n \in Nat : \E f : f = [i \in 0..n |-> DwTurn(childs, gone, f, i)]}
<1>1. 0 \in S
  <2> DEFINE f == [i \in 0..0 |-> <<>>]
  <2>1. f = [i \in 0..0 |-> DwTurn(childs, gone, f, i)]
    BY DEF DwTurn
  <2> QED
    BY <2>1
<1>2. ASSUME NEW n \in Nat, n \in S PROVE n + 1 \in S
  <2>1. PICK f : f = [i \in 0..n |-> DwTurn(childs, gone, f, i)]
    BY <1>2
  <2> DEFINE g == [i \in 0..(n + 1) |-> IF i <= n THEN f[i] ELSE DwTurn(childs, gone, f, i)]
  <2>2. ASSUME NEW i \in 0..(n + 1) PROVE g[i] = DwTurn(childs, gone, g, i)
    <3>1. g[i] = DwTurn(childs, gone, f, i)
      BY <2>1
    <3>2. i # 0 => i - 1 \in 0..n /\ g[i - 1] = f[i - 1]
      OBVIOUS
    <3> HIDE DEF g
    <3> QED
      BY <3>1, <3>2 DEF DwTurn
  <2>3. DOMAIN g = 0..(n + 1) /\ g = [i \in 0..(n + 1) |-> g[i]]
    OBVIOUS
  <2> HIDE DEF g
  <2>4. g = [i \in 0..(n + 1) |-> DwTurn(childs, gone, g, i)]
    BY <2>2, <2>3
  <2> QED
    BY <2>4
<1>3. \A n \in Nat : n \in S
  <2> HIDE DEF S
  <2> QED
    BY <1>1, <1>2, NatSetInduction
<1> QED
  BY <1>3

(* What the loop leaves of Childs is some of Childs.                       *)
LEMMA DwKept == ASSUME NEW T, NEW childs \in Seq(T), NEW there PROVE DwKeep(childs, there) \in Seq(T)
<1> DEFINE gone[n \in 0..Len(childs)] == n # 0 /\ ~gone[n - 1] /\ childs[n] \notin there
<1> DEFINE kept[n \in 0..Len(childs)] == IF n = 0 THEN <<>> ELSE IF gone[n] THEN kept[n - 1] ELSE Append(kept[n - 1], childs[n])
<1>1. DwKeep(childs, there) = kept[Len(childs)]
  BY DEF DwKeep
<1>0. Len(childs) \in Nat
  OBVIOUS
<1> HIDE DEF gone
<1>2. \E f : f = [n \in 0..Len(childs) |-> DwTurn(childs, gone, f, n)]
  BY <1>0, DwLoops, ZenonT(60)
<1>3. kept = [n \in 0..Len(childs) |-> DwTurn(childs, gone, kept, n)]
  BY <1>2 DEF DwTurn
<1> HIDE DEF kept
<1> DEFINE S == {n \in Nat : n <= Len(childs) => kept[n] \in Seq(T)}
<1>4. 0 \in S
  <2>1. kept[0] = <<>>
    BY <1>0, <1>3 DEF DwTurn
  <2>2. kept[0] \in Seq(T)
    BY <2>1, EmptySeq
  <2> QED
    BY <2>2
<1>5. ASSUME NEW n \in Nat, n \in S PROVE n + 1 \in S
  <2> SUFFICES ASSUME n + 1 <= Len(childs) PROVE kept[n + 1] \in Seq(T)
    OBVIOUS
  <2>1. n + 1 \in 0..Len(childs) /\ n + 1 # 0 /\ (n + 1) - 1 = n /\ kept[n] \in Seq(T) /\ childs[n + 1] \in T
    BY <1>0, <1>5
  <2>2. kept[n + 1] = DwTurn(childs, gone, kept, n + 1)
    BY <1>3, <2>1
  <2>3. kept[n + 1] = kept[n] \/ kept[n + 1] = Append(kept[n], childs[n + 1])
    BY <2>1, <2>2 DEF DwTurn
  <2>4. Append(kept[n], childs[n + 1]) \in Seq(T)
    BY <2>1, AppendProperties
  <2> QED
    BY <2>1, <2>3, <2>4
<1>6. \A n \in Nat : n \in S
  <2> HIDE DEF S
  <2> QED
    BY <1>4, <1>5, NatSetInduction
<1> QED
  BY <1>0, <1>1, <1>6

(* Directories list entries of their own.                                  *)
LEMMA DwEntriesKids == ASSUME NEW d PROVE DwEntries(d) \subseteq DwKids(d) /\ IsFiniteSet(DwEntries(d))
<1>1. DwEntries(d) \subseteq DwKids(d) /\ DwEntries(d) \in SUBSET DwPaths
  BY DEF DwEntries, DwKids
<1> QED
  BY <1>1, FS_Subset, DwAssumption

(* What is entered is in its own directory.                                *)
LEMMA DwAddAllChilds == ASSUME NEW t, DwTreeOK(t, dwClock), DwChildsOK(t.childs), NEW d \in DwAllDirs, NEW order \in Seq(DwKids(d))
                        PROVE  DwChildsOK(DwAddAll(t, d, order).childs)
<1> DEFINE under == DwUnder(Range(order))
           childs == [e \in DwAllDirs |-> IF e = d THEN t.childs[d] \o order
                        ELSE IF e \in under THEN SetToSeq(DwEntries(e)) ELSE t.childs[e]]
           node == [p \in DwAll |-> IF p \in under THEN dwDisk[p] ELSE t.node[p]]
           dirs == t.dirs \cup (under \cap DwDirs)
<1>1. DwAddAll(t, d, order) = [t EXCEPT !.childs = childs, !.node = node, !.dirs = dirs]
  BY Zenon DEF DwAddAll
<1>2. ASSUME NEW e \in DwAllDirs PROVE childs[e] \in Seq(DwKids(e))
  <2>1. t.childs[e] \in Seq(DwKids(e))
    BY DEF DwChildsOK
  <2>2. SetToSeq(DwEntries(e)) \in Seq(DwKids(e))
    <3>1. SetToSeq(DwEntries(e)) \in Seq(DwEntries(e)) /\ DwEntries(e) \subseteq DwKids(e)
      BY InOrder, DwEntriesKids
    <3> QED
      BY <3>1
  <2>3. e = d => t.childs[d] \o order \in Seq(DwKids(e))
    BY <2>1
  <2>4. childs[e] \in {t.childs[d] \o order, SetToSeq(DwEntries(e)), t.childs[e]} /\ (childs[e] = t.childs[d] \o order => e = d \/ e # d)
    OBVIOUS
  <2>5. childs[e] = IF e = d THEN t.childs[d] \o order ELSE IF e \in under THEN SetToSeq(DwEntries(e)) ELSE t.childs[e]
    OBVIOUS
  <2> HIDE DEF childs, under
  <2> QED
    BY <2>1, <2>2, <2>3, <2>5
<1> HIDE DEF under, childs, node, dirs
<1>4. t = [mounted |-> t.mounted, childs |-> t.childs, node |-> t.node, dirs |-> t.dirs]
  BY DEF DwTreeOK
<1>5. DwAddAll(t, d, order) = [mounted |-> t.mounted, childs |-> childs, node |-> node, dirs |-> dirs]
  BY <1>1, <1>4
<1>6. DwAddAll(t, d, order).childs = childs
  BY <1>5
<1> QED
  BY <1>2, <1>6 DEF DwChildsOK

(* A watcher starts with the time of a file that is there.                 *)
LEMMA DwWatchMoreTimes == ASSUME DwInv, DwShape, NEW files, \A p \in files : DwThere(p), dwWatch' = DwWatchMore(files)
                          PROVE  \A p \in DwPaths : dwWatch'[p] \in Seq(1..dwClock)
<1> SUFFICES ASSUME NEW p \in DwPaths PROVE dwWatch'[p] \in Seq(1..dwClock)
  OBVIOUS
<1>1. dwWatch[p] \in Seq(1..dwClock) /\ dwDisk[p] \in DwInfo(dwClock) /\ dwClock \in Nat
  BY DEF DwShape, DwInv, DwTypes, DwAll
<1>2. p \in files => dwDisk[p].mtime \in 1..dwClock
  BY <1>1 DEF DwThere, DwInfo
<1>3. p \in files => Append(dwWatch[p], dwDisk[p].mtime) \in Seq(1..dwClock)
  BY <1>1, <1>2
<1>4. dwWatch'[p] = IF p \in files \ DwDirs THEN Append(dwWatch[p], dwDisk[p].mtime) ELSE dwWatch[p]
  BY DEF DwWatchMore
<1> QED
  BY <1>1, <1>3, <1>4

(* A tree without nodes lists nothing.                                     *)
LEMMA DwEmptyChilds == DwChildsOK(DwEmpty.childs) /\ DwEmpty.dirs = {}
<1>1. DwEmpty.childs = [d \in DwAllDirs |-> <<>>] /\ DwEmpty.dirs = {}
  BY DEF DwEmpty
<1> QED
  BY <1>1 DEF DwChildsOK

(* Mounting.                                                               *)
LEMMA DwMountShape == ASSUME DwInv, DwShape, DwMount
                      PROVE  DwChildsOK(dwTree'.childs) /\ \A p \in DwPaths : dwWatch'[p] \in Seq(1..dwClock)
<1>1. PICK order \in SetToSeqs(DwEntries(<<>>)) : dwTree' = DwMounted(order) /\ dwWatch' = DwWatchMore(DwUnder(Range(order)))
  BY DEF DwMount
<1> DEFINE node == [DwEmpty.node EXCEPT ![<<>>] = dwDisk[<<>>]]
           root == [DwEmpty EXCEPT !.mounted = TRUE, !.node = node]
<1>2. dwTree' = DwAddAll(root, <<>>, order)
  BY <1>1, Zenon DEF DwMounted
<1>3. dwClock \in Nat /\ dwDisk[<<>>] \in DwInfo(dwClock) /\ <<>> \in DwAll /\ <<>> \in DwAllDirs
  BY DEF DwInv, DwTypes, DwAll, DwAllDirs
<1>4. DwTreeOK(DwEmpty, dwClock)
  BY <1>3, DwEmptyTree
<1>6. node \in [DwAll -> DwInfo(dwClock)]
  BY <1>3, <1>4 DEF DwTreeOK
<1> HIDE DEF node
<1>5. DwEmpty = [mounted |-> DwEmpty.mounted, childs |-> DwEmpty.childs, node |-> DwEmpty.node, dirs |-> DwEmpty.dirs]
  BY <1>4 DEF DwTreeOK
<1>7. root = [mounted |-> TRUE, childs |-> DwEmpty.childs, node |-> node, dirs |-> DwEmpty.dirs]
  BY <1>5, DwRooted, Zenon
<1> HIDE DEF root
<1>8. DwTreeOK(root, dwClock) /\ root.childs = DwEmpty.childs
  BY <1>4, <1>6, <1>7 DEF DwTreeOK
<1>9. order \in Seq(DwKids(<<>>))
  <2>1. order \in Seq(DwEntries(<<>>)) /\ DwEntries(<<>>) \subseteq DwKids(<<>>)
    BY <1>1, InOrder, DwEntriesKids
  <2> QED
    BY <2>1
<1>10. DwChildsOK(dwTree'.childs)
  BY <1>2, <1>3, <1>8, <1>9, DwEmptyChilds, DwAddAllChilds
<1>11. \A p \in DwUnder(Range(order)) : DwThere(p)
  BY DEF DwUnder
<1> QED
  BY <1>1, <1>10, <1>11, DwWatchMoreTimes

(* The listing of a directory.                                             *)
LEMMA DwListShape == DwInv /\ DwShape /\ DwList => DwShape'
<1> SUFFICES ASSUME DwInv, DwShape, DwList PROVE DwShape'
  OBVIOUS
<1> DEFINE d == dwFound.dir
           t == [dwTree EXCEPT !.node[d] = DwUpdated(@, dwFound.info)]
           upd == DwUpdated(dwTree.node[d], dwFound.info)
<1>1. /\ dwFound # DwNone /\ DwOnContentChange(t, d) /\ dwFound' = DwNone /\ UNCHANGED <<dwDisk, dwClock, dwOn>>
      /\ dwTodo' = dwTree'.dirs \/ \E more \in SUBSET (dwTree'.dirs \ dwTree.dirs) : dwTodo' = (dwTodo \cap dwTree'.dirs) \cup more
      /\ DwTickDone \/ UNCHANGED dwQuiet
  BY DEF DwList
<1>2. d \in DwAllDirs /\ d \in DwAll /\ dwFound.info \in DwInfo(dwClock)
  BY DwAssumption DEF DwInv, DwTypes, DwList, DwAllDirs, DwAll
<1>3. dwTree.node[d] \in DwInfo(dwClock)
  BY <1>2 DEF DwInv, DwTypes
<1>4. upd \in DwInfo(dwClock)
  BY <1>2, <1>3 DEF DwUpdated, DwInfo
<1>0. dwTree = [mounted |-> dwTree.mounted, childs |-> dwTree.childs, node |-> dwTree.node, dirs |-> dwTree.dirs]
  BY DEF DwInv, DwTypes
<1>5. t = [mounted |-> dwTree.mounted, childs |-> dwTree.childs, node |-> [dwTree.node EXCEPT ![d] = upd], dirs |-> dwTree.dirs]
  BY <1>0
<1> HIDE DEF upd, d, t
<1>6. DwTreeOK(t, dwClock) /\ t.childs = dwTree.childs
  <2> DEFINE node == [dwTree.node EXCEPT ![d] = upd]
  <2>1. node \in [DwAll -> DwInfo(dwClock)] /\ dwTree.dirs \subseteq DwDirs
    BY <1>4 DEF DwInv, DwTypes
  <2> HIDE DEF node
  <2>2. t = [mounted |-> dwTree.mounted, childs |-> dwTree.childs, node |-> node, dirs |-> dwTree.dirs]
    BY <1>5 DEF node
  <2> QED
    BY <2>1, <2>2 DEF DwTreeOK
<1>7. dwQuiet' \in -1..3
  BY <1>1 DEF DwShape, DwTickDone
<1>8. dwTodo' \subseteq dwTree'.dirs
  BY <1>1
<1>9. dwOn' = dwOn /\ dwOn
  BY <1>1 DEF DwShape, DwIdle
<1>10. DwChildsOK(dwTree'.childs) /\ \A p \in DwPaths : dwWatch'[p] \in Seq(1..dwClock)
  <2>1. CASE ~DwThere(d)
    <3>1. dwTree' = t /\ UNCHANGED dwWatch
      BY <1>1, <2>1, Zenon DEF DwOnContentChange
    <3> QED
      BY <1>6, <3>1 DEF DwShape
  <2>2. CASE DwThere(d)
    <3> DEFINE there == DwEntries(d)
               kept == DwKeep(t.childs[d], there)
               gone == Range(t.childs[d]) \ Range(kept)
               childs == [e \in DwAllDirs |-> IF e = d THEN kept ELSE IF e \in gone THEN <<>> ELSE t.childs[e]]
               dirs == t.dirs \ DwUnmap(t, gone)
               less == [t EXCEPT !.childs = childs, !.dirs = dirs]
               new == there \ Range(kept)
    <3>1. PICK order \in SetToSeqs(new) : dwTree' = DwAddAll(less, d, order) /\ dwWatch' = DwWatchMore(DwUnder(new))
      BY <1>1, <2>2, Zenon DEF DwOnContentChange
    <3>2. less = [t EXCEPT !.childs = childs, !.dirs = dirs]
      OBVIOUS
    <3>3. kept \in Seq(DwKids(d))
      <4>1. t.childs[d] \in Seq(DwKids(d))
        BY <1>2, <1>6 DEF DwShape, DwChildsOK
      <4> QED
        BY <4>1, DwKept
    <3>4. new \subseteq DwKids(d) /\ IsFiniteSet(new)
      <4>1. there \subseteq DwKids(d) /\ IsFiniteSet(there) /\ new \in SUBSET there
        BY DwEntriesKids
      <4> QED
        BY <4>1, FS_Subset
    <3> HIDE DEF there, kept, gone, dirs, less, new
    <3>5. \A e \in DwAllDirs : childs[e] \in Seq(DwKids(e))
      BY <1>6, <3>3 DEF DwShape, DwChildsOK
    <3> HIDE DEF childs
    <3>6. t = [mounted |-> t.mounted, childs |-> t.childs, node |-> t.node, dirs |-> t.dirs]
      BY <1>6 DEF DwTreeOK
    <3>7. less = [mounted |-> t.mounted, childs |-> childs, node |-> t.node, dirs |-> dirs]
      BY <3>2, <3>6
    <3>8. dirs \subseteq DwDirs
      BY <1>6 DEF dirs, DwTreeOK
    <3>9. DwTreeOK(less, dwClock) /\ less.childs = childs
      BY <1>6, <3>7, <3>8 DEF DwTreeOK
    <3>10. order \in Seq(DwKids(d))
      <4>1. order \in Seq(new)
        BY <3>1, <3>4, InOrder
      <4> QED
        BY <3>4, <4>1
    <3>11. DwChildsOK(dwTree'.childs)
      <4>1. DwChildsOK(less.childs)
        BY <3>5, <3>9 DEF DwChildsOK
      <4> QED
        BY <1>2, <3>1, <3>9, <3>10, <4>1, DwAddAllChilds
    <3>12. \A p \in DwUnder(new) : DwThere(p)
      BY DEF DwUnder
    <3> QED
      BY <3>1, <3>11, <3>12, DwWatchMoreTimes
  <2> QED
    BY <2>1, <2>2
<1> QED
  BY <1>1, <1>7, <1>8, <1>9, <1>10 DEF DwShape

(* A tick and the turns of processSubdirs.                                 *)
LEMMA DwTickShape == DwInv /\ DwShape /\ (DwTick \/ DwSub \/ DwStart) => DwShape'
<1> SUFFICES ASSUME DwInv, DwShape, DwTick \/ DwSub \/ DwStart PROVE DwShape'
  OBVIOUS
<1>0. UNCHANGED dwClock /\ dwOn'
  <2>1. CASE DwTick
    BY <2>1, Zenon DEF DwTick
  <2>2. CASE DwSub
    <3>1. dwTodo # {} /\ dwOn' = dwOn /\ UNCHANGED dwClock
      BY <2>2, Zenon DEF DwSub
    <3> QED
      BY <3>1, Zenon DEF DwShape, DwIdle
  <2>3. CASE DwStart
    BY <2>3, Zenon DEF DwStart
  <2> QED
    BY <2>1, <2>2, <2>3
<1>t. dwTree = [mounted |-> dwTree.mounted, childs |-> dwTree.childs, node |-> dwTree.node, dirs |-> dwTree.dirs]
  BY DEF DwInv, DwTypes
<1>1. ASSUME DwChildsOK(dwTree'.childs), dwTodo' \subseteq dwTree'.dirs, DwTickDone \/ UNCHANGED dwQuiet,
             \A p \in DwPaths : dwWatch'[p] \in Seq(1..dwClock)
      PROVE  DwShape'
  <2>1. dwQuiet' \in -1..3
    BY <1>1 DEF DwShape, DwTickDone
  <2> QED
    BY <1>0, <1>1, <2>1 DEF DwShape
<1>2. DwChildsOK(dwTree.childs) /\ dwTodo \subseteq dwTree.dirs /\ \A p \in DwPaths : dwWatch[p] \in Seq(1..dwClock)
  BY DEF DwShape
<1>3. ASSUME NEW d, dwTree' = [dwTree EXCEPT !.node[d] = DwUpdated(@, dwDisk[d])]
      PROVE  dwTree'.childs = dwTree.childs /\ dwTree'.dirs = dwTree.dirs
  <2> DEFINE node == [dwTree.node EXCEPT ![d] = DwUpdated(@, dwDisk[d])]
  <2>1. dwTree' = [dwTree EXCEPT !.node = node]
    BY <1>3
  <2> HIDE DEF node
  <2> QED
    BY <1>t, <2>1
<1>4. CASE DwStart
  <2>1. DwMount /\ UNCHANGED <<dwTodo, dwQuiet>> /\ dwTodo = {}
    BY <1>4 DEF DwStart, DwShape, DwIdle
  <2> QED
    BY <1>1, <2>1, DwMountShape
<1>5. CASE DwTick
  <2>0. dwTodo = {}
    BY <1>5 DEF DwTick, DwIdle
  <2>1. CASE ~DwThere(<<>>)
    <3>1. (dwTree' = DwEmpty \/ dwTree' = dwTree) /\ DwTickDone /\ UNCHANGED <<dwWatch, dwTodo, dwFound>>
      BY <1>5, <2>1 DEF DwTick
    <3> QED
      BY <1>1, <1>2, <2>0, <3>1, DwEmptyChilds
  <2>2. CASE DwThere(<<>>) /\ ~dwTree.mounted
    <3>1. DwMount /\ DwTickDone /\ UNCHANGED dwTodo
      BY <1>5, <2>2 DEF DwTick
    <3> QED
      BY <1>1, <2>0, <3>1, DwMountShape
  <2>3. CASE DwThere(<<>>) /\ dwTree.mounted /\ dwTree.node[<<>>].mode # dwDisk[<<>>].mode
    <3>1. dwTree' = [dwTree EXCEPT !.node[<<>>] = DwUpdated(@, dwDisk[<<>>])] /\ UNCHANGED <<dwWatch, dwTodo>> /\ DwTickDone
      BY <1>5, <2>3 DEF DwTick
    <3> QED
      BY <1>1, <1>2, <1>3, <2>0, <3>1
  <2>4. CASE DwThere(<<>>) /\ dwTree.mounted /\ dwTree.node[<<>>].mode = dwDisk[<<>>].mode
    <3>1. /\ UNCHANGED <<dwTree, dwWatch>> /\ (dwTodo' = dwTodo \/ dwTodo' = dwTree.dirs)
          /\ DwTickDone \/ UNCHANGED dwQuiet
      BY <1>5, <2>4 DEF DwTick
    <3> QED
      BY <1>1, <1>2, <2>0, <3>1
  <2> QED
    BY <2>1, <2>2, <2>3, <2>4
<1>6. CASE DwSub
  <2>1. PICK d \in dwTodo :
          \/ dwTree' = [dwTree EXCEPT !.dirs = @ \ DwUnmap(dwTree, {d})] /\ dwTodo' = DwRange(d)
          \/ dwTree' = [dwTree EXCEPT !.node[d] = DwUpdated(@, dwDisk[d])] /\ dwTodo' = dwTodo \ {d}
          \/ dwTodo' = dwTodo \ {d} /\ UNCHANGED dwTree
    BY <1>6 DEF DwSub
  <2>2. UNCHANGED dwWatch /\ (DwTickDone \/ UNCHANGED dwQuiet)
    BY <1>6 DEF DwSub
  <2>3. CASE dwTree' = [dwTree EXCEPT !.dirs = @ \ DwUnmap(dwTree, {d})] /\ dwTodo' = DwRange(d)
    <3> DEFINE dirs == dwTree.dirs \ DwUnmap(dwTree, {d})
    <3>1. dwTree' = [dwTree EXCEPT !.dirs = dirs]
      BY <2>3
    <3>2. dwTodo' \subseteq dirs
      BY <1>2, <2>3 DEF DwRange
    <3> HIDE DEF dirs
    <3>3. dwTree'.dirs = dirs /\ dwTree'.childs = dwTree.childs
      BY <1>t, <3>1
    <3> QED
      BY <1>1, <1>2, <2>2, <3>2, <3>3
  <2>4. CASE dwTree' = [dwTree EXCEPT !.node[d] = DwUpdated(@, dwDisk[d])] /\ dwTodo' = dwTodo \ {d}
    <3>1. dwTree'.childs = dwTree.childs /\ dwTree'.dirs = dwTree.dirs
      BY <1>3, <2>4
    <3>2. dwTodo' \subseteq dwTree.dirs
      BY <1>2, <2>4
    <3> QED
      BY <1>1, <1>2, <2>2, <3>1, <3>2
  <2>5. CASE dwTodo' = dwTodo \ {d} /\ UNCHANGED dwTree
    BY <1>1, <1>2, <2>2, <2>5
  <2> QED
    BY <2>1, <2>3, <2>4, <2>5
<1> QED
  BY <1>4, <1>5, <1>6

(* In every behaviour of the watchers and the disk a directory lists only  *)
(* its own entries and a watcher holds a time that was.                    *)
THEOREM WatcherTypes == DwSpec => []DwTypeOK
<1>1. DwInit => DwShape
  <2> SUFFICES ASSUME DwInit PROVE DwShape
    OBVIOUS
  <2>1. dwClock = 1 /\ dwTree = DwEmpty /\ dwTodo = {} /\ dwFound = DwNone /\ dwQuiet = 0 /\ dwWatch = [p \in DwPaths |-> <<>>]
    BY DEF DwInit
  <2> QED
    BY <2>1, DwEmptyChilds, DwAssumption DEF DwShape, DwIdle
<1>2. DwInv /\ DwShape /\ [DwNext]_dwVars => DwShape'
  <2> SUFFICES ASSUME DwInv, DwShape, [DwNext]_dwVars PROVE DwShape'
    OBVIOUS
  <2>1. CASE UNCHANGED dwVars
    BY <2>1 DEF dwVars, DwShape, DwIdle
  <2>2. CASE DwCreate \/ DwRemove \/ DwWrite \/ DwChmod
    <3>1. /\ dwClock < DwMaxChange /\ dwClock' = dwClock + 1 /\ dwQuiet' \in {0, -1}
          /\ UNCHANGED <<dwOn, dwTree, dwWatch, dwTodo, dwFound>>
      BY <2>2 DEF DwCreate, DwRemove, DwWrite, DwChmod, DwDiskChange
    <3>2. 1..dwClock \subseteq 1..dwClock' /\ dwClock' \in 1..DwMaxChange /\ dwQuiet' \in -1..3
      BY <3>1, DwAssumption DEF DwShape
    <3>3. \A p \in DwPaths : dwWatch'[p] \in Seq(1..dwClock')
      BY <3>1, <3>2 DEF DwShape
    <3> QED
      BY <3>1, <3>2, <3>3 DEF DwShape, DwIdle
  <2>3. CASE DwWatcherTick
    <3>1. PICK p \in DwPaths : \E i \in 1..Len(dwWatch[p]) :
            dwWatch' = [dwWatch EXCEPT ![p] = IF DwThere(p) THEN [@ EXCEPT ![i] = dwDisk[p].mtime] ELSE RemoveAt(@, i)]
      BY <2>3 DEF DwWatcherTick
    <3>2. PICK i \in 1..Len(dwWatch[p]) :
            dwWatch' = [dwWatch EXCEPT ![p] = IF DwThere(p) THEN [@ EXCEPT ![i] = dwDisk[p].mtime] ELSE RemoveAt(@, i)]
      BY <3>1
    <3>3. UNCHANGED <<dwClock, dwOn, dwTree, dwTodo, dwFound, dwQuiet>>
      BY <2>3 DEF DwWatcherTick
    <3> DEFINE s == dwWatch[p]
               seen == [s EXCEPT ![i] = dwDisk[p].mtime]
               left == RemoveAt(s, i)
               T == 1..dwClock
    <3>4. s \in Seq(T) /\ dwDisk[p] \in DwInfo(dwClock) /\ dwClock \in Nat /\ dwWatch \in [DwPaths -> Seq(Nat)]
      BY DEF DwShape, DwInv, DwTypes, DwAll
    <3>5. DwThere(p) => dwDisk[p].mtime \in T
      BY <3>4 DEF DwThere, DwInfo
    <3> HIDE DEF T
    <3>6. DwThere(p) => seen \in Seq(T)
      BY <3>4, <3>5
    <3>7. left \in Seq(T)
      BY <3>4 DEF RemoveAt
    <3>8. dwWatch' = [dwWatch EXCEPT ![p] = IF DwThere(p) THEN seen ELSE left]
      BY <3>2
    <3> HIDE DEF seen, left
    <3>9. \A q \in DwPaths : dwWatch'[q] \in Seq(T)
      BY <3>4, <3>6, <3>7, <3>8 DEF DwShape, T
    <3> QED
      BY <3>3, <3>9 DEF DwShape, DwIdle, T
  <2>4. CASE DwMountFail
    <3>1. /\ dwClock < DwMaxChange /\ dwClock' = dwClock + 1 /\ dwQuiet' = 0 /\ dwTree' = [DwEmpty EXCEPT !.mounted = TRUE]
          /\ DwIdle /\ UNCHANGED <<dwOn, dwWatch, dwTodo, dwFound>>
      BY <2>4 DEF DwMountFail
    <3>2. 1..dwClock \subseteq 1..dwClock' /\ dwClock' \in 1..DwMaxChange
      BY <3>1, DwAssumption DEF DwShape
    <3>3. dwTree'.childs = DwEmpty.childs
      BY <3>1 DEF DwEmpty
    <3>4. \A p \in DwPaths : dwWatch'[p] \in Seq(1..dwClock')
      BY <3>1, <3>2 DEF DwShape
    <3> QED
      BY <3>1, <3>2, <3>3, <3>4, DwEmptyChilds DEF DwShape, DwIdle
  <2>5. CASE DwPanic
    <3>1. /\ DwIdle /\ dwTree' = DwEmpty /\ dwWatch' = [p \in DwPaths |-> <<>>] /\ dwQuiet' = 0
          /\ UNCHANGED <<dwClock, dwTodo, dwFound>>
      BY <2>5 DEF DwPanic
    <3> QED
      BY <3>1, DwEmptyChilds DEF DwShape, DwIdle
  <2> QED
    BY <2>1, <2>2, <2>3, <2>4, <2>5, DwListShape, DwTickShape DEF DwNext
<1>3. DwInv /\ DwShape => DwTypeOK
  <2> SUFFICES ASSUME DwInv, DwShape PROVE DwTypeOK
    OBVIOUS
  <2>1. ASSUME NEW d \in DwAllDirs, NEW p \in Range(dwTree.childs[d]) PROVE p \in DwPaths \ DwExcluded /\ Front(p) = d
    <3>1. dwTree.childs[d] \in Seq(DwKids(d))
      BY DEF DwShape, DwChildsOK
    <3>2. p \in DwKids(d)
      BY <3>1 DEF Range
    <3> QED
      BY <3>2 DEF DwKids
  <2>2. ASSUME NEW p \in DwPaths, NEW i \in 1..Len(dwWatch[p]) PROVE dwWatch[p][i] \in 1..dwClock
    BY DEF DwShape
  <2>3. dwTree.dirs \subseteq DwDirs
    BY DEF DwInv, DwTypes
  <2> QED
    BY <2>1, <2>2, <2>3 DEF DwTypeOK, DwShape
<1> QED
  BY <1>1, <1>2, <1>3, DwInitInv, DwStepInv, PTL DEF DwSpec
-----------------------------------------------------------------------------
(* The types of the server's state, and of the run that has every          *)
(* component on disk.                                                      *)

HtStatuses == {-1, 0, 200, 204, 400, 404, 500, 501} \cup HtCodes

(* ServeHTTP answers with one of the statuses the code names, or panics.   *)
LEMMA HtStatusKnown == ASSUME NEW m, NEW path, NEW fails, NEW code \in HtCodes
                      PROVE  HtServeHTTP(m, path, fails, code).status \in HtStatuses
<1>1. HtHandleFS(path, fails).status \in HtStatuses
  BY HtAnswers DEF HtHandleFS, HtStatuses
<1>2. HtAnswer(404).status \in HtStatuses /\ HtAnswer(501).status \in HtStatuses /\ HtAnswer(200).status \in HtStatuses
      /\ HtAnswer(204).status \in HtStatuses
  BY HtAnswers DEF HtStatuses
<1>3. \A i : HtCall(m, i, path, fails, code).status \in HtStatuses
  BY HtCalled DEF HtStatuses
<1>4. HtHandle(m, path, fails, code) \in {HtCall(m, HtFirst(m, path), path, fails, code), HtHandleFS(path, fails), HtAnswer(404)}
  BY Zenon DEF HtHandle
<1>5. HtHandleHead(path, fails) \in {HtHandleFS(path, fails), HtAnswer(204), HtAnswer(200)}
  <2>1. CASE HtMatches("GET", path) = {}
    BY <2>1, Zenon DEF HtHandleHead
  <2>2. CASE HtMatches("GET", path) # {}
    BY <2>2, ZenonT(60) DEF HtHandleHead
  <2> QED
    BY <2>1, <2>2
<1>6. HtHandleOptions(path).status \in HtStatuses
  <2> DEFINE all == HtAllow(path) \cup {"OPTIONS"}
             found == [HtAnswer(200) EXCEPT !.allow = all]
  <2>1. HtHandleOptions(path) = HtAnswer(404) \/ HtHandleOptions(path) = found
    BY Zenon DEF HtHandleOptions
  <2> HIDE DEF all
  <2>2. found.status = HtAnswer(200).status
    BY DEF HtAnswer, HtNoRes
  <2> HIDE DEF found
  <2> QED
    BY <1>2, <2>1, <2>2
<1>7. HtServeHTTP(m, path, fails, code) \in {HtHandle(m, path, fails, code), HtHandleHead(path, fails), HtHandleOptions(path), HtAnswer(501)}
  BY ZenonT(60) DEF HtServeHTTP
<1>8. HtHandle(m, path, fails, code).status \in HtStatuses
  BY <1>1, <1>2, <1>3, <1>4
<1>9. HtHandleHead(path, fails).status \in HtStatuses
  BY <1>1, <1>2, <1>5
<1> QED
  BY <1>2, <1>6, <1>7, <1>8, <1>9

(* In every behaviour of the HTTP server no route has a key twice or a key *)
(* without name, and a request gets a status the code names.               *)
THEOREM RouteKeys == HtSpec => []HtTypeOK
<1>1. HtInit => HtTypeOK
  <2> SUFFICES ASSUME HtInit PROVE HtTypeOK
    OBVIOUS
  <2>1. htEvals \in BOOLEAN
    BY Zenon DEF HtInit
  <2>2. htFS = {} /\ htRoutes = [m \in HtMethods |-> <<>>] /\ htRes = HtNoRes
    BY Zenon DEF HtInit
  <2>3. htRes.status = 0
    BY <2>2 DEF HtNoRes
  <2> QED
    BY <2>1, <2>2, <2>3 DEF HtTypeOK
<1>2. HtInv /\ HtTypeOK /\ [HtNext]_htVars => HtTypeOK'
  <2> SUFFICES ASSUME HtInv, HtTypeOK, [HtNext]_htVars PROVE HtTypeOK'
    OBVIOUS
  <2>0. htFS \subseteq HtFiles /\ htRes.status \in HtStatuses
    BY DEF HtTypeOK, HtStatuses
  <2>b. htEvals \in BOOLEAN
    BY ZenonT(60) DEF HtTypeOK
  <2>k. \A m \in HtMethods : \A i \in DOMAIN htRoutes[m] : HtKeysOK(htRoutes[m][i].nodes)
    BY ZenonT(60) DEF HtTypeOK
  <2>n. HtNoRes.status \in HtStatuses
    BY DEF HtNoRes, HtStatuses
  <2>1. htEvals' \in BOOLEAN
    BY <2>b, Zenon DEF HtNext, HtNew, HtRegister, HtRegisterEvaluator, HtServe, htVars
  <2>2. htFS' \subseteq HtFiles
    BY <2>0, Zenon DEF HtNext, HtNew, HtRegister, HtRegisterEvaluator, HtServe, htVars
  <2>3. htRes' \in {htRes, HtNoRes} \/ \E m, path, fails : \E code \in HtCodes : htRes' = HtServeHTTP(m, path, fails, code)
    BY Zenon DEF HtNext, HtNew, HtRegister, HtRegisterEvaluator, HtServe, htVars
  <2>4. htRes'.status \in HtStatuses
    BY <2>0, <2>n, <2>3, HtStatusKnown
  <2>5. \A m \in HtMethods : \A i \in DOMAIN htRoutes'[m] : HtKeysOK(htRoutes'[m][i].nodes)
    <3>1. CASE HtRegister
      <4> SUFFICES ASSUME NEW n \in HtMethods, NEW i \in DOMAIN htRoutes'[n] PROVE HtKeysOK(htRoutes'[n][i].nodes)
        OBVIOUS
      <4>1. PICK m \in HtMethods, path \in HtPaths, kind \in HtKinds :
              /\ HtKeysOK(HtNodes(path))
              /\ htRoutes' = [htRoutes EXCEPT ![m] = Append(@,
                   [path |-> path, nodes |-> HtNodes(path), reqt |-> HtRequestType(m, kind[1]),
                    rest |-> HtResponseType(m, kind[2]), eval |-> kind[3]])]
        BY <3>1 DEF HtRegister
      <4> DEFINE r == [path |-> path, nodes |-> HtNodes(path), reqt |-> HtRequestType(m, kind[1]),
                       rest |-> HtResponseType(m, kind[2]), eval |-> kind[3]]
      <4>2. r \in HtRoute /\ r.nodes = HtNodes(path)
        BY HtRouteMade
      <4>3. htRoutes' = [htRoutes EXCEPT ![m] = Append(@, r)]
        BY <4>1
      <4> HIDE DEF r
      <4>4. htRoutes[m] \in Seq(HtRoute) /\ htRoutes \in [HtMethods -> Seq(HtRoute)]
        BY DEF HtInv, HtTypes
      <4>5. CASE n # m
        <5>1. htRoutes'[n] = htRoutes[n]
          BY <4>3, <4>4, <4>5
        <5> QED
          BY <2>k, <5>1
      <4>6. CASE n = m
        <5>1. htRoutes'[n] = Append(htRoutes[m], r)
          BY <4>3, <4>4, <4>6
        <5>2. i \in 1..(Len(htRoutes[m]) + 1)
          BY <4>4, <5>1
        <5>3. CASE i = Len(htRoutes[m]) + 1
          <6>1. htRoutes'[n][i] = r
            BY <4>4, <5>1, <5>3
          <6> QED
            BY <4>1, <4>2, <6>1
        <5>4. CASE i # Len(htRoutes[m]) + 1
          <6>1. htRoutes'[n][i] = htRoutes[m][i] /\ i \in DOMAIN htRoutes[m]
            BY <4>4, <5>1, <5>2, <5>4
          <6> QED
            BY <2>k, <6>1
        <5> QED
          BY <5>3, <5>4
      <4> QED
        BY <4>5, <4>6
    <3>2. CASE HtNew \/ HtRegisterEvaluator \/ HtServe \/ UNCHANGED htVars
      <4>1. htRoutes' = htRoutes
        BY <3>2 DEF HtNew, HtRegisterEvaluator, HtServe, htVars
      <4> QED
        BY <2>k, <4>1
    <3> QED
      BY <3>1, <3>2 DEF HtNext
  <2> QED
    BY <2>1, <2>2, <2>4, <2>5, ZenonT(60) DEF HtTypeOK, HtStatuses
<1> QED
  BY <1>1, <1>2, HtInitInv, HtNextInv, PTL DEF HtSpec

(* Every component of the run on disk keeps its types: each step of the    *)
(* run is a step of the component, or leaves it as it is.                  *)
THEOREM FilesTypes == MCSpec => []FilesTypeOK
<1>1. MCInit => MfInit /\ DwInit /\ MdInit /\ SlInit /\ HtInit
  BY DEF MCInit
<1>2. ASSUME [MCNext]_<<part, mfVars, dwVars, mdVars, slVars, htVars>>
      PROVE  [MfNext]_mfVars /\ [DwNext]_dwVars /\ [MdNext]_mdVars /\ [SlNext]_slVars /\ [HtNext]_htVars
  BY <1>2 DEF MCNext
<1>3. MfSpec => []MfTypeOK
  BY TreeIndexed, PTL
<1>4. MfTypeOK /\ DwTypeOK /\ MdTypeOK /\ SlTypeOK /\ HtTypeOK => FilesTypeOK
  BY DEF FilesTypeOK
<1> QED
  BY <1>1, <1>2, <1>3, <1>4, WatcherTypes, MdTypeCorrect, SlTypeCorrect, RouteKeys, PTL
  DEF MCSpec, MfSpec, DwSpec, MdSpec, SlSpec, HtSpec

-----------------------------------------------------------------------------
(* Hosts files.                                                            *)
HsWordType == [kind : HsKinds \cup {HsNone.kind}, line : Nat, first : BOOLEAN]
HsMsgType == [addr : HsWordType, name : HsWordType]
HsTypes == /\ hsWords \in 0..HsMaxWords /\ hsLine \in Nat /\ hsTrailing \in BOOLEAN /\ hsWant \in {"addr", "name"}
           /\ hsAddr \in HsWordType /\ hsMsgs \in Seq(HsMsgType) /\ Len(hsMsgs) <= hsWords

\* Unless a line ended in blanks, the address in hand is on the line the next word is on.
HsInHand == ~hsTrailing /\ hsWant = "name" => hsAddr.line = hsLine
HsInv == HsTypes /\ HsInHand /\ HsOwnLine

(* What newMessage makes of a word is nothing or one message.              *)
LEMMA HsMessageIs == ASSUME NEW addr \in HsWordType, NEW name \in HsWordType
                     PROVE  HsMessage(addr, name) \in {<<>>, <<[addr |-> addr, name |-> name]>>}
  BY DEF HsMessage

(* The parser starts without a word.                                       *)
LEMMA HsInitInv == HsInit => HsInv
<1> SUFFICES ASSUME HsInit PROVE HsInv
  OBVIOUS
<1>1. HsNone \in HsWordType
  <2>1. FALSE \in BOOLEAN /\ 0 \in Nat
    OBVIOUS
  <2>2. \E none : \E b \in BOOLEAN : \E l \in Nat : HsNone = [kind |-> none, line |-> l, first |-> b]
    BY <2>1, Zenon DEF HsNone
  <2> HIDE DEF HsNone
  <2> QED
    BY <2>2 DEF HsWordType
<1>5. hsTrailing \in BOOLEAN
  BY Zenon DEF HsInit
<1>2. hsWords = 0 /\ hsLine = 1 /\ hsWant = "addr" /\ hsAddr = HsNone /\ hsMsgs = <<>>
  BY Zenon DEF HsInit
<1>3. HsTypes
  BY <1>1, <1>2, <1>5, HsAssumption DEF HsTypes
<1>4. HsInHand /\ HsOwnLine
  BY <1>2 DEF HsInHand, HsOwnLine
<1> QED
  BY <1>3, <1>4 DEF HsInv

(* A word keeps the invariant.                                             *)
LEMMA HsWordInv == HsInv /\ HsWord => HsInv'
<1> SUFFICES ASSUME HsInv, HsWord PROVE HsInv'
  OBVIOUS
<1>1. PICK kind \in HsKinds, end \in HsEnds, first \in BOOLEAN :
        LET word == [kind |-> kind, line |-> hsLine, first |-> first]
        IN /\ hsWords < HsMaxWords /\ hsWords' = hsWords + 1
           /\ hsLine' = IF end = "blank" THEN hsLine ELSE hsLine + 1
           /\ hsTrailing' = (hsTrailing \/ end = "blanks eol")
           /\ IF hsWant = "addr"
              THEN hsAddr' = word /\ UNCHANGED hsMsgs
              ELSE hsMsgs' = hsMsgs \o HsMessage(hsAddr, word) /\ UNCHANGED hsAddr
           /\ hsWant' = IF HsEntryEnds(end) THEN "addr" ELSE "name"
  <2>1. (hsWant = "addr") \in BOOLEAN
    OBVIOUS
  <2> QED
    BY <2>1, Zenon DEF HsWord
<1> DEFINE word == [kind |-> kind, line |-> hsLine, first |-> first]
<1>2. word \in HsWordType /\ word.line = hsLine
  <2>1. hsLine \in Nat
    BY DEF HsInv, HsTypes
  <2> QED
    BY <2>1 DEF HsWordType
<1> HIDE DEF word
<1>3. /\ hsWords < HsMaxWords /\ hsWords' = hsWords + 1
      /\ hsLine' = IF end = "blank" THEN hsLine ELSE hsLine + 1
      /\ hsTrailing' = (hsTrailing \/ end = "blanks eol")
      /\ hsWant' = IF HsEntryEnds(end) THEN "addr" ELSE "name"
  BY <1>1
<1>4. hsWant = "addr" => hsAddr' = word /\ hsMsgs' = hsMsgs
  BY <1>1 DEF word
<1>5. hsWant # "addr" => hsMsgs' = hsMsgs \o HsMessage(hsAddr, word) /\ hsAddr' = hsAddr
  BY <1>1 DEF word
<1>6. hsTrailing' \in BOOLEAN /\ hsLine' \in Nat /\ hsWords' \in 0..HsMaxWords /\ hsWant' \in {"addr", "name"}
  <2>1. hsTrailing' \in BOOLEAN
    BY <1>3, Zenon
  <2>2. /\ hsWords < HsMaxWords /\ hsWords' = hsWords + 1 /\ hsLine' \in {hsLine, hsLine + 1}
        /\ hsWant' \in {"addr", "name"}
    BY <1>3, Zenon
  <2> QED
    BY <2>1, <2>2, HsAssumption DEF HsInv, HsTypes
<1>7. ~hsTrailing' => ~hsTrailing /\ (hsWant' = "name" => hsLine' = hsLine)
  BY <1>3 DEF HsEntryEnds, HsEnds
<1>8. CASE hsWant = "addr"
  <2>0. hsWords' = hsWords + 1
    BY <1>3
  <2>1. HsTypes'
    BY <1>2, <1>4, <1>6, <1>8, <2>0 DEF HsInv, HsTypes
  <2>2. HsInHand' /\ HsOwnLine'
    BY <1>2, <1>4, <1>7, <1>8 DEF HsInv, HsInHand, HsOwnLine
  <2> QED
    BY <2>1, <2>2 DEF HsInv
<1>9. CASE hsWant # "addr"
  <2> DEFINE m == [addr |-> hsAddr, name |-> word]
  <2>0. hsAddr \in HsWordType /\ hsMsgs \in Seq(HsMsgType) /\ hsWant = "name" /\ hsAddr' = hsAddr
    BY <1>5, <1>9 DEF HsInv, HsTypes
  <2>1. m \in HsMsgType /\ m.addr = hsAddr /\ m.name = word
    BY <1>2, <2>0 DEF HsMsgType
  <2>2. hsMsgs' = hsMsgs \o <<>> \/ hsMsgs' = hsMsgs \o <<m>>
    BY <1>2, <1>5, <1>9, <2>0, HsMessageIs
  <2> HIDE DEF m
  <2>3. hsMsgs' = hsMsgs \/ hsMsgs' = Append(hsMsgs, m)
    BY <2>0, <2>1, <2>2
  <2>9. hsWords' = hsWords + 1
    BY <1>3
  <2>4. hsMsgs' \in Seq(HsMsgType) /\ Len(hsMsgs') <= hsWords'
    BY <2>9, <2>0, <2>1, <2>3 DEF HsInv, HsTypes
  <2>5. HsTypes'
    BY <1>6, <2>0, <2>4 DEF HsTypes
  <2>6. HsInHand'
    BY <1>7, <2>0 DEF HsInv, HsInHand
  <2>7. ~hsTrailing' => hsAddr.line = word.line
    BY <1>2, <1>7, <2>0 DEF HsInv, HsInHand
  <2>8. HsOwnLine'
    BY <1>7, <2>0, <2>1, <2>3, <2>7 DEF HsInv, HsOwnLine
  <2> QED
    BY <2>5, <2>6, <2>8 DEF HsInv
<1> QED
  BY <1>8, <1>9

(* In every behaviour of the parser of hosts files a name gets the address *)
(* of its own line, as long as no line ended in blanks.                    *)
THEOREM HostsOwnLine == HsSpec => [](HsOwnLine /\ HsTypeOK)
<1>1. HsInv /\ [HsNext]_hsVars => HsInv'
  <2>1. HsInv /\ UNCHANGED hsVars => HsInv'
    BY DEF hsVars, HsInv, HsTypes, HsInHand, HsOwnLine
  <2> QED
    BY <2>1, HsWordInv DEF HsNext
<1>2. HsInv => HsOwnLine /\ HsTypeOK
  BY DEF HsInv, HsTypes, HsTypeOK
<1> QED
  BY <1>1, <1>2, HsInitInv, PTL DEF HsSpec

-----------------------------------------------------------------------------
(* Zone files.                                                             *)
MzMsgOK(m) == m = [name |-> m.name, type |-> m.type, class |-> m.class, answer |-> m.answer]
MzMsgsOK(msgs) == (\E S : msgs \in Seq(S)) /\ \A i \in DOMAIN msgs : MzMsgOK(msgs[i])
MzApart(msgs) == \A i, j \in DOMAIN msgs : i # j => ~MzQuestion(msgs[i], msgs[j])
MzIncludes(file) == \E n \in DOMAIN file : file[n].kind = "include"
MzInv == /\ mzFile \in Seq(MzLines) /\ MzMsgsOK(mzMsgs)
         /\ MzApart(mzMsgs) \/ MzIncludes(mzFile)

(* A line is added after the others.                                       *)
LEMMA MzLineAdded == ASSUME NEW file \in Seq(MzLines), NEW line \in MzLines
                     PROVE  /\ Append(file, line) \in Seq(MzLines)
                            /\ MzIncludes(file) \/ line.kind = "include" => MzIncludes(Append(file, line))
<1> DEFINE n == Len(file)
           new == Append(file, line)
<1>1. n \in Nat /\ DOMAIN file = 1..n /\ DOMAIN new = 1..(n + 1) /\ new[n + 1] = line /\ \A i \in 1..n : new[i] = file[i]
  OBVIOUS
<1>2. new \in Seq(MzLines)
  OBVIOUS
<1> HIDE DEF n, new
<1>3. n + 1 \in DOMAIN new /\ \A i \in DOMAIN file : i \in DOMAIN new /\ new[i] = file[i]
  BY <1>1
<1>4. MzIncludes(file) \/ line.kind = "include" => MzIncludes(new)
  BY <1>1, <1>3 DEF MzIncludes
<1> QED
  BY <1>2, <1>4 DEF new

(* A message at the end of the others.                                     *)
LEMMA MzMsgAdded == ASSUME NEW msgs, MzMsgsOK(msgs), NEW m, MzMsgOK(m)
                    PROVE  /\ MzMsgsOK(Append(msgs, m))
                           /\ MzApart(msgs) /\ (\A i \in DOMAIN msgs : ~MzQuestion(msgs[i], m)) => MzApart(Append(msgs, m))
<1>1. PICK S : msgs \in Seq(S)
  BY DEF MzMsgsOK
<1> DEFINE T == S \cup {m}
           n == Len(msgs)
           new == Append(msgs, m)
<1>2. msgs \in Seq(T) /\ m \in T
  BY <1>1
<1> HIDE DEF T
<1>3. new \in Seq(T) /\ n \in Nat /\ DOMAIN msgs = 1..n /\ DOMAIN new = 1..(n + 1) /\ new[n + 1] = m
      /\ \A i \in 1..n : new[i] = msgs[i]
  BY <1>2
<1> HIDE DEF n, new
<1>4. \A i \in DOMAIN new : (i \in DOMAIN msgs /\ new[i] = msgs[i]) \/ (i = n + 1 /\ new[i] = m)
  BY <1>3
<1>5. MzMsgsOK(new)
  BY <1>3, <1>4 DEF MzMsgsOK
<1>6. ASSUME MzApart(msgs), \A i \in DOMAIN msgs : ~MzQuestion(msgs[i], m) PROVE MzApart(new)
  <2> SUFFICES ASSUME NEW i \in DOMAIN new, NEW j \in DOMAIN new, i # j PROVE ~MzQuestion(new[i], new[j])
    BY DEF MzApart
  <2>1. CASE i \in DOMAIN msgs /\ new[i] = msgs[i] /\ j \in DOMAIN msgs /\ new[j] = msgs[j]
    BY <1>6, <2>1 DEF MzApart
  <2>2. CASE i \in DOMAIN msgs /\ new[i] = msgs[i] /\ new[j] = m
    BY <1>6, <2>2
  <2>3. CASE new[i] = m /\ j \in DOMAIN msgs /\ new[j] = msgs[j]
    BY <1>6, <2>3 DEF MzQuestion
  <2> QED
    BY <1>4, <2>1, <2>2, <2>3
<1> QED
  BY <1>5, <1>6 DEF new

(* Records are added to a message or changed in it; its question stays.    *)
LEMMA MzAnswersChanged ==
  ASSUME NEW msgs, MzMsgsOK(msgs), NEW new, DOMAIN new = DOMAIN msgs, new = [i \in DOMAIN new |-> new[i]],
         \A i \in DOMAIN msgs : \E a : new[i] = [msgs[i] EXCEPT !.answer = a]
  PROVE  MzMsgsOK(new) /\ (MzApart(msgs) => MzApart(new))
<1>1. PICK S : msgs \in Seq(S)
  BY DEF MzMsgsOK
<1>2. PICK n \in Nat : DOMAIN new = 1..n /\ DOMAIN msgs = 1..n
  BY <1>1
<1> DEFINE T == {new[i] : i \in 1..n}
<1>3. new \in Seq(T)
  BY <1>2
<1>4. ASSUME NEW i \in DOMAIN msgs
      PROVE  new[i].name = msgs[i].name /\ new[i].type = msgs[i].type /\ new[i].class = msgs[i].class /\ MzMsgOK(new[i])
  <2>1. PICK a : new[i] = [msgs[i] EXCEPT !.answer = a]
    OBVIOUS
  <2>2. msgs[i] = [name |-> msgs[i].name, type |-> msgs[i].type, class |-> msgs[i].class, answer |-> msgs[i].answer]
    BY DEF MzMsgsOK, MzMsgOK
  <2>3. new[i] = [name |-> msgs[i].name, type |-> msgs[i].type, class |-> msgs[i].class, answer |-> a]
    BY <2>1, <2>2
  <2> QED
    BY <2>3 DEF MzMsgOK
<1>5. MzMsgsOK(new)
  BY <1>3, <1>4 DEF MzMsgsOK
<1>6. MzApart(msgs) => MzApart(new)
  BY <1>4 DEF MzApart, MzQuestion
<1> QED
  BY <1>5, <1>6

(* push enters a record under the question that has a message, or makes    *)
(* one for it.                                                             *)
LEMMA MzPushed == ASSUME NEW msgs, MzMsgsOK(msgs), NEW rr
                  PROVE  MzMsgsOK(MzPush(msgs, rr)) /\ (MzApart(msgs) => MzApart(MzPush(msgs, rr)))
<1> DEFINE same == MzSame(msgs, rr)
           m == [name |-> rr.name, type |-> rr.type, class |-> rr.class, answer |-> <<rr>>]
<1>1. CASE same = {}
  <2>1. MzPush(msgs, rr) = Append(msgs, m)
    BY <1>1 DEF MzPush
  <2>2. MzMsgOK(m)
    BY DEF MzMsgOK
  <2>3. \A i \in DOMAIN msgs : ~MzQuestion(msgs[i], m)
    BY <1>1 DEF MzSame, MzQuestion
  <2> HIDE DEF m
  <2> QED
    BY <2>1, <2>2, <2>3, MzMsgAdded
<1>2. CASE same # {}
  <2> DEFINE i == CHOOSE k \in same : \A j \in same : k <= j
             a == Append(msgs[i].answer, rr)
             new == [msgs EXCEPT ![i].answer = a]
  <2>1. MzPush(msgs, rr) = new
    BY <1>2 DEF MzPush
  <2>2. PICK S : msgs \in Seq(S)
    BY DEF MzMsgsOK
  <2> HIDE DEF i, a
  <2>3. DOMAIN new = DOMAIN msgs /\ new = [k \in DOMAIN new |-> new[k]]
    BY <2>2
  <2>4. ASSUME NEW k \in DOMAIN msgs PROVE \E b : new[k] = [msgs[k] EXCEPT !.answer = b]
    <3>1. CASE k = i
      <4>1. new[k] = [msgs[k] EXCEPT !.answer = a]
        BY <2>2, <3>1
      <4> QED
        BY <4>1
    <3>2. CASE k # i
      <4>1. new[k] = msgs[k]
        BY <2>2, <3>2
      <4>2. msgs[k] = [name |-> msgs[k].name, type |-> msgs[k].type, class |-> msgs[k].class, answer |-> msgs[k].answer]
        BY DEF MzMsgsOK, MzMsgOK
      <4>3. msgs[k] = [msgs[k] EXCEPT !.answer = msgs[k].answer]
        BY <4>2
      <4> QED
        BY <4>1, <4>3
    <3> QED
      BY <3>1, <3>2
  <2>5. \A k \in DOMAIN msgs : \E b : new[k] = [msgs[k] EXCEPT !.answer = b]
    BY <2>4
  <2> HIDE DEF new
  <2>6. MzMsgsOK(new) /\ (MzApart(msgs) => MzApart(new))
    BY <2>3, <2>5, MzAnswersChanged
  <2> QED
    BY <2>1, <2>6
<1> QED
  BY <1>1, <1>2

(* The end of an iteration of parse.                                       *)
LEMMA MzLineEnds == ASSUME MzInv, NEW line \in MzLines, NEW rr, NEW msgs, MzMsgsOK(msgs),
                           MzApart(msgs) \/ MzIncludes(mzFile) \/ line.kind = "include", MzEndOfLine(line, rr, msgs)
                    PROVE  MzInv'
<1>1. mzFile \in Seq(MzLines) /\ mzFile' = Append(mzFile, line)
  BY DEF MzInv, MzEndOfLine
<1>2. mzFile' \in Seq(MzLines) /\ (MzIncludes(mzFile) \/ line.kind = "include" => MzIncludes(mzFile'))
  BY <1>1, MzLineAdded
<1>3. mzMsgs' = msgs \/ mzMsgs' = MzPush(msgs, rr)
  BY DEF MzEndOfLine
<1>4. MzMsgsOK(mzMsgs') /\ (MzApart(msgs) => MzApart(mzMsgs'))
  BY <1>3, MzPushed
<1> QED
  BY <1>2, <1>4 DEF MzInv

(* In every behaviour of the parser of zone files a question has one       *)
(* message, unless a file was included.                                    *)
THEOREM ZoneOneMessage == MzSpec => []MzOneMessage
<1>1. MzInit => MzInv
  <2> SUFFICES ASSUME MzInit PROVE MzInv
    OBVIOUS
  <2>1. mzFile = <<>> /\ mzMsgs = <<>>
    BY DEF MzInit
  <2> QED
    BY <2>1 DEF MzInv, MzMsgsOK, MzApart
<1>2. MzInv /\ [MzNext]_mzVars => MzInv'
  <2> SUFFICES ASSUME MzInv, [MzNext]_mzVars PROVE MzInv'
    OBVIOUS
  <2>0. mzFile \in Seq(MzLines) /\ MzMsgsOK(mzMsgs) /\ (MzApart(mzMsgs) \/ MzIncludes(mzFile))
    BY DEF MzInv
  <2>1. CASE MzStart \/ UNCHANGED mzVars
    <3>1. UNCHANGED <<mzFile, mzMsgs>>
      BY <2>1 DEF MzStart, mzVars
    <3> QED
      BY <2>0, <3>1 DEF MzInv
  <2>2. CASE MzRecord
    <3>0. PICK line \in MzLines : \E rr :
            \/ MzEndOfLine(line, rr, mzMsgs)
            \/ mzFile' = Append(mzFile, line) /\ UNCHANGED mzMsgs
      BY <2>2, Zenon DEF MzRecord
    <3>1. PICK rr :
            \/ MzEndOfLine(line, rr, mzMsgs)
            \/ mzFile' = Append(mzFile, line) /\ UNCHANGED mzMsgs
      BY <3>0, Zenon
    <3>2. CASE MzEndOfLine(line, rr, mzMsgs)
      BY <2>0, <3>2, MzLineEnds
    <3>3. CASE mzFile' = Append(mzFile, line) /\ UNCHANGED mzMsgs
      <4>1. mzFile' \in Seq(MzLines) /\ (MzIncludes(mzFile) => MzIncludes(mzFile'))
        BY <2>0, <3>3, MzLineAdded
      <4> QED
        BY <2>0, <3>3, <4>1 DEF MzInv
    <3> QED
      BY <3>1, <3>2, <3>3
  <2>3. CASE MzOriginLine \/ MzTTLLine
    <3>1. PICK line \in MzLines : MzEndOfLine(line, mzRR, mzMsgs)
      BY <2>3, Zenon DEF MzOriginLine, MzTTLLine
    <3> QED
      BY <2>0, <3>1, MzLineEnds
  <2>4. CASE MzIncludeLine
    <3> DEFINE rr(line) == [line |-> Len(mzFile) + 1,
                            name |-> <<"inc">> \o (IF line.name = <<>> THEN MzFileName ELSE line.name),
                            class |-> "IN", type |-> "A", ttl |-> IF mzTTL = 0 THEN MzDefTTL ELSE mzTTL]
               m(line) == [name |-> rr(line).name, type |-> "A", class |-> "IN", answer |-> <<rr(line)>>]
    <3>1. PICK line \in MzLines : line.kind = "include" /\ MzEndOfLine(line, mzRR, Append(mzMsgs, m(line)))
      BY <2>4, Zenon DEF MzIncludeLine
    <3> HIDE DEF rr
    <3>2. MzMsgOK(m(line))
      BY DEF MzMsgOK
    <3> HIDE DEF m
    <3>3. MzMsgsOK(Append(mzMsgs, m(line)))
      BY <2>0, <3>2, MzMsgAdded
    <3> QED
      BY <3>1, <3>3, MzLineEnds
  <2>5. CASE MzLose \/ MzSpoil
    <3>1. PICK line \in MzLines : mzFile' = Append(mzFile, line) /\ UNCHANGED mzMsgs
      BY <2>5, Zenon DEF MzLose, MzSpoil
    <3>2. mzFile' \in Seq(MzLines) /\ (MzIncludes(mzFile) => MzIncludes(mzFile'))
      BY <2>0, <3>1, MzLineAdded
    <3> QED
      BY <2>0, <3>1, <3>2 DEF MzInv
  <2>6. CASE MzEnd
    <3> DEFINE ttl == IF mzTTL = 0 THEN MzDefTTL ELSE mzTTL
               raise(rr) == [rr EXCEPT !.ttl = IF @ < ttl THEN ttl ELSE @]
               answer(i) == [j \in DOMAIN mzMsgs[i].answer |-> raise(mzMsgs[i].answer[j])]
               new == [i \in DOMAIN mzMsgs |-> [mzMsgs[i] EXCEPT !.answer = answer(i)]]
    <3>1. mzFile' = mzFile /\ (mzMsgs' = new \/ mzMsgs' = mzMsgs)
      BY <2>6, Zenon DEF MzEnd
    <3> HIDE DEF answer
    <3>2. DOMAIN new = DOMAIN mzMsgs /\ new = [i \in DOMAIN new |-> new[i]]
      OBVIOUS
    <3>3. \A i \in DOMAIN mzMsgs : \E a : new[i] = [mzMsgs[i] EXCEPT !.answer = a]
      OBVIOUS
    <3> HIDE DEF new
    <3>4. MzMsgsOK(new) /\ (MzApart(mzMsgs) => MzApart(new))
      BY <2>0, <3>2, <3>3, MzAnswersChanged
    <3> QED
      BY <2>0, <3>1, <3>4 DEF MzInv
  <2> QED
    BY <2>1, <2>2, <2>3, <2>4, <2>5, <2>6 DEF MzNext
<1>3. MzInv => MzOneMessage
  BY DEF MzInv, MzApart, MzIncludes, MzOneMessage
<1> QED
  BY <1>1, <1>2, <1>3, PTL DEF MzSpec

-----------------------------------------------------------------------------
(* Ini files.                                                              *)
IrVarType == [kind : IrLineKinds, line : Nat]
IrSecType == [name : Nat, vars : Seq(IrVarType)]
IrIn(sec, line) == sec.name = line \/ \E j \in DOMAIN sec.vars : sec.vars[j].line = line
\* A variable v of a section of that name, of a file of count lines of which those before whole have their line end.
IrVarOK(name, v, count, whole) ==
  /\ v.line \in (name + 1)..count
  /\ v.kind \in {"var", "novalue"} /\ v.line < whole => name # 0
  /\ v.kind = "header" => v.line = whole
IrSecOK(sec, count, whole) == \A j \in DOMAIN sec.vars : IrVarOK(sec.name, sec.vars[j], count, whole)
IrFine(secs, count, whole) ==
  /\ \A line \in 1..count : \E i \in DOMAIN secs : IrIn(secs[i], line)
  /\ \A i \in DOMAIN secs : /\ IrSecOK(secs[i], count, whole)
                            /\ \A j \in DOMAIN secs[i].vars : \A k \in i + 1..Len(secs) : secs[i].vars[j].line < secs[k].name

IrInv ==
  /\ irWhat \in {"none", "value", "sub", "file"} /\ irCount \in Nat /\ irFile \in {"open", "done", "error"}
  /\ irSecs \in Seq(IrSecType) /\ irCur \in IrSecType
  /\ irWhat # "file" => irFile = "open" /\ irSecs = <<>> /\ irCur = IrNoSection
  /\ irWhat = "none" => irCount = 0
  /\ irWhat = "file" /\ irFile = "open" =>
       irCur.name \in 0..irCount /\ IrFine(Append(irSecs, irCur), irCount, irCount + 1)
  /\ irFile = "done" => IrFine(irSecs, irCount, irCount)

(* A sequence of sections with one more.                                   *)
LEMMA IrAppended == ASSUME NEW secs \in Seq(IrSecType), NEW sec \in IrSecType
                    PROVE  LET n == Len(secs)
                               new == Append(secs, sec)
                           IN /\ new \in Seq(IrSecType) /\ n \in Nat /\ Len(new) = n + 1
                              /\ DOMAIN secs = 1..n /\ DOMAIN new = 1..(n + 1)
                              /\ new[n + 1] = sec /\ \A i \in 1..n : new[i] = secs[i]
  OBVIOUS

(* A header begins a section after every variable there is.                *)
LEMMA IrHeaderAdded ==
  ASSUME NEW secs \in Seq(IrSecType), NEW count \in Nat, IrFine(secs, count, count + 1), NEW sec \in IrSecType,
         sec.name = count + 1, sec.vars = <<>>
  PROVE  IrFine(Append(secs, sec), count + 1, count + 2)
<1> DEFINE n == Len(secs)
           new == Append(secs, sec)
<1>1. /\ new \in Seq(IrSecType) /\ n \in Nat /\ Len(new) = n + 1 /\ DOMAIN secs = 1..n /\ DOMAIN new = 1..(n + 1)
      /\ new[n + 1] = sec /\ \A i \in 1..n : new[i] = secs[i]
  BY IrAppended
<1>2. Len(secs) = n
  OBVIOUS
<1> HIDE DEF n, new
<1>3. ASSUME NEW line \in 1..(count + 1) PROVE \E i \in DOMAIN new : IrIn(new[i], line)
  <2>1. CASE line = count + 1
    BY <1>1, <2>1 DEF IrIn
  <2>2. CASE line # count + 1
    <3>1. line \in 1..count
      BY <2>2
    <3>2. PICK i \in DOMAIN secs : IrIn(secs[i], line)
      BY <3>1 DEF IrFine
    <3> QED
      BY <1>1, <3>2
  <2> QED
    BY <2>1, <2>2
<1>4. ASSUME NEW i \in DOMAIN new, NEW j \in DOMAIN new[i].vars
      PROVE  /\ IrVarOK(new[i].name, new[i].vars[j], count + 1, count + 2)
             /\ \A k \in i + 1..Len(new) : new[i].vars[j].line < new[k].name
  <2>1. i \in 1..n
    BY <1>1, <1>4
  <2>2. new[i] = secs[i] /\ i \in DOMAIN secs
    BY <1>1, <2>1
  <2>3. /\ IrVarOK(secs[i].name, secs[i].vars[j], count, count + 1)
        /\ \A k \in i + 1..n : secs[i].vars[j].line < secs[k].name
    BY <1>2, <1>4, <2>2 DEF IrFine, IrSecOK
  <2>4. secs[i].name \in Nat
    <3>1. secs[i] \in IrSecType
      BY <2>2
    <3> QED
      BY <3>1 DEF IrSecType
  <2>5. secs[i].vars[j].line \in Nat /\ secs[i].vars[j].line <= count
    BY <2>3, <2>4, SMTT(60) DEF IrVarOK
  <2>6. IrVarOK(secs[i].name, secs[i].vars[j], count + 1, count + 2)
    BY <2>3, <2>4 DEF IrVarOK
  <2>7. ASSUME NEW k \in i + 1..(n + 1) PROVE secs[i].vars[j].line < new[k].name
    <3>1. CASE k = n + 1
      BY <1>1, <2>5, <3>1
    <3>2. CASE k # n + 1
      <4>1. k \in i + 1..n /\ k \in 1..n
        BY <1>1, <2>1, <3>2
      <4> QED
        BY <1>1, <2>3, <4>1
    <3> QED
      BY <3>1, <3>2
  <2> QED
    BY <1>1, <2>2, <2>6, <2>7
<1>5. IrFine(new, count + 1, count + 2)
  BY <1>3, <1>4 DEF IrFine, IrSecOK
<1> QED
  BY <1>5 DEF new

(* A line goes to the section that is being read.                          *)
LEMMA IrVarAdded ==
  ASSUME NEW secs \in Seq(IrSecType), NEW cur \in IrSecType, NEW count \in Nat, IrFine(Append(secs, cur), count, count + 1),
         NEW v \in IrVarType, NEW more \in IrSecType, more.name = cur.name, more.vars = Append(cur.vars, v), v.line = count + 1,
         cur.name \in 0..count, NEW whole \in {count + 1, count + 2},
         v.kind \in {"var", "novalue"} /\ v.line < whole => cur.name # 0, v.kind = "header" => v.line = whole
  PROVE  IrFine(Append(secs, more), count + 1, whole)
<1> DEFINE n == Len(secs)
           old == Append(secs, cur)
           new == Append(secs, more)
           m == Len(cur.vars)
<1>1. /\ n \in Nat /\ Len(new) = n + 1 /\ DOMAIN new = 1..(n + 1) /\ new[n + 1] = more /\ \A i \in 1..n : new[i] = secs[i]
      /\ new \in Seq(IrSecType)
  BY IrAppended
<1>2. /\ Len(old) = n + 1 /\ DOMAIN old = 1..(n + 1) /\ old[n + 1] = cur /\ \A i \in 1..n : old[i] = secs[i]
      /\ old \in Seq(IrSecType)
  BY IrAppended
<1>3. /\ cur.vars \in Seq(IrVarType) /\ m \in Nat /\ DOMAIN cur.vars = 1..m /\ DOMAIN more.vars = 1..(m + 1)
      /\ more.vars[m + 1] = v /\ \A j \in 1..m : more.vars[j] = cur.vars[j]
  BY DEF IrSecType
<1>4. IrFine(old, count, count + 1)
  OBVIOUS
<1> HIDE DEF n, m, old, new
<1>5. ASSUME NEW line \in 1..(count + 1) PROVE \E i \in DOMAIN new : IrIn(new[i], line)
  <2>1. CASE line = count + 1
    <3>1. IrIn(more, line)
      BY <1>3, <2>1 DEF IrIn
    <3> QED
      BY <1>1, <3>1
  <2>2. CASE line # count + 1
    <3>1. line \in 1..count
      BY <2>2
    <3>2. PICK i \in DOMAIN old : IrIn(old[i], line)
      BY <1>4, <3>1 DEF IrFine
    <3>3. IrIn(cur, line) => IrIn(more, line)
      BY <1>3 DEF IrIn
    <3> QED
      BY <1>1, <1>2, <3>2, <3>3
  <2> QED
    BY <2>1, <2>2
<1>6. ASSUME NEW i \in DOMAIN old, NEW j \in DOMAIN old[i].vars
      PROVE  /\ IrVarOK(old[i].name, old[i].vars[j], count + 1, whole)
             /\ \A k \in i + 1..(n + 1) : old[i].vars[j].line < old[k].name
  <2>1. /\ IrVarOK(old[i].name, old[i].vars[j], count, count + 1)
        /\ \A k \in i + 1..(n + 1) : old[i].vars[j].line < old[k].name
    BY <1>2, <1>4, <1>6 DEF IrFine, IrSecOK
  <2>2. old[i].name \in Nat
    <3>1. old[i] \in IrSecType
      BY <1>2
    <3> QED
      BY <3>1 DEF IrSecType
  <2>3. IrVarOK(old[i].name, old[i].vars[j], count + 1, whole)
    BY <2>1, <2>2 DEF IrVarOK
  <2> QED
    BY <2>1, <2>3
<1>7. ASSUME NEW i \in DOMAIN new, NEW j \in DOMAIN new[i].vars
      PROVE  /\ IrVarOK(new[i].name, new[i].vars[j], count + 1, whole)
             /\ \A k \in i + 1..Len(new) : new[i].vars[j].line < new[k].name
  <2>0. \A k \in 1..(n + 1) : new[k].name = old[k].name
    BY <1>1, <1>2, SMTT(60)
  <2>1. CASE i \in 1..n
    <3>1. new[i] = old[i] /\ i \in DOMAIN old
      BY <1>1, <1>2, <2>1
    <3>2. \A k \in i + 1..(n + 1) : k \in 1..(n + 1)
      BY <1>1, <2>1
    <3> QED
      BY <1>1, <1>6, <1>7, <2>0, <3>1, <3>2
  <2>2. CASE i = n + 1
    <3>1. \A k \in i + 1..Len(new) : FALSE
      BY <1>1, <2>2
    <3>2. CASE j \in 1..m
      <4>1. i \in DOMAIN old /\ j \in DOMAIN old[i].vars /\ old[i] = cur /\ new[i] = more
        BY <1>1, <1>2, <1>3, <2>2, <3>2
      <4>2. IrVarOK(cur.name, cur.vars[j], count + 1, whole)
        BY <1>6, <4>1
      <4> QED
        BY <1>3, <3>1, <3>2, <4>1, <4>2
    <3>3. CASE j = m + 1
      <4>1. new[i] = more /\ more.vars[j] = v
        BY <1>1, <1>3, <2>2, <3>3
      <4>2. IrVarOK(cur.name, v, count + 1, whole)
        BY DEF IrVarOK
      <4> QED
        BY <3>1, <4>1, <4>2
    <3>4. j \in 1..(m + 1)
      BY <1>1, <1>3, <1>7, <2>2
    <3> QED
      BY <1>3, <3>2, <3>3, <3>4
  <2> QED
    BY <1>1, <2>1, <2>2
<1>8. IrFine(new, count + 1, whole)
  BY <1>5, <1>7 DEF IrFine, IrSecOK
<1> QED
  BY <1>8 DEF new

(* What the reader keeps from line to line.                                *)
LEMMA IrLineInv == IrInv /\ IrLine => IrInv'
<1> SUFFICES ASSUME IrInv, IrLine PROVE IrInv'
  OBVIOUS
<1> DEFINE new == [name |-> irCount + 1, vars |-> <<>>]
<1>1. /\ irWhat = "file" /\ irFile = "open" /\ irCount' = irCount + 1 /\ irWhat' = "file"
      /\ irCount \in Nat /\ irSecs \in Seq(IrSecType) /\ irCur \in IrSecType
      /\ IrFine(Append(irSecs, irCur), irCount, irCount + 1) /\ irCur.name \in 0..irCount
  BY DEF IrInv, IrLine
<1>2. PICK kind \in IrLineKinds :
        \/ irFile' = "error" /\ irSecs' = <<>> /\ irCur' = IrNoSection
        \/ /\ irSecs' = IrAddSection(irSecs, irCur) /\ irCur' = new /\ irFile' = irFile
        \/ /\ irFile' = "done" /\ irSecs' = IrAddSection(irSecs, IrAddVariable(irCur, kind)) /\ irCur' = IrNoSection
        \/ /\ irCur' = IrAddVariable(irCur, kind) /\ UNCHANGED <<irSecs, irFile>>
           /\ kind # "header" /\ (kind \in {"var", "novalue"} => irCur.name # 0)
  BY Zenon DEF IrLine
<1> DEFINE more == IrAddVariable(irCur, kind)
           v == [kind |-> kind, line |-> irCount + 1]
<1>3. v \in IrVarType /\ v.line = irCount + 1 /\ v.kind = kind
  BY <1>1 DEF IrVarType
<1>4. more \in IrSecType /\ more.name = irCur.name /\ more.vars = Append(irCur.vars, v)
  <2>1. more = [irCur EXCEPT !.vars = Append(@, v)]
    BY DEF IrAddVariable
  <2>2. irCur.vars \in Seq(IrVarType) /\ irCur = [name |-> irCur.name, vars |-> irCur.vars] /\ irCur.name \in Nat
    BY <1>1 DEF IrSecType
  <2> DEFINE vars == Append(irCur.vars, v)
  <2>3. vars \in Seq(IrVarType)
    BY <1>3, <2>2
  <2>4. more = [irCur EXCEPT !.vars = vars]
    BY <2>1
  <2> HIDE DEF vars, more
  <2>5. more = [name |-> irCur.name, vars |-> vars]
    BY <2>2, <2>4
  <2>6. more \in IrSecType /\ more.name = irCur.name /\ more.vars = vars
    BY <2>2, <2>3, <2>5 DEF IrSecType
  <2> QED
    BY <2>6 DEF vars
<1> HIDE DEF more, v
<1>5. IrNoSection \in IrSecType /\ IrNoSection.name = 0
  BY DEF IrNoSection, IrSecType
<1>6. new \in IrSecType /\ new.name = irCount + 1 /\ new.vars = <<>>
  BY <1>1 DEF IrSecType
<1> HIDE DEF new
<1>c. irCount' \in Nat /\ irCount' = irCount + 1 /\ irWhat' = "file"
  BY <1>1
<1>7. CASE irFile' = "error" /\ irSecs' = <<>> /\ irCur' = IrNoSection
  BY <1>c, <1>5, <1>7 DEF IrInv
<1>8. CASE irSecs' = IrAddSection(irSecs, irCur) /\ irCur' = new /\ irFile' = irFile
  <2>1. irSecs' = Append(irSecs, irCur) /\ irSecs' \in Seq(IrSecType)
    BY <1>1, <1>8, IrAppended DEF IrAddSection
  <2>2. IrFine(Append(irSecs', irCur'), irCount + 1, irCount + 2)
    BY <1>1, <1>6, <1>8, <2>1, IrHeaderAdded
  <2>3. IrFine(Append(irSecs', irCur'), irCount', irCount' + 1)
    <3>1. irCount' + 1 = irCount + 2
      BY <1>1
    <3> QED
      BY <1>c, <2>2, <3>1
  <2>4. irCur' \in IrSecType /\ irCur'.name \in 0..irCount' /\ irFile' = "open"
    BY <1>1, <1>6, <1>8
  <2> QED
    BY <1>c, <2>1, <2>3, <2>4 DEF IrInv
<1>9. CASE irFile' = "done" /\ irSecs' = IrAddSection(irSecs, IrAddVariable(irCur, kind)) /\ irCur' = IrNoSection
  <2>1. irSecs' = Append(irSecs, more)
    BY <1>9 DEF IrAddSection, more
  <2>2. irSecs' \in Seq(IrSecType)
    BY <1>1, <1>4, <2>1, IrAppended
  <2> DEFINE whole == irCount + 1
  <2>3. whole \in {irCount + 1, irCount + 2} /\ ~(v.line < whole) /\ v.line = whole
    BY <1>1, <1>3
  <2> HIDE DEF whole
  <2>4. IrFine(irSecs', irCount + 1, whole)
    BY <1>1, <1>3, <1>4, <2>1, <2>3, IrVarAdded
  <2> QED
    BY <1>c, <1>5, <1>9, <2>2, <2>4 DEF IrInv, whole
<1>10. CASE /\ irCur' = IrAddVariable(irCur, kind) /\ UNCHANGED <<irSecs, irFile>>
            /\ kind # "header" /\ (kind \in {"var", "novalue"} => irCur.name # 0)
  <2>1. irCur' = more
    BY <1>10 DEF more
  <2> DEFINE whole == irCount + 2
  <2>2. whole \in {irCount + 1, irCount + 2} /\ v.kind # "header" /\ (v.kind \in {"var", "novalue"} => irCur.name # 0)
    BY <1>3, <1>10
  <2>3. irCount' + 1 = whole
    BY <1>1
  <2> HIDE DEF whole
  <2>4. IrFine(Append(irSecs, more), irCount + 1, whole)
    BY <1>1, <1>3, <1>4, <2>2, IrVarAdded
  <2>5. IrFine(Append(irSecs', irCur'), irCount', irCount' + 1)
    BY <1>c, <1>10, <2>1, <2>3, <2>4
  <2>6. irCur' \in IrSecType /\ irCur'.name \in 0..irCount'
    BY <1>1, <1>4, <2>1
  <2> QED
    BY <1>1, <1>10, <2>5, <2>6 DEF IrInv
<1> QED
  BY <1>2, <1>7, <1>8, <1>9, <1>10

(* In every behaviour of the reader of ini files every line of a file that *)
(* was read is kept, in the section whose header is the last before it.    *)
THEOREM LinesInOwnSection == IrSpec => []IrOwnSection
<1>0. IrNoSection \in IrSecType /\ IrNoSection.name = 0 /\ IrNoSection.vars = <<>>
  BY DEF IrNoSection, IrSecType
<1>1. IrInit => IrInv
  <2> SUFFICES ASSUME IrInit PROVE IrInv
    OBVIOUS
  <2>1. irWhat = "none" /\ irCount = 0 /\ irFile = "open" /\ irSecs = <<>> /\ irCur = IrNoSection
    BY Zenon DEF IrInit
  <2> QED
    BY <1>0, <2>1 DEF IrInv
<1>2. IrInv /\ [IrNext]_irVars => IrInv'
  <2> SUFFICES ASSUME IrInv, [IrNext]_irVars PROVE IrInv'
    OBVIOUS
  <2>1. CASE IrWrite \/ IrReread \/ UNCHANGED irVars
    <3>1. UNCHANGED <<irWhat, irCount, irFile, irSecs, irCur>>
      BY <2>1, Zenon DEF IrWrite, IrReread, irVars
    <3> QED
      BY <3>1 DEF IrInv
  <2>2. CASE IrRead
    <3>1. UNCHANGED <<irWhat, irFile, irSecs, irCur>> /\ irWhat \in {"value", "sub"} /\ irCount' = irCount + 1
      BY <2>2, Zenon DEF IrRead
    <3> QED
      BY <3>1 DEF IrInv
  <2>3. CASE IrBegin
    <3>1. UNCHANGED <<irCount, irFile, irSecs, irCur>> /\ irWhat = "none" /\ irWhat' \in {"value", "sub", "file"}
      BY <2>3, Zenon DEF IrBegin
    <3>2. irCount = 0 /\ irFile = "open" /\ irSecs = <<>> /\ irCur = IrNoSection
      BY <3>1 DEF IrInv
    <3>3. IrFine(Append(<<>>, IrNoSection), 0, 0 + 1)
      <4>1. Append(<<>>, IrNoSection) = <<IrNoSection>>
        BY <1>0
      <4> QED
        BY <1>0, <4>1 DEF IrFine, IrSecOK
    <3>4. IrFine(Append(irSecs', irCur'), irCount', irCount' + 1)
      BY <3>1, <3>2, <3>3
    <3> QED
      BY <1>0, <3>1, <3>2, <3>4 DEF IrInv
  <2>4. CASE IrLine
    BY <2>4, IrLineInv
  <2>5. CASE IrEOF
    <3>1. /\ irWhat = "file" /\ irFile = "open" /\ irFile' = "done" /\ irSecs' = Append(irSecs, irCur) /\ irCur' = IrNoSection
          /\ UNCHANGED <<irWhat, irCount>>
      BY <2>5, Zenon DEF IrEOF, IrAddSection
    <3>2. irSecs \in Seq(IrSecType) /\ irCur \in IrSecType /\ irCount \in Nat /\ IrFine(irSecs', irCount, irCount + 1)
      BY <3>1 DEF IrInv
    <3>3. irSecs' \in Seq(IrSecType)
      BY <3>1, <3>2, IrAppended
    <3>4. ASSUME NEW i \in DOMAIN irSecs' PROVE IrSecOK(irSecs'[i], irCount, irCount)
      <4>1. irSecs'[i].name \in Nat
        <5>1. irSecs'[i] \in IrSecType
          BY <3>3
        <5> QED
          BY <5>1 DEF IrSecType
      <4>2. IrSecOK(irSecs'[i], irCount, irCount + 1)
        BY <3>2 DEF IrFine
      <4> QED
        BY <3>2, <4>1, <4>2 DEF IrSecOK, IrVarOK
    <3>5. IrFine(irSecs', irCount, irCount)
      BY <3>2, <3>4 DEF IrFine
    <3> QED
      BY <1>0, <3>1, <3>2, <3>3, <3>5 DEF IrInv
  <2> QED
    BY <2>1, <2>2, <2>3, <2>4, <2>5 DEF IrNext
<1>3. IrInv => IrOwnSection
  <2> SUFFICES ASSUME IrInv, irFile = "done" PROVE
        /\ \A line \in 1..irCount : \E i \in DOMAIN irSecs : IrIn(irSecs[i], line)
        /\ \A i \in DOMAIN irSecs : \A j \in DOMAIN irSecs[i].vars :
              /\ irSecs[i].vars[j].line > irSecs[i].name
              /\ \A k \in i + 1..Len(irSecs) : irSecs[i].vars[j].line < irSecs[k].name
              /\ irSecs[i].vars[j].kind \in {"var", "novalue"} /\ irSecs[i].vars[j].line < irCount => irSecs[i].name # 0
              /\ irSecs[i].vars[j].kind = "header" => irSecs[i].vars[j].line = irCount
    BY Zenon DEF IrOwnSection, IrIn
  <2>1. IrFine(irSecs, irCount, irCount)
    BY DEF IrInv
  <2>2. ASSUME NEW i \in DOMAIN irSecs PROVE irSecs[i].name \in Nat
    <3>1. irSecs[i] \in IrSecType
      BY DEF IrInv
    <3> QED
      BY <3>1 DEF IrSecType
  <2> QED
    BY <2>1, <2>2 DEF IrFine, IrSecOK, IrVarOK
<1> QED
  BY <1>1, <1>2, <1>3, PTL DEF IrSpec

-----------------------------------------------------------------------------
(* Datasets.                                                               *)
\* The columns of a dataset, whatever they hold.
TaCol(c) == c = [name |-> c.name, type |-> c.type, recs |-> c.recs]
TaCols(cols) == Len(cols) \in Nat /\ cols = [y \in 1..Len(cols) |-> cols[y]] /\ \A y \in 1..Len(cols) : TaCol(cols[y])
\* Columns of n records each, and the rows these are.
TaEven(cols, n) == /\ TaCols(cols) /\ n \in Nat /\ (cols = <<>> => n = 0)
                   /\ \A y \in 1..Len(cols) : cols[y].recs \in Seq(Int) /\ Len(cols[y].recs) = n
TaGrid(cols, n) == [r \in 1..n |-> [y \in 1..Len(cols) |-> cols[y].recs[r]]]
\* Rows of one width.
TaEqual(rows, w) == rows \in Seq(Seq(Int)) /\ \A x \in 1..Len(rows) : Len(rows[x]) = w
TaWidth(cols) == IF cols = <<>> THEN Len(TaTypes) ELSE Len(cols)
\* A dataset of records, mode and columns; it is whole when it is a table in the form of its mode.
TaLoose(ds) == ds = TaDataset(ds.mode, ds.cols, ds.rows) /\ ds.mode \in {"rows", "columns", "matrix"} /\ TaCols(ds.cols)
TaWhole(ds) ==
  /\ TaLoose(ds)
  /\ ds.mode = "rows" => TaEqual(ds.rows, TaWidth(ds.cols))
  /\ ds.mode # "rows" => \E n \in Nat : TaEven(ds.cols, n) /\ (ds.mode = "matrix" => ds.rows = TaGrid(ds.cols, n))
\* Until a call has torn it, the dataset is whole; then it has columns.
TaHasCols(ds) == TaLoose(ds) /\ ds.cols # <<>>
TaInv == (taTorn => TaHasCols(taDs)) /\ (~taTorn => TaWhole(taDs))

(* Columns of one length hold the rows of their grid.                      *)
LEMMA TaRead == ASSUME NEW cols, NEW n, TaEven(cols, n) PROVE TaColsToRows(cols) = TaGrid(cols, n)
<1> DEFINE lens == {0} \cup {Len(cols[f].recs) : f \in DOMAIN cols}
<1>1. DOMAIN cols = 1..Len(cols) /\ Len(cols) \in Nat /\ n \in Nat
  BY DEF TaEven, TaCols
<1>2. n \in lens /\ \A m \in lens : m \in Nat /\ n >= m
  <2>1. \A f \in DOMAIN cols : Len(cols[f].recs) = n
    BY <1>1 DEF TaEven
  <2>2. CASE cols = <<>>
    BY <1>1, <2>1, <2>2 DEF TaEven
  <2>3. CASE cols # <<>>
    <3>1. 1 \in DOMAIN cols
      BY <1>1, <2>3 DEF TaEven, TaCols
    <3> QED
      BY <1>1, <2>1, <3>1
  <2> QED
    BY <2>2, <2>3
<1>3. Max(lens) = n
  <2>1. Max(lens) \in lens /\ \A m \in lens : Max(lens) >= m
    <3> HIDE DEF lens
    <3> QED
      BY <1>2, Zenon DEF Max
  <2> HIDE DEF lens
  <2>2. Max(lens) \in Nat /\ n >= Max(lens) /\ Max(lens) >= n
    BY <1>2, <2>1
  <2> QED
    BY <1>1, <2>2
<1>4. TaColsToRows(cols) = [r \in 1..n |-> [f \in DOMAIN cols |-> IF Len(cols[f].recs) >= r THEN cols[f].recs[r] ELSE 0]]
  BY <1>3, Zenon DEF TaColsToRows
<1>5. ASSUME NEW r \in 1..n
      PROVE  [f \in DOMAIN cols |-> IF Len(cols[f].recs) >= r THEN cols[f].recs[r] ELSE 0] = [y \in 1..Len(cols) |-> cols[y].recs[r]]
  BY <1>1 DEF TaEven
<1> QED
  BY <1>4, <1>5 DEF TaGrid

(* The table of a whole dataset.                                           *)
LEMMA TaTableIs == ASSUME NEW ds, TaWhole(ds)
                   PROVE  /\ ds.mode = "rows" => TaTable(ds) = ds.rows
                          /\ ds.mode # "rows" => \E n \in Nat : /\ TaEven(ds.cols, n) /\ TaTable(ds) = TaGrid(ds.cols, n)
                                                                /\ ds.mode = "matrix" => ds.rows = TaGrid(ds.cols, n)
<1>1. CASE ds.mode = "rows"
  BY <1>1 DEF TaTable
<1>2. CASE ds.mode # "rows"
  <2>1. PICK n \in Nat : TaEven(ds.cols, n) /\ (ds.mode = "matrix" => ds.rows = TaGrid(ds.cols, n))
    BY <1>2 DEF TaWhole
  <2>2. ds.mode = "columns" \/ ds.mode = "matrix"
    BY <1>2 DEF TaWhole, TaLoose
  <2>3. TaTable(ds) = TaGrid(ds.cols, n)
    BY <2>1, <2>2, TaRead DEF TaTable
  <2> QED
    BY <1>2, <2>1, <2>3
<1> QED
  BY <1>1, <1>2

(* A table is rows of sequences.                                           *)
LEMMA TaTableRows == ASSUME NEW ds, TaWhole(ds)
                     PROVE  TaTable(ds) \in Seq(Seq(Int)) /\ TaEqual(TaTable(ds), TaWidth(ds.cols))
<1>1. CASE ds.mode = "rows"
  BY <1>1, TaTableIs DEF TaWhole, TaEqual
<1>2. CASE ds.mode # "rows"
  <2>1. PICK n \in Nat : TaEven(ds.cols, n) /\ TaTable(ds) = TaGrid(ds.cols, n)
    BY <1>2, TaTableIs
  <2>2. Len(ds.cols) \in Nat
    BY <2>1 DEF TaEven, TaCols
  <2>3. ASSUME NEW r \in 1..n PROVE [y \in 1..Len(ds.cols) |-> ds.cols[y].recs[r]] \in Seq(Int)
    <3>1. ASSUME NEW y \in 1..Len(ds.cols) PROVE ds.cols[y].recs[r] \in Int
      <4>1. ds.cols[y].recs \in Seq(Int) /\ r \in 1..Len(ds.cols[y].recs)
        BY <2>1 DEF TaEven
      <4> QED
        BY <4>1
    <3> QED
      BY <2>2, <3>1
  <2>4. TaGrid(ds.cols, n) \in Seq(Seq(Int)) /\ Len(TaGrid(ds.cols, n)) = n
    <3>1. TaGrid(ds.cols, n) = [r \in 1..n |-> TaGrid(ds.cols, n)[r]]
      BY DEF TaGrid
    <3>2. \A r \in 1..n : TaGrid(ds.cols, n)[r] \in Seq(Int)
      BY <2>3 DEF TaGrid
    <3> QED
      BY <3>1, <3>2
  <2>5. \A x \in 1..n : Len(TaGrid(ds.cols, n)[x]) = Len(ds.cols)
    BY <2>2 DEF TaGrid
  <2>6. n > 0 => ds.cols # <<>>
    BY <2>1 DEF TaEven
  <2> QED
    BY <2>1, <2>4, <2>5, <2>6 DEF TaEqual, TaWidth
<1> QED
  BY <1>1, <1>2

(* Columns without their records are columns.                              *)
LEMMA TaResetIs == ASSUME NEW cols, TaCols(cols)
                   PROVE  /\ TaEven(TaResetCols(cols), 0) /\ Len(TaResetCols(cols)) = Len(cols)
                          /\ \A y \in 1..Len(cols) : TaResetCols(cols)[y].recs = <<>>
                          /\ TaResetCols(cols) = <<>> <=> cols = <<>>
<1> DEFINE new == TaResetCols(cols)
<1>1. new = [y \in 1..Len(cols) |-> [cols[y] EXCEPT !.recs = <<>>]] /\ Len(cols) \in Nat
  BY DEF TaCols, TaResetCols
<1>2. ASSUME NEW y \in 1..Len(cols) PROVE TaCol([cols[y] EXCEPT !.recs = <<>>]) /\ [cols[y] EXCEPT !.recs = <<>>].recs = <<>>
  BY DEF TaCols, TaCol
<1> HIDE DEF new
<1>3. Len(new) = Len(cols) /\ \A y \in 1..Len(cols) : TaCol(new[y]) /\ new[y].recs = <<>>
  <2>1. Len(new) = Len(cols)
    BY <1>1
  <2>2. \A y \in 1..Len(cols) : new[y] = [cols[y] EXCEPT !.recs = <<>>]
    BY <1>1, Zenon
  <2> QED
    BY <1>2, <2>1, <2>2, Zenon
<1>4. TaCols(new)
  BY <1>1, <1>3 DEF TaCols
<1>5. <<>> \in Seq(Int) /\ Len(<<>>) = 0
  OBVIOUS
<1>6. TaEven(new, 0)
  BY <1>3, <1>4, <1>5 DEF TaEven
<1>7. new = <<>> <=> cols = <<>>
  BY <1>1, <1>3 DEF TaCols
<1> QED
  BY <1>3, <1>6, <1>7 DEF new

(* A column made for rows is a column without records.                     *)
LEMMA TaUnnamedIs == TaCol(TaUnnamed) /\ TaUnnamed.recs = <<>>
<1>1. \E name : TaUnnamed = [name |-> name, type |-> "string", recs |-> <<>>]
  BY Zenon DEF TaUnnamed, TaColumn
<1> QED
  BY <1>1 DEF TaCol

(* As many of them as a row has records.                                   *)
LEMMA TaMade == ASSUME NEW n \in Nat
                PROVE  TaCols([y \in 1..n |-> TaUnnamed]) /\ Len([y \in 1..n |-> TaUnnamed]) = n
                       /\ TaEven([y \in 1..n |-> TaUnnamed], 0)
<1>1. <<>> \in Seq(Int) /\ Len(<<>>) = 0
  OBVIOUS
<1> DEFINE new == [y \in 1..n |-> TaUnnamed]
<1>2. Len(new) = n /\ new = [y \in 1..Len(new) |-> new[y]] /\ \A y \in 1..n : new[y] = TaUnnamed
  OBVIOUS
<1> HIDE DEF new
<1>3. TaCols(new)
  BY <1>2, TaUnnamedIs DEF TaCols
<1>4. TaEven(new, 0)
  BY <1>1, <1>2, <1>3, TaUnnamedIs DEF TaEven
<1> QED
  BY <1>2, <1>3, <1>4 DEF new

(* The records of rows of one width, pushed to empty columns, are a grid   *)
(* that is these rows.                                                     *)
LEMMA TaFilled == ASSUME NEW cols, NEW rows, TaEven(cols, 0), TaEqual(rows, Len(cols)), rows # <<>>, cols # <<>>
                  PROVE  /\ TaEven(TaRowsToCols(cols, rows), Len(rows)) /\ TaGrid(TaRowsToCols(cols, rows), Len(rows)) = rows
                         /\ Len(TaRowsToCols(cols, rows)) = Len(cols) /\ TaRowsToCols(cols, rows) # <<>>
<1> DEFINE new == TaRowsToCols(cols, rows)
           recs(y) == [x \in 1..Len(rows) |-> rows[x][y]]
<1>1. /\ Len(rows) \in Nat /\ 1 \in 1..Len(rows) /\ DOMAIN rows = 1..Len(rows) /\ Len(rows[1]) = Len(cols)
      /\ Len(cols) \in Nat /\ DOMAIN cols = 1..Len(cols) /\ 1 \in 1..Len(cols)
  BY DEF TaEqual, TaEven, TaCols
<1>2. ASSUME NEW y \in 1..Len(cols) PROVE recs(y) \in Seq(Int) /\ Len(recs(y)) = Len(rows)
  <2>1. ASSUME NEW x \in 1..Len(rows) PROVE rows[x][y] \in Int
    <3>1. rows[x] \in Seq(Int) /\ Len(rows[x]) = Len(cols)
      BY DEF TaEqual
    <3> QED
      BY <3>1
  <2> QED
    BY <1>1, <2>1
<1>3. TaMin(Len(rows[1]), Len(cols)) = Len(cols)
  BY <1>1 DEF TaMin
<1>4. new = [y \in 1..Len(cols) |-> [cols[y] EXCEPT !.recs = @ \o recs(y)]]
  <2>1. new = [y \in 1..Len(cols) |-> IF y > Len(cols) THEN cols[y] ELSE [cols[y] EXCEPT !.recs = @ \o recs(y)]]
    BY <1>1, <1>3, Zenon DEF TaRowsToCols
  <2> HIDE DEF new, recs
  <2>2. \A y \in 1..Len(cols) : ~(y > Len(cols))
    BY <1>1
  <2> QED
    BY <2>1, <2>2, Zenon
<1> HIDE DEF new, recs
<1>5. ASSUME NEW y \in 1..Len(cols) PROVE TaCol(new[y]) /\ new[y].recs = recs(y)
  <2>1. TaCol(cols[y]) /\ cols[y].recs \in Seq(Int) /\ Len(cols[y].recs) = 0
    BY DEF TaEven, TaCols
  <2>2. cols[y].recs = <<>>
    BY <2>1
  <2>3. <<>> \o recs(y) = recs(y)
    BY <1>2
  <2>4. new[y] = [cols[y] EXCEPT !.recs = recs(y)]
    BY <1>4, <2>2, <2>3
  <2> QED
    BY <2>1, <2>4 DEF TaCol
<1>6. Len(new) = Len(cols) /\ new = [y \in 1..Len(cols) |-> new[y]]
  BY <1>1, <1>4
<1>7. TaCols(new) /\ new # <<>>
  BY <1>1, <1>5, <1>6 DEF TaCols
<1>8. TaEven(new, Len(rows))
  BY <1>1, <1>2, <1>5, <1>6, <1>7 DEF TaEven
<1>9. ASSUME NEW r \in 1..Len(rows) PROVE [y \in 1..Len(new) |-> new[y].recs[r]] = rows[r]
  <2>1. rows[r] \in Seq(Int) /\ Len(rows[r]) = Len(cols)
    BY DEF TaEqual
  <2>2. \A y \in 1..Len(cols) : new[y].recs[r] = rows[r][y]
    BY <1>5 DEF recs
  <2>3. rows[r] = [y \in 1..Len(cols) |-> rows[r][y]]
    BY <2>1
  <2> QED
    BY <1>6, <2>2, <2>3
<1>10. TaGrid(new, Len(rows)) = rows
  BY <1>1, <1>9, SMTT(60) DEF TaGrid, TaEqual
<1> QED
  BY <1>6, <1>7, <1>8, <1>10 DEF new

(* A dataset is its mode, columns and rows.                                *)
LEMMA TaDatasetIs == ASSUME NEW mode, NEW cols, NEW rows
                     PROVE  /\ TaDataset(mode, cols, rows).mode = mode /\ TaDataset(mode, cols, rows).cols = cols
                            /\ TaDataset(mode, cols, rows).rows = rows
  BY DEF TaDataset

(* Even columns make a whole dataset.                                      *)
LEMMA TaWholeCols == ASSUME NEW mode \in {"columns", "matrix"}, NEW cols, NEW rows, NEW n \in Nat, TaEven(cols, n),
                            mode = "matrix" => rows = TaGrid(cols, n)
                     PROVE  TaWhole(TaDataset(mode, cols, rows)) /\ TaTable(TaDataset(mode, cols, rows)) = TaGrid(cols, n)
<1> DEFINE ds == TaDataset(mode, cols, rows)
<1>1. ds.mode = mode /\ ds.cols = cols /\ ds.rows = rows
  BY TaDatasetIs
<1>2. ds = TaDataset(ds.mode, ds.cols, ds.rows)
  BY <1>1
<1> HIDE DEF ds
<1>3. TaLoose(ds)
  BY <1>1, <1>2 DEF TaLoose, TaEven
<1>4. TaWhole(ds)
  BY <1>1, <1>3 DEF TaWhole
<1>5. TaTable(ds) = TaGrid(cols, n)
  BY <1>1, TaRead DEF TaTable
<1> QED
  BY <1>4, <1>5 DEF ds

(* Rows of the width of the columns make a whole dataset.                  *)
LEMMA TaWholeRows == ASSUME NEW cols, NEW rows, TaCols(cols), TaEqual(rows, TaWidth(cols))
                     PROVE  TaWhole(TaDataset("rows", cols, rows)) /\ TaTable(TaDataset("rows", cols, rows)) = rows
<1> DEFINE ds == TaDataset("rows", cols, rows)
<1>1. ds.mode = "rows" /\ ds.cols = cols /\ ds.rows = rows
  BY TaDatasetIs
<1>2. ds = TaDataset(ds.mode, ds.cols, ds.rows)
  BY <1>1
<1> HIDE DEF ds
<1>3. TaWhole(ds)
  BY <1>1, <1>2 DEF TaLoose, TaWhole
<1>4. TaTable(ds) = rows
  BY <1>1 DEF TaTable
<1> QED
  BY <1>3, <1>4 DEF ds

(* The number of rows is the length of the table.                          *)
LEMMA TaNRowIs == ASSUME NEW ds, TaWhole(ds) PROVE TaNRow(ds) = Len(TaTable(ds)) /\ TaNRow(ds) \in Nat
<1>1. TaTable(ds) \in Seq(Seq(Int))
  BY TaTableRows
<1>2. CASE ds.mode = "rows"
  BY <1>1, <1>2, TaTableIs DEF TaNRow
<1>3. CASE ds.mode # "rows"
  <2>1. PICK n \in Nat : /\ TaEven(ds.cols, n) /\ TaTable(ds) = TaGrid(ds.cols, n)
                         /\ ds.mode = "matrix" => ds.rows = TaGrid(ds.cols, n)
    BY <1>3, TaTableIs
  <2>2. Len(TaTable(ds)) = n
    BY <2>1 DEF TaGrid
  <2>3. CASE ds.mode = "matrix"
    BY <1>1, <2>1, <2>2, <2>3 DEF TaNRow
  <2>4. CASE ds.mode = "columns"
    <3>1. CASE ds.cols = <<>>
      BY <2>1, <2>2, <2>4, <3>1 DEF TaNRow, TaEven
    <3>2. CASE ds.cols # <<>>
      <4>1. 1 \in 1..Len(ds.cols)
        BY <2>1, <3>2 DEF TaEven, TaCols
      <4>2. Len(ds.cols[1].recs) = n
        BY <2>1, <4>1 DEF TaEven
      <4> QED
        BY <2>2, <2>4, <3>2, <4>2 DEF TaNRow
    <3> QED
      BY <3>1, <3>2
  <2> QED
    BY <1>3, <2>3, <2>4 DEF TaWhole, TaLoose
<1> QED
  BY <1>2, <1>3

(* A dataset that has its columns filled is left as it is by the           *)
(* transposition to columns.                                               *)
LEMMA TaNotRows == ASSUME NEW ds, TaWhole(ds), ds.mode # "rows" PROVE TaTransposeToColumns(ds) = ds
<1>1. PICK n \in Nat : TaEven(ds.cols, n) /\ TaTable(ds) = TaGrid(ds.cols, n)
  BY TaTableIs
<1>2. TaNRow(ds) = n
  BY <1>1, TaNRowIs DEF TaGrid
<1>3. CASE n = 0
  BY <1>2, <1>3, Zenon DEF TaTransposeToColumns
<1>4. CASE n # 0
  <2>1. ds.cols # <<>> /\ 1 \in 1..Len(ds.cols)
    BY <1>1, <1>4 DEF TaEven, TaCols
  <2>2. ds.cols[1].recs # <<>>
    BY <1>1, <1>4, <2>1 DEF TaEven
  <2> QED
    BY <1>2, <1>4, <2>1, <2>2, Zenon DEF TaTransposeToColumns
<1> QED
  BY <1>3, <1>4

(* The transposition to columns keeps the table.                           *)
LEMMA TaToColumns == ASSUME NEW ds, TaWhole(ds)
                     PROVE  /\ TaWhole(TaTransposeToColumns(ds)) /\ TaTable(TaTransposeToColumns(ds)) = TaTable(ds)
                            /\ ds.mode = "rows" /\ ds.rows # <<>> => TaTransposeToColumns(ds).mode = "columns"
<1>1. CASE ds.mode # "rows"
  BY <1>1, TaNotRows
<1>2. CASE ds.mode = "rows" /\ ds.rows = <<>>
  <2>1. TaNRow(ds) = 0
    BY <1>2 DEF TaNRow
  <2>2. TaTransposeToColumns(ds) = ds
    BY <2>1, Zenon DEF TaTransposeToColumns
  <2> QED
    BY <1>2, <2>2
<1>3. CASE ds.mode = "rows" /\ ds.rows # <<>>
  <2> DEFINE cols == IF ds.cols # <<>> THEN ds.cols ELSE [y \in DOMAIN ds.rows[1] |-> TaUnnamed]
             new == TaRowsToCols(TaResetCols(cols), ds.rows)
  <2>1. TaEqual(ds.rows, TaWidth(ds.cols)) /\ TaCols(ds.cols) /\ TaTable(ds) = ds.rows
    BY <1>3, TaTableIs DEF TaWhole, TaLoose
  <2>2. Len(ds.rows) \in Nat /\ Len(ds.rows) # 0 /\ 1 \in 1..Len(ds.rows) /\ TaNRow(ds) # 0
    BY <1>3, <2>1 DEF TaEqual, TaNRow
  <2>3. TaTransposeToColumns(ds) = TaDataset("columns", new, <<>>)
    BY <1>3, <2>2, Zenon DEF TaTransposeToColumns
  <2>4. TaCols(cols) /\ Len(cols) = TaWidth(ds.cols) /\ cols # <<>>
    <3>1. CASE ds.cols # <<>>
      BY <2>1, <3>1 DEF TaWidth
    <3>2. CASE ds.cols = <<>>
      <4>1. ds.rows[1] \in Seq(Int) /\ Len(ds.rows[1]) = Len(TaTypes)
        BY <2>1, <2>2, <3>2 DEF TaEqual, TaWidth
      <4>2. cols = [y \in 1..Len(TaTypes) |-> TaUnnamed] /\ Len(TaTypes) \in Nat /\ Len(TaTypes) # 0
        BY <3>2, <4>1, TaAssumption
      <4> HIDE DEF cols
      <4> QED
        BY <3>2, <4>2, TaMade DEF TaWidth
    <3> QED
      BY <3>1, <3>2
  <2> HIDE DEF cols
  <2>5. TaEven(TaResetCols(cols), 0) /\ Len(TaResetCols(cols)) = TaWidth(ds.cols) /\ TaResetCols(cols) # <<>>
    BY <2>4, TaResetIs
  <2>6. TaEven(new, Len(ds.rows)) /\ TaGrid(new, Len(ds.rows)) = ds.rows
    BY <1>3, <2>1, <2>5, TaFilled
  <2> HIDE DEF new
  <2>7. TaWhole(TaDataset("columns", new, <<>>)) /\ TaTable(TaDataset("columns", new, <<>>)) = ds.rows
    BY <2>2, <2>6, TaWholeCols
  <2> QED
    BY <2>1, <2>3, <2>7, TaDatasetIs
<1> QED
  BY <1>1, <1>2, <1>3

(* The transposition to rows keeps the table.                              *)
LEMMA TaToRows == ASSUME NEW ds, TaWhole(ds)
                  PROVE  /\ TaWhole(TaTransposeToRows(ds)) /\ TaTable(TaTransposeToRows(ds)) = TaTable(ds)
                         /\ ds.mode # "matrix" => TaTransposeToRows(ds).mode = "rows"
                         /\ ds.mode = "matrix" => TaTransposeToRows(ds) = ds
<1>1. CASE ds.mode = "rows"
  BY <1>1 DEF TaTransposeToRows
<1>2. CASE ds.mode # "rows"
  <2>1. PICK n \in Nat : /\ TaEven(ds.cols, n) /\ TaTable(ds) = TaGrid(ds.cols, n)
                         /\ ds.mode = "matrix" => ds.rows = TaGrid(ds.cols, n)
    BY <1>2, TaTableIs
  <2>2. TaColsToRows(ds.cols) = TaGrid(ds.cols, n) /\ TaCols(ds.cols)
    BY <2>1, TaRead DEF TaEven
  <2>3. CASE ds.mode = "matrix"
    <3>1. TaTransposeToRows(ds) = TaDataset(ds.mode, ds.cols, ds.rows)
      BY <2>1, <2>2, <2>3 DEF TaTransposeToRows
    <3> QED
      BY <2>3, <3>1 DEF TaWhole, TaLoose
  <2>4. CASE ds.mode = "columns"
    <3> DEFINE cols == TaResetCols(ds.cols)
               rows == TaGrid(ds.cols, n)
    <3>1. TaTransposeToRows(ds) = TaDataset("rows", cols, rows)
      BY <2>2, <2>4 DEF TaTransposeToRows
    <3>2. TaCols(cols) /\ TaWidth(cols) = TaWidth(ds.cols)
      BY <2>2, TaResetIs DEF TaEven, TaWidth
    <3>3. TaEqual(rows, TaWidth(ds.cols))
      BY <2>1, TaTableRows
    <3> HIDE DEF cols, rows
    <3>4. TaWhole(TaDataset("rows", cols, rows)) /\ TaTable(TaDataset("rows", cols, rows)) = rows
      BY <3>2, <3>3, TaWholeRows
    <3> QED
      BY <2>1, <2>4, <3>1, <3>4, TaDatasetIs DEF rows
  <2> QED
    BY <1>2, <2>3, <2>4 DEF TaWhole, TaLoose
<1> QED
  BY <1>1, <1>2

(* Splits, selections and picks go to rows and back, and keep the table.   *)
LEMMA TaThereAndBack == ASSUME NEW ds, TaWhole(ds)
                        PROVE  LET byRows == IF ds.mode = "columns" THEN TaTransposeToRows(ds) ELSE ds
                               IN TaWhole(TaBack(ds.mode, byRows)) /\ TaTable(TaBack(ds.mode, byRows)) = TaTable(ds)
<1> DEFINE byRows == IF ds.mode = "columns" THEN TaTransposeToRows(ds) ELSE ds
<1>1. TaWhole(byRows) /\ TaTable(byRows) = TaTable(ds)
  BY TaToRows
<1> HIDE DEF byRows
<1>2. TaWhole(TaBack(ds.mode, byRows)) /\ TaTable(TaBack(ds.mode, byRows)) = TaTable(ds)
  BY <1>1, TaToColumns DEF TaBack
<1> QED
  BY <1>2 DEF byRows

(* A field of a dataset changed.                                           *)
LEMMA TaExcept == ASSUME NEW ds, ds = TaDataset(ds.mode, ds.cols, ds.rows), NEW cols, NEW rows
                  PROVE  /\ [ds EXCEPT !.rows = rows] = TaDataset(ds.mode, ds.cols, rows)
                         /\ [ds EXCEPT !.cols = cols] = TaDataset(ds.mode, cols, ds.rows)
                         /\ [ds EXCEPT !.rows = rows, !.cols = cols] = TaDataset(ds.mode, cols, rows)
                         /\ [ds EXCEPT !.cols = cols, !.rows = rows] = TaDataset(ds.mode, cols, rows)
<1>1. [ds EXCEPT !.rows = rows] = TaDataset(ds.mode, ds.cols, rows)
  BY SMTT(60) DEF TaDataset
<1>2. [ds EXCEPT !.cols = cols] = TaDataset(ds.mode, cols, ds.rows)
  BY SMTT(60) DEF TaDataset
<1>3. [TaDataset(ds.mode, ds.cols, rows) EXCEPT !.cols = cols] = TaDataset(ds.mode, cols, rows)
  BY SMTT(60) DEF TaDataset
<1>4. [TaDataset(ds.mode, cols, ds.rows) EXCEPT !.rows = rows] = TaDataset(ds.mode, cols, rows)
  BY SMTT(60) DEF TaDataset
<1>5. [ds EXCEPT !.rows = rows, !.cols = cols] = [[ds EXCEPT !.rows = rows] EXCEPT !.cols = cols]
  BY Zenon
<1>6. [ds EXCEPT !.cols = cols, !.rows = rows] = [[ds EXCEPT !.cols = cols] EXCEPT !.rows = rows]
  BY Zenon
<1>7. [ds EXCEPT !.rows = rows, !.cols = cols] = TaDataset(ds.mode, cols, rows)
  BY <1>1, <1>3, <1>5, Zenon
<1>8. [ds EXCEPT !.cols = cols, !.rows = rows] = TaDataset(ds.mode, cols, rows)
  BY <1>2, <1>4, <1>6, Zenon
<1> QED
  BY <1>1, <1>2, <1>7, <1>8, Zenon

(* Every row gets its records in columns of one length.                    *)
LEMMA TaRowToCols == ASSUME NEW cols, NEW n \in Nat, TaEven(cols, n), NEW row \in Seq(Int), Len(row) = TaWidth(cols)
                     PROVE  /\ TaEven(TaPushRowToColumns(cols, row), n + 1)
                            /\ TaGrid(TaPushRowToColumns(cols, row), n + 1) = Append(TaGrid(cols, n), row)
<1> DEFINE made == IF cols # <<>> THEN cols ELSE [y \in DOMAIN row |-> TaUnnamed]
           new == TaPushRowToColumns(cols, row)
           w == Len(row)
<1>1. w \in Nat /\ w # 0 /\ row = [y \in 1..w |-> row[y]]
  BY TaAssumption, SMTT(60) DEF TaWidth, TaEven, TaCols
<1>2. TaEven(made, n) /\ Len(made) = w /\ TaGrid(made, n) = TaGrid(cols, n)
  <2>1. CASE cols # <<>>
    BY <2>1 DEF TaWidth
  <2>2. CASE cols = <<>>
    <3>1. made = [y \in 1..w |-> TaUnnamed] /\ n = 0
      BY <1>1, <2>2 DEF TaEven
    <3> HIDE DEF made
    <3>2. TaEven(made, 0) /\ Len(made) = w
      BY <1>1, <3>1, TaMade
    <3> QED
      BY <3>1, <3>2 DEF TaGrid
  <2> QED
    BY <2>1, <2>2
<1> HIDE DEF w
<1>3. new = [y \in DOMAIN made |-> IF y <= w THEN [made[y] EXCEPT !.recs = Append(@, row[y])] ELSE made[y]]
  BY Zenon DEF TaPushRowToColumns, w
<1> HIDE DEF made, new
<1>4. DOMAIN made = 1..w /\ \A y \in 1..w : TaCol(made[y]) /\ made[y].recs \in Seq(Int) /\ Len(made[y].recs) = n
  BY <1>2 DEF TaEven, TaCols
<1>5. DOMAIN new = 1..w /\ Len(new) = w /\ new = [y \in 1..w |-> new[y]]
  BY <1>1, <1>3, <1>4
<1>6. ASSUME NEW y \in 1..w PROVE new[y] = [made[y] EXCEPT !.recs = Append(@, row[y])]
  <2>1. y <= w
    BY <1>1
  <2> QED
    BY <1>3, <1>4, <2>1, Zenon
<1>7. ASSUME NEW y \in 1..w PROVE TaCol(new[y]) /\ new[y].recs = Append(made[y].recs, row[y])
  <2> DEFINE recs == Append(made[y].recs, row[y])
  <2>1. new[y] = [made[y] EXCEPT !.recs = recs]
    BY <1>6
  <2> HIDE DEF recs
  <2>2. TaCol(new[y]) /\ new[y].recs = recs
    BY <1>4, <2>1 DEF TaCol
  <2> QED
    BY <2>2 DEF recs
<1>8. ASSUME NEW y \in 1..w PROVE new[y].recs \in Seq(Int) /\ Len(new[y].recs) = n + 1
  <2>1. row[y] \in Int
    BY DEF w
  <2>2. made[y].recs \in Seq(Int) /\ Len(made[y].recs) = n /\ new[y].recs = Append(made[y].recs, row[y])
    BY <1>4, <1>7, Zenon
  <2> QED
    BY <2>1, <2>2, SMTT(60)
<1>9. TaEven(new, n + 1)
  <2>1. TaCols(new) /\ new # <<>>
    <3>1. \A y \in 1..w : TaCol(new[y])
      BY <1>7, Zenon
    <3> QED
      BY <1>1, <1>5, <3>1 DEF TaCols
  <2> QED
    BY <1>5, <1>8, <2>1 DEF TaEven
<1>10. ASSUME NEW r \in 1..(n + 1) PROVE [y \in 1..w |-> new[y].recs[r]] = Append(TaGrid(made, n), row)[r]
  <2>1. CASE r <= n
    <3>1. ASSUME NEW y \in 1..w PROVE new[y].recs[r] = made[y].recs[r]
      <4>1. made[y].recs \in Seq(Int) /\ Len(made[y].recs) = n /\ new[y].recs = Append(made[y].recs, row[y])
        BY <1>4, <1>7, Zenon
      <4> QED
        BY <2>1, <4>1
    <3>2. Append(TaGrid(made, n), row)[r] = [y \in 1..w |-> made[y].recs[r]]
      BY <1>2, <2>1 DEF TaGrid
    <3> QED
      BY <3>1, <3>2
  <2>2. CASE r = n + 1
    <3>1. ASSUME NEW y \in 1..w PROVE new[y].recs[r] = row[y]
      <4>1. made[y].recs \in Seq(Int) /\ Len(made[y].recs) = n /\ new[y].recs = Append(made[y].recs, row[y])
        BY <1>4, <1>7, Zenon
      <4> QED
        BY <2>2, <4>1
    <3>2. Append(TaGrid(made, n), row)[r] = row
      BY <2>2 DEF TaGrid
    <3> QED
      BY <1>1, <3>1, <3>2 DEF w
  <2>3. r <= n \/ r = n + 1
    OBVIOUS
  <2> QED
    BY <2>1, <2>2, <2>3, Zenon
<1>11. Append(TaGrid(made, n), row) = [r \in 1..(n + 1) |-> Append(TaGrid(made, n), row)[r]]
  BY DEF TaGrid
<1>12. TaGrid(new, n + 1) = Append(TaGrid(made, n), row)
  BY <1>5, <1>10, <1>11 DEF TaGrid
<1> QED
  BY <1>2, <1>9, <1>12 DEF new

(* PushRow appends the row to the table, in every mode.                    *)
LEMMA TaRowPushed == ASSUME NEW ds, TaWhole(ds), NEW row \in Seq(Int), Len(row) = TaWidth(ds.cols)
                     PROVE  TaWhole(TaPushRow(ds, row)) /\ TaTable(TaPushRow(ds, row)) = Append(TaTable(ds), row)
<1>0. ds = TaDataset(ds.mode, ds.cols, ds.rows) /\ ds.mode \in {"rows", "columns", "matrix"} /\ TaCols(ds.cols)
  BY DEF TaWhole, TaLoose
<1>1. CASE ds.mode = "rows"
  <2> DEFINE rows == Append(ds.rows, row)
  <2>1. TaTable(ds) = ds.rows /\ TaEqual(ds.rows, TaWidth(ds.cols))
    BY <1>1, TaTableIs, SMTT(60) DEF TaWhole
  <2>2. TaPushRow(ds, row) = TaDataset("rows", ds.cols, rows)
    <3>1. TaPushRow(ds, row) = [ds EXCEPT !.rows = rows]
      BY <1>1 DEF TaPushRow
    <3> HIDE DEF rows
    <3> QED
      BY <1>0, <1>1, <3>1, TaExcept
  <2>3. TaEqual(rows, TaWidth(ds.cols))
    <3>1. ds.rows \in Seq(Seq(Int)) /\ row \in Seq(Int)
      BY <2>1 DEF TaEqual
    <3>2. rows \in Seq(Seq(Int)) /\ Len(rows) = Len(ds.rows) + 1 /\ rows[Len(ds.rows) + 1] = row
          /\ \A x \in 1..Len(ds.rows) : rows[x] = ds.rows[x]
      BY <3>1, AppendProperties
    <3> HIDE DEF rows
    <3>3. ASSUME NEW x \in 1..Len(rows) PROVE Len(rows[x]) = TaWidth(ds.cols)
      <4>1. x \in 1..Len(ds.rows) \/ x = Len(ds.rows) + 1
        BY <3>1, <3>2
      <4> QED
        BY <2>1, <3>2, <4>1, Zenon DEF TaEqual
    <3> QED
      BY <3>2, <3>3 DEF TaEqual
  <2> HIDE DEF rows
  <2>4. TaWhole(TaDataset("rows", ds.cols, rows)) /\ TaTable(TaDataset("rows", ds.cols, rows)) = rows
    BY <1>0, <2>3, TaWholeRows
  <2> QED
    BY <2>1, <2>2, <2>4 DEF rows
<1>2. CASE ds.mode # "rows"
  <2> DEFINE cols == TaPushRowToColumns(ds.cols, row)
             rows == IF ds.mode = "matrix" THEN Append(ds.rows, row) ELSE ds.rows
  <2>1. PICK n \in Nat : /\ TaEven(ds.cols, n) /\ TaTable(ds) = TaGrid(ds.cols, n)
                         /\ ds.mode = "matrix" => ds.rows = TaGrid(ds.cols, n)
    BY <1>2, TaTableIs
  <2>2. TaEven(cols, n + 1) /\ TaGrid(cols, n + 1) = Append(TaGrid(ds.cols, n), row)
    BY <2>1, TaRowToCols
  <2>3. TaPushRow(ds, row) = TaDataset(ds.mode, cols, rows)
    <3>1. CASE ds.mode = "columns"
      <4>1. TaPushRow(ds, row) = [ds EXCEPT !.cols = cols] /\ rows = ds.rows
        BY <3>1 DEF TaPushRow
      <4> HIDE DEF cols, rows
      <4> QED
        BY <1>0, <4>1 DEF TaDataset
    <3>2. CASE ds.mode = "matrix"
      <4>1. TaPushRow(ds, row) = [ds EXCEPT !.rows = rows, !.cols = cols]
        BY <3>2 DEF TaPushRow
      <4> HIDE DEF cols, rows
      <4> QED
        BY <1>0, <4>1 DEF TaDataset
    <3> QED
      BY <1>0, <1>2, <3>1, <3>2
  <2>4. ds.mode = "matrix" => rows = TaGrid(cols, n + 1)
    BY <2>1, <2>2
  <2> HIDE DEF cols, rows
  <2>5. TaWhole(TaDataset(ds.mode, cols, rows)) /\ TaTable(TaDataset(ds.mode, cols, rows)) = TaGrid(cols, n + 1)
    <3>1. ds.mode \in {"columns", "matrix"} /\ n + 1 \in Nat
      BY <1>0, <1>2, <2>1
    <3> QED
      BY <2>2, <2>4, <3>1, TaWholeCols
  <2> QED
    BY <2>1, <2>2, <2>3, <2>5
<1> QED
  BY <1>1, <1>2

(* One row pushed with PushRows.                                           *)
LEMMA TaOneRow == ASSUME NEW ds, NEW row PROVE TaPushRows(ds, <<row>>) = TaPushRow(ds, row)
<1> DEFINE turn(f, n) == IF n = 0 THEN ds ELSE TaPushRow(f[n - 1], <<row>>[n])
           pushed == CHOOSE f : f = [n \in 0..Len(<<row>>) |-> turn(f, n)]
           g == [n \in 0..1 |-> IF n = 0 THEN ds ELSE TaPushRow(ds, row)]
<1>1. TaPushRows(ds, <<row>>) = pushed[Len(<<row>>)]
  BY DEF TaPushRows
<1>2. g = [n \in 0..Len(<<row>>) |-> turn(g, n)]
  <2>1. Len(<<row>>) = 1 /\ <<row>>[1] = row /\ g[0] = ds
    OBVIOUS
  <2>2. ASSUME NEW n \in 0..1 PROVE g[n] = turn(g, n)
    <3>1. n = 0 \/ n = 1
      OBVIOUS
    <3> QED
      BY <2>1, <3>1
  <2> QED
    BY <2>1, <2>2
<1> HIDE DEF g
<1>3. pushed = [n \in 0..Len(<<row>>) |-> turn(pushed, n)]
  <2>1. \E f : f = [n \in 0..Len(<<row>>) |-> turn(f, n)]
    BY <1>2
  <2> QED
    BY <2>1, Zenon
<1> HIDE DEF pushed
<1>4. pushed[0] = ds /\ pushed[1] = TaPushRow(pushed[0], row)
  BY <1>3
<1> QED
  BY <1>1, <1>4

(* The least of some naturals is one of them.                              *)
LEMMA TaMinIn == ASSUME NEW S, S \subseteq Nat, S # {} PROVE Min(S) \in S
<1> DEFINE R == {ss \in Nat \X Nat : ss[1] < ss[2]}
<1>1. IsWellFoundedOn(R, Nat)
  BY NatLessThanWellFounded DEF OpToRel
<1>2. \E m \in S : \A k \in S : ~ (<<k, m>> \in R)
  <2> HIDE DEF R
  <2> QED
    BY <1>1, WFMin
<1>3. \E m \in S : \A k \in S : m =< k
  <2>1. \A m \in S : \A k \in S : m \in Nat /\ k \in Nat /\ (<<k, m>> \in R \/ m =< k)
    OBVIOUS
  <2> HIDE DEF R
  <2> QED
    BY <1>2, <2>1, Zenon
<1> QED
  BY <1>3, Zenon DEF Min

(* Every row gets one more record.                                         *)
TaWider(rows, recs) == [x \in 1..Len(rows) |-> Append(rows[x], recs[x])]

(* PushColumnToRows of a column as long as the dataset makes it wider.     *)
LEMMA TaPushedToRows == ASSUME NEW rows \in Seq(Seq(Int)), rows # <<>>, NEW recs \in Seq(Int), Len(recs) = Len(rows)
                        PROVE  TaPushColumnToRows(rows, recs) = TaWider(rows, recs)
<1>1. TaPushColumnToRows(rows, recs) = [x \in 1..Len(rows) |-> IF x <= Len(recs) THEN Append(rows[x], recs[x]) ELSE rows[x]]
  <2>1. DOMAIN rows = 1..Len(rows)
    OBVIOUS
  <2> QED
    BY <2>1, Zenon DEF TaPushColumnToRows
<1>2. \A x \in 1..Len(rows) : x <= Len(recs)
  OBVIOUS
<1> QED
  BY <1>1, <1>2, Zenon DEF TaWider

(* Wider rows are rows of one width.                                       *)
LEMMA TaWiderEqual == ASSUME NEW rows, NEW w \in Nat, TaEqual(rows, w), NEW recs \in Seq(Int), Len(recs) = Len(rows)
                      PROVE  TaEqual(TaWider(rows, recs), w + 1) /\ Len(TaWider(rows, recs)) = Len(rows)
<1>1. ASSUME NEW x \in 1..Len(rows) PROVE Append(rows[x], recs[x]) \in Seq(Int) /\ Len(Append(rows[x], recs[x])) = w + 1
  <2>1. rows[x] \in Seq(Int) /\ Len(rows[x]) = w /\ recs[x] \in Int
    BY DEF TaEqual
  <2> QED
    BY <2>1
<1>2. Len(rows) \in Nat
  BY DEF TaEqual
<1> DEFINE new == TaWider(rows, recs)
<1>3. DOMAIN new = 1..Len(rows) /\ new = [x \in 1..Len(rows) |-> new[x]] /\ \A x \in 1..Len(rows) : new[x] = Append(rows[x], recs[x])
  BY Zenon DEF TaWider
<1> HIDE DEF new
<1>4. \A x \in 1..Len(rows) : new[x] \in Seq(Int) /\ Len(new[x]) = w + 1
  BY <1>1, <1>3, Zenon
<1>5. Len(new) = Len(rows) /\ new \in Seq(Seq(Int))
  BY <1>2, <1>3, <1>4
<1> QED
  BY <1>4, <1>5, Zenon DEF TaEqual, new

(* A column more makes the grid wider.                                     *)
LEMMA TaColumnAdded == ASSUME NEW cols, NEW n \in Nat, TaEven(cols, n), cols # <<>>, NEW col, TaCol(col),
                              col.recs \in Seq(Int), Len(col.recs) = n
                       PROVE  TaEven(Append(cols, col), n) /\ TaGrid(Append(cols, col), n) = TaWider(TaGrid(cols, n), col.recs)
<1> DEFINE new == Append(cols, col)
           w == Len(cols)
<1>1. w \in Nat /\ cols = [y \in 1..w |-> cols[y]] /\ \A y \in 1..w : TaCol(cols[y]) /\ cols[y].recs \in Seq(Int) /\ Len(cols[y].recs) = n
  BY DEF TaEven, TaCols
<1>2. new = [y \in 1..(w + 1) |-> IF y = w + 1 THEN col ELSE cols[y]]
  <2> DEFINE S == {cols[y] : y \in 1..w} \cup {col}
  <2>1. cols \in Seq(S) /\ col \in S
    BY <1>1
  <2> HIDE DEF S
  <2>2. /\ new \in Seq(S) /\ Len(new) = w + 1 /\ new[w + 1] = col
        /\ \A y \in 1..w : new[y] = cols[y]
    BY <2>1, AppendProperties
  <2> HIDE DEF new
  <2>3. new = [y \in 1..(w + 1) |-> new[y]]
    BY <2>2
  <2>4. \A y \in 1..(w + 1) : new[y] = IF y = w + 1 THEN col ELSE cols[y]
    BY <1>1, <2>2
  <2> QED
    BY <2>3, <2>4
<1> HIDE DEF new, w
<1>3. Len(new) = w + 1 /\ new = [y \in 1..(w + 1) |-> new[y]] /\ new[w + 1] = col /\ \A y \in 1..w : new[y] = cols[y]
  <2>1. w + 1 \in 1..(w + 1) /\ \A y \in 1..w : y \in 1..(w + 1) /\ y # w + 1
    BY <1>1
  <2>2. DOMAIN new = 1..(w + 1) /\ new = [y \in 1..(w + 1) |-> new[y]]
    BY <1>2, Zenon
  <2>3. Len(new) = w + 1
    BY <1>1, <2>2
  <2>4. new[w + 1] = col /\ \A y \in 1..w : new[y] = cols[y]
    BY <1>2, <2>1, Zenon
  <2> QED
    BY <2>2, <2>3, <2>4
<1>4. ASSUME NEW y \in 1..(w + 1) PROVE TaCol(new[y]) /\ new[y].recs \in Seq(Int) /\ Len(new[y].recs) = n
  <2>1. CASE y = w + 1
    BY <1>3, <2>1
  <2>2. CASE y # w + 1
    <3>1. y \in 1..w
      BY <1>1, <2>2
    <3>2. new[y] = cols[y]
      BY <1>3, <3>1
    <3> QED
      BY <1>1, <3>1, <3>2
  <2> QED
    BY <2>1, <2>2
<1>5. TaEven(new, n)
  <2>1. TaCols(new) /\ new # <<>>
    BY <1>1, <1>3, <1>4 DEF TaCols
  <2> QED
    BY <1>3, <1>4, <2>1 DEF TaEven
<1>6. ASSUME NEW r \in 1..n
      PROVE  [y \in 1..(w + 1) |-> new[y].recs[r]] = Append([y \in 1..w |-> cols[y].recs[r]], col.recs[r])
  <2> DEFINE row == [y \in 1..w |-> cols[y].recs[r]]
             S == {row[y] : y \in 1..w} \cup {col.recs[r]}
             more == Append(row, col.recs[r])
  <2>1. row \in Seq(S) /\ col.recs[r] \in S /\ Len(row) = w /\ \A y \in 1..w : row[y] = cols[y].recs[r]
    BY <1>1, SMTT(60)
  <2> HIDE DEF S, row
  <2>2. /\ more \in Seq(S) /\ Len(more) = w + 1 /\ more[w + 1] = col.recs[r]
        /\ \A y \in 1..w : more[y] = row[y]
    BY <2>1, AppendProperties
  <2> HIDE DEF more
  <2>3. more = [y \in 1..(w + 1) |-> more[y]]
    BY <2>2
  <2>4. ASSUME NEW y \in 1..(w + 1) PROVE more[y] = new[y].recs[r]
    <3>1. y = w + 1 \/ y \in 1..w
      BY <1>1
    <3> QED
      BY <1>3, <2>1, <2>2, <3>1, Zenon
  <2> QED
    BY <2>3, <2>4 DEF more, row
<1>7. TaGrid(new, n) = TaWider(TaGrid(cols, n), col.recs)
  <2>1. TaGrid(new, n) = [r \in 1..n |-> [y \in 1..(w + 1) |-> new[y].recs[r]]]
    BY <1>3, Zenon DEF TaGrid
  <2>2. Len(TaGrid(cols, n)) = n /\ \A r \in 1..n : TaGrid(cols, n)[r] = [y \in 1..w |-> cols[y].recs[r]]
    BY DEF TaGrid, w
  <2>3. TaWider(TaGrid(cols, n), col.recs) = [r \in 1..n |-> Append([y \in 1..w |-> cols[y].recs[r]], col.recs[r])]
    BY <2>2, Zenon DEF TaWider
  <2> QED
    BY <1>6, <2>1, <2>3, ZenonT(60)
<1> QED
  BY <1>5, <1>7 DEF new

(* A column of a new name makes every row wider, in every mode.            *)
LEMMA TaNewColumn == ASSUME NEW ds, TaWhole(ds), TaTable(ds) # <<>>, Len(ds.cols) = Len(TaTable(ds)[1]), NEW col, TaCol(col),
                            col.recs \in Seq(Int), Len(col.recs) = Len(TaTable(ds)),
                            \A y \in DOMAIN ds.cols : ds.cols[y].name # col.name
                     PROVE  TaWhole(TaPushColumn(ds, col)) /\ TaTable(TaPushColumn(ds, col)) = TaWider(TaTable(ds), col.recs)
<1> DEFINE last == IF ds.mode = "rows" THEN [col EXCEPT !.recs = <<>>] ELSE col
           cols == Append(ds.cols, last)
           rows == IF ds.mode = "columns" THEN ds.rows ELSE TaPushColumnToRows(ds.rows, col.recs)
<1>0. ds = TaDataset(ds.mode, ds.cols, ds.rows) /\ ds.mode \in {"rows", "columns", "matrix"} /\ TaCols(ds.cols)
  BY DEF TaWhole, TaLoose
<1>1. TaPushColumn(ds, col) = TaDataset(ds.mode, cols, rows)
  <2>1. {y \in DOMAIN ds.cols : ds.cols[y].name = col.name} = {}
    BY Zenon
  <2>2. TaPushColumn(ds, col) = [ds EXCEPT !.cols = cols, !.rows = rows]
    BY <2>1, Zenon DEF TaPushColumn
  <2> HIDE DEF cols, rows
  <2> QED
    BY <1>0, <2>2 DEF TaDataset
<1>2. TaTable(ds) \in Seq(Seq(Int)) /\ TaEqual(TaTable(ds), TaWidth(ds.cols)) /\ 1 \in 1..Len(TaTable(ds))
  BY TaTableRows
<1>3. Len(ds.cols) \in Nat /\ ds.cols # <<>> /\ TaWidth(ds.cols) = Len(ds.cols)
  <2>1. Len(TaTable(ds)[1]) = TaWidth(ds.cols)
    BY <1>2 DEF TaEqual
  <2>2. Len(TaTypes) # 0
    BY TaAssumption
  <2>3. Len(<<>>) = 0
    OBVIOUS
  <2>4. Len(ds.cols) \in Nat
    BY <1>0 DEF TaCols
  <2> QED
    BY <2>1, <2>2, <2>3, <2>4 DEF TaWidth
<1>4. CASE ds.mode = "rows"
  <2>1. TaTable(ds) = ds.rows
    BY <1>4, TaTableIs
  <2>2. rows = TaWider(ds.rows, col.recs)
    BY <1>2, <1>4, <2>1, TaPushedToRows
  <2>3. TaEqual(rows, Len(ds.cols) + 1)
    BY <1>2, <1>3, <2>1, <2>2, TaWiderEqual, SMTT(60)
  <2>4. TaCol(last)
    BY <1>4 DEF TaCol
  <2> HIDE DEF last, rows
  <2>5. TaCols(cols) /\ Len(cols) = Len(ds.cols) + 1 /\ cols # <<>>
    <3> DEFINE w == Len(ds.cols)
               S == {ds.cols[y] : y \in 1..w} \cup {last}
    <3>0. w \in Nat /\ ds.cols = [y \in 1..w |-> ds.cols[y]] /\ \A y \in 1..w : TaCol(ds.cols[y])
      BY <1>0 DEF TaCols
    <3>1. ds.cols \in Seq(S) /\ last \in S /\ \A s \in S : TaCol(s)
      <4>1. \A y \in 1..w : ds.cols[y] \in S
        OBVIOUS
      <4>2. last \in S /\ \A s \in S : TaCol(s)
        BY <2>4, <3>0
      <4> HIDE DEF S, w
      <4>3. ds.cols \in Seq(S)
        BY <3>0, <4>1
      <4> QED
        BY <4>2, <4>3
    <3> HIDE DEF S
    <3>2. cols \in Seq(S) /\ Len(cols) = w + 1
      BY <3>1
    <3> HIDE DEF cols
    <3>3. w + 1 \in Nat /\ cols = [y \in 1..Len(cols) |-> cols[y]] /\ \A y \in 1..Len(cols) : cols[y] \in S
      BY <1>3, <3>2
    <3>4. cols # <<>>
      BY <1>3, <3>2
    <3> QED
      BY <3>1, <3>2, <3>3, <3>4 DEF TaCols
  <2> HIDE DEF cols
  <2>6. TaWhole(TaDataset("rows", cols, rows)) /\ TaTable(TaDataset("rows", cols, rows)) = rows
    <3>1. TaEqual(rows, TaWidth(cols))
      BY <2>3, <2>5 DEF TaWidth
    <3> QED
      BY <2>5, <3>1, TaWholeRows
  <2> QED
    BY <1>1, <1>4, <2>1, <2>2, <2>6
<1>5. CASE ds.mode # "rows"
  <2>1. PICK n \in Nat : /\ TaEven(ds.cols, n) /\ TaTable(ds) = TaGrid(ds.cols, n)
                         /\ ds.mode = "matrix" => ds.rows = TaGrid(ds.cols, n)
    BY <1>5, TaTableIs
  <2>2. Len(TaTable(ds)) = n
    BY <2>1 DEF TaGrid
  <2>3. TaEven(cols, n) /\ TaGrid(cols, n) = TaWider(TaGrid(ds.cols, n), col.recs)
    BY <1>3, <1>5, <2>1, <2>2, TaColumnAdded
  <2>4. ds.mode = "matrix" => rows = TaGrid(cols, n)
    <3> SUFFICES ASSUME ds.mode = "matrix" PROVE rows = TaGrid(cols, n)
      OBVIOUS
    <3>1. rows = TaWider(ds.rows, col.recs)
      BY <1>2, <2>1, TaPushedToRows
    <3> QED
      BY <2>1, <2>3, <3>1
  <2> HIDE DEF cols, rows, last
  <2>5. TaWhole(TaDataset(ds.mode, cols, rows)) /\ TaTable(TaDataset(ds.mode, cols, rows)) = TaGrid(cols, n)
    <3>1. ds.mode \in {"columns", "matrix"}
      BY <1>0, <1>5
    <3> QED
      BY <2>1, <2>3, <2>4, <3>1, TaWholeCols
  <2> QED
    BY <1>1, <2>1, <2>3, <2>5
<1> QED
  BY <1>4, <1>5

(* A column the rows have sets its records in rows of the same width, and  *)
(* makes new rows.                                                         *)
LEMMA TaOldColumn == ASSUME NEW ds, TaWhole(ds), ds.mode = "rows", NEW col, col.recs \in Seq(Int), Len(col.recs) = Len(ds.rows),
                            NEW z \in DOMAIN ds.cols, ds.cols[z].name = col.name
                     PROVE  /\ TaWhole(TaPushColumn(ds, col)) /\ TaTable(TaPushColumn(ds, col)) = TaPushColumn(ds, col).rows
                            /\ Len(TaPushColumn(ds, col).rows) >= Len(ds.rows)
                            /\ \A x \in 1..Len(ds.rows) : Len(TaPushColumn(ds, col).rows[x]) = Len(ds.rows[x])
<1> DEFINE same == {y \in DOMAIN ds.cols : ds.cols[y].name = col.name}
           c == Min(same)
           unset == {x \in DOMAIN ds.rows : Len(ds.rows[x]) < c \/ ds.rows[x][c] = 0}
           from == Min(unset \cup {Len(ds.rows) + 1})
           used == Len(ds.rows) - from + 1
           total == Len(ds.rows) + Len(col.recs) - used
           w == Len(ds.cols)
           row(x) == IF x < from THEN ds.rows[x]
                     ELSE IF x <= Len(ds.rows) THEN [ds.rows[x] EXCEPT ![c] = col.recs[x - from + 1]]
                     ELSE [u \in 1..TaNCol(ds) |-> IF u = c THEN col.recs[x - from + 1] ELSE 0]
           rows == TaFillRows(ds, c, col.recs)
<1>0. ds = TaDataset(ds.mode, ds.cols, ds.rows) /\ TaCols(ds.cols) /\ TaEqual(ds.rows, TaWidth(ds.cols))
  BY DEF TaWhole, TaLoose
<1>1. w \in Nat /\ DOMAIN ds.cols = 1..w /\ ds.cols # <<>> /\ TaWidth(ds.cols) = w
  BY <1>0 DEF TaCols, TaWidth
<1>2. same # {} /\ c \in 1..w
  <2>1. same \subseteq 1..w /\ same # {}
    BY <1>1
  <2>2. same \subseteq Nat
    BY <1>1, <2>1
  <2> HIDE DEF same
  <2> QED
    BY <2>1, <2>2, TaMinIn
<1>3. Len(ds.rows) \in Nat /\ DOMAIN ds.rows = 1..Len(ds.rows)
  BY <1>0, SMTT(60) DEF TaEqual
<1>4. from \in 1..(Len(ds.rows) + 1)
  <2> DEFINE S == unset \cup {Len(ds.rows) + 1}
  <2>1. S \subseteq 1..(Len(ds.rows) + 1) /\ S # {}
    BY <1>3, SMTT(60)
  <2>2. S \subseteq Nat
    BY <1>3, <2>1
  <2> HIDE DEF S
  <2>3. Min(S) \in S
    BY <2>1, <2>2, TaMinIn
  <2> QED
    BY <2>1, <2>3 DEF S
<1>5. TaPushColumn(ds, col) = TaDataset("rows", ds.cols, rows)
  <2>1. TaPushColumn(ds, col) = [ds EXCEPT !.rows = rows]
    BY <1>2, Zenon DEF TaPushColumn
  <2> HIDE DEF rows
  <2> QED
    BY <1>0, <2>1 DEF TaDataset
<1>6. rows = [x \in 1..total |-> row(x)]
  BY Zenon DEF TaFillRows
<1> HIDE DEF same, c, unset, from
<1>7. total \in Nat /\ total >= Len(ds.rows) /\ \A x \in 1..total : x >= from => x - from + 1 \in 1..Len(col.recs)
  BY <1>3, <1>4
<1>8. TaNCol(ds) = w
  BY <1>1 DEF TaNCol
<1>9. ASSUME NEW x \in 1..total PROVE row(x) \in Seq(Int) /\ Len(row(x)) = w
  <2>1. CASE x < from
    <3>1. x \in 1..Len(ds.rows)
      BY <1>3, <1>4, <2>1
    <3> QED
      BY <1>0, <1>1, <2>1, <3>1 DEF TaEqual
  <2>2. CASE ~(x < from)
    <3> DEFINE v == col.recs[x - from + 1]
    <3>1. v \in Int
      BY <1>4, <1>7, <2>2
    <3> HIDE DEF v
    <3>2. CASE x <= Len(ds.rows)
      <4>1. ds.rows[x] \in Seq(Int) /\ Len(ds.rows[x]) = w
        BY <1>0, <1>1, <1>3, <3>2 DEF TaEqual
      <4>2. row(x) = [ds.rows[x] EXCEPT ![c] = v]
        BY <2>2, <3>2 DEF v
      <4>3. [ds.rows[x] EXCEPT ![c] = v] \in Seq(Int) /\ Len([ds.rows[x] EXCEPT ![c] = v]) = w
        BY <1>2, <3>1, <4>1
      <4> HIDE DEF row
      <4> QED
        BY <4>2, <4>3
    <3>3. CASE ~(x <= Len(ds.rows))
      <4>1. row(x) = [u \in 1..w |-> IF u = c THEN v ELSE 0]
        BY <1>8, <2>2, <3>3 DEF v
      <4>2. [u \in 1..w |-> IF u = c THEN v ELSE 0] \in Seq(Int) /\ Len([u \in 1..w |-> IF u = c THEN v ELSE 0]) = w
        BY <1>1, <3>1
      <4> HIDE DEF row
      <4> QED
        BY <4>1, <4>2
    <3> QED
      BY <3>2, <3>3
  <2> QED
    BY <2>1, <2>2
<1> HIDE DEF row, total, rows
<1>10. Len(rows) = total /\ \A x \in 1..total : rows[x] \in Seq(Int) /\ Len(rows[x]) = w
  <2>1. Len(rows) = total
    BY <1>6, <1>7
  <2> QED
    BY <1>6, <1>9, <2>1
<1>11. TaEqual(rows, w)
  BY <1>6, <1>7, <1>10 DEF TaEqual
<1>12. TaWhole(TaDataset("rows", ds.cols, rows)) /\ TaTable(TaDataset("rows", ds.cols, rows)) = rows
  BY <1>0, <1>1, <1>11, TaWholeRows
<1>13. \A x \in 1..Len(ds.rows) : x \in 1..total /\ Len(ds.rows[x]) = w
  BY <1>0, <1>1, <1>3, <1>7 DEF TaEqual
<1>14. Len(rows) >= Len(ds.rows) /\ \A x \in 1..Len(ds.rows) : Len(rows[x]) = Len(ds.rows[x])
  BY <1>7, <1>10, <1>13
<1>15. TaDataset("rows", ds.cols, rows).rows = rows
  BY TaDatasetIs
<1> QED
  BY <1>5, <1>12, <1>14, <1>15, Zenon

(* What RemoveAt leaves of a sequence.                                     *)
LEMMA TaRemoved == ASSUME NEW V, NEW s \in Seq(V), NEW i \in 1..Len(s)
                   PROVE  /\ RemoveAt(s, i) \in Seq(V) /\ Len(RemoveAt(s, i)) = Len(s) - 1
                          /\ \A k \in 1..(Len(s) - 1) : RemoveAt(s, i)[k] = IF k < i THEN s[k] ELSE s[k + 1]
<1> DEFINE p == SubSeq(s, 1, i - 1)
           q == SubSeq(s, i + 1, Len(s))
<1>1. p \in Seq(V) /\ Len(p) = i - 1 /\ \A k \in 1..(i - 1) : p[k] = s[k]
  OBVIOUS
<1>2. q \in Seq(V) /\ Len(q) = Len(s) - i /\ \A k \in 1..(Len(s) - i) : q[k] = s[i + k]
  OBVIOUS
<1>3. RemoveAt(s, i) = p \o q
  BY DEF RemoveAt
<1> HIDE DEF p, q
<1>4. p \o q \in Seq(V) /\ Len(p \o q) = Len(s) - 1
  <2>1. p \o q \in Seq(V) /\ Len(p \o q) = Len(p) + Len(q)
    BY <1>1, <1>2, ConcatProperties
  <2> QED
    BY <1>1, <1>2, <2>1
<1>5. ASSUME NEW k \in 1..(Len(s) - 1) PROVE (p \o q)[k] = IF k < i THEN s[k] ELSE s[k + 1]
  <2>1. CASE k < i
    <3>1. k \in 1..(i - 1) /\ k \in 1..Len(p)
      BY <1>1, <2>1
    <3>2. (p \o q)[k] = p[k]
      BY <1>1, <1>2, <3>1
    <3> QED
      BY <1>1, <2>1, <3>1, <3>2
  <2>2. CASE ~(k < i)
    <3>1. k - (i - 1) \in 1..(Len(s) - i) /\ i + (k - (i - 1)) = k + 1
      BY <2>2
    <3>2. (p \o q)[k] = q[k - (i - 1)]
      BY <1>1, <1>2, <2>2, <3>1
    <3> QED
      BY <1>2, <2>2, <3>1, <3>2
  <2> QED
    BY <2>1, <2>2
<1> QED
  BY <1>3, <1>4, <1>5

(* Columns whose records are replaced are columns.                         *)
LEMMA TaReplaced == ASSUME NEW cols, TaCols(cols), NEW new, new = [y \in 1..Len(cols) |-> new[y]],
                           \A y \in 1..Len(cols) : new[y] = cols[y] \/ \E recs : new[y] = [cols[y] EXCEPT !.recs = recs]
                    PROVE  TaCols(new) /\ Len(new) = Len(cols) /\ (new = <<>> => cols = <<>>)
<1>1. Len(new) = Len(cols) /\ Len(cols) \in Nat
  BY DEF TaCols
<1>2. ASSUME NEW y \in 1..Len(cols) PROVE TaCol(new[y])
  <2>1. TaCol(cols[y])
    BY DEF TaCols
  <2>2. CASE new[y] # cols[y]
    <3>1. PICK recs : new[y] = [cols[y] EXCEPT !.recs = recs]
      BY <2>2
    <3> QED
      BY <2>1, <3>1 DEF TaCol
  <2> QED
    BY <2>1, <2>2
<1>3. TaCols(new)
  BY <1>1, <1>2 DEF TaCols
<1> QED
  BY <1>1, <1>3 DEF TaCols

(* A record taken from every column takes the row from the grid.           *)
LEMMA TaRecordDeleted == ASSUME NEW cols, NEW n \in Nat, TaEven(cols, n), NEW i \in 1..n,
                                NEW new, new = [y \in 1..Len(cols) |-> [cols[y] EXCEPT !.recs = RemoveAt(@, i)]]
                         PROVE  TaEven(new, n - 1) /\ TaGrid(new, n - 1) = RemoveAt(TaGrid(cols, n), i)
<1>1. TaCols(cols) /\ Len(cols) \in Nat /\ \A y \in 1..Len(cols) : TaCol(cols[y]) /\ cols[y].recs \in Seq(Int) /\ Len(cols[y].recs) = n
  BY DEF TaEven, TaCols
<1>2. DOMAIN new = 1..Len(cols) /\ new = [y \in 1..Len(cols) |-> new[y]]
  BY Zenon
<1>3. \A y \in 1..Len(cols) : new[y] = [cols[y] EXCEPT !.recs = RemoveAt(cols[y].recs, i)]
  BY Zenon
<1>4. ASSUME NEW y \in 1..Len(cols) PROVE new[y].recs = RemoveAt(cols[y].recs, i)
  <2> DEFINE recs == RemoveAt(cols[y].recs, i)
  <2>1. new[y] = [cols[y] EXCEPT !.recs = recs] /\ TaCol(cols[y])
    BY <1>1, <1>3
  <2> HIDE DEF recs
  <2>2. new[y].recs = recs
    BY <2>1 DEF TaCol
  <2> QED
    BY <2>2 DEF recs
<1>5. ASSUME NEW y \in 1..Len(cols)
      PROVE  /\ new[y].recs \in Seq(Int) /\ Len(new[y].recs) = n - 1
             /\ \A k \in 1..(n - 1) : new[y].recs[k] = IF k < i THEN cols[y].recs[k] ELSE cols[y].recs[k + 1]
  <2> DEFINE V == Int
             s == cols[y].recs
  <2>1. s \in Seq(V) /\ Len(s) = n /\ i \in 1..Len(s)
    BY <1>1
  <2>2. new[y].recs = RemoveAt(s, i)
    BY <1>4
  <2> HIDE DEF V, s
  <2>3. /\ RemoveAt(s, i) \in Seq(V) /\ Len(RemoveAt(s, i)) = Len(s) - 1
        /\ \A k \in 1..(Len(s) - 1) : RemoveAt(s, i)[k] = IF k < i THEN s[k] ELSE s[k + 1]
    BY <2>1, TaRemoved
  <2> QED
    BY <2>1, <2>2, <2>3 DEF V, s
<1>6. TaCols(new) /\ Len(new) = Len(cols) /\ (new = <<>> => cols = <<>>)
  <2>1. \A y \in 1..Len(cols) : \E recs : new[y] = [cols[y] EXCEPT !.recs = recs]
    BY <1>3, Zenon
  <2> QED
    BY <1>1, <1>2, <2>1, TaReplaced, ZenonT(60)
<1>7. TaEven(new, n - 1)
  <2>1. cols # <<>> /\ n - 1 \in Nat
    BY DEF TaEven
  <2>2. new # <<>>
    BY <1>6, <2>1
  <2> QED
    BY <1>5, <1>6, <2>1, <2>2 DEF TaEven
<1> DEFINE grid == TaGrid(cols, n)
           V == {grid[r] : r \in 1..n}
<1>8. grid = [r \in 1..n |-> [y \in 1..Len(cols) |-> cols[y].recs[r]]]
  BY DEF TaGrid
<1> HIDE DEF grid
<1>9. Len(grid) = n /\ grid \in Seq(V)
  BY <1>8
<1> HIDE DEF V
<1>10. /\ RemoveAt(grid, i) \in Seq(V) /\ Len(RemoveAt(grid, i)) = n - 1
       /\ \A k \in 1..(n - 1) : RemoveAt(grid, i)[k] = IF k < i THEN grid[k] ELSE grid[k + 1]
  BY <1>9, TaRemoved
<1>11. ASSUME NEW k \in 1..(n - 1) PROVE RemoveAt(grid, i)[k] = [y \in 1..Len(cols) |-> new[y].recs[k]]
  <2>1. CASE k < i
    <3>0. k \in 1..n
      OBVIOUS
    <3>1. RemoveAt(grid, i)[k] = [y \in 1..Len(cols) |-> cols[y].recs[k]]
      BY <1>8, <1>10, <2>1, <3>0
    <3>2. \A y \in 1..Len(cols) : new[y].recs[k] = cols[y].recs[k]
      BY <1>5, <2>1
    <3> QED
      BY <3>1, <3>2
  <2>2. CASE ~(k < i)
    <3>0. k + 1 \in 1..n
      OBVIOUS
    <3>1. RemoveAt(grid, i)[k] = [y \in 1..Len(cols) |-> cols[y].recs[k + 1]]
      BY <1>8, <1>10, <2>2, <3>0
    <3>2. \A y \in 1..Len(cols) : new[y].recs[k] = cols[y].recs[k + 1]
      BY <1>5, <2>2
    <3> QED
      BY <3>1, <3>2
  <2> QED
    BY <2>1, <2>2
<1>12. RemoveAt(grid, i) = [k \in 1..(n - 1) |-> RemoveAt(grid, i)[k]]
  BY <1>10
<1>13. TaGrid(new, n - 1) = [k \in 1..(n - 1) |-> [y \in 1..Len(cols) |-> new[y].recs[k]]]
  BY <1>6, Zenon DEF TaGrid
<1>14. TaGrid(new, n - 1) = RemoveAt(grid, i)
  BY <1>11, <1>12, <1>13, Zenon
<1> QED
  BY <1>7, <1>14 DEF grid

(* DeleteRow takes a row from the table, or refuses.                       *)
LEMMA TaRowDeleted == ASSUME NEW ds, TaWhole(ds), NEW i \in Nat \ {0}
                      PROVE  /\ TaWhole(TaDeleteRow(ds, i))
                             /\ \/ TaTable(TaDeleteRow(ds, i)) = TaTable(ds)
                                \/ i \in DOMAIN TaTable(ds) /\ TaTable(TaDeleteRow(ds, i)) = RemoveAt(TaTable(ds), i)
<1>0. ds = TaDataset(ds.mode, ds.cols, ds.rows) /\ ds.mode \in {"rows", "columns", "matrix"} /\ TaCols(ds.cols)
  BY DEF TaWhole, TaLoose
<1>1. CASE i > Len(ds.rows) \/ ds.mode = "columns"
  BY <1>1 DEF TaDeleteRow
<1>2. CASE ~(i > Len(ds.rows)) /\ ds.mode # "columns"
  <2> DEFINE rows == RemoveAt(ds.rows, i)
             cols == IF ds.mode = "rows" THEN ds.cols
                     ELSE [y \in DOMAIN ds.cols |-> IF i <= Len(ds.cols[y].recs) THEN [ds.cols[y] EXCEPT !.recs = RemoveAt(@, i)]
                                                    ELSE ds.cols[y]]
  <2>1. TaDeleteRow(ds, i) = TaDataset(ds.mode, cols, rows)
    BY <1>2, Zenon DEF TaDeleteRow
  <2>2. TaTable(ds) = ds.rows /\ TaTable(ds) \in Seq(Seq(Int)) /\ TaEqual(ds.rows, TaWidth(ds.cols))
    BY <1>2, TaTableRows DEF TaTable
  <2>3. i \in 1..Len(ds.rows) /\ DOMAIN TaTable(ds) = 1..Len(ds.rows)
    BY <1>2, <2>2
  <2>4. CASE ds.mode = "rows"
    <3>1. /\ rows \in Seq(Seq(Int)) /\ Len(rows) = Len(ds.rows) - 1
          /\ \A k \in 1..(Len(ds.rows) - 1) : rows[k] = IF k < i THEN ds.rows[k] ELSE ds.rows[k + 1]
      <4> DEFINE V == Seq(Int)
      <4>1. ds.rows \in Seq(V)
        BY <2>2
      <4> HIDE DEF V
      <4>2. /\ rows \in Seq(V) /\ Len(rows) = Len(ds.rows) - 1
            /\ \A k \in 1..(Len(ds.rows) - 1) : rows[k] = IF k < i THEN ds.rows[k] ELSE ds.rows[k + 1]
        BY <2>3, <4>1, TaRemoved
      <4> QED
        BY <4>2 DEF V
    <3> HIDE DEF rows
    <3>2. TaEqual(rows, TaWidth(ds.cols))
      <4>1. ASSUME NEW k \in 1..Len(rows) PROVE Len(rows[k]) = TaWidth(ds.cols)
        <5>1. k \in 1..(Len(ds.rows) - 1) /\ k \in 1..Len(ds.rows) /\ k + 1 \in 1..Len(ds.rows)
          BY <2>2, <2>3, <3>1 DEF TaEqual
        <5>2. rows[k] = ds.rows[k] \/ rows[k] = ds.rows[k + 1]
          BY <3>1, <5>1
        <5> QED
          BY <2>2, <5>1, <5>2, Zenon DEF TaEqual
      <4> QED
        BY <3>1, <4>1 DEF TaEqual
    <3>3. TaWhole(TaDataset("rows", ds.cols, rows)) /\ TaTable(TaDataset("rows", ds.cols, rows)) = rows
      BY <1>0, <3>2, TaWholeRows
    <3>4. TaDeleteRow(ds, i) = TaDataset("rows", ds.cols, rows)
      BY <2>1, <2>4
    <3> QED
      BY <2>2, <2>3, <3>3, <3>4 DEF rows
  <2>5. CASE ds.mode = "matrix"
    <3>1. PICK n \in Nat : TaEven(ds.cols, n) /\ TaTable(ds) = TaGrid(ds.cols, n)
      BY <2>5, TaTableIs
    <3>2. Len(ds.rows) = n /\ i \in 1..n
      BY <2>2, <2>3, <3>1 DEF TaGrid
    <3>3. cols = [y \in 1..Len(ds.cols) |-> [ds.cols[y] EXCEPT !.recs = RemoveAt(@, i)]]
      <4>1. \A y \in 1..Len(ds.cols) : i <= Len(ds.cols[y].recs)
        BY <3>1, <3>2 DEF TaEven
      <4>2. DOMAIN ds.cols = 1..Len(ds.cols)
        BY <1>0 DEF TaCols
      <4>3. ds.mode # "rows"
        BY <2>5
      <4> QED
        BY <4>1, <4>2, <4>3, Zenon
    <3> HIDE DEF cols
    <3>4. TaEven(cols, n - 1) /\ TaGrid(cols, n - 1) = rows
      <4>1. TaEven(cols, n - 1) /\ TaGrid(cols, n - 1) = RemoveAt(TaGrid(ds.cols, n), i)
        BY <3>1, <3>2, <3>3, TaRecordDeleted, ZenonT(60)
      <4> QED
        BY <2>2, <3>1, <4>1
    <3> HIDE DEF rows
    <3>5. TaWhole(TaDataset(ds.mode, cols, rows)) /\ TaTable(TaDataset(ds.mode, cols, rows)) = rows
      <4>1. n - 1 \in Nat /\ ds.mode \in {"columns", "matrix"}
        BY <2>5, <3>2
      <4> QED
        BY <3>4, <4>1, TaWholeCols
    <3> QED
      BY <2>1, <2>2, <2>3, <3>5 DEF rows
  <2> QED
    BY <1>0, <1>2, <2>4, <2>5
<1> QED
  BY <1>1, <1>2

(* A function on 1..n is a sequence.                                       *)
LEMMA TaSequence == ASSUME NEW n \in Nat, NEW V, NEW r, r = [i \in 1..n |-> r[i]], \A i \in 1..n : r[i] \in V
                    PROVE  r \in Seq(V) /\ Len(r) = n
  OBVIOUS

(* SortColumnsByIndex on columns of one length permutes the rows of their  *)
(* grid.                                                                   *)
TaSortedCols(cols, perm) ==
  [y \in 1..Len(cols) |-> [cols[y] EXCEPT !.recs = [i \in DOMAIN cols[y].recs |-> cols[y].recs[perm[i]]]]]
LEMMA TaSorted == ASSUME NEW cols, NEW n \in Nat, TaEven(cols, n), NEW perm \in [1..n -> 1..n]
                  PROVE  /\ TaEven(TaSortedCols(cols, perm), n) /\ Len(TaGrid(TaSortedCols(cols, perm), n)) = n
                         /\ Len(TaGrid(cols, n)) = n
                         /\ \A i \in 1..n : TaGrid(TaSortedCols(cols, perm), n)[i] = TaGrid(cols, n)[perm[i]]
<1> DEFINE recs(y) == [i \in 1..n |-> cols[y].recs[perm[i]]]
           new == TaSortedCols(cols, perm)
<1>0. new = [y \in 1..Len(cols) |-> [cols[y] EXCEPT !.recs = [i \in DOMAIN cols[y].recs |-> cols[y].recs[perm[i]]]]]
  BY Zenon DEF TaSortedCols
<1> HIDE DEF new
<1>1. TaCols(cols) /\ Len(cols) \in Nat /\ \A y \in 1..Len(cols) : TaCol(cols[y]) /\ cols[y].recs \in Seq(Int) /\ Len(cols[y].recs) = n
  BY DEF TaEven, TaCols
<1>2. DOMAIN new = 1..Len(cols) /\ new = [y \in 1..Len(cols) |-> new[y]]
  BY <1>0, Zenon
<1>3. ASSUME NEW y \in 1..Len(cols) PROVE new[y] = [cols[y] EXCEPT !.recs = recs(y)] /\ recs(y) \in Seq(Int) /\ Len(recs(y)) = n
  <2>1. new[y] = [cols[y] EXCEPT !.recs = [i \in DOMAIN cols[y].recs |-> cols[y].recs[perm[i]]]]
    BY <1>0, Zenon
  <2>2. cols[y].recs \in Seq(Int) /\ Len(cols[y].recs) = n
    BY <1>1
  <2>3. DOMAIN cols[y].recs = 1..n
    BY <2>2
  <2>4. \A i \in 1..n : cols[y].recs[perm[i]] \in Int
    BY <2>2, SMTT(60)
  <2>5. recs(y) \in Seq(Int) /\ Len(recs(y)) = n
    <3> DEFINE r == recs(y)
    <3>1. r = [i \in 1..n |-> r[i]] /\ \A i \in 1..n : r[i] \in Int
      BY <2>4, Zenon
    <3> HIDE DEF r
    <3>2. r \in Seq(Int) /\ Len(r) = n
      BY <3>1, TaSequence, Zenon
    <3> QED
      BY <3>2 DEF r
  <2>6. new[y] = [cols[y] EXCEPT !.recs = recs(y)]
    BY <2>1, <2>3, Zenon
  <2> QED
    BY <2>5, <2>6, Zenon
<1> HIDE DEF recs
<1>4. ASSUME NEW y \in 1..Len(cols) PROVE new[y].recs = recs(y)
  <2>1. TaCol(cols[y]) /\ new[y] = [cols[y] EXCEPT !.recs = recs(y)]
    BY <1>1, <1>3, Zenon
  <2> QED
    BY <2>1 DEF TaCol
<1>5. TaCols(new) /\ Len(new) = Len(cols) /\ (new = <<>> => cols = <<>>)
  <2>1. \A y \in 1..Len(cols) : new[y] = cols[y] \/ \E r : new[y] = [cols[y] EXCEPT !.recs = r]
    BY <1>3, Zenon
  <2> QED
    BY <1>1, <1>2, <2>1, TaReplaced
<1>6. TaEven(new, n)
  <2>1. \A y \in 1..Len(cols) : new[y].recs \in Seq(Int) /\ Len(new[y].recs) = n
    BY <1>3, <1>4
  <2> QED
    BY <1>5, <2>1 DEF TaEven
<1>7. Len(TaGrid(new, n)) = n /\ Len(TaGrid(cols, n)) = n
  BY DEF TaGrid
<1>8. ASSUME NEW i \in 1..n PROVE TaGrid(new, n)[i] = TaGrid(cols, n)[perm[i]]
  <2>1. TaGrid(new, n)[i] = [y \in 1..Len(cols) |-> new[y].recs[i]]
    BY <1>5 DEF TaGrid
  <2>2. perm[i] \in 1..n
    OBVIOUS
  <2>3. TaGrid(cols, n)[perm[i]] = [y \in 1..Len(cols) |-> cols[y].recs[perm[i]]]
    BY <2>2 DEF TaGrid
  <2>4. ASSUME NEW y \in 1..Len(cols) PROVE new[y].recs[i] = cols[y].recs[perm[i]]
    <3>1. new[y].recs = recs(y)
      BY <1>4
    <3> QED
      BY <3>1, Zenon DEF recs
  <2> DEFINE f(y) == new[y].recs[i]
             g(y) == cols[y].recs[perm[i]]
  <2>5. TaGrid(new, n)[i] = [y \in 1..Len(cols) |-> f(y)] /\ TaGrid(cols, n)[perm[i]] = [y \in 1..Len(cols) |-> g(y)]
    BY <2>1, <2>3
  <2>6. \A y \in 1..Len(cols) : f(y) = g(y)
    BY <2>4
  <2> HIDE DEF f, g
  <2> QED
    BY <2>5, <2>6
<1> QED
  BY <1>6, <1>7, <1>8 DEF new

-----------------------------------------------------------------------------
(* A dataset that was torn keeps its columns, whatever is in them.         *)

(* A dataset made of a mode and some columns has columns.                  *)
LEMMA TaHas == ASSUME NEW mode \in {"rows", "columns", "matrix"}, NEW cols, TaCols(cols), cols # <<>>, NEW rows
               PROVE  TaHasCols(TaDataset(mode, cols, rows))
<1> DEFINE ds == TaDataset(mode, cols, rows)
<1>1. ds.mode = mode /\ ds.cols = cols /\ ds.rows = rows
  BY TaDatasetIs
<1>2. ds = TaDataset(ds.mode, ds.cols, ds.rows)
  BY <1>1
<1> HIDE DEF ds
<1>3. TaHasCols(ds)
  BY <1>1, <1>2 DEF TaHasCols, TaLoose
<1> QED
  BY <1>3 DEF ds

(* Records pushed to columns leave the columns.                            *)
LEMMA TaRowsToColsKeeps == ASSUME NEW cols, TaCols(cols), cols # <<>>, NEW rows
                           PROVE  TaCols(TaRowsToCols(cols, rows)) /\ TaRowsToCols(cols, rows) # <<>>
<1> DEFINE minlen == TaMin(Len(rows[1]), Len(cols))
           new == TaRowsToCols(cols, rows)
<1>1. new = [y \in 1..Len(cols) |-> IF y > minlen THEN cols[y] ELSE [cols[y] EXCEPT !.recs = @ \o [x \in DOMAIN rows |-> rows[x][y]]]]
  <2>1. DOMAIN cols = 1..Len(cols)
    BY DEF TaCols
  <2> QED
    BY <2>1, Zenon DEF TaRowsToCols
<1> HIDE DEF minlen, new
<1>2. new = [y \in 1..Len(cols) |-> new[y]]
  BY <1>1, Zenon
<1>3. \A y \in 1..Len(cols) : new[y] = cols[y] \/ \E recs : new[y] = [cols[y] EXCEPT !.recs = recs]
  BY <1>1, Zenon
<1> QED
  BY <1>2, <1>3, TaReplaced DEF new

(* So do transpositions to columns.                                        *)
LEMMA TaToColumnsKeeps == ASSUME NEW ds, TaHasCols(ds) PROVE TaHasCols(TaTransposeToColumns(ds))
<1>0. TaCols(ds.cols) /\ ds.cols # <<>> /\ ds.mode \in {"rows", "columns", "matrix"}
  BY DEF TaHasCols, TaLoose
<1> DEFINE empty == TaResetCols(ds.cols)
           fromEmpty == TaRowsToCols(empty, ds.rows)
           fromCols == TaRowsToCols(ds.cols, ds.rows)
<1>1. \/ TaTransposeToColumns(ds) = ds
      \/ TaTransposeToColumns(ds) = TaDataset("columns", fromEmpty, <<>>)
      \/ TaTransposeToColumns(ds) = TaDataset(ds.mode, fromCols, ds.rows)
  BY <1>0, Zenon DEF TaTransposeToColumns
<1>2. TaCols(empty) /\ empty # <<>>
  BY <1>0, TaResetIs DEF TaEven
<1> HIDE DEF empty
<1>3. TaCols(fromEmpty) /\ fromEmpty # <<>> /\ TaCols(fromCols) /\ fromCols # <<>>
  BY <1>0, <1>2, TaRowsToColsKeeps
<1> HIDE DEF fromEmpty, fromCols
<1>4. TaHasCols(TaDataset("columns", fromEmpty, <<>>)) /\ TaHasCols(TaDataset(ds.mode, fromCols, ds.rows))
  BY <1>0, <1>3, TaHas
<1> QED
  BY <1>1, <1>4

(* And transpositions to rows.                                             *)
LEMMA TaToRowsKeeps == ASSUME NEW ds, TaHasCols(ds) PROVE TaHasCols(TaTransposeToRows(ds))
<1>0. TaCols(ds.cols) /\ ds.cols # <<>> /\ ds.mode \in {"rows", "columns", "matrix"}
  BY DEF TaHasCols, TaLoose
<1> DEFINE empty == TaResetCols(ds.cols)
           rows == TaColsToRows(ds.cols)
<1>1. \/ TaTransposeToRows(ds) = ds
      \/ TaTransposeToRows(ds) = TaDataset("rows", empty, rows)
      \/ TaTransposeToRows(ds) = TaDataset(ds.mode, ds.cols, rows)
  BY DEF TaTransposeToRows
<1>2. TaCols(empty) /\ empty # <<>>
  BY <1>0, TaResetIs DEF TaEven
<1> HIDE DEF empty, rows
<1>3. TaHasCols(TaDataset("rows", empty, rows)) /\ TaHasCols(TaDataset(ds.mode, ds.cols, rows))
  BY <1>0, <1>2, TaHas
<1> QED
  BY <1>1, <1>3

(* And the way to rows and back.                                           *)
LEMMA TaBackKeeps == ASSUME NEW ds, TaHasCols(ds)
                     PROVE  TaHasCols(TaBack(ds.mode, IF ds.mode = "columns" THEN TaTransposeToRows(ds) ELSE ds))
<1> DEFINE byRows == IF ds.mode = "columns" THEN TaTransposeToRows(ds) ELSE ds
<1>1. TaHasCols(byRows)
  BY TaToRowsKeeps
<1> HIDE DEF byRows
<1>2. TaHasCols(TaBack(ds.mode, byRows))
  BY <1>1, TaToColumnsKeeps DEF TaBack
<1> QED
  BY <1>2 DEF byRows

(* And a row pushed.                                                       *)
LEMMA TaPushRowKeeps == ASSUME NEW ds, TaHasCols(ds), NEW row PROVE TaHasCols(TaPushRow(ds, row))
<1>0. TaCols(ds.cols) /\ ds.cols # <<>> /\ ds.mode \in {"rows", "columns", "matrix"} /\ ds = TaDataset(ds.mode, ds.cols, ds.rows)
  BY DEF TaHasCols, TaLoose
<1> DEFINE rows == Append(ds.rows, row)
           cols == TaPushRowToColumns(ds.cols, row)
<1>1. TaCols(cols) /\ cols # <<>>
  <2>1. DOMAIN ds.cols = 1..Len(ds.cols)
    BY <1>0 DEF TaCols
  <2>2. cols = [y \in 1..Len(ds.cols) |-> IF y <= Len(row) THEN [ds.cols[y] EXCEPT !.recs = Append(@, row[y])] ELSE ds.cols[y]]
    BY <1>0, <2>1, Zenon DEF TaPushRowToColumns
  <2> HIDE DEF cols
  <2>3. cols = [y \in 1..Len(ds.cols) |-> cols[y]]
    BY <2>2, Zenon
  <2>4. \A y \in 1..Len(ds.cols) : cols[y] = ds.cols[y] \/ \E recs : cols[y] = [ds.cols[y] EXCEPT !.recs = recs]
    BY <2>2, Zenon
  <2> QED
    BY <1>0, <2>3, <2>4, TaReplaced
<1>2. \/ TaPushRow(ds, row) = [ds EXCEPT !.rows = rows]
      \/ TaPushRow(ds, row) = [ds EXCEPT !.cols = cols]
      \/ TaPushRow(ds, row) = [ds EXCEPT !.rows = rows, !.cols = cols]
  BY <1>0 DEF TaPushRow
<1> HIDE DEF cols, rows
<1>3. \/ TaPushRow(ds, row) = TaDataset(ds.mode, ds.cols, rows)
      \/ TaPushRow(ds, row) = TaDataset(ds.mode, cols, ds.rows)
      \/ TaPushRow(ds, row) = TaDataset(ds.mode, cols, rows)
  BY <1>0, <1>2 DEF TaDataset
<1> QED
  BY <1>0, <1>1, <1>3, TaHas

(* And a column pushed; then a dataset without columns has one.            *)
LEMMA TaPushColumnKeeps == ASSUME NEW ds, TaLoose(ds), NEW col, TaCol(col) PROVE TaHasCols(TaPushColumn(ds, col))
<1>0. TaCols(ds.cols) /\ ds.mode \in {"rows", "columns", "matrix"} /\ ds = TaDataset(ds.mode, ds.cols, ds.rows)
  BY DEF TaLoose
<1> DEFINE same == {y \in DOMAIN ds.cols : ds.cols[y].name = col.name}
           c == Min(same)
<1>1. Len(ds.cols) \in Nat /\ DOMAIN ds.cols = 1..Len(ds.cols)
  BY <1>0 DEF TaCols
<1>2. CASE same # {}
  <2>1. c \in 1..Len(ds.cols) /\ ds.cols # <<>>
    <3>1. same \subseteq 1..Len(ds.cols)
      BY <1>1
    <3>2. same \subseteq Nat
      BY <1>1, <3>1
    <3>3. Min(same) \in same
      <4> HIDE DEF same
      <4> QED
        BY <1>2, <3>2, TaMinIn
    <3> QED
      BY <1>1, <3>1, <3>3
  <2>2. CASE ds.mode = "rows"
    <3> DEFINE rows == TaFillRows(ds, c, col.recs)
    <3>1. TaPushColumn(ds, col) = [ds EXCEPT !.rows = rows]
      BY <1>2, <2>2, Zenon DEF TaPushColumn
    <3> HIDE DEF rows
    <3>2. TaPushColumn(ds, col) = TaDataset(ds.mode, ds.cols, rows)
      BY <1>0, <3>1 DEF TaDataset
    <3> QED
      BY <1>0, <2>1, <3>2, TaHas
  <2>3. CASE ds.mode # "rows"
    <3> DEFINE recs == ds.cols[c].recs \o col.recs
               cols == [ds.cols EXCEPT ![c] = [ds.cols[c] EXCEPT !.recs = recs]]
    <3>1. TaPushColumn(ds, col) = [ds EXCEPT !.cols = cols]
      BY <1>2, <2>3, Zenon DEF TaPushColumn
    <3> HIDE DEF recs, c
    <3>2. cols = [y \in 1..Len(ds.cols) |-> cols[y]]
      BY <1>1
    <3>3. \A y \in 1..Len(ds.cols) : cols[y] = ds.cols[y] \/ \E r : cols[y] = [ds.cols[y] EXCEPT !.recs = r]
      BY <1>1, Zenon
    <3> HIDE DEF cols
    <3>4. TaCols(cols) /\ cols # <<>>
      BY <1>0, <2>1, <3>2, <3>3, TaReplaced
    <3>5. TaPushColumn(ds, col) = TaDataset(ds.mode, cols, ds.rows)
      BY <1>0, <3>1 DEF TaDataset
    <3> QED
      BY <1>0, <3>4, <3>5, TaHas
  <2> QED
    BY <2>2, <2>3
<1>3. CASE same = {}
  <2> DEFINE last == IF ds.mode = "rows" THEN [col EXCEPT !.recs = <<>>] ELSE col
             cols == Append(ds.cols, last)
             rows == IF ds.mode = "columns" THEN ds.rows ELSE TaPushColumnToRows(ds.rows, col.recs)
  <2>1. TaPushColumn(ds, col) = [ds EXCEPT !.cols = cols, !.rows = rows]
    BY <1>3, Zenon DEF TaPushColumn
  <2>2. TaCol(last)
    BY DEF TaCol
  <2> HIDE DEF last, rows
  <2>3. TaCols(cols) /\ cols # <<>>
    <3> DEFINE S == {ds.cols[y] : y \in 1..Len(ds.cols)} \cup {last}
    <3>1. ds.cols = [y \in 1..Len(ds.cols) |-> ds.cols[y]] /\ \A y \in 1..Len(ds.cols) : TaCol(ds.cols[y])
      BY <1>0 DEF TaCols
    <3>2. last \in S /\ \A s \in S : TaCol(s)
      BY <2>2, <3>1
    <3>3. \A y \in 1..Len(ds.cols) : ds.cols[y] \in S
      OBVIOUS
    <3> HIDE DEF S
    <3>4. ds.cols \in Seq(S)
      BY <1>1, <3>1, <3>3, TaSequence, Zenon
    <3>5. cols \in Seq(S) /\ Len(cols) = Len(ds.cols) + 1
      BY <3>2, <3>4
    <3> HIDE DEF cols
    <3>6. Len(cols) \in Nat /\ cols = [y \in 1..Len(cols) |-> cols[y]] /\ \A y \in 1..Len(cols) : cols[y] \in S
      BY <1>1, <3>5
    <3>7. cols # <<>>
      BY <1>1, <3>5
    <3> QED
      BY <3>2, <3>6, <3>7 DEF TaCols
  <2> HIDE DEF cols
  <2>4. TaPushColumn(ds, col) = TaDataset(ds.mode, cols, rows)
    BY <1>0, <2>1 DEF TaDataset
  <2> QED
    BY <1>0, <2>3, <2>4, TaHas
<1> QED
  BY <1>2, <1>3

(* And a row deleted.                                                      *)
LEMMA TaDeleteRowKeeps == ASSUME NEW ds, TaHasCols(ds), NEW i PROVE TaHasCols(TaDeleteRow(ds, i))
<1>0. TaCols(ds.cols) /\ ds.cols # <<>> /\ ds.mode \in {"rows", "columns", "matrix"} /\ ds = TaDataset(ds.mode, ds.cols, ds.rows)
  BY DEF TaHasCols, TaLoose
<1> DEFINE rows == RemoveAt(ds.rows, i)
           cols == [y \in DOMAIN ds.cols |-> IF i <= Len(ds.cols[y].recs) THEN [ds.cols[y] EXCEPT !.recs = RemoveAt(@, i)]
                                             ELSE ds.cols[y]]
<1>1. DOMAIN ds.cols = 1..Len(ds.cols)
  BY <1>0 DEF TaCols
<1>2. \/ TaDeleteRow(ds, i) = ds
      \/ TaDeleteRow(ds, i) = TaDataset(ds.mode, ds.cols, rows)
      \/ TaDeleteRow(ds, i) = TaDataset(ds.mode, cols, rows)
  BY Zenon DEF TaDeleteRow
<1>3. cols = [y \in 1..Len(ds.cols) |-> cols[y]]
  BY <1>1, Zenon
<1>4. \A y \in 1..Len(ds.cols) : cols[y] = ds.cols[y] \/ \E r : cols[y] = [ds.cols[y] EXCEPT !.recs = r]
  BY <1>1, Zenon
<1> HIDE DEF cols, rows
<1>5. TaCols(cols) /\ cols # <<>>
  BY <1>0, <1>3, <1>4, TaReplaced
<1> QED
  BY <1>0, <1>2, <1>5, TaHas

-----------------------------------------------------------------------------
(* The steps of a dataset as steps of the table.                           *)

(* Columns without records are an empty table, in every mode.              *)
LEMMA TaEmptyTable == ASSUME NEW mode \in {"rows", "columns", "matrix"}, NEW cols, TaEven(cols, 0)
                      PROVE  TaWhole(TaDataset(mode, cols, <<>>)) /\ TaTable(TaDataset(mode, cols, <<>>)) = <<>>
<1>1. TaGrid(cols, 0) = <<>> /\ 0 \in Nat
  BY DEF TaGrid
<1>2. CASE mode = "rows"
  <2>1. TaEqual(<<>>, TaWidth(cols)) /\ TaCols(cols)
    BY DEF TaEqual, TaEven
  <2> QED
    BY <1>2, <2>1, TaWholeRows
<1>3. CASE mode # "rows"
  BY <1>1, <1>3, TaWholeCols
<1> QED
  BY <1>2, <1>3

(* A new dataset is an empty table.                                        *)
LEMMA TaNewIs == ASSUME NEW mode \in {"rows", "columns", "matrix"}, NEW typed \in BOOLEAN
                 PROVE  /\ TaWhole(TaNew(mode, typed)) /\ TaTable(TaNew(mode, typed)) = <<>>
                        /\ TaNew(mode, typed).mode = mode /\ (typed => TaWidth(TaNew(mode, typed).cols) = Len(TaTypes))
<1> DEFINE base == IF typed THEN [y \in DOMAIN TaTypes |-> TaColumn(TaNames[y], TaTypes[y], <<>>)] ELSE <<>>
           cols == IF mode = "rows" THEN base ELSE TaResetCols(base)
<1>1. TaNew(mode, typed) = TaDataset(mode, cols, <<>>)
  <2>1. TaNew(mode, typed) = TaSetMode(TaDataset(mode, base, <<>>), mode)
    BY Zenon DEF TaNew
  <2> HIDE DEF base
  <2>2. TaDataset(mode, base, <<>>).cols = base /\ TaDataset(mode, base, <<>>).rows = <<>>
    BY TaDatasetIs
  <2>3. TaSetMode(TaDataset(mode, base, <<>>), mode) = TaDataset(mode, cols, <<>>)
    BY <2>2 DEF TaSetMode
  <2> QED
    BY <2>1, <2>3
<1>2. TaEven(base, 0) /\ (typed => Len(base) = Len(TaTypes))
  <2>0. <<>> \in Seq(Int) /\ Len(<<>>) = 0
    OBVIOUS
  <2>1. CASE typed
    <3> DEFINE n == Len(TaTypes)
    <3>1. n \in Nat /\ n # 0 /\ DOMAIN TaTypes = 1..n
      BY TaAssumption
    <3>2. base = [y \in 1..n |-> TaColumn(TaNames[y], TaTypes[y], <<>>)]
      BY <2>1, <3>1
    <3> HIDE DEF base, n
    <3>3. Len(base) = n /\ base = [y \in 1..n |-> base[y]]
      BY <3>1, <3>2
    <3>4. ASSUME NEW y \in 1..n PROVE TaCol(base[y]) /\ base[y].recs = <<>>
      <4>1. base[y] = TaColumn(TaNames[y], TaTypes[y], <<>>)
        BY <3>2
      <4> QED
        BY <4>1 DEF TaCol, TaColumn
    <3>5. TaCols(base)
      BY <3>1, <3>3, <3>4 DEF TaCols
    <3>6. TaEven(base, 0)
      BY <2>0, <3>3, <3>4, <3>5 DEF TaEven
    <3> QED
      BY <3>3, <3>6 DEF n
  <2>2. CASE ~typed
    <3>1. base = <<>>
      BY <2>2
    <3> HIDE DEF base
    <3>2. TaCols(<<>>)
      BY DEF TaCols
    <3>3. TaEven(base, 0)
      BY <2>0, <3>1, <3>2 DEF TaEven
    <3> QED
      BY <2>2, <3>3
  <2> QED
    BY <2>1, <2>2
<1> HIDE DEF base
<1>3. TaEven(cols, 0) /\ (typed => Len(cols) = Len(TaTypes))
  <2>1. TaCols(base)
    BY <1>2 DEF TaEven
  <2>2. TaEven(TaResetCols(base), 0) /\ Len(TaResetCols(base)) = Len(base)
    BY <2>1, TaResetIs
  <2> QED
    BY <1>2, <2>2
<1> HIDE DEF cols
<1>4. TaWhole(TaDataset(mode, cols, <<>>)) /\ TaTable(TaDataset(mode, cols, <<>>)) = <<>>
  BY <1>3, TaEmptyTable
<1>5. typed => TaWidth(cols) = Len(TaTypes)
  BY <1>3 DEF TaWidth
<1> QED
  BY <1>1, <1>4, <1>5, TaDatasetIs

(* PushRow keeps the mode.                                                 *)
LEMMA TaPushRowMode == ASSUME NEW ds, TaLoose(ds), NEW row PROVE TaPushRow(ds, row).mode = ds.mode
<1> DEFINE rows == Append(ds.rows, row)
           cols == TaPushRowToColumns(ds.cols, row)
<1>0. ds = TaDataset(ds.mode, ds.cols, ds.rows) /\ ds.mode \in {"rows", "columns", "matrix"}
  BY DEF TaLoose
<1>1. \/ TaPushRow(ds, row) = [ds EXCEPT !.rows = rows]
      \/ TaPushRow(ds, row) = [ds EXCEPT !.cols = cols]
      \/ TaPushRow(ds, row) = [ds EXCEPT !.rows = rows, !.cols = cols]
  BY <1>0 DEF TaPushRow
<1> HIDE DEF cols, rows
<1> QED
  BY <1>0, <1>1 DEF TaDataset

(* What MergeRows takes from the other dataset, in whatever mode.          *)
LEMMA TaOther == ASSUME NEW mode \in {"rows", "columns", "matrix"}, NEW row \in TaRows
                 PROVE  LET other == TaPushRow(TaNew(mode, TRUE), row)
                        IN (IF mode = "columns" THEN TaTransposeToRows(other) ELSE other).rows = <<row>>
<1> DEFINE new == TaNew(mode, TRUE)
           other == TaPushRow(new, row)
<1>1. row \in Seq(Int) /\ Len(row) = Len(TaTypes)
  BY TaAssumption
<1>2. TaWhole(new) /\ TaTable(new) = <<>> /\ new.mode = mode /\ TaWidth(new.cols) = Len(TaTypes)
  BY TaNewIs
<1> HIDE DEF new
<1>3. TaWhole(other) /\ TaTable(other) = Append(<<>>, row)
  BY <1>1, <1>2, TaRowPushed
<1>4. other.mode = mode
  BY <1>2, TaPushRowMode DEF TaWhole
<1>5. Append(<<>>, row) = <<row>>
  OBVIOUS
<1> HIDE DEF other
<1>6. CASE mode = "columns"
  <2> DEFINE byRows == TaTransposeToRows(other)
  <2>1. TaTable(byRows) = TaTable(other) /\ byRows.mode = "rows"
    BY <1>3, <1>4, <1>6, TaToRows
  <2>2. byRows.rows = <<row>>
    BY <1>3, <1>5, <2>1 DEF TaTable
  <2> QED
    BY <1>6, <2>2 DEF other, new
<1>7. CASE mode # "columns"
  <2>1. other.rows = <<row>>
    BY <1>3, <1>4, <1>5, <1>7 DEF TaTable
  <2> QED
    BY <1>7, <2>1 DEF other, new
<1> QED
  BY <1>6, <1>7

(* A call that tears the dataset clears the table.                         *)
LEMMA TaTears == taTorn' => TaTb!TbNext
  BY DEF TaTb!TbNext, TaTb!TbClear

(* Calls that make or clear a dataset.                                     *)
LEMMA TaClears == TaInv /\ (TaCreate \/ TaReset) => TaInv' /\ TaTb!TbNext
<1> SUFFICES ASSUME TaInv, TaCreate \/ TaReset PROVE TaInv' /\ TaTb!TbNext
  OBVIOUS
<1>1. taTorn' = FALSE /\ taCall' = "clear"
  BY DEF TaCreate, TaReset, TaOp
<1>2. TaWhole(taDs') /\ TaTable(taDs') = <<>>
  <2>1. CASE TaCreate
    <3>1. PICK mode \in {"rows", "columns", "matrix"}, typed \in BOOLEAN : taDs' = TaNew(mode, typed)
      BY <2>1 DEF TaCreate
    <3> QED
      BY <3>1, TaNewIs
  <2>2. CASE TaReset
    <3>1. TaLoose(taDs)
      BY DEF TaInv, TaWhole, TaHasCols
    <3> DEFINE cols == TaResetCols(taDs.cols)
    <3>2. taDs' = [taDs EXCEPT !.rows = <<>>, !.cols = cols]
      BY <2>2, Zenon DEF TaReset
    <3>3. TaEven(cols, 0)
      BY <3>1, TaResetIs DEF TaLoose
    <3> HIDE DEF cols
    <3>4. taDs' = TaDataset(taDs.mode, cols, <<>>)
      BY <3>1, <3>2 DEF TaLoose, TaDataset
    <3> QED
      BY <3>1, <3>3, <3>4, TaEmptyTable DEF TaLoose
  <2> QED
    BY <2>1, <2>2
<1>3. TaInv'
  BY <1>1, <1>2 DEF TaInv
<1>4. TaTb!TbClear
  BY <1>1, <1>2 DEF TaTb!TbClear
<1> QED
  BY <1>3, <1>4 DEF TaTb!TbNext

(* PushRow and MergeRows append.                                           *)
LEMMA TaAppends == TaInv /\ (TaPushRowOp \/ TaMergeRows) => TaInv' /\ TaTb!TbNext
<1> SUFFICES ASSUME TaInv, TaPushRowOp \/ TaMergeRows PROVE TaInv' /\ TaTb!TbNext
  OBVIOUS
<1>1. PICK row \in TaRows : TaFits(row) /\ taDs' = TaPushRow(taDs, row)
  <2>1. CASE TaPushRowOp
    BY <2>1 DEF TaPushRowOp
  <2>2. CASE TaMergeRows
    <3>1. PICK mode \in {"rows", "columns", "matrix"}, row \in TaRows :
            LET other == TaPushRow(TaNew(mode, TRUE), row)
                rows == (IF mode = "columns" THEN TaTransposeToRows(other) ELSE other).rows
            IN TaFits(row) /\ taDs' = TaPushRows(taDs, rows)
      BY <2>2, Zenon DEF TaMergeRows
    <3> DEFINE other == TaPushRow(TaNew(mode, TRUE), row)
    <3>2. (IF mode = "columns" THEN TaTransposeToRows(other) ELSE other).rows = <<row>>
      BY TaOther
    <3>3. TaFits(row) /\ taDs' = TaPushRows(taDs, <<row>>)
      BY <3>1, <3>2, Zenon
    <3> QED
      BY <3>3, TaOneRow
  <2> QED
    BY <2>1, <2>2
<1>2. taTorn' = taTorn /\ taCall' = "append"
  BY DEF TaPushRowOp, TaMergeRows, TaOp
<1>3. CASE taTorn
  <2>1. TaHasCols(taDs')
    BY <1>1, <1>3, TaPushRowKeeps DEF TaInv
  <2> QED
    BY <1>2, <1>3, <2>1, TaTears DEF TaInv
<1>4. CASE ~taTorn
  <2>1. row \in Seq(Int) /\ Len(row) = Len(TaTypes)
    BY TaAssumption
  <2>2. Len(row) = TaWidth(taDs.cols) /\ TaWhole(taDs)
    BY <1>1, <1>4, <2>1 DEF TaFits, TaWidth, TaInv
  <2>3. TaWhole(taDs') /\ TaTable(taDs') = Append(TaTable(taDs), row) /\ TaTable(taDs) \in Seq(Seq(Int))
    BY <1>1, <2>1, <2>2, TaRowPushed, TaTableRows
  <2>4. IsPrefix(TaTable(taDs), TaTable(taDs'))
    <3> DEFINE s == TaTable(taDs)
               V == Seq(Int)
    <3>1. s \in Seq(V) /\ row \in V /\ TaTable(taDs') = Append(s, row)
      BY <2>1, <2>3
    <3> HIDE DEF s, V
    <3> QED
      BY <3>1 DEF IsPrefix, s
  <2>5. TaTb!TbAppend
    BY <1>2, <1>4, <2>4 DEF TaTb!TbAppend, TaTb!IsPrefix, IsPrefix
  <2> QED
    BY <1>2, <1>4, <2>3, <2>5 DEF TaInv, TaTb!TbNext
<1> QED
  BY <1>3, <1>4

(* DeleteRow takes one row away, or none.                                  *)
LEMMA TaDeletes == TaInv /\ TaDeleteRowOp => TaInv' /\ TaTb!TbNext
<1> SUFFICES ASSUME TaInv, TaDeleteRowOp PROVE TaInv' /\ TaTb!TbNext
  OBVIOUS
<1>1. PICK i \in 1..TaMaxRows : taDs' = TaDeleteRow(taDs, i)
  BY DEF TaDeleteRowOp
<1>2. taTorn' = taTorn /\ taCall' = "delete"
  BY DEF TaDeleteRowOp, TaOp
<1>3. CASE taTorn
  <2>1. TaHasCols(taDs')
    BY <1>1, <1>3, TaDeleteRowKeeps DEF TaInv
  <2> QED
    BY <1>2, <1>3, <2>1, TaTears DEF TaInv
<1>4. CASE ~taTorn
  <2>0. i \in Nat \ {0}
    BY TaAssumption
  <2>1. /\ TaWhole(taDs')
        /\ \/ TaTable(taDs') = TaTable(taDs)
           \/ i \in DOMAIN TaTable(taDs) /\ TaTable(taDs') = RemoveAt(TaTable(taDs), i)
    BY <1>1, <1>4, <2>0, TaRowDeleted DEF TaInv
  <2>2. TaTb!TbDelete
    BY <1>2, <1>4, <2>1 DEF TaTb!TbDelete, TaTb!RemoveAt, RemoveAt
  <2> QED
    BY <1>2, <1>4, <2>1, <2>2 DEF TaInv, TaTb!TbNext
<1> QED
  BY <1>3, <1>4

(* Transpositions, splits, selections, picks and counts change nothing.    *)
TaLooks == TaAsColumns \/ TaAsRows \/ TaTranspose \/ TaSplitRows \/ TaSelectRows \/ TaPickRows \/ TaRecount \/ TaMinorityRows
LEMMA TaLookStep == TaInv /\ TaLooks => TaInv' /\ TaTb!TbNext
<1> SUFFICES ASSUME TaInv, TaLooks PROVE TaInv' /\ TaTb!TbNext
  OBVIOUS
<1> DEFINE toCols == TaTransposeToColumns(taDs)
           toRows == TaTransposeToRows(taDs)
           both == TaTransposeToRows(toCols)
           back == TaBack(taDs.mode, IF taDs.mode = "columns" THEN toRows ELSE taDs)
<1>1. taDs' \in {toCols, toRows, both, back, taDs}
  <2>1. TaAsColumns => taDs' = toCols
    BY DEF TaAsColumns
  <2>2. TaAsRows => taDs' = toRows
    BY DEF TaAsRows
  <2>3. TaTranspose => taDs' = both
    BY DEF TaTranspose
  <2>4. TaSplitRows => taDs' = back
    BY Zenon DEF TaSplitRows, TaReturn, TaByRows
  <2>5. TaSelectRows => taDs' = back
    BY Zenon DEF TaSelectRows, TaReturn, TaByRows
  <2>6. TaPickRows => taDs' = back
    BY Zenon DEF TaPickRows, TaReturn, TaByRows
  <2>7. TaRecount \/ TaMinorityRows => taDs' \in {taDs, toCols}
    BY Zenon DEF TaRecount, TaMinorityRows
  <2> HIDE DEF toCols, toRows, both, back
  <2> QED
    BY <2>1, <2>2, <2>3, <2>4, <2>5, <2>6, <2>7 DEF TaLooks
<1>2. taTorn' = taTorn /\ taCall' = "look"
  <2>1. TaAsColumns \/ TaAsRows \/ TaTranspose => taTorn' = taTorn /\ taCall' = "look"
    BY Zenon DEF TaAsColumns, TaAsRows, TaTranspose, TaOp
  <2>2. TaSplitRows => taTorn' = taTorn /\ taCall' = "look"
    BY Zenon DEF TaSplitRows, TaReturn, TaOp
  <2>3. TaSelectRows \/ TaPickRows => taTorn' = taTorn /\ taCall' = "look"
    BY Zenon DEF TaSelectRows, TaPickRows, TaReturn, TaOp
  <2>4. TaRecount \/ TaMinorityRows => taTorn' = taTorn /\ taCall' = "look"
    BY Zenon DEF TaRecount, TaMinorityRows, TaOp
  <2> QED
    BY <2>1, <2>2, <2>3, <2>4 DEF TaLooks
<1>3. CASE taTorn
  <2>1. TaHasCols(taDs) /\ TaHasCols(toCols) /\ TaHasCols(toRows) /\ TaHasCols(both) /\ TaHasCols(back)
    BY <1>3, TaToColumnsKeeps, TaToRowsKeeps, TaBackKeeps DEF TaInv
  <2> HIDE DEF toCols, toRows, both, back
  <2>2. TaHasCols(taDs')
    BY <1>1, <2>1
  <2> QED
    BY <1>2, <1>3, <2>2, TaTears DEF TaInv
<1>4. CASE ~taTorn
  <2>1. TaWhole(toCols) /\ TaTable(toCols) = TaTable(taDs)
    BY <1>4, TaToColumns DEF TaInv
  <2>2. TaWhole(toRows) /\ TaTable(toRows) = TaTable(taDs)
    BY <1>4, TaToRows DEF TaInv
  <2>3. TaWhole(both) /\ TaTable(both) = TaTable(taDs)
    <3> HIDE DEF toCols
    <3> QED
      BY <2>1, TaToRows
  <2>4. TaWhole(back) /\ TaTable(back) = TaTable(taDs)
    BY <1>4, TaThereAndBack DEF TaInv
  <2> HIDE DEF toCols, toRows, both, back
  <2>5. TaWhole(taDs') /\ TaTable(taDs') = TaTable(taDs)
    BY <1>1, <1>4, <2>1, <2>2, <2>3, <2>4 DEF TaInv
  <2>6. TaTb!TbLook
    BY <1>2, <1>4, <2>5 DEF TaTb!TbLook
  <2> QED
    BY <1>2, <1>4, <2>5, <2>6 DEF TaInv, TaTb!TbNext
<1> QED
  BY <1>3, <1>4

(* SortColumnsByIndex permutes the rows, and tears a matrix.               *)
LEMMA TaPermutes == TaInv /\ TaSortColumns => TaInv' /\ TaTb!TbNext
<1> SUFFICES ASSUME TaInv, TaSortColumns PROVE TaInv' /\ TaTb!TbNext
  OBVIOUS
<1> DEFINE ds == TaTransposeToColumns(taDs)
           n == TaNRow(taDs)
<1>1. PICK perm \in [1..n -> 1..n] :
        /\ IsInjective(perm) /\ n > 1 /\ ds.cols # <<>>
        /\ taDs' = TaDataset(ds.mode, [y \in DOMAIN ds.cols |->
                      [ds.cols[y] EXCEPT !.recs = [i \in DOMAIN ds.cols[y].recs |-> ds.cols[y].recs[perm[i]]]]], ds.rows)
        /\ (taTorn \/ ds.mode = "matrix" => taTorn') /\ (taTorn' => taTorn \/ ds.mode = "matrix") /\ taCall' = "permute"
  BY Zenon DEF TaSortColumns, TaOp
<1> DEFINE new == [y \in DOMAIN ds.cols |-> [ds.cols[y] EXCEPT !.recs = [i \in DOMAIN ds.cols[y].recs |-> ds.cols[y].recs[perm[i]]]]]
<1>2. taDs' = TaDataset(ds.mode, new, ds.rows)
  BY <1>1, Zenon
<1>3. TaLoose(ds)
  <2>1. CASE taTorn
    BY <2>1, TaToColumnsKeeps DEF TaInv, TaHasCols
  <2>2. CASE ~taTorn
    BY <2>2, TaToColumns DEF TaInv, TaWhole
  <2> QED
    BY <2>1, <2>2
<1>4. DOMAIN ds.cols = 1..Len(ds.cols) /\ TaCols(ds.cols) /\ ds.mode \in {"rows", "columns", "matrix"}
  BY <1>3 DEF TaLoose, TaCols
<1>5. ds.cols # <<>> /\ ds = TaDataset(ds.mode, ds.cols, ds.rows)
  BY <1>1, <1>3 DEF TaLoose
<1>6. CASE taTorn'
  <2> HIDE DEF ds
  <2>1. new = [y \in 1..Len(ds.cols) |-> new[y]]
    BY <1>4, Zenon
  <2>2. \A y \in 1..Len(ds.cols) : new[y] = ds.cols[y] \/ \E recs : new[y] = [ds.cols[y] EXCEPT !.recs = recs]
    BY <1>4, Zenon
  <2> HIDE DEF new
  <2>3. TaCols(new) /\ new # <<>>
    BY <1>4, <1>5, <2>1, <2>2, TaReplaced
  <2>5. TaHasCols(taDs')
    BY <1>2, <1>4, <2>3, TaHas
  <2> QED
    BY <1>6, <2>5, TaTears DEF TaInv
<1>7. CASE ~taTorn'
  <2>1. ~taTorn /\ ds.mode # "matrix" /\ TaWhole(taDs)
    BY <1>1, <1>7, Zenon DEF TaInv
  <2>2. TaWhole(ds) /\ TaTable(ds) = TaTable(taDs)
    BY <2>1, TaToColumns
  <2>3. n = Len(TaTable(taDs)) /\ n \in Nat
    BY <2>1, TaNRowIs
  <2>4. ds.mode = "columns"
    <3>1. CASE taDs.mode # "rows"
      <4>1. ds.mode = taDs.mode
        BY <2>1, <3>1, TaNotRows
      <4> QED
        BY <1>4, <2>1, <3>1, <4>1
    <3>2. CASE taDs.mode = "rows"
      <4>1. n = Len(taDs.rows)
        BY <3>2 DEF TaNRow
      <4>2. taDs.rows # <<>>
        <5>1. Len(<<>>) = 0
          OBVIOUS
        <5> HIDE DEF n
        <5> QED
          BY <1>1, <4>1, <5>1
      <4> QED
        BY <2>1, <3>2, <4>2, TaToColumns
    <3> QED
      BY <3>1, <3>2
  <2> HIDE DEF ds, n
  <2>5. PICK m \in Nat : TaEven(ds.cols, m) /\ TaTable(ds) = TaGrid(ds.cols, m)
    BY <2>2, <2>4, TaTableIs
  <2>6. m = n
    BY <2>2, <2>3, <2>5 DEF TaGrid
  <2>7. new = [y \in 1..Len(ds.cols) |-> [ds.cols[y] EXCEPT !.recs = [i \in DOMAIN ds.cols[y].recs |-> ds.cols[y].recs[perm[i]]]]]
    BY <1>4, Zenon
  <2> HIDE DEF new
  <2>8. /\ TaEven(new, n) /\ Len(TaGrid(new, n)) = n /\ Len(TaGrid(ds.cols, n)) = n
        /\ \A i \in 1..n : TaGrid(new, n)[i] = TaGrid(ds.cols, n)[perm[i]]
    <3>1. TaEven(ds.cols, n) /\ perm \in [1..n -> 1..n]
      BY <2>5, <2>6
    <3>2. new = TaSortedCols(ds.cols, perm)
      BY <2>7, Zenon DEF TaSortedCols
    <3> QED
      BY <2>3, <3>1, <3>2, TaSorted
  <2>9. taDs' = TaDataset("columns", new, ds.rows)
    BY <1>2, <2>4
  <2>10. TaWhole(taDs') /\ TaTable(taDs') = TaGrid(new, n)
    BY <2>3, <2>8, <2>9, TaWholeCols
  <2>11. DOMAIN TaTable(taDs) = 1..n /\ Len(TaTable(taDs')) = Len(TaTable(taDs))
    <3>1. TaTable(taDs) \in Seq(Seq(Int))
      BY <2>1, TaTableRows
    <3> QED
      BY <2>3, <2>8, <2>10, <3>1
  <2>12. \A i \in 1..n : TaTable(taDs')[i] = TaTable(taDs)[perm[i]]
    BY <2>2, <2>5, <2>6, <2>8, <2>10
  <2>13. TaTb!TbPermute
    <3>1. \E p \in [DOMAIN TaTable(taDs) -> DOMAIN TaTable(taDs)] :
            IsInjective(p) /\ \A i \in DOMAIN TaTable(taDs) : TaTable(taDs')[i] = TaTable(taDs)[p[i]]
      BY <1>1, <2>11, <2>12, Zenon
    <3> QED
      BY <1>1, <1>7, <2>1, <2>11, <3>1, ZenonT(60) DEF TaTb!TbPermute, TaTb!IsInjective, IsInjective
  <2> QED
    BY <1>7, <2>10, <2>13 DEF TaInv, TaTb!TbNext
<1> QED
  BY <1>6, <1>7

(* PushColumn makes the rows wider or fills them, or tears the dataset.    *)
LEMMA TaWidens == TaInv /\ TaPushColumnOp => TaInv' /\ TaTb!TbNext
<1> SUFFICES ASSUME TaInv, TaPushColumnOp PROVE TaInv' /\ TaTb!TbNext
  OBVIOUS
<1> DEFINE t == TaTable(taDs)
           Col(name, v) == TaColumn(name, "number", [x \in DOMAIN t |-> v])
<1>1. PICK name \in {"new"} \cup Range(TaNames), v \in {r[1] : r \in TaRows} :
        /\ taCall' = "column" /\ t # <<>> /\ taDs' = TaPushColumn(taDs, Col(name, v))
        /\ ~taTorn' => /\ ~taTorn /\ Len(taDs.cols) = Len(t[1])
                       /\ taDs.mode # "rows" => \A y \in DOMAIN taDs.cols : taDs.cols[y].name # name
                       /\ taDs.mode = "rows" => \A x \in DOMAIN taDs.rows : \A y \in DOMAIN taDs.rows[x] : taDs.rows[x][y] \in {0, taDs'.rows[x][y]}
  BY Zenon DEF TaPushColumnOp, TaOp
<1> DEFINE recs == [x \in DOMAIN t |-> v]
           col == Col(name, v)
<1>2. TaCol(col) /\ col.recs = recs /\ col.name = name
  BY DEF TaCol, TaColumn
<1> HIDE DEF Col, col
<1>3. taDs' = TaPushColumn(taDs, col)
  BY <1>1 DEF col
<1>4. CASE taTorn'
  <2>1. TaLoose(taDs)
    BY DEF TaInv, TaWhole, TaHasCols
  <2>2. TaHasCols(taDs')
    BY <1>2, <1>3, <2>1, TaPushColumnKeeps
  <2> QED
    BY <1>4, <2>2, TaTears DEF TaInv
<1>5. CASE ~taTorn'
  <2>1. TaWhole(taDs) /\ ~taTorn /\ Len(taDs.cols) = Len(t[1])
    BY <1>1, <1>5 DEF TaInv
  <2>2. t \in Seq(Seq(Int)) /\ Len(t) \in Nat /\ DOMAIN t = 1..Len(t)
    BY <2>1, TaTableRows
  <2>3. v \in Int
    <3>1. PICK r \in TaRows : v = r[1]
      OBVIOUS
    <3>2. r \in Seq(Int) /\ Len(r) = Len(TaTypes) /\ Len(TaTypes) \in Nat /\ Len(TaTypes) # 0
      BY TaAssumption
    <3> QED
      BY <3>1, <3>2
  <2>4. col.recs \in Seq(Int) /\ Len(col.recs) = Len(t)
    BY <1>2, <2>2, <2>3
  <2>5. CASE \A y \in DOMAIN taDs.cols : taDs.cols[y].name # name
    <3>1. TaWhole(taDs') /\ TaTable(taDs') = TaWider(t, col.recs)
      BY <1>1, <1>2, <1>3, <2>1, <2>4, <2>5, TaNewColumn, SMTT(60)
    <3> HIDE DEF t
    <3> DEFINE u == TaTable(taDs')
    <3>2. Len(u) = Len(t) /\ \A i \in 1..Len(t) : u[i] = Append(t[i], col.recs[i])
      BY <2>2, <3>1 DEF TaWider
    <3> HIDE DEF u
    <3>3. ASSUME NEW i \in 1..Len(t) PROVE Len(u[i]) = Len(t[i]) + 1 /\ IsPrefix(t[i], u[i])
      <4> DEFINE s == t[i]
                 e == col.recs[i]
      <4>1. s \in Seq(Int) /\ e \in Int /\ u[i] = Append(s, e)
        BY <2>2, <2>4, <3>2
      <4> HIDE DEF s, e
      <4>2. Len(u[i]) = Len(s) + 1 /\ IsPrefix(s, u[i])
        BY <4>1 DEF IsPrefix
      <4> QED
        BY <4>2 DEF s
    <3>4. TaTb!TbWiden
      <4>1. taCall' = "column"
        BY <1>1
      <4>2. \A i \in DOMAIN TaTable(taDs) : /\ Len(TaTable(taDs')[i]) = Len(TaTable(taDs)[i]) + 1
                                            /\ TaTb!IsPrefix(TaTable(taDs)[i], TaTable(taDs')[i])
        BY <2>2, <3>3, Zenon DEF TaTb!IsPrefix, IsPrefix, t, u
      <4>3. Len(TaTable(taDs')) = Len(TaTable(taDs))
        BY <3>2 DEF t, u
      <4> QED
        BY <1>5, <2>1, <4>1, <4>2, <4>3, Zenon DEF TaTb!TbWiden
    <3> QED
      BY <1>5, <3>1, <3>4 DEF TaInv, TaTb!TbNext
  <2>6. CASE ~\A y \in DOMAIN taDs.cols : taDs.cols[y].name # name
    <3>1. PICK z \in DOMAIN taDs.cols : taDs.cols[z].name = name
      BY <2>6, Zenon
    <3>2. taDs.mode = "rows"
      BY <1>1, <1>5, <3>1
    <3>3. t = taDs.rows
      BY <2>1, <3>2, TaTableIs
    <3> HIDE DEF t
    <3> DEFINE new == TaPushColumn(taDs, col)
    <3>4. /\ TaWhole(new) /\ TaTable(new) = new.rows /\ Len(new.rows) >= Len(taDs.rows)
          /\ \A x \in 1..Len(taDs.rows) : Len(new.rows[x]) = Len(taDs.rows[x])
      <4>1. Len(col.recs) = Len(taDs.rows) /\ taDs.cols[z].name = col.name /\ col.recs \in Seq(Int)
        BY <1>2, <2>4, <3>1, <3>3
      <4> QED
        BY <2>1, <3>2, <4>1, TaOldColumn, Zenon
    <3> HIDE DEF new
    <3>5. taDs' = new
      BY <1>3 DEF new
    <3>6. /\ TaTable(taDs) = taDs.rows /\ TaTable(taDs') = new.rows /\ DOMAIN taDs.rows = 1..Len(taDs.rows)
      BY <2>2, <3>3, <3>4, <3>5 DEF t
    <3>7. \A x \in DOMAIN taDs.rows : \A y \in DOMAIN taDs.rows[x] : taDs.rows[x][y] \in {0, new.rows[x][y]}
      BY <1>1, <1>5, <3>2, <3>5, Zenon
    <3>8. TaTb!TbFill
      <4>1. taCall' = "column"
        BY <1>1
      <4>2. \A i \in DOMAIN TaTable(taDs) : /\ Len(TaTable(taDs')[i]) = Len(TaTable(taDs)[i])
                                            /\ \A j \in DOMAIN TaTable(taDs)[i] : TaTable(taDs)[i][j] \in {0, TaTable(taDs')[i][j]}
        BY <3>4, <3>6, <3>7, Zenon
      <4>3. Len(TaTable(taDs')) >= Len(TaTable(taDs))
        BY <3>4, <3>6
      <4> QED
        BY <1>5, <2>1, <4>1, <4>2, <4>3, Zenon DEF TaTb!TbFill
    <3> QED
      BY <1>5, <3>4, <3>5, <3>8 DEF TaInv, TaTb!TbNext
  <2> QED
    BY <2>5, <2>6
<1> QED
  BY <1>4, <1>5

(* Every call keeps the dataset in shape and is a step of the table.       *)
LEMMA TaSteps == TaInv /\ [TaNext]_taVars => TaInv' /\ [TaTb!TbNext]_(TaTb!tbVars)
<1> SUFFICES ASSUME TaInv, [TaNext]_taVars PROVE TaInv' /\ [TaTb!TbNext]_(TaTb!tbVars)
  OBVIOUS
<1>1. CASE TaNext
  BY <1>1, TaClears, TaAppends, TaWidens, TaDeletes, TaLookStep, TaPermutes DEF TaNext, TaLooks
<1>2. CASE UNCHANGED taVars
  <2>1. UNCHANGED <<taDs, taTorn, taCall>>
    BY <1>2 DEF taVars
  <2>2. TaInv'
    BY <2>1 DEF TaInv
  <2>3. UNCHANGED TaTb!tbVars
    BY <2>1 DEF TaTb!tbVars
  <2> QED
    BY <2>2, <2>3
<1> QED
  BY <1>1, <1>2

(* A new dataset is whole, and is the table at its start.                  *)
LEMMA TaStarts == TaInit => TaInv /\ TaTb!TbInit
<1> SUFFICES ASSUME TaInit PROVE TaInv /\ TaTb!TbInit
  OBVIOUS
<1>1. taDs = TaNew("rows", TRUE) /\ ~taTorn /\ taCall = "clear"
  BY Zenon DEF TaInit
<1>2. TaWhole(taDs) /\ TaTable(taDs) = <<>>
  BY <1>1, TaNewIs
<1> QED
  BY <1>1, <1>2 DEF TaInv, TaTb!TbInit

(* A dataset of lib/tabula implements the table (TaIsTable): whatever its  *)
(* mode, every sequence of pushes, deletions, transpositions, splits,      *)
(* picks, selections, counts and sorts is one of steps of the rows it      *)
(* stands for, up to the call that leaves its forms disagreeing.           *)
THEOREM DatasetIsTable == TaSpec => TaIsTable
<1>1. TaSpec => []TaInv
  BY TaStarts, TaSteps, PTL DEF TaSpec
<1> QED
  BY <1>1, TaStarts, TaSteps, PTL DEF TaSpec, TaIsTable, TaTb!TbSpec

(* The two forms of a matrix agree until then (TaMatrixAgrees).            *)
THEOREM MatrixAgrees == TaSpec => []TaMatrixAgrees
<1>1. TaSpec => []TaInv
  BY TaStarts, TaSteps, PTL DEF TaSpec
<1>2. TaInv => TaMatrixAgrees
  <2> SUFFICES ASSUME TaInv, taDs.mode = "matrix", ~taTorn PROVE taDs.rows = TaColsToRows(taDs.cols)
    BY DEF TaMatrixAgrees
  <2>1. PICK n \in Nat : TaEven(taDs.cols, n) /\ taDs.rows = TaGrid(taDs.cols, n)
    BY TaTableIs DEF TaInv
  <2> QED
    BY <2>1, TaRead
<1> QED
  BY <1>1, <1>2, PTL
=============================================================================
