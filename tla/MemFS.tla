------------------------------- MODULE MemFS -------------------------------
(***************************************************************************)
(* MemFS of lib/memfs: a directory tree read into memory, its index pn     *)
(* from path to node, and a disk that changes underneath.  A node is       *)
(* <<path, gen>>: every scan makes new nodes, and in development a request *)
(* for an unknown path scans the root again.  Paths are sequences of       *)
(* names; which of them are directories is fixed.                          *)
(***************************************************************************)
EXTENDS Integers, Sequences, FiniteSets, SequencesExt

CONSTANTS MfPaths,   \* the paths the disk may hold, without the root <<>>
          MfDirs,    \* those that are directories
          MfExcluded, \* those isIncluded refuses
          MfTyped,   \* files with an extension that has a content type
          MfMaxGen,  \* bound: scans
          MfMaxVersion \* bound: changes of the disk
ASSUME MfAssumption ==
  /\ MfDirs \cup MfExcluded \cup MfTyped \subseteq MfPaths /\ <<>> \notin MfPaths
  /\ MfPaths \subseteq Seq(STRING) /\ \A p \in MfPaths : Front(p) \in MfDirs \cup {<<>>}
  /\ IsFiniteSet(MfPaths) /\ MfMaxGen \in Nat /\ MfMaxVersion \in Nat

VARIABLES mfDisk,    \* path -> [there, size, version, mode], size "empty", "small" or "big" (over MaxFileSize)
          mfVersion, \* changes of the disk so far
          mfDev, mfWith, \* Development, withContent
          mfMounted, mfGen, \* root is not nil; scans so far
          mfPn,      \* pn.v: path -> gen of its node, 0 for none
          mfChilds,  \* the nodes that are child of their parent node: <<path, gen>> -> gen of the parent, 0 for none
          mfContent, \* <<path, gen>> -> version of V, 0 for none
          mfMode,    \* <<path, gen>> -> mode of the node
          mfGot      \* what Get last returned: [path, version, err], and whether update only took a new mode

mfVars == <<mfDisk, mfVersion, mfDev, mfWith, mfMounted, mfGen, mfPn, mfChilds, mfContent, mfMode, mfGot>>

MfAll == MfPaths \cup {<<>>}
MfNodes == MfAll \X (1..MfMaxGen)
MfNothing == [path |-> <<>>, version |-> 0, err |-> TRUE, modeOnly |-> FALSE]
MfModes == {0, 1}
MfParent(p) == Front(p)
MfOnDisk(p) == IF p = <<>> THEN TRUE ELSE mfDisk[p].there

MfInit ==
  /\ mfDisk = [p \in MfPaths |-> [there |-> FALSE, size |-> "empty", version |-> 0, mode |-> 0]] /\ mfVersion = 0
  /\ mfDev = FALSE /\ mfWith = FALSE
  /\ mfMounted = FALSE /\ mfGen = 0 /\ mfPn = [p \in MfAll |-> 0]
  /\ mfChilds = [n \in MfNodes |-> 0] /\ mfContent = [n \in MfNodes |-> 0]
  /\ mfMode = [n \in MfNodes |-> 0] /\ mfGot = MfNothing

\* New.
MfNew == \E dev, with \in BOOLEAN :
  /\ mfGen = 0 /\ mfVersion = 0 /\ mfDev' = dev /\ mfWith' = with
  /\ UNCHANGED <<mfDisk, mfVersion, mfMounted, mfGen, mfPn, mfChilds, mfContent, mfMode, mfGot>>

\* The disk: a path is written, changes its mode, or is removed with everything under it.
MfDiskWrite == \E p \in MfPaths, size \in {"empty", "small", "big"} :
  /\ mfVersion < MfMaxVersion /\ MfOnDisk(MfParent(p))
  /\ p \in MfDirs => size = "empty" /\ ~mfDisk[p].there
  /\ mfVersion' = mfVersion + 1
  /\ mfDisk' = [mfDisk EXCEPT ![p] = [there |-> TRUE, size |-> size, version |-> mfVersion + 1, mode |-> @.mode]]
  /\ mfGot' = MfNothing /\ UNCHANGED <<mfMounted, mfGen, mfPn, mfChilds, mfContent, mfMode, mfDev, mfWith>>

MfDiskChmod == \E p \in MfPaths \ MfDirs, mode \in MfModes :
  /\ mfVersion < MfMaxVersion /\ mfDisk[p].there /\ mode # mfDisk[p].mode
  /\ mfVersion' = mfVersion + 1
  /\ mfDisk' = [mfDisk EXCEPT ![p].mode = mode]
  /\ mfGot' = MfNothing /\ UNCHANGED <<mfMounted, mfGen, mfPn, mfChilds, mfContent, mfMode, mfDev, mfWith>>

MfDiskRemove == \E p \in MfPaths :
  /\ mfVersion < MfMaxVersion /\ mfDisk[p].there
  /\ mfVersion' = mfVersion + 1
  /\ mfDisk' = [q \in MfPaths |-> IF IsPrefix(p, q) THEN [mfDisk[q] EXCEPT !.there = FALSE] ELSE mfDisk[q]]
  /\ mfGot' = MfNothing /\ UNCHANGED <<mfMounted, mfGen, mfPn, mfChilds, mfContent, mfMode, mfDev, mfWith>>

\* updateContentType: neither the extension nor the content tells the type of an empty file, and its Read fails.
MfTypeKnown(p) == p \in MfTyped \/ mfDisk[p].size # "empty"
\* AddChild, NewNode: what is excluded is skipped, and so is a file whose type is not known.
MfAdded(p) == p \notin MfExcluded /\ mfDisk[p].there /\ (p \in MfDirs \/ ~mfWith \/ MfTypeKnown(p))
\* Mutant of MfRead: a node whose content is there is not read again.
MfReadOnce(p, old) == IF old # 0 \/ p \in MfDirs \/ ~mfWith \/ mfDisk[p].size = "big" THEN old ELSE mfDisk[p].version

\* updateContent leaves V alone when the file is larger than MaxFileSize.
MfRead(p, old) == IF p \in MfDirs \/ ~mfWith \/ mfDisk[p].size = "big" THEN old ELSE mfDisk[p].version

\* scanDir from the root, whose node has generation root: the paths all of whose parents are added.
MfScanned == {p \in MfPaths : \A i \in 1..Len(p) : MfAdded(SubSeq(p, 1, i))}
MfScan(g, root) ==
  /\ mfChilds' = [n \in MfNodes |-> IF n[2] = g /\ n[1] \in MfScanned
                                    THEN (IF Len(n[1]) = 1 THEN root ELSE g) ELSE mfChilds[n]]
  /\ mfContent' = [n \in MfNodes |-> IF n[2] = g /\ n[1] \in MfScanned THEN MfRead(n[1], 0) ELSE mfContent[n]]
  /\ mfMode' = [n \in MfNodes |-> IF n[2] = g /\ n[1] \in MfScanned THEN mfDisk[n[1]].mode ELSE mfMode[n]]

\* pruneEmptyDirs goes through the map once, in any order: a directory that becomes empty after its
\* turn stays.
MfHasChild(kept, p) == \E q \in kept : q # <<>> /\ MfParent(q) = p
MfPrune(kept, order) ==
  LET left[n \in 0..Len(order)] ==
        IF n = 0 THEN kept ELSE IF MfHasChild(left[n - 1], order[n]) THEN left[n - 1] ELSE left[n - 1] \ {order[n]}
  IN left[Len(order)]

MfMount ==
  LET g == mfGen + 1
  IN /\ ~mfMounted /\ g <= MfMaxGen
     /\ \E order \in SetToSeqs(MfScanned \cap MfDirs) :
          LET kept == IF mfWith THEN MfPrune(MfScanned, order) ELSE MfScanned
          IN /\ mfPn' = [p \in MfAll |-> IF p \in kept \cup {<<>>} THEN g ELSE mfPn[p]]
             /\ mfChilds' = [n \in MfNodes |-> IF n[2] = g /\ n[1] \in kept THEN g ELSE mfChilds[n]]
             /\ mfContent' = [n \in MfNodes |-> IF n[2] = g /\ n[1] \in kept THEN MfRead(n[1], 0) ELSE mfContent[n]]
             /\ mfMode' = [n \in MfNodes |-> IF n[2] = g /\ n[1] \in kept THEN mfDisk[n[1]].mode ELSE mfMode[n]]
     /\ mfMounted' = TRUE /\ mfGen' = g /\ mfGot' = MfNothing
     /\ UNCHANGED <<mfDisk, mfVersion, mfDev, mfWith>>

\* Unmount drops root and pn.
MfUnmount ==
  /\ mfMounted /\ mfMounted' = FALSE
  /\ mfPn' = [p \in MfAll |-> 0] /\ mfChilds' = [n \in MfNodes |-> 0] /\ mfContent' = [n \in MfNodes |-> 0]
  /\ mfMode' = [n \in MfNodes |-> 0] /\ mfGot' = MfNothing /\ UNCHANGED <<mfDisk, mfVersion, mfGen, mfDev, mfWith>>

\* Get of a path that is indexed; in development node.update takes a new mode and nothing else, or
\* reads the file again.
MfGetKnown == \E p \in MfAll :
  LET n == <<p, mfPn[p]>>
      modeOnly == mfDev /\ p # <<>> /\ mfMode[n] # mfDisk[p].mode
      version == IF mfDev /\ p # <<>> /\ ~modeOnly THEN MfRead(p, mfContent[n]) ELSE mfContent[n]
  IN /\ mfMounted /\ mfPn[p] # 0
     /\ IF mfDev /\ ~MfOnDisk(p)
        THEN mfGot' = [path |-> p, version |-> 0, err |-> TRUE, modeOnly |-> FALSE] /\ UNCHANGED <<mfContent, mfMode>>
        ELSE /\ mfContent' = [mfContent EXCEPT ![n] = version]
             /\ mfMode' = IF modeOnly THEN [mfMode EXCEPT ![n] = mfDisk[p].mode] ELSE mfMode
             /\ mfGot' = [path |-> p, version |-> version, err |-> FALSE, modeOnly |-> modeOnly]
     /\ UNCHANGED <<mfDisk, mfVersion, mfMounted, mfGen, mfPn, mfChilds, mfDev, mfWith>>

\* Get of a path that is not: in development refresh scans the whole root again, and does not prune.
MfGetUnknown == \E p \in MfPaths :
  LET g == mfGen + 1
  IN /\ mfMounted /\ mfPn[p] = 0 /\ g <= MfMaxGen
     /\ IF mfDev /\ MfOnDisk(p)
        THEN /\ mfGen' = g /\ MfScan(g, mfPn[<<>>])
             /\ mfPn' = [q \in MfAll |-> IF q \in MfScanned THEN g ELSE mfPn[q]]
             /\ mfGot' = [path |-> p, version |-> mfContent'[<<p, g>>], err |-> p \notin MfScanned, modeOnly |-> FALSE]
        ELSE /\ mfGot' = [path |-> p, version |-> 0, err |-> TRUE, modeOnly |-> FALSE]
             /\ UNCHANGED <<mfGen, mfPn, mfChilds, mfContent, mfMode>>
     /\ UNCHANGED <<mfDisk, mfVersion, mfMounted, mfDev, mfWith>>

\* Mutant of MfRemoveChild: the node stays in the Childs of its parent.
MfRemoveChildKeep == \E p \in MfPaths :
  /\ mfMounted /\ mfPn[p] # 0 /\ mfChilds[<<p, mfPn[p]>>] # 0
  /\ mfPn' = [mfPn EXCEPT ![p] = 0]
  /\ mfGot' = MfNothing /\ UNCHANGED <<mfChilds, mfDisk, mfVersion, mfMounted, mfGen, mfContent, mfMode, mfDev, mfWith>>

\* RemoveChild of a node in the tree: the index loses that path only.
MfRemoveChild == \E p \in MfPaths :
  LET n == <<p, mfPn[p]>>
  IN /\ mfMounted /\ mfPn[p] # 0 /\ mfChilds[n] # 0
     /\ mfPn' = [mfPn EXCEPT ![p] = 0]
     /\ mfChilds' = [m \in MfNodes |-> IF m = n \/ (m[1] # <<>> /\ MfParent(m[1]) = p /\ mfChilds[m] = n[2])
                                       THEN 0 ELSE mfChilds[m]]
     /\ mfGot' = MfNothing /\ UNCHANGED <<mfDisk, mfVersion, mfMounted, mfGen, mfContent, mfMode, mfDev, mfWith>>

\* AddChild under a parent that is in the tree.
MfAddChild == \E p \in MfPaths :
  LET g == mfGen + 1
      up == mfPn[MfParent(p)]
  IN /\ mfMounted /\ up # 0 /\ mfPn[p] = 0 /\ MfAdded(p) /\ g <= MfMaxGen
     /\ mfGen' = g /\ mfPn' = [mfPn EXCEPT ![p] = g]
     /\ mfChilds' = [mfChilds EXCEPT ![<<p, g>>] = up]
     /\ mfContent' = [mfContent EXCEPT ![<<p, g>>] = MfRead(p, 0)]
     /\ mfMode' = [mfMode EXCEPT ![<<p, g>>] = mfDisk[p].mode]
     /\ mfGot' = MfNothing /\ UNCHANGED <<mfDisk, mfVersion, mfMounted, mfDev, mfWith>>

MfNext == MfNew \/ MfDiskWrite \/ MfDiskChmod \/ MfDiskRemove \/ MfMount \/ MfUnmount \/ MfGetKnown \/ MfGetUnknown
          \/ MfRemoveChild \/ MfAddChild
MfSpec == MfInit /\ [][MfNext]_mfVars

-----------------------------------------------------------------------------

MfTypeOK == /\ mfGen \in 0..MfMaxGen /\ mfVersion \in 0..MfMaxVersion
            /\ \A p \in MfAll : mfPn[p] \in 0..mfGen
            /\ \A n \in MfNodes : mfChilds[n] \in 0..mfGen /\ mfContent[n] \in 0..mfVersion

(* The tree and the index agree on what there is: a node that is the child *)
(* of an indexed directory has its own path in the index, so what a        *)
(* listing of the tree shows can be fetched, after any number of mounts,   *)
(* additions and removals.  In development refresh enters the children of  *)
(* the root a second time, and removing the second one breaks this.        *)
MfTreeIndexed == ~mfDev => \A n \in MfNodes :
  n[1] # <<>> /\ mfChilds[n] # 0 /\ mfChilds[n] = mfPn[MfParent(n[1])] => mfPn[n[1]] # 0

(* In development Get answers with the content the disk holds now, unless *)
(* the file has grown beyond MaxFileSize, whose old content stays, or its  *)
(* mode has changed since it was last read: then update takes the mode and *)
(* the Get after it takes the content.                                     *)
MfFresh == mfDev /\ mfWith /\ ~mfGot.err /\ mfGot.path \in MfPaths \ MfDirs =>
  LET file == mfDisk[mfGot.path]
      node == <<mfGot.path, mfPn[mfGot.path]>>
  IN /\ file.there
     /\ mfGot.version = file.version \/ file.size = "big" \/ (mfGot.modeOnly /\ mfMode[node] = file.mode)

\* Node.update: "Change on mode will not affect the content of node."
MfFreshAtOnce == mfDev /\ mfWith /\ ~mfGot.err /\ mfGot.path \in MfPaths \ MfDirs =>
                   mfGot.version = mfDisk[mfGot.path].version \/ mfDisk[mfGot.path].size = "big"

(* pruneEmptyDirs removes every directory that has no child.               *)
MfNoEmptyDir == [][\A p \in MfDirs : ~mfMounted /\ mfMounted' /\ mfPn'[p] # 0 /\ mfWith =>
                     \E n \in MfNodes : n[1] # <<>> /\ MfParent(n[1]) = p /\ mfChilds'[n] = mfPn'[p]]_mfVars

(* The tree, its index and the disk agree.                                 *)
MfSound == MfTreeIndexed /\ MfFresh
=============================================================================
