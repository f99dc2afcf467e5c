----------------------------- MODULE DirWatcher -----------------------------
(***************************************************************************)
(* DirWatcher and Watcher of lib/io: a goroutine that polls the            *)
(* modification times of a directory tree, and one goroutine per file that *)
(* polls the file, while the disk changes between their steps.  Paths are  *)
(* sequences of names, <<>> is the watched directory.  Every change of the *)
(* disk has a time of its own.                                             *)
(***************************************************************************)
EXTENDS Integers, Sequences, FiniteSets, SequencesExt

CONSTANTS DwPaths,    \* the paths the disk may hold, without <<>>
          DwDirs,     \* those that are directories
          DwExcluded, \* those the Excludes of the watcher match
          DwFirst,    \* what the disk may hold at first: sets of paths
          DwMaxChange \* bound: changes of the disk
ASSUME DwAssumption ==
  /\ DwDirs \cup DwExcluded \subseteq DwPaths /\ <<>> \notin DwPaths
  /\ DwPaths \subseteq Seq(STRING) /\ \A p \in DwPaths : Front(p) \in DwDirs \cup {<<>>}
  /\ \A there \in DwFirst : \A p \in there : p \in DwPaths /\ Front(p) \in there \cup {<<>>}
  /\ IsFiniteSet(DwPaths) /\ DwMaxChange \in Nat \ {0}

VARIABLES dwDisk,   \* path -> [born, mtime, mode]; born 0 if it is not there
          dwClock,  \* changes of the disk so far
          dwOn,     \* Start has returned
          dwTree,   \* [mounted, childs, node, dirs]: memfs' tree; node is the info it recorded, dirs is dw.dirs
          dwWatch,  \* path -> modification times the live watchers of the file have seen
          dwTodo,   \* directories the range of processSubdirs has still to visit
          dwLost,   \* directories that unmapSubdirs took out of dirs in processSubdirs, not mapped again
          dwFound,  \* the directory that was found changed and the Stat that said so, not listed yet
          dwQuiet   \* whole ticks since the disk last changed, at most 3; -1 in the tick it changed in

dwVars == <<dwDisk, dwClock, dwOn, dwTree, dwWatch, dwTodo, dwLost, dwFound, dwQuiet>>

DwAll == DwPaths \cup {<<>>}
DwAllDirs == DwDirs \cup {<<>>}
DwGone == [born |-> 0, mtime |-> 0, mode |-> 0]
DwNone == [dir |-> <<"none">>, info |-> DwGone]
DwIdle == dwTodo = {} /\ dwFound = DwNone
DwEmpty == [mounted |-> FALSE, childs |-> [d \in DwAllDirs |-> <<>>], node |-> [p \in DwAll |-> DwGone], dirs |-> {}]
DwThere(p) == dwDisk[p].born # 0

DwInit ==
  /\ \E there \in DwFirst :
       dwDisk = [p \in DwAll |-> IF p = <<>> \/ p \in there THEN [born |-> 1, mtime |-> 1, mode |-> 0] ELSE DwGone]
  /\ dwClock = 1
  /\ dwOn = FALSE /\ dwTree = DwEmpty /\ dwWatch = [p \in DwPaths |-> <<>>]
  /\ dwTodo = {} /\ dwLost = {} /\ dwFound = DwNone /\ dwQuiet = 0

-----------------------------------------------------------------------------
(* The disk: an entry is created or removed, which changes the time of its *)
(* directory; a file is written; a directory changes its mode.             *)
DwDiskChange(disk) ==
  /\ dwClock < DwMaxChange /\ dwClock' = dwClock + 1 /\ dwDisk' = disk
  /\ dwQuiet' = IF DwIdle THEN 0 ELSE -1
  /\ UNCHANGED <<dwOn, dwTree, dwWatch, dwTodo, dwLost, dwFound>>
DwTouched(disk, p) == IF p = <<>> THEN disk ELSE [disk EXCEPT ![Front(p)].mtime = dwClock + 1]
DwCreate == \E p \in DwAll :
  /\ ~DwThere(p) /\ (IF p = <<>> THEN TRUE ELSE DwThere(Front(p)))
  /\ DwDiskChange(DwTouched([dwDisk EXCEPT ![p] = [born |-> dwClock + 1, mtime |-> dwClock + 1, mode |-> 0]], p))
DwWithout(p) == DwTouched([q \in DwAll |-> IF IsPrefix(p, q) THEN DwGone ELSE dwDisk[q]], p)
DwRemove == \E p \in DwAll : DwThere(p) /\ DwDiskChange(DwWithout(p))
DwWrite == \E p \in DwPaths \ DwDirs :
  DwThere(p) /\ DwDiskChange([dwDisk EXCEPT ![p].mtime = dwClock + 1])
DwChmod == \E d \in DwAllDirs :
  DwThere(d) /\ DwDiskChange([dwDisk EXCEPT ![d].mode = 1 - @])

-----------------------------------------------------------------------------
(* memfs without content: AddChild enters what isIncluded accepts.         *)
DwEntries(d) == {p \in DwPaths \ DwExcluded : DwThere(p) /\ Front(p) = d}
DwUnder(new) == {q \in DwPaths : DwThere(q) /\ \E p \in new : IsPrefix(p, q)
                   /\ \A i \in Len(p)..Len(q) : SubSeq(q, 1, i) \notin DwExcluded}
DwInTree(t, p, q) == IsPrefix(p, q) /\ \A i \in (Len(p) + 1)..Len(q) :
  SubSeq(q, 1, i) \in Range(t.childs[SubSeq(q, 1, i - 1)])
\* mapSubdirs and NewWatcher: a goroutine for every file.
\* Mutant of DwWatchMore: only the files of the root are watched.
DwWatchMoreTop(files) ==
  [p \in DwPaths |-> IF p \in files \ DwDirs /\ Len(p) = 1 THEN Append(dwWatch[p], dwDisk[p].mtime) ELSE dwWatch[p]]
DwWatchMore(files) == [p \in DwPaths |-> IF p \in files \ DwDirs THEN Append(dwWatch[p], dwDisk[p].mtime) ELSE dwWatch[p]]

\* AddChild of the entries of directory d that are new, in the order of Readdir, and
\* onContentChange of those that are directories: what the disk holds under them.
DwAddAll(t, d, order) ==
  LET under == DwUnder(Range(order))
  IN [t EXCEPT !.childs = [e \in DwAllDirs |-> IF e = d THEN t.childs[d] \o order
                             ELSE IF e \in under THEN SetToSeq(DwEntries(e)) ELSE t.childs[e]],
               !.node = [p \in DwAll |-> IF p \in under THEN dwDisk[p] ELSE t.node[p]],
               !.dirs = t.dirs \cup (under \cap DwDirs)]

\* createRoot, scanDir and mapSubdirs, while the disk stays as it is.
DwMounted(order) ==
  LET root == [DwEmpty EXCEPT !.mounted = TRUE, !.node = [@ EXCEPT ![<<>>] = dwDisk[<<>>]]]
  IN DwAddAll(root, <<>>, order)
DwMount ==
  \E order \in SetToSeqs(DwEntries(<<>>)) :
    dwTree' = DwMounted(order) /\ dwWatch' = DwWatchMore(DwUnder(Range(order)))

\* RemoveChild in the loop over Childs: the list gets shorter and the index goes on, so the child
\* after a removed one is not looked at.
DwKeep(childs, there) ==
  LET gone[n \in 0..Len(childs)] == n # 0 /\ ~gone[n - 1] /\ childs[n] \notin there
      kept[n \in 0..Len(childs)] == IF n = 0 THEN <<>> ELSE IF gone[n] THEN kept[n - 1] ELSE Append(kept[n - 1], childs[n])
  IN kept[Len(childs)]
\* unmapSubdirs takes the directories under a removed one out of dirs, and not that one itself.
DwUnmap(t, gone) == {q \in t.dirs : \E p \in gone : p # q /\ DwInTree(t, p, q)}

\* onContentChange: deleted entries, then new ones.  Nothing happens if the directory cannot be opened.
DwOnContentChange(t, d) ==
  LET there == DwEntries(d)
      kept == DwKeep(t.childs[d], there)
      gone == Range(t.childs[d]) \ Range(kept)
      less == [t EXCEPT !.childs = [e \in DwAllDirs |-> IF e = d THEN kept ELSE IF e \in gone THEN <<>> ELSE t.childs[e]],
                        !.dirs = t.dirs \ DwUnmap(t, gone)]
      new == there \ Range(kept)
  IN IF DwThere(d)
     THEN \E order \in SetToSeqs(new) :
            dwTree' = DwAddAll(less, d, order) /\ dwWatch' = DwWatchMore(DwUnder(new))
     ELSE dwTree' = t /\ UNCHANGED dwWatch

-----------------------------------------------------------------------------
\* Start mounts the directory, or returns an error and leaves everything as it is; the goroutine makes its
\* ticker afterwards.
DwStart ==
  /\ ~dwOn /\ DwThere(<<>>) /\ dwOn' = TRUE /\ DwMount
  /\ UNCHANGED <<dwDisk, dwClock, dwTodo, dwLost, dwFound, dwQuiet>>

\* onRootCreated when a directory goes between the listing of its parent and the os.Open of scanDir: Mount
\* returns an error with the root of memfs set, and dw.root stays nil.
DwMountFail == \E p \in DwDirs :
  /\ dwOn /\ DwIdle /\ DwThere(<<>>) /\ ~dwTree.mounted /\ p \in DwUnder(DwEntries(<<>>))
  /\ dwClock < DwMaxChange /\ dwClock' = dwClock + 1 /\ dwDisk' = DwWithout(p) /\ dwQuiet' = 0
  /\ dwTree' = [DwEmpty EXCEPT !.mounted = TRUE]
  /\ UNCHANGED <<dwOn, dwWatch, dwTodo, dwLost, dwFound>>
DwRootNil == dwTree.mounted /\ dwTree.node[<<>>].born = 0

\* The next tick that finds the directory reads the mode of that root: the process ends, its watchers with
\* it.  Another process may Start.
DwPanic ==
  /\ dwOn /\ DwIdle /\ DwRootNil /\ DwThere(<<>>)
  /\ dwOn' = FALSE /\ dwTree' = DwEmpty /\ dwWatch' = [p \in DwPaths |-> <<>>] /\ dwQuiet' = 0
  /\ UNCHANGED <<dwDisk, dwClock, dwTodo, dwLost, dwFound>>

DwTickDone == dwQuiet' = IF dwQuiet < 3 THEN dwQuiet + 1 ELSE 3
\* Update of a node: a new mode is all that is taken from the info if there is one.
\* Mutant of DwUpdated: the whole info is taken, mode and time.
DwUpdatedWhole(old, info) == info
DwUpdated(old, info) == IF old.mode # info.mode THEN [old EXCEPT !.mode = info.mode] ELSE info

\* A tick up to processSubdirs: the root is gone, back, of another mode, or to be listed.
DwTick ==
  /\ dwOn /\ DwIdle /\ ~(DwRootNil /\ DwThere(<<>>))
  /\ IF ~DwThere(<<>>)
     THEN /\ dwTree' = IF dwTree.mounted THEN DwEmpty ELSE dwTree
          /\ DwTickDone /\ UNCHANGED <<dwWatch, dwTodo, dwFound>>
     ELSE IF ~dwTree.mounted
     THEN DwMount /\ DwTickDone /\ UNCHANGED <<dwTodo, dwFound>>
     ELSE IF dwTree.node[<<>>].mode # dwDisk[<<>>].mode
     THEN /\ dwTree' = [dwTree EXCEPT !.node[<<>>] = DwUpdated(@, dwDisk[<<>>])]
          /\ DwTickDone /\ UNCHANGED <<dwWatch, dwTodo, dwFound>>
     ELSE IF dwTree.node[<<>>].mtime # dwDisk[<<>>].mtime
     THEN dwFound' = [dir |-> <<>>, info |-> dwDisk[<<>>]] /\ UNCHANGED <<dwTree, dwWatch, dwTodo, dwQuiet>>
     ELSE /\ dwTodo' = dwTree.dirs /\ UNCHANGED <<dwTree, dwWatch, dwFound>>
          /\ IF dwTree.dirs = {} THEN DwTickDone ELSE UNCHANGED dwQuiet
  /\ dwLost' = IF DwThere(<<>>) /\ dwTree.mounted THEN dwLost ELSE {}
  /\ UNCHANGED <<dwDisk, dwClock, dwOn>>

\* Update and onContentChange of the directory whose Stat was found changed; the range over dirs,
\* a map, may or may not come to the directories that are entered during it.
DwList ==
  LET d == dwFound.dir
      t == [dwTree EXCEPT !.node[d] = DwUpdated(@, dwFound.info)]
  IN /\ dwFound # DwNone /\ DwOnContentChange(t, d) /\ dwFound' = DwNone
     /\ \E more \in SUBSET (dwTree'.dirs \ dwTree.dirs) :
          /\ dwTodo' = IF d = <<>> THEN dwTree'.dirs ELSE (dwTodo \cap dwTree'.dirs) \cup more
          /\ IF dwTodo' = {} THEN DwTickDone ELSE UNCHANGED dwQuiet
     /\ dwLost' = dwLost \ dwTree'.dirs
     /\ UNCHANGED <<dwDisk, dwClock, dwOn>>

\* Mutant of DwRange: the range is over a copy of the map.
DwRangeCopy(d) == dwTodo \ {d}

\* What the range still has to come to when d was gone: not what unmapSubdirs has taken out of the map.
DwRange(d) == (dwTodo \ DwUnmap(dwTree, {d})) \ {d}

\* One turn of the range of processSubdirs.
DwSub == \E d \in dwTodo :
  /\ dwFound = DwNone
  /\ IF ~DwThere(d)
     THEN dwTree' = [dwTree EXCEPT !.dirs = @ \ DwUnmap(dwTree, {d})] /\ dwTodo' = DwRange(d) /\ UNCHANGED dwFound
     ELSE IF dwTree.node[d].mode # dwDisk[d].mode
     THEN dwTree' = [dwTree EXCEPT !.node[d] = DwUpdated(@, dwDisk[d])] /\ dwTodo' = dwTodo \ {d} /\ UNCHANGED dwFound
     ELSE IF dwTree.node[d].mtime = dwDisk[d].mtime
     THEN dwTodo' = dwTodo \ {d} /\ UNCHANGED <<dwTree, dwFound>>
     ELSE dwFound' = [dir |-> d, info |-> dwDisk[d]] /\ dwTodo' = dwTodo \ {d} /\ UNCHANGED dwTree
  /\ dwLost' = IF DwThere(d) THEN dwLost ELSE dwLost \cup DwUnmap(dwTree, {d})
  /\ IF dwTodo' = {} /\ dwFound' = DwNone THEN DwTickDone ELSE UNCHANGED dwQuiet
  /\ UNCHANGED <<dwDisk, dwClock, dwOn, dwWatch>>

\* A tick of a Watcher: it ends when its file is gone.
DwWatcherTick == \E p \in DwPaths : \E i \in 1..Len(dwWatch[p]) :
  /\ dwWatch[p][i] # dwDisk[p].mtime
  /\ dwWatch' = [dwWatch EXCEPT ![p] = IF DwThere(p) THEN [@ EXCEPT ![i] = dwDisk[p].mtime] ELSE RemoveAt(@, i)]
  /\ UNCHANGED <<dwDisk, dwClock, dwOn, dwTree, dwTodo, dwLost, dwFound, dwQuiet>>

DwNext == \/ DwCreate \/ DwRemove \/ DwWrite \/ DwChmod
          \/ DwStart \/ DwMountFail \/ DwPanic \/ DwTick \/ DwList \/ DwSub \/ DwWatcherTick
DwSpec == DwInit /\ [][DwNext]_dwVars

-----------------------------------------------------------------------------
DwReached(p) == dwTree.mounted /\ DwInTree(dwTree, <<>>, p)

DwTypeOK ==
  /\ dwClock \in 1..DwMaxChange /\ dwQuiet \in -1..3 /\ dwTodo \subseteq dwTree.dirs /\ dwTree.dirs \subseteq DwDirs
  /\ \A d \in DwAllDirs : \A p \in Range(dwTree.childs[d]) : p \in DwPaths \ DwExcluded /\ Front(p) = d
  /\ \A p \in DwPaths : \A i \in 1..Len(dwWatch[p]) : dwWatch[p][i] \in 1..dwClock

(* The watcher catches up: once the disk has been left alone for three     *)
(* ticks - the most it takes when the modes of a directory and its parent  *)
(* have changed too - every file and directory that is not excluded is in  *)
(* the tree, whatever came between the Stat of a directory and its         *)
(* listing.  The exception is what is below a lost directory: when the     *)
(* parent of it was gone in processSubdirs and both are back by the next   *)
(* listing, its node is found in the tree and it is not mapped again.      *)
DwComplete == dwOn /\ dwQuiet = 3 /\ DwThere(<<>>) =>
  \A p \in DwUnder(DwEntries(<<>>)) : DwReached(p) \/ \E q \in dwLost : IsStrictPrefix(q, p)

\* Without the exception it does not hold.
DwCompleteBelow == dwOn /\ dwQuiet = 3 /\ DwThere(<<>>) => \A p \in DwUnder(DwEntries(<<>>)) : DwReached(p)

(* A file that is in the tree, and is the one that was there when its node *)
(* was made, has a watcher, so that its modifications are reported.        *)
DwWatched == \A p \in DwPaths \ DwDirs :
  DwReached(p) /\ DwThere(p) /\ dwTree.node[p].born = dwDisk[p].born => dwWatch[p] # <<>>

(* The listing of a directory detects deletions: after three ticks the     *)
(* tree holds nothing that the disk does not.                              *)
DwNoPhantom == dwOn /\ dwQuiet = 3 => \A p \in DwPaths : DwReached(p) => DwThere(p)

(* Nothing new escapes the watcher, neither a file nor its modifications.  *)
DwSound == DwComplete /\ DwWatched
=============================================================================
