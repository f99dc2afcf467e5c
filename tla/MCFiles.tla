------------------------------- MODULE MCFiles -------------------------------
(***************************************************************************)
(* What the library keeps on disk, or serves from it, in one run: memfs,   *)
(* the directory watcher, maildir, the local storage and accounts of SMTP, *)
(* and the HTTP server over memfs.  The components below do not share      *)
(* state: a behaviour picks one of them and stays with it.                 *)
(***************************************************************************)
EXTENDS MemFS, DirWatcher, Maildir, SmtpLocal, HttpServer

CONSTANTS Parts
VARIABLE part

MfPathsDef == {<<"f">>, <<"x">>, <<"d">>, <<"d", "e">>, <<"d", "g">>}
MfDirsDef == {<<"d">>, <<"d", "e">>}
MfExcludedDef == {<<"x">>}
MfTypedDef == {<<"d", "g">>}

DwPathsDef == {<<"d">>, <<"d", "s">>, <<"d", "s", "x">>, <<"f">>}
DwFirstDef == {{}, {<<"d">>, <<"d", "s">>}}
DwDirsDef == {<<"d">>, <<"d", "s">>}

SlAccountsDef == {[domain |-> "p", user |-> "u", pass |-> "x"], [domain |-> "v", user |-> "w", pass |-> "y"],
                  [domain |-> "p", user |-> "sys", pass |-> ""]}
SlVirtualDef == <<"v", "p">>

HtPathsDef == {<<"">>, <<"a">>, <<":x">>, <<"A", ":x">>, <<":x", ":x">>, <<":">>, <<" a">>, <<": y", " ", "b">>}
HtReqPathsDef == {<<"">>, <<"a">>, <<"A", "b">>, <<"c", "b">>}
HtFilesDef == {<<"a">>, <<"index.html">>}
HtKindsDef == {<<"none", "none", FALSE>>, <<"query", "json", TRUE>>}

MCInit == /\ part \in Parts /\ MfInit /\ DwInit /\ MdInit /\ SlInit /\ HtInit
          /\ part = "dirwatcher" \/ \A p \in DwPaths : dwDisk[p] = DwGone

MCNext ==
  /\ UNCHANGED part
  /\ IF part = "memfs" THEN MfNext ELSE UNCHANGED mfVars
  /\ IF part = "dirwatcher" THEN DwNext ELSE UNCHANGED dwVars
  /\ IF part = "maildir" THEN MdNext ELSE UNCHANGED mdVars
  /\ IF part = "smtplocal" THEN SlNext ELSE UNCHANGED slVars
  /\ IF part = "http" THEN HtNext /\ htFS' \in {{}, HtFiles} ELSE UNCHANGED htVars
MCSpec == MCInit /\ [][MCNext]_<<part, mfVars, dwVars, mdVars, slVars, htVars>>

(* Every component's variables keep their types.                           *)
FilesTypeOK == MfTypeOK /\ DwTypeOK /\ MdTypeOK /\ SlTypeOK /\ HtTypeOK

=============================================================================
