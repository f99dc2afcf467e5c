----------------------------- MODULE HttpServer -----------------------------
(***************************************************************************)
(* Server of lib/http: registration of endpoints, the routes they become,  *)
(* and the dispatch of a request to a route or to the files of Memfs.  A   *)
(* path is the sequence of its sub-paths after the slashes at both ends    *)
(* are trimmed, <<"">> for "/"; a sub-path that starts with a colon is a   *)
(* key in the path of an endpoint and a name like any other in a request.  *)
(***************************************************************************)
EXTENDS Integers, Sequences, FiniteSets, SequencesExt

CONSTANTS HtPaths,    \* paths of endpoints
          HtReqPaths, \* paths of requests
          HtKinds,    \* <<RequestType, ResponseType, has an Eval>> of endpoints
          HtFiles,    \* files that Memfs may hold
          HtMaxRoutes \* bound: endpoints that are registered
ASSUME HtAssumption ==
  HtMaxRoutes \in Nat /\ HtPaths \subseteq Seq(STRING) /\ \A path \in HtPaths : path # <<>> /\ "other" \notin Range(path)

VARIABLES htFS,     \* the files in Memfs
          htRoutes, \* method -> routes in the order of their registration, routeGets and the others
          htEvals,  \* a global evaluator is registered
          htRes     \* what the last request was answered

htVars == <<htFS, htRoutes, htEvals, htRes>>

HtMethods == {"DELETE", "GET", "PATCH", "POST", "PUT"}
HtKeys == {":x", ":y", ":"}
\* strings.ToLower.
HtLower(s) == IF s = "A" THEN "a" ELSE s
\* strings.TrimSpace: of a sub-path, and of the name of a key.
HtTrim(s) == IF s = " a" THEN "a" ELSE IF s = ": x" THEN ":x" ELSE IF s = " " THEN "" ELSE s
\* The Code of the errors.E that an evaluator or a callback returns; 0 for none and for any other error.
HtCodes == {0, 403}
HtNoRes == [status |-> 0, called |-> 0, vals |-> {}, allow |-> {}]

HtInit == /\ htFS = {} /\ htRoutes = [m \in HtMethods |-> <<>>] /\ htEvals = FALSE /\ htRes = HtNoRes

\* NewServer with a Root.
HtNew == \E files \in SUBSET HtFiles :
  /\ htFS = {} /\ files # {} /\ \A m \in HtMethods : htRoutes[m] = <<>>
  /\ htFS' = files /\ UNCHANGED <<htRoutes, htEvals, htRes>>

-----------------------------------------------------------------------------
(* newRoute trims the blanks of sub-paths and leaves the empty ones out;   *)
(* parse does neither.                                                     *)
HtName(s) == HtTrim(HtLower(s))
HtSome(path) ==
  LET some[n \in 0..Len(path)] ==
        IF n = 0 THEN <<>> ELSE IF HtName(path[n]) = "" THEN some[n - 1] ELSE Append(some[n - 1], HtName(path[n]))
  IN some[Len(path)]
HtNodes(path) == IF HtSome(path) = <<>> THEN <<"">> ELSE HtSome(path)
HtKeysOK(nodes) == ":" \notin Range(nodes)
                   /\ \A i, j \in DOMAIN nodes : nodes[i] \in HtKeys /\ nodes[i] = nodes[j] => i = j
HtParse(nodes, path) ==
  Len(path) = Len(nodes) /\ \A i \in DOMAIN nodes : nodes[i] \in HtKeys \/ nodes[i] = HtLower(path[i])
HtVals(nodes, path) == {<<nodes[i], HtLower(path[i])>> : i \in {j \in DOMAIN nodes : nodes[j] \in HtKeys}}

\* The type of the request and of the response, where the Register function sets them.
HtRequestType(m, given) == IF m \in {"DELETE", "GET"} THEN "query" ELSE given
HtResponseType(m, given) == IF m = "PUT" THEN "none" ELSE given

\* RegisterDelete, RegisterGet, RegisterPatch, RegisterPost, RegisterPut.
\* Mutant of HtAmbiguous: routes are compared by their nodes.
HtAmbiguousEqual(m, path) == \E i \in DOMAIN htRoutes[m] : htRoutes[m][i].nodes = HtNodes(path)
HtAmbiguous(m, path) == \E i \in DOMAIN htRoutes[m] : HtParse(htRoutes[m][i].nodes, path)
HtRegister ==
  /\ FoldSet(LAMBDA k, n : n + Len(htRoutes[k]), 0, HtMethods) < HtMaxRoutes
  /\ \E m \in HtMethods, path \in HtPaths, kind \in HtKinds :
       /\ ~HtAmbiguous(m, path) /\ HtKeysOK(HtNodes(path))
       /\ htRoutes' = [htRoutes EXCEPT ![m] = Append(@,
            [path |-> path, nodes |-> HtNodes(path), reqt |-> HtRequestType(m, kind[1]),
             rest |-> HtResponseType(m, kind[2]), eval |-> kind[3]])]
  /\ htRes' = HtNoRes /\ UNCHANGED <<htFS, htEvals>>
HtRegisterEvaluator == ~htEvals /\ htEvals' = TRUE /\ htRes' = HtNoRes /\ UNCHANGED <<htFS, htRoutes>>

-----------------------------------------------------------------------------
(* The dispatch.                                                           *)
HtMatches(m, path) == {i \in DOMAIN htRoutes[m] : HtParse(htRoutes[m][i].nodes, path)}
HtFirst(m, path) == CHOOSE i \in HtMatches(m, path) : \A j \in HtMatches(m, path) : i <= j

\* getFSNode: the file, or the index.html under the path.
HtClean(path) == SelectSeq(path, LAMBDA s : s # "")
HtHasNode(path) == path \in htFS \/ Append(HtClean(path), "index.html") \in htFS

HtAnswer(status) == [HtNoRes EXCEPT !.status = status]
\* handleFS: a file that is not kept in memory is read when it is served.
HtHandleFS(path, fails) == HtAnswer(IF ~HtHasNode(path) THEN 404 ELSE IF fails = "read" THEN 500 ELSE 200)

\* Endpoint.error.
HtError(code) == HtAnswer(IF code = 0 THEN 500 ELSE code)

\* Endpoint.call: what fails is "body", "global", "local", "call" or nothing, with a code of HtCodes.
\* ParseForm makes the map of the form; without it setting a key panics.
HtCall(m, i, path, fails, code) ==
  LET r == htRoutes[m][i]
      vals == HtVals(r.nodes, path)
  IN IF fails = "body" THEN HtAnswer(400)
     ELSE IF r.reqt = "none" /\ (\E v \in vals : v[2] # "") THEN HtAnswer(-1)
     ELSE IF (fails = "global" /\ htEvals) \/ (fails = "local" /\ r.eval) THEN HtError(code)
     ELSE [(IF fails = "call" THEN HtError(code) ELSE HtAnswer(IF r.rest = "none" THEN 204 ELSE 200))
             EXCEPT !.called = i, !.vals = vals]
\* handleDelete, handlePatch, handlePost, handlePut, and handleGet, that goes on to the files.
HtHandle(m, path, fails, code) ==
  IF HtMatches(m, path) # {} THEN HtCall(m, HtFirst(m, path), path, fails, code)
  ELSE IF m = "GET" THEN HtHandleFS(path, fails) ELSE HtAnswer(404)
HtHandleHead(path, fails) ==
  IF HtMatches("GET", path) = {} THEN HtHandleFS(path, fails)
  ELSE HtAnswer(IF htRoutes["GET"][HtFirst("GET", path)].rest = "none" THEN 204 ELSE 200)
\* Mutant of HtAllow: handleOptions looks at the routes only.
HtAllowRoutes(path) == {m \in HtMethods : HtMatches(m, path) # {}}
HtAllow(path) == {m \in HtMethods : HtMatches(m, path) # {}} \cup (IF HtHasNode(path) THEN {"GET", "HEAD"} ELSE {})
HtHandleOptions(path) == IF HtAllow(path) = {} THEN HtAnswer(404)
                         ELSE [HtAnswer(200) EXCEPT !.allow = HtAllow(path) \cup {"OPTIONS"}]
HtServeHTTP(m, path, fails, code) ==
  IF m \in HtMethods THEN HtHandle(m, path, fails, code)
  ELSE IF m = "HEAD" THEN HtHandleHead(path, fails)
  ELSE IF m = "OPTIONS" THEN HtHandleOptions(path) ELSE HtAnswer(501)

\* A request changes nothing, so one between two registrations is enough.
HtServe ==
  /\ htRes = HtNoRes /\ UNCHANGED <<htFS, htRoutes, htEvals>>
  /\ \E m \in HtMethods \cup {"HEAD", "OPTIONS", "TRACE"}, path \in HtReqPaths,
        fails \in {"body", "global", "local", "call", "read", ""}, code \in HtCodes :
       (code # 0 => fails \in {"global", "local", "call"}) /\ htRes' = HtServeHTTP(m, path, fails, code)

HtNext == HtNew \/ HtRegister \/ HtRegisterEvaluator \/ HtServe
HtSpec == HtInit /\ [][HtNext]_htVars

-----------------------------------------------------------------------------
HtTypeOK == /\ htFS \subseteq HtFiles /\ htEvals \in BOOLEAN /\ htRes.status \in {-1, 0, 200, 204, 400, 404, 500, 501} \cup HtCodes
            /\ \A m \in HtMethods : \A i \in DOMAIN htRoutes[m] : HtKeysOK(htRoutes[m][i].nodes)

(* An endpoint that was accepted can be called: the registration refuses   *)
(* whatever an earlier route of the method would hide, as long as the      *)
(* route takes its own path.  It does not when newRoute has trimmed or     *)
(* left out sub-paths that parse counts as they are: then the route may be *)
(* accepted and hidden.  The value "other" stands for names that no        *)
(* endpoint has.                                                           *)
HtReachable == \A m \in HtMethods : \A i \in DOMAIN htRoutes[m] :
  LET nodes == htRoutes[m][i].nodes
      request == [k \in DOMAIN nodes |-> IF nodes[k] \in HtKeys THEN "other" ELSE nodes[k]]
  IN HtParse(nodes, htRoutes[m][i].path) => HtMatches(m, request) # {} /\ HtFirst(m, request) = i

(* On a server with files or routes, what OPTIONS allows and what is then  *)
(* answered agree: a method is listed exactly when it is not answered with *)
(* 404.  HEAD is not listed for the route of a GET, which answers it.      *)
HtOptionsAgree == htRes = HtNoRes /\ (htFS # {} \/ \E m \in HtMethods : htRoutes[m] # <<>>) => \A path \in HtReqPaths :
  LET listed == HtHandleOptions(path).allow
      served == {m \in HtMethods \cup {"HEAD"} : HtServeHTTP(m, path, "", 0).status # 404}
  IN listed \ {"OPTIONS"} \subseteq served /\ served \ listed \subseteq {"HEAD"}

(* Registration, OPTIONS and dispatch have one view of the routes.         *)
HtSound == HtReachable /\ HtOptionsAgree
=============================================================================
