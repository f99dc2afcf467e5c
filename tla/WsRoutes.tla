------------------------------ MODULE WsRoutes ------------------------------
(***************************************************************************)
(* rootRoute of lib/websocket: the tree of routes of one method, add and   *)
(* get.  A target is the sequence of its segments; a segment of a route is *)
(* [param, name].  The tree is the set of its nodes, each the sequence of  *)
(* the segments on the way to it; add drops empty segments, get does not.  *)
(***************************************************************************)
EXTENDS Integers, Sequences, SequencesExt

CONSTANTS WrNames,   \* names and values of segments; "" is an empty segment
          WrParams,  \* names of parameters
          WrMaxAdds, \* bound: routes added
          WrDepth    \* bound: segments of a target
ASSUME WrAssumption == "" \in WrNames /\ WrDepth \in Nat

VARIABLES wrNodes,   \* nodes of the tree
          wrHandler, \* node -> handler, on the nodes that have one: the number of the add
          wrAdds,    \* calls of add
          wrAsked, wrFound \* the target given to get after the last add, and the node it found

wrVars == <<wrNodes, wrHandler, wrAdds, wrAsked, wrFound>>

WrSegments == {[param |-> FALSE, name |-> n] : n \in WrNames} \cup {[param |-> TRUE, name |-> n] : n \in WrParams}
WrTargets == BoundedSeq(WrSegments, WrDepth)
WrPaths == BoundedSeq(WrNames, WrDepth)
WrNone == <<[param |-> TRUE, name |-> ""]>>

WrInit == wrNodes = {<<>>} /\ wrHandler = <<>> /\ wrAdds = 0 /\ wrAsked = <<>> /\ wrFound = WrNone

\* Mutant of WrDupParam: the parameters under a node are not compared.
WrDupParamNever(node, seg) == FALSE

\* addChild refuses a second parameter with another name under the same node.
WrDupParam(node, seg) == seg.param /\ \E n \in wrNodes :
  Len(n) = Len(node) + 1 /\ Front(n) = node /\ Last(n).param /\ Last(n).name # seg.name

\* add drops the empty segments of a target.
WrSegs(t) ==
  LET some[n \in 0..Len(t)] ==
        IF n = 0 THEN <<>> ELSE IF t[n].name = "" THEN some[n - 1] ELSE Append(some[n - 1], t[n])
  IN some[Len(t)]

\* Mutant of WrAdd: the error of addChild is not looked at.
WrAddAnyway == \E t \in WrTargets :
  LET segs == WrSegs(t)
      made == {i \in DOMAIN segs : ~WrDupParam(SubSeq(segs, 1, i - 1), segs[i])}
  IN /\ wrAdds < WrMaxAdds /\ wrAdds' = wrAdds + 1
     /\ wrNodes' = wrNodes \cup {SubSeq(segs, 1, i) : i \in made}
     /\ wrHandler' = [n \in DOMAIN wrHandler \cup {segs} |-> IF n = segs THEN wrAdds + 1 ELSE wrHandler[n]]
     /\ wrAsked' = <<>> /\ wrFound' = WrNone

\* add creates the nodes on its way and stops at the first that addChild refuses.
WrAdd == \E t \in WrTargets :
  LET segs == WrSegs(t)
      stops == {i \in DOMAIN segs : WrDupParam(SubSeq(segs, 1, i - 1), segs[i])}
      made == IF stops = {} THEN Len(segs) ELSE (CHOOSE i \in stops : \A j \in stops : i <= j) - 1
  IN /\ wrAdds < WrMaxAdds /\ wrAdds' = wrAdds + 1
     /\ wrNodes' = wrNodes \cup {SubSeq(segs, 1, i) : i \in 0..made}
     /\ wrHandler' = IF stops # {} THEN wrHandler
                     ELSE [n \in DOMAIN wrHandler \cup {segs} |-> IF n = segs THEN wrAdds + 1 ELSE wrHandler[n]]
     /\ wrAsked' = <<>> /\ wrFound' = WrNone

\* Mutant of WrChild: the parameter is tried before the name.
WrChildParamFirst(node, name) ==
  LET kids == {n \in wrNodes : Len(n) = Len(node) + 1 /\ Front(n) = node}
      params == {n \in kids : Last(n).param}
      static == {n \in kids : Last(n) = [param |-> FALSE, name |-> name]}
  IN IF params # {} THEN CHOOSE n \in params : TRUE
     ELSE IF static # {} THEN CHOOSE n \in static : TRUE ELSE WrNone

\* One step of get: the child of that name, else the child that is a parameter, else none.
WrChild(node, name) ==
  LET kids == {n \in wrNodes : Len(n) = Len(node) + 1 /\ Front(n) = node}
      static == {n \in kids : Last(n) = [param |-> FALSE, name |-> name]}
      params == {n \in kids : Last(n).param}
  IN IF static # {} THEN CHOOSE n \in static : TRUE
     ELSE IF params # {} THEN CHOOSE n \in params : TRUE ELSE WrNone

\* get goes down from the root, one segment at a time.
WrWalk(path) ==
  LET at[n \in 0..Len(path)] ==
        IF n = 0 THEN <<>> ELSE IF at[n - 1] = WrNone THEN WrNone ELSE WrChild(at[n - 1], path[n])
  IN at[Len(path)]

\* get; an empty last segment is not looked up.
WrGet == \E p \in WrPaths \ {<<>>} :
  LET path == IF p # <<>> /\ Last(p) = "" THEN Front(p) ELSE p
      node == WrWalk(path)
  IN /\ wrAsked' = p
     /\ wrFound' = IF node \in DOMAIN wrHandler THEN node ELSE WrNone
     /\ UNCHANGED <<wrNodes, wrHandler, wrAdds>>

WrNext == WrAdd \/ WrGet
WrSpec == WrInit /\ [][WrNext]_wrVars

-----------------------------------------------------------------------------

WrTypeOK == <<>> \in wrNodes /\ DOMAIN wrHandler \subseteq wrNodes

WrMatches(route, path) == Len(route) = Len(path) /\ \A i \in DOMAIN route : route[i].param \/ route[i].name = path[i]

WrStatic(p) == [i \in DOMAIN p |-> [param |-> FALSE, name |-> p[i]]]

(* Whatever routes were added before, in whatever order and with whatever  *)
(* errors, get returns a route that matches the target; and a route        *)
(* without parameters is found by its own target, never hidden by a        *)
(* parameter that also matches.                                            *)
WrSound == wrAsked # <<>> =>
  LET path == IF Last(wrAsked) = "" THEN Front(wrAsked) ELSE wrAsked
  IN /\ wrFound # WrNone => WrMatches(wrFound, path)
     /\ WrStatic(path) \in DOMAIN wrHandler => wrFound = WrStatic(path)

(* A node has at most one parameter child, also after an add that failed   *)
(* half way, so a target has one reading.                                  *)
WrOneParam == \A n, m \in wrNodes :
  n # <<>> /\ m # <<>> /\ Front(n) = Front(m) /\ Last(n).param /\ Last(m).param => n = m

(* Routing: one reading of a target, and it is the right one.              *)
WrRouted == WrSound /\ WrOneParam
=============================================================================
