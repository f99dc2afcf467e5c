---------------------------- MODULE WsHandshake ----------------------------
(***************************************************************************)
(* Handshake.parse of lib/websocket on a Handshake that comes from a pool: *)
(* reset clears the flags but not Host and Key, which still hold those of  *)
(* an earlier request.  A request is read header by header.                *)
(***************************************************************************)
EXTENDS Integers, FiniteSets

CONSTANTS WhRequests \* bound: requests parsed with the pooled Handshake
ASSUME WhAssumption == WhRequests \in Nat \ {0}

VARIABLES whReq,   \* number of the request, 0 before the first
          whState, \* "idle", "line", "headers", "ok" or "refused"
          whFlags, \* headerFlags
          whKey, whHost, \* the request that Key and Host come from, 0 for nil
          whSeen   \* the headers of this request so far: name -> how often, and whether one was bad

whVars == <<whReq, whState, whFlags, whKey, whHost, whSeen>>

WhRequired == {"host", "connection", "upgrade", "key", "version"}
WhOptional == {"extensions", "protocol"}
WhHeaders == WhRequired \cup WhOptional
WhNothing == [h \in WhHeaders |-> [times |-> 0, bad |-> FALSE]]

WhInit == whReq = 0 /\ whState = "idle" /\ whFlags = {} /\ whKey = 0 /\ whHost = 0 /\ whSeen = WhNothing

\* Mutant of WhBegin: the flags of the request before are kept.
WhBeginKeep == \E long \in BOOLEAN :
  /\ whState \in {"idle", "ok", "refused"} /\ whReq < WhRequests
  /\ whReq' = whReq + 1 /\ whSeen' = WhNothing
  /\ whState' = IF long THEN "line" ELSE "refused"
  /\ UNCHANGED <<whFlags, whKey, whHost>>

\* parse: a request that is too short is refused before reset.
WhBegin == \E long \in BOOLEAN :
  /\ whState \in {"idle", "ok", "refused"} /\ whReq < WhRequests
  /\ whReq' = whReq + 1 /\ whSeen' = WhNothing
  /\ IF long THEN whState' = "line" /\ whFlags' = {}
     ELSE whState' = "refused" /\ UNCHANGED whFlags
  /\ UNCHANGED <<whKey, whHost>>

\* parseHTTPLine, and the length of what follows it.
WhLine == \E ok \in BOOLEAN :
  /\ whState = "line"
  /\ whState' = IF ok THEN "headers" ELSE "refused"
  /\ UNCHANGED <<whReq, whFlags, whKey, whHost, whSeen>>

\* One known header; Key is stored before its length is tested.
WhHeader == \E h \in WhHeaders, good \in BOOLEAN :
  /\ whState = "headers" /\ (h \in WhOptional => good)
  /\ whSeen' = [whSeen EXCEPT ![h] = [times |-> IF @.times = 0 THEN 1 ELSE 2, bad |-> @.bad \/ ~good]]
  /\ IF h \in whFlags
     THEN whState' = "refused" /\ UNCHANGED <<whFlags, whKey, whHost>>
     ELSE /\ whState' = IF good THEN "headers" ELSE "refused"
          /\ whFlags' = IF good THEN whFlags \cup {h} ELSE whFlags
          /\ whKey' \in IF h # "key" THEN {whKey} ELSE IF good THEN {whReq} ELSE {whKey, whReq}
          /\ whHost' = IF h = "host" /\ good THEN whReq ELSE whHost
  /\ UNCHANGED whReq

\* parseHeader fails on a header without a value.
WhMalformed ==
  /\ whState = "headers" /\ whState' = "refused"
  /\ UNCHANGED <<whReq, whFlags, whKey, whHost, whSeen>>

WhEnd ==
  /\ whState = "headers"
  /\ whState' = IF WhRequired \subseteq whFlags THEN "ok" ELSE "refused"
  /\ UNCHANGED <<whReq, whFlags, whKey, whHost, whSeen>>

WhNext == WhBegin \/ WhLine \/ WhHeader \/ WhMalformed \/ WhEnd
WhSpec == WhInit /\ [][WhNext]_whVars

-----------------------------------------------------------------------------

WhTypeOK == whFlags \subseteq WhHeaders /\ whKey \in 0..whReq /\ whHost \in 0..whReq

(* A request is accepted only when each required header came once with a   *)
(* value the protocol allows, no other one came twice, and the key and the *)
(* host the server goes on with are its own, not those an earlier client   *)
(* left in the pooled Handshake.                                           *)
WhAccepted == whState = "ok" =>
  /\ \A h \in WhRequired : whSeen[h] = [times |-> 1, bad |-> FALSE]
  /\ \A h \in WhOptional : whSeen[h].times <= 1
  /\ whKey = whReq /\ whHost = whReq
=============================================================================
