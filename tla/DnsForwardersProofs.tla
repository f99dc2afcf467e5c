------------------------ MODULE DnsForwardersProofs ------------------------
(***************************************************************************)
(* Proofs about DnsForwarders for every set of requests, name servers and  *)
(* configurations, any capacity of the queues and any number of restarts.  *)
(***************************************************************************)
EXTENDS DnsForwarders, FiniteSetTheorems, TLAPS

\* The forwarders of a later call of startAllForwarders do not exist yet.
Unstarted == \A f \in Fw : f[1] > gen => pc[f] = "off"

\* Whoever is in the middle of handling a request has one, and nobody else.
Busy ==
    /\ psPc = "idle" <=> psReq = Nil
    /\ \A f \in Fw : pc[f] \in {"query", "failing"} <=> held[f] # Nil

\* The inductive invariant.
IInv == TypeOK /\ Unstarted /\ Busy /\ OneHolder /\ FwnBound

\* There are finitely many forwarders, so they can be counted.
LEMMA FwFinite == IsFiniteSet(Fw)
<1>1. IsFiniteSet(Gen)
  BY ForwarderAssumption, FS_Interval DEF Gen
<1> QED
  BY <1>1, ForwarderAssumption, FS_Product DEF Fw

\* Every step keeps the types.
LEMMA TypeStep ==
    ASSUME TypeOK, Busy, Next
    PROVE  TypeOK'
<1> USE DEF TypeOK, server, ps
<1>0. /\ MaxGen \in Nat
      /\ 0 \in Chan
      /\ \A c \in Config : c \in [primary : SUBSET NameServer, fallback : SUBSET NameServer]
  BY ForwarderAssumption DEF Chan
<1>1. CASE StartAll
  <2>1. gen + 1 \in Chan
    BY <1>0, <1>1 DEF StartAll, Chan
  <2>2. NextFallbackq \in Chan \cup {Nil}
    BY <2>1 DEF NextFallbackq
  <2>3. fallbackqs' \in [Chan -> Chan \cup {Nil}]
    BY <1>1, <2>2 DEF StartAll
  <2>4. primary' \subseteq Fw
    BY <1>1 DEF StartAll, Starting
  <2>5. pc' \in [Fw -> {"off", "new", "connect", "run", "query", "failing",
                        "reconnect", "done"}]
    BY <1>1 DEF StartAll
  <2> QED
    BY <1>1, <2>1, <2>3, <2>4, <2>5 DEF StartAll
<1>2. ASSUME NEW c \in Config, Restart(c)  PROVE TypeOK'
  BY <1>0, <1>2 DEF Restart
<1>3. ASSUME NEW r \in Request, Route(r)  PROVE TypeOK'
  BY <1>0, <1>3 DEF Route
<1>4. CASE EvalFallback
  BY <1>4 DEF EvalFallback, fallbackq
<1>5. CASE SendRequest
  BY <1>5, ForwarderAssumption DEF SendRequest, Busy
<1>6. ASSUME NEW f \in Fw, FwStep(f)  PROVE TypeOK'
  <2>1. CASE Register(f)
    BY <2>1 DEF Register, Inc
  <2>2. CASE Connect(f)
    BY <2>2 DEF Connect, Inc
  <2>3. CASE StopUnconnected(f)
    BY <2>3 DEF StopUnconnected, Dec
  <2>4. CASE StopRunning(f)
    BY <2>4 DEF StopRunning, Dec
  <2>5. ASSUME NEW r \in Request, Receive(f, r)  PROVE TypeOK'
    BY <2>5 DEF Receive
  <2>6. CASE QueryOK(f)
    BY <2>6 DEF QueryOK
  <2>7. CASE DialFail(f)
    BY <2>7 DEF DialFail, Busy
  <2>8. CASE QueryFail(f)
    BY <2>8 DEF QueryFail
  <2>9. CASE FallBack(f)
    BY <2>9 DEF FallBack, AfterFailure, Busy
  <2>10. CASE GiveUp(f)
    BY <2>10 DEF GiveUp, AfterFailure, Busy
  <2>11. CASE Reconnect(f)
    BY <2>11 DEF Reconnect, Dec
  <2> QED
    BY <1>6, <2>1, <2>2, <2>3, <2>4, <2>5, <2>6, <2>7, <2>8, <2>9, <2>10, <2>11
       DEF FwStep
<1> QED
  BY <1>1, <1>2, <1>3, <1>4, <1>5, <1>6 DEF Next

\* Every step keeps Unstarted and Busy.
LEMMA ControlStep ==
    ASSUME TypeOK, Unstarted, Busy, Next
    PROVE  Unstarted' /\ Busy'
<1> USE DEF TypeOK, Unstarted, Busy, server, ps
<1>0. /\ gen \in Nat
      /\ Nil \notin Request
      /\ \A f \in Fw : f[1] \in Nat
  BY ForwarderAssumption DEF Fw, Gen, Chan
<1>1. CASE StartAll
  <2>1. \A f \in Fw : f[1] > gen' => pc'[f] = "off"
    BY <1>0, <1>1 DEF StartAll, Starting
  <2>2. \A f \in Fw : pc'[f] \in {"query", "failing"} <=> held'[f] # Nil
    BY <1>0, <1>1 DEF StartAll, Starting
  <2> QED
    BY <1>1, <2>1, <2>2 DEF StartAll
<1>2. ASSUME NEW c \in Config, Restart(c)  PROVE Unstarted' /\ Busy'
  BY <1>2 DEF Restart
<1>3. ASSUME NEW r \in Request, Route(r)  PROVE Unstarted' /\ Busy'
  BY <1>0, <1>3 DEF Route
<1>4. CASE EvalFallback
  BY <1>4 DEF EvalFallback
<1>5. CASE SendRequest
  BY <1>5 DEF SendRequest
<1>6. ASSUME NEW f \in Fw, FwStep(f)  PROVE Unstarted' /\ Busy'
  <2>1. CASE Register(f)
    BY <2>1 DEF Register
  <2>2. CASE Connect(f)
    BY <2>2 DEF Connect
  <2>3. CASE StopUnconnected(f)
    BY <2>3 DEF StopUnconnected
  <2>4. CASE StopRunning(f)
    BY <2>4 DEF StopRunning
  <2>5. ASSUME NEW r \in Request, Receive(f, r)  PROVE Unstarted' /\ Busy'
    BY <1>0, <2>5 DEF Receive
  <2>6. CASE QueryOK(f)
    BY <2>6 DEF QueryOK
  <2>7. CASE DialFail(f)
    BY <2>7 DEF DialFail
  <2>8. CASE QueryFail(f)
    BY <2>8 DEF QueryFail
  <2>9. CASE FallBack(f)
    BY <2>9 DEF FallBack, AfterFailure
  <2>10. CASE GiveUp(f)
    BY <2>10 DEF GiveUp, AfterFailure
  <2>11. CASE Reconnect(f)
    BY <2>11 DEF Reconnect
  <2> QED
    BY <1>6, <2>1, <2>2, <2>3, <2>4, <2>5, <2>6, <2>7, <2>8, <2>9, <2>10, <2>11
       DEF FwStep
<1> QED
  BY <1>1, <1>2, <1>3, <1>4, <1>5, <1>6 DEF Next

\* Every step keeps a request in one place.
LEMMA HolderStep ==
    ASSUME TypeOK, Busy, OneHolder, Next
    PROVE  OneHolder'
<1> USE DEF TypeOK, Busy, OneHolder, Held, server, ps
<1>0. Nil \notin Request
  BY ForwarderAssumption
<1>1. CASE StartAll
  BY <1>1 DEF StartAll
<1>2. ASSUME NEW c \in Config, Restart(c)  PROVE OneHolder'
  BY <1>2 DEF Restart
<1>3. ASSUME NEW r \in Request, Route(r)  PROVE OneHolder'
  BY <1>0, <1>3 DEF Route
<1>4. CASE EvalFallback
  BY <1>4 DEF EvalFallback
<1>5. CASE SendRequest
  BY <1>0, <1>5 DEF SendRequest
<1>6. ASSUME NEW f \in Fw, FwStep(f)  PROVE OneHolder'
  <2>0. inq(f) \in Chan \cup {Nil} /\ outq(f) \in Chan \cup {Nil}
    <3>1. 0 \in Chan /\ f[1] \in Chan
      BY ForwarderAssumption DEF Fw, Gen, Chan
    <3> QED
      BY <3>1 DEF inq, outq
  <2>1. CASE Register(f)
    BY <2>1 DEF Register
  <2>2. CASE Connect(f)
    BY <2>2 DEF Connect
  <2>3. CASE StopUnconnected(f)
    BY <2>3 DEF StopUnconnected
  <2>4. CASE StopRunning(f)
    BY <2>4 DEF StopRunning
  <2>5. ASSUME NEW r \in Request, Receive(f, r)  PROVE OneHolder'
    BY <1>0, <2>0, <2>5 DEF Receive
  <2>6. CASE QueryOK(f)
    BY <1>0, <2>6 DEF QueryOK
  <2>7. CASE DialFail(f)
    BY <1>0, <2>7 DEF DialFail
  <2>8. CASE QueryFail(f)
    BY <2>8 DEF QueryFail
  <2>9. CASE FallBack(f)
    BY <1>0, <2>0, <2>9 DEF FallBack
  <2>10. CASE GiveUp(f)
    BY <1>0, <2>10 DEF GiveUp
  <2>11. CASE Reconnect(f)
    BY <2>11 DEF Reconnect
  <2> QED
    BY <1>6, <2>1, <2>2, <2>3, <2>4, <2>5, <2>6, <2>7, <2>8, <2>9, <2>10, <2>11
       DEF FwStep
<1> QED
  BY <1>1, <1>2, <1>3, <1>4, <1>5, <1>6 DEF Next

\* A forwarder that counts itself, stays or stops being counted changes the
\* number of counted forwarders as expected.
LEMMA CountedSize ==
    ASSUME NEW S \in SUBSET Fw, NEW f \in Fw
    PROVE  /\ Cardinality(S) \in Nat
           /\ Cardinality(S \cup {f}) = IF f \in S THEN Cardinality(S) ELSE Cardinality(S) + 1
           /\ Cardinality(S \ {f}) = IF f \in S THEN Cardinality(S) - 1 ELSE Cardinality(S)
<1>1. IsFiniteSet(S)
  BY FwFinite, FS_Subset
<1> QED
  BY <1>1, FS_CardinalityType, FS_AddElement, FS_RemoveElement

\* Every step keeps the count of forwarders within its bound.
LEMMA CountStep ==
    ASSUME TypeOK, Unstarted, FwnBound, Next
    PROVE  FwnBound'
<1> USE DEF TypeOK, server, ps
<1>0. Counted \in SUBSET Fw /\ fwn \in Nat
  BY DEF Counted
<1>1. CASE StartAll
  <2>1. \A f \in Fw : f[1] = gen + 1 => pc[f] = "off"
    BY ForwarderAssumption DEF Unstarted, Chan
  <2>2. Counted' = Counted
    BY <1>1, <2>1 DEF StartAll, Starting, Counted
  <2> QED
    BY <1>1, <2>2 DEF StartAll, FwnBound
<1>2. ASSUME NEW c \in Config, Restart(c)  PROVE FwnBound'
  BY <1>2 DEF Restart, FwnBound, Counted
<1>3. ASSUME NEW r \in Request, Route(r)  PROVE FwnBound'
  BY <1>3 DEF Route, FwnBound, Counted
<1>4. CASE EvalFallback
  BY <1>4 DEF EvalFallback, FwnBound, Counted
<1>5. CASE SendRequest
  BY <1>5 DEF SendRequest, FwnBound, Counted
<1>6. ASSUME NEW f \in Fw, FwStep(f)  PROVE FwnBound'
  \* A step into the counted states adds f if it is primary, and increments.
  <2>A. ASSUME primary' = primary, Inc(f), pc' = [pc EXCEPT ![f] = "run"],
               pc[f] \in {"new", "connect"}
        PROVE  FwnBound'
    <3>1. CASE f \in primary
      <4>1. Counted' = Counted \cup {f} /\ f \notin Counted
        BY <2>A, <3>1 DEF Counted
      <4>2. fwn' = fwn + 1
        BY <2>A, <3>1 DEF Inc
      <4> QED
        BY <1>0, <4>1, <4>2, CountedSize DEF FwnBound
    <3>2. CASE f \notin primary
      BY <2>A, <3>2 DEF Counted, Inc, FwnBound
    <3> QED
      BY <3>1, <3>2
  \* A step out of them removes f if it is primary, and decrements.
  <2>B. ASSUME primary' = primary, Dec(f), NEW after \in {"connect", "done"},
               pc' = [pc EXCEPT ![f] = after],
               pc[f] \in {"connect", "run", "reconnect"}
        PROVE  FwnBound'
    <3>1. CASE f \in primary
      <4>1. Counted' = Counted \ {f}
        BY <2>B, <3>1 DEF Counted
      <4>2. fwn' = IF fwn > 0 THEN fwn - 1 ELSE fwn
        BY <2>B, <3>1 DEF Dec
      <4> QED
        <5>1. /\ Cardinality(Counted) \in Nat
              /\ Cardinality(Counted') = IF f \in Counted THEN Cardinality(Counted) - 1
                                                          ELSE Cardinality(Counted)
          BY <1>0, <4>1, CountedSize
        <5>2. f \in Counted => Cardinality(Counted) # 0
          <6>1. IsFiniteSet(Counted)
            BY <1>0, FwFinite, FS_Subset
          <6> QED
            BY <6>1, FS_EmptySet
        <5> HIDE DEF TypeOK
        <5> QED
          BY <1>0, <4>2, <5>1, <5>2 DEF FwnBound
    <3>2. CASE f \notin primary
      BY <2>B, <3>2 DEF Counted, Dec, FwnBound
    <3> QED
      BY <3>1, <3>2
  \* A step among them, or outside them, changes neither side.
  <2>C. ASSUME primary' = primary, fwn' = fwn, NEW after \in {"connect", "run", "query", "failing", "reconnect"},
               pc' = [pc EXCEPT ![f] = after],
               after = "connect" <=> pc[f] = "new",
               pc[f] \in {"new", "run", "query", "failing"}
        PROVE  FwnBound'
    BY <2>C DEF Counted, FwnBound
  <2>1. CASE Register(f)
    BY <2>1, <2>A, <2>C DEF Register
  <2>2. CASE Connect(f)
    BY <2>2, <2>A DEF Connect
  <2>3. CASE StopUnconnected(f)
    BY <2>3, <2>B DEF StopUnconnected
  <2>4. CASE StopRunning(f)
    BY <2>4, <2>B DEF StopRunning
  <2>5. ASSUME NEW r \in Request, Receive(f, r)  PROVE FwnBound'
    BY <2>5, <2>C DEF Receive
  <2>6. CASE QueryOK(f)
    BY <2>6, <2>C DEF QueryOK
  <2>7. CASE DialFail(f)
    BY <2>7, <2>C DEF DialFail
  <2>8. CASE QueryFail(f)
    BY <2>8, <2>C DEF QueryFail
  <2>9. CASE FallBack(f)
    BY <2>9, <2>C DEF FallBack, AfterFailure
  <2>10. CASE GiveUp(f)
    BY <2>10, <2>C DEF GiveUp, AfterFailure
  <2>11. CASE Reconnect(f)
    BY <2>11, <2>B DEF Reconnect
  <2> QED
    BY <1>6, <2>1, <2>2, <2>3, <2>4, <2>5, <2>6, <2>7, <2>8, <2>9, <2>10, <2>11
       DEF FwStep
<1> QED
  BY <1>1, <1>2, <1>3, <1>4, <1>5, <1>6 DEF Next

\* The inductive invariant holds in every state the forwarders can reach.
THEOREM ForwarderInvariant == Spec => []IInv
<1>1. ASSUME Init  PROVE IInv
  <2>1. TypeOK
    BY <1>1, ForwarderAssumption DEF Init, TypeOK, InitOptions, Chan
  <2>2. Unstarted /\ Busy
    BY <1>1 DEF Init, Unstarted, Busy
  <2>3. OneHolder
    BY <1>1, ForwarderAssumption DEF Init, OneHolder, Held
  <2>4. FwnBound
    <3>1. Counted = {}
      BY <1>1 DEF Init, Counted
    <3> QED
      BY <1>1, <3>1, FS_EmptySet DEF Init, FwnBound
  <2> QED
    BY <2>1, <2>2, <2>3, <2>4 DEF IInv
<1>2. ASSUME IInv, [Next]_vars  PROVE IInv'
  <2>1. CASE Next
    BY <1>2, <2>1, TypeStep, ControlStep, HolderStep, CountStep DEF IInv
  <2>2. CASE UNCHANGED vars
    BY <1>2, <2>2 DEF IInv, vars, server, ps, TypeOK, Unstarted, Busy, OneHolder, Held,
                      FwnBound, Counted
  <2> QED
    BY <1>2, <2>1, <2>2
<1> QED
  BY <1>1, <1>2, PTL DEF Spec

\* The types of the forwarder's state: in particular decForwarder never
\* leaves a negative count behind.
THEOREM ForwarderTypes == Spec => []TypeOK
BY ForwarderInvariant, PTL DEF IInv

\* However queries fail and forwarders restart, a request is with
\* processRequest, in one queue or with one forwarder, and with none of them
\* once it has been answered or dropped.
THEOREM RequestHasOneHolder == Spec => []OneHolder
BY ForwarderInvariant, PTL DEF IInv

\* hasForwarders never counts a primary forwarder that is not connected.
THEOREM CountWithinBound == Spec => []FwnBound
BY ForwarderInvariant, PTL DEF IInv

\* A client is answered at most once.
THEOREM RepliesAreFinal == Spec => ReplyOnce
<1>1. ASSUME IInv, [Next]_vars
      PROVE  [\A r \in Request : reply[r] # "none" => reply'[r] = reply[r]]_vars
  <2>1. SUFFICES ASSUME Next, NEW r \in Request, reply[r] # "none"
                 PROVE  reply'[r] = reply[r]
    BY <1>1
  <2>2. \A f \in Fw : held[f] # r
    BY <1>1, <2>1 DEF IInv, OneHolder, Held
  <2>3. reply \in [Request -> {"none", "answer", "ErrServer"}]
    BY <1>1 DEF IInv, TypeOK
  <2>4. ASSUME NEW f \in Fw, FwStep(f)  PROVE reply'[r] = reply[r]
    BY <2>2, <2>3, <2>4 DEF FwStep, Register, Connect, StopUnconnected, StopRunning,
       Receive, QueryOK, DialFail, QueryFail, FallBack, GiveUp, Reconnect
  <2>5. ASSUME NEW q \in Request, Route(q)  PROVE reply'[r] = reply[r]
    BY <2>1, <2>3, <2>5 DEF Route
  <2> QED
    BY <2>1, <2>4, <2>5 DEF Next, StartAll, Restart, EvalFallback, SendRequest
<1> QED
  BY <1>1, ForwarderInvariant, PTL DEF Spec, ReplyOnce
=============================================================================
