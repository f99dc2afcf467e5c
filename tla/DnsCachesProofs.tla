-------------------------- MODULE DnsCachesProofs --------------------------
(***************************************************************************)
(* Proofs about DnsCaches for every set of names, types, goroutines and    *)
(* answers, every threshold and every bound on the clock.                  *)
(***************************************************************************)
EXTENDS DnsCaches, TLAPS

\* The goroutine that is inside answer.update still has the new answer.
NuOK ==
    /\ \A w \in Writer : nu[w] # Nil => nu[w].msg # Nil
    /\ \A w \in Writer : lock = w => nu[w] # Nil

\* The pointer that processRequest holds leads to an answer, cleared or not.
SrvOK ==
    /\ srv.pc # "idle" => srv.q \in Question /\ srv.id \in MsgId
    /\ srv.pc \in {"idle", "get"} <=> srv.an = Nil
    /\ srv.an # Nil => heap[srv.an] # Nil

IInv == TypeOK /\ AnswersUnique /\ LruMatchesMap /\ NuOK /\ SrvOK

-----------------------------------------------------------------------------
(* The list operations. *)

\* MoveToBack permutes the list: it keeps its length and its elements, and
\* a list without repetition stays one.
LEMMA MoveToBackFacts ==
    ASSUME NEW s \in Seq(AnswerId), NEW p \in 1..Len(s)
    PROVE  /\ MoveToBack(s, p) \in Seq(AnswerId)
           /\ Len(MoveToBack(s, p)) = Len(s)
           /\ \A y \in 1..Len(s) : \E z \in 1..Len(s) : MoveToBack(s, p)[y] = s[z]
           /\ \A z \in 1..Len(s) : \E y \in 1..Len(s) : MoveToBack(s, p)[y] = s[z]
           /\ (\A y, z \in 1..Len(s) : s[y] = s[z] => y = z)
                => \A y, z \in 1..Len(s) :
                      MoveToBack(s, p)[y] = MoveToBack(s, p)[z] => y = z
<1> DEFINE m == MoveToBack(s, p)
<1>1. Len(s) \in Nat /\ s \in [1..Len(s) -> AnswerId]
  OBVIOUS
<1>2. \A y \in 1..Len(s) : m[y] = IF y < p THEN s[y]
                                  ELSE IF y < Len(s) THEN s[y + 1] ELSE s[p]
  BY DEF MoveToBack
<1>3. m \in [1..Len(s) -> AnswerId]
  BY <1>1 DEF MoveToBack
<1>4. m \in Seq(AnswerId) /\ Len(m) = Len(s)
  BY <1>1, <1>3
<1>5. \A y \in 1..Len(s) : \E z \in 1..Len(s) : m[y] = s[z]
  BY <1>1, <1>2
<1>6. ASSUME NEW z \in 1..Len(s) PROVE \E y \in 1..Len(s) : m[y] = s[z]
  <2>1. CASE z < p
    BY <1>1, <1>2, <2>1
  <2>2. CASE z = p
    <3>1. m[Len(s)] = s[z]
      BY <1>1, <1>2, <2>2
    <3> QED BY <1>1, <3>1
  <2>3. CASE z > p
    <3>1. m[z - 1] = s[z] /\ z - 1 \in 1..Len(s)
      BY <1>1, <1>2, <2>3
    <3> QED BY <3>1
  <2> QED BY <1>1, <2>1, <2>2, <2>3
<1>7. ASSUME \A y, z \in 1..Len(s) : s[y] = s[z] => y = z,
             NEW y \in 1..Len(s), NEW z \in 1..Len(s), m[y] = m[z]
      PROVE  y = z
  BY <1>1, <1>2, <1>7
<1> QED BY <1>4, <1>5, <1>6, <1>7

\* SwapRemove drops the element at x and keeps the others.
LEMMA SwapRemoveFacts ==
    ASSUME NEW s \in Seq(AnswerId), NEW x \in 1..Len(s)
    PROVE  /\ SwapRemove(s, x) \in Seq(AnswerId)
           /\ Len(SwapRemove(s, x)) = Len(s) - 1
           /\ \A y \in 1..(Len(s) - 1) :
                 SwapRemove(s, x)[y] = IF y = x THEN s[Len(s)] ELSE s[y]
           /\ \A z \in 1..Len(s) : z # x =>
                 \E y \in 1..(Len(s) - 1) : SwapRemove(s, x)[y] = s[z]
<1> DEFINE m == SwapRemove(s, x)
<1>1. Len(s) \in Nat /\ Len(s) > 0 /\ s \in [1..Len(s) -> AnswerId]
  OBVIOUS
<1>2. m \in [1..(Len(s) - 1) -> AnswerId] /\ Len(s) - 1 \in Nat
  BY <1>1 DEF SwapRemove
<1>3. m \in Seq(AnswerId) /\ Len(m) = Len(s) - 1
  BY <1>2
<1>4. \A y \in 1..(Len(s) - 1) : m[y] = IF y = x THEN s[Len(s)] ELSE s[y]
  BY DEF SwapRemove
<1>5. ASSUME NEW z \in 1..Len(s), z # x
      PROVE  \E y \in 1..(Len(s) - 1) : m[y] = s[z]
  <2>1. CASE z = Len(s)
    <3>1. x \in 1..(Len(s) - 1)
      BY <1>5, <2>1
    <3>2. m[x] = s[z]
      BY <1>4, <2>1, <3>1
    <3> QED BY <3>1, <3>2
  <2>2. CASE z # Len(s)
    <3>1. z \in 1..(Len(s) - 1)
      BY <2>2
    <3>2. m[z] = s[z]
      BY <1>4, <1>5, <3>1
    <3> QED BY <3>1, <3>2
  <2> QED BY <2>1, <2>2
<1> QED BY <1>3, <1>4, <1>5

\* RemoveFront shifts the list.
LEMMA RemoveFrontFacts ==
    ASSUME NEW s \in Seq(AnswerId), s # <<>>
    PROVE  /\ RemoveFront(s) \in Seq(AnswerId)
           /\ Len(RemoveFront(s)) = Len(s) - 1
           /\ Len(s) - 1 \in Nat
           /\ \A y \in 1..(Len(s) - 1) : RemoveFront(s)[y] = s[y + 1]
<1>1. Len(s) \in Nat \ {0} /\ s \in [1..Len(s) -> AnswerId]
  OBVIOUS
<1>2. RemoveFront(s) \in [1..(Len(s) - 1) -> AnswerId] /\ Len(s) - 1 \in Nat
  BY <1>1 DEF RemoveFront
<1> QED BY <1>1, <1>2 DEF RemoveFront

-----------------------------------------------------------------------------
(* Steps that change neither the map nor the elements of lru. *)

\* What such a step may do to an answer of the map.
Gentle ==
    \A n \in Name : \A x \in 1..Len(v[n]) :
        LET a == v[n][x]
        IN  /\ heap'[a] # Nil
            /\ heap'[a].qname = heap[a].qname
            /\ heap'[a].qtype = heap[a].qtype
            /\ heap'[a].msg # Nil
            /\ heap'[a].receivedAt > 0 => heap[a].receivedAt > 0

\* lru is at most permuted.
SameLru ==
    /\ Len(lru') = Len(lru)
    /\ \A p \in 1..Len(lru) : \E r \in 1..Len(lru) : lru'[p] = lru[r]
    /\ \A r \in 1..Len(lru) : \E p \in 1..Len(lru) : lru'[p] = lru[r]
    /\ \A p, r \in 1..Len(lru) : lru'[p] = lru'[r] => p = r

\* A step that changes answers only gently, and lru only in its order, keeps
\* both storages consistent.
LEMMA GentleKeeps ==
    ASSUME TypeOK, AnswersUnique, LruMatchesMap, v' = v, Gentle, SameLru
    PROVE  AnswersUnique' /\ LruMatchesMap'
<1>1. AnswersUnique'
  BY DEF AnswersUnique, Gentle
<1>2. \A p, r \in 1..Len(lru') : lru'[p] = lru'[r] => p = r
  BY DEF SameLru
<1>3. ASSUME NEW p \in 1..Len(lru')
      PROVE  /\ heap'[lru'[p]] # Nil
             /\ \E x \in 1..Len(v'[heap'[lru'[p]].qname]) :
                   v'[heap'[lru'[p]].qname][x] = lru'[p]
  <2>1. PICK r \in 1..Len(lru) : lru'[p] = lru[r]
    BY DEF SameLru
  <2> DEFINE n == heap[lru[r]].qname
  <2>2. lru[r] \in AnswerId /\ heap[lru[r]] \in Answer /\ n \in Name
    BY DEF TypeOK, LruMatchesMap, Answer
  <2>3. PICK x \in 1..Len(v[n]) : v[n][x] = lru[r]
    BY DEF LruMatchesMap
  <2>4. heap'[lru[r]] # Nil /\ heap'[lru[r]].qname = n
    BY <2>2, <2>3 DEF Gentle
  <2> QED BY <2>1, <2>3, <2>4
<1>4. ASSUME NEW n \in Name, NEW x \in 1..Len(v'[n]), heap'[v'[n][x]].receivedAt > 0
      PROVE  InLru(v[n][x])'
  <2>1. heap[v[n][x]].receivedAt > 0
    BY <1>4 DEF Gentle
  <2>2. PICK r \in 1..Len(lru) : lru[r] = v[n][x]
    BY <2>1 DEF LruMatchesMap, InLru
  <2>3. PICK p \in 1..Len(lru) : lru'[p] = lru[r]
    BY DEF SameLru
  <2>4. p \in 1..Len(lru') /\ lru'[p] = v[n][x] /\ v[n][x] = v'[n][x]
    BY <2>2, <2>3 DEF SameLru
  <2> QED BY <2>4, Zenon DEF InLru
<1> QED BY <1>1, <1>2, <1>3, <1>4 DEF LruMatchesMap

\* The common case: heap and lru do not change.
LEMMA Unchanged ==
    ASSUME TypeOK, AnswersUnique, LruMatchesMap,
           v' = v, lru' = lru, heap' = heap
    PROVE  AnswersUnique' /\ LruMatchesMap'
BY SMTT(60) DEF AnswersUnique, LruMatchesMap, InLru

\* A step that keeps lru keeps it up to permutation.
LEMMA LruKept ==
    ASSUME LruMatchesMap, lru' = lru
    PROVE  SameLru
BY DEF LruMatchesMap, SameLru

-----------------------------------------------------------------------------
(* The writers. *)

\* NewAnswer makes a well typed answer that has a message.
LEMMA NewAnswerType ==
    ASSUME NEW q \in Question, NEW msg \in Message, NEW at \in Nat
    PROVE  NewAnswer(q, msg, at) \in Answer /\ NewAnswer(q, msg, at).msg # Nil
BY NilAssumption DEF NewAnswer, Answer, Question

\* A record of a hosts or zone file becomes a local answer.
LEMMA LoadRecordStep ==
    ASSUME IInv, NEW q \in Question, NEW id \in MsgId, LoadRecord(q, id)
    PROVE  IInv'
<1> DEFINE msg == [id |-> id, ttl |-> LocalTTL, expires |-> 0]
<1>1. msg \in Message
  BY TimeAssumption DEF Message
<1>2. NewAnswer(q, msg, 0) \in Answer /\ NewAnswer(q, msg, 0).msg # Nil
  BY <1>1, NewAnswerType
<1> HIDE DEF msg
<1>3. nu' = [nu EXCEPT ![Loader] = NewAnswer(q, msg, 0)]
  BY DEF LoadRecord, msg
<1>4. TypeOK'
  BY <1>2, <1>3 DEF IInv, TypeOK, LoadRecord, Writer
<1>5. AnswersUnique' /\ LruMatchesMap'
  BY Unchanged DEF IInv, LoadRecord
<1>6. NuOK'
  BY <1>2, <1>3 DEF IInv, TypeOK, NuOK, LoadRecord, Writer
<1>7. SrvOK'
  BY DEF IInv, SrvOK, LoadRecord
<1> QED BY <1>4, <1>5, <1>6, <1>7 DEF IInv

\* An accepted response becomes a non local answer.
LEMMA ReceiveStep ==
    ASSUME IInv, NEW f \in Forwarder, NEW r \in pending, NEW ttl \in TTL,
           Receive(f, r, ttl)
    PROVE  IInv'
<1> DEFINE msg == [id |-> r.id, ttl |-> ttl, expires |-> now + ttl]
<1>0. r.q \in Question /\ r.id \in MsgId /\ now \in Nat /\ ttl \in Nat
  BY TimeAssumption DEF IInv, TypeOK
<1>1. msg \in Message
  BY <1>0 DEF Message
<1>2. NewAnswer(r.q, msg, now) \in Answer /\ NewAnswer(r.q, msg, now).msg # Nil
  BY <1>0, <1>1, NewAnswerType
<1> HIDE DEF msg
<1>3. nu' = [nu EXCEPT ![f] = NewAnswer(r.q, msg, now)]
  BY DEF Receive, msg
<1>4. TypeOK'
  BY <1>2, <1>3 DEF IInv, TypeOK, Receive, Writer
<1>5. AnswersUnique' /\ LruMatchesMap'
  BY Unchanged DEF IInv, Receive
<1>6. NuOK'
  BY <1>2, <1>3 DEF IInv, TypeOK, NuOK, Receive, Writer
<1>7. SrvOK'
  BY DEF IInv, SrvOK, Receive
<1> QED BY <1>4, <1>5, <1>6, <1>7 DEF IInv

\* A refused response changes nothing but pending.
LEMMA ReceiveNothingStep ==
    ASSUME IInv, NEW f \in Forwarder, NEW r \in pending, ReceiveNothing(f, r)
    PROVE  IInv'
<1>1. TypeOK'
  BY DEF IInv, TypeOK, ReceiveNothing
<1>2. AnswersUnique' /\ LruMatchesMap'
  BY Unchanged DEF IInv, ReceiveNothing
<1>3. NuOK' /\ SrvOK'
  BY DEF IInv, NuOK, SrvOK, ReceiveNothing
<1> QED BY <1>1, <1>2, <1>3 DEF IInv

\* An upsert that inserts: the new answer is the only one of its name and
\* type, and it is in lru if it is not local.
LEMMA InsertStep ==
    ASSUME IInv, NEW w \in Writer, NEW a \in AnswerId, Insert(w, a)
    PROVE  IInv'
<1> DEFINE n == nu[w].qname
<1>1. nu[w] \in Answer /\ n \in Name /\ nu[w].msg # Nil
      /\ nu[w].qtype \in QType /\ nu[w] # Nil /\ nu[w].receivedAt \in Nat
  BY DEF IInv, TypeOK, NuOK, Insert, Answer
<1>2. /\ heap' = [heap EXCEPT ![a] = nu[w]]
      /\ v' = [v EXCEPT ![n] = Append(@, a)]
      /\ heap[a] = Nil
      /\ lru' = IF nu[w].receivedAt > 0 THEN Append(lru, a) ELSE lru
  BY DEF Insert
<1>3. heap'[a] = nu[w] /\ \A b \in AnswerId : b # a => heap'[b] = heap[b]
  BY <1>2 DEF IInv, TypeOK
<1>4. /\ v[n] \in Seq(AnswerId)
      /\ Len(v'[n]) = Len(v[n]) + 1
      /\ v'[n][Len(v[n]) + 1] = a
      /\ \A x \in 1..Len(v[n]) : v'[n][x] = v[n][x]
      /\ \A k \in Name : k # n => v'[k] = v[k]
  BY <1>1, <1>2 DEF IInv, TypeOK
<1>5. \A k \in Name : \A x \in 1..Len(v[k]) : v[k][x] \in AnswerId /\ v[k][x] # a
  BY <1>2 DEF IInv, TypeOK, AnswersUnique
<1>6. TypeOK'
  <2>1. heap' \in [AnswerId -> Answer \cup {Nil}] /\ v' \in [Name -> Seq(AnswerId)]
    BY <1>1, <1>2 DEF IInv, TypeOK
  <2>2. lru' \in Seq(AnswerId)
    BY <1>2 DEF IInv, TypeOK
  <2>3. nu' \in [Writer -> Answer \cup {Nil}]
    BY DEF IInv, TypeOK, Insert
  <2>4. loaded' \subseteq Question
    BY <1>1 DEF IInv, TypeOK, Insert, Question
  <2> QED BY <2>1, <2>2, <2>3, <2>4 DEF IInv, TypeOK, Insert
<1>7. AnswersUnique'
  <2> SUFFICES ASSUME NEW k \in Name, NEW x \in 1..Len(v'[k])
               PROVE  /\ heap'[v'[k][x]] # Nil
                      /\ heap'[v'[k][x]].qname = k
                      /\ heap'[v'[k][x]].msg # Nil
                      /\ \A y \in 1..Len(v'[k]) :
                            heap'[v'[k][x]].qtype = heap'[v'[k][y]].qtype => x = y
    BY DEF AnswersUnique
  <2>0. NotFound(nu[w])
    BY DEF Insert
  <2>1. CASE k # n
    BY <1>3, <1>4, <1>5, <2>1, SMTT(60) DEF IInv, AnswersUnique
  <2>2. CASE k = n /\ x = Len(v[n]) + 1
    <3>1. ASSUME NEW y \in 1..Len(v'[n]), y # x
          PROVE  heap'[v'[n][y]].qtype # nu[w].qtype
      <4>1. y \in 1..Len(v[n])
        BY <1>4, <2>2, <3>1
      <4> QED BY <1>3, <1>4, <1>5, <4>1, <2>0, <1>1, SMTT(60) DEF NotFound
    <3> QED BY <1>1, <1>3, <1>4, <2>2, <3>1
  <2>3. CASE k = n /\ x # Len(v[n]) + 1
    <3>1. x \in 1..Len(v[n])
      BY <1>4, <2>3
    <3>2. heap'[v'[n][x]] = heap[v[n][x]]
      BY <1>1, <1>3, <1>4, <1>5, <3>1
    <3>3. ASSUME NEW y \in 1..Len(v'[n]), heap'[v'[n][x]].qtype = heap'[v'[n][y]].qtype
          PROVE  x = y
      <4>1. CASE y = Len(v[n]) + 1
        BY <1>1, <1>3, <1>4, <2>0, <3>1, <3>2, <3>3, <4>1 DEF NotFound
      <4>2. CASE y # Len(v[n]) + 1
        <5>1. y \in 1..Len(v[n])
          BY <1>4, <4>2
        <5>2. heap'[v'[n][y]] = heap[v[n][y]]
          BY <1>1, <1>3, <1>4, <1>5, <5>1
        <5> QED BY <1>1, <3>1, <3>2, <3>3, <5>1, <5>2 DEF IInv, AnswersUnique
      <4> QED BY <4>1, <4>2
    <3>4. heap[v[n][x]] # Nil /\ heap[v[n][x]].qname = n /\ heap[v[n][x]].msg # Nil
      <4>1. n \in Name /\ AnswersUnique
        BY <1>1 DEF IInv
      <4> QED BY <3>1, <4>1, Zenon DEF AnswersUnique
    <3> QED BY <2>3, <3>2, <3>3, <3>4, Zenon
  <2> QED BY <2>1, <2>2, <2>3
<1>8. LruMatchesMap'
  <2>1. \A p \in 1..Len(lru) : lru[p] \in AnswerId /\ lru[p] # a
    BY <1>2 DEF IInv, TypeOK, LruMatchesMap
  <2>2. \A p, r \in 1..Len(lru') : lru'[p] = lru'[r] => p = r
    BY <1>2, <2>1 DEF IInv, TypeOK, LruMatchesMap
  <2>3. ASSUME NEW p \in 1..Len(lru')
        PROVE  /\ heap'[lru'[p]] # Nil
               /\ \E x \in 1..Len(v'[heap'[lru'[p]].qname]) :
                     v'[heap'[lru'[p]].qname][x] = lru'[p]
    <3>1. CASE lru'[p] = a
      <4>1. heap'[a] # Nil /\ heap'[a].qname = n
        BY <1>1, <1>3
      <4>2. Len(v[n]) + 1 \in 1..Len(v'[n])
        BY <1>4
      <4> QED BY <1>4, <3>1, <4>1, <4>2, SMTT(60)
    <3>2. CASE lru'[p] # a
      <4>1. p \in 1..Len(lru) /\ lru'[p] = lru[p]
        BY <1>2, <3>2 DEF IInv, TypeOK
      <4>2. heap'[lru[p]] = heap[lru[p]] /\ heap[lru[p]] # Nil
        BY <1>3, <2>1, <4>1 DEF IInv, LruMatchesMap
      <4> DEFINE k == heap[lru[p]].qname
      <4>3. k \in Name
        BY <2>1, <4>1, <4>2 DEF IInv, TypeOK, Answer
      <4>4. PICK x \in 1..Len(v[k]) : v[k][x] = lru[p]
        BY <4>1 DEF IInv, LruMatchesMap
      <4> HIDE DEF k
      <4>5. x \in 1..Len(v'[k]) /\ v'[k][x] = lru[p]
        <5>1. CASE k = n
          BY <1>4, <4>4, <5>1
        <5>2. CASE k # n
          BY <1>4, <4>3, <4>4, <5>2
        <5> QED BY <5>1, <5>2
      <4> QED BY <4>1, <4>2, <4>5 DEF k
    <3> QED BY <3>1, <3>2
  <2>4. ASSUME NEW k \in Name, NEW x \in 1..Len(v'[k]), heap'[v'[k][x]].receivedAt > 0
        PROVE  InLru(v[k][x])'
    <3>1. CASE v'[k][x] = a
      <4>1. lru' = Append(lru, a)
        BY <1>2, <1>3, <2>4, <3>1
      <4>2. Len(lru) + 1 \in 1..Len(lru') /\ lru'[Len(lru) + 1] = a
        BY <4>1 DEF IInv, TypeOK
      <4> QED BY <3>1, <4>2 DEF InLru
    <3>2. CASE v'[k][x] # a
      <4>1. x \in 1..Len(v[k]) /\ v'[k][x] = v[k][x]
        BY <1>4, <3>2, SMTT(60)
      <4>2. heap[v[k][x]].receivedAt > 0
        BY <1>3, <1>5, <2>4, <4>1
      <4>3. PICK p \in 1..Len(lru) : lru[p] = v[k][x]
        BY <4>1, <4>2 DEF IInv, LruMatchesMap, InLru
      <4>4. p \in 1..Len(lru') /\ lru'[p] = lru[p]
        BY <1>2, <4>3 DEF IInv, TypeOK
      <4> QED BY <4>1, <4>3, <4>4 DEF InLru
    <3> QED BY <3>1, <3>2
  <2> QED BY <2>2, <2>3, <2>4 DEF LruMatchesMap
<1>9. NuOK' /\ SrvOK'
  <2>1. NuOK'
    BY NilAssumption DEF IInv, TypeOK, NuOK, Insert, Writer
  <2>2. SrvOK'
    BY <1>2, <1>3 DEF IInv, TypeOK, SrvOK, Insert
  <2> QED BY <2>1, <2>2
<1> QED BY <1>6, <1>7, <1>8, <1>9 DEF IInv

\* The first half of an update: only the times of one answer change, and a
\* local answer stays local.
LEMMA UpdateTimesStep ==
    ASSUME IInv, NEW w \in Writer, UpdateTimes(w)
    PROVE  IInv'
<1>1. PICK x \in Found(nu[w]) :
        /\ heap' = IF heap[v[nu[w].qname][x]].receivedAt > 0
                   THEN [heap EXCEPT
                           ![v[nu[w].qname][x]].receivedAt = nu[w].receivedAt,
                           ![v[nu[w].qname][x]].accessedAt = nu[w].accessedAt]
                   ELSE heap
        /\ srv' = [srv EXCEPT !.raced = @ \/ srv.an = v[nu[w].qname][x]]
  BY DEF UpdateTimes
<1> DEFINE a == v[nu[w].qname][x]
<1>2. nu[w] \in Answer /\ nu[w].qname \in Name /\ x \in 1..Len(v[nu[w].qname])
      /\ nu[w].receivedAt \in Nat /\ nu[w].accessedAt \in Nat /\ nu[w] # Nil
  BY DEF IInv, TypeOK, UpdateTimes, Answer, Found
<1>3. a \in AnswerId /\ heap[a] # Nil /\ heap[a] \in Answer
  BY <1>2 DEF IInv, TypeOK, AnswersUnique
<1> HIDE DEF a
<1>4. heap' = IF heap[a].receivedAt > 0
              THEN [heap EXCEPT ![a].receivedAt = nu[w].receivedAt,
                                ![a].accessedAt = nu[w].accessedAt]
              ELSE heap
  BY <1>1 DEF a
<1>5. /\ heap'[a] \in Answer
      /\ heap'[a].qname = heap[a].qname
      /\ heap'[a].qtype = heap[a].qtype
      /\ heap'[a].msg = heap[a].msg
      /\ heap'[a].receivedAt > 0 => heap[a].receivedAt > 0
      /\ \A b \in AnswerId : b # a => heap'[b] = heap[b]
  BY <1>2, <1>3, <1>4 DEF IInv, TypeOK, Answer
<1>6. heap' \in [AnswerId -> Answer \cup {Nil}]
  BY <1>3, <1>4, <1>5 DEF IInv, TypeOK
<1>7. TypeOK'
  BY <1>1, <1>6 DEF IInv, TypeOK, UpdateTimes
<1>8. heap'[a] # Nil
  BY <1>5, NilAssumption
<1>9. Gentle
  BY <1>5, <1>8 DEF IInv, TypeOK, AnswersUnique, Gentle
<1>10. AnswersUnique' /\ LruMatchesMap'
  BY <1>9, GentleKeeps, LruKept DEF IInv, UpdateTimes
<1>11. NuOK'
  BY NilAssumption DEF IInv, TypeOK, NuOK, UpdateTimes
<1>12. SrvOK'
  <2>1. srv'.pc = srv.pc /\ srv'.q = srv.q /\ srv'.id = srv.id /\ srv'.an = srv.an
    BY <1>1 DEF IInv, TypeOK
  <2>2. srv.an # Nil => heap'[srv.an] # Nil
    BY <1>5, <1>8, SMTT(60) DEF IInv, TypeOK, SrvOK
  <2> QED BY <2>1, <2>2 DEF IInv, SrvOK
<1> QED BY <1>7, <1>10, <1>11, <1>12 DEF IInv

\* The second half: the old answer gets a message again.
LEMMA UpdateMsgStep ==
    ASSUME IInv, NEW w \in Writer, UpdateMsg(w)
    PROVE  IInv'
<1>1. PICK x \in Found(nu[w]) :
        heap' = [heap EXCEPT ![v[nu[w].qname][x]].msg = nu[w].msg]
  BY DEF UpdateMsg
<1> DEFINE a == v[nu[w].qname][x]
<1>2. nu[w] # Nil /\ nu[w].msg # Nil
  BY DEF IInv, NuOK, UpdateMsg
<1>3. nu[w] \in Answer /\ nu[w].qname \in Name /\ x \in 1..Len(v[nu[w].qname])
      /\ nu[w].msg \in Message /\ nu[w].qtype \in QType
  BY <1>2 DEF IInv, TypeOK, Answer, Found
<1>4. a \in AnswerId /\ heap[a] # Nil /\ heap[a] \in Answer
  BY <1>3 DEF IInv, TypeOK, AnswersUnique
<1> HIDE DEF a
<1>5. heap' = [heap EXCEPT ![a].msg = nu[w].msg]
  BY <1>1 DEF a
<1>6. /\ heap'[a] \in Answer
      /\ heap'[a].qname = heap[a].qname
      /\ heap'[a].qtype = heap[a].qtype
      /\ heap'[a].msg # Nil
      /\ heap'[a].receivedAt = heap[a].receivedAt
      /\ \A b \in AnswerId : b # a => heap'[b] = heap[b]
  BY <1>2, <1>3, <1>4, <1>5 DEF IInv, TypeOK, Answer
<1>7. heap' \in [AnswerId -> Answer \cup {Nil}]
  BY <1>4, <1>5, <1>6 DEF IInv, TypeOK
<1>8. loaded' \subseteq Question
  BY <1>3 DEF IInv, TypeOK, UpdateMsg, Question
<1>9. TypeOK'
  BY <1>7, <1>8 DEF IInv, TypeOK, UpdateMsg
<1>10. heap'[a] # Nil
  BY <1>6, NilAssumption
<1>11. Gentle
  BY <1>6, <1>10 DEF IInv, TypeOK, AnswersUnique, Gentle
<1>12. AnswersUnique' /\ LruMatchesMap'
  BY <1>11, GentleKeeps, LruKept DEF IInv, UpdateMsg
<1>13. NuOK'
  BY NilAssumption DEF IInv, TypeOK, NuOK, UpdateMsg, Writer
<1>14. SrvOK'
  BY <1>6, <1>10 DEF IInv, TypeOK, SrvOK, UpdateMsg
<1> QED BY <1>9, <1>12, <1>13, <1>14 DEF IInv

-----------------------------------------------------------------------------
(* processRequest. *)

\* A step that changes one answer, but neither its question nor its receipt
\* time, and that leaves it its message.
LEMMA TouchAnswer ==
    ASSUME IInv, NEW a \in AnswerId, NEW new \in Answer, heap[a] # Nil,
           heap' = [heap EXCEPT ![a] = new],
           new.qname = heap[a].qname, new.qtype = heap[a].qtype,
           new.receivedAt = heap[a].receivedAt,
           heap[a].msg # Nil => new.msg # Nil,
           v' = v, SameLru
    PROVE  /\ heap' \in [AnswerId -> Answer \cup {Nil}]
           /\ AnswersUnique' /\ LruMatchesMap'
           /\ \A b \in AnswerId : heap[b] # Nil => heap'[b] # Nil
<1>1. heap' \in [AnswerId -> Answer \cup {Nil}]
  BY DEF IInv, TypeOK
<1>2. heap'[a] = new /\ \A b \in AnswerId : b # a => heap'[b] = heap[b]
  BY DEF IInv, TypeOK
<1>3. new # Nil
  BY NilAssumption
<1>4. Gentle
  BY <1>2, <1>3 DEF IInv, TypeOK, AnswersUnique, Gentle
<1>5. AnswersUnique' /\ LruMatchesMap'
  BY <1>4, GentleKeeps DEF IInv
<1> QED BY <1>1, <1>2, <1>3, <1>5

\* NuOK only reads nu and lock.
LEMMA NuKept == ASSUME NuOK, nu' = nu, lock' = lock PROVE NuOK'
BY DEF NuOK

\* processRequest takes a request.
LEMMA RequestStep ==
    ASSUME IInv, NEW q \in Question, NEW id \in MsgId, Request(q, id)
    PROVE  IInv'
<1>1. srv' = [srv EXCEPT !.pc = "get", !.q = q, !.id = id] /\ srv.pc = "idle"
  BY DEF Request
<1>2. TypeOK'
  BY <1>1 DEF IInv, TypeOK, Request
<1>3. AnswersUnique' /\ LruMatchesMap'
  BY Unchanged DEF IInv, Request
<1>4. NuOK'
  BY NuKept DEF IInv, Request
<1>5. SrvOK'
  BY <1>1 DEF IInv, TypeOK, SrvOK, Request
<1> QED BY <1>2, <1>3, <1>4, <1>5 DEF IInv

\* caches.get finds an answer and moves it to the back of lru.
LEMMA GetFoundStep ==
    ASSUME IInv, GetFound
    PROVE  IInv'
<1>1. PICK x \in Found(srv.q) :
        /\ srv' = [srv EXCEPT !.pc = "found", !.an = v[srv.q.qname][x], !.at = now]
        /\ \/ /\ heap[v[srv.q.qname][x]].receivedAt > 0
              /\ heap' = [heap EXCEPT ![v[srv.q.qname][x]].accessedAt = now]
              /\ \E p \in 1..Len(lru) :
                    lru[p] = v[srv.q.qname][x] /\ lru' = MoveToBack(lru, p)
           \/ /\ heap[v[srv.q.qname][x]].receivedAt = 0
              /\ UNCHANGED <<heap, lru>>
  BY DEF GetFound
<1> DEFINE a == v[srv.q.qname][x]
<1>2. srv.q \in Question /\ srv.q.qname \in Name /\ srv.id \in MsgId
      /\ srv.pc = "get"
  BY DEF IInv, SrvOK, GetFound, Question
<1>3. a \in AnswerId /\ heap[a] # Nil /\ heap[a] \in Answer /\ now \in Nat
  BY <1>2, SMTT(60) DEF IInv, TypeOK, AnswersUnique, Found
<1> HIDE DEF a
<1>4. /\ heap' \in [AnswerId -> Answer \cup {Nil}]
      /\ AnswersUnique' /\ LruMatchesMap'
      /\ \A b \in AnswerId : heap[b] # Nil => heap'[b] # Nil
      /\ lru' \in Seq(AnswerId)
  <2>1. ASSUME heap[a].receivedAt > 0,
               heap' = [heap EXCEPT ![a].accessedAt = now],
               NEW p \in 1..Len(lru), lru[p] = a, lru' = MoveToBack(lru, p)
        PROVE  <1>4!:
    <3>1. lru \in Seq(AnswerId)
      BY DEF IInv, TypeOK
    <3>2. /\ lru' \in Seq(AnswerId)
          /\ Len(lru') = Len(lru)
          /\ \A y \in 1..Len(lru) : \E z \in 1..Len(lru) : lru'[y] = lru[z]
          /\ \A z \in 1..Len(lru) : \E y \in 1..Len(lru) : lru'[y] = lru[z]
          /\ (\A y, z \in 1..Len(lru) : lru[y] = lru[z] => y = z)
                => \A y, z \in 1..Len(lru) : lru'[y] = lru'[z] => y = z
      <4> DEFINE m == MoveToBack(lru, p)
      <4>1. /\ m \in Seq(AnswerId)
            /\ Len(m) = Len(lru)
            /\ \A y \in 1..Len(lru) : \E z \in 1..Len(lru) : m[y] = lru[z]
            /\ \A z \in 1..Len(lru) : \E y \in 1..Len(lru) : m[y] = lru[z]
            /\ (\A y, z \in 1..Len(lru) : lru[y] = lru[z] => y = z)
                  => \A y, z \in 1..Len(lru) : m[y] = m[z] => y = z
        BY <3>1, MoveToBackFacts
      <4>2. lru' = m
        BY <2>1
      <4> HIDE DEF m
      <4> QED BY <4>1, <4>2
    <3>3. SameLru
      BY <3>2 DEF SameLru, IInv, LruMatchesMap
    <3> DEFINE new == [heap[a] EXCEPT !.accessedAt = now]
    <3>4. /\ new \in Answer
          /\ new.qname = heap[a].qname /\ new.qtype = heap[a].qtype
          /\ new.receivedAt = heap[a].receivedAt /\ new.msg = heap[a].msg
      BY <1>3, SMTT(60) DEF Answer
    <3>5. heap' = [heap EXCEPT ![a] = new]
      BY <2>1
    <3>6. v' = v
      BY DEF GetFound
    <3> HIDE DEF new
    <3> QED BY <1>3, <3>2, <3>3, <3>4, <3>5, <3>6, TouchAnswer
  <2>2. ASSUME UNCHANGED <<heap, lru>> PROVE <1>4!:
    BY <2>2, Unchanged DEF IInv, TypeOK, GetFound
  <2> QED BY <1>1, <2>1, <2>2 DEF a
<1>5. srv' = [srv EXCEPT !.pc = "found", !.an = a, !.at = now]
  BY <1>1 DEF a
<1>6. TypeOK'
  BY <1>3, <1>4, <1>5 DEF IInv, TypeOK, GetFound
<1>7. NuOK'
  BY NuKept DEF IInv, GetFound
<1>8. SrvOK'
  BY <1>2, <1>3, <1>4, <1>5, NilAssumption DEF IInv, TypeOK, SrvOK
<1> QED BY <1>4, <1>6, <1>7, <1>8 DEF IInv

\* Forward adds the request in hand, if anything.
LEMMA ForwardType ==
    ASSUME IInv, srv.pc # "idle", Forward
    PROVE  pending' \subseteq [q : Question, id : MsgId]
BY DEF IInv, TypeOK, SrvOK, Forward

\* processRequest between two requests satisfies its part of the invariant.
LEMMA IdleFacts ==
    /\ Idle \in [pc : {"idle", "get", "found", "setid", "local", "age", "sub",
                       "respond"},
                 q : Question \cup {Nil}, id : MsgId \cup {Nil},
                 an : AnswerId \cup {Nil}, at : Nat, sub : Int,
                 raced : BOOLEAN]
    /\ Idle.pc = "idle"
    /\ Idle.an = Nil
BY DEF Idle

\* caches.get finds nothing.
LEMMA GetMissedStep ==
    ASSUME IInv, GetMissed
    PROVE  IInv'
<1>1. srv' = Idle /\ Forward /\ srv.pc # "idle"
  BY DEF GetMissed
<1>2. TypeOK'
  BY <1>1, IdleFacts, ForwardType DEF IInv, TypeOK, GetMissed
<1>3. AnswersUnique' /\ LruMatchesMap'
  BY Unchanged DEF IInv, GetMissed
<1>4. NuOK'
  BY NuKept DEF IInv, GetMissed
<1>5. SrvOK'
  BY <1>1, IdleFacts DEF SrvOK
<1> QED BY <1>2, <1>3, <1>4, <1>5 DEF IInv

\* Dropping the pointer of processRequest touches no answer of the map.
LEMMA ReleaseKeeps ==
    ASSUME IInv, heap' = Release(heap), v' = v, lru' = lru
    PROVE  heap' \in [AnswerId -> Answer \cup {Nil}] /\ AnswersUnique' /\ LruMatchesMap'
<1>1. heap' \in [AnswerId -> Answer \cup {Nil}]
  BY DEF Release, IInv, TypeOK
<1>2. \A n \in Name : \A x \in 1..Len(v[n]) : heap'[v[n][x]] = heap[v[n][x]]
  BY DEF Release, InMap, IInv, TypeOK
<1>3. Gentle
  BY <1>2 DEF Gentle, IInv, AnswersUnique
<1> QED BY <1>1, <1>3, GentleKeeps, LruKept DEF IInv

\* The answer in hand is expired and let go, or kept.
LEMMA CheckExpiredStep ==
    ASSUME IInv, CheckExpired
    PROVE  IInv'
<1>1. CASE Forward /\ srv' = Idle /\ heap' = Release(heap)
  <2>1. heap' \in [AnswerId -> Answer \cup {Nil}] /\ AnswersUnique' /\ LruMatchesMap'
    BY <1>1, ReleaseKeeps DEF CheckExpired
  <2>2. TypeOK'
    BY <1>1, <2>1, IdleFacts, ForwardType DEF IInv, TypeOK, CheckExpired
  <2>3. NuOK'
    BY NuKept DEF IInv, CheckExpired
  <2>4. SrvOK'
    BY <1>1, IdleFacts DEF SrvOK
  <2> QED BY <2>1, <2>2, <2>3, <2>4 DEF IInv
<1>2. CASE srv' = [srv EXCEPT !.pc = "setid"] /\ UNCHANGED <<heap, pending>>
  <2>1. TypeOK'
    BY <1>2 DEF IInv, TypeOK, CheckExpired
  <2>2. AnswersUnique' /\ LruMatchesMap'
    BY <1>2, Unchanged DEF IInv, CheckExpired
  <2>3. NuOK'
    BY NuKept DEF IInv, CheckExpired
  <2>4. SrvOK'
    BY <1>2 DEF IInv, TypeOK, SrvOK, CheckExpired
  <2> QED BY <2>1, <2>2, <2>3, <2>4 DEF IInv
<1> QED BY <1>1, <1>2 DEF CheckExpired

\* The answer in hand exists once get has returned it.
LEMMA InHand ==
    ASSUME IInv, srv.pc \notin {"idle", "get"}
    PROVE  srv.an \in AnswerId /\ heap[srv.an] # Nil /\ heap[srv.an] \in Answer
BY DEF IInv, TypeOK, SrvOK

\* The ID is written into the message, without the lock.
LEMMA SetIDStep ==
    ASSUME IInv, SetID
    PROVE  IInv'
<1> DEFINE a == srv.an
           new == [heap[a] EXCEPT !.msg.id = srv.id]
<1>1. srv.pc = "setid" /\ heap[a].msg # Nil /\ srv.id \in MsgId
  BY DEF SetID, Msg, IInv, SrvOK
<1>2. a \in AnswerId /\ heap[a] # Nil /\ heap[a] \in Answer
  BY <1>1, InHand
<1>3. heap[a].msg \in Message
  BY <1>1, <1>2 DEF Answer
<1>4. /\ new \in Answer
      /\ new.qname = heap[a].qname /\ new.qtype = heap[a].qtype
      /\ new.receivedAt = heap[a].receivedAt /\ new.msg \in Message
  BY <1>1, <1>2, <1>3 DEF Answer, Message
<1>5. new.msg # Nil
  BY <1>4, NilAssumption
<1>6. heap' = [heap EXCEPT ![a] = new] /\ v' = v /\ lru' = lru
      /\ srv' = [srv EXCEPT !.pc = "local"]
  BY DEF SetID
<1> HIDE DEF a, new
<1>7. /\ heap' \in [AnswerId -> Answer \cup {Nil}]
      /\ AnswersUnique' /\ LruMatchesMap'
      /\ \A b \in AnswerId : heap[b] # Nil => heap'[b] # Nil
  <2>1. SameLru
    BY <1>6, LruKept DEF IInv
  <2> QED BY <1>2, <1>4, <1>5, <1>6, <2>1, TouchAnswer
<1>8. TypeOK'
  BY <1>6, <1>7 DEF IInv, TypeOK, SetID
<1>9. NuOK'
  BY NuKept DEF IInv, SetID
<1>10. SrvOK'
  BY <1>1, <1>2, <1>6, <1>7 DEF a, IInv, TypeOK, SrvOK
<1> QED BY <1>7, <1>8, <1>9, <1>10 DEF IInv

\* updateTTL tests for a local answer.
LEMMA CheckLocalStep ==
    ASSUME IInv, CheckLocal
    PROVE  IInv'
<1>1. srv.pc = "local" /\ srv'.pc \in {"respond", "age"}
      /\ srv' = [srv EXCEPT !.pc = srv'.pc]
  BY DEF CheckLocal, IInv, TypeOK
<1>2. TypeOK'
  BY <1>1 DEF IInv, TypeOK, CheckLocal
<1>3. AnswersUnique' /\ LruMatchesMap'
  BY Unchanged DEF IInv, CheckLocal
<1>4. NuOK'
  BY NuKept DEF IInv, CheckLocal
<1>5. SrvOK'
  BY <1>1 DEF IInv, TypeOK, SrvOK, CheckLocal
<1> QED BY <1>2, <1>3, <1>4, <1>5 DEF IInv

\* updateTTL writes accessedAt, without the lock.
LEMMA AgeStep ==
    ASSUME IInv, Age
    PROVE  IInv'
<1> DEFINE a == srv.an
           new == [heap[a] EXCEPT !.accessedAt = now]
<1>1. srv.pc = "age" /\ now \in Nat
  BY DEF Age, IInv, TypeOK
<1>2. a \in AnswerId /\ heap[a] # Nil /\ heap[a] \in Answer
  BY <1>1, InHand
<1>3. /\ new \in Answer
      /\ new.qname = heap[a].qname /\ new.qtype = heap[a].qtype
      /\ new.receivedAt = heap[a].receivedAt /\ new.msg = heap[a].msg
      /\ now - heap[a].receivedAt \in Int
  BY <1>1, <1>2 DEF Answer
<1>4. heap' = [heap EXCEPT ![a] = new] /\ v' = v /\ lru' = lru
      /\ srv' = [srv EXCEPT !.pc = "sub", !.sub = now - heap[a].receivedAt]
  BY DEF Age
<1> HIDE DEF a, new
<1>5. /\ heap' \in [AnswerId -> Answer \cup {Nil}]
      /\ AnswersUnique' /\ LruMatchesMap'
      /\ \A b \in AnswerId : heap[b] # Nil => heap'[b] # Nil
  <2>1. SameLru
    BY <1>4, LruKept DEF IInv
  <2> QED BY <1>2, <1>3, <1>4, <2>1, TouchAnswer
<1>6. TypeOK'
  BY <1>3, <1>4, <1>5 DEF IInv, TypeOK, Age
<1>7. NuOK'
  BY NuKept DEF IInv, Age
<1>8. SrvOK'
  BY <1>1, <1>2, <1>4, <1>5 DEF a, IInv, TypeOK, SrvOK
<1> QED BY <1>5, <1>6, <1>7, <1>8 DEF IInv

\* SubTTL changes the message, without the lock.
LEMMA DecreaseTTLStep ==
    ASSUME IInv, DecreaseTTL
    PROVE  IInv'
<1> DEFINE a == srv.an
           new == [heap[a] EXCEPT !.msg.ttl = SubTTL(@, srv.sub)]
<1>1. srv.pc = "sub" /\ heap[a].msg # Nil /\ srv.sub \in Int
  BY DEF DecreaseTTL, Msg, IInv, TypeOK
<1>2. a \in AnswerId /\ heap[a] # Nil /\ heap[a] \in Answer
  BY <1>1, InHand
<1>3. heap[a].msg \in Message
  BY <1>1, <1>2 DEF Answer
<1>4. heap[a].msg.ttl \in Nat /\ SubTTL(heap[a].msg.ttl, srv.sub) \in Nat
  BY <1>1, <1>3 DEF Message, SubTTL
<1>5. /\ new \in Answer
      /\ new.qname = heap[a].qname /\ new.qtype = heap[a].qtype
      /\ new.receivedAt = heap[a].receivedAt /\ new.msg \in Message
  BY <1>1, <1>2, <1>3, <1>4 DEF Answer, Message
<1>6. new.msg # Nil
  BY <1>5, NilAssumption
<1>7. heap' = [heap EXCEPT ![a] = new] /\ v' = v /\ lru' = lru
      /\ srv' = [srv EXCEPT !.pc = "respond"]
  BY DEF DecreaseTTL
<1> HIDE DEF a, new
<1>8. /\ heap' \in [AnswerId -> Answer \cup {Nil}]
      /\ AnswersUnique' /\ LruMatchesMap'
      /\ \A b \in AnswerId : heap[b] # Nil => heap'[b] # Nil
  <2>1. SameLru
    BY <1>7, LruKept DEF IInv
  <2> QED BY <1>2, <1>5, <1>6, <1>7, <2>1, TouchAnswer
<1>9. TypeOK'
  BY <1>7, <1>8 DEF IInv, TypeOK, DecreaseTTL
<1>10. NuOK'
  BY NuKept DEF IInv, DecreaseTTL
<1>11. SrvOK'
  BY <1>1, <1>2, <1>7, <1>8 DEF a, IInv, TypeOK, SrvOK
<1> QED BY <1>8, <1>9, <1>10, <1>11 DEF IInv

\* The answer in hand is written and let go.
LEMMA RespondStep ==
    ASSUME IInv, Respond
    PROVE  IInv'
<1>1. srv' = Idle /\ heap' = Release(heap) /\ v' = v /\ lru' = lru
  BY DEF Respond
<1>2. heap' \in [AnswerId -> Answer \cup {Nil}] /\ AnswersUnique' /\ LruMatchesMap'
  BY <1>1, ReleaseKeeps
<1>3. TypeOK'
  BY <1>1, <1>2, IdleFacts DEF IInv, TypeOK, Respond
<1>4. NuOK'
  BY NuKept DEF IInv, Respond
<1>5. SrvOK'
  BY <1>1, IdleFacts DEF SrvOK
<1> QED BY <1>2, <1>3, <1>4, <1>5 DEF IInv

-----------------------------------------------------------------------------
(* The pruning worker. *)

\* prune takes and returns the lock.
LEMMA PruneBeginEndStep ==
    ASSUME IInv, PruneBegin \/ PruneEnd
    PROVE  IInv'
<1>1. heap' = heap /\ v' = v /\ lru' = lru /\ nu' = nu /\ srv' = srv
      /\ lock' \in {Pruner, Nil} /\ exp' \in Int
  BY TimeAssumption DEF PruneBegin, PruneEnd, IInv, TypeOK
<1>2. TypeOK'
  BY <1>1 DEF IInv, TypeOK, PruneBegin, PruneEnd
<1>3. AnswersUnique' /\ LruMatchesMap'
  BY <1>1, Unchanged DEF IInv
<1>4. NuOK'
  BY <1>1, NilAssumption, ProcessAssumption DEF IInv, NuOK, Writer
<1>5. SrvOK'
  BY <1>1 DEF IInv, SrvOK
<1> QED BY <1>2, <1>3, <1>4, <1>5 DEF IInv

\* The answer at the front of lru is the one that answers.remove finds by
\* type and class, so the same answer leaves both storages.
LEMMA PruneRemoveStep ==
    ASSUME IInv, PruneRemove
    PROVE  IInv'
<1> DEFINE a == lru[1]
           n == heap[a].qname
<1>1. lru \in Seq(AnswerId) /\ lru # <<>> /\ Len(lru) \in Nat /\ 1 \in 1..Len(lru)
  BY DEF PruneRemove, IInv, TypeOK
<1>2. a \in AnswerId /\ heap[a] # Nil /\ heap[a] \in Answer /\ n \in Name
  BY <1>1 DEF IInv, TypeOK, LruMatchesMap, Answer
<1>3. PICK z \in 1..Len(v[n]) : v[n][z] = a
  BY <1>1 DEF IInv, LruMatchesMap
<1>4. PICK x \in Found(heap[a]) : v' = [v EXCEPT ![n] = SwapRemove(@, x)]
  BY DEF PruneRemove
<1>5. x \in 1..Len(v[n]) /\ heap[v[n][x]].qtype = heap[a].qtype
  BY <1>4 DEF Found
<1>6. v[n][x] = a
  BY <1>2, <1>3, <1>5 DEF IInv, AnswersUnique
<1>7. /\ heap' = [heap EXCEPT ![a] = IF srv.an = a
                                     THEN [@ EXCEPT !.msg = Nil] ELSE Nil]
      /\ lru' = RemoveFront(lru)
      /\ UNCHANGED <<now, lock, nu, exp, srv, pending, serving, loaded>>
  BY DEF PruneRemove
<1> HIDE DEF a, n
<1>8. v[n] \in Seq(AnswerId)
  BY <1>2 DEF IInv, TypeOK
<1>9. /\ v'[n] \in Seq(AnswerId)
      /\ Len(v'[n]) = Len(v[n]) - 1
      /\ \A y \in 1..(Len(v[n]) - 1) :
            v'[n][y] = IF y = x THEN v[n][Len(v[n])] ELSE v[n][y]
      /\ \A y \in 1..Len(v[n]) : y # x =>
            \E t \in 1..(Len(v[n]) - 1) : v'[n][t] = v[n][y]
      /\ \A k \in Name : k # n => v'[k] = v[k]
  <2>1. v'[n] = SwapRemove(v[n], x) /\ \A k \in Name : k # n => v'[k] = v[k]
    BY <1>2, <1>4 DEF IInv, TypeOK
  <2> DEFINE m == SwapRemove(v[n], x)
  <2>2. /\ m \in Seq(AnswerId)
        /\ Len(m) = Len(v[n]) - 1
        /\ \A y \in 1..(Len(v[n]) - 1) :
              m[y] = IF y = x THEN v[n][Len(v[n])] ELSE v[n][y]
        /\ \A y \in 1..Len(v[n]) : y # x =>
              \E t \in 1..(Len(v[n]) - 1) : m[t] = v[n][y]
    BY <1>5, <1>8, SwapRemoveFacts
  <2> HIDE DEF m
  <2>3. v'[n] = m
    BY <2>1 DEF m
  <2> QED BY <2>1, <2>2, <2>3
<1>10. /\ lru' \in Seq(AnswerId)
       /\ Len(lru') = Len(lru) - 1
       /\ \A p \in 1..Len(lru') : lru'[p] = lru[p + 1]
  BY <1>1, <1>7, RemoveFrontFacts
<1>11. \A b \in AnswerId : b # a => heap'[b] = heap[b]
  BY <1>7 DEF IInv, TypeOK
<1>12. TypeOK'
  <2>1. heap' \in [AnswerId -> Answer \cup {Nil}]
    BY <1>2, <1>7 DEF IInv, TypeOK, Answer
  <2>2. v' \in [Name -> Seq(AnswerId)]
    BY <1>2, <1>4, <1>9 DEF IInv, TypeOK
  <2> QED BY <1>7, <1>10, <2>1, <2>2 DEF IInv, TypeOK
\* What remains in the map was there before, and is not a.
<1>13. ASSUME NEW k \in Name, NEW y \in 1..Len(v'[k])
       PROVE  \E t \in 1..Len(v[k]) :
                 /\ v'[k][y] = v[k][t]
                 /\ v[k][t] \in AnswerId
                 /\ v[k][t] # a
                 /\ k = n => t = IF y = x THEN Len(v[n]) ELSE y
  <2>1. CASE k # n
    <3>1. v'[k] = v[k] /\ v[k][y] \in AnswerId /\ heap[v[k][y]].qname = k
      BY <1>9, <2>1 DEF IInv, TypeOK, AnswersUnique
    <3>2. v[k][y] # a
      BY <3>1, <2>1 DEF n
    <3> QED BY <3>1, <3>2, <2>1
  <2>2. CASE k = n
    <3> DEFINE t == IF y = x THEN Len(v[n]) ELSE y
    <3>0. Len(v[n]) \in Nat /\ y \in 1..(Len(v[n]) - 1)
      BY <1>8, <1>9, <2>2
    <3>1. t \in 1..Len(v[n]) /\ t # x /\ v'[n][y] = v[n][t]
      <4>1. v'[n][y] = v[n][t]
        BY <1>9, <3>0
      <4>2. t \in 1..Len(v[n]) /\ t # x
        BY <1>5, <3>0
      <4> QED BY <4>1, <4>2
    <3>2. v[n][t] \in AnswerId
      BY <1>8, <3>1
    <3>3. v[n][t] # a
      BY <1>2, <1>5, <1>6, <3>1 DEF IInv, AnswersUnique
    <3> QED BY <2>2, <3>1, <3>2, <3>3
  <2> QED BY <2>1, <2>2
<1>14. AnswersUnique'
  <2> SUFFICES ASSUME NEW k \in Name, NEW y \in 1..Len(v'[k])
               PROVE  /\ heap'[v'[k][y]] # Nil
                      /\ heap'[v'[k][y]].qname = k
                      /\ heap'[v'[k][y]].msg # Nil
                      /\ \A y2 \in 1..Len(v'[k]) :
                            heap'[v'[k][y]].qtype = heap'[v'[k][y2]].qtype => y = y2
    BY DEF AnswersUnique
  <2>1. PICK t \in 1..Len(v[k]) :
                 /\ v'[k][y] = v[k][t]
                 /\ v[k][t] \in AnswerId
                 /\ v[k][t] # a
                 /\ k = n => t = IF y = x THEN Len(v[n]) ELSE y
    BY <1>13
  <2>2. heap'[v'[k][y]] = heap[v[k][t]]
    BY <1>11, <2>1
  <2>3. ASSUME NEW y2 \in 1..Len(v'[k]),
               heap'[v'[k][y]].qtype = heap'[v'[k][y2]].qtype
        PROVE  y = y2
    <3>1. PICK t2 \in 1..Len(v[k]) :
                 /\ v'[k][y2] = v[k][t2]
                 /\ v[k][t2] \in AnswerId
                 /\ v[k][t2] # a
                 /\ k = n => t2 = IF y2 = x THEN Len(v[n]) ELSE y2
      BY <1>13
    <3>2. heap'[v'[k][y2]] = heap[v[k][t2]]
      BY <1>11, <3>1
    <3>3. t = t2
      BY <2>2, <2>3, <3>2 DEF IInv, AnswersUnique
    <3>4. CASE k = n
      BY <1>8, <1>9, <2>1, <3>1, <3>3, <3>4
    <3>5. CASE k # n
      <4>1. v'[k] = v[k]
        BY <1>9, <3>5
      <4>2. heap[v[k][y]].qtype = heap[v[k][y2]].qtype
        BY <2>1, <2>2, <2>3, <3>1, <3>2, <4>1
      <4> QED BY <4>1, <4>2 DEF IInv, AnswersUnique
    <3> QED BY <3>4, <3>5
  <2> QED BY <2>1, <2>2, <2>3 DEF IInv, AnswersUnique
<1>15. LruMatchesMap'
  <2>1. \A p, r \in 1..Len(lru') : lru'[p] = lru'[r] => p = r
    BY <1>1, <1>10 DEF IInv, LruMatchesMap
  <2>2. ASSUME NEW p \in 1..Len(lru')
        PROVE  /\ heap'[lru'[p]] # Nil
               /\ \E y \in 1..Len(v'[heap'[lru'[p]].qname]) :
                     v'[heap'[lru'[p]].qname][y] = lru'[p]
    <3> DEFINE b == lru[p + 1]
    <3>1. p + 1 \in 1..Len(lru) /\ p + 1 # 1 /\ lru'[p] = b
      BY <1>1, <1>10
    <3>2. b \in AnswerId /\ b # a /\ heap[b] # Nil
      BY <1>1, <3>1 DEF a, IInv, TypeOK, LruMatchesMap
    <3>3. heap'[b] = heap[b] /\ heap[b] \in Answer
      BY <1>11, <3>2 DEF IInv, TypeOK
    <3> DEFINE k == heap[b].qname
    <3>4. k \in Name
      BY <3>3 DEF Answer
    <3>5. PICK y \in 1..Len(v[k]) : v[k][y] = b
      BY <3>1 DEF IInv, LruMatchesMap
    <3> HIDE DEF b, k
    <3>6. \E t \in 1..Len(v'[k]) : v'[k][t] = b
      <4>1. CASE k = n
        BY <1>6, <1>9, <3>2, <3>5, <4>1
      <4>2. CASE k # n
        BY <1>9, <3>4, <3>5, <4>2
      <4> QED BY <4>1, <4>2
    <3> QED BY <3>1, <3>2, <3>3, <3>6 DEF k
  <2>3. ASSUME NEW k \in Name, NEW y \in 1..Len(v'[k]), heap'[v'[k][y]].receivedAt > 0
        PROVE  InLru(v[k][y])'
    <3>1. PICK t \in 1..Len(v[k]) :
              v'[k][y] = v[k][t] /\ v[k][t] \in AnswerId /\ v[k][t] # a
      BY <1>13
    <3>2. heap[v[k][t]].receivedAt > 0
      BY <1>11, <2>3, <3>1
    <3>3. PICK p \in 1..Len(lru) : lru[p] = v[k][t]
      BY <3>2 DEF IInv, LruMatchesMap, InLru
    <3>4. p # 1
      BY <3>1, <3>3 DEF a
    <3>5. p - 1 \in 1..Len(lru') /\ lru'[p - 1] = lru[p]
      BY <1>1, <1>10, <3>4
    <3> QED BY <3>1, <3>3, <3>5 DEF InLru
  <2> QED BY <2>1, <2>2, <2>3 DEF LruMatchesMap
<1>16. NuOK'
  BY <1>7, NuKept DEF IInv
<1>17. SrvOK'
  <2>1. ASSUME srv.an # Nil PROVE heap'[srv.an] # Nil
    <3>1. CASE srv.an = a
      <4>1. heap'[a] = [heap[a] EXCEPT !.msg = Nil]
        BY <1>2, <1>7, <3>1 DEF IInv, TypeOK
      <4>2. heap'[a] \in Answer
        BY <1>2, <4>1 DEF Answer
      <4> QED BY <3>1, <4>2, NilAssumption
    <3>2. CASE srv.an # a
      BY <1>11, <2>1, <3>2 DEF IInv, TypeOK, SrvOK
    <3> QED BY <3>1, <3>2
  <2> QED BY <1>7, <2>1 DEF IInv, SrvOK
<1> QED BY <1>12, <1>14, <1>15, <1>16, <1>17 DEF IInv

-----------------------------------------------------------------------------
(* The invariant. *)

\* newCaches establishes the invariant.
LEMMA InitIInv == Init => IInv
<1> SUFFICES ASSUME Init PROVE IInv
  OBVIOUS
<1>1. TypeOK
  <2>1. /\ heap \in [AnswerId -> Answer \cup {Nil}]
        /\ nu \in [Writer -> Answer \cup {Nil}]
        /\ v \in [Name -> Seq(AnswerId)]
        /\ lru \in Seq(AnswerId)
    BY DEF Init
  <2>2. now = 1 /\ lock = Nil /\ exp = 0 /\ srv = Idle /\ pending = {}
        /\ serving = FALSE /\ loaded = {}
    BY DEF Init
  <2>3. now \in Nat /\ exp \in Int
    BY DEF Init
  <2>6. serving \in BOOLEAN
    BY <2>2, Zenon
  <2>4. lock \in Writer \cup {Pruner, Nil}
    BY <2>2
  <2>5. pending \subseteq [q : Question, id : MsgId] /\ loaded \subseteq Question
    BY <2>2
  <2> QED BY <2>1, <2>2, <2>3, <2>4, <2>5, <2>6, IdleFacts DEF TypeOK
<1>2. AnswersUnique /\ LruMatchesMap
  BY DEF Init, AnswersUnique, LruMatchesMap
<1>3. NuOK
  BY NilAssumption DEF Init, NuOK, Writer
<1>4. SrvOK
  BY IdleFacts DEF Init, SrvOK
<1> QED BY <1>1, <1>2, <1>3, <1>4 DEF IInv

\* The clock and ListenAndServe touch neither storage.
LEMMA TickListenStep ==
    ASSUME IInv, Tick \/ ListenAndServe \/ UNCHANGED vars
    PROVE  IInv'
<1>1. TypeOK'
  <2>1. CASE Tick
    BY <2>1 DEF IInv, TypeOK, Tick
  <2>2. CASE ListenAndServe
    BY <2>2 DEF IInv, TypeOK, ListenAndServe
  <2>3. CASE UNCHANGED vars
    BY <2>3 DEF IInv, TypeOK, vars
  <2> QED BY <2>1, <2>2, <2>3
<1>2. heap' = heap /\ v' = v /\ lru' = lru /\ nu' = nu /\ lock' = lock /\ srv' = srv
  BY DEF Tick, ListenAndServe, vars
<1>3. AnswersUnique' /\ LruMatchesMap'
  BY <1>2, Unchanged DEF IInv
<1>4. NuOK' /\ SrvOK'
  BY <1>2 DEF IInv, NuOK, SrvOK
<1> QED BY <1>1, <1>3, <1>4 DEF IInv

\* Every step keeps the invariant.
LEMMA NextIInv == IInv /\ [Next]_vars => IInv'
<1> SUFFICES ASSUME IInv, [Next]_vars PROVE IInv'
  OBVIOUS
<1>1. CASE Tick \/ ListenAndServe \/ UNCHANGED vars
  BY <1>1, TickListenStep
<1>2. CASE WriterNext
  BY <1>2, LoadRecordStep, ReceiveStep, ReceiveNothingStep, InsertStep,
     UpdateTimesStep, UpdateMsgStep DEF WriterNext
<1>3. CASE \E q \in Question, id \in MsgId : Request(q, id)
  BY <1>3, RequestStep
<1>4. CASE ServeNext
  BY <1>4, GetFoundStep, GetMissedStep, CheckExpiredStep, SetIDStep,
     CheckLocalStep, AgeStep, DecreaseTTLStep, RespondStep DEF ServeNext
<1>5. CASE PruneNext
  BY <1>5, PruneBeginEndStep, PruneRemoveStep DEF PruneNext
<1> QED BY <1>1, <1>2, <1>3, <1>4, <1>5 DEF Next

\* The conjunction of the structural invariants holds of every behaviour.
THEOREM CacheInvariant == Spec => []IInv
<1>1. Init => IInv
  BY InitIInv
<1>2. IInv /\ [Next]_vars => IInv'
  BY NextIInv
<1> QED BY <1>1, <1>2, PTL DEF Spec

\* Every variable keeps its type, whatever the goroutines do.
THEOREM TypeCorrect == Spec => []TypeOK
<1>1. IInv => TypeOK
  BY DEF IInv
<1> QED BY <1>1, CacheInvariant, PTL

\* A name never has two answers of one type and class (answers.go), for any
\* number of names, types and forwarders.
THEOREM AnswersStayUnique == Spec => []AnswersUnique
<1>1. IInv => AnswersUnique
  BY DEF IInv
<1> QED BY <1>1, CacheInvariant, PTL

\* The map and the LRU list of caches.go never disagree, even when files are
\* loaded while requests are served.
THEOREM StoragesAgree == Spec => []LruMatchesMap
<1>1. IInv => LruMatchesMap
  BY DEF IInv
<1> QED BY <1>1, CacheInvariant, PTL

-----------------------------------------------------------------------------
(* Local answers, when every file is loaded before ListenAndServe. *)

\* A loaded question has an answer that is still local, and nothing local is
\* in lru.
LocalFound ==
    /\ \A q \in loaded : \E x \in 1..Len(v[q.qname]) :
          heap[v[q.qname][x]].qtype = q.qtype /\ heap[v[q.qname][x]].receivedAt = 0
    /\ \A p \in 1..Len(lru) : heap[lru[p]].receivedAt > 0

\* Before ListenAndServe there is nothing but local answers; after it there
\* is no loader.
PhaseOK ==
    /\ now > 0
    /\ \A f \in Forwarder : nu[f] # Nil => nu[f].receivedAt > 0
    /\ nu[Loader] # Nil => nu[Loader].receivedAt = 0 /\ ~serving
    /\ ~serving => /\ lru = <<>> /\ pending = {} /\ srv.pc = "idle"
                   /\ \A f \in Forwarder : nu[f] = Nil

LocalInv == IInv /\ LocalFound /\ PhaseOK

\* Answers of the map keep their type and stay local or non local.
KeepsLocal ==
    \A n \in Name : \A x \in 1..Len(v[n]) :
        LET a == v[n][x]
        IN  /\ heap'[a].qtype = heap[a].qtype
            /\ heap[a].receivedAt = 0 => heap'[a].receivedAt = 0
            /\ heap[a].receivedAt > 0 => heap'[a].receivedAt > 0

\* A step that leaves the map alone and makes no answer local or pruneable
\* keeps the loaded questions found.
LEMMA LocalKept ==
    ASSUME IInv, LocalFound, KeepsLocal, v' = v, SameLru, loaded' = loaded
    PROVE  LocalFound'
<1>1. ASSUME NEW q \in loaded
      PROVE  \E x \in 1..Len(v'[q.qname]) :
                /\ heap'[v'[q.qname][x]].qtype = q.qtype
                /\ heap'[v'[q.qname][x]].receivedAt = 0
  <2>1. q.qname \in Name
    BY DEF IInv, TypeOK, Question
  <2> QED BY <2>1 DEF LocalFound, KeepsLocal
<1>2. ASSUME NEW p \in 1..Len(lru') PROVE heap'[lru'[p]].receivedAt > 0
  <2>1. PICK r \in 1..Len(lru) : lru'[p] = lru[r]
    BY DEF SameLru
  <2> DEFINE n == heap[lru[r]].qname
  <2>2. n \in Name
    BY DEF IInv, TypeOK, LruMatchesMap, Answer
  <2>3. PICK x \in 1..Len(v[n]) : v[n][x] = lru[r]
    BY DEF IInv, LruMatchesMap
  <2>4. heap[v[n][x]].receivedAt > 0
    BY <2>3 DEF LocalFound
  <2> HIDE DEF n
  <2>5. heap'[v[n][x]].receivedAt > 0
    BY <2>2, <2>4 DEF KeepsLocal
  <2> QED BY <2>1, <2>3, <2>5
<1> QED BY <1>1, <1>2 DEF LocalFound

\* The common case again.
LEMMA LocalUnchanged ==
    ASSUME LocalFound, heap' = heap, v' = v, lru' = lru, loaded' = loaded
    PROVE  LocalFound'
BY DEF LocalFound

\* A step on the answer in hand that keeps its question and receipt time.
LEMMA LocalTouch ==
    ASSUME IInv, LocalFound, NEW a \in AnswerId, NEW new,
           heap' = [heap EXCEPT ![a] = new],
           new.qtype = heap[a].qtype, new.receivedAt = heap[a].receivedAt,
           v' = v, SameLru, loaded' = loaded
    PROVE  LocalFound'
<1>1. heap'[a] = new /\ \A b \in AnswerId : b # a => heap'[b] = heap[b]
  BY DEF IInv, TypeOK
<1>2. KeepsLocal
  BY <1>1 DEF KeepsLocal, IInv, TypeOK
<1> QED BY <1>2, LocalKept

\* processRequest never changes which answers are local.
LEMMA ServeKeepsLocal ==
    ASSUME LocalInv, ServeNext
    PROVE  LocalFound'
<1>0. IInv /\ LocalFound /\ v' = v /\ loaded' = loaded
  BY DEF LocalInv, ServeNext, GetFound, GetMissed, CheckExpired, SetID,
         CheckLocal, Age, DecreaseTTL, Respond
<1>1. CASE GetFound
  <2>1. PICK x \in Found(srv.q) :
           \/ /\ heap[v[srv.q.qname][x]].receivedAt > 0
              /\ heap' = [heap EXCEPT ![v[srv.q.qname][x]].accessedAt = now]
              /\ \E p \in 1..Len(lru) :
                    lru[p] = v[srv.q.qname][x] /\ lru' = MoveToBack(lru, p)
           \/ UNCHANGED <<heap, lru>>
    BY <1>1 DEF GetFound
  <2> DEFINE a == v[srv.q.qname][x]
  <2>2. a \in AnswerId /\ heap[a] \in Answer
    <3>1. srv.q.qname \in Name
      BY <1>0, <1>1 DEF IInv, SrvOK, GetFound, Question
    <3>2. x \in 1..Len(v[srv.q.qname])
      BY Zenon DEF Found
    <3>3. v[srv.q.qname] \in Seq(AnswerId) /\ heap \in [AnswerId -> Answer \cup {Nil}]
      BY <1>0, <3>1 DEF IInv, TypeOK
    <3>4. a \in AnswerId
      BY <3>2, <3>3
    <3>5. heap[a] # Nil
      BY <1>0, <3>1, <3>2, Zenon DEF IInv, AnswersUnique
    <3> QED BY <3>3, <3>4, <3>5, SMTT(60)
  <2>3. CASE UNCHANGED <<heap, lru>>
    BY <1>0, <2>3, LocalUnchanged
  <2>4. ASSUME heap' = [heap EXCEPT ![a].accessedAt = now],
               NEW p \in 1..Len(lru), lru' = MoveToBack(lru, p)
        PROVE  LocalFound'
    <3> DEFINE new == [heap[a] EXCEPT !.accessedAt = now]
               m == MoveToBack(lru, p)
    <3>1. new.qtype = heap[a].qtype /\ new.receivedAt = heap[a].receivedAt
      BY <2>2 DEF Answer
    <3>2. /\ Len(m) = Len(lru)
          /\ \A y \in 1..Len(lru) : \E z \in 1..Len(lru) : m[y] = lru[z]
          /\ \A z \in 1..Len(lru) : \E y \in 1..Len(lru) : m[y] = lru[z]
          /\ (\A y, z \in 1..Len(lru) : lru[y] = lru[z] => y = z)
                => \A y, z \in 1..Len(lru) : m[y] = m[z] => y = z
      BY <1>0, MoveToBackFacts, ZenonT(60) DEF IInv, TypeOK
    <3>3. heap' = [heap EXCEPT ![a] = new] /\ lru' = m
      BY <2>4
    <3> HIDE DEF m, new, a
    <3>4. SameLru
      BY <1>0, <3>2, <3>3 DEF SameLru, IInv, LruMatchesMap
    <3> QED BY <1>0, <2>2, <3>1, <3>3, <3>4, LocalTouch
  <2> QED BY <2>1, <2>3, <2>4
<1>2. ASSUME heap' = Release(heap), lru' = lru PROVE LocalFound'
  <2>1. \A n \in Name : \A x \in 1..Len(v[n]) : heap'[v[n][x]] = heap[v[n][x]]
    BY <1>0, <1>2 DEF Release, InMap, IInv, TypeOK
  <2>2. KeepsLocal
    BY <2>1 DEF KeepsLocal
  <2> QED BY <1>0, <1>2, <2>2, LocalKept, LruKept DEF IInv
<1>3. CASE GetMissed \/ CheckLocal
  BY <1>0, <1>3, LocalUnchanged DEF GetMissed, CheckLocal
<1>4. CASE CheckExpired \/ Respond
  BY <1>0, <1>2, <1>4, LocalUnchanged DEF CheckExpired, Respond
<1>5. CASE SetID \/ Age \/ DecreaseTTL
  <2>1. lru' = lru /\ SameLru
    BY <1>0, <1>5, LruKept DEF SetID, Age, DecreaseTTL, IInv
  <2>2. srv.an \in AnswerId /\ heap[srv.an] \in Answer
    BY <1>0, <1>5, InHand DEF SetID, Age, DecreaseTTL
  <2>3. ASSUME NEW new, heap' = [heap EXCEPT ![srv.an] = new],
               new.qtype = heap[srv.an].qtype,
               new.receivedAt = heap[srv.an].receivedAt
        PROVE  LocalFound'
    BY <1>0, <2>1, <2>2, <2>3, LocalTouch
  <2>4. CASE SetID
    <3> DEFINE new == [heap[srv.an] EXCEPT !.msg.id = srv.id]
    <3>1. new.qtype = heap[srv.an].qtype /\ new.receivedAt = heap[srv.an].receivedAt
      BY <2>2 DEF Answer
    <3>2. heap' = [heap EXCEPT ![srv.an] = new]
      BY <2>4 DEF SetID
    <3> QED BY <2>3, <3>1, <3>2
  <2>5. CASE Age
    <3> DEFINE new == [heap[srv.an] EXCEPT !.accessedAt = now]
    <3>1. new.qtype = heap[srv.an].qtype /\ new.receivedAt = heap[srv.an].receivedAt
      BY <2>2 DEF Answer
    <3>2. heap' = [heap EXCEPT ![srv.an] = new]
      BY <2>5 DEF Age
    <3> QED BY <2>3, <3>1, <3>2
  <2>6. CASE DecreaseTTL
    <3> DEFINE new == [heap[srv.an] EXCEPT !.msg.ttl = SubTTL(@, srv.sub)]
    <3>1. new.qtype = heap[srv.an].qtype /\ new.receivedAt = heap[srv.an].receivedAt
      BY <2>2 DEF Answer
    <3>2. heap' = [heap EXCEPT ![srv.an] = new]
      BY <2>6 DEF DecreaseTTL
    <3> QED BY <2>3, <3>1, <3>2
  <2> QED BY <1>5, <2>4, <2>5, <2>6
<1> QED BY <1>1, <1>3, <1>4, <1>5 DEF ServeNext

\* A new answer does not hide a loaded one.
LEMMA InsertKeepsLocal ==
    ASSUME LocalInv, NEW w \in Writer, NEW a \in AnswerId, Insert(w, a)
    PROVE  LocalFound'
<1> DEFINE n == nu[w].qname
<1>0. IInv /\ LocalFound /\ PhaseOK
  BY DEF LocalInv
<1>1. nu[w] \in Answer /\ n \in Name /\ nu[w] # Nil /\ nu[w].receivedAt \in Nat
      /\ nu[w].qtype \in QType
  BY <1>0 DEF IInv, TypeOK, Insert, Answer
<1>2. /\ heap' = [heap EXCEPT ![a] = nu[w]]
      /\ v' = [v EXCEPT ![n] = Append(@, a)]
      /\ heap[a] = Nil
      /\ lru' = IF nu[w].receivedAt > 0 THEN Append(lru, a) ELSE lru
  BY DEF Insert
<1>3. heap'[a] = nu[w] /\ \A b \in AnswerId : b # a => heap'[b] = heap[b]
  BY <1>0, <1>2 DEF IInv, TypeOK
<1>4. /\ Len(v'[n]) = Len(v[n]) + 1 /\ Len(v[n]) \in Nat
      /\ v'[n][Len(v[n]) + 1] = a
      /\ \A x \in 1..Len(v[n]) : v'[n][x] = v[n][x]
      /\ \A k \in Name : k # n => v'[k] = v[k]
  BY <1>0, <1>1, <1>2 DEF IInv, TypeOK
<1>5. \A k \in Name : \A x \in 1..Len(v[k]) : v[k][x] \in AnswerId /\ v[k][x] # a
  BY <1>0, <1>2 DEF IInv, TypeOK, AnswersUnique
<1> HIDE DEF n
<1>6. ASSUME NEW q \in loaded'
      PROVE  \E x \in 1..Len(v'[q.qname]) :
                /\ heap'[v'[q.qname][x]].qtype = q.qtype
                /\ heap'[v'[q.qname][x]].receivedAt = 0
  <2>1. CASE q \in loaded
    <3> DEFINE k == q.qname
    <3>1. k \in Name
      BY <1>0, <2>1 DEF IInv, TypeOK, Question
    <3>2. PICK x \in 1..Len(v[k]) :
             heap[v[k][x]].qtype = q.qtype /\ heap[v[k][x]].receivedAt = 0
      BY <1>0, <2>1 DEF LocalFound
    <3> HIDE DEF k
    <3>3. x \in 1..Len(v'[k]) /\ v'[k][x] = v[k][x]
      <4>1. CASE k = n
        BY <1>4, <4>1
      <4>2. CASE k # n
        BY <1>4, <3>1, <4>2
      <4> QED BY <4>1, <4>2
    <3>4. heap'[v'[k][x]] = heap[v[k][x]]
      BY <1>3, <1>5, <3>1, <3>3
    <3> QED BY <3>2, <3>3, <3>4 DEF k
  <2>2. CASE q \notin loaded
    <3>1. w = Loader /\ q = [qname |-> nu[w].qname, qtype |-> nu[w].qtype]
      BY <2>2 DEF Insert
    <3>2. nu[w].receivedAt = 0
      BY <1>0, <1>1, <3>1 DEF PhaseOK
    <3>3. q.qname = n /\ q.qtype = nu[w].qtype
      BY <3>1 DEF n
    <3>4. Len(v[n]) + 1 \in 1..Len(v'[n])
      BY <1>4
    <3> QED BY <1>3, <1>4, <3>2, <3>3, <3>4
  <2> QED BY <2>1, <2>2
<1>7. ASSUME NEW p \in 1..Len(lru') PROVE heap'[lru'[p]].receivedAt > 0
  <2>1. \A r \in 1..Len(lru) : lru[r] \in AnswerId /\ lru[r] # a
    BY <1>0, <1>2 DEF IInv, TypeOK, LruMatchesMap
  <2>2. CASE p \in 1..Len(lru)
    <3>1. lru'[p] = lru[p]
      BY <1>0, <1>2, <2>2 DEF IInv, TypeOK
    <3> QED BY <1>0, <1>3, <2>1, <2>2, <3>1 DEF LocalFound
  <2>3. CASE p \notin 1..Len(lru)
    <3>1. lru' = Append(lru, a) /\ nu[w].receivedAt > 0
      BY <1>2, <2>3
    <3>2. lru'[p] = a
      BY <1>0, <2>3, <3>1 DEF IInv, TypeOK
    <3> QED BY <1>3, <3>1, <3>2
  <2> QED BY <2>2, <2>3
<1> QED BY <1>6, <1>7 DEF LocalFound

\* An update of a local answer leaves it local.
LEMMA UpdateKeepsLocal ==
    ASSUME LocalInv, NEW w \in Writer, UpdateTimes(w) \/ UpdateMsg(w)
    PROVE  LocalFound'
<1>0. IInv /\ LocalFound /\ PhaseOK /\ v' = v /\ lru' = lru
  BY DEF LocalInv, UpdateTimes, UpdateMsg
<1>1. nu[w] # Nil
  BY <1>0 DEF UpdateTimes, UpdateMsg, IInv, NuOK
<1>2. nu[w] \in Answer /\ nu[w].qname \in Name /\ nu[w].receivedAt \in Nat
      /\ nu[w].accessedAt \in Nat
  BY <1>0, <1>1 DEF IInv, TypeOK, Answer
<1>3. SameLru
  BY <1>0, LruKept DEF IInv
\* While a local answer is upserted nothing is in lru: all answers are local.
<1>4. ASSUME w = Loader, NEW n \in Name, NEW y \in 1..Len(v[n])
      PROVE  heap[v[n][y]].receivedAt = 0
  <2>1. lru = <<>>
    BY <1>0, <1>1, <1>4 DEF PhaseOK
  <2>2. ~(heap[v[n][y]].receivedAt > 0)
    BY <1>0, <2>1 DEF IInv, LruMatchesMap, InLru
  <2>3. heap[v[n][y]].receivedAt \in Nat
    BY <1>0 DEF IInv, TypeOK, AnswersUnique, Answer
  <2> QED BY <2>2, <2>3
<1>5. CASE UpdateTimes(w)
  <2>1. PICK x \in Found(nu[w]) :
          heap' = IF heap[v[nu[w].qname][x]].receivedAt > 0
                  THEN [heap EXCEPT
                          ![v[nu[w].qname][x]].receivedAt = nu[w].receivedAt,
                          ![v[nu[w].qname][x]].accessedAt = nu[w].accessedAt]
                  ELSE heap
    BY <1>5 DEF UpdateTimes
  <2> DEFINE a == v[nu[w].qname][x]
  <2>2. x \in 1..Len(v[nu[w].qname]) /\ a \in AnswerId /\ heap[a] \in Answer
    BY <1>0, <1>2 DEF Found, IInv, TypeOK, AnswersUnique
  <2>3. loaded' = loaded
    BY <1>5 DEF UpdateTimes
  <2>4. CASE w = Loader
    <3>1. heap' = heap
      <4>1. heap[a].receivedAt = 0
        BY <1>2, <1>4, <2>2, <2>4, Zenon
      <4>2. ~(heap[a].receivedAt > 0)
        BY <4>1
      <4> QED BY <2>1, <4>2, Zenon
    <3> QED BY <1>0, <2>3, <3>1, LocalUnchanged
  <2>5. CASE w # Loader
    <3>1. nu[w].receivedAt > 0
      BY <1>0, <1>1, <2>5, SMTT(60) DEF PhaseOK, Writer
    <3> HIDE DEF a
    <3>2. heap' = IF heap[a].receivedAt > 0
                  THEN [heap EXCEPT ![a].receivedAt = nu[w].receivedAt,
                                    ![a].accessedAt = nu[w].accessedAt]
                  ELSE heap
      BY <2>1 DEF a
    <3>3. /\ heap'[a].qtype = heap[a].qtype
          /\ heap[a].receivedAt = 0 => heap'[a].receivedAt = 0
          /\ heap[a].receivedAt > 0 => heap'[a].receivedAt > 0
          /\ \A b \in AnswerId : b # a => heap'[b] = heap[b]
      BY <1>0, <1>2, <2>2, <3>1, <3>2 DEF IInv, TypeOK, Answer
    <3>4. KeepsLocal
      BY <1>0, <3>3 DEF KeepsLocal, IInv, TypeOK
    <3> QED BY <1>0, <1>3, <2>3, <3>4, LocalKept
  <2> QED BY <2>4, <2>5
<1>6. CASE UpdateMsg(w)
  <2>1. PICK x \in Found(nu[w]) :
          heap' = [heap EXCEPT ![v[nu[w].qname][x]].msg = nu[w].msg]
    BY <1>6 DEF UpdateMsg
  <2> DEFINE n == nu[w].qname
             a == v[n][x]
  <2>2. /\ x \in 1..Len(v[n]) /\ heap[a].qtype = nu[w].qtype
        /\ a \in AnswerId /\ heap[a] \in Answer
    BY <1>0, <1>2 DEF Found, IInv, TypeOK, AnswersUnique
  <2>3. /\ heap'[a].qtype = heap[a].qtype
        /\ heap'[a].receivedAt = heap[a].receivedAt
        /\ \A b \in AnswerId : b # a => heap'[b] = heap[b]
    BY <1>0, <2>1, <2>2 DEF IInv, TypeOK, Answer
  <2>4. \A k \in Name : \A y \in 1..Len(v[k]) :
           /\ heap'[v[k][y]].qtype = heap[v[k][y]].qtype
           /\ heap'[v[k][y]].receivedAt = heap[v[k][y]].receivedAt
    BY <1>0, <2>3 DEF IInv, TypeOK
  <2> HIDE DEF n, a
  <2>5. ASSUME NEW q \in loaded'
        PROVE  \E y \in 1..Len(v'[q.qname]) :
                  /\ heap'[v'[q.qname][y]].qtype = q.qtype
                  /\ heap'[v'[q.qname][y]].receivedAt = 0
    <3>1. CASE q \in loaded
      <4>1. q.qname \in Name
        BY <1>0, <3>1 DEF IInv, TypeOK, Question
      <4> QED BY <1>0, <2>4, <3>1, <4>1 DEF LocalFound
    <3>2. CASE q \notin loaded
      <4>1. w = Loader /\ q.qname = n /\ q.qtype = nu[w].qtype
        <5>1. loaded' = IF w = Loader THEN loaded \cup {[qname |-> n, qtype |-> nu[w].qtype]} ELSE loaded
          BY <1>6, Zenon DEF UpdateMsg, n
        <5>2. w = Loader /\ q = [qname |-> n, qtype |-> nu[w].qtype]
          BY <2>5, <3>2, <5>1
        <5> QED BY <5>2
      <4>2. n \in Name /\ a = v[n][x]
        BY <1>2 DEF n, a
      <4>3. heap[v[n][x]].receivedAt = 0
        BY <1>4, <2>2, <4>1, <4>2
      <4> QED BY <1>0, <2>2, <2>4, <4>1, <4>2, <4>3
    <3> QED BY <3>1, <3>2
  <2>6. ASSUME NEW p \in 1..Len(lru') PROVE heap'[lru'[p]].receivedAt > 0
    <3>1. lru[p] \in AnswerId /\ heap[lru[p]].receivedAt > 0 /\ lru'[p] = lru[p]
      BY <1>0 DEF IInv, TypeOK, LocalFound
    <3> QED BY <2>3, <3>1
  <2> QED BY <2>5, <2>6 DEF LocalFound
<1> QED BY <1>5, <1>6

\* prune takes its answers from lru, where nothing is local.
LEMMA PruneKeepsLocal ==
    ASSUME LocalInv, PruneRemove
    PROVE  LocalFound'
<1>0. IInv /\ LocalFound
  BY DEF LocalInv
<1> DEFINE a == lru[1]
           n == heap[a].qname
<1>1. lru \in Seq(AnswerId) /\ lru # <<>> /\ Len(lru) \in Nat /\ 1 \in 1..Len(lru)
  BY <1>0 DEF PruneRemove, IInv, TypeOK
<1>2. a \in AnswerId /\ heap[a] # Nil /\ heap[a] \in Answer /\ n \in Name
      /\ heap[a].receivedAt > 0
  BY <1>0, <1>1 DEF IInv, TypeOK, LruMatchesMap, Answer, LocalFound
<1>3. PICK z \in 1..Len(v[n]) : v[n][z] = a
  BY <1>0, <1>1 DEF IInv, LruMatchesMap
<1>4. PICK x \in Found(heap[a]) : v' = [v EXCEPT ![n] = SwapRemove(@, x)]
  BY DEF PruneRemove
<1>5. x \in 1..Len(v[n]) /\ heap[v[n][x]].qtype = heap[a].qtype
  BY <1>4 DEF Found
<1>6. v[n][x] = a
  BY <1>0, <1>2, <1>3, <1>5 DEF IInv, AnswersUnique
<1>7. \A b \in AnswerId : b # a => heap'[b] = heap[b]
  BY <1>0 DEF PruneRemove, IInv, TypeOK
<1>8. lru' = RemoveFront(lru) /\ loaded' = loaded
  BY DEF PruneRemove
<1> HIDE DEF a, n
<1>9. v'[n] = SwapRemove(v[n], x) /\ v[n] \in Seq(AnswerId)
      /\ \A k \in Name : k # n => v'[k] = v[k]
  BY <1>0, <1>2, <1>4 DEF IInv, TypeOK
<1>10. ASSUME NEW q \in loaded'
       PROVE  \E y \in 1..Len(v'[q.qname]) :
                 /\ heap'[v'[q.qname][y]].qtype = q.qtype
                 /\ heap'[v'[q.qname][y]].receivedAt = 0
  <2> DEFINE k == q.qname
  <2>1. k \in Name
    BY <1>0, <1>8 DEF IInv, TypeOK, Question
  <2>2. PICK t \in 1..Len(v[k]) :
           heap[v[k][t]].qtype = q.qtype /\ heap[v[k][t]].receivedAt = 0
    BY <1>0, <1>8 DEF LocalFound
  <2>3. v[k][t] # a /\ v[k][t] \in AnswerId
    BY <1>0, <1>2, <2>1, <2>2 DEF IInv, TypeOK
  <2>4. heap'[v[k][t]] = heap[v[k][t]]
    BY <1>7, <2>3
  <2> HIDE DEF k
  <2>5. \E y \in 1..Len(v'[k]) : v'[k][y] = v[k][t]
    <3>1. CASE k = n
      <4>1. t # x /\ t \in 1..Len(v[n])
        BY <1>6, <2>3, <3>1
      <4>2. /\ Len(SwapRemove(v[n], x)) = Len(v[n]) - 1
            /\ \E y \in 1..(Len(v[n]) - 1) : SwapRemove(v[n], x)[y] = v[n][t]
        BY <1>5, <1>9, <4>1, SwapRemoveFacts
      <4> QED BY <1>9, <3>1, <4>2
    <3>2. CASE k # n
      BY <1>9, <2>1, <3>2
    <3> QED BY <3>1, <3>2
  <2> QED BY <2>2, <2>4, <2>5 DEF k
<1>11. ASSUME NEW p \in 1..Len(lru') PROVE heap'[lru'[p]].receivedAt > 0
  <2>1. Len(lru') = Len(lru) - 1 /\ lru'[p] = lru[p + 1]
    BY <1>1, <1>8, RemoveFrontFacts
  <2>2. p + 1 \in 1..Len(lru) /\ p + 1 # 1
    BY <1>1, <2>1
  <2>3. lru[p + 1] \in AnswerId /\ lru[p + 1] # a
    BY <1>0, <1>1, <2>2 DEF a, IInv, LruMatchesMap
  <2> QED BY <1>0, <1>7, <2>1, <2>2, <2>3 DEF LocalFound
<1> QED BY <1>10, <1>11 DEF LocalFound

\* The two phases of the server.
LEMMA PhaseStep ==
    ASSUME LocalInv, [Next]_vars, ReloadWhileServing = FALSE
    PROVE  PhaseOK'
<1>0. IInv /\ PhaseOK /\ TypeOK /\ now \in Nat
  BY DEF LocalInv, IInv, TypeOK
<1>1. CASE Tick
  BY <1>0, <1>1 DEF PhaseOK, Tick
<1>2. CASE ListenAndServe
  BY <1>0, <1>2 DEF PhaseOK, ListenAndServe
<1>3. ASSUME NEW q \in Question, NEW id \in MsgId, LoadRecord(q, id)
      PROVE  PhaseOK'
  <2>1. /\ nu'[Loader].receivedAt = 0
        /\ \A f \in Forwarder : nu'[f] = nu[f]
        /\ ~serving
    BY <1>0, <1>3, ProcessAssumption DEF LoadRecord, NewAnswer, TypeOK, Writer
  <2> QED BY <1>0, <1>3, <2>1 DEF PhaseOK, LoadRecord
<1>4. ASSUME NEW f \in Forwarder, NEW r \in pending, NEW ttl \in TTL, Receive(f, r, ttl)
      PROVE  PhaseOK'
  <2>1. /\ nu'[f].receivedAt = now
        /\ \A w \in Writer : w # f => nu'[w] = nu[w]
        /\ serving
    BY <1>0, <1>4 DEF Receive, NewAnswer, TypeOK, Writer, PhaseOK
  <2>2. Loader \in Writer /\ Loader # f
    BY ProcessAssumption DEF Writer
  <2> QED BY <1>0, <1>4, <2>1, <2>2 DEF PhaseOK, Receive, Writer
<1>5. ASSUME NEW f \in Forwarder, NEW r \in pending, ReceiveNothing(f, r)
      PROVE  PhaseOK'
  BY <1>0, <1>5 DEF PhaseOK, ReceiveNothing
<1>6. ASSUME NEW w \in Writer, NEW a \in AnswerId, Insert(w, a)
      PROVE  PhaseOK'
  <2>1. \A u \in Writer : nu'[u] = nu[u] \/ nu'[u] = Nil
    BY <1>0, <1>6 DEF Insert, TypeOK
  <2>2. ~serving => lru' = lru
    <3>1. ASSUME ~serving PROVE w = Loader /\ nu[w].receivedAt = 0
      BY <1>0, <1>6, <3>1, SMTT(60) DEF Insert, PhaseOK, Writer
    <3> QED BY <1>6, <3>1 DEF Insert
  <2> QED BY <1>0, <1>6, <2>1, <2>2 DEF PhaseOK, Insert, Writer
<1>7. ASSUME NEW w \in Writer, UpdateTimes(w) PROVE PhaseOK'
  <2>1. srv'.pc = srv.pc
    BY <1>0, <1>7 DEF UpdateTimes, TypeOK
  <2> QED BY <1>0, <1>7, <2>1 DEF PhaseOK, UpdateTimes
<1>8. ASSUME NEW w \in Writer, UpdateMsg(w) PROVE PhaseOK'
  <2>1. \A u \in Writer : nu'[u] = nu[u] \/ nu'[u] = Nil
    BY <1>0, <1>8 DEF UpdateMsg, TypeOK
  <2> QED BY <1>0, <1>8, <2>1 DEF PhaseOK, UpdateMsg, Writer
<1>9. ASSUME NEW q \in Question, NEW id \in MsgId, Request(q, id)
      PROVE  PhaseOK'
  BY <1>0, <1>9 DEF PhaseOK, Request
<1>10. CASE ServeNext
  <2>1. srv.pc # "idle" /\ serving' = serving /\ now' = now /\ nu' = nu
    BY <1>10 DEF ServeNext, GetFound, GetMissed, CheckExpired, SetID,
                 CheckLocal, Age, DecreaseTTL, Respond
  <2> QED BY <1>0, <2>1 DEF PhaseOK
<1>11. CASE PruneNext
  <2>1. serving' = serving /\ now' = now /\ nu' = nu /\ pending' = pending /\ srv' = srv
        /\ (lru = <<>> => lru' = lru)
    BY <1>11 DEF PruneNext, PruneBegin, PruneRemove, PruneEnd
  <2> QED BY <1>0, <2>1 DEF PhaseOK
<1>12. CASE UNCHANGED vars
  BY <1>0, <1>12 DEF PhaseOK, vars
<1> QED BY <1>1, <1>2, <1>3, <1>4, <1>5, <1>6, <1>7, <1>8, <1>9, <1>10, <1>11,
           <1>12 DEF Next, WriterNext

\* Every step keeps the loaded questions found.
LEMMA LocalFoundStep ==
    ASSUME LocalInv, [Next]_vars
    PROVE  LocalFound'
<1>0. LocalFound
  BY DEF LocalInv
<1>1. ASSUME heap' = heap, v' = v, lru' = lru, loaded' = loaded PROVE LocalFound'
  BY <1>0, <1>1, LocalUnchanged
<1>2. CASE Tick \/ ListenAndServe \/ PruneBegin \/ PruneEnd \/ UNCHANGED vars
  BY <1>1, <1>2 DEF Tick, ListenAndServe, PruneBegin, PruneEnd, vars
<1>3. CASE WriterNext
  <2>1. ASSUME NEW w \in Writer,
               (\E a \in AnswerId : Insert(w, a)) \/ UpdateTimes(w) \/ UpdateMsg(w)
        PROVE  LocalFound'
    BY <2>1, InsertKeepsLocal, UpdateKeepsLocal
  <2>2. ASSUME NEW q \in Question, NEW id \in MsgId, LoadRecord(q, id)
        PROVE  LocalFound'
    BY <1>1, <2>2 DEF LoadRecord
  <2>3. ASSUME NEW f \in Forwarder, NEW r \in pending,
               (\E ttl \in TTL : Receive(f, r, ttl)) \/ ReceiveNothing(f, r)
        PROVE  LocalFound'
    BY <1>1, <2>3 DEF Receive, ReceiveNothing
  <2> QED BY <1>3, <2>1, <2>2, <2>3 DEF WriterNext
<1>4. CASE \E q \in Question, id \in MsgId : Request(q, id)
  BY <1>1, <1>4 DEF Request
<1>5. CASE ServeNext
  BY <1>5, ServeKeepsLocal
<1>6. CASE PruneRemove
  BY <1>6, PruneKeepsLocal
<1> QED BY <1>2, <1>3, <1>4, <1>5, <1>6 DEF Next, PruneNext

\* The two phases and the local answers, in the initial state and a step.
LEMMA InitLocalInv == Init => LocalInv
<1> SUFFICES ASSUME Init PROVE LocalInv
  OBVIOUS
<1>1. LocalFound
  BY DEF Init, LocalFound
<1>2. PhaseOK
  BY IdleFacts DEF Init, PhaseOK, Writer
<1> QED BY <1>1, <1>2, InitIInv DEF LocalInv

\* See InitLocalInv.
LEMMA NextLocalInv ==
    ASSUME ReloadWhileServing = FALSE, LocalInv, [Next]_vars
    PROVE  LocalInv'
BY NextIInv, LocalFoundStep, PhaseStep DEF LocalInv

\* "Local caches will never get pruned" (server.go:55) is true of a server
\* that loads its hosts and zone files before ListenAndServe.
THEOREM LocalAnswersKept ==
    ASSUME ReloadWhileServing = FALSE
    PROVE  Spec => []LocalNeverPruned
<1>1. Init => LocalInv
  BY InitLocalInv
<1>2. LocalInv /\ [Next]_vars => LocalInv'
  BY NextLocalInv
<1>3. LocalInv => LocalNeverPruned
  BY DEF LocalInv, LocalFound, LocalNeverPruned, NotFound
<1> QED BY <1>1, <1>2, <1>3, PTL DEF Spec

-----------------------------------------------------------------------------
(* Time: what processRequest holds is not pruned and not overstated. *)

\* The clock and the times that the goroutines hold.  A forwarder upserts
\* what it received at most StepMax seconds ago; prune removes what nobody
\* has used for PruneThreshold seconds; an answer in hand that is not local
\* is in the map, and was used at most StepMax seconds before processRequest
\* got it.
ClockInv ==
    /\ now > 0
    /\ nu[Loader] # Nil => nu[Loader].receivedAt = 0
    /\ \A f \in Forwarder : nu[f] # Nil =>
          /\ nu[f].accessedAt = nu[f].receivedAt /\ nu[f].receivedAt > 0
          /\ nu[f].receivedAt <= now /\ now <= nu[f].receivedAt + StepMax
    /\ lock = Pruner => exp + PruneThreshold <= now
    /\ srv.an # Nil => srv.at <= now /\ now <= srv.at + StepMax
    /\ srv.an # Nil /\ heap[srv.an].receivedAt > 0 =>
          InMap(srv.an) /\ srv.at <= heap[srv.an].accessedAt + StepMax

\* The TTL of an answer counts from its receipt.
Fresh(a) ==
    heap[a].receivedAt > 0 =>
        /\ heap[a].receivedAt <= now
        /\ heap[a].msg.ttl = 0
           \/ heap[a].receivedAt + heap[a].msg.ttl <= heap[a].msg.expires

\* A writer is between the two halves of answer.update of the answer.
InUpdate(a) ==
    /\ lock \in Writer
    /\ heap[a].qname = nu[lock].qname /\ heap[a].qtype = nu[lock].qtype

\* The receipt of an answer of the map is that of its message.
Timed(a) ==
    IF InUpdate(a) THEN heap[a].receivedAt \in {0, nu[lock].receivedAt} ELSE Fresh(a)

MapTimed == \A a \in AnswerId : InMap(a) => Timed(a)

\* What a forwarder received expires when its TTL is over.
NuTimed ==
    \A f \in Forwarder : nu[f] # Nil => nu[f].msg.expires = nu[f].receivedAt + nu[f].msg.ttl

\* The answer in hand is fresh, unless an update has touched it, and ages by
\* the seconds since its receipt.
HandTimed ==
    /\ srv.pc = "sub" => srv.sub >= 0
    /\ srv.an # Nil /\ ~srv.raced =>
          /\ Fresh(srv.an)
          /\ heap[srv.an].receivedAt > 0 => ~InUpdate(srv.an)
          /\ srv.pc = "sub" /\ heap[srv.an].receivedAt > 0 =>
                srv.sub = heap[srv.an].accessedAt - heap[srv.an].receivedAt

FreshInv == NuTimed /\ MapTimed /\ HandTimed /\ TTLNotOverstated

\* What get returned stays in the map until processRequest lets it go.
HandInMap == srv.an # Nil => InMap(srv.an)

TimeInv == IInv /\ ClockInv /\ FreshInv

\* The types of an answer of the map.
LEMMA MapTyped ==
    ASSUME IInv, NEW a \in AnswerId, InMap(a)
    PROVE  /\ heap[a] \in Answer /\ heap[a].msg \in Message
           /\ heap[a].qname \in Name
           /\ \E x \in 1..Len(v[heap[a].qname]) : v[heap[a].qname][x] = a
           /\ heap[a].receivedAt \in Nat /\ heap[a].accessedAt \in Nat
           /\ heap[a].msg.ttl \in Nat /\ heap[a].msg.expires \in Nat
<1>1. /\ heap[a] \in Answer /\ heap[a].msg \in Message
      /\ \E x \in 1..Len(v[heap[a].qname]) : v[heap[a].qname][x] = a
  BY DEF IInv, TypeOK, AnswersUnique, Answer, InMap
<1> QED BY <1>1 DEF Answer, Message

\* The types of the answer in hand.
LEMMA HandTyped ==
    ASSUME IInv, srv.an # Nil
    PROVE  /\ srv.an \in AnswerId /\ heap[srv.an] \in Answer /\ heap[srv.an] # Nil
           /\ heap[srv.an].receivedAt \in Nat /\ heap[srv.an].accessedAt \in Nat
           /\ srv.pc \notin {"idle", "get"}
<1>1. srv.an \in AnswerId /\ heap[srv.an] \in Answer /\ heap[srv.an] # Nil
  BY DEF IInv, TypeOK, SrvOK
<1> QED BY <1>1 DEF IInv, SrvOK, Answer

\* The types of the answer that a writer has.
LEMMA NuTyped ==
    ASSUME IInv, NEW w \in Writer, nu[w] # Nil
    PROVE  /\ nu[w] \in Answer /\ nu[w].qname \in Name
           /\ nu[w].receivedAt \in Nat /\ nu[w].accessedAt \in Nat
           /\ nu[w].msg \in Message /\ nu[w].msg.ttl \in Nat /\ nu[w].msg.expires \in Nat
<1>1. nu[w] \in Answer /\ nu[w].msg \in Message
  BY DEF IInv, TypeOK, NuOK, Answer
<1> QED BY <1>1 DEF Answer, Message

\* The clock, the bounds and the integers of processRequest.
LEMMA TimeTyped ==
    ASSUME IInv
    PROVE  /\ now \in Nat /\ exp \in Int /\ srv.at \in Nat /\ srv.sub \in Int
           /\ StepMax \in Nat /\ PruneThreshold \in Nat /\ 2 * StepMax < PruneThreshold
BY TimeAssumption DEF IInv, TypeOK

\* A step that moves no time keeps the times in order, when the answer in
\* hand is received when it was and is used no earlier.
LEMMA ClockKept ==
    ASSUME IInv, IInv', ClockInv, now' = now, nu' = nu, exp' = exp,
           lock' = Pruner => lock = Pruner,
           srv'.an = srv.an, srv'.at = srv.at,
           srv.an # Nil /\ heap'[srv.an].receivedAt > 0 =>
              /\ heap[srv.an].receivedAt > 0
              /\ \/ heap'[srv.an].accessedAt >= heap[srv.an].accessedAt
                 \/ heap'[srv.an].accessedAt >= now
              /\ InMap(srv.an) => InMap(srv.an)'
    PROVE  ClockInv'
<1>1. srv.an # Nil /\ heap'[srv.an].receivedAt > 0 =>
         InMap(srv.an)' /\ srv.at <= heap'[srv.an].accessedAt + StepMax
  <2> SUFFICES ASSUME srv.an # Nil, heap'[srv.an].receivedAt > 0
               PROVE  InMap(srv.an)' /\ srv.at <= heap'[srv.an].accessedAt + StepMax
    OBVIOUS
  <2>1. InMap(srv.an) /\ srv.at <= heap[srv.an].accessedAt + StepMax /\ srv.at <= now
    BY DEF ClockInv
  <2>2. heap[srv.an].accessedAt \in Nat
    BY HandTyped
  <2>3. heap'[srv.an].accessedAt \in Nat
    <3>1. srv'.an # Nil => heap'[srv'.an] \in Answer
      BY DEF IInv, TypeOK, SrvOK
    <3> QED BY <3>1 DEF Answer
  <2> QED BY <2>1, <2>2, <2>3, TimeTyped
<1> QED BY <1>1 DEF ClockInv, InMap

\* What a step may do to an answer that stays as fresh as it was.
Keeps(a) ==
    /\ heap'[a].qname = heap[a].qname /\ heap'[a].qtype = heap[a].qtype
    /\ heap'[a].receivedAt = heap[a].receivedAt
    /\ heap'[a].msg.ttl \in Nat /\ heap'[a].msg.ttl <= heap[a].msg.ttl
    /\ heap'[a].msg.expires = heap[a].msg.expires

\* An answer stays timed when its message loses TTL at most.
LEMMA TimedKept ==
    ASSUME IInv, now' = now, nu' = nu, lock' = lock,
           NEW a \in AnswerId, InMap(a), Timed(a), Keeps(a)
    PROVE  Timed(a)'
<1>1. IF InUpdate(a) THEN heap[a].receivedAt \in {0, nu[lock].receivedAt} ELSE Fresh(a)
  BY DEF Timed
<1>2. /\ heap[a].receivedAt \in Nat /\ heap[a].msg.ttl \in Nat
      /\ heap[a].msg.expires \in Nat
  BY MapTyped
<1>3. now \in Nat
  BY TimeTyped
<1>6. InUpdate(a)' <=> InUpdate(a)
  BY DEF InUpdate, Keeps
<1>7. Fresh(a) => Fresh(a)'
  BY <1>2, <1>3 DEF Fresh, Keeps
<1> QED BY <1>1, <1>6, <1>7 DEF Timed, Keeps

\* The answers of the map stay timed when each of them does.
LEMMA MapKept ==
    ASSUME IInv, MapTimed, now' = now, nu' = nu, lock' = lock,
           \A a \in AnswerId : InMap(a)' => InMap(a) /\ (heap'[a] = heap[a] \/ Keeps(a))
    PROVE  MapTimed'
<1> SUFFICES ASSUME NEW a \in AnswerId, InMap(a)' PROVE Timed(a)'
  BY DEF MapTimed
<1>1. InMap(a) /\ Timed(a)
  BY DEF MapTimed
<1>2. CASE Keeps(a)
  BY <1>1, <1>2, TimedKept
<1>3. CASE heap'[a] = heap[a]
  <2>1. Keeps(a)
    BY <1>1, <1>3, MapTyped DEF Keeps
  <2> QED BY <1>1, <2>1, TimedKept
<1> QED BY <1>2, <1>3

\* While no writer is inside answer.update, every answer of the map is fresh.
LEMMA AllFresh ==
    ASSUME IInv, MapTimed, lock \notin Writer, NEW a \in AnswerId, InMap(a)
    PROVE  Fresh(a)
BY DEF MapTimed, Timed, InUpdate

\* An answer of the map was received before now, in an update or not.
LEMMA ReceivedBefore ==
    ASSUME TimeInv, NEW a \in AnswerId, InMap(a)
    PROVE  heap[a].receivedAt <= now
<1>0. IInv /\ ClockInv /\ Timed(a) /\ heap[a].receivedAt \in Nat /\ now \in Nat
  BY MapTyped, TimeTyped DEF TimeInv, FreshInv, MapTimed
<1>1. CASE ~InUpdate(a)
  BY <1>0, <1>1 DEF Timed, Fresh
<1>2. CASE InUpdate(a)
  <2>1. lock \in Writer /\ nu[lock] # Nil
    BY <1>0, <1>2 DEF InUpdate, IInv, NuOK
  <2>2. nu[lock].receivedAt <= now
    BY <1>0, <2>1 DEF ClockInv, Writer
  <2> QED BY <1>0, <1>2, <2>2 DEF Timed
<1> QED BY <1>1, <1>2

\* A second passes.
LEMMA TickTimed ==
    ASSUME TimeInv, IInv', Tick
    PROVE  ClockInv' /\ FreshInv'
<1>0. /\ IInv /\ ClockInv /\ FreshInv /\ now' = now + 1 /\ Timely
      /\ UNCHANGED <<heap, v, lru, lock, nu, exp, srv, pending, serving, loaded>>
  BY DEF TimeInv, Tick
<1>1. /\ now \in Nat /\ exp \in Int /\ srv.at \in Nat /\ srv.sub \in Int
      /\ StepMax \in Nat /\ PruneThreshold \in Nat
  BY <1>0, TimeTyped
<1>2. srv.an # Nil => now < srv.at + StepMax
  BY <1>0, HandTyped DEF Timely
<1>3. \A f \in Forwarder : nu[f] # Nil => nu[f].receivedAt \in Nat /\ now < nu[f].receivedAt + StepMax
  BY <1>0, NuTyped DEF Timely, Writer
<1>4. \A a : InMap(a)' <=> InMap(a)
  BY <1>0 DEF InMap
<1>5. srv.an # Nil /\ heap[srv.an].receivedAt > 0 =>
         InMap(srv.an)' /\ srv.at <= heap[srv.an].accessedAt + StepMax
  BY <1>0, <1>4 DEF ClockInv
<1>6. ClockInv'
  BY <1>0, <1>1, <1>2, <1>3, <1>5 DEF ClockInv
<1>7. ASSUME NEW a, heap[a].receivedAt \in Nat, Fresh(a) PROVE Fresh(a)'
  BY <1>0, <1>1, <1>7 DEF Fresh
<1>8. \A a : InUpdate(a)' <=> InUpdate(a)
  BY <1>0 DEF InUpdate
<1>9. MapTimed'
  <2> SUFFICES ASSUME NEW a \in AnswerId, InMap(a)' PROVE Timed(a)'
    BY DEF MapTimed
  <2>1. Timed(a) /\ heap[a].receivedAt \in Nat
    BY <1>0, <1>4, MapTyped DEF FreshInv, MapTimed
  <2> QED BY <1>0, <1>7, <1>8, <2>1 DEF Timed
<1>10. NuTimed' /\ TTLNotOverstated'
  BY <1>0 DEF FreshInv, NuTimed, TTLNotOverstated, Msg
<1>11. srv.an # Nil /\ ~srv.raced => Fresh(srv.an)'
  <2> SUFFICES ASSUME srv.an # Nil, ~srv.raced PROVE Fresh(srv.an)'
    OBVIOUS
  <2>1. Fresh(srv.an) /\ heap[srv.an].receivedAt \in Nat
    BY <1>0, HandTyped DEF FreshInv, HandTimed
  <2> QED BY <1>0, <1>1, <2>1 DEF Fresh
<1>12. InUpdate(srv.an)' <=> InUpdate(srv.an)
  BY <1>0 DEF InUpdate
<1>13. HandTimed'
  BY <1>0, <1>11, <1>12 DEF FreshInv, HandTimed
<1> QED BY <1>6, <1>9, <1>10, <1>13 DEF FreshInv

\* A step that leaves alone all that the times speak of.
LEMMA TimeKept ==
    ASSUME TimeInv, UNCHANGED <<now, heap, v, lock, nu, exp, srv>>
    PROVE  ClockInv' /\ FreshInv'
BY DEF TimeInv, ClockInv, FreshInv, NuTimed, MapTimed, HandTimed, TTLNotOverstated, Timed,
       Fresh, InUpdate, InMap, Msg

\* A writer that has no answer yet gets one: no update is in progress in it.
LEMMA NewNuTimed ==
    ASSUME TimeInv, IInv', NEW w \in Writer, nu[w] = Nil, NEW new,
           nu' = [nu EXCEPT ![w] = new],
           w = Loader => new.receivedAt = 0,
           w # Loader => /\ new.receivedAt = now /\ new.accessedAt = now
                         /\ new.msg.expires = now + new.msg.ttl,
           UNCHANGED <<now, heap, v, lock, exp, srv>>
    PROVE  ClockInv' /\ FreshInv'
<1>0. IInv /\ ClockInv /\ FreshInv
  BY DEF TimeInv
<1>1. nu'[w] = new /\ \A u \in Writer : u # w => nu'[u] = nu[u]
  BY <1>0 DEF IInv, TypeOK
<1>2. lock # w /\ (lock \in Writer => nu'[lock] = nu[lock])
  BY <1>0, <1>1 DEF IInv, NuOK
<1>3. \A a : (InMap(a)' <=> InMap(a)) /\ (InUpdate(a)' <=> InUpdate(a)) /\ (Fresh(a)' <=> Fresh(a))
  BY <1>2 DEF InMap, InUpdate, Fresh
<1>4. /\ InMap(srv.an)' <=> InMap(srv.an)
      /\ InUpdate(srv.an)' <=> InUpdate(srv.an)
      /\ Fresh(srv.an)' <=> Fresh(srv.an)
  BY <1>2 DEF InMap, InUpdate, Fresh
<1>5. now \in Nat /\ StepMax \in Nat
  BY <1>0, TimeTyped
<1>6. Loader \in Writer /\ \A f \in Forwarder : f \in Writer /\ f # Loader
  BY ProcessAssumption DEF Writer
<1>7. ClockInv'
  <2>1. nu'[Loader] # Nil => nu'[Loader].receivedAt = 0
    BY <1>0, <1>1, <1>6 DEF ClockInv
  <2>2. ASSUME NEW f \in Forwarder, nu'[f] # Nil
        PROVE  /\ nu'[f].accessedAt = nu'[f].receivedAt /\ nu'[f].receivedAt > 0
               /\ nu'[f].receivedAt <= now /\ now <= nu'[f].receivedAt + StepMax
    BY <1>0, <1>1, <1>5, <1>6, <2>2 DEF ClockInv
  <2> QED BY <1>0, <1>4, <2>1, <2>2 DEF ClockInv
<1>8. NuTimed'
  BY <1>0, <1>1, <1>6 DEF FreshInv, NuTimed
<1>9. MapTimed'
  BY <1>0, <1>2, <1>3 DEF FreshInv, MapTimed, Timed, InUpdate
<1>10. HandTimed' /\ TTLNotOverstated'
  BY <1>0, <1>4 DEF FreshInv, HandTimed, TTLNotOverstated, Msg
<1> QED BY <1>7, <1>8, <1>9, <1>10 DEF FreshInv

\* A record of a file, or a response, becomes an answer.
LEMMA NewAnswerTimed ==
    ASSUME TimeInv, IInv',
           \/ \E q \in Question, id \in MsgId : LoadRecord(q, id)
           \/ \E f \in Forwarder, r \in pending, ttl \in TTL : Receive(f, r, ttl)
    PROVE  ClockInv' /\ FreshInv'
<1>1. ASSUME NEW q \in Question, NEW id \in MsgId, LoadRecord(q, id)
      PROVE  ClockInv' /\ FreshInv'
  <2> DEFINE new == NewAnswer(q, [id |-> id, ttl |-> LocalTTL, expires |-> 0], 0)
  <2>1. new.receivedAt = 0
    BY DEF NewAnswer
  <2>2. /\ nu[Loader] = Nil /\ nu' = [nu EXCEPT ![Loader] = new]
        /\ UNCHANGED <<now, heap, v, lock, exp, srv>>
    BY <1>1 DEF LoadRecord
  <2>3. Loader \in Writer
    BY DEF Writer
  <2> HIDE DEF new
  <2> QED BY <2>1, <2>2, <2>3, NewNuTimed
<1>2. ASSUME NEW f \in Forwarder, NEW r \in pending, NEW ttl \in TTL, Receive(f, r, ttl)
      PROVE  ClockInv' /\ FreshInv'
  <2> DEFINE new == NewAnswer(r.q, [id |-> r.id, ttl |-> ttl, expires |-> now + ttl], now)
  <2>1. /\ new.receivedAt = now /\ new.accessedAt = now
        /\ new.msg.expires = now + new.msg.ttl
    BY DEF NewAnswer
  <2>2. /\ nu[f] = Nil /\ nu' = [nu EXCEPT ![f] = new]
        /\ UNCHANGED <<now, heap, v, lock, exp, srv>>
    BY <1>2 DEF Receive
  <2>3. f \in Writer /\ f # Loader
    BY ProcessAssumption DEF Writer
  <2> HIDE DEF new
  <2> QED BY <2>1, <2>2, <2>3, NewNuTimed
<1> QED BY <1>1, <1>2

\* The answer that a writer has is fresh, when it is not local.
LEMMA NuFresh ==
    ASSUME TimeInv, NEW w \in Writer, nu[w] # Nil, nu[w].receivedAt > 0
    PROVE  /\ nu[w].accessedAt = nu[w].receivedAt /\ nu[w].receivedAt <= now
           /\ now <= nu[w].receivedAt + StepMax
           /\ nu[w].msg.expires = nu[w].receivedAt + nu[w].msg.ttl
<1>1. IInv /\ ClockInv /\ FreshInv /\ nu[w].receivedAt \in Nat
  BY NuTyped DEF TimeInv
<1>2. w \in Forwarder
  BY <1>1 DEF Writer, ClockInv
<1> QED BY <1>1, <1>2 DEF ClockInv, FreshInv, NuTimed

\* A writer that is done has no answer any more.
LEMMA NuDone ==
    ASSUME TimeInv, NEW w \in Writer, nu' = [nu EXCEPT ![w] = Nil], now' = now
    PROVE  /\ NuTimed'
           /\ nu'[Loader] # Nil => nu'[Loader].receivedAt = 0
           /\ \A f \in Forwarder : nu'[f] # Nil =>
                 /\ nu'[f].accessedAt = nu'[f].receivedAt /\ nu'[f].receivedAt > 0
                 /\ nu'[f].receivedAt <= now /\ now <= nu'[f].receivedAt + StepMax
<1>1. \A u \in Writer : nu'[u] = nu[u] \/ nu'[u] = Nil
  BY DEF TimeInv, IInv, TypeOK
<1> QED BY <1>1 DEF TimeInv, ClockInv, FreshInv, NuTimed, Writer

\* caches.upsert puts a new answer into the map.
LEMMA InsertTimed ==
    ASSUME TimeInv, IInv', NEW w \in Writer, NEW a \in AnswerId, Insert(w, a)
    PROVE  ClockInv' /\ FreshInv'
<1>0. IInv /\ ClockInv /\ FreshInv
  BY DEF TimeInv
<1>1. /\ lock = Nil /\ nu[w] # Nil /\ heap[a] = Nil
      /\ heap' = [heap EXCEPT ![a] = nu[w]]
      /\ v' = [v EXCEPT ![nu[w].qname] = Append(@, a)]
      /\ nu' = [nu EXCEPT ![w] = Nil]
      /\ UNCHANGED <<now, lock, exp, srv>>
  BY DEF Insert
<1>2. heap'[a] = nu[w] /\ \A b \in AnswerId : b # a => heap'[b] = heap[b]
  BY <1>0, <1>1 DEF IInv, TypeOK
<1>3. /\ nu[w].qname \in Name /\ nu[w].receivedAt \in Nat /\ nu[w].msg.ttl \in Nat
      /\ now \in Nat
  BY <1>0, <1>1, NuTyped, TimeTyped
<1>4. ASSUME NEW b \in AnswerId, InMap(b)' PROVE b = a \/ InMap(b)
  <2>0. PICK n \in Name : \E x \in 1..Len(v'[n]) : v'[n][x] = b
    BY <1>4 DEF InMap
  <2>1. PICK x \in 1..Len(v'[n]) : v'[n][x] = b
    BY <2>0
  <2>2. v[n] \in Seq(AnswerId)
    BY <1>0 DEF IInv, TypeOK
  <2>3. CASE n # nu[w].qname
    BY <1>0, <1>1, <2>1, <2>3 DEF InMap, IInv, TypeOK
  <2>4. CASE n = nu[w].qname
    <3>1. v'[n] = Append(v[n], a)
      BY <1>0, <1>1, <1>3, <2>4 DEF IInv, TypeOK
    <3>2. CASE x \in 1..Len(v[n])
      BY <2>1, <2>2, <3>1, <3>2 DEF InMap
    <3>3. CASE x \notin 1..Len(v[n])
      BY <2>1, <2>2, <3>1, <3>3
    <3> QED BY <3>2, <3>3
  <2> QED BY <2>3, <2>4
<1>5. ASSUME NEW b \in AnswerId, InMap(b) PROVE InMap(b)'
  <2>0. PICK n \in Name : \E x \in 1..Len(v[n]) : v[n][x] = b
    BY <1>5 DEF InMap
  <2>1. PICK x \in 1..Len(v[n]) : v[n][x] = b
    BY <2>0
  <2>2. v[n] \in Seq(AnswerId)
    BY <1>0 DEF IInv, TypeOK
  <2>3. x \in 1..Len(v'[n]) /\ v'[n][x] = b
    <3>1. v'[n] = v[n] \/ v'[n] = Append(v[n], a)
      BY <1>0, <1>1, <1>3 DEF IInv, TypeOK
    <3> QED BY <2>1, <2>2, <3>1
  <2> QED BY <2>3 DEF InMap
<1>6. lock \notin Writer
  BY <1>1, NilAssumption DEF Writer
<1>7. MapTimed'
  <2> SUFFICES ASSUME NEW b \in AnswerId, InMap(b)' PROVE Timed(b)'
    BY DEF MapTimed
  <2>1. ~InUpdate(b)'
    BY <1>1, <1>6 DEF InUpdate
  <2>2. CASE b = a
    BY <1>1, <1>2, <1>3, <2>1, <2>2, NuFresh DEF Timed, Fresh
  <2>3. CASE b # a
    <3>1. Fresh(b)
      BY <1>0, <1>4, <1>6, <2>3, AllFresh DEF FreshInv
    <3> QED BY <1>1, <1>2, <2>1, <2>3, <3>1 DEF Timed, Fresh
  <2> QED BY <2>2, <2>3
<1>8. srv.an # Nil => /\ srv.an \in AnswerId /\ heap'[srv.an] = heap[srv.an]
                      /\ (InMap(srv.an) => InMap(srv.an)')
  <2> SUFFICES ASSUME srv.an # Nil
               PROVE  /\ srv.an \in AnswerId /\ heap'[srv.an] = heap[srv.an]
                      /\ (InMap(srv.an) => InMap(srv.an)')
    OBVIOUS
  <2>1. srv.an \in AnswerId /\ srv.an # a
    BY <1>0, <1>1, HandTyped
  <2>2. InMap(srv.an) => \E b \in AnswerId : b = srv.an /\ InMap(b)'
    BY <1>5, <2>1
  <2> QED BY <1>1, <1>2, <2>1, <2>2 DEF InMap
<1>9. ClockInv'
  BY <1>0, <1>1, <1>8, NuDone DEF ClockInv
<1>10. ~InUpdate(srv.an)'
  BY <1>1, <1>6 DEF InUpdate
<1>11. HandTimed' /\ TTLNotOverstated'
  <2>1. srv.an = Nil => srv.pc # "respond"
    BY <1>0 DEF IInv, SrvOK
  <2>2. srv.an # Nil /\ ~srv.raced => Fresh(srv.an)'
    BY <1>0, <1>1, <1>8 DEF FreshInv, HandTimed, Fresh
  <2> QED BY <1>0, <1>1, <1>8, <1>10, <2>1, <2>2
          DEF FreshInv, HandTimed, TTLNotOverstated, Msg
<1> QED BY <1>1, <1>7, <1>9, <1>11, NuDone DEF FreshInv

\* Two answers of the map with the same question are one.
LEMMA SameQuestion ==
    ASSUME IInv, NEW a \in AnswerId, NEW b \in AnswerId, InMap(a), InMap(b),
           heap[a].qname = heap[b].qname, heap[a].qtype = heap[b].qtype
    PROVE  a = b
<1>1. /\ heap[a].qname \in Name
      /\ \E x \in 1..Len(v[heap[a].qname]) : v[heap[a].qname][x] = a
      /\ \E x \in 1..Len(v[heap[a].qname]) : v[heap[a].qname][x] = b
  BY MapTyped
<1> QED BY <1>1 DEF IInv, AnswersUnique

\* The answer that answers.get finds has the question that is looked for.
LEMMA FoundAnswer ==
    ASSUME IInv, NEW q, q.qname \in Name, NEW x \in Found(q)
    PROVE  /\ v[q.qname][x] \in AnswerId /\ InMap(v[q.qname][x])
           /\ heap[v[q.qname][x]] \in Answer
           /\ heap[v[q.qname][x]].qname = q.qname /\ heap[v[q.qname][x]].qtype = q.qtype
BY DEF Found, InMap, IInv, TypeOK, AnswersUnique

\* The first half of answer.update: the answer in hand, if it is the one, is
\* raced from now on; every other answer stays fresh.
LEMMA UpdateTimesTimed ==
    ASSUME TimeInv, IInv', NEW w \in Writer, UpdateTimes(w)
    PROVE  ClockInv' /\ FreshInv'
<1>0. IInv /\ ClockInv /\ FreshInv
  BY Zenon DEF TimeInv
<1>1. /\ lock = Nil /\ nu[w] # Nil /\ lock' = w
      /\ UNCHANGED <<now, v, lru, nu, exp>>
  BY DEF UpdateTimes
<1>2. /\ nu[w].qname \in Name /\ nu[w].receivedAt \in Nat /\ nu[w].accessedAt \in Nat
      /\ now \in Nat /\ StepMax \in Nat /\ srv.at \in Nat
  BY <1>0, <1>1, NuTyped, TimeTyped
<1>3. PICK a \in AnswerId :
        /\ InMap(a) /\ heap[a] \in Answer
        /\ heap[a].qname = nu[w].qname /\ heap[a].qtype = nu[w].qtype
        /\ heap' = IF heap[a].receivedAt > 0
                   THEN [heap EXCEPT ![a].receivedAt = nu[w].receivedAt,
                                     ![a].accessedAt = nu[w].accessedAt]
                   ELSE heap
        /\ srv' = [srv EXCEPT !.raced = @ \/ srv.an = a]
  <2>1. PICK x \in Found(nu[w]) :
          /\ heap' = IF heap[v[nu[w].qname][x]].receivedAt > 0
                     THEN [heap EXCEPT
                             ![v[nu[w].qname][x]].receivedAt = nu[w].receivedAt,
                             ![v[nu[w].qname][x]].accessedAt = nu[w].accessedAt]
                     ELSE heap
          /\ srv' = [srv EXCEPT !.raced = @ \/ srv.an = v[nu[w].qname][x]]
    BY DEF UpdateTimes
  <2> DEFINE b == v[nu[w].qname][x]
  <2>2. /\ b \in AnswerId /\ InMap(b) /\ heap[b] \in Answer
        /\ heap[b].qname = nu[w].qname /\ heap[b].qtype = nu[w].qtype
    BY <1>0, <1>2, FoundAnswer
  <2> QED BY <2>1, <2>2
<1>4. /\ heap'[a].qname = heap[a].qname /\ heap'[a].qtype = heap[a].qtype
      /\ heap[a].receivedAt \in Nat
      /\ \A b \in AnswerId : b # a => heap'[b] = heap[b]
      /\ IF heap[a].receivedAt > 0
         THEN heap'[a].receivedAt = nu[w].receivedAt /\ heap'[a].accessedAt = nu[w].accessedAt
         ELSE heap'[a] = heap[a]
  BY <1>0, <1>3 DEF IInv, TypeOK, Answer
<1>5. /\ srv'.pc = srv.pc /\ srv'.an = srv.an /\ srv'.at = srv.at /\ srv'.sub = srv.sub
      /\ ~srv'.raced => ~srv.raced /\ srv.an # a
  BY <1>0, <1>3 DEF IInv, TypeOK
<1>6. lock \notin Writer
  BY <1>1, NilAssumption DEF Writer
<1>7. \A b : InMap(b)' <=> InMap(b)
  BY <1>1 DEF InMap
<1>8. InMap(srv.an)' <=> InMap(srv.an)
  BY <1>1, <1>5 DEF InMap
<1>9. ClockInv'
  <2>1. srv.an # Nil => srv.an \in AnswerId /\ heap[srv.an].accessedAt \in Nat
    BY <1>0, HandTyped
  <2>2. ASSUME srv.an # Nil, heap'[srv.an].receivedAt > 0
        PROVE  InMap(srv.an) /\ srv.at <= heap'[srv.an].accessedAt + StepMax
    <3>1. CASE srv.an = a
      <4>1. heap[a].receivedAt > 0
        BY <1>4, <2>2, <3>1
      <4>2. heap'[a].accessedAt = nu[w].receivedAt /\ now <= nu[w].receivedAt + StepMax
        BY <1>1, <1>4, <2>2, <3>1, <4>1, NuFresh
      <4>3. srv.at <= now
        BY <1>0, <2>2 DEF ClockInv
      <4> QED BY <1>2, <1>3, <3>1, <4>2, <4>3
    <3>2. CASE srv.an # a
      BY <1>0, <1>4, <2>1, <2>2, <3>2 DEF ClockInv
    <3> QED BY <3>1, <3>2
  <2>3. lock' # Pruner
    BY <1>1, ProcessAssumption DEF Writer
  <2> QED BY <1>0, <1>1, <1>5, <1>8, <2>2, <2>3 DEF ClockInv
<1>10. MapTimed'
  <2> SUFFICES ASSUME NEW b \in AnswerId, InMap(b) PROVE Timed(b)'
    BY <1>7 DEF MapTimed
  <2>1. CASE b = a
    <3>1. InUpdate(b)' /\ heap'[b].receivedAt \in {0, nu[w].receivedAt}
      BY <1>1, <1>3, <1>4, <2>1 DEF InUpdate
    <3> QED BY <1>1, <3>1 DEF Timed
  <2>2. CASE b # a
    <3>1. ~(heap[b].qname = nu[w].qname /\ heap[b].qtype = nu[w].qtype)
      BY <1>0, <1>3, <2>2, SameQuestion
    <3>2. Fresh(b) /\ heap'[b] = heap[b]
      BY <1>0, <1>4, <1>6, <2>2, AllFresh DEF FreshInv
    <3>3. ~InUpdate(b)' /\ Fresh(b)'
      BY <1>1, <3>1, <3>2 DEF InUpdate, Fresh
    <3> QED BY <3>3 DEF Timed
  <2> QED BY <2>1, <2>2
<1>11. ASSUME srv'.an # Nil, ~srv'.raced
       PROVE  /\ heap'[srv.an] = heap[srv.an] /\ Fresh(srv.an)'
              /\ heap[srv.an].receivedAt > 0 => ~InUpdate(srv.an)'
  <2>1. srv.an \in AnswerId /\ srv.an # a /\ ~srv.raced /\ srv.an # Nil
    BY <1>0, <1>5, <1>11, HandTyped
  <2>2. heap'[srv.an] = heap[srv.an] /\ Fresh(srv.an)
    BY <1>0, <1>4, <2>1 DEF FreshInv, HandTimed
  <2>3. Fresh(srv.an)'
    BY <1>1, <1>5, <2>2 DEF Fresh
  <2>4. ASSUME heap[srv.an].receivedAt > 0 PROVE ~InUpdate(srv.an)'
    <3>1. InMap(srv.an)
      BY <1>0, <2>1, <2>4 DEF ClockInv
    <3>2. ~(heap[srv.an].qname = nu[w].qname /\ heap[srv.an].qtype = nu[w].qtype)
      BY <1>0, <1>3, <2>1, <3>1, SameQuestion
    <3> QED BY <1>1, <1>5, <2>2, <3>2 DEF InUpdate
  <2> QED BY <2>2, <2>3, <2>4
<1>12. HandTimed'
  BY <1>0, <1>5, <1>11 DEF FreshInv, HandTimed
<1>13. TTLNotOverstated'
  <2>1. srv.pc = "respond" => srv.an # Nil
    BY <1>0 DEF IInv, SrvOK
  <2> QED BY <1>0, <1>5, <1>11, <2>1 DEF FreshInv, TTLNotOverstated, Msg
<1>14. NuTimed'
  BY <1>0, <1>1 DEF FreshInv, NuTimed
<1> QED BY <1>9, <1>10, <1>12, <1>13, <1>14 DEF FreshInv

\* The second half: the message that belongs to the times.
LEMMA UpdateMsgTimed ==
    ASSUME TimeInv, IInv', NEW w \in Writer, UpdateMsg(w)
    PROVE  ClockInv' /\ FreshInv'
<1>0. IInv /\ ClockInv /\ FreshInv
  BY DEF TimeInv
<1>1. /\ lock = w /\ lock' = Nil /\ nu' = [nu EXCEPT ![w] = Nil] /\ nu[w] # Nil
      /\ UNCHANGED <<now, v, lru, exp, srv>>
  BY <1>0 DEF UpdateMsg, IInv, NuOK
<1>2. /\ nu[w].qname \in Name /\ nu[w].receivedAt \in Nat /\ nu[w].msg.ttl \in Nat
      /\ now \in Nat
  BY <1>0, <1>1, NuTyped, TimeTyped, SMTT(60)
<1>3. PICK a \in AnswerId :
        /\ InMap(a) /\ heap[a] \in Answer
        /\ heap[a].qname = nu[w].qname /\ heap[a].qtype = nu[w].qtype
        /\ heap' = [heap EXCEPT ![a].msg = nu[w].msg]
  <2>1. PICK x \in Found(nu[w]) : heap' = [heap EXCEPT ![v[nu[w].qname][x]].msg = nu[w].msg]
    BY DEF UpdateMsg
  <2> DEFINE b == v[nu[w].qname][x]
  <2>2. /\ b \in AnswerId /\ InMap(b) /\ heap[b] \in Answer
        /\ heap[b].qname = nu[w].qname /\ heap[b].qtype = nu[w].qtype
    BY <1>0, <1>2, FoundAnswer
  <2> QED BY <2>1, <2>2
<1>4. /\ heap'[a].receivedAt = heap[a].receivedAt /\ heap'[a].accessedAt = heap[a].accessedAt
      /\ heap'[a].msg = nu[w].msg /\ heap[a].receivedAt \in Nat
      /\ \A b \in AnswerId : b # a => heap'[b] = heap[b]
  BY <1>0, <1>3 DEF IInv, TypeOK, Answer
<1>5. InUpdate(a)
  BY <1>1, <1>3 DEF InUpdate
<1>6. \A b : InMap(b)' <=> InMap(b)
  BY <1>1 DEF InMap
<1>7. InMap(srv.an)' <=> InMap(srv.an)
  BY <1>1 DEF InMap
<1>8. /\ lock' # Pruner /\ lock' \notin Writer
  BY <1>1, NilAssumption DEF Writer
<1>9. ClockInv'
  <2>1. srv.an # Nil => srv.an \in AnswerId
    BY <1>0, HandTyped
  <2>2. srv.an # Nil => /\ heap'[srv.an].receivedAt = heap[srv.an].receivedAt
                        /\ heap'[srv.an].accessedAt = heap[srv.an].accessedAt
    BY <1>4, <2>1
  <2> QED BY <1>0, <1>1, <1>7, <1>8, <2>2, NuDone DEF ClockInv
<1>10. MapTimed'
  <2> SUFFICES ASSUME NEW b \in AnswerId, InMap(b) PROVE Timed(b)'
    BY <1>6 DEF MapTimed
  <2>1. ~InUpdate(b)'
    BY <1>8 DEF InUpdate
  <2>2. CASE b = a
    <3>1. heap[a].receivedAt \in {0, nu[w].receivedAt}
      BY <1>0, <1>1, <1>3, <1>5 DEF FreshInv, MapTimed, Timed
    <3>2. Fresh(a)'
      BY <1>1, <1>2, <1>4, <3>1, NuFresh DEF Fresh
    <3> QED BY <2>1, <2>2, <3>2 DEF Timed
  <2>3. CASE b # a
    <3>1. ~InUpdate(b)
      BY <1>0, <1>1, <1>3, <2>3, SameQuestion DEF InUpdate
    <3>2. Fresh(b) /\ heap'[b] = heap[b]
      BY <1>0, <1>4, <2>3, <3>1 DEF FreshInv, MapTimed, Timed
    <3>3. Fresh(b)'
      BY <1>1, <3>2 DEF Fresh
    <3> QED BY <2>1, <3>3 DEF Timed
  <2> QED BY <2>2, <2>3
<1>11. ASSUME srv.an # Nil, ~srv.raced, heap[srv.an].receivedAt > 0
       PROVE  heap'[srv.an] = heap[srv.an] /\ Fresh(srv.an)'
  <2>1. srv.an \in AnswerId /\ ~InUpdate(srv.an) /\ Fresh(srv.an)
    BY <1>0, <1>11, HandTyped DEF FreshInv, HandTimed
  <2>2. srv.an # a
    BY <1>5, <2>1
  <2>3. heap'[srv.an] = heap[srv.an]
    BY <1>4, <2>1, <2>2
  <2> QED BY <1>1, <2>1, <2>3 DEF Fresh
<1>12. srv.an # Nil => heap'[srv.an].receivedAt = heap[srv.an].receivedAt
  BY <1>0, <1>4, HandTyped
<1>13. HandTimed'
  <2>1. srv.an # Nil /\ ~srv.raced => Fresh(srv.an)'
    BY <1>1, <1>11, <1>12 DEF Fresh
  <2>2. ~InUpdate(srv.an)'
    BY <1>8 DEF InUpdate
  <2> QED BY <1>0, <1>1, <1>11, <1>12, <2>1, <2>2 DEF FreshInv, HandTimed
<1>14. TTLNotOverstated'
  <2>1. srv.pc = "respond" => srv.an # Nil
    BY <1>0 DEF IInv, SrvOK
  <2> QED BY <1>0, <1>1, <1>11, <1>12, <2>1 DEF FreshInv, TTLNotOverstated, Msg
<1> QED BY <1>1, <1>9, <1>10, <1>13, <1>14, NuDone DEF FreshInv

\* processRequest takes a request, or lets its answer go.
LEMMA NoHandTimed ==
    ASSUME TimeInv, IInv', srv'.an = Nil, srv'.pc \in {"idle", "get"},
           heap' = heap \/ heap' = Release(heap),
           UNCHANGED <<now, v, lock, nu, exp>>
    PROVE  ClockInv' /\ FreshInv'
<1>0. IInv /\ ClockInv /\ FreshInv
  BY DEF TimeInv
<1>1. ASSUME NEW a \in AnswerId, InMap(a)' PROVE InMap(a) /\ heap'[a] = heap[a]
  BY <1>0, <1>1 DEF Release, InMap, IInv, TypeOK
<1>2. MapTimed'
  BY <1>0, <1>1, MapKept DEF FreshInv
<1>3. ClockInv'
  BY <1>0 DEF ClockInv
<1>4. NuTimed' /\ HandTimed' /\ TTLNotOverstated'
  BY <1>0 DEF FreshInv, NuTimed, HandTimed, TTLNotOverstated
<1> QED BY <1>2, <1>3, <1>4 DEF FreshInv

\* caches.get returns an answer: it is used now, and nobody updates it.
LEMMA GetFoundTimed ==
    ASSUME TimeInv, IInv', GetFound
    PROVE  ClockInv' /\ FreshInv'
<1>0. IInv /\ ClockInv /\ FreshInv
  BY Zenon DEF TimeInv
<1>1. srv.pc = "get" /\ lock = Nil /\ UNCHANGED <<now, v, lock, nu, exp>>
  BY DEF GetFound
<1>2. srv.q.qname \in Name /\ now \in Nat /\ StepMax \in Nat
  BY <1>0, <1>1, TimeTyped, SMTT(60) DEF IInv, SrvOK, Question
<1>3. PICK a \in AnswerId :
        /\ InMap(a) /\ heap[a] \in Answer
        /\ srv' = [srv EXCEPT !.pc = "found", !.an = a, !.at = now]
        /\ \/ heap[a].receivedAt > 0 /\ heap' = [heap EXCEPT ![a].accessedAt = now]
           \/ heap[a].receivedAt = 0 /\ heap' = heap
  <2>1. PICK x \in Found(srv.q) :
          /\ srv' = [srv EXCEPT !.pc = "found", !.an = v[srv.q.qname][x], !.at = now]
          /\ \/ /\ heap[v[srv.q.qname][x]].receivedAt > 0
                /\ heap' = [heap EXCEPT ![v[srv.q.qname][x]].accessedAt = now]
             \/ heap[v[srv.q.qname][x]].receivedAt = 0 /\ heap' = heap
    BY DEF GetFound
  <2> DEFINE b == v[srv.q.qname][x]
  <2>2. b \in AnswerId /\ InMap(b) /\ heap[b] \in Answer
    BY <1>0, <1>2, FoundAnswer
  <2> QED BY <2>1, <2>2
<1>4. /\ heap'[a].receivedAt = heap[a].receivedAt /\ heap'[a].msg = heap[a].msg
      /\ heap'[a].qname = heap[a].qname /\ heap'[a].qtype = heap[a].qtype
      /\ heap[a].receivedAt > 0 => heap'[a].accessedAt = now
      /\ heap[a].receivedAt \in Nat
      /\ \A b \in AnswerId : b # a => heap'[b] = heap[b]
  BY <1>0, <1>3 DEF IInv, TypeOK, Answer
<1>5. srv'.pc = "found" /\ srv'.an = a /\ srv'.at = now
  BY <1>0, <1>3 DEF IInv, TypeOK
<1>6. \A b : InMap(b)' <=> InMap(b)
  BY <1>1 DEF InMap
<1>7. ClockInv'
  <2>1. now <= now + StepMax /\ now <= now
    BY <1>2
  <2>2. heap'[srv'.an].receivedAt > 0 => now <= heap'[srv'.an].accessedAt + StepMax
    BY <1>4, <1>5, <2>1
  <2>3. InMap(srv.an)'
    BY <1>1, <1>3, <1>5 DEF InMap
  <2> QED BY <1>0, <1>1, <1>5, <2>1, <2>2, <2>3 DEF ClockInv
<1>8. MapTimed'
  <2>1. /\ heap[a].msg.ttl \in Nat
    BY <1>0, <1>3, MapTyped
  <2>2. Keeps(a)
    BY <1>4, <2>1 DEF Keeps
  <2> QED BY <1>0, <1>1, <1>4, <1>6, <2>2, MapKept DEF FreshInv
<1>9. lock' \notin Writer
  BY <1>1, NilAssumption DEF Writer
<1>10. ~InUpdate(srv.an)'
  BY <1>9 DEF InUpdate
<1>11. Fresh(srv.an)'
  <2>1. Fresh(a)
    BY <1>0, <1>1, <1>3, <1>9, AllFresh DEF FreshInv
  <2> QED BY <1>1, <1>4, <1>5, <2>1 DEF Fresh
<1>12. HandTimed' /\ TTLNotOverstated' /\ NuTimed'
  BY <1>0, <1>1, <1>5, <1>10, <1>11 DEF FreshInv, HandTimed, TTLNotOverstated, NuTimed
<1> QED BY <1>7, <1>8, <1>12 DEF FreshInv

\* processRequest moves on without a change to the answer in hand.
LEMMA MoveOnTimed ==
    ASSUME TimeInv, IInv', NEW p, srv' = [srv EXCEPT !.pc = p], p # "sub",
           p = "respond" => heap[srv.an].receivedAt = 0,
           UNCHANGED <<now, heap, v, lock, nu, exp>>
    PROVE  ClockInv' /\ FreshInv'
<1>0. IInv /\ ClockInv /\ FreshInv
  BY DEF TimeInv
<1>1. /\ srv'.an = srv.an /\ srv'.at = srv.at /\ srv'.pc = p /\ srv'.raced = srv.raced
  BY <1>0 DEF IInv, TypeOK
<1>2. /\ \A b : InMap(b)' <=> InMap(b)
      /\ InMap(srv.an)' <=> InMap(srv.an)
      /\ InUpdate(srv.an)' <=> InUpdate(srv.an)
      /\ Fresh(srv.an)' <=> Fresh(srv.an)
  BY <1>1 DEF InMap, InUpdate, Fresh
<1>3. ClockInv'
  BY <1>0, <1>1, <1>2 DEF ClockInv
<1>4. MapTimed'
  BY <1>0, <1>2, MapKept DEF FreshInv
<1>5. HandTimed' /\ NuTimed'
  BY <1>0, <1>1, <1>2 DEF FreshInv, HandTimed, NuTimed
<1>6. TTLNotOverstated'
  BY <1>1 DEF TTLNotOverstated
<1> QED BY <1>3, <1>4, <1>5, <1>6 DEF FreshInv

\* A step of processRequest on its answer, without the lock: the message
\* loses TTL at most.
LEMMA HandStep ==
    ASSUME TimeInv, IInv', NEW a \in AnswerId, srv.an = a, NEW new,
           heap' = [heap EXCEPT ![a] = new],
           srv'.an = a, srv'.at = srv.at, srv'.raced = srv.raced,
           UNCHANGED <<now, v, lock, nu, exp>>,
           new.receivedAt = heap[a].receivedAt,
           new.accessedAt = heap[a].accessedAt \/ new.accessedAt = now,
           InMap(a) => /\ new.qname = heap[a].qname /\ new.qtype = heap[a].qtype
                       /\ new.msg.ttl \in Nat /\ new.msg.ttl <= heap[a].msg.ttl
                       /\ new.msg.expires = heap[a].msg.expires
    PROVE  /\ ClockInv' /\ NuTimed' /\ MapTimed' /\ heap'[a] = new
           /\ ~srv.raced => Fresh(srv.an)'
           /\ ~srv.raced /\ new.receivedAt > 0 => ~InUpdate(srv.an)'
<1>0. IInv /\ ClockInv /\ FreshInv /\ a # Nil
  BY NilAssumption DEF TimeInv
<1>1. heap'[a] = new /\ \A b \in AnswerId : b # a => heap'[b] = heap[b]
  BY <1>0 DEF IInv, TypeOK
<1>2. /\ \A b : InMap(b)' <=> InMap(b)
      /\ InMap(srv.an)' <=> InMap(srv.an)
  BY DEF InMap
<1>3. heap[a].receivedAt \in Nat /\ heap[a].accessedAt \in Nat /\ now \in Nat
  BY <1>0, HandTyped, TimeTyped
<1>4. ClockInv'
  BY <1>0, <1>1, <1>2, <1>3, ClockKept
<1>5. InMap(a) => Keeps(a)
  BY <1>1 DEF Keeps
<1>6. MapTimed'
  BY <1>0, <1>1, <1>2, <1>5, MapKept DEF FreshInv
<1>7. ASSUME ~srv.raced
      PROVE  Fresh(srv.an)' /\ (new.receivedAt > 0 => ~InUpdate(srv.an)')
  <2>1. Fresh(a) /\ (heap[a].receivedAt > 0 => ~InUpdate(a) /\ InMap(a))
    BY <1>0, <1>7 DEF FreshInv, HandTimed, ClockInv
  <2>2. CASE heap[a].receivedAt > 0
    <3>1. heap[a].msg.ttl \in Nat /\ heap[a].msg.expires \in Nat
      BY <1>0, <2>1, <2>2, MapTyped
    <3>2. /\ new.qname = heap[a].qname /\ new.qtype = heap[a].qtype
          /\ new.msg.ttl \in Nat /\ new.msg.ttl <= heap[a].msg.ttl
          /\ new.msg.expires = heap[a].msg.expires
      BY <2>1, <2>2
    <3>3. Fresh(srv.an)'
      BY <1>1, <1>3, <2>1, <2>2, <3>1, <3>2 DEF Fresh
    <3>4. ~InUpdate(srv.an)'
      BY <1>1, <2>1, <2>2, <3>2 DEF InUpdate
    <3> QED BY <3>3, <3>4
  <2>3. CASE ~(heap[a].receivedAt > 0)
    BY <1>1, <2>3 DEF Fresh
  <2> QED BY <2>2, <2>3
<1>8. NuTimed'
  BY <1>0 DEF FreshInv, NuTimed
<1> QED BY <1>1, <1>4, <1>6, <1>7, <1>8

\* SetID changes the message's ID only.
LEMMA SetIDTimed ==
    ASSUME TimeInv, IInv', SetID
    PROVE  ClockInv' /\ FreshInv'
<1>0. IInv /\ srv.pc = "setid" /\ srv.an # Nil
  BY DEF TimeInv, SetID, IInv, SrvOK
<1>1. PICK a \in AnswerId : srv.an = a /\ heap[a] \in Answer /\ heap[a].msg \in Message
  <2>1. srv.an \in AnswerId /\ heap[srv.an] \in Answer /\ heap[srv.an].msg # Nil
    BY <1>0, HandTyped DEF SetID, Msg
  <2> QED BY <2>1 DEF Answer
<1> DEFINE new == [heap[a] EXCEPT !.msg.id = srv.id]
<1>2. /\ new.receivedAt = heap[a].receivedAt /\ new.accessedAt = heap[a].accessedAt
      /\ new.qname = heap[a].qname /\ new.qtype = heap[a].qtype
      /\ new.msg.ttl = heap[a].msg.ttl /\ new.msg.expires = heap[a].msg.expires
      /\ new.msg.ttl \in Nat
  BY <1>1 DEF Answer, Message
<1>2a. new.msg.ttl <= heap[a].msg.ttl
  BY <1>2
<1>3. /\ heap' = [heap EXCEPT ![a] = new] /\ UNCHANGED <<now, v, lock, nu, exp>>
      /\ srv' = [srv EXCEPT !.pc = "local"]
  BY <1>1 DEF SetID
<1> HIDE DEF new
<1>4. srv'.an = a /\ srv'.at = srv.at /\ srv'.raced = srv.raced /\ srv'.pc = "local"
  BY <1>0, <1>1, <1>3 DEF IInv, TypeOK
<1>5. /\ ClockInv' /\ NuTimed' /\ MapTimed' /\ heap'[a] = new
      /\ ~srv.raced => Fresh(srv.an)'
      /\ ~srv.raced /\ new.receivedAt > 0 => ~InUpdate(srv.an)'
  BY <1>1, <1>2, <1>2a, <1>3, <1>4, HandStep
<1>6. HandTimed' /\ TTLNotOverstated'
  BY <1>4, <1>5 DEF HandTimed, TTLNotOverstated
<1> QED BY <1>5, <1>6 DEF FreshInv

\* updateTTL takes the seconds since the receipt, which are not negative.
LEMMA AgeTimed ==
    ASSUME TimeInv, IInv', Age
    PROVE  ClockInv' /\ FreshInv'
<1>0. IInv /\ srv.pc = "age" /\ srv.an # Nil /\ now \in Nat
  BY TimeTyped DEF TimeInv, Age, IInv, SrvOK
<1>1. PICK a \in AnswerId : srv.an = a /\ heap[a] \in Answer /\ heap[a].receivedAt \in Nat
  BY <1>0, HandTyped
<1> DEFINE new == [heap[a] EXCEPT !.accessedAt = now]
<1>2. /\ new.receivedAt = heap[a].receivedAt /\ new.accessedAt = now
      /\ new.qname = heap[a].qname /\ new.qtype = heap[a].qtype
      /\ new.msg = heap[a].msg
  BY <1>1 DEF Answer
<1>3. /\ heap' = [heap EXCEPT ![a] = new] /\ UNCHANGED <<now, v, lock, nu, exp>>
      /\ srv' = [srv EXCEPT !.pc = "sub", !.sub = now - heap[a].receivedAt]
  BY <1>1 DEF Age
<1>4. InMap(a) => /\ heap[a].receivedAt <= now
                  /\ new.msg.ttl \in Nat /\ new.msg.ttl <= heap[a].msg.ttl
                  /\ new.msg.expires = heap[a].msg.expires
  BY <1>0, <1>2, MapTyped, ReceivedBefore
<1> HIDE DEF new
<1>5. /\ srv'.an = a /\ srv'.at = srv.at /\ srv'.raced = srv.raced /\ srv'.pc = "sub"
      /\ srv'.sub = now - heap[a].receivedAt
  BY <1>0, <1>1, <1>3 DEF IInv, TypeOK
<1>6. /\ ClockInv' /\ NuTimed' /\ MapTimed' /\ heap'[a] = new
      /\ ~srv.raced => Fresh(srv.an)'
      /\ ~srv.raced /\ new.receivedAt > 0 => ~InUpdate(srv.an)'
  BY <1>1, <1>2, <1>3, <1>4, <1>5, HandStep
<1>7. now - heap[a].receivedAt >= 0
  <2>1. heap[a].receivedAt > 0 => InMap(a)
    BY <1>0, <1>1 DEF TimeInv, ClockInv
  <2> QED BY <1>0, <1>1, <1>4, <2>1
<1>8. HandTimed' /\ TTLNotOverstated'
  BY <1>2, <1>5, <1>6, <1>7 DEF HandTimed, TTLNotOverstated
<1> QED BY <1>6, <1>8 DEF FreshInv

\* SubTTL: what is left counts from the last use.
LEMMA DecreaseTTLTimed ==
    ASSUME TimeInv, IInv', DecreaseTTL
    PROVE  ClockInv' /\ FreshInv'
<1>0. /\ IInv /\ srv.pc = "sub" /\ srv.an # Nil /\ srv.sub \in Int /\ srv.sub >= 0
      /\ FreshInv
  BY TimeTyped DEF TimeInv, DecreaseTTL, IInv, SrvOK, FreshInv, HandTimed
<1>1. PICK a \in AnswerId : srv.an = a /\ heap[a] \in Answer /\ heap[a].msg \in Message
  <2>1. srv.an \in AnswerId /\ heap[srv.an] \in Answer /\ heap[srv.an].msg # Nil
    BY <1>0, HandTyped DEF DecreaseTTL, Msg
  <2> QED BY <2>1 DEF Answer
<1> DEFINE new == [heap[a] EXCEPT !.msg.ttl = SubTTL(@, srv.sub)]
           left == SubTTL(heap[a].msg.ttl, srv.sub)
<1>2. /\ heap[a].msg.ttl \in Nat /\ heap[a].msg.expires \in Nat
      /\ heap[a].receivedAt \in Nat /\ heap[a].accessedAt \in Nat
  BY <1>1 DEF Answer, Message
<1>3. /\ left \in Nat /\ left <= heap[a].msg.ttl
      /\ left = 0 \/ left = heap[a].msg.ttl - srv.sub
  BY <1>0, <1>2 DEF SubTTL
<1>4. /\ new.receivedAt = heap[a].receivedAt /\ new.accessedAt = heap[a].accessedAt
      /\ new.qname = heap[a].qname /\ new.qtype = heap[a].qtype
      /\ new.msg.ttl = left /\ new.msg.expires = heap[a].msg.expires
  BY <1>1 DEF Answer, Message
<1>5. /\ heap' = [heap EXCEPT ![a] = new] /\ UNCHANGED <<now, v, lock, nu, exp>>
      /\ srv' = [srv EXCEPT !.pc = "respond"]
  BY <1>1 DEF DecreaseTTL
<1> HIDE DEF new, left
<1>6. srv'.an = a /\ srv'.at = srv.at /\ srv'.raced = srv.raced /\ srv'.pc = "respond"
  BY <1>0, <1>1, <1>5 DEF IInv, TypeOK
<1>7. /\ ClockInv' /\ NuTimed' /\ MapTimed' /\ heap'[a] = new
      /\ ~srv.raced => Fresh(srv.an)'
      /\ ~srv.raced /\ new.receivedAt > 0 => ~InUpdate(srv.an)'
  BY <1>1, <1>3, <1>4, <1>5, <1>6, HandStep
<1>8. HandTimed'
  BY <1>4, <1>6, <1>7 DEF HandTimed
<1>9. TTLNotOverstated'
  <2> SUFFICES ASSUME ~srv.raced, heap[a].receivedAt > 0
               PROVE  left = 0 \/ heap[a].accessedAt + left <= heap[a].msg.expires
    BY <1>4, <1>6, <1>7 DEF TTLNotOverstated, Msg
  <2>1. /\ srv.sub = heap[a].accessedAt - heap[a].receivedAt
        /\ \/ heap[a].msg.ttl = 0
           \/ heap[a].receivedAt + heap[a].msg.ttl <= heap[a].msg.expires
    BY <1>0, <1>1 DEF FreshInv, HandTimed, Fresh
  <2> QED BY <1>0, <1>2, <1>3, <2>1
<1> QED BY <1>7, <1>8, <1>9 DEF FreshInv

\* What leaves the map in a step of prune is the front of lru, and nothing else.
LEMMA PruneMap ==
    ASSUME IInv, PruneRemove
    PROVE  /\ lru[1] \in AnswerId
           /\ heap[lru[1]].accessedAt \in Nat /\ heap[lru[1]].accessedAt <= exp
           /\ \A b \in AnswerId : b # lru[1] => heap'[b] = heap[b]
           /\ srv.an = lru[1] => heap'[lru[1]].receivedAt = heap[lru[1]].receivedAt
           /\ \A b \in AnswerId : InMap(b) /\ b # lru[1] => InMap(b)'
           /\ \A b \in AnswerId : InMap(b)' => InMap(b) /\ b # lru[1]
<1> DEFINE a == lru[1]
           n == heap[a].qname
<1>1. lru \in Seq(AnswerId) /\ lru # <<>> /\ 1 \in 1..Len(lru)
  BY DEF PruneRemove, IInv, TypeOK
<1>2. a \in AnswerId /\ heap[a] # Nil /\ heap[a] \in Answer /\ n \in Name
  BY <1>1 DEF IInv, TypeOK, LruMatchesMap, Answer
<1>3. PICK z \in 1..Len(v[n]) : v[n][z] = a
  BY <1>1 DEF IInv, LruMatchesMap
<1>4. PICK x \in Found(heap[a]) : v' = [v EXCEPT ![n] = SwapRemove(@, x)]
  BY DEF PruneRemove
<1>5. x \in 1..Len(v[n]) /\ heap[v[n][x]].qtype = heap[a].qtype
  BY <1>4 DEF Found
<1>6. v[n][x] = a
  BY <1>2, <1>3, <1>5 DEF IInv, AnswersUnique
<1>7. /\ heap' = [heap EXCEPT ![a] = IF srv.an = a
                                     THEN [@ EXCEPT !.msg = Nil] ELSE Nil]
      /\ heap[a].accessedAt <= exp
  BY DEF PruneRemove
<1>8. /\ heap[a].accessedAt \in Nat
      /\ srv.an = a => heap'[a].receivedAt = heap[a].receivedAt
  BY <1>2, <1>7 DEF IInv, TypeOK, Answer
<1>9. \A b \in AnswerId : b # a => heap'[b] = heap[b]
  BY <1>7 DEF IInv, TypeOK
<1> HIDE DEF a, n
<1>10. /\ v'[n] = SwapRemove(v[n], x) /\ v[n] \in Seq(AnswerId)
       /\ \A k \in Name : k # n => v'[k] = v[k]
  BY <1>2, <1>4 DEF IInv, TypeOK
<1>11. /\ Len(v'[n]) = Len(v[n]) - 1 /\ Len(v[n]) \in Nat
       /\ \A y \in 1..(Len(v[n]) - 1) : v'[n][y] = IF y = x THEN v[n][Len(v[n])] ELSE v[n][y]
       /\ \A y \in 1..Len(v[n]) : y # x => \E u \in 1..(Len(v[n]) - 1) : v'[n][u] = v[n][y]
  <2> DEFINE m == SwapRemove(v[n], x)
  <2>1. /\ Len(m) = Len(v[n]) - 1
        /\ \A y \in 1..(Len(v[n]) - 1) : m[y] = IF y = x THEN v[n][Len(v[n])] ELSE v[n][y]
        /\ \A y \in 1..Len(v[n]) : y # x => \E u \in 1..(Len(v[n]) - 1) : m[u] = v[n][y]
    BY <1>5, <1>10, SwapRemoveFacts
  <2>2. v'[n] = m /\ Len(v[n]) \in Nat
    BY <1>10
  <2> HIDE DEF m
  <2> QED BY <2>1, <2>2
<1>12. ASSUME NEW b \in AnswerId, InMap(b), b # a PROVE InMap(b)'
  <2>1. PICK k \in Name : \E y \in 1..Len(v[k]) : v[k][y] = b
    BY <1>12 DEF InMap
  <2>2. PICK y \in 1..Len(v[k]) : v[k][y] = b
    BY <2>1
  <2>3. CASE k = n
    <3>1. y # x
      BY <1>6, <1>12, <2>2, <2>3
    <3> QED BY <1>2, <1>11, <2>2, <2>3, <3>1 DEF InMap
  <2>4. CASE k # n
    BY <1>10, <2>2, <2>4 DEF InMap
  <2> QED BY <2>3, <2>4
<1>13. ASSUME NEW b \in AnswerId, InMap(b)' PROVE InMap(b) /\ b # a
  <2>1. PICK k \in Name : \E y \in 1..Len(v'[k]) : v'[k][y] = b
    BY <1>13 DEF InMap
  <2>2. PICK y \in 1..Len(v'[k]) : v'[k][y] = b
    BY <2>1
  <2>3. PICK u \in 1..Len(v[k]) : v[k][u] = b /\ (k = n => u # x)
    <3>1. CASE k = n
      <4>1. y \in 1..(Len(v[n]) - 1)
        BY <1>11, <2>2, <3>1
      <4>2. CASE y = x
        <5>1. v[n][Len(v[n])] = b /\ Len(v[n]) \in 1..Len(v[n]) /\ Len(v[n]) # x
          BY <1>11, <2>2, <3>1, <4>1, <4>2, SMTT(60)
        <5> QED BY <3>1, <5>1
      <4>3. CASE y # x
        <5>1. v[n][y] = b /\ y \in 1..Len(v[n])
          BY <1>11, <2>2, <3>1, <4>1, <4>3
        <5> QED BY <3>1, <4>3, <5>1
      <4> QED BY <4>2, <4>3
    <3>2. CASE k # n
      BY <1>10, <2>2, <3>2
    <3> QED BY <3>1, <3>2
  <2>4. ASSUME b = a PROVE FALSE
    <3>1. k = n
      BY <1>2, <2>3, <2>4 DEF IInv, AnswersUnique, n
    <3> QED BY <1>5, <1>6, <1>2, <2>3, <2>4, <3>1 DEF IInv, AnswersUnique
  <2> QED BY <2>3, <2>4 DEF InMap
<1> QED BY <1>2, <1>7, <1>8, <1>9, <1>12, <1>13 DEF a

\* prune does not remove the answer in hand, unless it is local.
LEMMA PruneSparesHand ==
    ASSUME TimeInv, PruneRemove, srv.an = lru[1]
    PROVE  ~(heap[srv.an].receivedAt > 0)
<1>1. /\ IInv /\ ClockInv /\ srv.an # Nil
      /\ heap[srv.an].accessedAt \in Nat /\ heap[srv.an].accessedAt <= exp
  BY PruneMap, NilAssumption DEF TimeInv
<1>2. exp + PruneThreshold <= now /\ now <= srv.at + StepMax
  BY <1>1 DEF ClockInv, PruneRemove
<1>3. heap[srv.an].receivedAt > 0 => srv.at <= heap[srv.an].accessedAt + StepMax
  BY <1>1 DEF ClockInv
<1> QED BY <1>1, <1>2, <1>3, TimeTyped

\* The steps of the pruning worker.
LEMMA PruneTimed ==
    ASSUME TimeInv, IInv', PruneNext
    PROVE  ClockInv' /\ FreshInv'
<1>0. /\ IInv /\ ClockInv /\ FreshInv /\ now \in Nat /\ PruneThreshold \in Nat
      /\ UNCHANGED <<now, nu, srv>>
  BY TimeTyped DEF TimeInv, PruneNext, PruneBegin, PruneRemove, PruneEnd
<1>1. CASE PruneBegin \/ PruneEnd
  <2>1. /\ UNCHANGED <<heap, v>> /\ lock \notin Writer /\ lock' \notin Writer
        /\ lock' = Pruner => exp' + PruneThreshold <= now
    BY <1>0, <1>1, NilAssumption, ProcessAssumption DEF PruneBegin, PruneEnd, Writer
  <2>2. /\ \A a : InMap(a)' <=> InMap(a)
        /\ \A a : Fresh(a)' <=> Fresh(a)
        /\ \A a : ~InUpdate(a)'
    BY <1>0, <2>1 DEF InMap, Fresh, InUpdate
  <2>3. /\ InMap(srv.an)' <=> InMap(srv.an)
        /\ Fresh(srv.an)' <=> Fresh(srv.an)
        /\ ~InUpdate(srv.an)'
    BY <1>0, <2>1 DEF InMap, Fresh, InUpdate
  <2>4. ClockInv'
    BY <1>0, <2>1, <2>3 DEF ClockInv
  <2>5. MapTimed'
    BY <1>0, <2>1, <2>2, AllFresh DEF FreshInv, MapTimed, Timed
  <2>6. NuTimed' /\ HandTimed' /\ TTLNotOverstated'
    BY <1>0, <2>1, <2>3 DEF FreshInv, NuTimed, HandTimed, TTLNotOverstated, Msg
  <2> QED BY <2>4, <2>5, <2>6 DEF FreshInv
<1>2. CASE PruneRemove
  <2>1. UNCHANGED <<lock, exp>> /\ lock = Pruner
    BY <1>2 DEF PruneRemove
  <2>2. MapTimed'
    BY <1>0, <1>2, <2>1, PruneMap, MapKept DEF FreshInv
  <2>3. srv.an # Nil => srv.an \in AnswerId
    BY <1>0, HandTyped
  <2>4. srv.an # Nil /\ srv.an # lru[1] => /\ heap'[srv.an] = heap[srv.an]
                                           /\ (InMap(srv.an) => InMap(srv.an)')
    <3> SUFFICES ASSUME srv.an # Nil, srv.an # lru[1]
                 PROVE  heap'[srv.an] = heap[srv.an] /\ (InMap(srv.an) => InMap(srv.an)')
      OBVIOUS
    <3>1. InMap(srv.an) => \E b \in AnswerId : b = srv.an /\ InMap(b)'
      BY <1>0, <1>2, <2>3, PruneMap
    <3>2. heap'[srv.an] = heap[srv.an]
      BY <1>0, <1>2, <2>3, PruneMap
    <3> QED BY <1>0, <3>1, <3>2 DEF InMap
  <2>5. srv.an = lru[1] => ~(heap'[srv.an].receivedAt > 0)
    BY <1>0, <1>2, PruneSparesHand, PruneMap
  <2>6. ClockInv'
    BY <1>0, <2>1, <2>4, <2>5 DEF ClockInv
  <2>7. lock' \notin Writer
    BY <2>1, ProcessAssumption DEF Writer
  <2>8. ~InUpdate(srv.an)'
    BY <2>7 DEF InUpdate
  <2>9. srv.an # Nil /\ ~srv.raced => Fresh(srv.an)'
    BY <1>0, <2>4, <2>5 DEF FreshInv, HandTimed, Fresh
  <2>10. HandTimed' /\ NuTimed'
    BY <1>0, <2>4, <2>5, <2>8, <2>9 DEF FreshInv, HandTimed, NuTimed
  <2>11. TTLNotOverstated'
    <3>1. srv.pc = "respond" => srv.an # Nil
      BY <1>0 DEF IInv, SrvOK
    <3> QED BY <1>0, <2>4, <2>5, <3>1 DEF FreshInv, TTLNotOverstated, Msg
  <2> QED BY <2>2, <2>6, <2>10, <2>11 DEF FreshInv
<1> QED BY <1>1, <1>2 DEF PruneNext

\* Every step keeps the times.
LEMMA TimeStep ==
    ASSUME TimeInv, [Next]_vars
    PROVE  TimeInv'
<1>0. IInv /\ IInv'
  BY NextIInv DEF TimeInv
<1>1. CASE Tick
  BY <1>0, <1>1, TickTimed DEF TimeInv
<1>2. CASE WriterNext
  <2>1. ASSUME NEW f \in Forwarder, NEW r \in pending, ReceiveNothing(f, r)
        PROVE  ClockInv' /\ FreshInv'
    BY <2>1, TimeKept DEF ReceiveNothing
  <2>2. ASSUME NEW w \in Writer,
               (\E a \in AnswerId : Insert(w, a)) \/ UpdateTimes(w) \/ UpdateMsg(w)
        PROVE  ClockInv' /\ FreshInv'
    BY <1>0, <2>2, InsertTimed, UpdateTimesTimed, UpdateMsgTimed
  <2> QED BY <1>0, <1>2, <2>1, <2>2, NewAnswerTimed DEF WriterNext, TimeInv
<1>3. ASSUME NEW q \in Question, NEW id \in MsgId, Request(q, id)
      PROVE  TimeInv'
  <2>1. srv'.an = Nil /\ srv'.pc = "get" /\ UNCHANGED <<heap, now, v, lock, nu, exp>>
    BY <1>0, <1>3 DEF Request, IInv, SrvOK, TypeOK
  <2> QED BY <1>0, <2>1, NoHandTimed DEF TimeInv
<1>4. CASE ServeNext
  <2>1. ASSUME srv' = Idle, heap' = heap \/ heap' = Release(heap),
               UNCHANGED <<now, v, lock, nu, exp>>
        PROVE  TimeInv'
    BY <1>0, <2>1, IdleFacts, NoHandTimed DEF TimeInv
  <2>2. ASSUME CheckExpired, srv' = [srv EXCEPT !.pc = "setid"], heap' = heap
        PROVE  TimeInv'
    <3>1. UNCHANGED <<now, heap, v, lock, nu, exp>>
      BY <2>2 DEF CheckExpired
    <3> QED BY <1>0, <2>2, <3>1, MoveOnTimed DEF TimeInv
  <2>3. CASE CheckLocal
    <3>1. /\ UNCHANGED <<now, heap, v, lock, nu, exp>>
          /\ \/ srv' = [srv EXCEPT !.pc = "respond"] /\ heap[srv.an].receivedAt = 0
             \/ srv' = [srv EXCEPT !.pc = "age"]
      BY <2>3 DEF CheckLocal
    <3> QED BY <1>0, <3>1, MoveOnTimed DEF TimeInv
  <2>4. CASE GetMissed \/ Respond
    BY <2>1, <2>4 DEF GetMissed, Respond
  <2>5. CASE CheckExpired
    BY <2>1, <2>2, <2>5 DEF CheckExpired
  <2> QED BY <1>0, <1>4, <2>3, <2>4, <2>5, GetFoundTimed, SetIDTimed, AgeTimed,
             DecreaseTTLTimed DEF ServeNext, TimeInv
<1>5. CASE PruneNext
  BY <1>0, <1>5, PruneTimed DEF TimeInv
<1>6. CASE ListenAndServe \/ UNCHANGED vars
  BY <1>0, <1>6, TimeKept DEF ListenAndServe, vars, TimeInv
<1> QED BY <1>1, <1>2, <1>3, <1>4, <1>5, <1>6 DEF Next

\* The times are in order and the answers fresh in every state the cache can
\* reach, whatever is loaded while it serves.
THEOREM TimeInvariant == Spec => []TimeInv
<1>1. Init => TimeInv
  <2> SUFFICES ASSUME Init PROVE TimeInv
    OBVIOUS
  <2>1. srv.an = Nil /\ srv.pc = "idle"
    BY IdleFacts DEF Init
  <2>2. \A a : ~InMap(a)
    BY DEF Init, InMap
  <2>3. ClockInv
    BY <2>1, NilAssumption DEF Init, ClockInv, Writer
  <2>4. FreshInv
    BY <2>1, <2>2 DEF Init, FreshInv, NuTimed, MapTimed, HandTimed, TTLNotOverstated, Writer
  <2> QED BY <2>3, <2>4, InitIInv DEF TimeInv
<1>2. TimeInv /\ [Next]_vars => TimeInv'
  BY TimeStep
<1> QED BY <1>1, <1>2, PTL DEF Spec

\* An answer that no upsert replaced while processRequest worked on it is
\* sent with a TTL that ends no later than the parent name server said, for
\* every threshold and every bound on the unlocked work below half of it.
THEOREM TTLKept == Spec => []TTLNotOverstated
<1>1. TimeInv => TTLNotOverstated
  BY DEF TimeInv, FreshInv
<1> QED BY <1>1, TimeInvariant, PTL

\* With every file loaded before ListenAndServe, prune finds nothing local in
\* lru, so it cannot remove the answer in hand.
LEMMA HandStays ==
    ASSUME LocalInv, TimeInv, HandInMap, [Next]_vars
    PROVE  HandInMap'
<1>0. IInv /\ LocalFound
  BY DEF LocalInv
<1>1. CASE UNCHANGED v /\ (srv'.an = srv.an \/ srv'.an = Nil)
  BY <1>1 DEF HandInMap, InMap
<1>2. CASE GetFound
  <2>1. srv.q.qname \in Name
    BY <1>0, <1>2, SMTT(60) DEF GetFound, IInv, SrvOK, Question
  <2>2. PICK x \in Found(srv.q) :
           srv' = [srv EXCEPT !.pc = "found", !.an = v[srv.q.qname][x], !.at = now]
    BY <1>2 DEF GetFound
  <2>3. srv'.an = v[srv.q.qname][x] /\ v' = v
    BY <1>0, <1>2, <2>2 DEF GetFound, IInv, TypeOK
  <2>4. InMap(v[srv.q.qname][x])
    BY <1>0, <2>1, FoundAnswer
  <2> QED BY <2>3, <2>4, SMTT(60) DEF HandInMap, InMap
<1>3. CASE PruneRemove
  <2>1. srv' = srv /\ 1 \in 1..Len(lru)
    BY <1>0, <1>3 DEF PruneRemove, IInv, TypeOK
  <2>2. heap[lru[1]].receivedAt > 0
    BY <1>0, <2>1 DEF LocalFound
  <2>3. srv.an # lru[1]
    BY <1>3, <2>2, PruneSparesHand
  <2>4. srv.an # Nil => \E b \in AnswerId : b = srv.an /\ InMap(b)'
    BY <1>0, <1>3, <2>3, HandTyped, PruneMap DEF HandInMap
  <2> QED BY <2>1, <2>4 DEF HandInMap, InMap
<1>4. ASSUME NEW w \in Writer, NEW a \in AnswerId, Insert(w, a) PROVE HandInMap'
  <2>1. /\ srv' = srv /\ v' = [v EXCEPT ![nu[w].qname] = Append(@, a)]
        /\ nu[w].qname \in Name
    BY <1>0, <1>4, NuTyped DEF Insert
  <2> SUFFICES ASSUME srv.an # Nil PROVE InMap(srv.an)'
    BY <2>1 DEF HandInMap
  <2>2. PICK n \in Name : \E x \in 1..Len(v[n]) : v[n][x] = srv.an
    BY DEF HandInMap, InMap
  <2>3. PICK x \in 1..Len(v[n]) : v[n][x] = srv.an
    BY <2>2
  <2>4. v[n] \in Seq(AnswerId) /\ (v'[n] = v[n] \/ v'[n] = Append(v[n], a))
    BY <1>0, <2>1 DEF IInv, TypeOK
  <2>5. x \in 1..Len(v'[n]) /\ v'[n][x] = srv.an
    BY <2>3, <2>4
  <2> QED BY <2>1, <2>5 DEF InMap
<1>5. CASE Tick \/ ListenAndServe \/ PruneBegin \/ PruneEnd \/ UNCHANGED vars
  BY <1>1, <1>5 DEF Tick, ListenAndServe, PruneBegin, PruneEnd, vars
<1>6. ASSUME NEW q \in Question, NEW id \in MsgId, LoadRecord(q, id) \/ Request(q, id)
      PROVE  HandInMap'
  <2>1. v' = v /\ srv'.an = srv.an
    BY <1>0, <1>6 DEF LoadRecord, Request, IInv, TypeOK
  <2> QED BY <1>1, <2>1
<1>7. ASSUME NEW f \in Forwarder, NEW r \in pending,
             (\E ttl \in TTL : Receive(f, r, ttl)) \/ ReceiveNothing(f, r)
      PROVE  HandInMap'
  BY <1>1, <1>7 DEF Receive, ReceiveNothing
<1>8. ASSUME NEW w \in Writer, UpdateTimes(w) \/ UpdateMsg(w) PROVE HandInMap'
  <2>1. v' = v /\ srv'.an = srv.an
    BY <1>0, <1>8 DEF UpdateTimes, UpdateMsg, IInv, TypeOK
  <2> QED BY <1>1, <2>1
<1>9. CASE GetMissed \/ CheckExpired \/ SetID \/ CheckLocal \/ Age \/ DecreaseTTL \/ Respond
  <2>1. v' = v /\ (srv'.an = srv.an \/ srv'.an = Nil)
    BY <1>0, <1>9, IdleFacts DEF GetMissed, CheckExpired, SetID, CheckLocal, Age,
                                 DecreaseTTL, Respond, IInv, TypeOK
  <2> QED BY <1>1, <2>1
<1> QED BY <1>2, <1>3, <1>4, <1>5, <1>6, <1>7, <1>8, <1>9
        DEF Next, WriterNext, ServeNext, PruneNext

\* processRequest never dereferences the message of an answer that the
\* pruning worker has cleared: its unlocked work takes less than half of the
\* threshold, and hosts and zone files are loaded before ListenAndServe.
THEOREM MessageInHand ==
    ASSUME ReloadWhileServing = FALSE
    PROVE  Spec => []NoNilMessage
<1> DEFINE Inv == LocalInv /\ HandInMap
<1>1. Init => Inv
  BY InitLocalInv, IdleFacts DEF Init, HandInMap
<1>2. Inv /\ TimeInv /\ [Next]_vars => Inv'
  BY NextLocalInv, HandStays
<1>3. Inv => NoNilMessage
  <2> SUFFICES ASSUME Inv, srv.pc \in {"found", "setid", "sub", "respond"}
               PROVE  heap[srv.an].msg # Nil
    BY DEF NoNilMessage, Msg
  <2>1. IInv /\ srv.an # Nil
    BY DEF LocalInv, IInv, SrvOK
  <2> QED BY <2>1 DEF HandInMap, InMap, IInv, AnswersUnique
<1> QED BY <1>1, <1>2, <1>3, TimeInvariant, PTL DEF Spec
=============================================================================
