----------------------------- MODULE DnsCaches -----------------------------
(***************************************************************************)
(* The answer cache of the DNS server (lib/dns/caches.go, answers.go,      *)
(* answer.go) together with the goroutines of lib/dns/server.go that share *)
(* it:                                                                     *)
(*                                                                         *)
(*   - processRequest, the one goroutine that looks answers up and serves  *)
(*     them;                                                               *)
(*   - the forwarders, which upsert what the parent name servers answer;   *)
(*   - the caller of LoadHostsFile / LoadMasterFile, which upserts local   *)
(*     answers (receivedAt = 0);                                           *)
(*   - the pruning worker.                                                 *)
(*                                                                         *)
(* caches.Mutex protects the map v and the list lru.  It does NOT protect  *)
(* the fields of an answer: processRequest keeps the pointer that          *)
(* caches.get returned and works on it after the unlock.  Every access it  *)
(* makes there is a step of its own here.                                  *)
(***************************************************************************)
EXTENDS Integers, Sequences, FiniteSets

CONSTANTS
    Name,               \* domain names
    QType,              \* pairs of query type and class
    MsgId,              \* values of the ID field of a message
    AnswerId,           \* addresses of the *answer objects
    Forwarder,          \* forwarder goroutines
    Loader,             \* the goroutine that loads hosts and zone files
    Pruner,             \* the goroutine of caches.startWorker
    Nil,                \* the nil pointer
    TTL,                \* TTLs that a parent name server answers with
    LocalTTL,           \* TTL of a record from a hosts or zone file
    PruneThreshold,     \* -caches.pruneThreshold, in seconds
    StepMax,            \* bound on the seconds an unlocked section takes
    MaxTime,            \* bound on the clock
    ReloadWhileServing  \* are files loaded after ListenAndServe?

Question == [qname : Name, qtype : QType]

\* What a message is to this cache: its ID, the smallest TTL of its answer
\* records and, for the properties only, the second at which the parent
\* name server said it would expire (0: never, it comes from a local file).
Message == [id : MsgId, ttl : Nat, expires : Nat]

\* type answer struct.  The field el is not nil exactly when lru holds the
\* answer, so it is not modelled separately.
Answer == [qname : Name, qtype : QType,
           receivedAt : Nat, accessedAt : Nat,
           msg : Message \cup {Nil}]

ASSUME TimeAssumption ==
    /\ PruneThreshold \in Nat
    /\ StepMax \in Nat
    /\ 2 * StepMax < PruneThreshold
    /\ MaxTime \in Nat \ {0}
    /\ TTL \subseteq Nat
    /\ LocalTTL \in Nat \ {0}
    /\ ReloadWhileServing \in BOOLEAN

ASSUME NilAssumption ==
    /\ Nil \notin AnswerId \cup Forwarder \cup {Loader, Pruner}
    /\ Nil \notin Message
    /\ Nil \notin Answer
    /\ Nil \notin MsgId
    /\ Nil \notin Question

ASSUME ProcessAssumption ==
    /\ Loader # Pruner
    /\ {Loader, Pruner} \cap Forwarder = {}

Writer == Forwarder \cup {Loader}

VARIABLES
    now,        \* time.Now().Unix()
    heap,       \* the answer objects; Nil when unreachable
    v,          \* caches.v: the list of answers of every domain name
    lru,        \* caches.lru, front first
    lock,       \* the goroutine inside caches.Mutex, or Nil
    nu,         \* the new answer a writer is about to upsert, or Nil
    exp,        \* prune's local exp
    srv,        \* processRequest's local variables and program counter
    pending,    \* requests that have been forwarded
    serving,    \* has ListenAndServe been called?
    loaded      \* questions whose answers were loaded from a file

vars == <<now, heap, v, lru, lock, nu, exp, srv, pending, serving, loaded>>

(***************************************************************************)
(* Helpers.                                                                *)
(***************************************************************************)

\* answers.get: the first index of the list of q.qname whose answer has q's
\* type and class, as a set with at most one element.
Found(q) ==
    {x \in 1..Len(v[q.qname]) :
        /\ heap[v[q.qname][x]].qtype = q.qtype
        /\ \A y \in 1..(x - 1) : heap[v[q.qname][y]].qtype # q.qtype}

NotFound(q) ==
    \A x \in 1..Len(v[q.qname]) : heap[v[q.qname][x]].qtype # q.qtype

InMap(a) == \E n \in Name : \E x \in 1..Len(v[n]) : v[n][x] = a

InLru(a) == \E p \in 1..Len(lru) : lru[p] = a

\* Mutants of SwapRemove: the slice is not cut; the last element is cut
\* without taking the place of the removed one.
SwapRemoveUncut(s, x) ==
    [y \in 1..Len(s) |-> IF y = Len(s) THEN Nil
                         ELSE IF y = x THEN s[Len(s)] ELSE s[y]]

SwapRemoveNoSwap(s, x) == [y \in 1..(Len(s) - 1) |-> s[y]]

\* answers.remove: the last element takes the place of the removed one.
SwapRemove(s, x) ==
    [y \in 1..(Len(s) - 1) |-> IF y = x THEN s[Len(s)] ELSE s[y]]

\* container/list MoveToBack of the element at position p.
MoveToBack(s, p) ==
    [y \in 1..Len(s) |-> IF y < p THEN s[y]
                         ELSE IF y < Len(s) THEN s[y + 1] ELSE s[p]]

\* container/list Remove of the front element.
RemoveFront(s) == [y \in 1..(Len(s) - 1) |-> s[y + 1]]

\* Mutant of NewAnswer: a local answer gets the current time too.
NewAnswerStamped(q, msg, at) ==
    [qname |-> q.qname, qtype |-> q.qtype,
     receivedAt |-> now, accessedAt |-> now, msg |-> msg]

\* newAnswer: a local answer has zero times.
NewAnswer(q, msg, at) ==
    [qname |-> q.qname, qtype |-> q.qtype,
     receivedAt |-> at, accessedAt |-> at, msg |-> msg]

\* Message.SubTTL
SubTTL(ttl, n) == IF ttl < n THEN 0 ELSE ttl - n

\* Message.IsExpired
IsExpired(msg) == msg.ttl = 0

\* processRequest between two requests.
Idle == [pc |-> "idle", q |-> Nil, id |-> Nil, an |-> Nil,
         at |-> 0, sub |-> 0, raced |-> FALSE]

\* processRequest drops its pointer; an answer that the cache has dropped
\* too is garbage.
Release(h) ==
    IF srv.an # Nil /\ ~InMap(srv.an) THEN [h EXCEPT ![srv.an] = Nil] ELSE h

(***************************************************************************)
(* Initial state and the clock.                                            *)
(***************************************************************************)

\* newCaches, called by NewServer.
Init ==
    /\ now = 1
    /\ heap = [a \in AnswerId |-> Nil]
    /\ v = [n \in Name |-> <<>>]
    /\ lru = <<>>
    /\ lock = Nil
    /\ nu = [w \in Writer |-> Nil]
    /\ exp = 0
    /\ srv = Idle
    /\ pending = {}
    /\ serving = FALSE
    /\ loaded = {}

\* The timing assumption: the unlocked work of processRequest on an answer,
\* and the time from newAnswer to the end of upsert, take at most StepMax
\* seconds.  The code's pruneThreshold is at least a minute.
Timely ==
    /\ srv.pc \notin {"idle", "get"} => now < srv.at + StepMax
    /\ \A f \in Forwarder : nu[f] # Nil => now < nu[f].receivedAt + StepMax

Tick ==
    /\ now < MaxTime
    /\ Timely
    /\ now' = now + 1
    /\ UNCHANGED <<heap, v, lru, lock, nu, exp, srv, pending, serving, loaded>>

\* ListenAndServe starts processRequest and the listeners.
ListenAndServe ==
    /\ ~serving
    /\ nu[Loader] = Nil
    /\ serving' = TRUE
    /\ UNCHANGED <<now, heap, v, lru, lock, nu, exp, srv, pending, loaded>>

(***************************************************************************)
(* The writers.                                                            *)
(***************************************************************************)

\* One record of populateCaches, from LoadHostsFile or LoadMasterFile: it
\* makes a local answer.
LoadRecord(q, id) ==
    /\ ~serving \/ ReloadWhileServing
    /\ nu[Loader] = Nil
    /\ nu' = [nu EXCEPT ![Loader] =
                NewAnswer(q, [id |-> id, ttl |-> LocalTTL, expires |-> 0], 0)]
    /\ UNCHANGED <<now, heap, v, lru, lock, exp, srv, pending, serving, loaded>>

\* A forwarder gets the answer to a request and processResponse accepts it:
\* the question is the request's, the RCode is 0.
Receive(f, r, ttl) ==
    /\ nu[f] = Nil
    /\ r \in pending
    /\ pending' = pending \ {r}
    /\ nu' = [nu EXCEPT ![f] =
                NewAnswer(r.q, [id |-> r.id, ttl |-> ttl, expires |-> now + ttl],
                          now)]
    /\ UNCHANGED <<now, heap, v, lru, lock, exp, srv, serving, loaded>>

\* The query fails, or the response has another question or an error code:
\* nothing is cached.
ReceiveNothing(f, r) ==
    /\ nu[f] = Nil
    /\ r \in pending
    /\ pending' = pending \ {r}
    /\ UNCHANGED <<now, heap, v, lru, lock, nu, exp, srv, serving, loaded>>

\* Mutant of Insert: the PushBack on lru is missing.
InsertUnlisted(w, a) ==
    /\ lock = Nil
    /\ nu[w] # Nil
    /\ NotFound(nu[w])
    /\ heap[a] = Nil
    /\ heap' = [heap EXCEPT ![a] = nu[w]]
    /\ v' = [v EXCEPT ![nu[w].qname] = Append(@, a)]
    /\ UNCHANGED lru
    /\ nu' = [nu EXCEPT ![w] = Nil]
    /\ loaded' = IF w = Loader
                 THEN loaded \cup {[qname |-> nu[w].qname, qtype |-> nu[w].qtype]}
                 ELSE loaded
    /\ UNCHANGED <<now, lock, exp, srv, pending, serving>>

\* caches.upsert, when the name or the type is not in the map: all of it
\* happens under the lock, on an object that no one else has a pointer to.
Insert(w, a) ==
    /\ lock = Nil
    /\ nu[w] # Nil
    /\ NotFound(nu[w])
    /\ heap[a] = Nil
    /\ heap' = [heap EXCEPT ![a] = nu[w]]
    /\ v' = [v EXCEPT ![nu[w].qname] = Append(@, a)]
    /\ lru' = IF nu[w].receivedAt > 0 THEN Append(lru, a) ELSE lru
    /\ nu' = [nu EXCEPT ![w] = Nil]
    /\ loaded' = IF w = Loader
                 THEN loaded \cup {[qname |-> nu[w].qname, qtype |-> nu[w].qtype]}
                 ELSE loaded
    /\ UNCHANGED <<now, lock, exp, srv, pending, serving>>

\* caches.upsert, when an answer exists, up to the times that answer.update
\* copies.  The list lru is left as it is.
UpdateTimes(w) ==
    /\ lock = Nil
    /\ nu[w] # Nil
    /\ \E x \in Found(nu[w]) :
          LET a == v[nu[w].qname][x]
          IN  /\ heap' = IF heap[a].receivedAt > 0
                         THEN [heap EXCEPT ![a].receivedAt = nu[w].receivedAt,
                                           ![a].accessedAt = nu[w].accessedAt]
                         ELSE heap
              /\ srv' = [srv EXCEPT !.raced = @ \/ srv.an = a]
    /\ lock' = w
    /\ UNCHANGED <<now, v, lru, nu, exp, pending, serving, loaded>>

\* The rest of answer.update: the message moves to the old answer.
UpdateMsg(w) ==
    /\ lock = w
    /\ \E x \in Found(nu[w]) :
          heap' = [heap EXCEPT ![v[nu[w].qname][x]].msg = nu[w].msg]
    /\ nu' = [nu EXCEPT ![w] = Nil]
    /\ loaded' = IF w = Loader
                 THEN loaded \cup {[qname |-> nu[w].qname, qtype |-> nu[w].qtype]}
                 ELSE loaded
    /\ lock' = Nil
    /\ UNCHANGED <<now, v, lru, exp, srv, pending, serving>>

(***************************************************************************)
(* processRequest.                                                         *)
(***************************************************************************)

\* A request is taken from requestq.
Request(q, id) ==
    /\ serving
    /\ srv.pc = "idle"
    /\ srv' = [srv EXCEPT !.pc = "get", !.q = q, !.id = id]
    /\ UNCHANGED <<now, heap, v, lru, lock, nu, exp, pending, serving, loaded>>

\* caches.get finds an answer; a non local one moves to the back of lru.
GetFound ==
    /\ srv.pc = "get"
    /\ lock = Nil
    /\ \E x \in Found(srv.q) :
          LET a == v[srv.q.qname][x]
          IN  /\ srv' = [srv EXCEPT !.pc = "found", !.an = a, !.at = now]
              /\ \/ /\ heap[a].receivedAt > 0
                    /\ heap' = [heap EXCEPT ![a].accessedAt = now]
                    /\ \E p \in 1..Len(lru) :
                          lru[p] = a /\ lru' = MoveToBack(lru, p)
                 \/ /\ heap[a].receivedAt = 0
                    /\ UNCHANGED <<heap, lru>>
    /\ UNCHANGED <<now, v, lock, nu, exp, pending, serving, loaded>>

\* The request goes to primaryq or fallbackq, or is answered RCodeErrServer
\* when the server has neither.
Forward ==
    pending' \in {pending, pending \cup {[q |-> srv.q, id |-> srv.id]}}

\* caches.get finds nothing.
GetMissed ==
    /\ srv.pc = "get"
    /\ lock = Nil
    /\ NotFound(srv.q)
    /\ Forward
    /\ srv' = Idle
    /\ UNCHANGED <<now, heap, v, lru, lock, nu, exp, serving, loaded>>

\* The message of the answer in hand.  Dereferencing it while it is nil
\* panics and ends the program, so every step below needs it.
Msg == heap[srv.an].msg

CheckExpired ==
    /\ srv.pc = "found"
    /\ Msg # Nil
    /\ \/ /\ IsExpired(Msg)
          /\ Forward
          /\ srv' = Idle
          /\ heap' = Release(heap)
       \/ /\ ~IsExpired(Msg)
          /\ srv' = [srv EXCEPT !.pc = "setid"]
          /\ UNCHANGED <<heap, pending>>
    /\ UNCHANGED <<now, v, lru, lock, nu, exp, serving, loaded>>

\* an.msg.SetID(req.message.Header.ID)
SetID ==
    /\ srv.pc = "setid"
    /\ Msg # Nil
    /\ heap' = [heap EXCEPT ![srv.an].msg.id = srv.id]
    /\ srv' = [srv EXCEPT !.pc = "local"]
    /\ UNCHANGED <<now, v, lru, lock, nu, exp, pending, serving, loaded>>

\* answer.updateTTL, its test for a local answer.
CheckLocal ==
    /\ srv.pc = "local"
    /\ srv' = [srv EXCEPT !.pc = IF heap[srv.an].receivedAt = 0
                                 THEN "respond" ELSE "age"]
    /\ UNCHANGED <<now, heap, v, lru, lock, nu, exp, pending, serving, loaded>>

\* Mutant of Age: the seconds since the last access, not since the receipt.
AgeSinceAccess ==
    /\ srv.pc = "age"
    /\ heap' = [heap EXCEPT ![srv.an].accessedAt = now]
    /\ srv' = [srv EXCEPT !.pc = "sub", !.sub = now - heap[srv.an].accessedAt]
    /\ UNCHANGED <<now, v, lru, lock, nu, exp, pending, serving, loaded>>

\* answer.updateTTL, accessedAt and the number of seconds to subtract.
Age ==
    /\ srv.pc = "age"
    /\ heap' = [heap EXCEPT ![srv.an].accessedAt = now]
    /\ srv' = [srv EXCEPT !.pc = "sub", !.sub = now - heap[srv.an].receivedAt]
    /\ UNCHANGED <<now, v, lru, lock, nu, exp, pending, serving, loaded>>

\* answer.updateTTL, an.msg.SubTTL(ttl)
DecreaseTTL ==
    /\ srv.pc = "sub"
    /\ Msg # Nil
    /\ heap' = [heap EXCEPT ![srv.an].msg.ttl = SubTTL(@, srv.sub)]
    /\ srv' = [srv EXCEPT !.pc = "respond"]
    /\ UNCHANGED <<now, v, lru, lock, nu, exp, pending, serving, loaded>>

\* res := an.msg; req.writer.Write(res.Packet)
Respond ==
    /\ srv.pc = "respond"
    /\ Msg # Nil
    /\ srv' = Idle
    /\ heap' = Release(heap)
    /\ UNCHANGED <<now, v, lru, lock, nu, exp, pending, serving, loaded>>

(***************************************************************************)
(* The pruning worker.                                                     *)
(***************************************************************************)

\* Mutant of PruneBegin: the threshold is not subtracted.
PruneBeginNow ==
    /\ lock = Nil
    /\ lock' = Pruner
    /\ exp' = now
    /\ UNCHANGED <<now, heap, v, lru, nu, srv, pending, serving, loaded>>

\* prune takes the lock and computes exp.
PruneBegin ==
    /\ lock = Nil
    /\ lock' = Pruner
    /\ exp' = now - PruneThreshold
    /\ UNCHANGED <<now, heap, v, lru, nu, srv, pending, serving, loaded>>

\* One iteration of the loop of caches.prune: the front of lru is old.  The
\* answer leaves lru and the map, and its fields are cleared.
PruneRemove ==
    /\ lock = Pruner
    /\ lru # <<>>
    /\ LET a == lru[1]
       IN  /\ heap[a].accessedAt <= exp
           /\ \E x \in Found(heap[a]) :
                 v' = [v EXCEPT ![heap[a].qname] = SwapRemove(@, x)]
           /\ heap' = [heap EXCEPT ![a] = IF srv.an = a
                                          THEN [@ EXCEPT !.msg = Nil] ELSE Nil]
    /\ lru' = RemoveFront(lru)
    /\ UNCHANGED <<now, lock, nu, exp, srv, pending, serving, loaded>>

\* Mutant of PruneEnd: the loop is left without the unlock.
PruneEndLocked ==
    /\ lock = Pruner
    /\ lru # <<>> => heap[lru[1]].accessedAt > exp
    /\ exp' = 0
    /\ UNCHANGED <<now, heap, v, lru, lock, nu, srv, pending, serving, loaded>>

\* The loop of prune reaches a young answer or the end of lru.
PruneEnd ==
    /\ lock = Pruner
    /\ lru # <<>> => heap[lru[1]].accessedAt > exp
    /\ lock' = Nil
    /\ exp' = 0
    /\ UNCHANGED <<now, heap, v, lru, nu, srv, pending, serving, loaded>>

(***************************************************************************)
(* The specification.                                                      *)
(***************************************************************************)

WriterNext ==
    \/ \E q \in Question, id \in MsgId : LoadRecord(q, id)
    \/ \E f \in Forwarder, r \in pending :
          \/ \E ttl \in TTL : Receive(f, r, ttl)
          \/ ReceiveNothing(f, r)
    \/ \E w \in Writer :
          \/ \E a \in AnswerId : Insert(w, a)
          \/ UpdateTimes(w)
          \/ UpdateMsg(w)

ServeNext ==
    \/ GetFound
    \/ GetMissed
    \/ CheckExpired
    \/ SetID
    \/ CheckLocal
    \/ Age
    \/ DecreaseTTL
    \/ Respond

PruneNext ==
    \/ PruneBegin
    \/ PruneRemove
    \/ PruneEnd

Next ==
    \/ Tick
    \/ ListenAndServe
    \/ WriterNext
    \/ \E q \in Question, id \in MsgId : Request(q, id)
    \/ ServeNext
    \/ PruneNext

Spec == Init /\ [][Next]_vars

\* Fairness for the liveness property.  A goroutine that can run does run,
\* and sync.Mutex hands itself to a goroutine that has waited for more than
\* a millisecond, so a lock that is free again and again is obtained.
Fairness ==
    /\ SF_vars(GetFound \/ GetMissed)
    /\ WF_vars(CheckExpired \/ SetID \/ CheckLocal \/ Age \/ DecreaseTTL \/ Respond)
    /\ WF_vars(PruneRemove \/ PruneEnd)
    /\ \A w \in Writer : WF_vars(UpdateMsg(w))

FairSpec == Spec /\ Fairness

(***************************************************************************)
(* Properties.                                                             *)
(***************************************************************************)

\* Every variable has the type of the Go variable it stands for.
TypeOK ==
    /\ now \in Nat
    /\ heap \in [AnswerId -> Answer \cup {Nil}]
    /\ v \in [Name -> Seq(AnswerId)]
    /\ lru \in Seq(AnswerId)
    /\ lock \in Writer \cup {Pruner, Nil}
    /\ nu \in [Writer -> Answer \cup {Nil}]
    /\ exp \in Int
    /\ srv \in [pc : {"idle", "get", "found", "setid", "local", "age", "sub",
                      "respond"},
                q : Question \cup {Nil}, id : MsgId \cup {Nil},
                an : AnswerId \cup {Nil}, at : Nat, sub : Int,
                raced : BOOLEAN]
    /\ pending \subseteq [q : Question, id : MsgId]
    /\ serving \in BOOLEAN
    /\ loaded \subseteq Question

\* The list of a domain name holds answers of that name, with a message, and
\* at most one for each type and class: upsert never shadows an answer with
\* a second one, and what remove's swap leaves behind is still reachable.
AnswersUnique ==
    \A n \in Name : \A x \in 1..Len(v[n]) :
        /\ heap[v[n][x]] # Nil
        /\ heap[v[n][x]].qname = n
        /\ heap[v[n][x]].msg # Nil
        /\ \A y \in 1..Len(v[n]) :
              heap[v[n][x]].qtype = heap[v[n][y]].qtype => x = y

\* The two storages of the cache agree: lru holds no answer twice, every
\* answer in lru is in the map under its own name, and every non local
\* answer of the map is in lru, where get's MoveToBack and prune look for it.
LruMatchesMap ==
    /\ \A p, r \in 1..Len(lru) : lru[p] = lru[r] => p = r
    /\ \A p \in 1..Len(lru) :
          /\ heap[lru[p]] # Nil
          /\ \E x \in 1..Len(v[heap[lru[p]].qname]) :
                v[heap[lru[p]].qname][x] = lru[p]
    /\ \A n \in Name : \A x \in 1..Len(v[n]) :
          heap[v[n][x]].receivedAt > 0 => InLru(v[n][x])

\* "Local caches will never get pruned" (server.go:55): a question that was
\* loaded from a hosts or zone file always has an answer.
LocalNeverPruned ==
    \A q \in loaded : ~NotFound(q)

\* processRequest never dereferences the message of an answer that the
\* pruning worker has cleared behind its back: what get returned stays
\* usable, without the lock, until the response is written.
NoNilMessage ==
    srv.pc \in {"found", "setid", "sub", "respond"} => Msg # Nil

\* An answer that no upsert replaced while processRequest worked on it is
\* sent with a TTL that ends no later than the parent name server said.
TTLNotOverstated ==
    srv.pc = "respond" /\ ~srv.raced /\ heap[srv.an].receivedAt > 0 =>
        \/ Msg.ttl = 0
        \/ heap[srv.an].accessedAt + Msg.ttl <= Msg.expires

\* A request that processRequest has taken is answered or forwarded, however
\* prune and the writers compete with it for the lock.
RequestLeaves == (srv.pc # "idle") ~> (srv.pc = "idle")

(***************************************************************************)
(* What comments of the code say and the code does not do.                 *)
(***************************************************************************)

\* serveroptions.go:104: "any answers that has not been accessed in the last
\* 1 minute will be removed from cache" by a run of prune.
PruneComplete ==
    [][PruneEnd => \A p \in 1..Len(lru) : heap[lru[p]].accessedAt > exp]_vars

\* sectionheader.go: the ID "is copied the corresponding reply".
ReplyCarriesRequestID ==
    srv.pc = "respond" => Msg.id = srv.id
=============================================================================
