--------------------------- MODULE DnsForwarders ---------------------------
(***************************************************************************)
(* How the DNS server (lib/dns/server.go) hands a request that it cannot   *)
(* answer from its caches to a parent name server, while RestartForwarders *)
(* stops one generation of forwarder goroutines and starts the next.       *)
(*                                                                         *)
(* processRequest puts the request on primaryq if hasForwarders, else on   *)
(* fallbackq if there is one, else answers with an error.  A forwarder     *)
(* takes requests from its queue and queries its name server; a primary    *)
(* one passes a request that failed to the fallback queue it was started   *)
(* with.  UDP, DoT and DoH forwarders (runUDPForwarder, runTLSForwarder,   *)
(* runDohForwarder) have the same control: they connect, serve, and        *)
(* reconnect after a failed query.  A TCP forwarder (runTCPForwarder)      *)
(* opens a connection for every request.                                   *)
(*                                                                         *)
(* What a response does to the caches is in module DnsCaches.              *)
(***************************************************************************)
EXTENDS Integers, FiniteSets

CONSTANTS
    Request,    \* requests of clients
    NameServer, \* parent name servers
    TcpServer,  \* those with a "tcp" address
    Config,     \* the values that NameServers and FallbackNS take
    MaxGen,     \* bound on calls of startAllForwarders
    Cap,        \* capacity of a queue (512 in the code)
    Nil         \* nil channel, no request

Gen == 1..MaxGen

\* A forwarder goroutine: the call of startAllForwarders that started it and
\* its name server.
Fw == Gen \X NameServer

\* Queues: 0 is primaryq, which lives as long as the server; g is the
\* fallbackq that the g-th call of startAllForwarders made.
Chan == 0..MaxGen

ASSUME ForwarderAssumption ==
    /\ TcpServer \subseteq NameServer
    /\ Config \subseteq [primary : SUBSET NameServer, fallback : SUBSET NameServer]
    /\ \A c \in Config : c.primary \cap c.fallback = {}
    /\ IsFiniteSet(NameServer)
    /\ MaxGen \in Nat
    /\ Cap \in Nat \ {0}
    /\ Nil \notin Request \cup Chan

VARIABLES
    gen,        \* calls of startAllForwarders so far
    conf,       \* opts.NameServers and opts.FallbackNS, parsed
    phase,      \* "init", "running" or, between stop and start, "restarting"
    fwn,        \* Server.fwn
    fallbackqs, \* the value of Server.fallbackq since each call
    stoppers,   \* Server.fwStoppers
    stopped,    \* forwarders whose stopper channel was written or closed
    primary,    \* forwarders started with isPrimary
    pc,         \* where each forwarder is
    held,       \* the request that each forwarder works on
    queue,      \* contents of the queues
    psPc,       \* where processRequest is: "idle", "fallback" or "send"
    psReq,      \* its request
    psTarget,   \* the queue it sends to
    reply,      \* what was written to the client of a request
    dropped     \* requests thrown away without a reply

server == <<gen, conf, phase, fallbackqs, primary>>
ps == <<psPc, psReq, psTarget>>
vars == <<server, fwn, stoppers, stopped, pc, held, queue, ps, reply, dropped>>

\* NewServer: ServerOptions.init parses no address at all, not even those of
\* FallbackNS, when NameServers is empty.  RestartForwarders parses both lists.
InitOptions(c) == IF c.primary = {} THEN [primary |-> {}, fallback |-> {}] ELSE c

Init ==
    /\ gen = 0
    /\ conf \in {InitOptions(c) : c \in Config}
    /\ phase = "init"
    /\ fwn = 0
    /\ fallbackqs = [g \in Chan |-> Nil]
    /\ stoppers = {}
    /\ stopped = {}
    /\ primary = {}
    /\ pc = [f \in Fw |-> "off"]
    /\ held = [f \in Fw |-> Nil]
    /\ queue = [c \in Chan |-> {}]
    /\ psPc = "idle" /\ psReq = Nil /\ psTarget = Nil
    /\ reply = [r \in Request |-> "none"]
    /\ dropped = {}

(***************************************************************************)
(* Starting and stopping.                                                  *)
(***************************************************************************)

hasFallback == conf.fallback # {}

\* Server.fallbackq.
fallbackq == fallbackqs[gen]

\* The queues that a forwarder was started with: primaryq and fallbackq of
\* runUDPForwarder and the others.
inq(f)  == IF f \in primary THEN 0 ELSE fallbackqs[f[1]]
outq(f) == IF f \in primary THEN fallbackqs[f[1]] ELSE Nil

\* The fallback queue that startAllForwarders leaves in srv.fallbackq.
NextFallbackq == IF hasFallback /\ fallbackq = Nil THEN gen + 1 ELSE Nil

\* The forwarders that startAllForwarders starts for the name servers S.
Starting(S) == {f \in Fw : f[1] = gen + 1 /\ f[2] \in S}

\* startAllForwarders, called by ListenAndServe and by RestartForwarders.
StartAll ==
    /\ phase \in {"init", "restarting"}
    /\ gen < MaxGen
    /\ gen' = gen + 1
    /\ phase' = "running"
    /\ stoppers' = {}
    /\ fallbackqs' = [fallbackqs EXCEPT ![gen + 1] = NextFallbackq]
    /\ primary' = primary \cup Starting(conf.primary)
    /\ pc' = [f \in Fw |-> IF f \in Starting(conf.primary \cup conf.fallback)
                           THEN "new" ELSE pc[f]]
    /\ UNCHANGED <<conf, fwn, stopped, held, queue, ps, reply, dropped>>

\* RestartForwarders up to stopAllForwarders: the new addresses, and a value
\* on every stopper that has been registered, then its close.
Restart(c) ==
    /\ phase = "running"
    /\ gen < MaxGen
    /\ conf' = c
    /\ stopped' = stopped \cup stoppers
    /\ phase' = "restarting"
    /\ UNCHANGED <<gen, fallbackqs, primary, fwn, stoppers, pc, held, queue, ps,
                   reply, dropped>>

(***************************************************************************)
(* processRequest, when the caches have no answer.                         *)
(***************************************************************************)

hasForwarders == fwn > 0

\* Somebody is responsible for the request.
Held(r) ==
    \/ psReq = r
    \/ \E c \in Chan : r \in queue[c]
    \/ \E f \in Fw : held[f] = r

\* A request is taken from requestq and tested against hasForwarders and
\* srv.fallbackq.
Route(r) ==
    /\ phase # "init"
    /\ psPc = "idle"
    /\ reply[r] = "none" /\ r \notin dropped /\ ~Held(r)
    /\ \/ /\ hasForwarders
          /\ psPc' = "send" /\ psReq' = r /\ psTarget' = 0
          /\ UNCHANGED reply
       \/ /\ ~hasForwarders /\ fallbackq # Nil
          /\ psPc' = "fallback" /\ psReq' = r
          /\ UNCHANGED <<psTarget, reply>>
       \/ /\ ~hasForwarders /\ fallbackq = Nil
          /\ reply' = [reply EXCEPT ![r] = "ErrServer"]
          /\ UNCHANGED ps
    /\ UNCHANGED <<server, fwn, stoppers, stopped, pc, held, queue, dropped>>

\* srv.fallbackq is read again for the send: it may have changed.
EvalFallback ==
    /\ psPc = "fallback"
    /\ psPc' = "send" /\ psTarget' = fallbackq
    /\ UNCHANGED <<server, fwn, stoppers, stopped, pc, held, queue, psReq, reply, dropped>>

\* The send blocks while the queue is full, and for ever on a nil channel.
SendRequest ==
    /\ psPc = "send"
    /\ psTarget # Nil
    /\ Cardinality(queue[psTarget]) < Cap
    /\ queue' = [queue EXCEPT ![psTarget] = @ \cup {psReq}]
    /\ psPc' = "idle" /\ psReq' = Nil /\ psTarget' = Nil
    /\ UNCHANGED <<server, fwn, stoppers, stopped, pc, held, reply, dropped>>

(***************************************************************************)
(* The forwarders.                                                         *)
(***************************************************************************)

Tcp(f) == f[2] \in TcpServer

\* incForwarder and decForwarder, called for primary forwarders only.
Inc(f) == fwn' = IF f \in primary THEN fwn + 1 ELSE fwn

\* Mutant of Dec: the count is not kept from falling below zero.
DecUnclamped(f) == fwn' = IF f \in primary THEN fwn - 1 ELSE fwn

Dec(f) == fwn' = IF f \in primary /\ fwn > 0 THEN fwn - 1 ELSE fwn

\* newStopper.  A TCP forwarder counts itself at once.
Register(f) ==
    /\ pc[f] = "new"
    /\ stoppers' = stoppers \cup {f}
    /\ \/ /\ Tcp(f)
          /\ pc' = [pc EXCEPT ![f] = "run"]
          /\ Inc(f)
       \/ /\ ~Tcp(f)
          /\ pc' = [pc EXCEPT ![f] = "connect"]
          /\ UNCHANGED fwn
    /\ UNCHANGED <<server, stopped, held, queue, ps, reply, dropped>>

\* NewUDPClient, NewDoTClient or NewDoHClient succeeds.  While it fails the
\* forwarder sleeps and tries again.
Connect(f) ==
    /\ pc[f] = "connect"
    /\ pc' = [pc EXCEPT ![f] = "run"]
    /\ Inc(f)
    /\ UNCHANGED <<server, stoppers, stopped, held, queue, ps, reply, dropped>>

\* Connecting fails and the stopper is readable: stopForwarder(isPrimary, nil).
StopUnconnected(f) ==
    /\ pc[f] = "connect"
    /\ f \in stopped
    /\ pc' = [pc EXCEPT ![f] = "done"]
    /\ Dec(f)
    /\ UNCHANGED <<server, stoppers, stopped, held, queue, ps, reply, dropped>>

\* Mutant of StopRunning: a break that leaves only the select.
StopRunningLoops(f) ==
    /\ pc[f] = "run"
    /\ f \in stopped
    /\ UNCHANGED pc
    /\ Dec(f)
    /\ UNCHANGED <<server, stoppers, stopped, held, queue, ps, reply, dropped>>

\* The stopper is readable in the select of a running forwarder.
StopRunning(f) ==
    /\ pc[f] = "run"
    /\ f \in stopped
    /\ pc' = [pc EXCEPT ![f] = "done"]
    /\ Dec(f)
    /\ UNCHANGED <<server, stoppers, stopped, held, queue, ps, reply, dropped>>

\* Mutant of Receive: the request stays in the queue.
ReceivePeek(f, r) ==
    /\ pc[f] = "run"
    /\ inq(f) # Nil
    /\ r \in queue[inq(f)]
    /\ pc' = [pc EXCEPT ![f] = "query"]
    /\ held' = [held EXCEPT ![f] = r]
    /\ UNCHANGED <<server, fwn, stoppers, stopped, queue, ps, reply, dropped>>

\* A request is received; from a nil queue, never.
Receive(f, r) ==
    /\ pc[f] = "run"
    /\ inq(f) # Nil
    /\ r \in queue[inq(f)]
    /\ queue' = [queue EXCEPT ![inq(f)] = @ \ {r}]
    /\ pc' = [pc EXCEPT ![f] = "query"]
    /\ held' = [held EXCEPT ![f] = r]
    /\ UNCHANGED <<server, fwn, stoppers, stopped, ps, reply, dropped>>

\* The query succeeds: processResponse writes the response, or an error if
\* it answers another question.
QueryOK(f) ==
    /\ pc[f] = "query"
    /\ \E code \in {"answer", "ErrServer"} : reply' = [reply EXCEPT ![held[f]] = code]
    /\ pc' = [pc EXCEPT ![f] = "run"]
    /\ held' = [held EXCEPT ![f] = Nil]
    /\ UNCHANGED <<server, fwn, stoppers, stopped, queue, ps, dropped>>

\* A TCP forwarder cannot connect: the request is forgotten.
DialFail(f) ==
    /\ pc[f] = "query"
    /\ Tcp(f)
    /\ dropped' = dropped \cup {held[f]}
    /\ pc' = [pc EXCEPT ![f] = "run"]
    /\ held' = [held EXCEPT ![f] = Nil]
    /\ UNCHANGED <<server, fwn, stoppers, stopped, queue, ps, reply>>

\* Mutant of QueryFail: an error is written before the request is passed on.
QueryFailReplies(f) ==
    /\ pc[f] = "query"
    /\ pc' = [pc EXCEPT ![f] = "failing"]
    /\ reply' = [reply EXCEPT ![held[f]] = "ErrServer"]
    /\ UNCHANGED <<server, fwn, stoppers, stopped, held, queue, ps, dropped>>

\* The query fails, by a timeout or a broken connection.
QueryFail(f) ==
    /\ pc[f] = "query"
    /\ pc' = [pc EXCEPT ![f] = "failing"]
    /\ UNCHANGED <<server, fwn, stoppers, stopped, held, queue, ps, reply, dropped>>

\* Mutant of AfterFailure: the outer loop, which reconnects, is missing.
AfterFailureEnds(f) == IF Tcp(f) THEN "run" ELSE "done"

\* Where a forwarder goes after a failed query.
AfterFailure(f) == IF Tcp(f) THEN "run" ELSE "reconnect"

\* After a failed query the request goes to the fallback queue; the send
\* blocks while it is full.
FallBack(f) ==
    /\ pc[f] = "failing"
    /\ outq(f) # Nil
    /\ Cardinality(queue[outq(f)]) < Cap
    /\ queue' = [queue EXCEPT ![outq(f)] = @ \cup {held[f]}]
    /\ pc' = [pc EXCEPT ![f] = AfterFailure(f)]
    /\ held' = [held EXCEPT ![f] = Nil]
    /\ UNCHANGED <<server, fwn, stoppers, stopped, ps, reply, dropped>>

\* Without a fallback queue the request is forgotten.
GiveUp(f) ==
    /\ pc[f] = "failing"
    /\ outq(f) = Nil
    /\ dropped' = dropped \cup {held[f]}
    /\ pc' = [pc EXCEPT ![f] = AfterFailure(f)]
    /\ held' = [held EXCEPT ![f] = Nil]
    /\ UNCHANGED <<server, fwn, stoppers, stopped, queue, ps, reply>>

\* Mutant of Reconnect: the connection is closed, the count kept.
ReconnectCounted(f) ==
    /\ pc[f] = "reconnect"
    /\ pc' = [pc EXCEPT ![f] = "connect"]
    /\ UNCHANGED <<server, fwn, stoppers, stopped, held, queue, ps, reply, dropped>>

\* stopForwarder, then the outer loop connects again.
Reconnect(f) ==
    /\ pc[f] = "reconnect"
    /\ pc' = [pc EXCEPT ![f] = "connect"]
    /\ Dec(f)
    /\ UNCHANGED <<server, stoppers, stopped, held, queue, ps, reply, dropped>>

(***************************************************************************)
(* The specification.                                                      *)
(***************************************************************************)

FwStep(f) ==
    \/ Register(f)
    \/ Connect(f)
    \/ StopUnconnected(f)
    \/ StopRunning(f)
    \/ \E r \in Request : Receive(f, r)
    \/ QueryOK(f)
    \/ DialFail(f)
    \/ QueryFail(f)
    \/ FallBack(f)
    \/ GiveUp(f)
    \/ Reconnect(f)

Next ==
    \/ StartAll
    \/ \E c \in Config : Restart(c)
    \/ \E r \in Request : Route(r)
    \/ EvalFallback
    \/ SendRequest
    \/ \E f \in Fw : FwStep(f)

Spec == Init /\ [][Next]_vars

\* A goroutine that can run does run, RestartForwarders returns, and a name
\* server that is asked again and again is reached in the end.
Fairness ==
    /\ WF_vars(StartAll)
    /\ WF_vars(EvalFallback \/ SendRequest)
    /\ \A f \in Fw : WF_vars(FwStep(f))

FairSpec == Spec /\ Fairness

(***************************************************************************)
(* Properties.                                                             *)
(***************************************************************************)

\* Every variable has the type of the Go variable it stands for; in particular
\* fwn never falls below zero, although stopForwarder is also called for
\* forwarders that were never counted.
TypeOK ==
    /\ gen \in Chan
    /\ conf \in [primary : SUBSET NameServer, fallback : SUBSET NameServer]
    /\ phase \in {"init", "running", "restarting"}
    /\ fwn \in Nat
    /\ fallbackqs \in [Chan -> Chan \cup {Nil}]
    /\ stoppers \subseteq Fw
    /\ stopped \subseteq Fw
    /\ primary \subseteq Fw
    /\ pc \in [Fw -> {"off", "new", "connect", "run", "query", "failing",
                      "reconnect", "done"}]
    /\ held \in [Fw -> Request \cup {Nil}]
    /\ queue \in [Chan -> SUBSET Request]
    /\ psPc \in {"idle", "fallback", "send"}
    /\ psReq \in Request \cup {Nil}
    /\ psTarget \in Chan \cup {Nil}
    /\ reply \in [Request -> {"none", "answer", "ErrServer"}]
    /\ dropped \subseteq Request

\* A request is with processRequest, in one queue or with one forwarder, and
\* never in two places; whoever answers or drops it keeps nothing of it.  So
\* no client gets two replies, whatever fails and whenever the forwarders
\* restart.
OneHolder ==
    \A r \in Request :
        /\ psReq = r => (\A c \in Chan : r \notin queue[c]) /\ (\A f \in Fw : held[f] # r)
        /\ \A c \in Chan : r \in queue[c] =>
              (\A d \in Chan : r \in queue[d] => c = d) /\ (\A f \in Fw : held[f] # r)
        /\ \A f, g \in Fw : held[f] = r /\ held[g] = r => f = g
        /\ reply[r] # "none" \/ r \in dropped => ~Held(r)
        /\ ~(reply[r] # "none" /\ r \in dropped)

\* A primary forwarder that has counted itself and not yet uncounted itself.
Counted == {f \in primary : pc[f] \in {"run", "query", "failing", "reconnect"}}

\* hasForwarders never promises a forwarder that does not exist: the count
\* never exceeds the number of connected primary forwarders.
FwnBound == fwn <= Cardinality(Counted)

\* A reply is final: nothing is written to the client of a request twice.
ReplyOnce == [][\A r \in Request : reply[r] # "none" => reply'[r] = reply[r]]_vars

\* Unless the forwarders are restarted, every request that processRequest
\* accepts is answered, or dropped by a forwarder that has nowhere to pass it
\* on: however often queries and connections fail, it gets stuck nowhere.
RequestSettled ==
    \A r \in Request :
        Held(r) ~> (reply[r] # "none" \/ r \in dropped \/ phase = "restarting" \/ gen > 1)

\* A primary forwarder that waits for ever in the send of a failed request:
\* the fallback queue it was started with is full, and the forwarders that
\* would receive from it have ended.  The send does not look at the stopper.
StuckInSend(f) ==
    /\ pc[f] = "failing"
    /\ outq(f) # Nil
    /\ Cardinality(queue[outq(f)]) = Cap
    /\ \A g \in Fw \ primary : g[1] = f[1] => pc[g] \in {"off", "done"}

\* A forwarder whose stopper was signalled ends, even from the middle of a
\* query, of a reconnect or of a send to a full fallback queue, unless every
\* fallback forwarder of its generation has ended before it and has left that
\* queue full.  Nothing else keeps a signalled forwarder.
StoppedEnds == \A f \in Fw : (f \in stopped) ~> (pc[f] = "done" \/ StuckInSend(f))

\* The same without the exception, which the code does not do: a stopped
\* forwarder that sends to the full queue of its generation never ends.
StoppedEndsAlways == \A f \in Fw : (f \in stopped) ~> (pc[f] = "done")

(***************************************************************************)
(* What comments of the code say and the code does not do.                 *)
(***************************************************************************)

\* serveroptions.go:65, FallbackNS "will be queried if the primary
\* NameServers return an error": there is a queue to pass the request to.
FallbackAvailable ==
    phase = "running" /\ hasFallback => fallbackq # Nil

\* server.go:1139, "stop all forwarder connections": once the new forwarders
\* have been started, every old one has been told to stop.
OldForwardersStopped ==
    phase = "running" => \A f \in Fw :
        f[1] < gen /\ pc[f] # "off" => f \in stopped

\* server.go:312, "Empty nameservers means server will run without forwarding
\* request": after RestartForwarders(nil, nil), processRequest is not blocked
\* for ever in a send on a nil fallbackq.
RunsWithoutNameServers ==
    conf.primary = {} /\ conf.fallback = {} => ~(psPc = "send" /\ psTarget = Nil)
=============================================================================
