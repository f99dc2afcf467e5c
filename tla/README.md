# Models and proofs of share

`share` (lib/ and cmd/ of this repository) is a collection of Go libraries with
a few servers in it: a caching DNS server (lib/dns), an SMTP server (lib/smtp),
a WebSocket server (lib/websocket), an HTTP server over an in-memory file system
(lib/http, lib/memfs, lib/io), and libraries that read, write and transform data
(ini, dsv, tabula, hunspell, email and DKIM). This directory holds TLA+ models
of the parts whose correctness depends on the order in which goroutines,
processes, clients and callers act, or on an algorithm that is hard to test, the
TLC configurations that check them on small instances, and TLAPS proofs of what
matters most for instances of any size.

`PROJECT.json` maps every definition to the lines it models, and lists the
components, the runs, the theorems, the hazards and the mutants: each property
of a run has a mutant of the model, a plausible mistake in that code, that the
property catches.

To check a run: `tlc -workers 2 -config DnsCaches_serve.cfg MCDnsCaches`. To
check the proofs: `tlapm DnsCachesProofs.tla` (some ten minutes; the other proof
modules take seconds to minutes).

## 1. Inventory

| part | state | operations | interacts through | hard behaviour |
|---|---|---|---|---|
| DNS caches (`caches.go`, `answers.go`, `answer.go`) | map `v` from a name to its answers, list `lru`, one mutex; the answers themselves | `get`, `upsert`, `prune`, `updateTTL` | the mutex; `*answer` pointers that are used after the unlock | unlocked reads and writes of an answer, prune in between, local against received answers |
| DNS forwarders (`server.go`, `serveroptions.go`) | `primaryq`, `fallbackq`, `fwn`, `fwStoppers`, a connection per goroutine | `startAllForwarders`, `RestartForwarders`, `run{UDP,TCP,TLS,Doh}Forwarder`, `newStopper`, `stopForwarder`; `processRequest` chooses the queue | buffered channels of 512, stopper channels, `fwn` | restart while queries are open, timeouts, full queues, reads of `fallbackq` without a lock |
| DNS listeners and lifecycle (`server.go`) | listeners, `requestq`, `errListener` | `ListenAndServe`, `Stop`, `serve*` | `requestq` | `Stop` against listeners that still send |
| DNS clients, UDP pool | a socket, timeouts | `Query`, `Lookup` | forwarders | replies are not compared with queries; late and cut replies |
| DNS messages | packet, offset, names already packed | `Pack`, `Unpack`, `SubTTL`, setters | caches write into packets in place | offsets and pointers over all record types |
| zone and hosts files | owner, origin, TTL and class of the lines before | `MasterLoad`, `HostsLoad` | caches | what is left out comes from earlier lines |
| SMTP server (`server.go`, `receiver.go`, `mail.go`, `command.go`) | per connection: state, authenticated, transaction; three queues of 512 | one handler per command, `processMailTx`, three queue goroutines, `Start`, `Stop` | `mailTxQueue`, `bounceQueue`, `relayQueue` | any order of commands, full queues, retries, `Stop` |
| SMTP storage and accounts | files, a shared gob encoder and decoder, accounts | `MailSave`, `MailLoad`, `MailLoadAll`, `MailBounce`, `ServeAuth`, `ServeVerify` | the file system | crashes and restarts |
| SMTP client | connection, the server's session | `connect`, `ehlo`, `MailTx`, `recv` | TCP | a reply in pieces, a failed transaction before |
| WebSocket server | `ClientManager` (connections, contexts, parts of frames), epoll set | accept, upgrade, `reader`, `pinger`, `handleText`, `ClientRemove`, `Stop` | epoll goroutine, pinger and handlers share the manager | removal by several, a descriptor used again, one-shot polling |
| WebSocket client, frames, handshake, routes | connection, frame under construction; a tree | `Connect`, `serve`, `Quit`, `send`; `unpack`, `parse`; `add`, `get` | user and serve goroutines | old goroutines and new connections; bytes cut anywhere; pooled objects |
| io watchers | tree, times, watchers, tickers | `DirWatcher.Start`, `onContentChange`, `onRootDeleted`, `Watcher` | the file system, callbacks | changes between a Stat and a listing |
| memfs, http | tree and index of nodes; routes of five methods | `Mount`, `Get`, `AddChild`, `RemoveChild`; `Register*`, `ServeHTTP` | the file system | tree and index, staleness; routes that hide each other |
| maildir | counter, directories tmp, new, cur, out | `Incoming`, `OutQueue`, `Get`, `Delete`, `RemoveAll` | the file system, other processes | unique names, a crash between two calls |
| email canonical forms, DKIM | a message, the pool of keys | `DKIMSign`, `DKIMVerify`, `Relaxed`, `Simple`, `KeyPool.Get` | DNS, relays | lookups that finish out of order, withdrawn keys, altered mail |
| ini, dsv, tabula, text/diff, ints, hunspell | sections shared by pointer; lines; rows and columns; indices; tables and words | see section 2 | - | long sequences of calls, boundaries of algorithms |
| xmlrpc, spf, net, ssh, git, sql, mining, math, contact, helpers, cmd | mostly none | - | - | sequential code over I/O, pure or floating-point code: not modelled |

## 2. Modules

| module | what it is | theorems | run |
|---|---|---|---|
| `DnsCaches`, `DnsForwarders`, `SmtpServer` | the concurrent core, below | `*Proofs` | `MCDnsCaches`, `MCDnsForwarders`, `MCSmtpServer` |
| `WsServer`, `WsClient`, `WsFrame`, `WsHandshake`, `WsRoutes` | lib/websocket | `WebsocketProofs` | `MCNet` |
| `DnsClients`, `DnsListeners` | clients and pool; ListenAndServe and Stop | `DnsTransportProofs` | `MCNet` |
| `SmtpClient` | MailTx against the session of the server | `SmtpClientProofs` | `MCNet` |
| `MemFS`, `DirWatcher` | the tree in memory; the watchers of a tree on disk | `FilesProofs` | `MCFiles` |
| `Maildir`, `SmtpLocal` | mail as files, with crashes | `MailStoreProofs` | `MCFiles` |
| `HttpServer` | endpoints, routes, dispatch, OPTIONS | `FilesProofs` | `MCFiles` |
| `DnsMessage`, `MasterFile`, `Hosts` | packets, zone files, hosts files | `FilesProofs` (zone and hosts files) | `MCFormats` |
| `Ini`, `IniReader` | sections and values; the reader and writer of the text | `FilesProofs` (reader) | `MCFormats` |
| `Tabula`, implementing `Table` | datasets in rows, columns or both; the abstract table | `FilesProofs` (the refinement) | `MCFormats` |
| `Dsv`, `Sorts`, `TextDiff` | files of rows; in-place sorts; differences | - | `MCFormats` |
| `EmailCanon`, `Dkim` | canonical forms; signatures, keys and their pool | - | `MCFormats` |
| `Hunspell` | affix file, dictionary, derivation, Analyze | - | `MCFormats` |

`MCNet`, `MCFiles` and `MCFormats` check independent components in one run. The
components share no state, so their product would only multiply states: each
module has its own variables, `part` says which one moves (chosen in Init from
`Parts`) and the variables of the others stay at their initial values. A part may
occur twice with different bounds (`wsFrames`, `wsReuse`, `wsPair`; `wcOne`,
`wcTwo`; `dkimOne`, `dkimTwo`), so that one instance has more frames and another
more connections.

The DNS modules meet where the code does: `DnsListeners` ends at `requestq`,
`DnsForwarders` begins where `DnsCaches` has found nothing, and what a response
does to the caches is `Receive` of `DnsCaches`. `SmtpClient` has the session of
the server inside it, one action per command of each. Otherwise the parts are
independent.

### DnsCaches

`heap` holds the answer objects, `v` and `lru` the two storages, `lock` the
goroutine inside `caches.Mutex`. What the code does under the lock is one step
unless someone else can see the middle of it without the lock: `upsert` of an
existing answer is two steps (`UpdateTimes`, `UpdateMsg`), because processRequest
reads the fields of an answer without the lock, and `prune` is one step per
answer. The unlocked work of processRequest is one step per access:
`CheckExpired`, `SetID`, `CheckLocal`, `Age`, `DecreaseTTL`, `Respond`. A message
is its ID, its smallest TTL and, for the properties, the second at which its TTL
ends. The steps that dereference `an.msg` need it to be non-nil; in Go they panic
otherwise, and `NoNilMessage` says that this does not happen.

Time: `Tick` advances the clock by a second, under `Timely`: the unlocked section
of processRequest, and the time between `newAnswer` and the end of `upsert`, take
at most `StepMax` seconds, and `2 * StepMax < PruneThreshold`. The code's
threshold is at least a minute, so the assumption only excludes a goroutine that
is suspended for half a minute; without it, prune can clear an answer in use.

`ReloadWhileServing` says whether files are loaded after `ListenAndServe`. The
passing runs set it to FALSE, the way the repository's test and example use the
server (`dns_test.go:46`, `example_server_test.go:53`). The theorems on types and
on the two storages hold for both values.

### DnsForwarders

A forwarder is a pair of the call of `startAllForwarders` that started it and its
name server, so goroutines of several generations run together, each with the
fallback queue it was started with. The life of a UDP, DoT or DoH forwarder is
`new`, `connect`, `run`, `query`, `failing`, `reconnect` and back to `connect`; a
TCP forwarder goes from `failing` to `run`. `fallbackqs[g]` is the value of
`Server.fallbackq` after the g-th call. Queues are sets with a capacity: the
properties do not depend on their order. processRequest tests `fallbackq` in
`Route` and reads it again in `EvalFallback`, since a restart fits in between.

### SmtpServer

A connection is on port 25 (server mode) or in `ClientMode` (port 465). Each
handler is one action with its reply: nobody but the connection's own goroutine
touches its state, so a failed read or write is `Disconnect`, possible at every
command. `CheckedTx` is what the test for authentication leaves behind in
`handleRCPT` and `handleDATA`, which do *not* return after the error. The loop of
handle tests `running` before it waits for a command (`Again`), so a command that
arrives after the server stopped is still handled. `processMailTx` is one step per
recipient, since it can block in the middle. A send to a queue that `Stop` has
closed panics and ends the program; the model has no step for it.

### The network parts (MCNet)

* `WsServer`: the upgrader, the reader, the pinger and the goroutine of a text
  handler each have a program counter and a descriptor. The kernel hands out the
  lowest free descriptor; `gen` tells the connections of a descriptor apart.
  `ClientManager.remove` and the close of the socket are two steps, so a new
  client may get the descriptor in between. A read returns a frame, or the head or
  the tail of one.
* `WsClient`: one user goroutine, one serve goroutine per Connect. `conn` is read
  in one step and used in the next, because only Quit takes the lock.
* `WsFrame`: bytes are counted with the real sizes of headers (7 bits, 126 and two
  bytes, 127 and eight), not written out.
* `WsHandshake`: one header per step, into a Handshake that keeps what its last
  user left. `WsRoutes`: the tree is the set of its nodes; the loops of add and get
  over the segments of a target are recursive functions.
* `DnsClients`: one step for a write and one for a read on a socket; the network
  delays, loses and reorders datagrams, and cuts streams. Not modelled: a write that
  fails (`udpclient.go:119-123`) and a datagram that arrives twice; both would end in
  the state that `dcFault` already excepts.
* `DnsListeners`: four listeners, `errListener` with one place, `Stop` one step per
  listener, since listeners and the application run beside it.
* `SmtpClient`: a reply may be read in two parts, and the rest of it is then read
  as the reply to the next command; while the server reads the text of a mail, it
  takes the commands of a client that is behind for text. The server is this
  repository's, on its port for clients: it asks for authentication, goes on after
  refusing RCPT and DATA, and has no STARTTLS, which ends the connection as any line
  does that is no command.

### The file parts (MCFiles)

* `MemFS`: nodes are `<<path, gen>>`, so a node made by a later scan is another
  node; the disk changes between calls, modes included. A Get that finds a new mode
  takes the mode and returns (`node.go:351-354`). An empty file is added if its
  extension tells its type (`MfTyped`), else its Read fails and it is skipped.
* `DirWatcher`: Stat, listing and the visit of one directory are steps; the map of
  directories is ranged over in any order, and may or may not show entries that are
  inserted meanwhile, as Go's map does. Each file has a watcher of its own. `dwLost`
  remembers the directories that unmapSubdirs drops with a parent that is back at the
  next listing. A Mount may fail because a directory goes away during its scan
  (`DwMountFail`): memfs then has a root, the watcher has none, and its next tick
  panics (`DwPanic`).
* `Maildir`: one step per system call; a process may crash between any two and
  start again with its counter at zero. The panic after five attempts at a name
  (`manager.go:267`) is not modelled.
* `SmtpLocal`: one gob encoder and one decoder per run of the process: a file holds
  the types only if it is the first of its run. A mail may be saved again under its id:
  WriteFile truncates first, so a crash or a failed write then costs the mail that was
  there.
* `HttpServer`: registration, then requests of every method. newRoute trims blanks and
  drops empty sub-paths, parse of a request does neither; an error keeps the code that
  the endpoint gave it.

### The data parts (MCFormats)

Each module builds its input step by step (lines, records, calls) and applies the
code's operators; the property compares the result with a reference definition
that is stated over the whole input. Text is lines and words, or one of a few
characters where a reader is an automaton over characters (`IniReader`, `Dsv`,
`EmailCanon`). `DnsMessage` keeps octets, since offsets are what it is about.
In `Dkim` a hash or an RSA signature is the value it was made from; `dkGot` is stamped
when Get returns. `MasterFile` keeps what a line leaves for the next one (`mzCarry`): a
line that is skipped, the numbers of an SOA without parentheses, a text of one word that
is not closed yet, the leading blanks after an SRV record; `$INCLUDE` without a domain
takes its origin from the name of the file. In `Ini` every reader counts, Get and Gets,
and the two objects may share sections. `Hunspell` has the four types of flags, a long
one being two characters; it goes by the name of an affix, so a prefix hides a suffix of
the same name, as the code's map does. In `TextDiff` similarity is a relation: the
loops of BytesRatio are not modelled.

`Table` is what a dataset promises: a sequence of rows to append to, delete from,
widen, fill, permute and look at. `TaIsTable` says that `Tabula` implements it
under the mapping `TaTable`, the rows or the transposed columns, whichever the mode
says; a dataset whose two forms were made to differ by a call (`taTorn`: a column
pushed under a name it has, columns sorted alone) is out of its scope.

## 3. Runs

| run | checks | instance |
|---|---|---|
| `caches_serve` | TypeOK, AnswersUnique, LruMatchesMap, TTLNotOverstated, LocalNeverPruned, NoNilMessage | one name with two types, three answer objects, a forwarder, clock to 5, threshold 3, steps of up to 1 s; 1.4 million states |
| `caches_live` | RequestLeaves | one type, two forwarders, clock to 4 |
| `forward_restart` | TypeOK, OneHolder, FwnBound, ReplyOnce | a UDP and a TCP primary and a UDP fallback, two requests, one restart, queues of one place; 0.8 million states |
| `forward_live` | RequestSettled, StoppedEnds | a primary with and without a fallback, or none, two requests, one restart, queues of one place; 0.14 million states |
| `smtp_session` | TypeOK, AuthenticatedMail, AcceptedIsQueued, BounceAfterRetries | a connection on each port, a recipient of each kind, two recipients and one transaction for each connection, queues of one place, RetryMax 1, hence two failures; 2.2 million states |
| `net` | seven invariants, below | 2.0 million states |
| `files` | six invariants, below | 0.8 million states |
| `formats` | eight invariants, a step property and a refinement, below | 1.2 million states |

The properties of the last three runs are conjunctions of named parts, each stated
and commented in its module:

| property | parts | what they say |
|---|---|---|
| `WsServerSound` | WsManagerConsistent, WsNotDeaf, WsReassembled | the manager's maps agree although clients are removed by several goroutines and descriptors are used again; a connected client is armed in epoll, being read or being removed; messages arrive whole and in order |
| `WsClientSound` | WcNoLeak, WcAttended, WcReassembled | whoever calls Quit, a connection is closed once and none is left open; an open one has a reader; messages arrive whole |
| `WsWireExact` | WfExact, WhAccepted | frames come out as they went in, wherever packets are cut; a handshake is accepted for its own headers only |
| `WrRouted` | WrSound, WrOneParam | a target has one reading, and static routes are never hidden |
| `DnsTransportSound` | DcMatched, DlNoticed, DlDrained | a query gets its own reply; an error of a listener is noticed; accepted requests are processed |
| `ScSound` | ScDelivered, ScOwnRecipients, ScAuthFirst | what MailTx reports as sent was sent, up to the first reply read in part, to its recipients and no other, up to the first call that fails; no mail is taken without authentication |
| `MfSound` | MfTreeIndexed, MfFresh | tree and index agree; in development Get is stale at most once, right after a change of mode |
| `DwSound` | DwComplete, DwWatched | after three quiet ticks all is in the tree but what is below a lost directory; every file of it has a watcher |
| `MdSound` | MdKept, MdWhole, MdNoClash | delivered mail stays, whole and once; no delivery fails for its name |
| `SlSound` | SlKept, SlAuthVerify | saved mail survives crashes and failed writes of other mails; AUTH and VRFY know the same accounts |
| `HtSound` | HtReachable, HtOptionsAgree | an accepted endpoint whose route takes its own path can be called; OPTIONS tells what the server answers |
| `FormatsRoundTrip` | IniRoundTrip, IrRoundTrip, DvRoundTrip, DkKeyRoundTrip, DmDecodes, DmHeaderAgrees | what is written is read back |
| `ZonesRead` | MzMeaning, MzOneMessage, HsOwnLine | zone and hosts files mean what their lines say, but for the lines that the parser loses |
| `IniRead` | IrMeaning, IrOwnSection, IniReadsKept, IniRebased, IniApart | ini texts mean what their lines say; Prune, Subs, Set and Rebase keep the values they should, all of a key and its last; objects are independent until they share a section |
| `DataKept` | DvAccounted, TaMatrixAgrees, TaPartition, SoSorted, SoDistance | no value is lost, made up or moved by reading, splitting, sorting |
| `DfSound` | DfScript, DfBalanced | a difference leads from one text to the other |
| `MailSigned` | EcTailIgnored, EcFieldStable, DkNoFalseAccept, DkNoFalseReject, DkFresh | altered mail is not accepted, intact mail is not refused, a withdrawn key dies with its TTL, but for a Get that was suspended |
| `HuSound` | HuTablesKept, HuDerived, HuRootWins | the dictionary knows what its rules derive |
| `FormatsSteps` | DkSettled, DfProgress | a verdict is not taken back; Files goes forward in each pass |
| `TaIsTable` | - | Tabula implements Table |

Parts that are said of a part of the states only name the exception in their
comment, and the exception is what the code really does there: `DcMatched` ends
with the first timeout or cut reply (`dcFault`), `ScDelivered` with the first reply
that a call read in part (`scCut`), `ScOwnRecipients` with the first call that failed,
`WsReassembled` begins with the registration of a descriptor that
was not used before, `WcReassembled` is about the first connection, `MfTreeIndexed`
leaves out what refresh doubles in development, `MfFresh` files that are too large and
the Get that takes a new mode, `DwComplete` what is below a lost directory (`dwLost`),
`SlKept` a mail that is being saved again, `HtReachable` routes with blanks or empty
sub-paths, `HsOwnLine` lines that end in
blanks (`hsTrailing`), `IrMeaning` an escape after a blank (`irMoved`), `DmDecodes`
the records behind a wrong offset (`dmDrift`), `DmHeaderAgrees` a second error code
(`dmMixed`), `MzMeaning` the line after `$TTL n` or after a text of one word (`mzLost`)
and files whose lines were read as others (`mzBent`), `MzOneMessage` included files,
`IniRebased` (which value wins) repeated and shared sections, `HuTablesKept` tables
announced with no rows, `DkNoFalseReject` a message that was signed twice, `DkFresh` a
Get that returns after its key has expired, `StoppedEnds` a forwarder in a send to a
full queue that nobody reads any more (`StuckInSend`).

Why these bounds show something. Caches: two types under one name are what
`answers.remove` and `answers.get` can confuse; the clock reaches beyond the
threshold, so answers are pruned and received again. Forwarders: two generations
are what a restart mixes up; queues of one place are full after one send. SMTP: two
recipients make `processMailTx` stop half way; two failures are one more than
`RetryMax`. WebSocket: three scenarios with one thing each, two frames on a connection
(two fragments, or a fragment and a ping), three connections one after the other on a
descriptor, so that it is used again while its first owner is being removed, and two
connections side by side. No scenario has all of it: three connections on two
descriptors with three frames, or more, are covered by the theorem `ServerSound` only.
Frames: lengths on both sides of 125, 126, 127 and 65536 with cuts inside header and mask. Three
queries on a client make a late reply meet a query behind the next one. Five calls
to Authenticate and MailTx follow failed ones and delivered ones, and are enough for a
client that is behind to send its next command into the text of a mail. Files: three
changes between calls are a creation, a removal and a creation again, or a chmod and a
write; two generations are a mount and one more scan; the watcher has a directory in a
directory and a file below it, which may be there from the beginning, and five changes,
enough to lose it; two processes with one clock value and a
restart each are what names must survive. Formats: four lines of a zone leave out
owner, class and TTL after each other and after a directive; three calls on ini
sections reach shared sections; eight elements make the merge sort split into parts
above and below its threshold (3 here, 7 in the code, so that both paths occur);
five calls on a dataset pass through all three modes. The mutants of `PROJECT.json` confirm
that each property can fail within its bounds; further operators whose comment begins
with "Mutant of" do so for the single parts (a key whose time to live counts from the
wrong moment for DkFresh, names without the counter for MdNoClash, and others).

Deadlock is checked in the cache runs. The other cfgs say CHECK_DEADLOCK FALSE:
the servers rest when all requests of the instance are settled, and data has been
read to its end.

Fairness. `caches_live`: steps of processRequest that need no lock, and of the
goroutine that holds the lock, are weakly fair (a goroutine that can run runs);
`caches.get` is strongly fair, since Go's mutex hands itself to a goroutine that
has waited for a millisecond. The clock and the prune ticker need no fairness.
`forward_live`: each forwarder is weakly fair as a whole, which includes that a
name server that is dialled again and again is reached in the end, or the stopper
is read; the choice between success and failure of a query stays free.
`StoppedEnds` is checked with queues of one place for two requests: a forwarder may
meet the full fallback queue of an old generation, and `StuckInSend` is the only state
that keeps it; `StoppedEndsAlways` does not hold (section 5). `smtp_processed`
assumes that the queue goroutines run and that a handler that is called again and
again succeeds in the end. The other runs check safety; where something must
happen, it is said as a bound (DwComplete: within three ticks) or as a state in
which nobody is left to act (WsNotDeaf, WcAttended, DlNoticed).

Runs in which the code does something else than its comments say (each is a
finding in `PROJECT.json`):

| run | what TLC shows |
|---|---|
| `caches_reply_id` | an upsert between `SetID` and the read of `an.msg`: the reply carries another ID |
| `forward_no_fallback` | the second call of `startAllForwarders` sets `fallbackq` to nil |
| `smtp_processed` | the queue loop receives once: the second mail is never processed |
| `message_offset` | after packing the root name, a name with a final dot, or an SOA, AAAA, TXT or OPT record, `off` is not the length of the packet |

## 4. Proofs

All theorems hold for every value of the constants under the named assumptions of
the modules (`TimeAssumption`, `NilAssumption`, `ProcessAssumption`;
`ForwarderAssumption`; `SmtpAssumption`; `MdAssumption`, `SlAssumption`;
`DcAssumption`, `DlAssumption`; `WcAssumption`, `WhAssumption`, `WrAssumption`;
`WfAssumption`, `WsAssumption`; `ScAssumption`; `MfAssumption`, `DwAssumption`,
`HtAssumption`; `MzAssumption`, `HsAssumption`, `IrAssumption`, `TaAssumption`), which
TLC evaluates on every run. Each inductive invariant that TLC can evaluate was also
checked on the instance of its run. Each proof has one lemma per action, or one step of a lemma, and its last step
combines them for the specification.

**DnsCachesProofs.** `CacheInvariant` proves the inductive
`IInv == TypeOK /\ AnswersUnique /\ LruMatchesMap` with facts about the new
answers of the writers and about the local variables of processRequest. The two
storages alone are not inductive: prune must know that the answer at the front of
`lru` is the one `Found` returns for its name and type, and the unlocked writes of
processRequest must hit an object that still has its name and type; the lemma
`GentleKeeps` is that argument once for all steps that change only other fields.
From it: `TypeCorrect`, `AnswersStayUnique`, `StoragesAgree` (for both values of
`ReloadWhileServing`). `LocalAnswersKept` (LocalNeverPruned, when nothing is loaded
while serving) needs more: a loaded question has an answer with `receivedAt = 0`
that is not in `lru`, and before `ListenAndServe` every answer is local
(`LocalInv`).

`TimeInvariant` is about time. `ClockInv`: what a forwarder has received and what
processRequest has in hand is at most `StepMax` seconds old, and a received answer in
hand was accessed at most `StepMax` before it was taken; so with
`2 * StepMax < PruneThreshold` prune, which removes what was accessed before
`now - PruneThreshold`, never meets the answer in hand. `FreshInv`: the TTL of a
message, counted from `receivedAt`, ends no later than the parent name server said,
for new answers, for those in the map and for the one in hand at each step of the
unlocked work. From it `TTLKept` (TTLNotOverstated) and, with `HandInMap` (what get
returned stays in the map, when no file is loaded while serving), `MessageInHand`
(NoNilMessage).

**DnsForwardersProofs.** `ForwarderInvariant` adds to the properties who may hold
a request (a forwarder holds one exactly in `query` and `failing`, processRequest
exactly when it is not idle) and that the next generation has not started. From it:
`ForwarderTypes`, `RequestHasOneHolder`, `CountWithinBound` and the action property
`RepliesAreFinal`. `CountWithinBound` needs `IsFiniteSet(NameServer)`; it is the
reason that `Dec` may be called too often but never too seldom.

**SmtpServerProofs.** `SmtpInvariant` adds `SessionInv`: a connection past DATA has
authenticated and has recipients, and the mails before `todo` are queued; state
RCPT implies a recipient. `NoOpenRelay` and `PromisesKept` follow. `BouncedInTime`
(BounceAfterRetries) is about `failures`, the failed deliveries of the mail in hand,
which the model counts apart from `mail.Retry`. `RetryInv` adds that the two agree until
the mail is given up, that the counter of the code never passes `RetryMax`, and that
nothing is in `bounceQueue` before the first mail was taken. A mail is given up with
failure `RetryMax` + 1, the sixth with the 5 of the code.

**SmtpClientProofs.** `SentIsOwn` (ScSound). `ScInv` says that client and server are
in step as long as no reply was read in part: while MailTx waits there is one command
or one whole reply on its way (`ScAtMail`, `ScAtRcpt`, `ScAtData`, `ScAtMessage`), the
server has the recipients that were sent, and exactly these if no MailTx failed
before, and when the reply to the text is there, the last mail taken is the one of
MailTx. ScAuthFirst needs no such limit: it is kept by the server alone. The key lemma, `ScWholeRead`: of one whole reply recv finds all or no reply.
`SmtpClientInNet` is the same for the composed run. An earlier version without `scCut`
could not be proved, and a larger instance showed why (section 5, lib/smtp).

**MailStoreProofs.** `AcceptedMailKept` (MdSound) rests on `MdInv`: names are made of
time, process and counter, so the name of a call is new among the names of its process
(`MdPast`: no file carries a later time, or the same time and a counter that was not
used yet), a file that is not linked yet is only in tmp (`MdUnlinked`), and a mail is
in one of new and cur once (`MdOnce`). `SavedMailKept` (SlSound): `SlInv` says which
file MailSave is writing, which is then not among the saved ones even if it was before,
so that a crash or a failed write leaves only that one cut.

**DnsTransportProofs.** `ListenersSound` (DlNoticed, DlDrained) with `DlInv`: a
request that was accepted is in `requestq`, with a listener or processed, and a
listener that ended has left its error or ListenAndServe has had one. `OwnAnswer`
(DcMatched) with `DcInv`: the mutex of a UDP client, or the pool that hands a client
to one goroutine, leaves one reader, hence one question, hence one answer on the way.
`TransportSound` is both in the composed run.

**WebsocketProofs.** `ClientSound` (WsClientSound): `WcInv` says whose turn it is to
close a socket, and that the pieces of the first connection, those in the packet that
is handled and those still in the socket, are one stream in which a tail follows its
head and numbers ascend, above all that is kept in `frame` and `frames`.
`ServerSound` (WsServerSound) is about four goroutines that share the manager, so its
invariant `WsInv` has four parts besides the property. `WsTurns`: which goroutine may be
at which call, and with which connection. `WsManaged`: the views of ClientManager agree,
and what the upgrader is about to add is not there. `WsPolled`: an open descriptor that
the upgrader has registered is known to epoll, and armed unless somebody has it in hand.
The rest of `WsConn` is about the first connection of a descriptor: while it is on its way
in (`WsEntering`) it is in one place and nobody else has touched it, if it is added while
it is being closed it has gone and left no byte (`WsLeaving`), and once it is served the
frames kept of it and those on their way are one stream, as for the client
(`WsReading`). The stream lemmas serve both.
`FramesExact` (WfExact, WfTypeOK): `WfInv` accounts for every byte, which is in a frame
decoded, in the frame under construction, in the packet or not received, and says how far
the frame under construction is (`WfPhase`). With a length of 127 octets it is `WfLost`
that is kept: the frame waits for more bytes than the stream has (section 5).
`WireExactInNet` is this with the handshake in the composed run, `NetTypes` the types
of all eight components in it.
`HandshakeOwn` (WhAccepted): the flags that are set are those of headers seen once, in
this request. `RoutesRead` (WrRouted) with `WrTree`: every prefix of a node is a node,
and only nodes have handlers. A path of get is then followed by induction over its
segments: at each segment get is at no node or at one that matches so far (`WrWalkIs`),
and, if the names of the target are a node, at its prefix, since `WrChild` tries the
name first. One parameter below a node is kept by add because it stops at the first
segment that addChild refuses (`WrAddMakes`). `WebsocketClientInNet`,
`WebsocketServerInNet` and `RoutesInNet` are the theorems on client, server and routes in
the composed run.

**FilesProofs.** `TreeIndexed` (MfSound): `MfOwn` says that, outside development, an
indexed directory has at most one child of a path, the one in the index; without it
removing a child could leave another of that path; MfFresh holds because a Get that
takes no content has taken the mode. `FilesWatched` (DwWatched, the
second half of DwSound): `DwHeld` says the same whether or not the tree still shows the
file, since its node outlives its place in the tree. `RoutesAgree` (HtSound): `HtUnhidden`, no route of
a method takes the path of a later one; the rest is what parse makes of the nodes that
newRoute made from a path (`HtSome`), for the routes that take their own path. `FilesTypes` is the types of the composed run; it
needs that a directory lists only its own entries and a watcher holds a time that was
(`DwShape`, `WatcherTypes`), which the loops that drop nodes (`DwKeep`, `MfPrune`) keep,
and that a route has no key twice (`RouteKeys`). The loops are over finite sets of paths,
so `DwPaths` and `MfPaths` are assumed to be finite.

The readers. `HostsOwnLine`: while the parser is at the names of a line, the address in
hand is of that line (`HsInHand`). `ZoneOneMessage`: messages have different questions
(`MzApart`), because push looks for the question of a record before it adds a message.
`LinesInOwnSection`: `IrFine`, of the sections closed and the open one as of the sections
of a file that is read; every line is in a section, after its header and before the next.

The refinement. `DatasetIsTable` (TaIsTable) shows that a dataset in any of its modes
implements `Table`, a sequence of rows, the mapping being `TaTable`. `TaInv` says that
until `taTorn` the dataset is whole: its rows have the width of its columns, or its columns
are of one length, and in matrix mode their grid (`TaGrid`) is the rows. Each call is shown
to keep that and to change the table as one of the steps of `Table`: a transposition is a
stutter because the rows of the columns of rows are these rows, provided every row has a
record (`TaTypes` is not empty: no columns would be left of rows without records). After
the call that tears it the dataset is mapped to the empty table, until Reset, and all that is
kept is that it has columns.
`MatrixAgrees` follows from the same invariant.

Two lemmas about loops serve both modules of the composed runs. The library's induction theorems take an
operator, so the induction is over a set instead: `NatSetInduction` and `WrInduction`
say that a set that has 0, and n + 1 with n, has every natural, from the least element
that the well-founded order of the naturals gives the rest. With it a recursive function
over `0..n` is shown to exist (`HtLoops`, `WrLoops`, `WrWalks`, `DwLoops`,
`MfLoops`), and then to have a
property at each argument.

Only model-checked:

* the liveness properties (RequestLeaves, RequestSettled, StoppedEnds), since the
  prover has no fairness;
* DwComplete, the first half of DwSound: its three ticks are for directories two deep,
  so it is a fact about the run's tree and not about every tree;
* the properties of `formats` as wholes, with the step property FormatsSteps:
  `DnsMessage`, `EmailCanon`, `Hunspell`, `Sorts`, `TextDiff` and `Dsv` have RECURSIVE
  operators, which the prover cannot unfold, and `MCFormats` extends them. Proved of them
  for the component alone are HsOwnLine and MzOneMessage (of ZonesRead), IrOwnSection (of
  IniRead), TaMatrixAgrees (of DataKept) and the refinement TaIsTable. MzMeaning, the other
  parts of IniRead, TaPartition and `Dkim` compare what folds over lines, values and
  signatures compute with a definition of its own: induction over data.

## 5. Disagreements without a run

The code does something else than the quoted line says. Definitions that are named
are kept in their modules, fail within the bounds of section 3, and are
checked by no run; put in a cfg as INVARIANT (PROPERTY for `PruneComplete`,
`StoppedEndsAlways` and `MfNoEmptyDir`) they give the counterexample. Paths are under `src/lib/`.

| definition | line | what happens |
|---|---|---|
| `LocalNeverPruned` with `ReloadWhileServing = TRUE` | `dns/server.go:55` "Local caches will never get pruned." | a hosts file loaded over a received answer leaves a local answer in `lru`, and prune removes it |
| `PruneComplete` | `dns/serveroptions.go:104` "any answers that has not been accessed in the last 1 minute will be removed from cache" | upsert changes `accessedAt` but not the place in `lru`; prune stops early |
| `OldForwardersStopped` | `dns/server.go:1139` "stopAllForwarders stop all forwarder connections." | a forwarder that registers between stop and start is never stopped |
| `RunsWithoutNameServers` | `dns/server.go:312` "Empty nameservers means server will run without forwarding request." | a restart between the test of `fallbackq` and the send blocks processRequest for ever |
| `StoppedEndsAlways` | `dns/server.go:1139`, as above | a primary forwarder that sends a failed request to the full fallback queue of a generation whose fallback forwarders have ended waits for ever (`dns/server.go:1107`) |
| `DcTcpMatched` | `dns/tcpclient.go:86` "This function is safe to be used concurrently." | Query writes and reads without a lock: two goroutines exchange their replies |
| `DlAllClosed` | `dns/server.go:345` "Stop the server, close all listeners." | a DoT listener that opens after Stop has passed it stays open |
| `MzOnce` | - (what a zone file means) | `dns/masterfile.go:236`: the loop pushes the record it still holds after a directive, so a record before `$ORIGIN` is there twice |
| `MzMeansAll` | - (what a zone file means) | `dns/masterfile.go:372`: after `$TTL n` ReadUntil has consumed the newline and SkipLine skips another line; a text of one word is joined with the next line (`masterfile.go:908`) |
| `MfFreshAtOnce` | `memfs/node.go:340` "Change on mode will not affect the content of node." | after a chmod and a write the next Get in development returns the old content |
| `MfNoEmptyDir` | `memfs/memfs.go:489` "remove node that is directory and does not have childs" | a directory that becomes empty when its child is pruned may have been passed already |
| `DwNoPhantom` | `io/dirwatcher.go:138` "compare them with old content to detect deletion and addition of files" | the child after a removed one is not examined |
| `DwCompleteBelow` | `io/dirwatcher.go:138`, as above | a directory that went with its parent while processSubdirs ran, both created again before the next listing, is not mapped again (`dirwatcher.go:124-133, 356`): what appears below it is never found |
| `SlAllLoaded` | `smtp/localstorage.go:105` "MailLoadAll mail objects from file system." | after a restart only the first file of the earlier run can be decoded |
| `ScLowestMX` | `smtp/client.go:380` "Select the lowest MX preferences." | `pref` is never lowered, so the last record wins |
| `IniRebasedAlways` | `ini/ini.go:960` "Rebase merge the other INI sections into this INI sections." | with repeated or shared sections merging takes the first section of a name and reading the last, so the other's value need not win |
| `IniVarsLast` | `ini/ini.go:1072` "only the last key value that will be store on map value" | a value that comes again keeps the place of its first occurrence |
| `DfTokenFirst` | `bytes/bytes.go:472` "return the first index of matched token in line" | an overlapping match after a partial one is missed |
| `TaMinorityFound` | `tabula/claset.go:261` "return rows where their class is minority in dataset" | in columns mode it finds none |
| `DvSkipped` | `dsv/metadata.go:34` "this column will be ignored, not saved in reader" | an empty field jumps over the test of Skip and is saved |
| `DvRejectedKept` | `dsv/reader.go:520` "if rejected file is empty, delete it" | the test is `Size() >= 0`: it is always deleted |
| `HuForbiddenKept` | `hunspell/dictionary.go:79` | a derived word takes the place of a forbidden entry |
| `EcSimpleEnds` | `email/body.go:191` "If no message body or no trailing CRLF, a CRLF is added." | not for a body of two characters |
| `EcNoTrailing` | `email/body.go:113` "remove all trailing whitespaces" | blanks before a line end become one blank and stay |
| `DkStatusReturned` | `email/message.go:129` "DKIMVerify verify the message signature using DKIM." | when the body hash differs the status is returned as nil (`email/message.go:198`) |
| `DkFreshAlways` | `email/dkim/keypool.go:34` "Get cached DKIM key from pool or lookup using DNS/TXT method if not exist." | Get does not test the expiry of the key that it has looked up: suspended before it returns, it uses a key that was withdrawn for longer than its TTL |
| `DkSentVerifies` | `email/message.go:217` "String return the text representation of Message object." | String writes relaxed fields: a message signed in simple form does not verify after it |

Seen as well, without a definition of their own:

* `dns/answer.go:91`: the reload of the first row also zeroes `accessedAt`, so
  prune may clear an answer in use and the next dereference panics.
* `dns/answer.go:107`: the whole age is subtracted again at every use, so an answer
  that is served often expires early; it is never served too long.
* `dns/answer.go:94`: a response overwrites the message of a local answer (comment
  at line 16), which is then never aged.
* `dns/server.go:859, 932, 1071`: a forwarder that stops before it connected is
  subtracted from `fwn`, the "Number of forwarders currently running."
* `dns/server.go:1024`: a TCP forwarder that cannot connect drops the request; a DoH
  handler then waits for its reply for ever (`dns/server.go:583`).
* `dns/server.go:701`: without forwarders the code is RCodeErrServer, not
  RCodeErrName (`serveroptions.go:41-43`).
* `dns/server.go:362`: Stop without DoH, or a second Stop, panics.
* `dns/udpclient.go:154`: a reply that comes after the timeout is taken for the
  answer to the next query.
* lib/smtp: `doc.go` says port 25 receives mail from other servers; `handleMAIL`
  refuses every MAIL there. `readCommand` returns syntax errors, which end the
  connection (comment at `receiver.go:115`). The 101st recipient is refused with
  452 and kept. `processRelayQueue` does not look at MAIL FROM. After `Stop`, a
  queue goroutine that has received a mail never ends, so `Start` never returns.
  A MailTx that fails sends no RSET, and the next mail also goes to its recipients.
  A client that has read replies in part is behind by one reply each time: behind by
  three, MailTx takes the 250 of an earlier mail for its own and returns no error for
  a mail that the server has swallowed as text (`smtp/client.go:433`; the model shows
  it with eight mails and three cut replies, ScMaxMails = 8 and ScMaxSplits = 3).
* lib/websocket: `Stop` closes `chUpgrade` while `Start` may be sending; `send`
  uses `conn` after Quit may have set it to nil.
* `websocket/frame.go:377`: `f.len` is both the mark 127 of an eight byte length and the
  length that was read. A frame of 127 octets whose header is in one packet and the rest
  in the next is therefore taken, at the second packet, for one with an eight byte length,
  and is never completed (the second part of `WfExact` leaves such streams out).
* `http/route.go:35-45`: newRoute trims blanks and drops empty sub-paths, parse of the
  new path and of a request does neither: an endpoint with `//` in its path is accepted
  and never matches, and `/ a` is accepted beside `/a` and hidden by it.
* `io/dirwatcher.go:243`: a Mount that fails leaves memfs mounted and `dw.root` nil; the
  next tick dereferences it (line 329).
* `smtp/localstorage.go:151`: saving a mail again truncates the file first, so that a
  crash or a full disk loses the mail that was saved.
* `dns/masterfile.go:335`: `$INCLUDE` without a domain passes an empty origin, which
  MasterLoad replaces by the name of the included file; without a comment at its end the
  line is an error. The flag of an SOA without parentheses keeps that of its class, and
  its last two numbers are read as the next record.
* `email/maildir/manager.go:151`: OutQueue writes into out directly, so a crash
  leaves a part of a mail under its final name.
* `ini/ini.go:962`: after Rebase two objects share sections, and a Set in one shows in
  the other. Subs, a getter, merges sections of one name (`ini.go:951, 1010`) and so
  changes the order of what Gets returns.
* `dns/message.go:186`: the last octet of a name with a final dot is not counted in `off`.
* `hunspell/options.go:625`: after a table announced with 0 rows the next row is
  read as its count.

## 6. Not modelled

`PROJECT.json` lists every part with its reason. Left out as a whole: parsing of
addresses, dates and MIME (email), spf, xmlrpc, contact, sanitize and other
string parsers without state; net, ssh, git and sql, thin layers over I/O; mining
and math, numeric code over floating point and random samples, which TLC cannot
evaluate; helpers without state; the commands, front ends of the libraries.

Partly modelled: DNS messages without WKS, HINFO, NULL and escapes in names; the
SMTP client without EXPN, HELP and VRFY, single commands that leave no state; DNS clients
without failing writes and duplicated datagrams; maildir without the panic after five
attempts at a name;
memfs without Search, ContentEncode and the generator; http without its client and
forms; tabula without the selections of columns; dsv without its configuration
files; ints only of the three copies of the sorts; hunspell without the merging of
dictionaries.

Within the modelled parts: the text of commands and replies, the content of mails,
the octets of resource data that are only copied, certificates, debug output.

## 7. Plan

1. Proofs: MzMeaning and IrMeaning line by line, for the state the parser is in after
   each line; DwComplete with the depth of the tree instead of three ticks; DkFresh and
   DkSettled once the pool of keys is in a module of its own, apart from the canonical
   forms.
2. An abstract cache (a map from questions to answers that may lose received ones)
   that `DnsCaches` implements, and an abstract mailbox for `SmtpServer`.
3. `DnsListeners` composed with `DnsForwarders`: what Stop does to requests that
   are with a forwarder.
4. `memfs` updated by `DirWatcher` in one module: `MemFS` and `DirWatcher` have the
   same tree in the code (`memfs.Update`, `AddChild`, `RemoveChild`).
