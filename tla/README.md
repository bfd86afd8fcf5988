# Verification of SuRPC, CCache and SORM

The repository holds three small frameworks: **SuRPC** (an RPC client and
server with a registry, service discovery and a load-balancing client),
**CCache** (a distributed cache) and **SORM** (an object-relational mapper over
`database/sql`). This directory models the parts that keep state, checks them
with TLC on small instances, and proves the safety of most of them (the RPC
client, its dialling and the server, registry, discovery, XClient, the LRU cache,
singleflight, the hash ring, the cache cluster, SORM transactions, migrations and
sessions) with TLAPS for every value of their constants.

Each module is a translation of Go code; `PROJECT.json` ("map") names the lines
of every definition. What the code does is modelled also where it contradicts
its comments; section 3 lists those places, and one of them is a run that expects
a violation ("findings").

## 1. Inventory

| Part | State | Operations | Talks to | Hard behaviour |
|---|---|---|---|---|
| SuRPC client `SuRPC/client.go` | `pending`, `seq`, `closing`, `shutdown`, two mutexes, the `Done` channel of every call | `Go`, `Call`, `Close`, `receive`, `terminateCalls` | the server over one connection | callers, `receive`, expiring contexts and a failing connection all take calls out of `pending`; channels are sent to under locks |
| Dialling `client.go` 175-240, 306-340 | the connection, an unbuffered channel | `Dial`, `DialHTTP`, `XDial` | the server's Option decoder or `ServeHTTP` | the timeout races the goroutine that makes the client |
| SuRPC server `SuRPC/server.go`, `service.go` | the registered services; per connection: the loop, a handler and a worker per request, `sending`, `wg` | `Register`, `ServeConn`, `ServerCodec`, `readRequest`, `handleRequest`, `sendResponse` | services, codec | concurrent responses, handler timeouts, stream out of step, late registration |
| Registry `SuRPC/registry` | `servers` with the time of the last heartbeat | POST `putServer`, GET `aliveServers`, `Heartbeat` | servers and discoveries over HTTP | GET reads and deletes without the lock; expiry |
| Discovery `xclient/discovery*.go` | server list, round-robin index, time of the last refresh | `Refresh`, `Update`, `Get`, `GetAll` | registry | network call under the lock; list changes between picks |
| XClient `xclient/xclient.go` | one client per address | `Call`, `Broadcast`, `Close` | discovery, SuRPC client | shared clients, cancellation, first error |
| Singleflight `CCache/singleflight` | map from keys to calls | `Do` | the cache group | sharing a result, panics |
| LRU `CCache/lru` | list, map, bytes | `Add`, `Get`, `RemoveOldest` | `cache.go` under its mutex | accounting, eviction loop |
| Consistent hash `CCache/consistenthash` | sorted hashes, hash to node | `Add`, `Get` | `HTTPPool` | wrap-around, agreement of nodes |
| Group and peers `CCache/ccache.go`, `http.go` | main cache, singleflight group, ring | `Get`, `load`, `PickPeer`, `ServeHTTP`, `Set` | the other nodes over HTTP | nodes waiting for each other, rings that differ or are replaced during a request, names changed on the way, stale cache checks |
| SORM session `session/raw.go`, `transaction.go`, `sorm.go` | `tx`, the statement buffer | `Exec`, `Query`, `Begin`, `Commit`, `Rollback`, `Engine.Transaction`, `Engine.Migrate` | the database | ended transactions, one begun in another, failing commits, process exit on any error, half-done migrations |
| SORM records, clauses, tables, hooks `session/record.go`, `table.go`, `hook.go`, `clause/`, `schema/` | `clause`, `refTable` | `Where`, `Limit`, `OrderBy`, `Insert`, `Find`, `First`, `Update`, `Delete`, `Count`, `Model`, `CreateTable`, ... | session | parts of one statement in another, hooks in the middle of an operation |

Left out: the debug page, `byteview.go`, the generated protobuf code, the fields
and types of schema and dialect (pure functions by reflection), `main.go` (a
demonstration). The
hazards of each part, at their lines, are in `PROJECT.json` ("hazards").

How the parts interact: XClient asks a Discovery for an address and a Client
for an answer; the Discovery asks the Registry, which servers keep up to date
with heartbeats; a Client and the server's goroutines share one connection.
A CCache group goes through singleflight, then its LRU, then the ring, and
either calls its getter or asks the owner, whose handler runs the same path.
An SORM engine gives each user a Session, which uses the database directly or
through its transaction.

## 2. Modules

One critical section of a mutex is one step unless the code does something that
can block in it (a channel, the network); then the mutex is a variable holding
its owner. Go channels are modelled by what they hold, or as a meeting of two
goroutines when they are unbuffered. Operators named as *mutants* in a comment
are not used by any specification: they are the faults the properties are
tested against.

**RpcClient**: the goroutine of each call (`pc`), the receive goroutine
(`rpc`), `sending`, `mu`, `pending`, `flight` (requests at the server). A call
goes `lock` -> `register` -> `write` -> `wait`; a context may expire while it
waits. `ReadHeader`, `RemoveCall`, `ReadBody`, `SignalAnswer` are `receive`;
`Terminate*` are `terminateCalls`, which holds both mutexes while it sends.
`Go`'s channel is shared and may be full; `Call`'s has one place.

**RpcCalls**: what a caller is promised, without locks, sequence numbers or
`pending`: a call is accepted while the client is up or refused, and ends once.

**RpcDial**: one `dialTimeout`: the caller, the goroutine making the client,
the connection, the timeout, the server's HTTP answer.

**RpcServer**: the loop, and for each request its handler and worker, which
meet on `called` and `sent`; `output` is the stream of headers and bodies.
`Register` may come at any time: until then every request is one for an unknown
service.

**RpcAnswers**: what the client of a connection is promised, without goroutines,
locks or streams: what becomes of a request (`verdict`) is decided once, for a cause
that the request, the services, the Option and the connection give, and at most one
response, a whole one, says it (`answers`).

**Registry**: ages instead of clock readings; a heartbeat's `putServer` is two
accesses under the lock, a GET's `aliveServers` one step per entry and a
separate delete, because it takes no lock. `Crash` is the Go runtime stopping
the process on concurrent map accesses.

**Discovery**: each user refreshes (fresh: nothing; stale: asks the registry
holding `mu`), then picks; which of `Get` and `GetAll` it is does not matter
before. **XClient**: `dial` holds `mu` across `XDial`; clients are seen through
what RpcCalls promises.

**SingleFlight**, **LruCache**, **ConsistentHash**: each one type, with its
history variables named as such. The hash function is a variable that keeps any
initial value, so that collisions are included.

**CacheCluster** extends SingleFlight, the groups of all nodes being one: its
keys are pairs of a node and a name, its callers the goroutines of Gets and of
the handlers they make run on other nodes (`Tasks`), and the function it runs is
`Group.Get`'s: `Lookup`, `PickPeer`, then `GetLocally` and `PopulateCache`, or
`PeerErrs`, `RequestFails` or `PeerAnswers`. A handler may ask a third node, up to
`MaxHops`. Every node has a ring of its own, which `Set` replaces by any of `Rings` at
any time and any number of times (a ring as a function: ConsistentHash); `peer` keeps
what `PickPeer` told each goroutine, which a later `Set` does not change. `Sent` is
what becomes of a name in the URL, where `url.QueryEscape` turns a blank into a plus that nothing turns back. Of a cache
only the names are kept, any of which an addition may evict (LruCache). The
handler of a peer panics or errs by itself; the answer of a peer panics in the
goroutine that asked and leaves its key in flight.

**SormTransaction**: sessions used by hand and calls of `Engine.Transaction`. The
transactions a session begins are numbered (`Txs`); `Tx` is the last one, which is
`session.tx`, and `Own` the one `Engine.Transaction` began and ends by a variable of its
own. `Begin` has no guard in the code and none here: a user, and `fs` on the session it
is given, may begin a transaction while another one is open, which then stays open until
`Transaction` ends it, if it is its own, or the process exits.
`logger.Error` is `log.Fatal`, so an error makes the process exit. **SormMigrate**
extends it: some of the transactions are calls of `Engine.Migrate`, whose steps
(`HasTable`, `ReadColumns`, `AddColumn`, `Replace`) are statements of their
transaction and change what it sees of the table (`view`), which becomes the table
of the database (`table`) with the commit. **SormSession**: one session, its
statement buffer, clauses and `refTable`; a statement is a sequence of parts, each
a kind and an argument. An operation without hooks is a step; one with hooks
(`Insert`, `Find`) is taken apart where they run (`UserCode`), and a hook may do
whatever the user may, except to insert, or to find values that have a hook
themselves. `given`, `raws` and `sent` are history.

`MC*` modules give constants their values; `*Proofs` modules hold the theorems.

## 3. Runs

A run `X_...` checks module `MCX` with the configuration of the same name.

| Run | Checks | Instance | Distinct states |
|---|---|---|---|
| RpcClient_calls | `Inv` (`SignalledOnce`, `OnlyGoBlocks`) `ReplyIsOwn` `NoOrphan` `RevokedUntouched` `EveryCallReturns`, the refinement `ImplementsCalls` | a `Call` with a deadline, a `Go`, a channel of one place | 11k |
| RpcDial_timeout | `DialEndsWell` (`OwnedOrClosed`, `FailsForACause`) `LateClientEnds` | one dial, every Option, a failing peer | 180 |
| RpcServer_serves | `Inv` (`QuietAfterClose`, `LeakedOnlyByTimeout`, `NothingDropped`) `WholeAnswers` (`Framed`, `AnsweredOnce`, `HonestHeader`) `LoopEndsForACause` `EveryRequestAnswered` `Drains`, the refinement `ImplementsAnswers` | two requests of any kinds; with a handle timeout, without, or a bad Option; the service registered at any time | 33k |
| Registry_lists | `TypeOK` `LiveServersListed` `RegisteredAgain` `StoppedIsDropped` | two servers, a lookup at a time, items expiring after two ticks | 134k |
| Discovery_list | `Inv` (`OneFetch`) `RoundRobin` `EveryGetReturns` | two users, two servers, lists given by hand | 12k |
| XClient_broadcast | `Inv` (`OneUsableClient`) `AllOrError` `FailedBroadcastEnds` | a Broadcast to two servers and a `Call` to one of them | 15k |
| LruCache_limit | `Consistent` `MostRecentKept` `AddEnds` | three keys of two lengths, values of 0, 1, 3 and 5 bytes, a limit of 5 | 6k |
| ConsistentHash_ring | `Inv` (`NearestOwner`) `MovesOnlyToAdded` | three nodes, two points each, hashes 0..3 | 35k |
| CacheCluster_gets | `Inv` (`NoSelfWait`, `NoDeadlock`) `NeverLoadsCached` `OneExecution` `SharedResult` `NoReuseAfterReturn` `EveryGetReturns` | two nodes, two names of which one is sent as the other, two rings, any `Set` at any time, two Gets, two hops | 398k |
| SormMigrate_engine | `Inv` (`AllOrNothing`) `ReturnTells` `MigratesWhole` | a session by hand, a transaction, a migration of any table to one of two columns; up to two transactions on a session, one after or inside the other, with one statement each, three for the migration; a failing database | 2.4M |
| SormSession_statements | `SessionInv` (`VarsMatch`) `StatementIsGiven` | a struct with hooks, by value and by pointer, and one without; two conditions, up to two values to insert, a raw text | 3k |
| RpcClient_blocked | `DeadlineReturns`, **violated** | a `Call` with a deadline, two `Go` on a channel of one place | |

The violation: `terminateCalls` sends on the full channel of a `Go` while it holds
`sending` and `mu`; the `Call` whose context has expired then waits for `mu` in
`removeCall`, although client.go:294 gives its context the control of the timeout.
(`send`, refusing a call, also sends on a full channel, but holds `sending` only: it
stops the calls that are still to be sent and the end of the client.) In
RpcClient_calls a single `Go` never meets a full channel of one place; this run, and
the proof for any calls and channels, do. `EveryCallReturns` is the same promise for
callers that read their channels, and `OnlyGoBlocks` says that nothing else blocks
the client: whoever holds `sending` or `mu` can go on unless it signals a `Go`.

**What the code does against its comments**, in the models but in no run of
their own:

- client.go:60, `Close` after a failed read returns before it closes the codec
  (`Close` of RpcClient leaves `conn` alone).
- server.go:265, the status line of `ServeHTTP` starts with a blank, and the
  client's HTTP dial refuses it (`Greeting`, `Switched` of RpcDial).
- server.go:78, the JSON decoder of the Option reads ahead and swallows requests
  (`Surplus` of RpcServer); server.go:139, the body of a request for an unknown
  service is read as the next header and ends the loop (`FindService`), although
  server.go:103 says only a bad header does. `LoopEndsForACause` shows that
  nothing else ends it.
- singleflight.go:39, a function that panics leaves its key in the map and all
  later Dos of it hang (`FnPanics`); line 40, `Done` comes before the delete, and
  a Do in between joins a call that is over (`Join`).
- registry.go:56-61, `aliveServers` takes no lock: it deletes a server that was
  just renewed, can make `putServer` go through nil (line 49) and the runtime stop
  the process (`Delete`, `PutStore`, `Crash`). `RegisteredAgain` shows what is
  left: a server that goes on sending comes back.
- discovery_su.go:54, the list begins with as many blank addresses as there are
  servers (`Parsed`).
- http.go:117, the answer of a peer is decoded into a nil message and panics
  (`PeerAnswers` of CacheCluster): no value of another node is ever returned, and
  later Gets of its name wait for ever.
- http.go:100, a blank in a name arrives as a plus (`Sent`); http.go:51, a number of
  replicas that is not 0 is not stored, so that such a pool's ring is empty and it
  answers all by itself (`Set`); consistent_hash.go:41, nodes that add their peers
  in different orders, as main.go:70-74 does by iterating over a map, may disagree
  on an owner, and then wait for each other without a limit (`ToldApart`); the peers
  of main.go have no scheme, so that its requests fail (`RequestFails`).
- http.go:126, `Set` updates the peers while Gets are on their way. When it moves a name
  from one node to another between the question and the handler's `PickPeer`, the handler
  asks back and joins the load that waits for it: a circle for ever, although the rings
  agree before and after, and http.go:147 is to keep a node from asking itself.
  `NoDeadlock` and `NoSelfWait` say that circles need an owner that changed or differs.
- sorm.go:108-111, Migrate means to create a table that is missing, but asks for the
  model of `&value`, an interface, and panics (`HasTable`); sorm.go:107, it drops
  what Transaction returns, so that it returns nil when the migration was undone
  (`MigrateReturns`).
- record.go:27, 38, 74 and 82 call hooks with nil: only BeforeInsert and AfterQuery
  ever run (`UserCode`), and Delete calls none.
- record_test.go:53 calls `Raw(...).Where(...).QueryRow()`: a raw statement is sent
  without the clauses, which `Clear` then forgets (`Exec` of SormSession).
- transaction.go:20, a session keeps its ended transaction, and its next statement
  ends the process (`DB`, `Exec` of SormTransaction).
- transaction.go:10, `Begin` replaces the transaction of a session without a look at it:
  when `fs` calls it, its further statements are in a transaction nobody ends, and
  `Transaction` commits its own one (sorm.go:77) and returns nil (`Begin`, `Deferred`).
  `ReturnTells` is about that own one only.

**Bounds.** A race needs two goroutines, and a third shows what it does to
somebody else: RpcClient has two callers besides `receive`, `Close` and the
peer (the proofs cover any number, the blocked run has three); RpcServer has two
requests, each with a handler and a worker, besides the loop; CacheCluster has two
Gets of two names, whose handlers make up to four Dos more, enough for two of them
to meet on either node and for two nodes to wait for each other; with one name
sent as the other, two hops lead back to the node that began. SormMigrate has
each kind of user of a database once, with two transactions (`MaxBegins`), the least that
can be nested or follow one another; the table begins with any of the subsets of
three columns, and a migration has the statements for two additions and a
replacement. In SormSession two values bring a hook before and after another one's
table was set, and one raw text, condition and limit are enough to be lost or left
over. `MaxDials` (XClient), `MaxWrites` (SormTransaction, statements of each transaction), `MaxAdded`, `MaxKeys`, `MaxHash` (ConsistentHash) and
`MaxIndex` (Discovery) cap counters that have no role beyond small values: two
dials per address show a replacement, three statements a partial migration, one in each of two
transactions which of them keeps what, four
hashes and six points force both collisions and wrap-around, an index of 3 is
beyond the shorter lists. `Set` of CacheCluster has no bound. The ages of Registry stop growing at the timeout,
beyond which the code does not tell them apart. Nodes are symmetric in
ConsistentHash, where no liveness is checked.

**Fairness.** Every specification with fairness assumes of the program only
that goroutines which can run do, that Go's mutexes are starvation free (strong
fairness of taking one) and that timers fire. What is assumed of the outside is
said at each: getters return, answers of peers arrive unless the request fails, methods do when no timeout limits them, a registry
answers or fails, heartbeats are sent and lists asked for. `EveryCallReturns`
states its own assumptions, that channels are read and answers come
(`ChannelsAreRead`, `WF_vars(ReadAnswer)`). In RpcServer a Write to the connection
returns: a client that neither reads nor closes for ever would block the goroutine that
holds `sending`, and with it every answer and the end of the loop; nothing else is assumed
of clients, nor that anybody calls `Close`. In CacheCluster it is enough that some
goroutine runs as long as one can (a single weak fairness), since none takes steps for
ever; `Set` and new Gets are never required.
Deadlock is checked except in RpcDial, where a dial without a timeout to a peer
that stays silent really stops, and so does one that has returned, and in
CacheCluster, where a cluster whose Gets have all returned rests, and Gets behind
a panic or in a circle of different owners do hang (`WaitsForEver`);
`EveryGetReturns` says that no others do.

**Mutants.** Every property of a passing run has a mutant of the code in
`PROJECT.json`, such as a lock not taken or an entry not removed, that violates
it under the same configuration.

## 4. Proofs

Constants are only assumed to be what the named ASSUMEs say (`CallsAssumption`:
the two kinds of calls are disjoint, deadlines belong to `Call`s, a channel has
room for at least one, and the markers are not calls).

**RpcClientProofs** proves for any number of calls that `IInv` is invariant, and
from it `Inv`, `ReplyIsOwn`, `NoOrphan`, `RevokedUntouched`
and `WaitingIsHeld`, and that the client implements `RpcCalls` (`Refinement`).
None of the safety properties is inductive: that a call is answered once needs
to know who owns it. `IInv` says so in parts: `LockInv` (who holds the mutexes
and that `shutdown` follows `receive`), `SeqInv` (sequence numbers are given
once, and pending, requests in flight and the response being read agree with
them), `OwnerInv` (an unsignalled call is in `pending` or in the hands of
`receive`, never both), `ReplyInv` (a reply is only written by the owner) and
`OutcomeInv` (what a signalled call carries, for the refinement). The proof
takes the actions one by one. `OnlyGoBlocks`, the part of `Inv` about the locks,
follows from three of them: who holds a mutex is where it can release it, and the
calls it has to signal on the way have not been signalled, so that the channel of
a `Call` among them is empty.

The same module proves `DialEndsWell` of RpcDial (`EveryDialEndsWell`). Its `DialInv`
says where the caller and the goroutine that makes the client can be together, and that,
while the caller waits, the connection is open unless that goroutine has failed, and
then for a cause.

**RpcServerProofs** proves `Inv`, `WholeAnswers` and `LoopEndsForACause`, and that the
server implements `RpcAnswers` (`AnswersWhatWasDecided`), for any number of requests of
any kinds, with any part of the stream lost to the Option's decoder. Its `IInv` has
`PcInv` (where a handler and its worker can be together, and that the writers are who
holds `sending`), `StreamInv` (for a request whose header is still to come nothing has
been done), `ErrInv` (what `h.Err` is while each goroutine may write) and `OutInv` (of an
`Unwritten` request nothing is in the output; between header and body the header
is the last thing there, and the only one of its request). That
a request is answered once is inductive only with the last two together: the
loop, the handler and the worker exclude each other by where they are, not by a
flag. `CauseInv` says what the loop may find on the stream: every header is followed by
its body, and a body that follows none is the one the loop is about to read or belongs
to a `Lost` request: one `FindService` left there, or one whose header the
decoder of the Option took. `NothingDropped`, of `Inv`, is inductive with the others: who
is through with a request has sent the second part of its response.

For the refinement the verdict on a request is what `h.Err` says, or "reply" once the
handler has received from `called` (`VerdictOf`), and the answers are the pairs of
messages in `output` (`Whole`). `h.Err` of a request is written by three goroutines; that none of them
overrules another, and that a verdict is only given when it may be, needs `ErrInv` and
`KindInv` (which requests, services and Options let a goroutine be where it is). A
header written alone is a stutter, the body after it is the response (`OutInv`), and says
the verdict because the header did.

**RegistryProofs** proves `TypeOK` for any servers and lookups, without an assumption, and
`LiveServersListed` under `BeatsInTime`: items do not expire or the interval of
heartbeats is shorter than the timeout. The code's own defaults keep it:
registry.go:96 takes an interval a minute below the timeout; a server may choose a
longer one, and then is dropped between two heartbeats. `PunctualInv` says that, while no
heartbeat was late, an item is no older than the ticker of its server, or than an
interval while the heartbeat is on its way: no lookup finds one expired,
and none gets as far as the delete without a lock.

**CCacheProofs** proves `Consistent` and `MostRecentKept` for any keys, values and
limit. Inductive is their conjunction with two facts (`IInv`): no key is twice in the
order of use, and no Get returns within an addition. What the recursive function
`Sums` yields is proved by induction over numbers: the
library's theorem takes an operator as a parameter, so `Induction` states it for a
set of numbers, from the library's well-foundedness of `<`. With it come how the
bytes of a list change when an entry is put in front or taken out, and how
`RemoveAt` moves the others. That an empty list counts no bytes gives the part of
`Consistent` on which the end of `Add`'s loop rests: over a positive limit there is an
entry to remove. (A negative limit would make it run for ever; ccache.go takes the limit
from its user, and main.go gives 2 << 10.)
The same module proves `Inv` and `MovesOnlyToAdded` of ConsistentHash for any nodes and
replicas, any numbers as bounds, and any hash function, with any collisions. `PointsInv` is inductive:
the keys are the hashes of the nodes' points, no more and no fewer, in ascending order, and
the map has for each of them a node with a point there. What `sort.Ints` yields is defined by counting (in place `r` is the value that at
least `r` elements do not exceed and fewer than `r` are below), from which its order
follows; that the bisection ends at the
first key that is not below the hash is proved by the same `Induction`, over the
distance between its two ends. After an addition the first point of a key is an added node's,
or it was the first before and still has its node.

**CacheClusterProofs** first proves SingleFlight's `IInv` = `TypeOK`, `LeaderInv` (the
call in the map is that of the one goroutine between `Lead` and `Delete`), `ResultInv`
(a returned `Do` carries a finished result, and what had returned before is not
what was joined), and from it `OneExecution`, `SharedResult` and
`NoReuseAfterReturn` for any goroutines and keys, panics included. It then
shows that the cluster is a SingleFlight
(`ClusterIsSingleFlight`: every step is a step of it or a stutter), so that those
properties hold for the groups of all nodes, and proves `NeverLoadsCached` and `Inv`
for any nodes, names, rings and hops. `MissInv` says that a goroutine past
the lookup has missed; that nobody else fills the cache meanwhile follows from
`LeaderInv`, because it is the leader of that name on that node. `NoSelfWait` needs
`ChainInv`: of the goroutines of one Get, one for each number of requests, all but the
last have asked the next one, on the node `PickPeer` told them (`peer`), which is never
their own (http.go:147). Were the last to wait for the load of an earlier one, of the
same name on the same node, then that one was told another node, and the one it asked
there another one in turn: two of them were told different owners, by rings that differ
or one ring that `Set` replaced in between (`ToldApart`).
`NoDeadlock` (`CircleToldApart`, with `NoSelfWait` in `NoCircle`) is about all Gets: in a
set of goroutines that wait only for each other one asks a peer, since who waits in
singleflight waits for one that leads. The handler there waits in the set as well: it
asks on or has joined one that does. After that request a name is no longer
changed on the way, so the one that asks on was told another owner of the same name.
`OneRingNoCircle` draws the conclusion for a cluster: while every `Set` of every node gives
the same ring, there are no circles at all.

**SormProofs** proves `IInv` of SormTransaction, `Inv` and `ReturnTells` for any
sessions, transactions, nested or not, and statements. `AllOrNothing` is about each
transaction, the ones a later `Begin` left behind included. It needs `OpenInv` (an open
transaction holds all that was written in it, one that has ended nothing, and those begun
are the first ones of their session), `ReturnTells` needs `PcInv` (a call of Transaction
has its own transaction from begin on, and only `fs` commits it before the deferred
function does). `MigrateIsATransaction`
shows that Migrate only takes steps of SormTransaction, and `WholeMigration`, with
`MigrateInv`, that the table changes to the model in one step, for any columns and
any number of migrations.

For SormSession the same module proves `SessionInv` and `StatementIsGiven` for any
types, hooks, conditions, numbers of values and raw texts. `StatementInv` adds that of
the kinds the chain methods set the session holds what they were given (`AsGiven`), and that the
clause of an Insert is that of its last value once no hook is to come (`HeadSet`), although
a hook's statement before it forgets the clauses. What is put together from
pieces, the clauses of `Build` and the variables of `Vars`, is in both
`FlattenSeq` of the community modules; that it maps a concatenation to one is proved by
induction over the number of pieces.

**DiscoveryProofs** proves `Inv` (with `FetchInv`: nobody asks while the list is
fresh) and `RoundRobin` for lists of any length. The invariant `RoundInv` says that
the picks count back from the index modulo the length; the arithmetic it needs, that
a remainder is unique and what it is of the next number, is proved first.

**XClientProofs** proves `Inv` (with `ClientInv`: a usable client is the one in the
map, and none is there for the address being dialled) and `AllOrError` (with
`CastInv`: the result so far is that of the goroutines that have reported) for any
goroutines, addresses and dials.

Assumptions of these modules are those on their constants: finite address sets,
markers that are not members, known kinds of requests, `MaxWrites` a number for each session, `MaxBegins` a positive one, and, for one
theorem of RegistryProofs, `BeatsInTime`. Model-checked
only: all liveness, which is out of the prover's reach as ENABLED is. Every other
property of a passing run is stated by a theorem. No module
declares a recursive operator; the recursive functions are `Sums` of LruCache, the
binary search of ConsistentHash, and the `FlattenSeq` SormSession uses.

## 5. Not modelled, and plan

1. SuRPC: client and server composed over one connection, their promises (RpcCalls,
   RpcAnswers) being stated and proved apart; XClient on top of Discovery.
2. Violation runs for the places above that have none, where they show more than
   the line itself does.
3. Abstract specifications: a cache that is never stale in what it promises for
   LruCache; an atomic-transaction specification for SormTransaction.
4. SormSession on SormTransaction: which statement of an operation fails.
5. Proofs: that each component implements the abstract specifications of 3.

Not modelled: the debug page (it prints), `byteview.go` (an immutable value), the
generated protobuf code, and `main.go`. Out of reach: liveness proofs; the
byte-level encodings of gob, JSON and protobuf; real time, which is replaced by
order and ticks.
