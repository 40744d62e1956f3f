# Redcurrant: TLA+ models, checks and proofs

Redcurrant is a distributed object store. This directory holds a formal model of
the part every metadata service is built on, `sqliterepo`: the cache of open sqlite
bases of a service, the election of the master of a base, and the replication of a
base from its master to its slaves. The models are checked by TLC on small
instances, and their main invariants are proved by TLAPS for any instance.

Contents: 1 the system, 2 the modules, 3 the runs, 4 the proofs, 5 findings,
6 what is not modelled, 7 the plan.

## 1. The system and its parts

A *content* is cut in *chunks*, stored by `rawx` services. Its description is in a
*container*, one sqlite base held by `meta2` services. `meta1` services know which
services hold the container of a reference, and `meta0` which meta1 is in charge of
the 65536 prefixes of references. meta0, meta1, meta2 and sqlx keep their bases in
`sqliterepo`, and answer requests with the `server` library. The `conscience` knows
the services and their scores; a `gridagent` on each host is its proxy. Clients
resolve services with `resolver` (or the older `metacd`), and talk to them with
`metautils/lib/gridd_client*.c`.

| part | state | operations | what makes it hard | what makes it correct |
|---|---|---|---|---|
| cache of bases (`sqliterepo/cache.c`) | slots, lists FREE/IDLE/USED, tree of names, waiting threads | open, close, force close, expire | the mutex is dropped during a wait and during the close hook | a base has one user and one handle, every open ends |
| election (`election.c`, `synchro.c`) | a member per base and per service, znodes, watches | candidate, list, ask versions, lead or follow, leave, resync | completions, watches, answers, crashes and lost connections in any order | one master, followed by all, found again after a failure |
| replication (`replication*.c`, `version.c`, `restoration.c`) | a base per service, a version per table, a pending transaction | commit, replicate, restore, pipe from the master | lost and late requests, stale dumps; crash between two peers | what was committed is kept, a change is applied once and in its place |
| repository (`repository.c`) | schemas, paths, locks | open, close, dump, restore | called with and without the lock of the cache | handles are open once and closed once |
| network server (`server/network_server.c`) | queues to and from the workers, counts of threads and clients | accept, event, work, start or end a worker, stop | three kinds of threads around flags read without lock | a client has one owner, a stop ends |
| resolver (`resolver/`, `lrutree.c`) | two LRU caches | resolve, decache, expire | answers stored after the lock was released | nothing stale after a decache, expiry removes what is old |
| meta0 assignment (`meta0_prefixassign.c`) | the prefixes of each meta1 | assign, balance, retire | an iterative algorithm | each prefix keeps its number of distinct replicas, and it ends |
| meta1 (`meta1_backend_services.c`) | the services of each reference | link, renew, force, unlink | notifications around a commit that may be refused | what the services were told is what the base says |
| meta2 (`meta2_backend.c`, `meta2_utils.c`) | aliases, headers, chunks, versions | put, append, delete, purge, snapshot | version policies, several rows per operation | versions grow, no chunk is referenced without its header |
| conscience (`cluster/conscience`) | services by type, scores | push, lock, list, expire | refresh against expiry | a listed service is alive or locked |
| rawx (`rawx-apache2`) | pending and final files, attributes | put, get, delete | crash, two uploads of one chunk | a chunk with its final name is whole |
| clients (`gridd_client_pool.c`) | one request per connection | connect, send, react, expire | an answer racing a hang-up or a timeout | each request ends once |

`PROJECT.json` lists all the parts (`components`), including the ones with no state
worth a model, and the hazards found in the code, each at its line.

The three parts of `sqliterepo` interact as follows. A request reaches a service,
which asks the election for the status of its member: LEADER serves it, LOST sends
the client to the master. The master opens the base through the cache, which gives
the base to one thread at a time, and commits through the replication, which sends
the changes to the peers. During an election a member compares its versions with
those of its peers (GETVERS) and, if it is late, copies the base of the master
(PIPEFROM), which restores the file under the lock of the cache.

## 2. The modules

| module | what it is |
|---|---|
| `SqlxCache` | the cache of bases of one service |
| `Election` | the election of the master of one base |
| `Replication` | the replication of one base, with the election reduced to its outcome |
| `MC*` | the instances given to TLC |
| `SqlxCacheOpenProofs`, `SqlxCacheProofs` | proofs about the cache: lemmas and the opening actions, then closing, expiry and the theorems |
| `ElectionMoveProofs`, `ElectionServeProofs`, `ElectionProofs` | proofs about the election: what a transition does to one member, what ZooKeeper does to the znodes, and the theorems |
| `ReplicationProofs` | proofs about the versions and the histories of the tables |

Names are those of the source where there is one. A definition whose comment starts
with "Mutant" is a plausible mistake in the definition below it; it is used only to
see that the properties would notice.

### 2.1 SqlxCache

One service, its worker threads, one of which runs the periodic expiry. An action is
a stretch of code run under the mutex of the cache (`lock`, when it is kept from one
action to the next). `pc` says where a thread is: out of the cache, in the loop
`retry` of `sqlx_cache_open_and_lock_base()`, waiting on a condition for a base in
use or being closed, past its deadline, or in the close hook.

| actions | code |
|---|---|
| `OpenCall`, `OpenReserve`, `OpenIdle`, `OpenAgain` | open: new slot, idle base, base already locked by the thread |
| `OpenWaitUsed`, `OpenWaitClosing`, `OpenRefused`, `Deadline`, `OpenLate`, `SpuriousWakeup` | the waits, their limit and their timeout |
| `OpenExpire`, `OpenSpin` | no slot is free: close the oldest idle base, or try again |
| `CloseNested`, `CloseLast`, `CloseForce` | `sqlx_cache_unlock_and_close_base()` |
| `ExpireCall`, `ExpireNext`, `ExpireReturn`, `HookDone` | expiry, and the end of the hook called without the mutex |
| `SetHandle` | the sqlite handle opened by the repository once the slot is locked |

Slots share conditions (`Cond`), and `g_cond_signal()` wakes one waiter of the
condition, whichever slot it waits for (`Signal`). `files` counts the live sqlite
handles per name. Left out: the list IDLE_HOT (no line raises `heat`), the list USED
(it is only counted), and the clock: a deadline passes at any time.

### 2.2 Election

`member[n]` is the `struct election_member_s` of service n with the requests it has
sent to ZooKeeper (`req`) and the answers it may still receive (`live`, `pipes`).
`transition()` is the operator of the same name, with one operator `in_<STEP>` per
state of the member; it returns the set of the members a call may lead to, since
sending a request may fail. An action is one callback or one call.

| actions | code |
|---|---|
| `Deliver` | the completions `step_*_completion()` and the watches |
| `on_end_GETVERS`, `on_end_PIPEFROM` | the answers of the peers and of the synchronisation |
| `Kick` | `EVT_NONE`: start, status request, USE, periodic retry |
| `Resync`, `Exit`, `ExitAll`, `ExitAllDone` | the orders given to a member or to all |
| `ServeCreate`, `ServeExists`, `ServeList`, `ServeGet`, `ServeDelete`, `ServeError`, `Expire` | ZooKeeper (external) |
| `Crash`, `Disconnect`, `GetversLost` | the process dies, the connection is lost, an answer never comes |

ZooKeeper serves the requests of one connection in order, fires a watch once and
before the answer to any later request of the connection, and removes the znodes of
a session some time after it is closed or lost. At a lost connection the callbacks of
the watches run in any order (`Disconnect`). When a znode disappears, the watch of a
member on its own znode comes before that on its master (`Triggered`): a service has
both on the same znode only in `election_errors`, whose properties also hold with the
other order. The number of incidents is bounded by `Budget`, that of znodes
by `MaxId`. The election of the code does not look at the mode (QUORUM or GROUP):
it compares the number of silent or concurrent peers with 1 (`election.c:1966`,
marked FIXME there), so in a group of two a service leads alone.

### 2.3 Replication

`base[n]` is the base on the disk of service n: for each table its version and its
rows, abstracted to the sequence of the transactions that changed it. `tnx[n]` is the
transaction that holds the base of n as a master, in the phase `REPLICATE` (the
commit hook sends the rows to the peers) or `RESTORE` (it is committed, and the peers
that could not apply the rows receive a dump). `requests` are those sent and not
served yet: a request lives in a thread of the service it is sent to, which waits for
the lock of the base, and so it outlives the patience and the death of its sender.

| actions | code |
|---|---|
| `Commit`, `EndReplicate`, `Answered` | `sqlx_transaction_end()`, the hook of the commit, `_replicate_on_peers()`: quorum, COMMIT or abort, answer |
| `CommitHuge` | a change of schema, or one the update hook has not seen: every version grows by 2, every peer receives a dump, or nobody when the peers are not found (`_defer_synchronous_RESYNC()`) |
| `Replicate` | REPLICATE at a slave (`replicate_body_manage()`) |
| `Restore` | RESTORE at a slave, and the end of a PIPEFROM |
| `RequestFailed`, `Timeout` | a request is lost or not served; its master stops waiting for it, and it may still be served. Errors of a RESTORE are only logged |
| `Elect` | the rule of `member_finish_PRELEAD()` |
| `PipeFrom`, `Dump` | `defer_PIPEFROM()`, with any service that was first as the source; `_pipe_from()` fetches the dump, which `Restore` puts in place later |
| `Crash`, `Restart`, `Exit` | a service stops, starts again, leaves the election |

`version_validate_diff()` and `version_extract_expected()` are operators with their
C names. The lock of a base, which the cache gives to one thread, is `Free(n)`: a
slave serves a request when it has no transaction of its own. The election is reduced
to its outcome: at most one leader (what the module Election establishes while no
connection is lost), chosen by the comparison of versions of the code, which is one
step here. A member may be elected while a PIPEFROM of its own still runs:
`member_has_action()` makes it wait for the one it knows of, but
`member_reset_pending()` forgets it, an older one ends it (`on_end_PIPEFROM()` passes
the current request id), and its client stops waiting after a while.

What goes wrong is counted: `stops` for the services that stop or leave, `faults` for
the rest, and `MaxBad` bounds the sum. Some steps count for two, because each of them,
with a crash at most, is enough to lose a committed transaction (section 5): a huge change sent to nobody, a RESTORE
served when its sender is no longer the master, a master that leaves during a
transaction.

## 3. The runs

| run | instance | states | what it shows |
|---|---|---|---|
| `cache_safety` | 3 threads, 3 names, 2 usable slots, 2 conditions, 1 waiter per slot | 529 k | `IInv`, `MutualExclusion`, `OneHandlePerBase`, `WaitingCounted` |
| `cache_liveness` | 2 threads holding one base each at most, 3 names, 2 slots | 97 k | `OpenReturns`: an open ends, with the base or an error |
| `cache_exhausted` | the same, with 2 bases per thread | | `OpenReturns` is violated: see 5.1 |
| `cache_forgotten` | 3 threads, 2 names | | `NobodyForgotten` is violated: see 5.2 |
| `election_safety` | 2 services, all verdicts, a crash, an exit, a resync | 829 k | `IInv`, `AtMostOneLeader`, `LeaderIsFirst`, `SlaveFollowsFirst` |
| `election_errors` | 2 services, any request to ZooKeeper may fail | 428 k | `AtMostOneLeader`, `SlaveFollowsFirst` |
| `election_liveness` | 2 services, a crash, an answer lost | 6 k | `FinalStatus`, `MasterFound` |
| `election_disconnect` | 2 services, a connection lost, an exit of all | 301 k | `SlaveFollowsFirst`, `FinalStatus` |
| `election_stale_leader` | a connection lost | | `LeaderIsFirst` is violated: see 5.3 |
| `election_leak` | an exit | | `MasterFound` is violated: see 5.4 |
| `election_stuck` | a resync | | `FinalStatus` is violated: see 5.5 |
| `replication` | 3 services, a table and one to be created, 3 transactions in quorum mode and 2 in group mode, 2 things that go wrong | 461 k | `VersionsCount`, `SamePlace`, `Durable` |

### The properties

* `MutualExclusion`: two threads never hold the same base, and the count of opens is
  that of its owner, whatever closings and expiries overlap.
* `OneHandlePerBase`: a database never has two live sqlite handles, even while the
  hook of its former slot runs without the mutex.
* `WaitingCounted`: `count_waiting` is the number of threads that wait and is never
  left behind by a timeout.
* `AtMostOneLeader`, `LeaderIsFirst`, `SlaveFollowsFirst`: one master, it has the
  first znode, and the slaves redirect to it unless an event is on its way.
* `FinalStatus`, `MasterFound`: nobody stays in a pending state, a master is always
  found again.
* `VersionsCount`: the version of a table is one more than the number of changes made
  to it, in every base, dump and transaction. Comparing versions compares numbers of
  changes; it does not tell which changes they are.
* `SamePlace`: a transaction has one place in the history of a table, the same
  wherever it is: it is applied once at most, and over as many changes as its master
  had, however late its REPLICATE is served. Two transactions may have the same place
  in two bases: nothing in a version says who made the change.
* `Durable`: a transaction answered OK is in the base of the master, whoever that is,
  as long as one service at most has stopped and one fault at most has happened. The
  changes of the table `admin` alone, which have no version, are not covered.

### The bounds

*Cache.* With three names for two slots, a thread must expire a base to open another;
with three threads two may wait for the same base while a third closes it; the slots
1 and 2 have different conditions in `cache_safety` and share one in
`cache_liveness`. `MaxDepth = 2` covers the nested open. *Election.* Two services are
enough for one to overtake the other and for each event to cross another; the proofs
cover any number. Each run has the incidents that matter to its properties, and
`MaxId` leaves room for the znodes they make necessary. In the two passing runs with
a liveness property `seq <= MaxId` is an invariant (TLC was given it on the same
instances; no configuration keeps it, as it is about the bound), so that the bound
stops no behaviour; in `election_safety` and `election_errors` it does, after
three znodes, which only cuts longer behaviours off.
In `election_safety` a behaviour has one incident, or a crash and an exit
(`FewIncidents`). *Replication.* Three services are the smallest group where quorum
and group differ and one service can be down. A transaction changes the table, the
one a huge change may create, both with `admin`, or `admin` alone; three of them let a
slave be late on a table and accept a change of the other one, and let a master be
replaced between two. `Few` lets two things go wrong beside two transactions in
quorum mode (one in group mode), and one stop and one fault, what `Durable` speaks
of, beside one more. `Durable` was also checked, out of the runs, with four and five
transactions in quorum mode, one stop and one fault, and changes of a single table
(0.8 M states for four). A service has one PIPEFROM under way (`MaxPipe`). The group may stop when its
bounds are reached, hence `CHECK_DEADLOCK FALSE` there. The services (and the threads
and the names) are interchangeable in the runs that check safety only, which use
symmetry.

### Fairness

* Cache (`Fairness` of `SqlxCache`): a thread inside the code of the cache goes on:
  its hook returns and it gets the mutex in the end (strong fairness, since the mutex
  is taken and released by others meanwhile; the mutexes of glib do not starve a
  thread for ever in practice); and time passes. Nothing obliges a caller to open, or
  to close what it has opened: opens end by the timeout.
* Election: ZooKeeper serves requests and expires closed sessions, its thread
  delivers, the peers answer a GETVERS unless the answer is the one lost, the
  synchronisation ends, and a member is kicked again and again: `retry_elections()`
  does it for pending members from a timer, the requests of the clients for the
  others. No incident is fair. `FinalStatus` and `MasterFound` speak of members in
  use.
* Replication has no liveness property.

## 4. The proofs

The theorems hold for every value of the constants that satisfies the `ASSUME` of the
module, which TLC evaluates on each run.

### 4.1 The cache

`CacheInvariant`, `CacheMutualExclusion`, `CacheOneHandlePerBase`: for any threads,
names, slots, conditions and limits. Mutual exclusion alone is not inductive: a close
of a base in the wrong list, or one whose name leads to another slot, would break it
later. The invariant `IInv` therefore says that

* a slot in each status has the fields the `EXTRA_ASSERT`s of the code expect
  (`SlotsConsistent`), and its opens are those of its owner (`HeldMatchesOwner`);
* the tree and the names of the slots agree (`TreeMatchesSlots`), and each slot is in
  the list of its status, once (`ListsMatchStatus`);
* a slot being closed has one closer, which is in the hook (`ClosedByOwner`): this is
  what makes the stretch without the mutex safe;
* the live handles are those of the slots (`FilesMatchHandles`).

The proof has one lemma per action. Those that change neither slot nor list are
together in `QuietActions`, and the operations on lists have lemmas of their own
(`UnshiftAdds`, `UnlinkRemoves`, `ListEnds`).

### 4.2 The election

`ElectionInvariant`, `ElectionAtMostOneLeader`: for any number of services, of znodes,
of crashes, exits, resyncs, lost answers and failed requests, **assuming that no
connection to ZooKeeper is lost** (`Budget["disconnect"] = 0`); finding 5.3 is what
happens otherwise. The argument is that of ids: a member in PRELEAD or LEADER owns a
znode that exists, and every znode is at least as old as its own (`CandidateOwns`,
`AheadIsFirst`), so two such members have the same id and are one. To preserve it,
one needs to know of what is on its way: a list misses only znodes younger than those
it names (`ListsOlder`), an id in a completion belongs to the member and nothing is
about to delete it (`CreatedOwned`), and a member only deletes its own (`IdsGiven`).

`ElectionMoveProofs` shows that whatever the event, `transition()` makes a member do
one of a few moves (`TransitionMoves`): keep its znode, withdraw from it, or stand on
the id it was given. `ElectionServeProofs` does the same for ZooKeeper: the events
left to deliver embed in the former ones with a quiet event or one answer appended.
`ElectionProofs` combines the two.

### 4.3 The replication

`ReplicationVersionsCount`, `ReplicationSamePlace`, `ReplicationTypeOK`: for any
group, schema, mode, and number of transactions and incidents. `SamePlace` alone is
not inductive: that a REPLICATE served late finds the place of its transaction free
and next depends on its version, hence on `VersionsCount`, and that a new transaction
is nowhere yet depends on the ids. The invariant `IInv` of `ReplicationProofs`
therefore adds to the two that the ids of the transactions are below the next one
(`Below`) and that the rows of a REPLICATE come last in the base they lead to
(`Last`).

The core is `AppliedExtends`. Rows accepted by `replicate_body_manage()` carry the
version of the master, which must be one more than that of the slave
(`AppliedVersions`, from `ValidDiff`). By `VersionsCount` the slave then has as many
changes as the master had before, so the transaction takes the same place; had the
slave already applied it, `SamePlace` would put it at that very place, which is empty.
The other lemmas say that adding a transaction to a history (`ExtendsSound`,
`ExtendsAligned`), or one and an empty place (`HugeSound`), keeps them aligned, and
there is one lemma per action.

### 4.4 Only model-checked

Liveness under fairness is out of the prover's reach. `LeaderIsFirst`,
`SlaveFollowsFirst`, `WaitingCounted` and `Durable` are checked by TLC only so far.

## 5. Findings

Five runs show a disagreement between the code and what it says of itself. They are
expected to be violated.

1. `cache_exhausted`, `cache.c:628`. `sqlx_expire_first_idle_base()` returns 0 or 1
   and the caller tests `>= 0`: the error "too many bases" is always dropped, and the
   thread retries with the mutex held, so that no other thread can release a base.
2. `cache_forgotten`, `cache.c:422`. The comment says that whoever waits on a base
   being closed must be notified; one `g_cond_signal()` notifies one of them.
3. `election_stale_leader`, `election.c:2233`. A member in PRELEAD that loses its
   connection stands again on the znode of its lost session and becomes LEADER on it;
   it is not told when the znode expires.
4. `election_leak`, `election.c:2085`. An exit that crosses the creation of the znode
   deletes nothing, and the znode, which comes first, then belongs to nobody.
5. `election_stuck`, `election.c:2377`. A resync asked of the candidate that comes
   first waits for the URL of a master, that is for itself.

### Limits met while choosing the properties of the replication

`Durable` is stated with the conditions under which it holds. Beyond them a committed
transaction may be lost:

* two crashes: a change that was not acknowledged and one that was have the same
  version, given by two masters, and nothing in a version says who made it;
* a lost request, three transactions and a crash: a slave late on one table accepts a
  diff of another one; it is then CONCURRENT with the rest, which one peer may be
  (`election.c:1966`);
* a huge change whose peers are not found (`replication.c:382`), and a crash: the
  COMMIT succeeds on the master alone;
* a master leaves the election during its commit: a new one is elected without it,
  and the former one then overwrites the base of the new
  (`replication_dispatcher.c:1149`). So does a RESTORE served after its sender has
  died and another master has been elected;
* a member is elected while a PIPEFROM of its own, which it has forgotten, still
  runs: the stale dump then replaces the base of the master;
* a slave was late, another peer did not answer and the dump to the first is lost:
  the transaction is on the master alone, though the slave counted in the quorum
  (`replication.c:348`), and a crash loses it;
* a transaction is aborted because no answer came in time, though a slave has applied
  it; one more request is lost, and the master crashes: the slave has the version of
  the change that took its place, and hides it.

The base of a master is therefore not changed by its own commits only, and the rows
of two bases at the same version may differ. A change of the table `admin` alone has
no version at all.

Two more facts about the election: `exiting` stays set when `exit_all()` ends by its
timeout, and `retry_elections()` skips FAILED members though its documentation
(`election.h:89`) says "failed/pending for too long".

## 6. What is not modelled

In the modules: the reference counts and the log of the election, the paths, schemas
and upgrades of the repository, the administration requests DESTROY, PIPETO and
RESYNC of the replication, the errors of the disk and of the event loop of a master
during its COMMIT, the statements of the bases. The clock is a choice
everywhere. Among the parts, `PROJECT.json` gives for each one its status and the
reason: encodings (`metautils/lib/comm_*`, `asn_*`, `*_remote.c`), object-relational
code (partly generated), compression and erasure codes (computations out of reach of
a model checker), command lines, SNMP tables and Python rules have no control worth a
model. The others are in the plan.

## 7. The plan

In this order, most important first. Each module gets a type invariant and the
properties named by its hazards.

1. `NetworkServer`: events thread, workers, main thread. A stop must end (a worker
   counted and not started, `network_server.c:846`; a connection accepted when the
   workers have left, `:1021`), and a client has one owner at a time. An abstract
   specification (a client is monitored, queued or worked on) with the detailed one
   shown to implement it.
2. `Resolver`: the two LRU caches with `lrutree.c`, resolution without the lock,
   decache and expiry (`hc_resolver.c:530`, `:420`).
3. An abstract specification of a replicated base (a sequence of committed
   transactions, one writer), with `Election` and `Replication` composed and shown to
   implement it under the conditions of `Durable`; the administration requests.
4. `RawxChunk`: upload through the pending file, rename, crash, concurrent uploads.
5. `Meta1Services`: link, renew and unlink over an abstract transactional base, with
   the notification before or after the commit.
6. `Meta0Assign`, `lb`, `storage_policy`: the algorithms as operators, against a
   definition of what they must return.
7. `ClientPool` (`gridd_client*.c`) and `Conscience`.
8. `Meta2Contents`: versions, append, delete, quota; then the movers, whose steps a
   crash may separate.
9. Proofs: `SlaveFollowsFirst` and `LeaderIsFirst` for any number of services;
   `Durable`; the client ownership of `NetworkServer`.
