# A TLA+ model of YFS

YFS is a file system in user space.  Its clients share one extent server, which
stores files and directories, and one lock server, whose locks the clients
cache.  They all talk over the repository's own RPC library.  This directory
models that system in TLA+, checks it with TLC on small instances, and proves
with TLAPS what matters most of the lock service, the file system, the RPC
library and its helpers, for every value of the constants.

## 1. The system and its parts

| part | source | state | operations |
|---|---|---|---|
| caching lock client | `lock_client_cache.cc` | `cachelock_table` (state, owner, `ifrevoke`, `iftimout`, `ifrlsreq`, `wait_threads`), `releaser_queue`, pool jobs | `acquire`, `release`, `revoke_handler`, `retry_handler`, `releaser`, `releaser_rpc` |
| caching lock server | `lock_server_cache.cc` | `owner_cl`, `waiting_cls`, `retryer_queue`, `revoker_queue`, pool jobs | `acquire`, `release`, `retryer`, `revoker`, `retryer_rpc`, `revoker_rpc` |
| RPC client | `rpc/rpc.cc` `rpcc` | `calls_`, `xid_rep_window_`, `srv_nonce_`, `chan_` | `call`, `call1`, `bind`, `got_pdu`, `cancel`, `update_xid_rep`, `get_refconn` |
| RPC server | `rpc/rpc.cc` `rpcs` | `procs_`, `reply_window_`, `conns_`, `nonce_` | `reg`, `got_pdu`, `dispatch`, `checkduplicate_and_update`, `add_reply` |
| marshalling | `rpc/marshall.h`, `rpc/rpc.cc` | a buffer, an index, a capacity, `_ok` | `<<`, `>>`, `rawbyte`, `rawbytes`, `pack`, `unpack`, the headers |
| connection, poll thread | `rpc/connection.cc`, `rpc/pollmgr.cc` | `dead_`, `refno_`, `wpdu_`, `rpdu_`, callbacks, descriptor sets | `send`, `read_cb`, `write_cb`, `closeconn`, `incref`/`decref`, `block_remove_fd`, `wait_loop` |
| thread pool | `rpc/thr_pool.cc`, `rpc/fifo.h` | the job queue, the workers | `addObjJob`, `enq`, `deq`, the destructor |
| handles | `handle.cc` | `hmap` of reference-counted `rpcc` objects | `get_handle`, `safebind`, `done_handle` |
| extent server | `extent_server.cc` | `store_table` | `put`, `get`, `getattr`, `remove`, `getbuf`, `putbuf` |
| file system client | `yfs_client.cc`, `fuse.cc` | none of its own beyond the running request | the FUSE handlers and the operations they call |

How they interact: a FUSE handler runs operations of `yfs_client`.  An
operation acquires the lock of an i-number, calls the extent server, and
releases the lock.  `acquire` is answered from the cache or by the lock server,
which may send `revoke` to the owner and later `retry` to the first waiter.
Every call goes through `rpcc`, a connection, the server's poll thread, its
dispatch pool and the reply window; the stubs on both sides turn arguments and
results into bytes and back.  The lock server calls its clients from the jobs
of a pool, through handles.

What is hard to get right here: a mutex dropped around every RPC; three groups
of threads waiting on different conditions of the same lock; `retry` and
`revoke` arriving before the replies they follow; decisions the server leaves
to other threads; calls that time out after they were carried out; requests
that overtake each other; a server restart; a connection that dies under a
sender; a reference count that several threads drop; deadlines computed from a
clock that runs on; operations made of several extent calls.  `PROJECT.json` lists these
hazards line by line, with the properties that watch them.

## 2. Modules

| module | models | notes |
|---|---|---|
| `LockClientCache` | the caching client | any number of clients; the server is the environment |
| `LockServerCache` | the caching server, its two threads and its pool | actions only; used by `LockService` |
| `LockService` | clients and server together, with RPCs that fail | |
| `LockServiceLive` | the same with fairness | |
| `RpcWindow` | the reply window and the window of finished calls | operators |
| `Rpc` | one `rpcc`, one `rpcs`, connections that break, restarts | |
| `Marshall` | what the stubs write and read, byte by byte | operators |
| `Timespec` | the deadline arithmetic of `call1` | operators |
| `RpcCall` | one call from stub to stub: bytes, clock, channels | over `Marshall` and `Timespec` |
| `Connection` | one TCP connection, its references and the poll thread | |
| `ThrPool` | the pool and its bounded queue | |
| `Handle` | handles for one destination | |
| `AgentPool` | the lock server's pool, whose jobs use handles | composes `ThrPool` and `Handle` |
| `ExtentServer` | the extent server's handlers | operators on `store_table` |
| `YfsClient` | the FUSE handlers and `yfs_client` over extents and locks | |
| `FileSystem` | what the file system promises | abstract specification |
| `MC*` | constants, requests and symmetry of the small instances | |
| `*Proofs` | | the theorems about the module of that name; `AgentPoolProofs` has those of `ThrPool` and `Handle` too |

`Rpc` and `RpcCall` divide the RPC library between them.  `Rpc` has several
calls at once, abstract messages, and the duplicate suppression of both sides.
`RpcCall` has one call with its bytes, its clock and its channels.

A step is what the code does between taking a mutex and giving it up, or
between two RPCs.  Names of variables and actions are those of the source.  An
action with a suffix is a later part of the same function: `acquire` runs up to
its first wait or call, `acquire_wakeup` goes on after a wait on `queue_cond`,
`acquire_return` after the call.  Definitions marked "mutant" are deliberate
faults; nothing in a specification uses them.

Choices worth knowing:

- *One lock id.*  The tables keep nothing across ids but the queues and the
  pools, whose interference is bounded by `PoolMax` and `JobMax`.
- *The release wait.*  `releaser_rpc` waits with a timeout, so its end is
  possible at any moment; the signal on `tmout_cond` adds nothing.
- *Spurious wakeups.*  They are modelled wherever the code waits.  Where it
  waits in a loop, only those that change something are kept.  After one in
  `block_remove_fd`, which has no loop, its promise and the safety of deletion
  are lost; the history variable `spurious` of `Connection` records it.
- *Unsynchronised reads.*  `owner_cl` in the server's jobs and `callbacks_[fd]`
  in the poll thread are read at any time between the locked steps.
- *An uninitialised reply.*  When `checkduplicate_and_update` returns DONE
  without a reply, what is sent is any reply sent before.  `Slides` reads
  `end()->xid` as libstdc++ lays it out.
- *References of `rpcs::dispatch`.*  In `Connection` a sender of a server's
  connection is a dispatch thread: `got_pdu` takes its reference and `dispatch`
  drops it, or, when it answers for an old instance of the server, never does
  (`rpc.cc:531`).  `leaked` counts those, and `RefsExact` accounts for them.
  The entry of `conns_` is a holder of its own, `Latest`.
- *A message refused* by a full pool stays in `rpdu_`, and `got_pdu` is offered
  it again after the next `select` that finds the socket readable.
- *Bytes and clock units* are scaled down in the run of `RpcCall`: bytes have
  four values, a second has two milliseconds.  The operators take the base and
  the units as constants, and the proofs are for all of them or for the real
  ones.
- *What the constructor is told*, `blockadd_` of a pool and `mgr_` of a
  connection, is chosen in `Init`, so one run covers both kinds.
- *New i-numbers.*  `new_inum` returns `random()` without looking whether the
  number is in use.  `Collide` says whether it may be; the runs assume not, and
  `OwnerChanges` would not hold otherwise.
- *Calls that time out.*  `call1` forgets the call on the caller's side only
  (`rpc.cc:287-323`), and the server ignores `xid_rep`.  A request that had not
  been served therefore stays on its way: `abandoned` of `LockService` and `late`
  of `YfsClient` hold those, and `ServeLate` and `LateCall` serve them, at any
  time or never.
- *`connect` and `send`* are steps of their own in `RpcCall`, since both may
  block for ever; in `Rpc` they are part of `call1` and `retransmit`.
- *The lock in `YfsClient`* is the one the lock service means to provide.
  What the service really provides is the subject of `LockService`.
- *Directories* are sequences of lines.  `remove` leaves an empty line, as
  `buf.erase` does, and `dir_find` skips it.

## 3. Runs

Runs that pass:

| run | instance | shows |
|---|---|---|
| `LockClientCache` | 1 client, 3 threads, 2 workers, 2 handlers, pool of 1 | the inductive invariant and what follows from it, against any server |
| `LockService` | 2 clients, one of 2 threads; 2 server pool threads, a job queue of 2; two calls fail, served before, later or never | exclusion unless an acquire barged in, the client's assumptions are met (`ServesClients`), all until a call fails; a failed release or retry is harmless (`FailureContained`, `JobsBounded`), unless it is served when its client has gone on |
| `LockServiceLive` | 3 clients of 1 thread, 3 calls, none fails | every call of a client to the server is answered in the end; a cached lock is an owned one, unless an acquire barged in; one revoke at a time, no waiter popped twice |
| `Rpc` | 3 calls, 2 connections, a restart, lossy mode | at most once, while no request overtakes an older call's; OK means executed; `xid_rep` is exact |
| `YfsNames` | 2 processes, 2 directories, a file name and a directory name, any one extent call fails, carried out before, later or never | every operation is atomic until a call fails: `YfsClient` implements `FileSystem`; names stay unique, failure or not; what a listing may show |
| `YfsData` | 2 processes, one file, sizes 0 and 1, reads and writes at offset 1, any one extent call fails likewise | the same for bytes; locks are given back; extents change under their lock, new extents and late calls apart; every request is answered, except a `setattr` whose `resize` fails, unless waiting processes are overtaken for ever |
| `Connection` | 2 senders, messages of 2 parts written and read by parts, a client's and a server's connection, at most one part unread, at most one reference lost | references are counted exactly; deletion is safe; `block_remove_fd` keeps its word; sends make progress; a refused message is offered again |
| `AgentPool` | 2 workers, 2 adders, queue of 2, 4 jobs, blocking or not; 4 `hinfo` objects | jobs are kept, wakeups are not lost, the destructor ends; `safebind` keeps its promise to each job; nothing is freed while held |
| `RpcCall` | 9 calls with matching and other signatures, started at any of 2 instants, timeouts of 1 and 2 seconds, 2 connections | the method runs at most once and on arguments with exactly the bytes that were passed; the caller gets exactly the result or an error; deadlines are valid and kept; a request goes once over a channel; no caller waits for nothing; every call returns unless it hangs in `connect` or `send` |

Runs that end in a counterexample.  Each checks what a comment, an assertion
or a test of the repository says; `PROJECT.json` quotes it.

| run | what the code does |
|---|---|
| `LockServiceExclusion` | an acquire served between a release and the retryer is granted over the waiter, who is then granted the lock too |
| `RpcAtMostOnce` | after requests have overtaken each other, a request is executed a second time |
| `ConnectionWriteCb` | `write_cb`, which asserts `!dead_`, is called on a connection that has just died |

Several properties say how far the code is right.  `ExclusiveUnlessBarged` and
`AtMostOnceInOrder` hold with no acquire served in that window, and with no
request overtaking an older one; the history variables `barged` and `overtaken`
record exactly those events.  `FailureContained` and `JobsBounded` exempt failed
acquire and revoke calls: a failed acquire counts as a grant
(`lock_client_cache.cc:108`), of which nothing is claimed.  They also exempt what
follows a release or a retry that was given up and is served after its client
has gone on to hold the lock, or to ask for it, anew: nothing tells it from the
new one, and the history variable `stale` records it.  `OwnerChanges` names its
two exceptions, the extent of a new i-number and the call that its process gave
up.  `HandlersFinish` names the `setattr` that gets no answer (`fuse.cc:91-96`)
and the processes that are overtaken for ever.  `CallEnds` names the two places
where a call has no deadline, the `connect` of `get_refconn` and `send` on a
connection that stays up (`connection.cc:128-130`, `156-158`).  `ArgsExact` is
about bytes, since types do not go over the wire: a method whose other types
come out as the same bytes runs on arguments nobody passed (two ints read as one
`unsigned long long`), and the run has two such calls.
`ClientServed` exempts failures, because a failed release, retry or revoke is
queued again without waking the thread that serves the queue.
`ListsLiveFiles` exempts the moment between the two steps of `remove`.

**Bounds.**  Two clients are needed for a revoke, three for a queue with two
waiters; two threads for a local waiter, three for one that finds a waiter
served before it.  A connection that breaks and the lossy mode give a request
two duplicates.  The first call of `Rpc` is `bind`, so three calls are the
fewest of which two overlap; a gap with an entry on either side takes four
(`RpcAtMostOnce`).
Messages of two parts can be written and read in part, and the first part is
the size, which `readpdu` reads in one piece.  A string of 36 bytes exceeds an
allocation of 30 after the header, and needs more than twice of it.  Timeouts
of 1 and 2 seconds give a call one wait and two, the second cut off at the
final deadline.  A byte at offset 1 leaves a
gap in an empty file, overwrites a longer one and is cut off by a truncation.
Two file i-numbers let a name be made, removed and made again.  While a call to
the extent server that was given up may still be carried out, `YfsNames` serves
requests one at a time (`OneActive`); the call arrives between any two of their
steps.  Four jobs let two adders wait at a full queue of two.  Two failures let
both a release and a retry be repeated; nothing is claimed after a failed
acquire or revoke or after a stale request, and the constraint `Claimed` stops
TLC there, once the caller is told; after a second failure it follows one thread
of each client.  Deadlock is checked in
the runs of `YfsClient` and `LockClientCache`; the others (`CHECK_DEADLOCK FALSE`) stop when
calls, connections or jobs are used up, when a failed call is never repeated, or
when a VERIFY has stopped the process.

**Fairness.**  A thread that can go on does (weak fairness per process).  The
lock client, the lock server and the extent server hold no mutex across a
blocking call.  The RPC library does so twice: `get_refconn` holds `chan_m_` over
`connect`, and `safebind` holds `cl_mutex` over `bind`.  `RpcCall` assumes of
neither `connect` nor `send` that it ends; the other specifications assume it.

- `LockServiceLive`: timed waits end, calls are answered (none fails and none
  hangs in `connect` or `send`), holders release.
  Mutexes are not fair, and a thread that keeps acquiring may overtake a
  waiting `revoke_handler` for ever; the threads therefore make `MaxCalls`
  calls.  `Timely` says that a woken thread runs within the 120 seconds of
  `timeout_value`.
- `YfsClient`: weak fairness for each process.  A lock is granted when it is
  free; it is not promised to a process that waits while others come and take
  it.  A late call need not ever be carried out.
- `Connection`: strong fairness for threads that want `m_`, which the poll
  thread takes again and again, for `select` reporting a writable socket (the
  peer goes on reading), and for the pool taking a message it is offered again
  and again.  Weak fairness for the poll thread and for a `select` that must
  return.
- `AgentPool`: weak fairness only; `bind` and the calls of the jobs end, by
  their timeouts if need be, and nothing makes a spurious wakeup happen.
- `RpcCall`: the calling thread runs and the clock goes on, a live shared
  connection is taken at once, and `send` on a dead one returns.  Nothing is
  assumed of the server, of `connect`, or of `send` on a live connection.

## 4. Proofs

Every theorem holds for all values of the constants that the named assumption
of its module allows; the runs evaluate these assumptions.  Each safety proof
goes the same way: an inductive invariant, checked by TLC first, one lemma per
action that keeps it, one lemma that puts the actions together, and the
theorem by propositional temporal logic.

**The lock client** (`LockClientCacheProofs`, any clients, threads, workers,
handlers, any `clientOf` and pool size):

| theorem | statement |
|---|---|
| `ClientInvariant` | `Spec => []ClientInv` |
| `TypeCorrect` | `Spec => []TypeOK` |
| `LocalMutualExclusion` | `Spec => []LocalExclusion`: no two threads of a process hold the lock |
| `VerifyHolds` | `Spec => []VerifyReleasing`: the VERIFYs of `releaser_rpc` hold |
| `CallsSerialised` | `Spec => []OneCallAtATime`: one call to the server at a time |
| `HolderKeepsLock` | `Spec => OnlyHolderUnlocks`: only the holder's release ends LOCKED |

None of the properties is inductive alone.  `ClientInv` joins three facts:

- `OneRelease`: a revoked lock is in one place only, the releaser's queue, the
  pool, or one sending worker, and is RELEASING all the while.  Without it a
  second job could exist for the lock, and VERIFY could fail.
- `OneAcquire`: the lock is ACQUIRING as long as a call may still be granted,
  and there is one such call.  Without it a late OK could overwrite the state
  of a lock another thread holds.
- `HolderOwns`: a lock is LOCKED exactly while the thread on record holds it.

The server is assumed to send `retry` only to a client whose acquire it has
answered with RETRY (`RetryDue`); nothing is assumed of `revoke` or `release`,
and calls may fail.  `ServiceServesClients`, below, proves that the real server
is such an environment as long as no call fails.

**The lock service** (`LockServiceProofs`, any clients, threads, pool threads
and sizes of the pools; `MayFail` names the calls that may fail):

| theorem | statement |
|---|---|
| `ServiceInvariant` | `Spec => [](ServiceInv /\ OwnInv /\ LateInv)` |
| `LockExclusive` | `Spec => []ExclusiveUnlessBarged`: no two clients hold the lock, unless a call failed or an acquire barged in |
| `CacheMatchesRecord` | `Spec => []CachedMeansOwned`: under the same condition who has the lock in any form is `owner_cl` |
| `FailuresContained` | `Spec => []FailureContained`: a failed release or retry does no harm, unless it is served when its client has gone on |
| `JobsAlwaysBounded` | `Spec => []JobsBounded`: under the same condition, one retry or revoke per lock |
| `ErrandsSerialised` | `Spec => [](~stale => NoEmptyPop /\ NoDoubleRevoke)` if only releases and retries fail |
| `ServiceServesClients` | `Spec => ServesClients`: the clients keep to `LockClientCache` |

The argument turns on the *errand*: the server has at most one thing to do for a
lock, namely the revoke of the owner, the release that answers it, or the retry
of the oldest waiter that follows the release.  Wherever it is (a queue, the
pool, a pool thread, the owner), it is there alone, and a client is waiting.
`ErrandInv` says so of the server; `Agreed` adds what server and clients must
agree on: a waiter neither calls the server nor gives the lock back, and the
client on record waits for its retry, has the lock, or is about to be told that
it has.  These two survive an acquire
that barges in, and failed releases and retries, but not a failed acquire or
revoke, nor a stale request; `ServiceInv` claims them until then,
and that the requests still to be served late are those of calls that failed.
Such a request, unless it is stale, does what it was sent for or is refused.
`OwnInv` adds that whoever has the lock is the owner on record, which needs that
no call failed and no acquire barged in, and `LateInv` that nothing is late
before a call has failed.

The proof is in three modules.  `LockClientCacheProofs` ends with lemmas on what
each step of a client means to the server: whether the client has the lock,
calls, or gives it back.  `LockServerCacheProofs` shows that `ErrandInv` and
`Agreed` survive the server's steps and every such change, with the clients as
mere variables.  `LockServiceProofs` puts the two together, step by step of the
composition.

**The file system** (`YfsClientProofs`, any processes, extents, names, requests
and failing calls):

| theorem | statement |
|---|---|
| `LocksAlwaysReturned` | `Spec => []LocksReturned` |
| `NamesAlwaysUnique` | `Spec /\ ~Collide => []NamesUnique` |
| `OwnerAlwaysChanges` | `Spec /\ ~Collide => OwnerChanges` |

`LockInv` says which locks a process holds at each line of each operation, and
that a lock's owner is exactly the process at such a line.  Unique names need
more: a process that is about to write a directory back holds a copy of it, so
`FreshInv` is about versions of directories, those stored, those held by a
process that edits one and those in a `put` that was given up: in none is a name or an i-number twice, no i-number is
in versions of two directories, and the number a `create` has just drawn is in
none.  Without the last part a file could get two names.  `OwnerAlwaysChanges` needs
`UsedInv` as well: neither the store nor a late call has an i-number that was
not given out, so the first `put` of a new one overwrites nothing.

**The RPC library** (`RpcCallProofs`):

| theorem | statement |
|---|---|
| `WordExact` | with 256-valued bytes, `unpack` of `pack(x)` is `x` for every `int` |
| `WordBytewise` | writing a word byte by byte grows the buffer as writing it at once |
| `NeverOverrun` | a value of any type and length is written within the buffer as grown |
| `DeadlineExact` | `add_timespec` of whole seconds is exact and valid |
| `DeadlinesAlwaysKept` | `Spec => []DeadlinesKept` |
| `SentOnce` | `Spec => []OncePerChannel` |

`DeadlineInv` adds what `finaldeadline.tv_sec = 0` stands for: the last wait has
been for the final deadline.  `OnceInv` adds that a caller about to connect
again has lost its channel, that one about to send has not used the one it got,
and that no newer channel has carried the request.

**Pool and handles** (`AgentPoolProofs`): `JobsNeverLost` and `PoolInvariant`
for any workers, adders and queue size; `HandleCorrect` for any threads and
`hinfo` objects.  `PoolInv` adds that pills come last and that a worker has left
only when nothing but pills is queued; `HandleInv` that `refcnt` is the number
of holders and that whoever binds has the mutex.  `AgentsCorrect` and
`HandlesNeverFreed` carry both to their composition, each step of which is a
step or a stutter of each part.

**Connections** (`ConnectionProofs`, any senders, message size, bounds on what
arrives and on the references `dispatch` forgets):

| theorem | statement |
|---|---|
| `ConnInvariant` | `Spec => []ConnInv` |
| `RefsAlwaysExact` | `Spec => []RefsExact`: `refno_` counts the holders and what was leaked |
| `DeletionSafe` | `Spec => []NoUseAfterDelete` |
| `RemovalFinal` | `Spec => []RemovedForGood`: `block_remove_fd` keeps its promise |

`ConnInv` has two halves.  `Owed` is about references: who holds `ref_m_`
dropped the last one, and the last one goes only after `dead_` is set.
`Served` is about the poll thread: a dead connection is out of its reach, or
some thread is on its way to `block_remove_fd`; a message being written is that
of the one thread waiting in `send`.  Deletion is safe because of both: with
the last reference gone no such thread is left, so the poll thread is out of
reach.  Most steps touch one half only, and go by a lemma for all of them
(`NeutralStep`, `QuietStep`, `TurnStep`).

**Only model-checked:**

- liveness and all that rests on fairness, which the prover does not handle;
- `XidRepExact`, `AtMostOnceInOrder` and `OkMeansExecuted` of `Rpc`: the windows
  are folds and scans over sequences, which need induction;
- `ArgsExact` and `ReplyExact` of `RpcCall`: the writers and readers of whole
  messages are folds over data.  `WordExact` and `NeverOverrun` prove the step;
- `NotStranded` of `RpcCall`;
- that `YfsClient` implements `FileSystem`, and what a listing shows.

## 5. What is not modelled

- Logging, argument parsing, the test programs and the programs' mains.
- The non-caching lock server and client, which the caching ones replaced.
- The accept loop beyond its collection of dead connections; `EPollAIO`, which
  is compiled and not used.
- Several lock ids sharing one pool, and several clients of one `rpcs`.
- Who owns the buffers of saved replies (`rpc.cc:626`): replies are values here.
- In `rpc/`: the statistics counters, requests with `clt_nonce` 0, which no
  program sends, `set_reachable`, which tests call, `RPC_CHECKSUMMING`, which
  is off, and the marshalling of vectors and maps, which has no caller.
- `extent_server::resize`, `handle_mgr::delete_handle`: no callers.
- Times, modes and the layout of FUSE replies; `setattr` without a size.
- Crashes of a YFS client: the lock server never takes its locks back.

What could still be added within these modules: an abstract lock service that
`LockService` implements when no acquire barges in; two lock ids that share the
pools; what wakes a queue again after a failed call.
