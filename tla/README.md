# Go 1.14 concurrency core in TLA+

Models, model-checking runs and machine-checked proofs for the parts of this
repository that programs rely on when goroutines meet: the runtime's sleeping
semaphore, the primitives of package `sync`, channels and `select`, timers, the
network poller with `internal/poll`, and package `context`. Paths are relative to
the repository root `src/`.

## 1. Inventory

| Component | Source | State it keeps | Operations |
|---|---|---|---|
| sleeping semaphore | `src/runtime/sema.go` | `*addr`; per root: lock, `nwait`, treap of waiter lists; per sudog: `ticket` | `semacquire1`, `semrelease1`, `cansemacquire`, `queue`, `dequeue` |
| `sync.Mutex` | `src/sync/mutex.go` | `state` (locked, woken, starving, waiter count), `sema` | `Lock`, `lockSlow`, `Unlock`, `unlockSlow` |
| `sync.RWMutex` | `src/sync/rwmutex.go` | `w`, `writerSem`, `readerSem`, `readerCount`, `readerWait` | `RLock`, `RUnlock`, `rUnlockSlow`, `Lock`, `Unlock` |
| `sync.WaitGroup` | `src/sync/waitgroup.go` | counter and waiter count in one word, `sema` | `Add`, `Done`, `Wait` |
| `sync.Once` | `src/sync/once.go` | `done`, `m` | `Do`, `doSlow` |
| `sync.Cond`, `notifyList` | `src/sync/cond.go`, `src/runtime/sema.go` | `wait`, `notify`, list of parked waiters, `L` | `Wait`, `Signal`, `Broadcast` |
| channels | `src/runtime/chan.go` | `hchan`: ring buffer, `closed`, `sendq`, `recvq`, lock | `chansend`, `chanrecv`, `closechan` |
| select | `src/runtime/select.go` | sudogs of one goroutine on several channels, `g.selectDone`, locks held | `selectgo`, `sellock`, `dequeue`, `dequeueSudoG` |
| `sync.Pool` queues | `src/sync/poolqueue.go` | packed head/tail, slots, chain of rings | `pushHead`, `popHead`, `popTail` |
| `sync.Map` | `src/sync/map.go` | `read`, `dirty`, `misses`, entries (nil, expunged, value) | `Load`, `Store`, `LoadOrStore`, `Delete`, `Range` |
| context | `src/context/context.go` | tree of `cancelCtx`, `children`, `err`, `done`, timer | `WithCancel`, `WithDeadline`, `cancel`, `propagateCancel`, `removeChild` |
| `poll.fdMutex` | `src/internal/poll/fd_mutex.go` | packed closed/lock bits, reference and waiter counts, two semaphores | `incref`, `decref`, `rwlock`, `rwunlock`, `increfAndClose` |
| `poll.FD` | `src/internal/poll/fd_unix.go`, `fd_poll_runtime.go` | the descriptor, `isBlocking`, `csema` | `Read`, `Write`, `SetDeadline`, `SetBlocking`, `Close`, `destroy` |
| network poller | `src/runtime/netpoll.go`, `netpoll_epoll.go` | `pollDesc`: `rg`, `wg`, deadlines, timers, sequence numbers, `closing` | `pollOpen`, `pollReset`, `pollWait`, `pollSetDeadline`, `pollUnblock`, `netpollready`, `netpolldeadlineimpl` |
| timers | `src/runtime/time.go`, `checkTimers` of `src/runtime/proc.go` | per timer: `status`, `when`, `nextwhen`, `pp`; per P: 4-ary heap, `timer0When`, `adjustTimers`, lock | `addtimer`, `deltimer`, `modtimer`, `adjusttimers`, `runtimer`, `clearDeletedTimers`, `checkTimers` |
| runtime locks, notes | `src/runtime/lock_futex.go` | futex word | `lock`, `unlock`, `notesleep`, `notewakeup` |
| scheduler | `src/runtime/proc.go` | run queues, Ms, Ps | `gopark`, `goready`, stealing |

**How the parts interact.** `Mutex`, `RWMutex`, `WaitGroup` and `fdMutex` sleep
through `runtime_Semacquire` and are woken through `runtime_Semrelease`;
`RWMutex` and `Once` contain a `Mutex`; `Cond` takes any `Locker` and sleeps on a
`notifyList`; a channel keeps its own queues of sleeping goroutines under
`c.lock`, and a `select` is on several of them. A `poll.FD` is an `fdMutex` and a
`pollDesc`; the poller reports events to it, timers report deadlines. A context
closes channels, takes the locks of its children, and arms a timer. Goroutines
share the fields above through atomic operations; parking and readying goes
through the scheduler, of which one promise is used: a runnable goroutine runs.

**What is hard here.** Fast paths read or change shared state without a lock,
decisions are taken from copies that can be stale, wakeups may be taken by
someone other than the sleeper they were meant for, and objects are reused while
events for their former life are on the way. What makes each part correct:

- semaphore: no lost wakeup although `semrelease1` reads `nwait` without the
  lock; no sudog in two places; permits conserved;
- Mutex: exclusion across fast path, CAS and starvation handoff; `mutexWoken`
  set exactly while one wakeup is under way; an exact waiter count; progress;
- RWMutex: exclusion; the last departing reader, and only it, wakes the writer;
  permits of two writers' rounds do not mix; writers get in;
- WaitGroup: no permit missing or left over between rounds; `Wait` means zero;
- Once: `f` at most once and finished whenever a `Do` returns, panics included;
- Cond: a ticket notified before its owner is queued is not lost; counters wrap;
- channels and select: values in order, each once; a blocked goroutine resumed by
  exactly one case; no cycle of channel locks; nobody asleep who could proceed; a
  non-blocking call that fails without the lock has a moment that justifies it, or is
  a send on an unbuffered channel that has been closed meanwhile;
- pool queues: every item popped at most once; a ring dropped only when it can
  get no more items; nothing kept alive by an unused slot;
- `sync.Map`: linearizable, although updates go to entries without the lock;
- context: cancellation reaches every descendant, once, with a cause of which the
  first is kept, in lock order; timers and watching goroutines do not leak;
- `poll.FD`: closed by the last to leave and under nobody's feet; no readiness or
  deadline lost; a late timer of another deadline or another file does nothing;
- timers: run once and not too soon; Stop answers truly; heap, `timer0When` and
  `adjustTimers` exact; no check passes over a timer that is due, but for one that
  its own walk over the heap has moved.

The hazards are listed, each at its line, in `PROJECT.json`.

## 2. Modules

| Module | Models | Built from |
|---|---|---|
| `Semaphore` | a counting semaphore (abstract) | |
| `OwnedLock` | a lock with one owner (abstract) | |
| `SemaQueue` | contract of the sleeping semaphore for one address | refines `Semaphore` |
| `SemaRoot`, `SemaRootProofs` | `semacquire1`/`semrelease1` with the shared root, and the proofs | refines `SemaQueue` |
| `Mutex`, `MutexProofs` | `sync.Mutex`, and the proofs | extends `SemaQueue`, refines `OwnedLock` |
| `RWMutex`, `RWMutexProofs` | `sync.RWMutex`, and the proofs | uses `OwnedLock`, `Semaphore` twice |
| `WaitGroup`, `WaitGroupProofs` | `sync.WaitGroup`, and the proofs | uses `Semaphore` |
| `Once`, `OnceProofs` | `sync.Once`, and the proofs | uses `OwnedLock` |
| `Cond` | `sync.Cond` and `notifyList` | uses `OwnedLock` |
| `Subsequences` | a sequence at some of its positions, for queues and lines with gaps | |
| `FifoChannel` | what a channel promises (abstract) | uses `Subsequences` |
| `Chan`, `ChanProofs` | channels and `selectgo`, and the proofs | refines `FifoChannel`, once per channel |
| `PoolDeque` | a deque of items (abstract) | |
| `PoolChain` | `poolDequeue` and `poolChain` | refines `PoolDeque` |
| `AtomicMap` | a map with atomic operations (abstract) | |
| `SyncMap`, `SyncMapProofs` | `sync.Map`, and the proofs | refines `AtomicMap` |
| `Counting` | lemmas about numbers of goroutines at a label | |
| `Context` | the cancellation tree of package `context` | |
| `FdMutex`, `PollDesc` | the packed word of an FD; the poller's descriptor | |
| `PollFD` | an FD, composed of the two with the kernel and timers | extends `FdMutex`, `PollDesc` |
| `TimerService` | what timers promise (abstract) | |
| `TimerHeap` | the 4-ary heap as pure operators | |
| `Timers` | the timers of the Ps | extends `TimerHeap`, refines `TimerService` |
| `MCSemaRoot`, `MCOnceCond`, `MCChan`, `MCPollFD`, `MCSyncMap`, `MCContext`, `MCPoolChain`, `MCTimers` | programs, trees and symmetry sets for TLC | |

Each level relies on the level below only through what is shown of it:
`SemaRoot => SemaQueue`, `Mutex => Semaphore` for the semaphore it calls, and
`Mutex => OwnedLock`, all three checked and proved.

**Conventions.** One action per atomic step of the code; `pc[g]` is the control
of goroutine `g`; variables keep the names of fields and locals. A loop that
loads a word, computes and retries its CAS is one step when what it does depends
on the word only. Race-detector calls, profiling and tracing are left out. A
`throw` or `panic` of the primitive is a state the properties speak about. An
operator commented "Mutation" is a wrong variant of the definition after it;
the specification does not use it, it documents a slip the properties catch.

### SemaRoot
Addresses share `lock` and `nwait`. `EasyAcquire`, `AnnounceWaiter` (lock and
`nwait++`), `Recheck`, `UndoAnnounce`, `QueueAndPark`, `Resume` follow
`semacquire1`; `XaddPermit`, `LoadNwait`, `LockToWake`, `DequeueWaiter`,
`ReadyWaiter` follow `semrelease1`. The treap is one waiter sequence per
address, which is what `queue` and `dequeue` maintain; `root.queue(.., lifo)`
puts the waiter first or last. The throw "corrupted semaphore ticket" cannot
occur: `dequeue` sets `s.ticket = 0` just before.

### Mutex
`m.state` is a record built by `Bits(locked, woken, starving, waiters)`. A step
of `lockSlow` works on `old[g]`, which may be out of date: `Spin`, `LockRetry`
(failed CAS and reload), `LockCAS`, `WaitCAS`, `SleepOnSema`, `WakeFromSema`,
`Woke`, `TakeOver`; `Unlock`, `UnlockDone`, `UnlockRetry`, `WakeCAS` and the
phases of `runtime_Semrelease` follow `Unlock` and `unlockSlow`. Whether a spin
is allowed and whether 1 ms has passed are free choices.

### RWMutex, WaitGroup, Once, Cond
Each atomic addition, CAS, plain access to the shared word and semaphore call is
one action. In `WaitGroup` the callers follow the rules in the comment of `Add`,
in the sense explained at the head of the module. In `Cond` the counters start at
every value modulo `Width`, so that their wraparound is inside the run.

### Chan
A program fixes the sizes of the channels, as `makechan` is given them, and the
calls that are made. A case of a `select` is `<<c, d, i>>`: a channel, a direction, and a
number that tells apart cases alike in both; each sends a value of its own. A queue holds
sudogs, that is a goroutine with one of its cases, so a select has as many sudogs in one
queue as it has cases for it. A critical section of `c.lock` is one action; only `selectgo`,
which locks several channels, is seen to hold a lock (`sellock`, in lock order).
`PassOne` is the search for a case that can go on, and the queueing on all of them
otherwise; `PassThree` removes the losing sudogs. `SendFast` and `RecvFast` are the
unlocked reads, one field at a time. `goready` comes after the unlock, so a
goroutine taken from a queue stays parked in the hands of its waker (`glist`).
`Live` is the race on `selectDone`: the sudogs of a queue that a `dequeue` may still
return, at the positions `Waiting`; of the sudogs a select has in one queue that is the
first, since all later ones are passed over once it has been won. The auxiliary variables `refusable` and `moved`
remember whether a refusal has been justified and how often a call took effect.

### PoolChain
Every atomic access is a step of its own: load of `next`, CAS on the packed
indices, read and clearing of the slot, its release by `typ`, and the CAS that
unlinks a ring. Indices wrap at `Wrap`; rings double up to `DequeueLimit`.

### SyncMap
`read` and `dirty` map keys to numbered entries, `p` gives their contents. A call
takes a copy of the entry it has found and acts on it later (`e`), which is where
the races are. `seen` collects what the keys of a call have been mapped to while it
runs; `AtomicMap` asks that what a call reports is among it.

### Context
Threads are the user's goroutines, the goroutine that watches a parent of a type
the package does not know, and the goroutine of a timer. A thread has a stack of
frames, because `cancel` calls itself for the children with its lock held.

### FdMutex, PollDesc, PollFD
The methods of the word are operators on a record of its fields. The descriptor of
the poller outlives the file: timer calls that have fired (`fired`) and events that
have been collected (`ev`) may arrive when it serves another file, and carry the
sequence number they were armed with. `PollFD` adds the control of `Read`, `Write`,
`SetDeadline`, `SetBlocking` and `Close`, and a kernel with edge-triggered events.
`SetBlocking` stores `isBlocking`, which `Close` reads, and then clears `O_NONBLOCK`
(`nonblock`), which decides whether a system call waits in the kernel. `SetDeadline` stores
both deadlines before it unblocks anybody, where the code interleaves the two; all of it
happens under `pd.lock`.

### Timers
The status is a lock of its own: `Seize` (deltimer, modtimer) and `Claim` (holders
of the heap's lock) take a timer over, `Settle`, `Remove`, `PutBack` and others give
it back. `LockHeap` to `Return` follow `checkTimers` through `adjusttimers`,
`runtimer` and `clearDeletedTimers`; `CheckAdjust` and `CheckWhen` are its reads
without the lock. Whether clearing is worthwhile is a free choice, since
`deletedTimers` is a heuristic. A check of another P gets a time, as in `findrunnable`; a
negative time stands for one that has overflowed and becomes `maxWhen` (`NotNegative`).
`watched` holds the timers a check has to account for, `lifted` those that its walk has
itself moved to where it has been (`MovedBehind`).

## 3. Runs

| Run | Instance | Shows |
|---|---|---|
| `sema` | 3 goroutines, 2 addresses, `MaxVal` 2 | `NoLostWakeup`, `RootInvariant`, `ImplementsContract` |
| `mutex` | 3 goroutines, 1 spin | `MutexSafe`, `TokenInv`, `WaiterCount`, `ImplementsLocker`, `ImplementsSemaphore`, `SomeoneLocks`, no deadlock |
| `rwmutex` | 5 goroutines | `Exclusion`, `Accounts`, `WriterGetsIn`, no deadlock |
| `waitgroup` | 3 waiters, 3 workers, counter up to 3 | `RoundsKeptApart`, `WaitersReturn`, no deadlock |
| `once_cond` | 3 goroutines on a `Once` or on a `Cond`, 2 calls of `Wait`, counters modulo 5 | `RunsOnceBeforeReturn`, `DoReturns`, `NotifyListInvariant`, `NotifiedResumes`, no deadlock |
| `chan` | 3 goroutines, 2 values, 7 programs with 1 or 2 channels, 2 cases alike | `HchanInvariant`, `WaitersFound`, `SelectSafe`, `RefusalJustified`, `ImplementsFifo` |
| `poolchain` | 1 producer, 2 consumers, 3 items, rings of 1 and 2, indices modulo 4 | `ChainInvariant`, `ImplementsDeque`, no deadlock |
| `syncmap` | 3 goroutines in roles, 2 with all calls; 2 keys, 2 values | `MapInvariant`, `ImplementsAtomicMap`, no deadlock |
| `context` | 2 goroutines, 4 trees of 3 contexts, 2 calls of each `CancelFunc` | `TreeInvariant`, `NothingLeaks`, `FirstCauseKept`, `CancellationServed` |
| `pollfd` | 4 goroutines, 6 programs, up to 3 references and 2 waiters, 2 moments | `DescriptorInvariant`, `WakeupsKept`, `DeadlineServed`, `TimeoutJustified`, `CloseEndsCalls` |
| `timers` | 2 Ms, 2 Ps, 5 programs with up to 10 timers and 4 calls, times up to 3 | `TimersConsistent`, `CheckAccounts`, `ImplementsService`, `CallsReturn` |
| `timers_wide` | 10 timers, 3 calls | `CheckOverlooksNothing` is **violated** |

A property such as `HchanInvariant` is the conjunction of named parts; each part
states one fact and has its own comment (`QueueInvariants`, `RingInvariant`).

**Why the bounds are enough.** Three goroutines give a mutex an owner, a sleeper
and a newcomer, the three roles its protocol distinguishes. The safety properties
of `SemaRoot`, `Mutex`, `RWMutex`, `WaitGroup`, `Once`, `SyncMap` and `Chan` are proved for
any number (section 4), so there the bounds matter for liveness only. Two addresses on one root give a release
that sees only the other address's waiters. Five goroutines give an RWMutex a
reader still to be released by the previous writer, a departing one, a new one
and two competing writers. In `Cond`, two waiters can queue in the order opposite
to their tickets. A channel of size 2 has indices that wrap and can be partly
full; two channels and three goroutines give selects in opposite orders with a
third party. Two cases alike and one of the other direction on the same channel give a
select two sudogs in one queue and one in the other, alone or behind other waiters. A pool chain with three rings has one in the middle that both
ends pass; indices modulo 4 wrap within the run. Two keys let one miss promote a
map while the other key is expunged. Three contexts make a chain, two siblings,
and a child below a foreign parent. Two goroutines on one mode of an FD sleep for
the lock and in the poller, with a closer; two moments make deadlines equal,
different, changed and reused. In `References` of `pollfd` the count of references
reaches its limit, in `Crowd` the count of waiters too. Two or three timers give
every overlap of calls on them. What depends on the shape of the 4-ary heap needs more:
with six timers the parent of every place below the last is the root, so that a timer put
into the place of a deleted one never rises; ten timers (`Wide`) are the fewest with which
it can rise to a place other than the first, and three calls (two modifications and a
check) the fewest with which that matters. `Wide` has its times and targets chosen for this,
with the other calls of two Ms left to the small programs. `MaxVal`, `MaxCounter`, `MaxTickets`,
`MaxElts`, `MaxTime`, `maxWhen`, `MaxCalls`, `Nr` and the numbers in the programs of `PollFD` and
`Timers` are the bounds on behaviours; everything else runs forever. Deadlock is
checked except for `sema` and `chan`, where all goroutines may sleep with
nobody left to wake them, and for `context`, `pollfd` and `timers`, whose bounded
programs end. `Once` and `Cond` share a run (`MCOnceCond`) but no state: a behaviour
is about one of them.

**Fairness.** Weak fairness of every step of a goroutine that is inside a call or
holds a lock: the scheduler runs runnable goroutines, lock holders unlock, and
runtime locks are held briefly. In `Context` time passes, up to its bound, and an
expired timer fires. Starting a call and an event of the kernel are never fair, nor
is the passing of time in the other modules; in `PollFD` not even timers are, so `CloseEndsCalls` does not rest on them. Strong fairness is not
assumed, since neither the semaphore nor the mutex in normal mode hands over in
order; hence the liveness of the mutex is stated for the group (`SomeoneLocks`).
For `SemaRoot`, `Chan`, `SyncMap` and `PoolChain` safety only is checked:
`NoLostWakeup` and `SleepsForAReason` are the safety content of wakeups, and
`sync.Map` and the pool do not sleep.

**Where code and comments disagree.** The run `timers_wide` checks what a comment says,
and TLC refutes it (`PROJECT.json`, findings): `adjusttimers` "looks through the timers in
the current P's heap for any timers that have been modified to run earlier"
(`time.go:610`) and looks again at the place from which it has taken a timer, but not at
the places above. `dodeltimer` puts the last timer into the gap and sifts it up. If the
old time of that timer is before that of its new parent, and the parent is not the root,
it ends up where the walk has been, unadjusted: in the trace the sixth of ten timers is
deleted, the tenth moved to a time that is due; the check takes off the sixth, the tenth
rises to the second place, and the check returns the time of the first timer. The tenth
keeps its status, and `adjustTimers` its count, so the next check tries again; until then
the timer is late. `CheckAccounts` says that this is the only way in which a check
overlooks a timer.

Elsewhere comments promise more than the code keeps; the properties are stated so that
they are what it does keep:

- a non-blocking send on an unbuffered channel can fail although the channel was never both
  open and not ready (`chan.go:164-167`): `closechan` empties `recvq`, so a closed channel
  does go from ready to not ready. `RefusalJustified` makes this one exception;
- `Close` of an FD does not have exclusive access after `increfAndClose` (`fd_unix.go:106`):
  a `SetBlocking` with an earlier reference may store `isBlocking` after `Close` has read it,
  and `Close` waits for a read that blocks in the kernel. `CloseEndsCalls` says that only a
  read or write in the kernel can keep calls from ending;
- an entry whose `p` is nil may be in a dirty map (`map.go:79` says that there is none then):
  `delete` puts nil into an entry of both halves. `HalvesFit` says what holds;
- a starving mutex can go to a newcomer, because `semrelease1` publishes the permit before
  it sets it aside (`mutex.go:224`);
- a reader that comes after a blocked writer can use a permit meant for an earlier reader
  (`rwmutex.go:50`);
- an `Add` that starts while the counter of a `WaitGroup` is positive can panic if the
  counter drops to zero before it takes effect, unless its caller holds a unit.

## 4. Proofs

TLAPS checks the following theorems for every value of the constants that satisfies
the named assumption of the module. Each component has an inductive invariant `IInv`
in its proof module (checked by TLC on the instance of the run before it was
proved), one lemma per action that shows `IInv'`, and a theorem
`Spec => []IInv` from which the properties follow.

| Theorem | States | Assumptions |
|---|---|---|
| `SemaRootProofs!RootSafety` | `Spec => []RootInvariant` | `RootAssumption`: finitely many goroutines |
| `SemaRootProofs!WakeupsKept` | `Spec => []NoLostWakeup` | the same |
| `SemaRootProofs!ContractRefinement` | `Spec => ImplementsContract` | the same |
| `MutexProofs!MutexSafety` | `Spec => []MutexSafe` | `NoGAssumption`, `SpinAssumption`: any set of goroutines |
| `MutexProofs!SingleWakeup` | `Spec => []TokenInv` | the same |
| `MutexProofs!CountIsExact` | `Spec => []WaiterCount` | the same |
| `MutexProofs!LockerRefinement` | `Spec => ImplementsLocker` | the same |
| `MutexProofs!SemaphoreRefinement` | `Spec => ImplementsSemaphore` | the same |
| `RWMutexProofs!WriterExclusion` | `Spec => []Exclusion` | `RWAssumption`: fewer goroutines than `rwmutexMaxReaders` |
| `RWMutexProofs!AccountsBalance` | `Spec => []Accounts` | the same |
| `WaitGroupProofs!WaitGroupSafety` | `Spec => []RoundsKeptApart` | `WGAssumption`: finitely many goroutines |
| `OnceProofs!OnceSafety` | `Spec => []RunsOnceBeforeReturn` | `OnceAssumption` |
| `SyncMapProofs!MapSafety` | `Spec => []MapInvariant` | `SyncMapAssumption`: finitely many goroutines and keys |
| `SyncMapProofs!Linearizable` | `Spec => ImplementsAtomicMap` | the same |
| `ChanProofs!HchanAlways` | `Spec => []HchanInvariant` | `ChanAssumption`: finitely many goroutines and channels, addresses are numbers |
| `ChanProofs!WaitersAlwaysFound` | `Spec => []WaitersFound` | the same |
| `ChanProofs!SelectAlwaysSafe` | `Spec => []SelectSafe` | the same |
| `ChanProofs!RefusalsJustified` | `Spec => []RefusalJustified`, which has an exception for closed channels | the same |
| `ChanProofs!FifoImplemented` | `Spec => ImplementsFifo` | the same |

The bounds on behaviours (`MaxVal`, `MaxCounter`) are arbitrary numbers in the proofs, and
`Setups` of `Chan` is any set of programs, with buffers of any size and selects of any
number of cases, alike or not (`Nr` is any finite set). `RefusalJustified`, and so
`RefusalsJustified`, excepts a send on an unbuffered channel that has been closed by then
(section 3).

**SemaRoot.** `semrelease1` skips the search for a waiter if it reads `nwait = 0`
without the lock. `NoLostWakeup` therefore needs `CountInv`: `nwait` is exactly the
number of goroutines from their announcement until they are off their list. To
keep it exact every sudog is on one list, once, or in one hand (`OwnedInv`), and
lists change only under the lock (`ControlInv`). For the refinement a goroutine counts
as parked from its second failed `cansemacquire`; each step on another address, and
each step that only moves the lock, is a stutter of `SemaQueue`.

**Mutex.** `MutualExclusion` alone is not inductive: a goroutine that comes back from
the semaphore of a starving mutex takes it without looking, so exclusion needs that
there is only one such goroutine and that the mutex is unlocked (`TokenInv`), which
in turn needs to know who may hold a ticket: `CallInv` ties the stage of a semaphore
call to the program counter, `QueueInv` says that the queue and the hands of releasers
hold parked goroutines, each once. `OwnerInv` says that the lock bit is set exactly
while somebody owns the mutex, and `LocalInv` bounds what a stale copy `old[g]` may
claim. `WaiterCount` adds that the set of announced waiters is finite, since nothing
bounds the goroutines: it begins empty and changes by one at a time. For
`OwnedLock` the owner is read off the program counters; that the lock was free when it
is taken comes from `OwnerInv` (fast path, CAS) and `TokenInv` (handoff). For `Semaphore`
the permits are `val` and the tickets under way.

**RWMutex.** The numbers of readers at each label are the ground truth (`Counting`
says how a step changes them). `ReaderBooks` says what `readerCount` and `readerSem`
are in terms of them at each stage of the writer, `WriterBooks` the same of
`readerWait` and `writerSem`. `readerWait` may be negative between the writer's
announcement and its addition, which is why its value there involves the
writer's local copy `r`. That fewer goroutines than `rwmutexMaxReaders` exist is what
keeps the sign of `readerCount` meaningful.

**WaitGroup.** `CallerInv` is the rule of the documentation as an account: the
counter covers every `Done` and every `Add` that may overlap with a `Wait`. `RoundInv`
says that one goroutine at most releases waiters and that the counter stays 0 until
the last of them has returned, `PermitInv` matches permits and sleepers at each
stage of the release.

**Once.** `LockInv` says who has `o.m`, `RunInv` what `done` tells of the call of `f`; the
double check under the lock is what makes the second inductive.

**SyncMap.** A call acts on an entry that it found some time ago. `HalvesAt` relates
the two halves at one key, also while `dirtyLocked` copies; from it an entry that is
not expunged stays in `read` once it is there (`Reached`), so writes without the
lock are not lost. `Witnessed` says that both what the map holds and what is in the
entry in a call's hands are among the values the call has witnessed: an entry
changes only while it is the one that lookups find. The proof shows per key what
each kind of change does (promotion, write, unexpunge, copy, new entry), then what
that is for bystanders and for `AtomicMap`, then goes through the actions. The numbers
of entries are an abstraction of allocation: `SyncMapAssumption` asks for at least as
many as there are goroutines, so that a new one can always be made.

**Chan.** The invariants at the head of `chan.go` are not inductive. That a `dequeue` may
ready whom it finds needs `Placed`: a goroutine in a queue sleeps, has a sudog for each of
its cases and is in no waker's list, or is a select that has been won and has yet to take its
sudogs back. `OnceEach` keeps queues free of repeated sudogs and lists free of repeated
goroutines, also through `closechan`, which empties both queues of a channel, in which a
select may be several times, into one list. `Reason` says that
nobody waits who could go on; a select that is alone on both queues of a channel is the
exception that makes it delicate. `Begun` and `Decided` tie what is known of a call, its
case and its slot to its control, `Ring` places the zeroed slots of the buffer, `Locked`
says that the locks of a select reach up to some address, and `Refused` follows a
non-blocking call through its unlocked reads. The actions that end a call, and the
critical sections, come down to a few ways of going on (hand over to a receiver, put into
the buffer, take from it, take from a blocked sender, queue up); each has its own lemma
about the invariant, and `PassOne` and the calls on one channel both use them.

For `FifoChannel` the line of a channel is its buffer followed by the values of the senders
that can still be dequeued, one for each goroutine: the offer of a select with several
sends to one channel is that of its first sudog there, and goes when the select is won. `Nth` and `At` list the positions that count; the lemmas about them say
what a line is after an append, after its head is gone, and after positions in its middle
are dropped. With these, what an operation does to the ring and to a queue becomes what it
does to the line, and every step of `Chan` is, for each channel, one of `Send`, `Meet`,
`Receive`, `ReceiveZero`, `Withdraw`, `Close` and `Forget`, or a stutter. The hardest
case is a receiver that takes the head of a full ring and puts a blocked sender's value into the
slot just emptied: the line loses its first value and is otherwise the same.
A `select` won on one channel takes back its offers on all others in the same step,
which is why `Withdraw` may remove any set of offers beyond the capacity.

**Only model-checked.** Liveness and everything under fairness, which the prover cannot
treat, nor `ENABLED`: `SomeoneLocks`, `WriterGetsIn`, `WaitersReturn`, `DoReturns`,
`NotifiedResumes`, `CancellationServed`, `CloseEndsCalls`, `CallsReturn`. What a recursive
definition computes for every input: `TimerHeap` has `RECURSIVE` operators, so all of
`Timers` (`TimersConsistent`, `CheckAccounts`, `ImplementsService`) stays with TLC, and
`Above` and `CancelCtx` of `Context` (`TreeInvariant`, `NothingLeaks`, `FirstCauseKept`) need
induction over the tree. Not proved so far, though nothing rules it out:
`NotifyListInvariant` of `Cond`, whose tickets are compared modulo a width;
`ChainInvariant` and `ImplementsDeque` of `PoolChain`, whose indices wrap;
`DescriptorInvariant`, `WakeupsKept`, `DeadlineServed` and `TimeoutJustified` of `PollFD`.

## 5. Plan

What is left to prove, by what it would say of the system: `Cond`, where the difference of
two tickets modulo the width has to be bounded by the number of waiters; `PollFD`, from
the values `gp` may have at each control point (`UnblockedOnError`, `ParkedOnce`);
`PoolChain`, with the slots between tail and head as the ground truth and the lemmas
about rings of `ChanProofs` as a start.

## 6. Not modelled

- `moveTimers` and `procresize`, which run while the world is stopped;
  `timeSleepUntil`, which its comment calls imprecise; waking the poller for a timer.
- The scheduler: run queues, stealing, `sysmon`, and the futex locks and notes. The
  models use its promise that runnable goroutines run, and `injectglist`.
- `pool.go`: `Put`, `Get`, pinning to a P and the victim cache depend on the scheduler
  and the garbage collector; `PoolChain` is the part with a protocol of its own.
- In `poll.FD`: descriptors the poller does not take, zero-length reads, the loop of a
  partial write; `netpollWaiters`, a hint; `netpollBreak`.
- Nil channels, a `Range` that its callback stops early, `WithValue`: they have no state
  or only cut short what is modelled.
- The garbage collector and allocator, whose invariants are about the heap and
  need a model of memory; built-in maps, slices and strings, which are sequential.
- The compiler, linker and go command under `src/cmd` and the rest of the standard
  library, which are sequential or pure I/O, or use the primitives modelled here.
