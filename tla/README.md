# Verification of izem

izem is a C library of synchronisation primitives: locks, condition-like
objects and concurrent queues, with the memory reclamation the queues need.
This directory holds TLA+ models of it, the TLC runs that check them on small
instances and the TLAPS proofs about them. Paths below are relative to the
root of the repository.

## The system

| component | code | state | operations | hard behaviour |
|---|---|---|---|---|
| ticket lock | `src/lock/zm_ticket.c` | two unsigned counters | acquire, tryacq, release, nowaiters | wraparound; the two loads and the compare-and-swap of tryacq |
| MCS lock | `src/lock/zm_mcs.c` | tail pointer, a node per thread | acquire, tryacq, release, nowaiters, context-less and context-full | the gap between exchange and link; reuse and lifetime of nodes |
| MMCS lock | `src/lock/zm_mmcs.c` | an MCS lock plus the saved context of its owner | acquire, release, nowaiters | a context chosen before the lock is held |
| TLP, MCSP priority locks | `src/lock/zm_tlp.c`, `zm_mcsp.c` | a high-priority and a low-priority lock, a filter (ticket lock), two flags | acquire, acquire_low, tryacq, tryacq_low, release | the filter is kept by a relay of owners; plain flags protected by three locks |
| HMCS lock | `src/lock/zm_hmcs.c` | a tree of MCS queues over the machine's topology | acquire, tryacq, release, nowaiters | passing within a cohort up to a threshold, the fast path to the root |
| HMPR priority lock | `src/lock/zm_hmpr.c` | an HMCS lock, a wait-skip list, a queue node of its own, two flags | acquire, release, raise_prio | a low-priority waiter that becomes high-priority |
| wait-skip list | `src/cond/zm_wskip.c` | a queue of nodes with a status each | enq, wait, wake, skip | wake walks nodes that are skipped or reused meanwhile |
| ccond, scount | `src/cond/zm_ccond.c`, `zm_scount.c` | a flag; a counter | wait, signal, broadcast | waits that give up a lock; signals that come before the wait |
| global-lock queue | `src/queue/zm_glqueue.c` | linked list, mutex | enqueue, dequeue | |
| swap queue | `src/queue/zm_swpqueue.c` | linked list with a dummy | enqueue, dequeue, two emptiness tests | the gap between exchange and link; frees beside stores |
| Michael-Scott queue | `src/queue/zm_msqueue.c` | linked list with a dummy, hazard pointers | enqueue, dequeue | helping; nodes freed under readers; addresses that come back |
| fetch-and-add queue | `src/queue/zm_faqueue.c` | a list of segments, two counters | enqueue, dequeue | growth of the list; retirement of segments |
| bucket queue | `src/queue/zm_mpbqueue.c` | swap queues, a state per bucket, back-off | enqueue, dequeue, bulk, range | stale bucket states |
| hazard pointers | `src/include/mem/zm_hzdptr.h` | a list of per-thread slots and retired lists | get, retire, scan, helpscan | a scan beside publication |
| doubly linked list | `src/include/list/zm_sdlist.h` | list and length | push, pop, remove | two lists that lose nodes while one is gone over |
| dispatch, atomics | `*.h.in` | none | macros | |

Interaction is through shared memory only: no messages, no persistence, no
timeouts. TLP and MCSP are built from ticket and MCS locks, HMPR from HMCS
and the wait-skip list, the bucket queue from swap queues, the
Michael-Scott and fetch-and-add queues from the hazard pointers and these from
the list. What makes the code hard is the interleaving of threads between two
atomic instructions, memory that is freed or used again beside other threads,
counters at their limit, and progress; `PROJECT.json` lists each such hazard
at its line, with the properties that cover it.

What makes each part correct: a lock excludes, serves its callers in the order
it promises and starves nobody, and its emptiness or waiter tests stay true as
long as their caller relies on them; a queue is a FIFO queue, says that it is
empty only when it has a reason to, and neither loses nor touches freed memory;
a condition wakes everyone it should.

## How the code is modelled

- One step is one atomic instruction, or one access to a plain shared variable
  that another thread may access too. A spin loop is the action that leaves it.
  Tests of locals belong to the step before them. Memory is sequentially
  consistent: the acquire and release orders of the code are taken to be
  enough (for the plain stores of hazard pointers on TSO they are not, see the
  hazard at `zm_msqueue.c:27`).
- An actor is a thread; its place in the code is `pc`, with one label per
  atomic step, and the locals that live across steps are variables.
- A queue node or any address is a model value. A thread brings one queue node
  to a lock, its own, so in `MCS` the node has the name of its thread: the
  arrays that index nodes by hardware thread, the choice of the index
  (`check_affinity`, `get_hwthread_id`) and nested locks are abstracted.
- History variables (`queue`, `line`, `chain`, `since`, `seen`, `sawEmpty`,
  `run`, `reclaimed`, `answer`) record what the code does not keep; no guard of
  the code's actions reads them, except the named bound `NoFullLap` of `Ticket`.

| module | models | its actions and the code |
|---|---|---|
| `FifoLock` | the promise of a FIFO lock | `Enter` fixes the place in line, `Grant` and `Leave` at its head |
| `Ticket` | `zm_ticket.c` | `AcquireFetchAdd`, `AcquireSpin`; `TryLoadNext`, `TryLoadServing`, `TryCAS`; `Release`; `Nowaiters`. The counters are modulo `M` |
| `CCond` | `zm_ccond.c` and `zm_scount.c`, on `Ticket` | `WaitStore`, `WaitRelease`, `WaitSpin`, `WaitAcquire`, `WaitReturn`; `Signal`; `SCountInit`, `SCountWait`, `SCountSignal` |
| `PrioChain` | their client `test/regres/cond/prio_chain.c` | `Setup` between two barriers; `Await`, `TakeTurn`, `SignalOther`, `Finish` are a turn; `Acquire`, `Try`, `Leave`, `Ask` any other use of the lock beside it |
| `MCS` | `zm_mcs.c` | `AcqInit`, `AcqSwap`, `AcqLocked`, `AcqLink`, `AcqSpin`; `TryInit`, `TryCAS`; `RelLoad`, `RelCAS`, `RelWait`, `RelUnlock`; `Nowaiters`. The nodes start with arbitrary contents |
| `MMCS` | `zm_mmcs.c`, on `MCS` | `AcqSave` is the store of `cur_ctx`, `RelTake` the first lines of the release. `memo` says whether the lock is of this kind or a plain MCS lock |
| `Priority` | the threads of the priority locks, their next steps, and the flags `go_straight` and `low_p_acq` | what `PrioLock` and `HMPR` both extend |
| `PrioLock` | the blocking calls of `zm_tlp.c` and `zm_mcsp.c` | `High*` is `acquire`, `Low*` is `acquire_low`, `Rel*` is `release`. `high_p` and `low_p` are `FifoLock`s, the filter has the counters of `Ticket`, because it is released by another thread than drew the ticket |
| `TLP`, `MCSP` | `tryacq` and `tryacq_low` of each | `TryHigh`, `TryLow`, `TryTest`, `TryFilter`, `TrySet`, `TryReturn`, beside `PrioLock`'s actions; `success` is the caller's variable |
| `HMCS` | `zm_hmcs.c` | `LookAtLeaf`, `LookAtRoot`, the fast path; `Acq*` one level of `acquire_helper` or `acquire_root`; `Rel*` one level of `release_helper`; `M*` is `normal_mcs_release_with_value`; `Unwind` its return to the level below; `Nowaiters*` |
| `FifoQueue` | the promise of a queue | elements in, elements or nothing out |
| `GLQueue` | `zm_glqueue.c` | `EnqAlloc`, `Lock`, `EnqLink`, `EnqTail`; `DeqBegin`, `DeqTest`, `DeqTake`; `Unlock`. Addresses come back from `free` |
| `SWPQueue` | `zm_swpqueue.c` | `EnqAlloc`, `EnqSwap`, `EnqLink`; `DeqBegin`, `DeqTest`, `DeqAdvance`, `DeqTake`; `IsEmptyWeak`; `StrongLoad`, `StrongTest`. Addresses come back from `free` |
| `SDList` | `zm_sdlist.h`, in the hands of `zm_hzdptr_retire` and `zm_hzdptr_scan` | `PushBack`, `PopFront` and `RmNode` are the calls; `Retire`, `ScanInit`, `Pull`, `PullEnd`, the loops `LoopTest`, `SearchNext`, `Found`, `NotFound`, and `Free`. The lists are private to a thread, so that a call is a step |
| `HzdPtr` | `zm_hzdptr.h` | `Allocate`, `Publish`, `Retire`, `ScanRead`, `ScanRemove`. `HPInitWith` starts with threads that have hazard pointers from the use of another queue |
| `MSQueue` | `zm_msqueue.c`, on `HzdPtr` | `Enq*`, `Deq*`, one per load, store and compare-and-swap |
| `FAQueue` | `zm_faqueue.c`, on `HzdPtr` | `EnqFetchAdd`, `EnqHead`; `EnqGet`, `EnqNext`, `EnqPublish`, `EnqAlloc`, `EnqCAS`, `EnqLost`, `EnqReload` are `zm_faseg_advance` in the loop of `zm_facell_find`; `EnqStore`; `DeqBegin`, `DeqNext`, `DeqAdvance`, `DeqRetire`, `DeqRead` |
| `MPBQueue` | `zm_mpbqueue.c` | `EnqSwap`, `EnqLink`; `DeqBegin`, `Look` and `Probe` (`get_set_state`), `Scan`; `Bulk*` is `dequeue_bulk`; `RangeBegin` and `Range` are `dequeue_range` |
| `WSkip` | the operations of `zm_wskip.c` | `Enq*`, `WaitSpin`, `Wake*`, `Skip`; extended by the module that calls them |
| `HMPR` | `zm_hmpr.c`, on `WSkip` | `High*` and `Low*` are `acquire` with priority 0 and above, `Raise*`, `Release*` |

`FifoLock` is implemented by `Ticket` and `MCS` (their `FifoOrder`) and used by
`PrioLock`; so what is checked of `PrioLock` holds with either lock. It does
not cover HMCS as `high_p` or `low_p` (a compile-time choice of `zm_tlp.c`,
whose macro for MCS at l.78 does not compile): HMCS is not FIFO. `FifoQueue` is
implemented by `GLQueue`, `SWPQueue`, `MSQueue` and `FAQueue`; which event fixes
the place of an element differs (the link under the mutex, the exchange, the
compare-and-swap of the link, the fetch-and-add).

`MPBQueue` sees of a bucket what `SWPQueue` shows to its consumer, and `HMPR`
of the HMCS lock what `HMCS` shows: one owner, no starvation, and a
`nowaiters` that may overlook a waiter. In `HMPR` a thread acquires, raises
another thread and releases, as in `test/regres/lock/hmpr_thruput.c`. The
lines 78-82 of `zm_wskip.c`, for a node whose status is `CHECK` when its thread
waits again, are left out; `OneWakes` contains that no such call happens.
`CCond` has one waiter per condition, as the tests do: a second one would set
again the flag that the signal cleared for the first.

Two representations need a word. In `HMCS`, the fields of a queue node between
two uses are dead, since `reuse_qnode` stores to both first; `Forget` sets them
to a value that would mislead whoever read them, which keeps the state space
small and leaves any wrong read visible. In `HzdPtr`, the `active` flag of a
list node is set before the node is published and then cleared by nobody but
`zm_hzdptr_helpscan`, which clears only flags it found clear; so
`zm_hzdptr_allocate` never takes over a node, `zm_hzdptr_helpscan` never finds
one, and both are left out. Its lists of retired pointers are sets: no pointer is
in one twice, and their order matters to nobody.

`TicketProofs`, `MCSProofs`, `PriorityProofs`, `SWPQueueProofs`,
`MSQueueProofs`, `FAQueueProofs`, `MPBQueueProofs` and `HMCSProofs` hold the
theorems; `TicketProofs` covers `PrioChain` too, `MCSProofs` covers `MMCS`,
`PriorityProofs` is about `HMPR` and ends with the theorems of `PrioLock` (to
extend both, `HMPR` calls its specification `HMPRSpec`, and so on), `SWPQueueProofs` ends with those of `GLQueue` (`GL`) and
`MSQueueProofs` with those of `SDList` (`SD`).
Modules whose names begin with `MC` give the constants their values for TLC.

## What the runs check

`tlc -config X.cfg M` with the pairs of `PROJECT.json`. No run
switches off the deadlock check.

| run | bounds | checks |
|---|---|---|
| `ticket` | 3 threads in the rounds of `PrioChain`, counters modulo 3 | exclusion, FIFO order (refinement of `FifoLock`), no starvation, an honest `tryacq`; turns in order of the counts, and every thread gets its turn: no signal is lost |
| `mcs` | 3 threads, any initial nodes, a plain or a memorizing lock | exclusion, FIFO order (refinement), no starvation, no store into the node of a thread that left, a `cur_ctx` that is the owner's |
| `priolock` | 3 threads of either priority, filter modulo 3 | exclusion across priorities, no race on the plain flags, at most one ticket ahead of a thread at the filter, progress of both sides |
| `tlp_tryacq`, `mcsp_tryacq` | the same | expected violations, below |
| `hmcs` | 3 threads, 3 levels, threshold 2 | exclusion, one thread at a time per queue node of the tree, bounded passing, a truthful `nowaiters`, no starvation |
| `swpqueue` | 2 producers, 3 addresses, 2 payloads | FIFO order (refinement of `FifoQueue`), memory neither lost nor used after its free, justified misses, an honest strong emptiness test, delivery of every exchanged node |
| `msqueue` | 2 threads, one of which may stop anywhere, 4 nodes, `ScanFactor` 1 | the shape of the list, one retirement per node and no use after reclamation, FIFO order (refinement), empty only when empty, lock-freedom |
| `faqueue` | 2 producers, 3 segments of 2 cells, 5 enqueues, 5 addresses, `ScanFactor` 1 | producers store ahead of the consumer, into empty cells, and only what is behind it is retired, justified misses, FIFO order (refinement), delivery |
| `mpbqueue` | 2 sets of 2 buckets, 2 producers, `MaxBackoff` 4, calls for 1 and 3 elements | fewer than `MAX_BACKOFF` dequeues in a row find nothing while some element waits; at most one bucket is marked nonempty; every element is delivered |
| `hmpr` | a thread of high priority, 3 of low | one thread at a time through the line, a line that does not end in a node that left it, nobody forgotten in it |
| `hmpr_block` | as `hmpr` | expected violation, below |

Why the bounds are enough for what they are to show:

- Three threads give a lock an owner, a linked waiter and a waiter between its
  exchange and its link, or a relay of two against a third. Ticket counters of
  three values, the least the assumption allows, wrap around all the time and
  meet a full line. The theorems below cover every other value. In the rounds of
  `PrioChain` the third thread needs two signals and gets them with others in
  between.
- The tree of `hmcs` has two threads on one leaf and one on its sibling. The
  cohort of the leaf and that of the inner node both meet the threshold with
  others waiting above, and each fast path meets a slow one at the root. The
  theorems cover every tree, except for starvation.
- In `swpqueue` both producers can be between exchange and link while the
  consumer frees nodes that come back at once: beside the dummy there are two
  addresses, one per producer, so that each free is followed by a reuse. A
  `malloc` without an address left waits in the model.
- In `msqueue` no node comes back (the code frees none), so `Nodes` bounds the
  enqueues; with `ScanFactor` 1 in the place of 2, three enqueues are enough for
  several scans. Which unused node `malloc` hands out makes no difference, so the
  model picks one. A lower factor only scans earlier, which is the harder case.
- In `faqueue` the five enqueues (`MaxTail`) reach the third segment, so that
  both producers race for the second and for the third one, a loser retires
  its segment at either place, and a producer that read `seg_head` stays behind
  while the consumer retires what it walks over. One producer and the consumer
  have their hazard pointers from the start, the other allocates them in the
  race.
- The sets of `mpbqueue` have two buckets in the place of eight and the back-off
  ends at 4 in the place of 1024: both doublings, the cap, a probe that fails
  and one that is overtaken by an enqueue occur. One element per producer is
  enough for two that wait in different sets, in one set or in one bucket. The
  property `BackoffBounded` is tight at these bounds.
- In `hmpr` three threads of low priority make a line in which a wake passes
  one or two nodes, turns a link around, follows it back and meets a thread
  that is between its exchange and its link.

## Fairness

A thread inside an operation keeps running (weak fairness of its steps): the
threads are those of an operating system that schedules all of them. An owner
releases (the same, or strong fairness where it may call `nowaiters` any number
of times before, as in `HMCS`). Beyond that:

- `PrioChain` assumes that a thread that may use the lock for something else as
  often as it likes acquires it again and again, and waits for its turn in the
  end (strong fairness of `Acquire` and of `Await`), and that a barrier opens.
- `SWPQueue` assumes a consumer that keeps polling, which is what the tests do:
  weak fairness inside a dequeue, strong fairness of its beginning, since the
  consumer may call the emptiness tests in between. `FAQueue` has no such tests:
  weak fairness of the polling consumer as a whole.
- `MSQueue` assumes of a weak compare-and-swap that it does not fail for ever
  without a reason, and assumes nothing of the threads in `Stalled`.
- `MPBQueue` assumes a consumer that calls `zm_mpbqueue_dequeue` again and
  again, whatever it calls in between (strong fairness of its beginning), and
  producers that finish their enqueues; the producers stop (`MaxSent`), since a
  bucket that is refilled for ever starves those behind it.
- `HMPR` has safety properties only: `NobodyForgotten` says that while a thread
  waits in the list, somebody is left to pass the turn to it.
- `LowProgress` of `PrioLock` holds only if the high-priority queue empties again
  and again, which is part of its statement: the protocol starves low-priority
  threads by design.

## What is proved

`tlapm` checks the proofs for every number of threads, nodes, addresses and
elements, under the assumptions that the modules name: for the ticket lock at
least two counter values and no more threads than values (`TicketAssumption`:
both hold of 2^32), for the filter of the priority locks more than two values
(`PrioLockAssumption`), for the rounds of `PrioChain` that threads are numbered
from 0 (`ChainAssumption`), for HMCS that threads which share an hnode share it at
the same level with the same hnodes above, and all of them the root
(`HMCSAssumption`), for the bucket queue that `MAX_BACKOFF` is a power of two, so
that a pause which doubles never leaps over it (`MPBQueueAssumption`), and for the
rest that NULL is no node and there is one node to start with. `NoFullLap` is a guard of the model, not an assumption of the proof:
while a thread is inside `zm_ticket_tryacq`, fewer than 2^32 tickets are drawn.

Each invariance proof has one lemma per action. None of the properties is
inductive; the inductive invariant stands at the end of the component's module,
under the comments that say what its parts mean.

- `TicketProofs`: whether a thread may enter depends on the tickets of all
  others. `IInv` adds that the history variable `queue` lists the threads with
  tickets, that these are consecutive modulo `M` from `now_serving` to
  `next_ticket`, and what a `tryacq` in flight can conclude from its two loads
  (`TryOK`: if no ticket was drawn since, the loads are still right, and by
  `NoFullLap` the counter tells). From it follow `Exclusion`, `TypeCorrect`,
  `WaitersStayInLine`, `TryFailsHonestly` and `ImplementsFifoLock`, the last a step
  simulation. The arithmetic modulo `M` is in lemmas of its own. For `PrioChain`,
  `ChainUsesTicket` shows that the rounds use the lock by its protocol, so that
  all this holds of it, and `ChainInv` says that the count of a thread is the number
  of turns it has still to wait for, with the one that was taken and not
  signalled to it yet: `TurnsComeInOrder`.
- `MCSProofs`: `IInv` says that the queue of exchanges is what the pointers
  spell, link by link, except between a waiter's exchange and its link, that a
  linked waiter is `LOCKED` until it is the first, and where the first and the
  others can be (`QueueOK`, `LinksOK`). From it follow `Exclusion`,
  `NodesStayAlive`, `WaitersStayInQueue` and `ImplementsFifoLock`. `MemoIsMCS` shows
  that the memorizing lock uses MCS by its protocol, hence inherits these, and
  `ContextIsTheOwners` that the one plain word is the owner's.
- `PrioLock`, in `PriorityProofs`: the filter is handed from one high-priority
  owner to the next without a release, so no thread's label says who holds it.
  `IInv` counts instead: each *side* has at most one ticket of the filter, which it
  holds or waits with, next or behind the other side's. Then `Exclusion`,
  `NoRaceOnFlags`, `OneAhead` and `RelayExcludesLow`.
- `HMPR`, in `PriorityProofs`, whose `LinesOK` is at the beginning of that module: a
  wake turns links around and comes back along them while others insert, so the
  pointers alone do not say what the line is. The invariant speaks of the order in
  which nodes were ever inserted: `f[k]` is the one at place `k`, those before `a`
  left and those before `b` were inserted. Links lead from each node of the line to
  the next, but for those under way (`LineOK`); a single thread leads, that is, is
  the first, is about to be, or moves the line on from there (`TokenOK`); a thread
  inside wake owns the stretch from `lo` to `hi` of places behind the line, over
  which its links lead back, and none of these nodes is inserted again before it was
  there (`TrailOK`, `PointOK`), because a node that was passed belongs to a thread
  of priority 0 and `p` never grows; and every node with `CHECK` is in the
  stretch of some wake (`CoverOK`). `f`, `a`, `b`, `lo` and `hi` are under an
  existential quantifier in `LinesOK`, and every step of the list names the next ones.
  Then `OneWakesHolds` and `NobodyForgottenHolds`. Their hypothesis
  `znodeStatus = "WAIT"` is what a static lock begins with, as in the run. With
  another value `znode` does get into the line, and the proof says nothing.
- `SWPQueueProofs`: the line of exchanges is what the pointers spell, but for the
  links that producers still owe, and what is allocated is the line, the private
  nodes and the one about to be freed. Then `Safety`, `StrongTestHonest`,
  `MissesJustified` and `ImplementsFifoQueue`. The proof for `GLQueue` has the same
  shape with a mutex in the place of the exchange: `GLSafety`, `GLNothingMissed`,
  `GLImplementsFifoQueue`. No run checks these three, because the proof already
  covers what a run would.
- `MSQueueProofs`: nodes are never freed and `Linked` are those that ever were in
  the list, so `IInv` can say that of them only the last has no successor, and that
  what an operation took for the tail or the head *was* it and has a successor if
  it no longer is. A node that left the line is on its way to exactly one
  retired list. For the hazard pointers, `SlotsOK` says that every scan which could
  let go of a node in a slot its thread relies on has found it there or has still
  to read that slot. Then `ListKept`, `Reclamation`, `EmptyIsEmpty` and
  `ImplementsFifoQueue`.
- `HMCSProofs`: `Holds(t, l)` says which hnodes a thread holds, on its way up, as
  the owner and on its way down. A node of the tree serves one thread at one
  level (lemma `Unique`), because whoever is in line with an hnode's node holds
  that hnode. Links lead to spinning waiters, no two to the same one, those about to
  link have different predecessors, and the tail of a queue is in use and has no
  successor (`LinksOK`, `TailOK`). From this, that two threads never hold the
  same hnode (`HoldersOK`) is preserved by passing, by releasing to the parent and
  by the fast path, and at the root it is exclusion: `Exclusion`, `NodesExclusive`,
  `WaitersRemain`.
  For `BoundedPassing`, the statuses of the nodes that the owner holds are read as
  the digits of a number to the base `Threshold`: at level `l`, `past[l]` turns of
  the hnode are over, and `past[l] + 1` is at most `Threshold * past[l - 1]` plus the
  count in the node (`RunOK`). To pass at one level is to count that digit up and to
  start those below from 1, as in an odometer, and a release that finds the
  threshold goes to the level above; so `run` never leaves the number of readings
  (`CountedBound`, `PassingIsBounded`). The bound is the recursive function
  `Passes`, since the prover has no exponentiation; that it is what its equation
  says, and positive, is shown by an induction over the set of numbers up to which it
  is (lemma `Induction`, from the well-foundedness of < on Nat).
- `FAQueueProofs`: the segments in the list are the sequence `chain` with their
  numbers; a producer's segment is in it at or before the one its cell is in
  (`WalkOK`), a segment of its own is in nobody else's hands (`OwnOK`), and the
  consumer is at the segment of `head` or one before it. `CellsOK` says of every cell
  between the counters that it holds the element drawn for it or that its enqueue
  is under way, and of every other one ahead that it is empty, also in segments that
  do not exist yet. Segments retired are behind the consumer (`RetiredOK`). Then
  `ProducersStayAhead`, `MissesJustified` and `ImplementsFifoQueue`.
- `MPBQueueProofs`: bytes are set one at a time, and a call that sets one returns
  there, so at most one is set and the next call begins with it (`BytesOK`):
  `BulkStoresOne`. For the back-off, an element that waits does not fix what the
  consumer looks at next, and the set that is found first changes from call to call.
  `BackoffBounded` is about calls in a row that find nothing while something waits:
  any success starts the count again, so it is no bound for one given element, of
  which `Delivered` says only that it comes out in the end.
  `MissesOK` says that *some* set with a waiting element has counted all the misses
  since the last success, that of the call under way included once the loop has
  passed it; since a probe at the bound would have found the element, its counter is
  below its bound, which is at most `MAX_BACKOFF`: `MissesAreBounded`. This takes that
  the bound is a divisor of a power of two (`Pauses`): for `MAX_BACKOFF` = 3 the code
  would double 2 to 4.
- `SDList`, in `MSQueueProofs`: the sequence of nodes is what the pointers spell
  forwards and backwards, through the removal of any node (lemmas `SDPushSound`,
  `SDRmNodeSound`, `SDPopSound`); then `SDListIsLine` and `SDLoopsStayInLists`. `SDScansAreExact`: a scan
  keeps exactly what it found, although it removes what it finds from `plist` and
  stops at the first occurrence, because an object is retired once (`LoopAt`: what
  was found is still in `plist`, or kept). This is why `HzdPtr` can take the second
  stage of a scan as one step on sets. No run checks these three either; the module
  has no constant assumptions, its `NULL` is chosen outside of `Nodes` and `Data`.

Only model-checked: `LockFree` of `MSQueue` and every other liveness property,
because the prover handles neither fairness nor ENABLED, and the three violations.
Every safety property that a passing run checks is stated by a theorem.

## Findings

- `zm_tlp_tryacq` and `zm_tlp_tryacq_low` never store to `*success`, and keep
  `high_p` or `low_p` when the filter is not to be had (`tlp_tryacq`).
- `zm_mcsp_tryacq` and `zm_mcsp_tryacq_low` test the pointer `success` where
  they mean `*success`, and report the outcome of the filter alone: two threads
  are inside at once (`mcsp_tryacq`).
- The `znode` of HMPR is never initialised, and with the 0 of a static lock it is
  never put in line: the high-priority owner does not hold back anybody
  (`hmpr_block`).

`PROJECT.json` has the lines and the text they disagree with. Seen while
modelling, and stated by no run:

- `zm_faqueue_dequeue` retires the segment it leaves without having called
  `zm_hzdptr_get`, so that a consumer which never used hazard pointers before
  dereferences NULL at the first end of a segment (`zm_faqueue.c:94`); so does
  `dequeue_count_mpsc_fa`, registered in `test/regres/queue/Makefile.am:15`.
- Enqueuers of the same queue walk segments that a scan has let go of: the
  first one is read without a hazard pointer and the others are published after
  the fact. "free no longer used segment" (`zm_faqueue.c:94`) would be a use after
  free, if it freed.
- `zm_sdlist_rmnode`, with which a scan lets go of a retired node
  (`zm_hzdptr.h:86`), frees the list's node and not the object: what is retired
  is never freed.
- `zm_sdlist_pop_front` on an empty list counts the length down to -1; only
  `zm_sdlist_free` reaches this. `test/regres/list/array_to_list.c:48` goes on from a
  node that `zm_sdlist_remove` has freed.
- `zm_mpbqueue_dequeue_bulk` trusts bytes that only `zm_mpbqueue_dequeue` sets:
  alone it gets nothing, and beside the other at most one element. `OneByte` states
  this defect as an invariant of the code as it is; a repaired `dequeue_bulk` would
  break it. It reports one more than it stored (`zm_mpbqueue.c:159`). The
  registered test `deq_count_mpb_bulk` (`test/regres/queue/Makefile.am:17`) polls with
  `dequeue_bulk` alone: every call stores nothing and reports 1, so that the test
  looks at an array it has never written (`deq_count_mpb.c:45-49`) and either does not
  end or counts what it finds there.
- `last_bucket_set` is read before anything is stored to it
  (`zm_mpbqueue.c:109`); the model starts it with any number that is not negative.
- `zm_mmcs_acquire` with a null node takes whatever `cur_ctx` is at that time, which
  is a node of another thread; nobody calls it so. `zm_lock.h.in:80-82` maps
  the calls of this lock to functions that do not exist.
- `zm_cond_wait_c` of `zm_cond.h.in:23` is `zm_ccond_wait` with three arguments,
  and does not compile; a late waiter of `zm_ccond.c:22` sets again the flag
  that a broadcast has cleared for an earlier one.
- `test/regres/cond/wskip_test.c:45` waits for threads it skipped before it wakes
  anyone, but they leave only when a wake passes them.

## What is not modelled, and why

The dispatch macros and name parsing of `*.h.in` and `zm_queue.c` keep no state.
The atomics are the steps of the models. Topology discovery is a constant of
`HMCS`; threads that move between hardware threads and its threshold 0 are
excluded by the model's assumptions. `zm_hzdptr_helpscan` and the taking over of a
list node never do anything (above). `zm_scount_signalf` and `zm_wskip_nowaiters`
are called by nobody. Of the clients in `test/`, only those named above are
modelled. Weak memory is out of reach of these models.

A `znode` that is inserted in the line (if it were initialised to `RECYCLE`),
and a wait with a node that a wake is still passing, are not reached by any
client in the repository.

Proofs worth having next: that the retired lists of `HzdPtr` are what the two
stages of a scan in `SDList` leave, as a refinement.
