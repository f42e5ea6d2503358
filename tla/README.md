# TLA+ models of parlaylib's work-stealing deque and pool allocator

This directory holds TLA+ models of the work-stealing deque in
`src/include/parlay/internal/work_stealing_deque.h`, of its backing store
`continuous_array` (`src/unnamed/part_000`), and of the pool allocator
(`src/unnamed/part_001`). Every definition is translated from the source.
`PROJECT.json` maps each definition to the lines it models.

## 1. Inventory

### Components

| Component | Source | State | Operations |
|---|---|---|---|
| Deque (C2) | `work_stealing_deque.h` | `bot`, `top` (atomic 64-bit indices), `deq` | `push_bottom`, `pop_bottom` (owner), `pop_top` (any thread) |
| Continuous array (C1) | `part_000` | blocks with `prev`, `next`, `block_id`, slot array; owner-private `head`, `block_in_use`, `blocks_to_reuse`, `curr_block_id`; shared atomics `tail`, `to_retire` | `put_head`, `get_head` (owner), `get_tail` (thieves), `ca_alloc`, `ca_retire_last_block`, `get_retired`, `free_retired`, `get_block`, `push/pop_reuse_block`, destructor |
| Pool allocator (C3) | `part_001` | bucket `sizes`, `num_small`, `max_small`, `max_size`, atomic `large_allocated` and `large_used`, one `hazptr_stack` per large bucket, one `block_allocator` per small bucket | `allocate`, `deallocate`, `allocate_large`, `deallocate_large`, `stats`, `clear`, constructor |
| Tests | `src/test/test_deque.cpp` | the test's flags `wait`, its loop exits | owner LIFO and thief FIFO (sequential), and `TestParlayDequeConcurrent`: a fill, then a drain by 1 owner and 31 thieves, a join and assertions |

### How the parts interact

- The deque keeps every task pointer at a logical index. It calls
  `put_head(bot, v)` in `push_bottom` and `get_head(b)` in `pop_bottom`.
  It calls `get_tail(old_top)` in `pop_top` after a CAS on `top` succeeds.
- `get_tail` reads `tail` and walks the block list to the block of the index.
  It walks forward by `next` and backward by `prev`. When it reads offset 0
  of a block while `tail` is exactly the block before, it calls
  `ca_retire_last_block`. That call CASes `tail` one block forward. Then it
  pushes the old tail onto the lock-free `to_retire` stack, reusing `prev` as
  the link.
- `free_retired` is owner-only. It drains `to_retire` into the reuse pool,
  and `ca_alloc` takes blocks from that pool. The deque never calls
  `free_retired`. The spec leaves the call to an external reclamation policy.
- The pool allocator does not depend on the deque.

### Hard behaviours

- Thieves run concurrently with the owner and with each other. Every
  load, store and CAS on `bot`, `top`, `tail` and `to_retire` is an
  interleaving point. So is every read of a `prev` or `next` link during
  the walk.
- The owner and thieves race for the last item (`t == b`). The owner's
  temporary decrement of `bot` is visible to thieves.
- Thieves retire blocks concurrently. Each retirement is two separate CASes,
  one on `tail` and one on `to_retire`, with a non-atomic write of `prev` in
  between.
- The code has three retry loops: the `tail` CAS loop, the `to_retire` CAS
  loop and the `get_retired` loop.
- Weak memory orders (relaxed and acquire loads with seq_cst fences).
  `WSDequeTSO` models the store buffering of x86-TSO for the owner's
  stores to `bot`. `WSDequeRC11` models the C++ memory model's rules for
  the relaxed slot accesses and for the plain block header fields.
- In the allocator: unsigned byte counters, bucket search loops, and the
  edge cases at the threshold and at 0.

### What makes each part correct

- Deque: it must behave like an atomic deque. No value is lost, duplicated
  or made up. The owner pops LIFO and thieves pop FIFO (spec P1-P3). The
  empty flag must be truthful (P4), and the line-67 assertion
  `bot + 1 >= top` must hold (P5). Every call must return.
- Continuous array: a thief's walk must always reach the block of its index
  (P6). Retirement must only remove blocks behind the live tail (P7). The
  tail must keep up with the thieves. The owner's one-link cursor moves must
  be enough. A block must not be reused while a thief can still reach it.
- Pool allocator: every block must be large enough for its request. The byte
  counters must match the live blocks and the pools, and must never wrap.
  `clear` must return the large pools to zero.

## 2. Plan

The modules, in the order they are built. The deque protocol comes first
because it is the system's core.

1. `WSDeque` (done): the deque together with the continuous-array
   operations it calls. It has one owner and a set of thieves `Thieves`.
2. `AbstractDeque` (done): the atomic deque the implementation promises.
   `WSDeque` instantiates it with a refinement mapping and checks it as a
   PROPERTY.
3. `WSDequeReclaim` (done): extends `WSDeque` with the owner's
   `free_retired`/`get_retired`, the reuse pool and the destructors. The
   caller's reclamation rule is the constant `Policy`.
4. `PoolAllocator` (done): the constructor, `allocate`, `deallocate`,
   `stats` and the destructor's `clear` over a scaled-down set of bucket
   sizes, with the unsigned width of the counters kept (`% 2^W`).
   `block_allocator` and `hazptr_stack` are not in the repository; they
   appear only through their contract (block counts, a bag of blocks).
5. `WSDequeTSO` (done): the deque with the owner's relaxed stores of `bot`
   in an x86 store buffer, with the refinement.
6. `WSDequeRC11` (done): the deque with its slot and block-header
   accesses under the C++ memory model (views over store histories).
7. `DequeTest` (done): the concurrent unit test over `WSDeque`, with
   its termination as a liveness property.
8. Possibly a `ContinuousArray` module on its own, if a refinement to an
   "infinite array" abstraction is worth stating for `put_head`, `get_head`
   and `get_tail`.

## 3. Modules

### `WSDeque.tla`: deque plus continuous array

State, with the code it corresponds to:

- `bot`, `top`: `Deque::bot` and `Deque::top`.
- Blocks are memory cells `Blocks` (never more than block ids). Per cell:
  `data[c]` (the `array`), `bid[c]` (`block_id`), `prev[c]`, `next[c]`.
  `get_block` takes the top of `reuse` (`blocks_to_reuse`, linked by
  `prev`) or mallocs cell `mallocd`. A reused cell keeps its old `data`,
  as in the code, which does not clear it. `WSDeque` alone never
  reclaims, so there every cell is fresh and cell k holds block k.
- `curr_block_id`, `head`, `block_in_use`, `tail`, `to_retire`: as in the
  code.
- `slot[i]`: a history variable, the value pushed at logical index `i`.
  It is used only by the refinement mapping and the properties. Pops
  return what they read from `data`.
- `ofr` (the owner's `old_to_retire` in `get_retired`) and `freed` (the
  cells the destructor frees, in order) belong to `WSDequeReclaim`.
- The owner's pc and the locals `b`, `t`, `val` of `pop_bottom`
  (`opc`, `ob`, `ot`, `oval`).
- A pc per thief, plus the locals of `pop_top` (`old_top`, `local_bot`), of
  `get_tail` (`t` → `tt`, `b` → `cur`) and of `ca_retire_last_block`
  (`old_block`, `next_old_block`, `old_to_retire`).
- Ghosts: `pushed` (the k-th push stores value k) and `taken` (how often
  each value was returned).

Actions and their steps:

- Each shared access is one step. Owner-private work between two shared
  accesses is folded into the step.
- `push_bottom` is one action: `put_head`, which may call `ca_alloc` and
  step the cursor, then the store of `bot`. Nothing in between is visible
  to a thief, since thieves only read indices below the `bot` they loaded.
- `pop_bottom` is split into these steps:
  - `pop_bottom_decr`: loads `bot` and stores `b - 1`.
  - `pop_bottom_take`, `pop_bottom_last` or `pop_bottom_empty`: loads `top`
    and branches three ways on `t` vs `b`. The first two include
    `get_head`.
  - `pop_bottom_cas`: the CAS on `top`.
  - `pop_bottom_restore`: restores `bot` and returns.
- `pop_top` is split into `pop_top_read_top`, `pop_top_read_bot` or
  `pop_top_empty`, and `pop_top_cas_win` or `pop_top_cas_lose`.
- `get_tail` is split into these steps: load `tail`, one step per link
  followed (`get_tail_walk_next` and `get_tail_walk_prev`), the retirement
  decision (`get_tail_walk_done`), and the slot read.
- `ca_retire_last_block` is split into these steps:
  - load `tail` and its `next`;
  - the `tail` CAS;
  - load `to_retire` and write `prev`;
  - the `to_retire` CAS, which retries on failure.
- A walk that ends on `nullptr` dereferences it at line 206. The thread
  stops in pc `"crash"`.
- The `tail` CAS has only its success outcome as an action. The run shows
  that the CAS never fails in the deque (`RetireBehindTail` asserts it).

Assertions are not modelled as aborts. The model runs the code on, as a
release build does, and a property states what each assertion claims.
Lines 67, 103, 113, 187, 206 and 241 are covered this way.

### `AbstractDeque.tla`: the atomic deque

The abstract module has a sequence `items`, the push count `pushed`, and
`got`, the number of times each value was handed out. Its operations are
`PushBottom`, `PopBottom` (the last item) and `PopTop` (the first item).
An empty or lost pop is a stuttering step.

The refinement mapping, in `WSDeque`:

- `AbsItems` is `slot[top .. RealBot-1]`. `RealBot` is `b + 1` while the
  owner has decremented `bot` but not yet decided. During that window a
  thief can still take that slot.
- `AbsGot` counts each value from the step that claims it. For a thief,
  the claim is its CAS on `top`; for the owner, it is the read of `top`
  (when `t < b`) or its winning CAS. A claim is counted before the slot is
  read.

### `MCWSDeque.tla`

`MCWSDeque.tla` declares one thief `t1`, the set `MCThieves1`, for the
one-thief violation runs. The other MC modules declare their own thieves
(`MCThieves2`, `MCThieves3`). `Nil` is a model value.

### `WSDequeReclaim.tla`: reclamation, reuse and the destructor

`WSDequeReclaim` extends `WSDeque`. It adds these owner actions:

- `free_retired_read`: `get_retired` loads `to_retire` (line 131).
- `free_retired_cas`: the CAS to `nullptr`, which reloads on failure.
- `free_retired_check`: the assertion of lines 135-137 (one load of
  `to_retire`), then the loop of lines 252-259. The loop pushes every
  drained block onto `blocks_to_reuse` (`PushChain`).
- `destroy`: `~Deque` deleting the array. `~continuous_array` does
  `get_retired`, then `tail->prev = r`, frees along `prev` from `head`,
  then frees the reuse list. The freed cells are recorded in `freed`.
  It runs only in a quiescent state (line 156). Thieves do not step after
  it.

Nothing in the repository calls `free_retired`. When it may run is the
caller's business (line 248, and the spec's "Reclamation timing"). The
constant `Policy` is the caller's rule, checked when the CAS takes the
stack:

- `"quiescent"`: no thief is inside `pop_top`.
- `"no_hazard"`: no thief holds a pointer to a block of the retire stack
  (spec line 232). `Holds(th)` is the set of pointers a running
  `get_tail` or `ca_retire_last_block` still dereferences later: `t` and
  `b` during the walks, `b` afterwards, and `old_block` and
  `next_old_block` while retiring.

Properties:

- `ReuseNotInUse`: no block on the reuse list is in the working set
  (from `head` back to `tail`), on the retire stack, the owner's cursor,
  or held by a thief.
- `GetRetiredOrder`: the assertion of `get_retired`.
- `DestructorFreesOnce`: the destructor frees every cell ever malloc'd,
  and each exactly once.
- `WalkMonotone` (defined, not in a run): every `next` step of
  `get_tail` reaches a larger `block_id` and every `prev` step a smaller
  one. Under the quiescent policy with two thieves both ways the code
  breaks it are out of reach, so it is used only to show finding 8's loop.
- `DequeRefinement`, inherited from `WSDeque`.

`MCWSDequeReclaim.tla` has two thieves. The bounds are one-slot blocks and
4 pushes. With them a block is retired, drained, and handed out again by
`ca_alloc` with a new id before more steals and the destructor; TLC
reaches destroyed states in which a cell was reused.

### `WSDequeTSO.tla`: the deque under store buffering

The relaxed stores of `bot` at lines 89, 99 and 103 are plain stores on
x86. They enter the owner's FIFO store buffer `sb`, and `flush` moves the
oldest one to memory. The model works as follows:

- The owner's loads of `bot` read its newest buffered store (`OwnerBot`).
- The seq_cst fence of line 90 (`Fence`) and the locked CAS of line 96
  (`Drained`) wait until `sb` is empty.
- So does `push_bottom`'s seq_cst store of line 54. The relaxed slot store
  of line 242 sits in the buffer before it, so it lands first, and
  `push_bottom` stays one step.
- Thieves have no buffered stores before their loads, and x86 keeps loads
  in order. So the thieves' steps are those of `WSDeque`.
- `SBSize` bounds the buffer; the core stalls when it is full.

`TSORefinement` maps the deque to `AbstractDeque` using the owner's view
of `bot`. `ThiefSeesI1`, the assertion of line 67, is checked here, where
thieves can load a `bot` older than the owner's.

Dropping the fence (`Fence_dropped`) breaks both `TSORefinement` and
`ThiefSeesI1`. The trace for `TSORefinement` runs as follows:

- The owner's decrement of `bot` is still in the buffer when it reads
  `top`.
- It takes index 1 by the `t < b` path.
- A thief still sees the old `bot` and takes index 1 as well.

A 2-entry buffer is enough for the owner's restore of line 99 to be still
buffered when it pops again.

### `WSDequeRC11.tla`: the deque under the C++ memory model

Every slot access of `continuous_array` is relaxed: the store of line 242
and the loads of lines 188 and 216. The block fields `prev`, `next` and
`block_id` are plain fields (lines 30-34), written by `ca_alloc` (86-91).
The module extends `WSDeque` with a view-based model of the C++ rules for
these locations:

- `hist[l]` is the history of stores to location `l`. The locations are
  each block's slots plus two header locations: `IdLoc` (`block_id` and
  `prev`) and `NextLoc` (`next`). Position 1 is the uninitialised cell.
- `tview[th]` is each thief's view: for every location, the oldest store
  the thief may still read. The owner writes every one of these
  locations, so it always sees the newest (`Latest`).
- `botview` and `topview` are the views published with the current values
  of `bot` and `top`. An acquire load, or a CAS, joins the published view
  into the thief's (`Acquire`).
- `fenceview` is the owner's view at its last seq_cst fence (line 90), and
  `relview` at its last release store of `bot` (line 54). The relaxed
  stores of `bot` (lines 89, 99, 103) publish `Join(fenceview, relview)`.
  That is the C++11-17 rule: they continue the release sequence of the
  store of line 54.
- `rc_get_tail_read_slot` may return any store the thief's view does not
  rule out, and moves the view up to it.

`bot`, `top`, `tail`, `to_retire` and the order of the steps stay those of
`WSDeque`: this model makes the slots and the headers weak, not the
indices. The retiring thief's write of `prev` (line 119) is not added to
the header history.

Properties:
- `StealSynchronizedWithPush`: the spec's ordering guarantee (spec.md,
  line 174). When a thief that won its CAS reads its slot, its view
  already holds the newest store to the slot.
- `BlockInitVisible`: every header read of `get_tail` and
  `ca_retire_last_block` sees the owner's initialising writes. It is
  violated (finding 6).

`MCWSDequeRC11.tla` has two thieves and a symmetry set over them. The
symmetry is sound: no definition tells thieves apart.

Under C++20 (P0982R1) a relaxed store no longer continues a release
sequence. `RelaxedBotView_cxx20` is the owner under that rule, and it is
the mutant of `StealSynchronizedWithPush`. The trace is a thief that
loads `bot` from the decrement of line 89 and then reads the slot's
uninitialised cell. So the deque depends on a rule that C++20 removed.
This is recorded as a note, not as a run.

### `DequeTest.tla`: the concurrent unit test

`TestParlayDequeConcurrent` (lines 42-101), over `WSDeque`:
- `phase` is the main thread: `"fill"` while it pushes `1..MaxPush`
  (`test_fill`, lines 46-49), `"run"` after `wait.store(true)`
  (`test_start`), and `"joined"` after the joins (`test_join`).
- `ostop` and `tstop[th]` are the loop exits. The owner stops on the
  first `pop_bottom` that returns `nullptr` (line 65). A thief stops on the
  first `pop_top` whose flag is true (line 75). `PopTopEmptyFlag` is that
  flag, from lines 71, 73 and 76.
- `TestPopsAll` is the assertions of lines 94-97.

The test's own 31 thieves are two here (three for the walk run). That the
test terminates is not stated: with three thieves it reaches the null walk
of finding 1, so termination would hold only at the two-thief bound.

### `PoolAllocator.tla`: the pool allocator

State:
- `large_allocated` and `large_used` are the two atomic counters, kept
  modulo `2^W` like `size_t`.
- `large_buckets[i]` is the `hazptr_stack` of large bucket `i`, as a bag of
  block capacities. A block is known only by its capacity.
- `small_allocated[i]` and `small_used[i]` are the block counts that
  `block_allocator` reports (`num_allocated_blocks`, `num_used_blocks`).
- `live` is the bag of `<<n, capacity>>` blocks the clients hold.
- `pc`, `rn`, `asz` and `rcap` are each client thread's program counter
  and its locals `n`, `alloc_size` and block. `spc` and `sa` are the
  `stats()` reader's program counter and the `total_a` it loaded. `cpc` and
  `ci` are the destructor's phase and `clear`'s loop index.

The constructor's fields (`num_small`, `max_small`, `max_size`) are
operators over the constant `Sizes`. The bucket search loop
`while (n > sizes[bucket]) bucket++` is the recursive `BucketFrom`.
Buckets are numbered from 1.

Actions, one per atomic step:
- `allocate_small` is `allocate` of a small `n`. `block_allocator::alloc`
  reuses a free block of the bucket or adds one.
- `allocate_large_begin` is `large_used += n` (line 64). Then
  `allocate_large_pop` pops the bucket's stack (lines 68-71): on success it
  returns the block, otherwise it goes on to `allocate_large_new`, which
  rounds up, calls operator new and does `large_allocated += n` (74-83).
- `deallocate_small` frees a small block. `deallocate_large_begin` is
  `large_used -= n` (line 87). `deallocate_large_release` then deletes the
  block (above `max_size`) or pushes it on its bucket's stack (88-96).
- `clear_begin`, `clear_pop` and `clear_next` are the destructor's
  `clear()`. It runs once, after every client call has returned; no call
  follows it, so the model stops there (`CHECK_DEADLOCK FALSE`).
- `stats_read_allocated` and `stats_read_used` are `stats()`: it loads
  `large_allocated`, then `large_used` and the small counts.

`MCPoolAllocator.tla` gives the constants:
- threads `a1`, `a2` (model values);
- sizes `<<8, 16, 48, 64>>` with threshold 32, so two small and two large
  buckets;
- requests 12 (small), 40 and 48 (both served by bucket 48), and 100 (above
  `max_size`, rounded up to 112 with `MaxAlign = 16`);
- `W = 8` and `MaxLive = 2`, the blocks held or being allocated at once.
  A thread's locals are reset when its call returns.

## 4. Runs

| Run | cfg | Bounds | Result |
|---|---|---|---|
| `deque_safety` | `MCWSDequeRC11.cfg` | 2 thieves (symmetric), `BS = 2`, 5 pushes (3 blocks), C++ views | pass: 974,649 states, about 2 min |
| `deque_test` | `MCDequeTest.cfg` | 2 thieves, `BS = 1`, 5 values | pass: 153,827 states, about 30 s |
| `block_init_race` | `MCWSDequeRC11_tail.cfg` | 2 thieves, `BS = 1`, 2 pushes | violation of `BlockInitVisible` |
| `deque_tso` | `MCWSDequeTSO.cfg` | 2 thieves, `BS = 2`, 4 pushes, 2-entry store buffer | pass: 145,086 states, about 70 s |
| `tail_stuck` | `MCWSDeque_taillag.cfg` | 1 thief, `BS = 2`, 5 pushes | violation of `TailFollowsTop` |
| `walk_null_three_thieves` | `MCDequeTest_walk3.cfg` | the unit test with 3 thieves, `BS = 1`, 3 values | violation of `TailWalkFindsBlock` |
| `empty_flag` | `MCWSDeque_emptyflag.cfg` | 1 thief, `BS = 2`, 3 pushes | violation of `EmptyFlagTruthful` |
| `reclaim_quiescent` | `MCWSDequeReclaim.cfg` | 2 thieves, `BS = 1`, 4 pushes, `Policy = "quiescent"` | pass: 253,357 states, about 20 s |
| `reclaim_hazard_reuse` | `MCWSDequeReclaim_hazard.cfg` | same, `Policy = "no_hazard"` | violation of `ReuseNotInUse` |
| `pool_safety` | `MCPoolAllocator.cfg` | 2 clients, stats reader, destructor | pass: 244,192 states, about 10 s |
| `stats_wrap` | `MCPoolAllocator_stats.cfg` | same | violation of `StatsReserveNotNegative` |
| `clear_underflow` | `MCPoolAllocator_clear.cfg` | same | violation of `ClearNoUnderflow` |

Properties of the passing runs:

- `DequeRefinement`: `WSDeque` implements `AbstractDeque`. This covers
  conservation, LIFO/FIFO order, and the last-item race.
- `RetireBehindTail`: the block being retired, and every block on the
  retire stack, are older than `tail`. Also, the `tail` CAS never fails,
  so the retry loop of lines 105-111 is dead code in the deque. That loop
  would retire the live tail: after a failed CAS, `old_block` holds the
  current tail.
- `OwnerCursorOK`: `put_head` and `get_head` always land on the block of
  their index.
- `ThiefSeesI1`: the assertion on line 67 holds (under TSO).
- `StealSynchronizedWithPush`: see `WSDequeRC11`.
- `TestPopsAll`: see `DequeTest`.
- `TypeOK` (`RCTypeOK` under the views).
- `PooledBlocksFit`: every block a client holds is at least its `n`, and
  every block on a large bucket's stack is at least the bucket's size.
- `LargeUsedMatchesLive`: `large_used` equals the `n` of the large blocks
  the clients hold plus the calls between line 64 and their return.

For the allocator, two clients with two outstanding blocks are enough for
a block to be pooled by one thread and reused by the other, for a request
of a different `n` to reuse a block, and for `stats()` to interleave with
either. Request 100 takes the operator-new path on both sides.

Why the bounds are enough:

- Five pushes with `BS = 2` give three blocks. The thieves cross two block
  boundaries, and two retirements can overlap.
- With two thieves, a stalled thief walks back across two retired blocks,
  and the `to_retire` CAS fails and retries (this branch fires in the run).
- A third thief is what makes the walk fail (finding 1). With only two
  thieves, the walker must be one of them, and the other performs both
  retirements in order. So no passing run claims that every walk finds
  its block, or that every call returns: both hold at two thieves and
  fail at three.

Fairness: no run checks a liveness property under fairness. Termination
of the calls and of the unit test fails with three thieves (finding 1),
and `tail_stuck` (finding 2) is violated whatever the scheduling, since
its counterexample ends in a quiescent state.

### Findings

1. **Null dereference in `get_tail` with three thieves** (`part_000:119`, `:205`).
   - Thief A has won index 0 and not yet walked.
   - Thief B swings `tail` from block 0 to block 1, but has not yet pushed
     block 0 onto `to_retire`.
   - Thief C retires block 1. It sets `prev[1] = to_retire`, which is
     still `nullptr`.
   - A walks back from block 1, or from block 2, reaches `nullptr`, and
     dereferences it at line 206.
2. **Tail stops advancing forever** (`part_000:208-210`).
   - Block k-1 is retired only by the thief that reads offset 0 of block k
     while `tail` is exactly k-1.
   - That chance is missed if the owner wins that item in its last-item
     CAS, or if thieves load `tail` out of order.
   - After a miss, `tail` never moves again and no block is retired again.
     Every later `get_tail` walks further from the tail.
   - The counterexample ends in a quiescent state with `tail` two blocks
     behind `top`.
3. **`pop_top`'s empty flag is stale** (`work_stealing_deque.h:71`).
   - The flag compares the CAS'd index with the `bot` loaded before the
     CAS, so a concurrent push makes it report "empty" while items remain.
   - The spec's P4 says otherwise. The test's thieves stop polling on this
     flag.

4. **`stats()` can report a wrapped reserve** (`part_001:195`).
   - `allocate_large` adds `n` to `large_used` (line 64) before it adds `n`
     to `large_allocated` (line 82). A `stats()` between the two computes
     `total_a - total_u` below zero, and the `size_t` result wraps.
   - It also wraps with every client idle. A block first allocated for
     `n = 40` and reused for `n = 48` leaves `large_used` at 48 and
     `large_allocated` at 40, because line 82 counts the request and not
     the block.
5. **`clear()` wraps `large_allocated`** (`part_001:203`).
   - `clear` subtracts the bucket size, but line 82 added the request.
     `allocate(40)`, `deallocate`, then `clear()` takes 48 from 40.
6. **`get_tail` reads a block header it is not synchronized with**
   (`part_000:197`).
   - Blocks have one slot. Thief A acquires `bot = 1` and wins index 0.
   - The owner pushes a second value into a new block 1, initialising its
     header with plain stores (lines 86-91).
   - Thief B acquires `bot = 2`, wins index 1 (offset 0 of block 1), sees
     `tail` at block 0, retires it and CASes `tail` to block 1.
   - A loads `tail` relaxed and gets block 1. It reads block 1's
     `block_id` (line 200) to walk back through `prev` (line 205), but
     nothing orders that read after the owner's writes. This is a data race, undefined behaviour in C++. The comment
     of line 204 asks for this check. spec.md (line 72) also has the
     relaxed load, so the spec shares the race. An acquire load at line 197 would
     give A the view of B's CAS, which includes the owner's writes. That
     fix is not a run here.

7. **`allocate(0)` with no small bucket** (`part_001:149`). This is found
   by reading the code, and is not a run.
   - If every size is at least `large_threshold`, then `num_small` and
     `max_small` are 0. `allocate(0)` takes the small path and calls
     `small_allocators[0].alloc()` on an empty array.
   - It depends only on the constructor's sizes, not on any interleaving,
     so no run checks it.
8. **The spec's hazard-pointer rule does not make reuse safe**
   (`part_000:205`).
   - Thief B wins index 1 (offset 0 of block 1) and retires block 0.
     Thief A, which won index 0,
     loads `tail` only now, so it holds only block 1.
   - The rule lets the owner drain block 0 into `blocks_to_reuse`.
   - A follows block 1's `prev` at line 205, which still points to
     block 0, and reaches a block on the reuse list. That breaks spec P7
     as well: once a block is retired, no thief reads it.
   - Once `ca_alloc` reuses that cell, A reads the value of a later push.
     `DequeRefinement` fails in the same configuration.
   - In the same run `ca_alloc` then gives the reclaimed cell block id 2
     and `prev` = block 1 (line 86), while block 1's `prev` still points to
     it. Both ids are above the desired id 0, so A's loop at line 205 can
     alternate between the two cells forever. Checking `WalkMonotone`
     instead of `ReuseNotInUse` in this configuration shows that trace.
     No run does this: it is a second symptom of the same gap.
   - Under the `"quiescent"` policy all properties hold in the same bounds
     (`reclaim_quiescent`).

## 5. Not modelled, and why

- `bot`, `top`, `tail` and `to_retire` under the C++ memory model.
  `WSDequeRC11` keeps them sequentially consistent. Their loads and stores
  are seq_cst or acquire/release, except the owner's relaxed stores of
  `bot` (covered by `WSDequeTSO` on x86) and the relaxed load of `tail`
  (finding 6). A full model of coherence over those indices is beyond
  what TLC explores at these bounds.
- The sequential tests (`test_deque.cpp` lines 10-40): their LIFO and FIFO
  results are what `DequeRefinement` states for every interleaving.
- `allocate(0)` with no small bucket (finding 7): it is a fact about
  the constructor's sizes alone, which a run would check as a constant.
- Liveness: see the fairness note in section 4.
- Who calls `free_retired`: no code in the repository does. The caller's
  rule is the constant `Policy` of `WSDequeReclaim`.
- `free` of a block in `free_retired` is commented out in the code; only
  reuse is modelled.
- `operator<<`, which is printing.
- `block_allocator` and `hazptr_stack` are not in the repository. They are
  modelled only through their contract: per-bucket block counts, and a
  linearizable stack as a bag of blocks. The thread-local lists of
  `block_allocator` are not told apart.
- `print_stats` (printing) and `reserve` (empty).
- `clear()` called while clients are still running. The only caller is the
  destructor, and the spec says it drains the pools at shutdown.
