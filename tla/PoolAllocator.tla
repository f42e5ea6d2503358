--------------------------- MODULE PoolAllocator ---------------------------
(***************************************************************************)
(* pool_allocator (part_001): buckets of fixed block sizes.  Buckets below *)
(* large_threshold are served by one block_allocator each; larger buckets  *)
(* share one lock-free stack (hazptr_stack) each; requests above max_size  *)
(* go to operator new.  Client threads allocate and free concurrently;     *)
(* one more thread calls stats().                                          *)
(*                                                                         *)
(* Each atomic counter update and each stack push/pop is one step.  A      *)
(* block is abstracted to its capacity, so a stack is a bag of            *)
(* capacities and the client's live blocks a bag of <<n, capacity>>.       *)
(* Sizes and alignment are scaled down; counters are size_t, kept at W     *)
(* bits.  Buckets are numbered from 1 (code bucket b is model bucket b+1). *)
(***************************************************************************)
EXTENDS Naturals, Sequences, FiniteSetsExt, Bags, BagsExt

CONSTANTS
  Sizes,           \* the constructor's sizes_ vector
  LargeThreshold,  \* large_threshold (1 << 18), scaled down
  MaxAlign,        \* max_alignment (128), scaled down
  W,               \* width of size_t in the model
  Requests,        \* the n the clients pass to allocate
  Threads,         \* client threads
  MaxLive          \* bound on the blocks the clients hold at once

ASSUME Sizes \in Seq(Nat \ {0}) /\ Len(Sizes) > 0 /\ MaxAlign \in Nat \ {0}

Word == 2^W
AddW(x, k) == (x + k) % Word           \* size_t +=
SubW(x, k) == (x - k) % Word           \* size_t -=, wraps below zero

(* The constructor's derived fields (lines 109-122).                       *)
NumBuckets == Len(Sizes)
MaxSize == Sizes[NumBuckets]
RECURSIVE CountSmall(_)
CountSmall(k) ==                       \* while (num_small < num_buckets && ...)
  IF k < NumBuckets /\ Sizes[k + 1] < LargeThreshold
  THEN CountSmall(k + 1) ELSE k
NumSmall == CountSmall(0)
MaxSmall == IF NumSmall > 0 THEN Sizes[NumSmall] ELSE 0
SmallIdx == 1..NumSmall
LargeIdx == (NumSmall + 1)..NumBuckets

(* Mutant of the bucket search: while (n >= sizes[bucket]) bucket++.       *)
RECURSIVE BucketFromGE(_, _)
BucketFromGE(n, b) == IF n >= Sizes[b] /\ b < NumBuckets THEN BucketFromGE(n, b + 1) ELSE b
(* while (n > sizes[bucket]) bucket++; starting at bucket b.              *)
RECURSIVE BucketFrom(_, _)
BucketFrom(n, b) == IF n > Sizes[b] THEN BucketFrom(n, b + 1) ELSE b

(* Round alloc_size up to a multiple of max_alignment (lines 76-78).      *)
RoundUp(sz) == IF sz % MaxAlign # 0 THEN sz + (MaxAlign - (sz % MaxAlign)) ELSE sz

Cap(blk) == blk[2]
Req(blk) == blk[1]

VARIABLES
  large_allocated, large_used,     \* the two atomic counters
  large_buckets,                   \* large bucket -> bag of block capacities
  small_allocated, small_used,     \* block_allocator block counts, by bucket
  live,                            \* bag of <<n, capacity>> held by clients
  pc, rn, asz, rcap,               \* client pc and locals n, alloc_size, block
  cpc, ci,                         \* ~pool_allocator/clear(): phase and loop index i
  spc, sa                          \* stats(): pc and the total_a it read

pool   == <<large_allocated, large_used, large_buckets, small_allocated, small_used>>
client == <<live, pc, rn, asz, rcap>>
dtor   == <<cpc, ci>>
vars   == <<pool, client, dtor, spc, sa>>

PCs == {"idle", "al_pop", "al_new", "dl_rel"}

TypeOK ==
  /\ large_allocated \in 0..(Word - 1) /\ large_used \in 0..(Word - 1)
  /\ \A i \in LargeIdx : IsABag(large_buckets[i])
  /\ DOMAIN large_buckets = LargeIdx
  /\ small_allocated \in [SmallIdx -> Nat] /\ small_used \in [SmallIdx -> Nat]
  /\ IsABag(live) /\ BagCardinality(live) <= MaxLive
  /\ pc \in [Threads -> PCs] /\ spc \in {"idle", "st_u"}
  /\ cpc \in {"open", "clear", "closed"} /\ ci \in LargeIdx \cup {NumBuckets + 1}

Init ==
  /\ large_allocated = 0 /\ large_used = 0
  /\ large_buckets = [i \in LargeIdx |-> EmptyBag]
  /\ small_allocated = [i \in SmallIdx |-> 0]
  /\ small_used = [i \in SmallIdx |-> 0]
  /\ live = EmptyBag
  /\ pc = [t \in Threads |-> "idle"]
  /\ rn = [t \in Threads |-> 0] /\ asz = [t \in Threads |-> 0]
  /\ rcap = [t \in Threads |-> 0] /\ cpc = "open" /\ ci = NumSmall + 1
  /\ spc = "idle" /\ sa = 0

(* Blocks held or being allocated; bounded by MaxLive.                      *)
Outstanding == BagCardinality(live) + Cardinality({t \in Threads : pc[t] \in {"al_pop", "al_new"}})

Goto(t, l) == pc' = [pc EXCEPT ![t] = l]
Hold(blk)  == live' = BagAdd(live, blk)
(* The call returns; its locals are dead.                                  *)
Return(t)  == /\ pc' = [pc EXCEPT ![t] = "idle"]
              /\ rn' = [rn EXCEPT ![t] = 0] /\ asz' = [asz EXCEPT ![t] = 0]
              /\ rcap' = [rcap EXCEPT ![t] = 0]

-----------------------------------------------------------------------------
(* allocate(n) for a small n (lines 142-149): the smallest bucket with    *)
(* size >= n; block_allocator::alloc reuses a free block of its list or    *)
(* allocates a new one (modelled from the block_allocator contract).      *)
allocate_small(t, n) ==
  LET b == BucketFrom(n, 1) IN
  /\ cpc = "open" /\ pc[t] = "idle" /\ n <= MaxSmall
  /\ Outstanding < MaxLive
  /\ small_used' = [small_used EXCEPT ![b] = @ + 1]
  /\ small_allocated' = IF small_used[b] < small_allocated[b]
                        THEN small_allocated
                        ELSE [small_allocated EXCEPT ![b] = @ + 1]
  /\ Hold(<<n, Sizes[b]>>)
  /\ UNCHANGED <<large_allocated, large_used, large_buckets, pc, rn, asz, rcap, dtor, spc, sa>>

(* allocate(n) for a large n, first step (lines 144, 62-66, 72):           *)
(* large_used += n, then either the pool path or operator new for n.       *)
allocate_large_begin(t, n) ==
  /\ cpc = "open" /\ pc[t] = "idle" /\ n > MaxSmall
  /\ Outstanding < MaxLive
  /\ large_used' = AddW(large_used, n)
  /\ rn' = [rn EXCEPT ![t] = n]
  /\ IF n <= MaxSize
     THEN Goto(t, "al_pop") /\ UNCHANGED asz
     ELSE Goto(t, "al_new") /\ asz' = [asz EXCEPT ![t] = n]
  /\ UNCHANGED <<large_allocated, large_buckets, small_allocated, small_used, live, rcap, dtor, spc, sa>>

(* Lines 68-71: pop the shared stack of the bucket; a block found is      *)
(* returned, otherwise a block of the bucket's size is to be allocated.   *)
allocate_large_pop(t) ==
  LET b == BucketFrom(rn[t], NumSmall + 1) IN
  /\ pc[t] = "al_pop"
  /\ \/ \E c \in BagToSet(large_buckets[b]) :
          /\ large_buckets' = [large_buckets EXCEPT ![b] = BagRemove(@, c)]
          /\ Hold(<<rn[t], c>>)
          /\ Return(t)
     \/ /\ large_buckets[b] = EmptyBag
        /\ asz' = [asz EXCEPT ![t] = Sizes[b]]
        /\ Goto(t, "al_new")
        /\ UNCHANGED <<large_buckets, live, rn, rcap>>
  /\ UNCHANGED <<large_allocated, large_used, small_allocated, small_used, dtor, spc, sa>>

(* Lines 74-83: round up, operator new, large_allocated += n.             *)
allocate_large_new(t) ==
  /\ pc[t] = "al_new"
  /\ large_allocated' = AddW(large_allocated, rn[t])
  /\ Hold(<<rn[t], RoundUp(asz[t])>>)
  /\ Return(t)
  /\ UNCHANGED <<large_used, large_buckets, small_allocated, small_used, dtor, spc, sa>>

(* Mutant: deallocate of a small block without the bucket search loop.    *)
deallocate_small_no_search(t, blk) ==
  /\ cpc = "open" /\ pc[t] = "idle" /\ Req(blk) <= MaxSmall
  /\ small_used' = [small_used EXCEPT ![1] = @ - 1]
  /\ live' = BagRemove(live, blk)
  /\ UNCHANGED <<large_allocated, large_used, large_buckets, small_allocated, pc, rn, asz, rcap, dtor, spc, sa>>

(* deallocate(ptr, n) of a small block (lines 152-160): block_allocator   *)
(* ::free puts it back on the list of the bucket it was taken from.       *)
deallocate_small(t, blk) ==
  LET b == BucketFrom(Req(blk), 1) IN
  /\ cpc = "open" /\ pc[t] = "idle" /\ Req(blk) <= MaxSmall
  /\ small_used' = [small_used EXCEPT ![b] = @ - 1]
  /\ live' = BagRemove(live, blk)
  /\ UNCHANGED <<large_allocated, large_used, large_buckets, small_allocated, pc, rn, asz, rcap, dtor, spc, sa>>

(* Mutant: deallocate_large subtracting the block's capacity instead of n. *)
deallocate_large_begin_cap(t, blk) ==
  /\ cpc = "open" /\ pc[t] = "idle" /\ Req(blk) > MaxSmall
  /\ large_used' = SubW(large_used, Cap(blk))
  /\ live' = BagRemove(live, blk)
  /\ rn' = [rn EXCEPT ![t] = Req(blk)]
  /\ rcap' = [rcap EXCEPT ![t] = Cap(blk)]
  /\ Goto(t, "dl_rel")
  /\ UNCHANGED <<large_allocated, large_buckets, small_allocated, small_used, asz, dtor, spc, sa>>

(* deallocate_large, first step (lines 154, 87): large_used -= n.          *)
deallocate_large_begin(t, blk) ==
  /\ cpc = "open" /\ pc[t] = "idle" /\ Req(blk) > MaxSmall
  /\ large_used' = SubW(large_used, Req(blk))
  /\ live' = BagRemove(live, blk)
  /\ rn' = [rn EXCEPT ![t] = Req(blk)]
  /\ rcap' = [rcap EXCEPT ![t] = Cap(blk)]
  /\ Goto(t, "dl_rel")
  /\ UNCHANGED <<large_allocated, large_buckets, small_allocated, small_used, asz, dtor, spc, sa>>

(* Mutant: the bucket search of deallocate_large with n >= sizes[bucket]. *)
deallocate_large_release_ge(t) ==
  LET b == BucketFromGE(rn[t], NumSmall + 1) IN
  /\ pc[t] = "dl_rel"
  /\ IF rn[t] > MaxSize
     THEN large_allocated' = SubW(large_allocated, rn[t]) /\ UNCHANGED large_buckets
     ELSE large_buckets' = [large_buckets EXCEPT ![b] = BagAdd(@, rcap[t])]
          /\ UNCHANGED large_allocated
  /\ Return(t)
  /\ UNCHANGED <<large_used, small_allocated, small_used, live, dtor, spc, sa>>

(* deallocate_large, second step (lines 88-96): a block above max_size    *)
(* goes to operator delete and large_allocated -= n; any other is pushed   *)
(* on the stack of the smallest bucket that fits n.                        *)
deallocate_large_release(t) ==
  LET b == BucketFrom(rn[t], NumSmall + 1) IN
  /\ pc[t] = "dl_rel"
  /\ IF rn[t] > MaxSize
     THEN large_allocated' = SubW(large_allocated, rn[t]) /\ UNCHANGED large_buckets
     ELSE large_buckets' = [large_buckets EXCEPT ![b] = BagAdd(@, rcap[t])]
          /\ UNCHANGED large_allocated
  /\ Return(t)
  /\ UNCHANGED <<large_used, small_allocated, small_used, live, dtor, spc, sa>>

(* ~pool_allocator() (lines 105-107) runs clear() (lines 199-208) once   *)
(* every client call has returned, and no call follows it: for each large *)
(* bucket, pop until the stack is empty, large_allocated -= sizes[i] and  *)
(* operator delete for each block.                                        *)
clear_begin ==
  /\ cpc = "open" /\ \A t \in Threads : pc[t] = "idle"
  /\ cpc' = IF LargeIdx = {} THEN "closed" ELSE "clear"
  /\ ci' = NumSmall + 1
  /\ UNCHANGED <<pool, client, spc, sa>>

clear_pop ==
  /\ cpc = "clear"
  /\ \E c \in BagToSet(large_buckets[ci]) :
        large_buckets' = [large_buckets EXCEPT ![ci] = BagRemove(@, c)]
  /\ large_allocated' = SubW(large_allocated, Sizes[ci])
  /\ UNCHANGED <<large_used, small_allocated, small_used, client, dtor, spc, sa>>

clear_next ==
  /\ cpc = "clear"
  /\ large_buckets[ci] = EmptyBag
  /\ ci' = ci + 1
  /\ cpc' = IF ci = NumBuckets THEN "closed" ELSE "clear"
  /\ UNCHANGED <<pool, client, spc, sa>>

(* stats() (lines 185-195): total_a = large_allocated, then total_u =      *)
(* large_used, then the small buckets' block counts times their sizes.     *)
SmallBytes(count) == MapThenSumSet(LAMBDA i : count[i] * Sizes[i], SmallIdx)
StatsTotalA == AddW(sa, SmallBytes(small_allocated))
StatsTotalU == AddW(large_used, SmallBytes(small_used))

stats_read_allocated ==
  /\ spc = "idle" /\ cpc = "open"
  /\ sa' = large_allocated
  /\ spc' = "st_u"
  /\ UNCHANGED <<pool, client, dtor>>

stats_read_used ==
  /\ spc = "st_u"
  /\ spc' = "idle"
  /\ UNCHANGED <<pool, client, dtor, sa>>

-----------------------------------------------------------------------------
ThreadNext(t) ==
  \/ \E n \in Requests : allocate_small(t, n) \/ allocate_large_begin(t, n)
  \/ allocate_large_pop(t) \/ allocate_large_new(t)
  \/ \E blk \in BagToSet(live) : deallocate_small(t, blk) \/ deallocate_large_begin(t, blk)
  \/ deallocate_large_release(t)

Next ==
  \/ \E t \in Threads : ThreadNext(t)
  \/ clear_begin \/ clear_pop \/ clear_next
  \/ stats_read_allocated \/ stats_read_used

Spec == Init /\ [][Next]_vars

-----------------------------------------------------------------------------
(* Bytes of the live large blocks (n > max_small), counted with their      *)
(* multiplicity, and of large requests between large_used += n and return. *)
LiveLargeBytes == MapThenSumSet(LAMBDA blk : IF Req(blk) > MaxSmall THEN Req(blk) * live[blk] ELSE 0,
                                DOMAIN live)
InFlightBytes == MapThenSumSet(LAMBDA t : rn[t], {t \in Threads : pc[t] \in {"al_pop", "al_new"}})

(* Every block a client holds is at least as large as the n it asked for, *)
(* and every block parked on a large bucket's stack can serve any request *)
(* routed to that bucket, through any interleaving of reuse (lines 68-70) *)
(* and return (lines 92-94) of blocks by concurrent threads.               *)
PooledBlocksFit ==
  /\ \A blk \in BagToSet(live) : Cap(blk) >= Req(blk)
  /\ \A i \in LargeIdx : \A c \in BagToSet(large_buckets[i]) : c >= Sizes[i]

(* large_used ("bytes of large blocks allocated by the user", line 54) is *)
(* the sum of n over the large blocks the clients hold, plus the requests *)
(* that have added n and not yet returned, modulo the size_t width.       *)
LargeUsedMatchesLive ==
  large_used = (LiveLargeBytes + InFlightBytes) % Word

(* stats() returns total_a - total_u as the bytes held in reserve (line    *)
(* 184); the subtraction at line 195 must not wrap below zero.             *)
StatsReserveNotNegative ==
  [][spc = "st_u" /\ spc' = "idle" => sa + SmallBytes(small_allocated) >= StatsTotalU]_vars

(* clear() subtracts sizes[i] from large_allocated for each pooled block  *)
(* (line 203); large_allocated must hold at least that much, or it wraps. *)
ClearNoUnderflow ==
  [][clear_pop => large_allocated >= Sizes[ci]]_vars
=============================================================================
