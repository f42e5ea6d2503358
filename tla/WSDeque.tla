------------------------------ MODULE WSDeque ------------------------------
(***************************************************************************)
(* The work-stealing deque Deque<V> (work_stealing_deque.h) together with  *)
(* the operations of its backing store continuous_array<V*>                *)
(* (part_000) that the deque calls: put_head, get_head, get_tail, ca_alloc *)
(* and ca_retire_last_block.  One owner thread pushes and pops at the      *)
(* bottom; every thief in Thieves steals at the top.                       *)
(*                                                                         *)
(* Memory is sequentially consistent: every atomic access (load, store,    *)
(* CAS) and every read of a block's prev/next link is one step; owner-     *)
(* private work between two shared accesses is folded into the step.       *)
(* A block is a memory cell with fields block_id, prev, next and array;   *)
(* get_block takes one from the reuse list blocks_to_reuse or mallocs the  *)
(* next fresh cell.  The deque itself never reclaims (WSDequeReclaim adds  *)
(* free_retired), so here every cell is fresh.  The k-th push stores value *)
(* k, so a value names the push that produced it; slot records, by logical *)
(* index, what was pushed (a history variable for the properties only).    *)
(***************************************************************************)
EXTENDS Naturals, FiniteSets, Sequences

CONSTANTS
  Thieves,   \* thief threads calling pop_top
  BS,        \* block_size (1 << BLOCK_SIZE_LOG), scaled down
  MaxPush,   \* bound on the number of push_bottom calls
  Nil        \* nullptr

ASSUME BS \in Nat \ {0} /\ MaxPush \in Nat \ {0} /\ Thieves # {}

Values   == 1..MaxPush
Indices  == 0..(MaxPush - 1)           \* bot never exceeds the pushes made
BlockIds == 0..((MaxPush - 1) \div BS)
Blocks   == BlockIds                   \* memory cells: never more than block ids
Offsets  == 0..(BS - 1)
BlockOf(i)  == i \div BS               \* index >> BLOCK_SIZE_LOG
OffsetOf(i) == i % BS                  \* index & block_size_mask

VARIABLES
  bot, top,            \* Deque::bot, Deque::top
  data,                \* block::array of every cell
  bid, prev, next,     \* block::block_id, block::prev, block::next
  curr_block_id,       \* next block_id to assign
  head, block_in_use,  \* owner's head block and block cursor
  tail, to_retire,     \* shared tail block and retire stack head
  reuse,               \* blocks_to_reuse, linked through prev
  mallocd,             \* cells obtained from malloc so far
  slot,                \* history: the value pushed at each logical index
  pushed,              \* number of push_bottom calls so far
  opc, ob, ot, oval,   \* owner: pc and the locals b, t, val of pop_bottom
  ofr,                 \* owner: old_to_retire of get_retired
  freed,               \* the cells the destructor frees, in order
  tpc,                 \* thief program counters
  old_top, local_bot,  \* pop_top locals
  tt, cur,             \* get_tail locals t and b
  old_block, next_old_block, old_to_retire,  \* ca_retire_last_block locals
  taken                \* how often each value (or Nil) was returned by a pop

ca    == <<data, bid, prev, next, curr_block_id, head, block_in_use, tail,
           to_retire, reuse, mallocd>>
owner == <<opc, ob, ot, oval, ofr, freed>>
thief == <<tpc, old_top, local_bot, tt, cur, old_block, next_old_block,
           old_to_retire>>
vars  == <<bot, top, slot, pushed, taken, ca, owner, thief>>

ThiefPCs == {"idle", "rd_bot", "cas", "tail_rd", "fwd", "back", "read", "crash",
             "ret_tail", "ret_cas", "ret_push_rd", "ret_push_cas"}
OwnerPCs == {"idle", "pb_top", "pb_cas", "pb_restore", "fr_cas", "fr_check",
             "destroyed"}
Ptr == Blocks \cup {Nil}

TypeOK ==
  /\ bot \in 0..MaxPush /\ top \in 0..MaxPush
  /\ data \in [Blocks -> [Offsets -> Values \cup {Nil}]]
  /\ bid \in [Blocks -> BlockIds]
  /\ prev \in [Blocks -> Ptr] /\ next \in [Blocks -> Ptr]
  /\ curr_block_id \in 1..Cardinality(BlockIds)
  /\ head \in Ptr /\ block_in_use \in Ptr /\ tail \in Blocks
  /\ to_retire \in Ptr /\ reuse \in Ptr
  /\ mallocd \in 1..Cardinality(Blocks)
  /\ slot \in [Indices -> Values \cup {Nil}]
  /\ pushed \in 0..MaxPush
  /\ opc \in OwnerPCs /\ ob \in Indices /\ ot \in 0..MaxPush
  /\ oval \in Values \cup {Nil} /\ ofr \in Ptr /\ freed \in Seq(Blocks)
  /\ tpc \in [Thieves -> ThiefPCs]
  /\ old_top \in [Thieves -> 0..MaxPush]
  /\ local_bot \in [Thieves -> 0..MaxPush]
  /\ tt \in [Thieves -> Blocks]
  /\ cur \in [Thieves -> Ptr]
  /\ old_block \in [Thieves -> Blocks]
  /\ next_old_block \in [Thieves -> Ptr]
  /\ old_to_retire \in [Thieves -> Ptr]
  /\ taken \in [Values \cup {Nil} -> Nat]

(* continuous_array(): get_block mallocs cell 0, block_id 0, which is head, *)
(* tail and block_in_use.  Cells not yet malloc'd are unreachable.         *)
CAInit ==
  /\ data = [b \in Blocks |-> [o \in Offsets |-> Nil]]
  /\ bid = [b \in Blocks |-> 0]
  /\ prev = [b \in Blocks |-> Nil]
  /\ next = [b \in Blocks |-> Nil]
  /\ curr_block_id = 1 /\ mallocd = 1
  /\ head = 0 /\ block_in_use = 0 /\ tail = 0
  /\ to_retire = Nil /\ reuse = Nil

(* Deque(): bot = top = 0 over a new continuous_array; no call is running. *)
DequeInit ==
  /\ bot = 0 /\ top = 0
  /\ CAInit

Init ==
  /\ DequeInit
  /\ slot = [i \in Indices |-> Nil]
  /\ pushed = 0
  /\ opc = "idle" /\ ob = 0 /\ ot = 0 /\ oval = Nil /\ ofr = Nil
  /\ freed = <<>>
  /\ tpc = [th \in Thieves |-> "idle"]
  /\ old_top = [th \in Thieves |-> 0]
  /\ local_bot = [th \in Thieves |-> 0]
  /\ tt = [th \in Thieves |-> 0]
  /\ cur = [th \in Thieves |-> Nil]
  /\ old_block = [th \in Thieves |-> 0]
  /\ next_old_block = [th \in Thieves |-> Nil]
  /\ old_to_retire = [th \in Thieves |-> Nil]
  /\ taken = [v \in Values \cup {Nil} |-> 0]

-----------------------------------------------------------------------------
(* A pop hands value v back to its caller. *)
Return(v) == taken' = [taken EXCEPT ![v] = @ + 1]

(* The fields and owner-private state no thief step writes. *)
links == <<data, bid, next, curr_block_id, head, block_in_use, reuse, mallocd>>

(***************************************************************************)
(* Owner: push_bottom and pop_bottom.                                      *)
(***************************************************************************)

(* get_block / pop_reuse_block: the cell on top of blocks_to_reuse, popped *)
(* by following its prev link, or else a freshly malloc'd cell.  The      *)
(* array of a reused cell keeps the values it held before.                 *)
NewBlock == IF reuse # Nil THEN reuse ELSE mallocd

(* Mutant of get_block: pop_reuse_block returns the top block without    *)
(* unlinking it (line 76 missing).                                         *)
get_block_no_pop ==
  IF reuse # Nil THEN UNCHANGED <<reuse, mallocd>>
                 ELSE mallocd' = mallocd + 1 /\ UNCHANGED reuse

get_block ==
  IF reuse # Nil THEN reuse' = prev[reuse] /\ UNCHANGED mallocd
                 ELSE mallocd' = mallocd + 1 /\ UNCHANGED reuse

(* ca_alloc: the new block gets the next block_id, is linked after head    *)
(* and becomes head.                                                       *)
ca_alloc ==
  LET nb == NewBlock IN
  /\ get_block
  /\ prev' = [prev EXCEPT ![nb] = head]
  /\ next' = [next EXCEPT ![nb] = Nil, ![head] = nb]
  /\ bid' = [bid EXCEPT ![nb] = curr_block_id]
  /\ curr_block_id' = curr_block_id + 1
  /\ head' = nb

(* put_head(index, val): at offset 0, allocate the block if it is the next *)
(* one to be assigned, and step block_in_use forward one link if it is not *)
(* already the desired block; then store val.                              *)
NeedsAlloc(i) == OffsetOf(i) = 0 /\ curr_block_id = BlockOf(i)

NoAlloc == UNCHANGED <<bid, prev, next, curr_block_id, head, reuse, mallocd>>

Store(i, val) ==
  /\ data' = [data EXCEPT ![block_in_use'][OffsetOf(i)] = val]
  /\ slot' = [slot EXCEPT ![i] = val]

(* Mutant of put_head: block_in_use only follows a freshly allocated block *)
(* (line 234 nested inside the curr_block_id test of line 229).            *)
put_head_step_on_alloc(i, val) ==
  /\ IF NeedsAlloc(i) THEN ca_alloc ELSE NoAlloc
  /\ block_in_use' = IF NeedsAlloc(i) /\ BlockOf(i) # bid[block_in_use]
                       THEN next'[block_in_use] ELSE block_in_use
  /\ Store(i, val)

put_head(i, val) ==
  /\ IF NeedsAlloc(i) THEN ca_alloc ELSE NoAlloc
  /\ block_in_use' = IF OffsetOf(i) = 0 /\ BlockOf(i) # bid[block_in_use]
                       THEN next'[block_in_use] ELSE block_in_use
  /\ Store(i, val)

(* push_bottom(val): put_head(bot, val), then the seq_cst store bot + 1.    *)
(* Nothing between the slot store and the bot store is visible to a thief  *)
(* (thieves only read indices below the bot they loaded), so the handler   *)
(* is one step.                                                            *)
push_bottom ==
  /\ opc = "idle"
  /\ pushed < MaxPush
  /\ put_head(bot, pushed + 1)
  /\ bot' = bot + 1
  /\ pushed' = pushed + 1
  /\ UNCHANGED <<top, tail, to_retire, taken, owner, thief>>

(* Mutant of pop_bottom_decr: the b == 0 early return of line 84 dropped. *)
pop_bottom_decr_unguarded ==
  /\ opc = "idle"
  /\ ob' = bot - 1
  /\ bot' = bot - 1
  /\ opc' = "pb_top"
  /\ UNCHANGED <<top, pushed, taken, slot, ca, ot, oval, ofr, freed, thief>>

(* pop_bottom, lines 83-90: b = bot; b == 0 returns nullptr without a      *)
(* shared write (a stuttering step); otherwise bot = b - 1.                *)
pop_bottom_decr ==
  /\ opc = "idle"
  /\ bot > 0
  /\ ob' = bot - 1
  /\ bot' = bot - 1
  /\ opc' = "pb_top"
  /\ UNCHANGED <<top, pushed, taken, slot, ca, ot, oval, ofr, freed, thief>>

(* get_head(index): step block_in_use back one link if it is not the block *)
(* of index; the slot is then read from block_in_use.                      *)
get_head_cursor(index) ==
  IF bid[block_in_use] # BlockOf(index) THEN prev[block_in_use]
                                        ELSE block_in_use

HeadRead == data[block_in_use'][OffsetOf(ob)]

(* Mutant of pop_bottom_take: t <= b taken as uncontested (the t == b     *)
(* CAS of line 96 skipped).                                                *)
pop_bottom_take_no_cas ==
  /\ opc = "pb_top"
  /\ top <= ob
  /\ block_in_use' = get_head_cursor(ob)
  /\ Return(HeadRead)
  /\ opc' = "idle" /\ ob' = 0 /\ oval' = Nil
  /\ UNCHANGED <<bot, top, pushed, slot, data, bid, prev, next, curr_block_id,
                 head, reuse, mallocd, tail, to_retire, ot, ofr, freed, thief>>

(* Line 91 t = top, then t < b: at least one more item, take slot b.       *)
pop_bottom_take ==
  /\ opc = "pb_top"
  /\ top < ob
  /\ block_in_use' = get_head_cursor(ob)
  /\ Return(HeadRead)
  /\ opc' = "idle" /\ ob' = 0 /\ oval' = Nil
  /\ UNCHANGED <<bot, top, pushed, slot, data, bid, prev, next, curr_block_id,
                 head, reuse, mallocd, tail, to_retire, ot, ofr, freed, thief>>

(* t == b: the last item; read it and race the thieves with a CAS on top.  *)
pop_bottom_last ==
  /\ opc = "pb_top"
  /\ top = ob
  /\ block_in_use' = get_head_cursor(ob)
  /\ ot' = top
  /\ oval' = HeadRead
  /\ opc' = "pb_cas"
  /\ UNCHANGED <<bot, top, pushed, taken, slot, data, bid, prev, next,
                 curr_block_id, head, reuse, mallocd, tail, to_retire, ob,
                 ofr, freed, thief>>

(* t > b: the deque was empty; val = nullptr and bot is restored.          *)
pop_bottom_empty ==
  /\ opc = "pb_top"
  /\ top > ob
  /\ ot' = top
  /\ opc' = "pb_restore"
  /\ UNCHANGED <<bot, top, pushed, taken, slot, ca, ob, oval, ofr, freed,
                 thief>>

(* Line 96: compare_exchange_strong(t, t + 1); on failure val = nullptr.   *)
pop_bottom_cas ==
  /\ opc = "pb_cas"
  /\ \/ top = ot /\ top' = top + 1 /\ UNCHANGED oval
     \/ top # ot /\ oval' = Nil /\ UNCHANGED top
  /\ opc' = "pb_restore"
  /\ UNCHANGED <<bot, pushed, taken, slot, ca, ob, ot, ofr, freed, thief>>

(* Mutant of pop_bottom_restore: bot left at b - 1 (lines 99/103 lost).   *)
pop_bottom_restore_dropped ==
  /\ opc = "pb_restore"
  /\ bot' = ob
  /\ IF oval # Nil THEN Return(oval) ELSE UNCHANGED taken
  /\ opc' = "idle" /\ ob' = 0 /\ ot' = 0 /\ oval' = Nil
  /\ UNCHANGED <<top, pushed, slot, ca, ofr, freed, thief>>

(* Lines 99/103: bot = b + 1, then return val.                             *)
pop_bottom_restore ==
  /\ opc = "pb_restore"
  /\ bot' = ob + 1
  /\ IF oval # Nil THEN Return(oval) ELSE UNCHANGED taken
  /\ opc' = "idle" /\ ob' = 0 /\ ot' = 0 /\ oval' = Nil
  /\ UNCHANGED <<top, pushed, slot, ca, ofr, freed, thief>>

(***************************************************************************)
(* Thieves: pop_top, get_tail and ca_retire_last_block.                    *)
(***************************************************************************)

(* Thief th returns from pop_top; its locals are dead from here on.        *)
Idle(th) ==
  /\ tpc' = [tpc EXCEPT ![th] = "idle"]
  /\ old_top' = [old_top EXCEPT ![th] = 0]
  /\ local_bot' = [local_bot EXCEPT ![th] = 0]
  /\ tt' = [tt EXCEPT ![th] = 0]
  /\ cur' = [cur EXCEPT ![th] = Nil]
  /\ old_block' = [old_block EXCEPT ![th] = 0]
  /\ next_old_block' = [next_old_block EXCEPT ![th] = Nil]
  /\ old_to_retire' = [old_to_retire EXCEPT ![th] = Nil]

Goto(th, pc) == tpc' = [tpc EXCEPT ![th] = pc]

(* Line 64: old_top = top (the seq_cst fence of line 65 follows).          *)
pop_top_read_top(th) ==
  /\ tpc[th] = "idle"
  /\ old_top' = [old_top EXCEPT ![th] = top]
  /\ Goto(th, "rd_bot")
  /\ UNCHANGED <<bot, top, pushed, taken, slot, ca, owner, local_bot, tt, cur,
                 old_block, next_old_block, old_to_retire>>

(* Line 66: local_bot = bot; line 76: local_bot <= old_top returns         *)
(* {nullptr, true}.                                                        *)
pop_top_empty(th) ==
  /\ tpc[th] = "rd_bot"
  /\ bot <= old_top[th]
  /\ Idle(th)
  /\ UNCHANGED <<bot, top, pushed, taken, slot, ca, owner>>

(* Line 66 with local_bot > old_top: go on to the CAS.                     *)
pop_top_read_bot(th) ==
  /\ tpc[th] = "rd_bot"
  /\ bot > old_top[th]
  /\ local_bot' = [local_bot EXCEPT ![th] = bot]
  /\ Goto(th, "cas")
  /\ UNCHANGED <<bot, top, pushed, taken, slot, ca, owner, old_top, tt, cur,
                 old_block, next_old_block, old_to_retire>>

(* Line 69 succeeds: top = old_top + 1, then get_tail(old_top) begins by   *)
(* loading tail (line 197).                                                *)
pop_top_cas_win(th) ==
  /\ tpc[th] = "cas"
  /\ top = old_top[th]
  /\ top' = top + 1
  /\ Goto(th, "tail_rd")
  /\ UNCHANGED <<bot, pushed, taken, slot, ca, owner, old_top, local_bot, tt,
                 cur, old_block, next_old_block, old_to_retire>>

(* Line 73: the CAS lost to another pop; return {nullptr, ...}.            *)
pop_top_cas_lose(th) ==
  /\ tpc[th] = "cas"
  /\ top # old_top[th]
  /\ Idle(th)
  /\ UNCHANGED <<bot, top, pushed, taken, slot, ca, owner>>

(* get_tail lines 197-198: t = tail; b = t.                                *)
get_tail_read_tail(th) ==
  /\ tpc[th] = "tail_rd"
  /\ tt' = [tt EXCEPT ![th] = tail]
  /\ cur' = [cur EXCEPT ![th] = tail]
  /\ Goto(th, "fwd")
  /\ UNCHANGED <<bot, top, pushed, taken, slot, ca, owner, old_top, local_bot,
                 old_block, next_old_block, old_to_retire>>

Desired(th) == BlockOf(old_top[th])
FwdCond(th) == cur[th] # Nil /\ bid[cur[th]] < Desired(th)
BackCond(th) == cur[th] # Nil /\ bid[cur[th]] > Desired(th)
InBackLoop(th) == tpc[th] = "back" \/ (tpc[th] = "fwd" /\ ~FwdCond(th))

(* Line 200: while b is older than the desired block, b = b->next.         *)
get_tail_walk_next(th) ==
  /\ tpc[th] = "fwd"
  /\ FwdCond(th)
  /\ cur' = [cur EXCEPT ![th] = next[cur[th]]]
  /\ UNCHANGED <<bot, top, pushed, taken, slot, ca, owner, tpc, old_top,
                 local_bot, tt, old_block, next_old_block, old_to_retire>>

(* Mutant of get_tail_walk_prev: the backward loop follows next.          *)
get_tail_walk_prev_next(th) ==
  /\ InBackLoop(th)
  /\ BackCond(th)
  /\ cur' = [cur EXCEPT ![th] = next[cur[th]]]
  /\ Goto(th, "back")
  /\ UNCHANGED <<bot, top, pushed, taken, slot, ca, owner, old_top, local_bot,
                 tt, old_block, next_old_block, old_to_retire>>

(* Line 205: while b is younger than the desired block, b = b->prev.       *)
get_tail_walk_prev(th) ==
  /\ InBackLoop(th)
  /\ BackCond(th)
  /\ cur' = [cur EXCEPT ![th] = prev[cur[th]]]
  /\ Goto(th, "back")
  /\ UNCHANGED <<bot, top, pushed, taken, slot, ca, owner, old_top, local_bot,
                 tt, old_block, next_old_block, old_to_retire>>

(* Lines 206-214: the walk is over (b is assumed to be the desired block). *)
(* A null b makes the assertion of line 206 dereference nullptr: the       *)
(* thread stops in "crash".  At offset 0, when b is not t and t is the     *)
(* block just before, the thief retires t; otherwise it reads the slot.    *)
(* Mutant of RetireCond: retire whenever tail is behind the block before  *)
(* the desired one (spec.md 9(c) calls this merely less eager).            *)
RetireCond_lax(th) ==
  /\ OffsetOf(old_top[th]) = 0
  /\ cur[th] # tt[th]
  /\ bid[tt[th]] <= Desired(th) - 1

RetireCond(th) ==
  /\ OffsetOf(old_top[th]) = 0
  /\ cur[th] # tt[th]
  /\ bid[tt[th]] = Desired(th) - 1

get_tail_walk_done(th) ==
  /\ InBackLoop(th)
  /\ ~BackCond(th)
  /\ Goto(th, CASE cur[th] = Nil -> "crash"
                [] RetireCond(th) -> "ret_tail"
                [] OTHER -> "read")
  /\ UNCHANGED <<bot, top, pushed, taken, slot, ca, owner, old_top, local_bot,
                 tt, cur, old_block, next_old_block, old_to_retire>>

(* Line 216 and line 70-71: read the slot of block b and return it from    *)
(* pop_top.                                                                *)
get_tail_read_slot(th) ==
  /\ tpc[th] = "read"
  /\ Return(data[cur[th]][OffsetOf(old_top[th])])
  /\ Idle(th)
  /\ UNCHANGED <<bot, top, pushed, slot, ca, owner>>

(* ca_retire_last_block lines 99-101: old_block = tail; next_old_block =   *)
(* old_block->next.                                                        *)
retire_read_tail(th) ==
  /\ tpc[th] = "ret_tail"
  /\ old_block' = [old_block EXCEPT ![th] = tail]
  /\ next_old_block' = [next_old_block EXCEPT ![th] = next[tail]]
  /\ Goto(th, "ret_cas")
  /\ UNCHANGED <<bot, top, pushed, taken, slot, ca, owner, old_top, local_bot,
                 tt, cur, old_to_retire>>

(* Line 104: CAS tail from old_block to next_old_block.  Only the success  *)
(* outcome is an action: the failure branch (lines 105-111) needs tail to  *)
(* move between lines 99 and 104, which RetireBehindTail shows no run of   *)
(* the deque does.                                                         *)
retire_cas_tail(th) ==
  /\ tpc[th] = "ret_cas"
  /\ tail = old_block[th]
  /\ tail' = next_old_block[th]
  /\ Goto(th, "ret_push_rd")
  /\ UNCHANGED <<bot, top, pushed, taken, slot, links, prev, to_retire, owner,
                 old_top, local_bot, tt, cur, old_block, next_old_block,
                 old_to_retire>>

(* Lines 118-119: old_to_retire = to_retire; old_block->prev =             *)
(* old_to_retire (prev is reused as the retire-stack link).                *)
(* Mutant of retire_push_read: the retired block's prev is cleared        *)
(* instead of linked to old_to_retire.                                     *)
retire_push_read_unlinked(th) ==
  /\ tpc[th] = "ret_push_rd"
  /\ old_to_retire' = [old_to_retire EXCEPT ![th] = to_retire]
  /\ prev' = [prev EXCEPT ![old_block[th]] = Nil]
  /\ Goto(th, "ret_push_cas")
  /\ UNCHANGED <<bot, top, pushed, taken, slot, links, tail, to_retire, owner,
                 old_top, local_bot, tt, cur, old_block, next_old_block>>

retire_push_read(th) ==
  /\ tpc[th] = "ret_push_rd"
  /\ old_to_retire' = [old_to_retire EXCEPT ![th] = to_retire]
  /\ prev' = [prev EXCEPT ![old_block[th]] = to_retire]
  /\ Goto(th, "ret_push_cas")
  /\ UNCHANGED <<bot, top, pushed, taken, slot, links, tail, to_retire, owner,
                 old_top, local_bot, tt, cur, old_block, next_old_block>>

(* Line 120: CAS to_retire from old_to_retire to old_block; retry on       *)
(* failure.  After the push get_tail goes on to read the slot.             *)
retire_push_cas(th) ==
  /\ tpc[th] = "ret_push_cas"
  /\ \/ /\ to_retire = old_to_retire[th]
        /\ to_retire' = old_block[th]
        /\ Goto(th, "read")
     \/ /\ to_retire # old_to_retire[th]
        /\ Goto(th, "ret_push_rd")
        /\ UNCHANGED to_retire
  /\ UNCHANGED <<bot, top, pushed, taken, slot, links, prev, tail, owner,
                 old_top, local_bot, tt, cur, old_block, next_old_block,
                 old_to_retire>>

-----------------------------------------------------------------------------
OwnerNext ==
  \/ push_bottom
  \/ pop_bottom_decr
  \/ pop_bottom_take
  \/ pop_bottom_last
  \/ pop_bottom_empty
  \/ pop_bottom_cas
  \/ pop_bottom_restore

ThiefNext(th) ==
  \/ pop_top_read_top(th)
  \/ pop_top_empty(th)
  \/ pop_top_read_bot(th)
  \/ pop_top_cas_win(th)
  \/ pop_top_cas_lose(th)
  \/ get_tail_read_tail(th)
  \/ get_tail_walk_next(th)
  \/ get_tail_walk_prev(th)
  \/ get_tail_walk_done(th)
  \/ get_tail_read_slot(th)
  \/ retire_read_tail(th)
  \/ retire_cas_tail(th)
  \/ retire_push_read(th)
  \/ retire_push_cas(th)

Next == OwnerNext \/ \E th \in Thieves : ThiefNext(th)

Spec == Init /\ [][Next]_vars

-----------------------------------------------------------------------------
(***************************************************************************)
(* Refinement: the deque implements AbstractDeque.  The abstract sequence  *)
(* is slot[top .. RealBot - 1], where RealBot counts the slot the owner    *)
(* has provisionally removed by decrementing bot but not yet decided on   *)
(* (pop_bottom between lines 89 and 96).  A pop is counted as handed out   *)
(* from the step that claims it (the CAS on top, or the read of top when  *)
(* t < b), even though the value is read later.                            *)
(***************************************************************************)
RealBot == IF opc \in {"pb_top", "pb_cas"} THEN ob + 1 ELSE bot

AbsItems == [k \in 1..(RealBot - top) |-> slot[top + k - 1]]

ThiefClaimed(th) ==
  tpc[th] \notin {"idle", "rd_bot", "cas"}

AbsGot ==
  [v \in Values |->
     taken[v]
     + Cardinality({th \in Thieves : ThiefClaimed(th) /\ slot[old_top[th]] = v})
     + (IF opc = "pb_restore" /\ oval = v THEN 1 ELSE 0)]

Abs == INSTANCE AbstractDeque WITH items <- AbsItems, got <- AbsGot

(* Every interleaving of push_bottom, pop_bottom and pop_top behaves as an *)
(* atomic deque: no value is lost, duplicated or made up, the owner pops   *)
(* LIFO and thieves pop FIFO (P1-P3), and no value is returned twice when  *)
(* the owner and a thief race for the last item (lines 93-100 vs 68-71).   *)
DequeRefinement == Abs!Spec

(***************************************************************************)
(* Safety of the continuous array under concurrent retirement.             *)
(***************************************************************************)

(* The retire stack, following prev links from to_retire.                  *)
RECURSIVE ChainFrom(_, _)
ChainFrom(b, n) ==
  IF b = Nil \/ n = 0 THEN {} ELSE {b} \cup ChainFrom(prev[b], n - 1)

RetireStack == ChainFrom(to_retire, Cardinality(BlockIds))

(* get_tail lines 200-206: the walk from a freshly loaded tail, forward by *)
(* next and back by prev, always ends on the block holding the stolen      *)
(* index, even while other thieves retire blocks and relink their prev     *)
(* fields into the retire stack.  A miss is the assertion of line 206 or a *)
(* null dereference.                                                       *)
TailWalkFindsBlock ==
  \A th \in Thieves :
    tpc[th] \in {"read", "crash", "ret_tail", "ret_cas", "ret_push_rd",
                "ret_push_cas"}
      => cur[th] # Nil /\ bid[cur[th]] = Desired(th)

(* ca_retire_last_block only ever retires blocks behind the live tail: the *)
(* block a thief is retiring (assertion of line 113) and every block on    *)
(* the retire stack are older than tail, and the tail CAS of line 104 never *)
(* fails, so its retry loop (lines 105-111), which would retire whatever   *)
(* the failed CAS loaded, is never entered.                                *)
RetireBehindTail ==
  /\ \A th \in Thieves :
       /\ tpc[th] = "ret_cas" => tail = old_block[th] /\ next_old_block[th] # Nil
       /\ tpc[th] \in {"ret_push_rd", "ret_push_cas"} => bid[old_block[th]] < bid[tail]
  /\ \A b \in RetireStack : bid[b] < bid[tail]

(* The owner's one-link cursor moves are enough: put_head (line 241) and   *)
(* get_head (line 187) always end with block_in_use on the block of the    *)
(* index they access, whatever pushes, pops and steals came before.        *)
OwnerCursorOK ==
  [][/\ push_bottom => bid'[block_in_use'] = BlockOf(bot)
     /\ (pop_bottom_take \/ pop_bottom_last) => bid[block_in_use'] = BlockOf(ob)
    ]_vars

(* The assertion of pop_top line 67: the bot a thief loads is never more   *)
(* than one below the top it loaded before, even with the owner's         *)
(* transient decrement in pop_bottom.                                      *)
ThiefSeesI1 ==
  [][\A th \in Thieves :
       (tpc[th] = "rd_bot" /\ tpc'[th] # "rd_bot") => bot + 1 >= old_top[th]
    ]_vars

(***************************************************************************)
(* Claims of the spec and comments that the code does not keep.            *)
(***************************************************************************)

Quiescent == opc = "idle" /\ \A th \in Thieves : tpc[th] = "idle"

(* Comment of line 211 and spec section 3: once the thieves have moved     *)
(* past a block, the block is retired and tail follows them, so at rest    *)
(* tail is at most one block behind the last index popped.                 *)
TailFollowsTop ==
  Quiescent /\ top > 0 => bid[tail] + 1 >= BlockOf(top - 1)

(* Spec P4: a pop_top returning (v, true) leaves the deque empty at its    *)
(* linearization point, the CAS on top.                                    *)
EmptyFlagTruthful ==
  [][\A th \in Thieves :
       (pop_top_cas_win(th) /\ local_bot[th] = old_top[th] + 1)
         => RealBot' <= top'
    ]_vars
=============================================================================
