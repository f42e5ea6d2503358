----------------------------- MODULE WSDequeRC11 -----------------------------
(***************************************************************************)
(* The deque of WSDeque under the C++ memory model's rules for the slot    *)
(* accesses, which are all relaxed: the store of put_head (part_000 line   *)
(* 242), and the loads of get_head (line 188) and get_tail (line 216).     *)
(* A relaxed load may return any store to its location that is not older  *)
(* than what the loading thread has already seen (its view); a thread's   *)
(* view only grows when it reads, with acquire, a value published by a     *)
(* release store, by a store after a release fence, or by a release RMW.  *)
(*                                                                         *)
(* Each slot location keeps its history of stores (hist; position 1 is the *)
(* uninitialised cell, Nil).  A view maps each location to the oldest      *)
(* position a thread may still read.  The owner is the only writer of     *)
(* slots, so its view is always the newest store (Latest).  The value of   *)
(* bot carries the view its last store published (botview), as does top   *)
(* (topview).  bot, top and the block links keep the sequentially          *)
(* consistent interleaving of WSDeque: only the slots are weak.            *)
(*                                                                         *)
(* The owner's relaxed stores to bot (lines 89, 99, 103) follow the       *)
(* C++11-17 rule: a relaxed store by the thread that made the last release *)
(* store to bot continues that store's release sequence, so a thief that   *)
(* reads it synchronizes with the release store.  C++20 (P0982) dropped    *)
(* that rule; RelaxedBotView_cxx20 is the owner under it.                  *)
(***************************************************************************)
EXTENDS WSDeque

VARIABLES
  hist,       \* the stores to each slot location, oldest first
  tview,      \* each thief's view of the slot locations
  botview,    \* the view published with the current value of bot
  topview,    \* the view published with the current value of top
  fenceview,  \* the owner's view at its last seq_cst fence (line 90)
  relview     \* the owner's view at its last release store to bot (line 54)

views == <<hist, tview, botview, topview, fenceview, relview>>
rvars == <<vars, views>>

(* Besides its slots, a block has two plain header locations: block_id    *)
(* with prev (IdLoc), and next (NextLoc).  The owner writes them in        *)
(* ca_alloc; a retiring thief's write of prev (line 119) is not tracked.   *)
IdLoc   == BS
NextLoc == BS + 1

Locs == Blocks \X (Offsets \cup {IdLoc, NextLoc})

Join(v, w) == [l \in Locs |-> IF v[l] >= w[l] THEN v[l] ELSE w[l]]

(* The owner wrote every slot store, so it sees the newest of each.        *)
Latest == [l \in Locs |-> Len(hist[l])]

Oldest == [l \in Locs |-> 1]

RCInit ==
  /\ Init
  /\ hist = [l \in Locs |-> <<Nil>>]
  /\ tview = [th \in Thieves |-> Oldest]
  /\ botview = Oldest /\ topview = Oldest
  /\ fenceview = Oldest /\ relview = Oldest

(***************************************************************************)
(* Owner.                                                                  *)
(***************************************************************************)

(* The same store under C++20: it publishes only the view of the owner's   *)
(* last release fence.                                                     *)
RelaxedBotView_cxx20 == fenceview

(* Lines 89, 99, 103: a relaxed store of bot publishes the view of the     *)
(* owner's last release fence, and, as part of the release sequence of    *)
(* the last release store to bot, that store's view.                       *)
RelaxedBotView == Join(fenceview, relview)

(* Mutant of PublishBot: the store of line 54 made relaxed.               *)
PublishBot_relaxed ==
  /\ botview' = RelaxedBotView
  /\ UNCHANGED relview

(* Line 54: the seq_cst store of bot is a release store: it publishes the  *)
(* owner's view, which includes the slot store of line 242 before it.      *)
PublishBot ==
  /\ botview' = Latest'
  /\ relview' = Latest'

(* ca_alloc, lines 87-91: the new block's block_id, prev and next, and    *)
(* the old head's next.                                                    *)
AllocWrites ==
  IF NeedsAlloc(bot)
    THEN {<<head', IdLoc>>, <<head', NextLoc>>, <<head, NextLoc>>}
    ELSE {}

(* push_bottom: put_head (with ca_alloc at a new block, and the relaxed    *)
(* slot store of line 242), then line 54.                                  *)
rc_push_bottom ==
  /\ push_bottom
  /\ hist' = [l \in Locs |->
                CASE l = <<block_in_use', OffsetOf(bot)>> -> Append(hist[l], pushed + 1)
                  [] l \in AllocWrites -> Append(hist[l], Nil)
                  [] OTHER -> hist[l]]
  /\ PublishBot
  /\ UNCHANGED <<tview, topview, fenceview>>

(* Lines 89-90: the relaxed store of b - 1, then the seq_cst fence.       *)
rc_pop_bottom_decr ==
  /\ pop_bottom_decr
  /\ botview' = RelaxedBotView
  /\ fenceview' = Latest
  /\ UNCHANGED <<hist, tview, topview, relview>>

(* Lines 91-95, 101-102: the owner reads its own newest slot store.        *)
rc_pop_bottom_take  == pop_bottom_take  /\ UNCHANGED views
rc_pop_bottom_last  == pop_bottom_last  /\ UNCHANGED views
rc_pop_bottom_empty == pop_bottom_empty /\ UNCHANGED views

(* Line 96: a successful seq_cst CAS is a release RMW on top; the failure  *)
(* order is relaxed.                                                       *)
rc_pop_bottom_cas ==
  /\ pop_bottom_cas
  /\ topview' = IF top' # top THEN Latest ELSE topview
  /\ UNCHANGED <<hist, tview, botview, fenceview, relview>>

(* Lines 99/103: the relaxed store of b + 1, after the fence of line 90.   *)
rc_pop_bottom_restore ==
  /\ pop_bottom_restore
  /\ botview' = RelaxedBotView
  /\ UNCHANGED <<hist, tview, topview, fenceview, relview>>

(***************************************************************************)
(* Thieves.                                                                *)
(***************************************************************************)

(* An acquire load (or RMW) of a value that published view v.             *)
Acquire(th, v) == tview' = [tview EXCEPT ![th] = Join(@, v)]

NoPublish == UNCHANGED <<hist, botview, topview, fenceview, relview>>

(* Line 64: top is loaded with acquire.                                    *)
rc_pop_top_read_top(th) ==
  pop_top_read_top(th) /\ Acquire(th, topview) /\ NoPublish

(* Mutant of rc_pop_top_read_bot: the load of bot at line 66 relaxed.     *)
rc_pop_top_read_bot_relaxed(th) ==
  pop_top_read_bot(th) /\ UNCHANGED views

(* Line 66: bot is loaded with acquire.                                    *)
rc_pop_top_empty(th) ==
  pop_top_empty(th) /\ Acquire(th, botview) /\ NoPublish

rc_pop_top_read_bot(th) ==
  pop_top_read_bot(th) /\ Acquire(th, botview) /\ NoPublish

(* Line 69: the seq_cst CAS reads top with acquire; on success it is a     *)
(* release RMW, which keeps the view top already carried.                  *)
rc_pop_top_cas_win(th) ==
  /\ pop_top_cas_win(th)
  /\ Acquire(th, topview)
  /\ topview' = tview'[th]
  /\ UNCHANGED <<hist, botview, fenceview, relview>>

rc_pop_top_cas_lose(th) ==
  pop_top_cas_lose(th) /\ Acquire(th, topview) /\ NoPublish

(* The location get_tail reads: slot old_top of the block the walk found. *)
ReadLoc(th) == <<cur[th], OffsetOf(old_top[th])>>

(* Line 216: a relaxed load returns any store to the slot that the thief's *)
(* view does not rule out, and the thief's view moves up to it.            *)
rc_get_tail_read_slot(th) ==
  LET l == ReadLoc(th) IN
  /\ tpc[th] = "read"
  /\ \E i \in tview[th][l]..Len(hist[l]) :
       /\ Return(hist[l][i])
       /\ tview' = [tview EXCEPT ![th][l] = i]
  /\ Idle(th)
  /\ UNCHANGED <<bot, top, pushed, slot, ca, owner>>
  /\ NoPublish

(* The get_tail walk and ca_retire_last_block touch no slot.              *)
rc_thief_link_step(th) ==
  /\ \/ get_tail_read_tail(th)
     \/ get_tail_walk_next(th)
     \/ get_tail_walk_prev(th)
     \/ get_tail_walk_done(th)
     \/ retire_read_tail(th)
     \/ retire_cas_tail(th)
     \/ retire_push_read(th)
     \/ retire_push_cas(th)
  /\ UNCHANGED views

RCThiefNext(th) ==
  \/ rc_pop_top_read_top(th)
  \/ rc_pop_top_empty(th)
  \/ rc_pop_top_read_bot(th)
  \/ rc_pop_top_cas_win(th)
  \/ rc_pop_top_cas_lose(th)
  \/ rc_get_tail_read_slot(th)
  \/ rc_thief_link_step(th)

RCOwnerNext ==
  \/ rc_push_bottom
  \/ rc_pop_bottom_decr
  \/ rc_pop_bottom_take
  \/ rc_pop_bottom_last
  \/ rc_pop_bottom_empty
  \/ rc_pop_bottom_cas
  \/ rc_pop_bottom_restore

RCNext == RCOwnerNext \/ \E th \in Thieves : RCThiefNext(th)

RCSpec == RCInit /\ [][RCNext]_rvars

-----------------------------------------------------------------------------
RCTypeOK ==
  /\ TypeOK
  /\ hist \in [Locs -> Seq(Values \cup {Nil})]
  /\ tview \in [Thieves -> [Locs -> 1..(MaxPush + 2)]]
  /\ {botview, topview, fenceview, relview} \subseteq [Locs -> 1..(MaxPush + 2)]

(* spec.md, Ordering guarantees: for every successful pop_top returning v, *)
(* the push_bottom(v) happens-before it.  When a thief that won its CAS    *)
(* on top reads the slot (line 216), its view already holds the newest     *)
(* store to that slot, so the relaxed load cannot return an older value   *)
(* or the uninitialised cell.                                              *)
StealSynchronizedWithPush ==
  \A th \in Thieves :
    tpc[th] = "read" => tview[th][ReadLoc(th)] = Len(hist[ReadLoc(th)])

(* The header locations a thief's next step reads: block_id of the block  *)
(* its walk is at (lines 200, 205), next when it steps forward (line 200), *)
(* and next of tail in ca_retire_last_block (line 101).                    *)
HeaderReads(th) ==
  CASE tpc[th] = "fwd" /\ FwdCond(th) -> {<<cur[th], IdLoc>>, <<cur[th], NextLoc>>}
    [] tpc[th] \in {"fwd", "back"} /\ cur[th] # Nil -> {<<cur[th], IdLoc>>}
    [] tpc[th] = "ret_tail" -> {<<tail, NextLoc>>}
    [] OTHER -> {}

(* get_tail dereferences the block it loaded from tail with a relaxed load *)
(* (line 197) and the blocks it reaches through next and prev: the owner's *)
(* plain stores that initialised them in ca_alloc must happen-before these *)
(* reads, or they race (line 204: "check this with relaxed memory          *)
(* models").                                                               *)
BlockInitVisible ==
  \A th \in Thieves : \A l \in HeaderReads(th) : tview[th][l] = Len(hist[l])
=============================================================================
