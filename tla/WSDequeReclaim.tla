--------------------------- MODULE WSDequeReclaim ---------------------------
(***************************************************************************)
(* The deque of WSDeque together with the owner's reclamation of retired   *)
(* blocks (continuous_array::free_retired and get_retired, part_000) and   *)
(* the destructors ~continuous_array and ~Deque.  free_retired takes the   *)
(* whole retire stack and pushes each block onto the owner's reuse list    *)
(* blocks_to_reuse, from which ca_alloc later takes its blocks, so a cell  *)
(* can come back with a new block_id, new links and the old values in its  *)
(* array.                                                                  *)
(*                                                                         *)
(* When free_retired may run is left to the caller (the comment of line   *)
(* 248; spec.md section "Reclamation timing").  Policy names the rule the  *)
(* caller follows, checked at the moment get_retired takes the stack:      *)
(*   "quiescent"  every thief is outside pop_top;                          *)
(*   "no_hazard"  no thief holds a pointer (t, b, old_block,               *)
(*                next_old_block of a running get_tail) to a block of the  *)
(*                retire stack: the hazard-pointer rule of spec.md 232.    *)
(***************************************************************************)
EXTENDS WSDeque, Functions

CONSTANT Policy

ASSUME Policy \in {"quiescent", "no_hazard"}

NumCells == Cardinality(Blocks)

(* The block pointers thief th still dereferences later in its call.      *)
Holds(th) ==
  CASE tpc[th] \in {"fwd", "back"}            -> {tt[th], cur[th]}
    [] tpc[th] \in {"read", "ret_tail"}       -> {cur[th]}
    [] tpc[th] = "ret_cas"                    -> {cur[th], old_block[th],
                                                  next_old_block[th]}
    [] tpc[th] \in {"ret_push_rd", "ret_push_cas"} -> {cur[th], old_block[th]}
    [] OTHER                                  -> {}

Held == UNION {Holds(th) : th \in Thieves} \ {Nil}

ReclaimAllowed ==
  IF Policy = "quiescent" THEN \A th \in Thieves : tpc[th] = "idle"
                          ELSE RetireStack \cap Held = {}

(* free_retired, lines 250-259: r = get_retired(), then every block of r,  *)
(* followed by prev, is pushed onto blocks_to_reuse (push_reuse_block,     *)
(* lines 65-66, which overwrites prev with the reuse link).                *)
RECURSIVE PushChain(_, _, _, _)
PushChain(r, pool, p, n) ==
  IF r = Nil \/ n = 0 THEN [pool |-> pool, prev |-> p]
  ELSE PushChain(p[r], r, [p EXCEPT ![r] = pool], n - 1)

(* get_retired line 131: old_to_retire = to_retire.  A null stack ends     *)
(* free_retired at once with nothing changed, a stuttering step.           *)
free_retired_read ==
  /\ opc = "idle"
  /\ to_retire # Nil
  /\ ofr' = to_retire
  /\ opc' = "fr_cas"
  /\ UNCHANGED <<bot, top, pushed, taken, slot, ca, ob, ot, oval, freed,
                 thief>>

(* Line 132: CAS to_retire from old_to_retire to nullptr, taken only when  *)
(* the caller's Policy allows; a failed CAS (a thief pushed meanwhile)     *)
(* reloads to_retire, which only the owner ever nulls.                     *)
(* Mutant of free_retired_cas: the CAS "succeeds" without nulling          *)
(* to_retire.                                                              *)
free_retired_cas_keep ==
  /\ opc = "fr_cas"
  /\ to_retire = ofr /\ ReclaimAllowed
  /\ opc' = "fr_check"
  /\ UNCHANGED <<bot, top, pushed, taken, slot, ca, ob, ot, oval, ofr, freed,
                 thief>>

free_retired_cas ==
  /\ opc = "fr_cas"
  /\ \/ /\ to_retire = ofr /\ ReclaimAllowed
        /\ to_retire' = Nil
        /\ opc' = "fr_check"
        /\ UNCHANGED ofr
     \/ /\ to_retire # ofr
        /\ ofr' = to_retire
        /\ UNCHANGED <<to_retire, opc>>
  /\ UNCHANGED <<bot, top, pushed, taken, slot, links, prev, tail, ob, ot,
                 oval, freed, thief>>

(* Lines 135-139, the assertion (one load of to_retire) and the return,    *)
(* then the reuse loop of lines 252-259, which touches owner-private       *)
(* state only and is one step.                                             *)
free_retired_check ==
  LET pc == PushChain(ofr, reuse, prev, NumCells) IN
  /\ opc = "fr_check"
  /\ reuse' = pc.pool
  /\ prev' = pc.prev
  /\ ofr' = Nil
  /\ opc' = "idle"
  /\ UNCHANGED <<bot, top, pushed, taken, slot, data, bid, next,
                 curr_block_id, head, block_in_use, mallocd, tail, to_retire,
                 ob, ot, oval, freed, thief>>

(* The blocks reached from b by prev, in order, at most n of them.         *)
RECURSIVE PrevWalk(_, _, _)
PrevWalk(b, p, n) ==
  IF b = Nil \/ n = 0 THEN <<>> ELSE <<b>> \o PrevWalk(p[b], p, n - 1)

(* ~continuous_array, lines 158-173: r = get_retired(); tail->prev = r;    *)
(* free every block from head along prev (the working set, then through   *)
(* tail into the retired blocks); then free the reuse list.  One more     *)
(* step than there are cells lets a cycle show up as a repeated block.     *)
(* Mutant of DestructorFrees: the retired list is not attached to tail    *)
(* (line 163 missing).                                                     *)
DestructorFrees_unattached ==
  PrevWalk(head, prev, NumCells + 1) \o PrevWalk(reuse, prev, NumCells + 1)

DestructorFrees ==
  LET p == [prev EXCEPT ![tail] = to_retire] IN
  PrevWalk(head, p, NumCells + 1) \o PrevWalk(reuse, p, NumCells + 1)

(* ~Deque (lines 43-45 of work_stealing_deque.h) deletes the array once    *)
(* no thread uses the deque any more.                                      *)
destroy ==
  /\ Quiescent
  /\ freed' = DestructorFrees
  /\ prev' = [prev EXCEPT ![tail] = to_retire]
  /\ head' = Nil /\ reuse' = Nil /\ to_retire' = Nil
  /\ opc' = "destroyed"
  /\ UNCHANGED <<bot, top, pushed, taken, slot, data, bid, next,
                 curr_block_id, block_in_use, mallocd, tail, ob, ot, oval,
                 ofr, thief>>

ReclaimOwnerNext ==
  \/ OwnerNext
  \/ free_retired_read
  \/ free_retired_cas
  \/ free_retired_check
  \/ destroy

ReclaimNext ==
  \/ ReclaimOwnerNext
  \/ opc # "destroyed" /\ \E th \in Thieves : ThiefNext(th)

ReclaimSpec == Init /\ [][ReclaimNext]_vars

-----------------------------------------------------------------------------
(* The working set: the blocks from head back along prev to tail.          *)
RECURSIVE LiveChain(_, _)
LiveChain(b, n) ==
  IF b = Nil \/ n = 0 THEN {}
  ELSE IF b = tail THEN {b} ELSE {b} \cup LiveChain(prev[b], n - 1)

LiveBlocks == LiveChain(head, NumCells)

ReusePool == ChainFrom(reuse, NumCells)

(* The assertion of get_retired, lines 135-137: blocks retired after the   *)
(* owner took the stack are younger than every block it took, so the two   *)
(* lists never interleave.                                                 *)
GetRetiredOrder ==
  [][free_retired_check => to_retire = Nil \/ bid[to_retire] > bid[ofr]]_vars

(* free_retired hands ca_alloc only dead blocks: no block on the reuse     *)
(* list is in the working set, on the retire stack, the owner's cursor,    *)
(* or held by a thief in the middle of get_tail.                           *)
ReuseNotInUse ==
  opc # "destroyed" =>
    ReusePool \cap (LiveBlocks \cup RetireStack \cup Held \cup {block_in_use})
      = {}

(* ~continuous_array frees every block ever malloc'd, and each once: the   *)
(* walk from head through tail and the retired blocks and the walk of the  *)
(* reuse list together cover all cells without repetition.                *)
DestructorFreesOnce ==
  opc = "destroyed" =>
    IsInjective(freed) /\ Range(freed) = 0..(mallocd - 1)

(* get_tail's loops (lines 200 and 205) terminate because next leads to a  *)
(* larger block_id and prev to a smaller one (the field comments of lines  *)
(* 30-31).  A thief that walks prev into a block that has been reclaimed   *)
(* and reused meets a larger block_id and can go round forever.            *)
WalkMonotone ==
  [][\A th \in Thieves :
       /\ (get_tail_walk_next(th) =>
             (cur'[th] = Nil \/ bid[cur'[th]] > bid[cur[th]]))
       /\ (get_tail_walk_prev(th) =>
             (cur'[th] = Nil \/ bid[cur'[th]] < bid[cur[th]]))
    ]_vars
=============================================================================
