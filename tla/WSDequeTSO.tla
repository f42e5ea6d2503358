------------------------------ MODULE WSDequeTSO -----------------------------
(***************************************************************************)
(* The deque of WSDeque on a machine with store buffers (x86-TSO), the     *)
(* weakest memory the relaxed accesses of work_stealing_deque.h are        *)
(* compiled to on x86.  The owner's stores to bot at lines 89, 99 and 103  *)
(* are relaxed plain stores: they enter the owner's FIFO store buffer sb   *)
(* and reach memory later, in order (flush).  The owner's own loads of bot *)
(* read its newest buffered store.  The seq_cst fence of line 90 and the   *)
(* locked CAS of line 96 wait until sb is empty; so does the seq_cst store *)
(* of push_bottom (line 54), which also puts the slot store of line 242,   *)
(* buffered before it, into memory first.  Thieves have no stores to       *)
(* buffer before their loads (their only write is a locked CAS), and x86   *)
(* keeps loads in order, so their steps are those of WSDeque.              *)
(***************************************************************************)
EXTENDS WSDeque

CONSTANT SBSize      \* entries of the store buffer the owner can fill

ASSUME SBSize \in Nat \ {0}

VARIABLE sb          \* the owner's buffered stores to bot, oldest first

tvars == <<vars, sb>>

(* Line 83 (and 51): the owner's load of bot forwards from its buffer.     *)
OwnerBot == IF sb = <<>> THEN bot ELSE sb[Len(sb)]

(* A relaxed store of bot enters the buffer; the core stalls when it is    *)
(* full.                                                                   *)
BufferBot(v) == Len(sb) < SBSize /\ sb' = Append(sb, v)

(* The oldest buffered store reaches memory.                               *)
flush ==
  /\ sb # <<>>
  /\ bot' = Head(sb)
  /\ sb' = Tail(sb)
  /\ UNCHANGED <<top, pushed, taken, slot, ca, owner, thief>>

(* Line 90: the seq_cst fence (mfence) lets the load of top at line 91    *)
(* happen only once the buffer has drained.                                *)
(* Mutant of Fence: the fence of line 90 left out.                         *)
Fence_dropped == TRUE

Fence == sb = <<>>

(* A locked instruction (the CAS of line 96, the seq_cst store of line 54) *)
(* drains the buffer first.                                                *)
Drained == sb = <<>>

tso_push_bottom == Drained /\ push_bottom /\ UNCHANGED sb

(* Mutant of tso_pop_bottom_decr: the b == 0 early return of line 84     *)
(* dropped.                                                                *)
tso_pop_bottom_decr_unguarded ==
  /\ opc = "idle"
  /\ ob' = OwnerBot - 1
  /\ BufferBot(OwnerBot - 1)
  /\ opc' = "pb_top"
  /\ UNCHANGED <<bot, top, pushed, taken, slot, ca, ot, oval, ofr, freed,
                 thief>>

(* Lines 83-89: b = bot (from the buffer); b == 0 returns; bot = b - 1 is  *)
(* buffered.                                                               *)
tso_pop_bottom_decr ==
  /\ opc = "idle"
  /\ OwnerBot > 0
  /\ ob' = OwnerBot - 1
  /\ BufferBot(OwnerBot - 1)
  /\ opc' = "pb_top"
  /\ UNCHANGED <<bot, top, pushed, taken, slot, ca, ot, oval, ofr, freed,
                 thief>>

tso_pop_bottom_take  == Fence /\ pop_bottom_take /\ UNCHANGED sb
tso_pop_bottom_last  == Fence /\ pop_bottom_last /\ UNCHANGED sb
tso_pop_bottom_empty == Fence /\ pop_bottom_empty /\ UNCHANGED sb
tso_pop_bottom_cas   == Drained /\ pop_bottom_cas /\ UNCHANGED sb

(* Lines 99/103: bot = b + 1 is buffered; val is returned.                 *)
tso_pop_bottom_restore ==
  /\ opc = "pb_restore"
  /\ BufferBot(ob + 1)
  /\ IF oval # Nil THEN Return(oval) ELSE UNCHANGED taken
  /\ opc' = "idle" /\ ob' = 0 /\ ot' = 0 /\ oval' = Nil
  /\ UNCHANGED <<bot, top, pushed, slot, ca, ofr, freed, thief>>

TSOInit == Init /\ sb = <<>>

TSOOwnerNext ==
  \/ tso_push_bottom
  \/ tso_pop_bottom_decr
  \/ tso_pop_bottom_take
  \/ tso_pop_bottom_last
  \/ tso_pop_bottom_empty
  \/ tso_pop_bottom_cas
  \/ tso_pop_bottom_restore

TSONext ==
  \/ TSOOwnerNext
  \/ flush
  \/ \E th \in Thieves : ThiefNext(th) /\ UNCHANGED sb

TSOSpec == TSOInit /\ [][TSONext]_tvars

-----------------------------------------------------------------------------
(* The deque as the owner sees it: its bot is the newest buffered store.   *)
TSORealBot == IF opc \in {"pb_top", "pb_cas"} THEN ob + 1 ELSE OwnerBot

TSOAbsItems == [k \in 1..(TSORealBot - top) |-> slot[top + k - 1]]

TSOAbs == INSTANCE AbstractDeque WITH items <- TSOAbsItems, got <- AbsGot

(* With bot's stores delayed in the store buffer, every interleaving of    *)
(* push_bottom, pop_bottom and pop_top still behaves as an atomic deque:   *)
(* in particular the owner and a thief never both take the same item,      *)
(* which relies on the fence of line 90 making the decrement of bot       *)
(* visible before the owner loads top.                                     *)
TSORefinement == TSOAbs!Spec

TSOTypeOK == TypeOK /\ sb \in Seq(0..MaxPush) /\ Len(sb) <= SBSize
=============================================================================
