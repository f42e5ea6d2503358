------------------------------ MODULE DequeTest ------------------------------
(***************************************************************************)
(* The concurrent unit test TestParlayDequeConcurrent (test_deque.cpp,     *)
(* lines 42-101) run against the deque of WSDeque.  The main thread pushes *)
(* the values 1..sz-1 (here 1..MaxPush) and then releases the other        *)
(* threads through the flag wait.  Thread 0 is the owner: it calls         *)
(* pop_bottom until one returns nullptr.  Every other thread is a thief:   *)
(* it calls pop_top until one returns the flag empty = true.  The main     *)
(* thread joins them all and checks that every pushed value was popped    *)
(* exactly once.                                                           *)
(***************************************************************************)
EXTENDS WSDeque

VARIABLES
  phase,      \* main thread: "fill", "run" (wait is true), "joined"
  ostop,      \* the owner's loop has ended
  tstop       \* each thief's loop has ended

testvars == <<phase, ostop, tstop>>
xvars == <<vars, testvars>>

TestInit ==
  /\ Init
  /\ phase = "fill"
  /\ ostop = FALSE
  /\ tstop = [th \in Thieves |-> FALSE]

(* Lines 46-49: the main thread, as owner, pushes 1..sz-1 before the other *)
(* threads start.                                                          *)
test_fill ==
  /\ phase = "fill"
  /\ push_bottom
  /\ UNCHANGED testvars

(* Line 81: wait.store(true), once all values are pushed.                  *)
test_start ==
  /\ phase = "fill"
  /\ pushed = MaxPush
  /\ phase' = "run"
  /\ UNCHANGED <<vars, ostop, tstop>>

(* Lines 82-84: join every thread.                                         *)
test_join ==
  /\ phase = "run"
  /\ ostop /\ \A th \in Thieves : tstop[th]
  /\ phase' = "joined"
  /\ UNCHANGED <<vars, ostop, tstop>>

(* Lines 63-68: the owner's loop.  A pop_bottom that returns nullptr at    *)
(* lines 99-105 (val reset by a lost CAS, or the deque found empty) ends   *)
(* it; every other return stores the value and calls again.  The b == 0   *)
(* return of line 85 never happens here: at least one value is pushed,    *)
(* and from then on bot never falls below top except inside pop_bottom.   *)
TestOwnerNext ==
  /\ phase = "run"
  /\ ~ostop
  /\ \/ /\ \/ pop_bottom_decr
           \/ pop_bottom_take
           \/ pop_bottom_last
           \/ pop_bottom_empty
           \/ pop_bottom_cas
        /\ UNCHANGED testvars
     \/ /\ pop_bottom_restore
        /\ ostop' = (oval = Nil)
        /\ UNCHANGED <<phase, tstop>>

(* The flag pop_top returns: true at line 76 (bot <= old_top), else       *)
(* local_bot == old_top + 1 (lines 71 and 73).                             *)
PopTopEmptyFlag(th) ==
  tpc[th] = "rd_bot" \/ local_bot[th] = old_top[th] + 1

(* Lines 71-77: a thief's loop; it ends on the first pop_top that returns *)
(* empty = true.  A call returns on the step that makes the thief idle.    *)
test_thief_step(th) ==
  /\ phase = "run"
  /\ ~tstop[th]
  /\ ThiefNext(th)
  /\ tstop' = IF tpc'[th] = "idle"
                THEN [tstop EXCEPT ![th] = PopTopEmptyFlag(th)]
                ELSE tstop
  /\ UNCHANGED <<phase, ostop>>

TestNext ==
  \/ test_fill
  \/ test_start
  \/ test_join
  \/ TestOwnerNext
  \/ \E th \in Thieves : test_thief_step(th)

TestSpec == TestInit /\ [][TestNext]_xvars

-----------------------------------------------------------------------------
(* The assertions of lines 94-97: once the threads are joined, every value *)
(* pushed was popped exactly once, by the owner or by a thief, although    *)
(* each loop stopped on its own view of emptiness.                         *)
TestPopsAll ==
  phase = "joined" => \A v \in Values : taken[v] = 1
=============================================================================
