--------------------------- MODULE AbstractDeque ---------------------------
(***************************************************************************)
(* What the work-stealing deque promises (spec.md section 8, P1-P3): an    *)
(* atomic sequence of values, pushed and popped at the bottom by the owner *)
(* and popped at the top by thieves.  The k-th push pushes value k, so     *)
(* each value is pushed once; got counts how often each value has been     *)
(* handed to a caller.  A pop that finds nothing, or that loses a race,    *)
(* returns nullptr and changes nothing: a stuttering step.                 *)
(***************************************************************************)
EXTENDS Naturals, Sequences

CONSTANT MaxPush

VARIABLES items, pushed, got

Values == 1..MaxPush

Init ==
  /\ items = <<>>
  /\ pushed = 0
  /\ got = [v \in Values |-> 0]

PushBottom ==
  /\ pushed < MaxPush
  /\ items' = Append(items, pushed + 1)
  /\ pushed' = pushed + 1
  /\ UNCHANGED got

(* The owner takes the most recently pushed value still present (LIFO).    *)
PopBottom ==
  /\ items # <<>>
  /\ items' = SubSeq(items, 1, Len(items) - 1)
  /\ got' = [got EXCEPT ![items[Len(items)]] = @ + 1]
  /\ UNCHANGED pushed

(* A thief takes the oldest value still present (FIFO).                    *)
PopTop ==
  /\ items # <<>>
  /\ items' = Tail(items)
  /\ got' = [got EXCEPT ![Head(items)] = @ + 1]
  /\ UNCHANGED pushed

Next == PushBottom \/ PopBottom \/ PopTop

Spec == Init /\ [][Next]_<<items, pushed, got>>
=============================================================================
