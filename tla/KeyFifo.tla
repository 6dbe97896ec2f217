------------------------------- MODULE KeyFifo -------------------------------
(***************************************************************************)
(* What the key queue promises: keys come out in the order they went in,   *)
(* each at most once, and a key is refused only when Capacity keys wait.   *)
(***************************************************************************)
EXTENDS Naturals, Sequences

CONSTANTS Capacity, Keys

VARIABLES
  queue, \* keys that wait to be read
  got    \* what the last reader returned with

vars == <<queue, got>>

Init == queue = <<>> /\ got = 0

Put(c) ==
  /\ Len(queue) < Capacity
  /\ queue' = Append(queue, c)
  /\ UNCHANGED got

Get ==
  /\ queue # <<>>
  /\ queue' = Tail(queue)
  /\ got' = Head(queue)

\* A reader that does not wait finds nothing.
Nothing == queue = <<>> /\ got' = 0 /\ UNCHANGED queue

Next == (\E c \in Keys : Put(c)) \/ Get \/ Nothing

Spec == Init /\ [][Next]_vars
=============================================================================
