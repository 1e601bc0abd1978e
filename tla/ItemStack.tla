------------------------------ MODULE ItemStack ------------------------------
(***************************************************************************)
(* What a dynamic array is to its users ("stack semantics", dynarr.h): a   *)
(* stack of items, in a memory that may run out.  A call for which it has  *)
(* run out leaves the items as they were.                                  *)
(***************************************************************************)
EXTENDS Integers, Sequences

CONSTANTS Items,
          Junk,     \* what is in memory that nobody has written
          MaxItems  \* a bound on the size

VARIABLES items,    \* the bottom first
          refused   \* did the last call run out of memory?

Init == items = <<>> /\ refused = FALSE

Refuse == refused' = TRUE /\ UNCHANGED items

Push(x) ==
  /\ items' = Append(items, x)
  /\ refused' = FALSE

\* On an empty array, pop does nothing.
Pop ==
  /\ items' = IF items = <<>> THEN items ELSE SubSeq(items, 1, Len(items) - 1)
  /\ refused' = FALSE

\* Items that were there stay; new ones are whatever the memory holds.
Resize(n) ==
  /\ items' \in Seq(Items \cup {Junk})
  /\ Len(items') = n
  /\ \A k \in 1..n : k <= Len(items) => items'[k] = items[k]
  /\ refused' = FALSE

Next == Refuse \/ Pop \/ (\E x \in Items : Push(x)) \/ \E n \in 0..MaxItems : Resize(n)

Spec == Init /\ [][Next]_<<items, refused>>

=============================================================================
