-------------------------------- MODULE DynArr --------------------------------
(***************************************************************************)
(* The dynamic array (src/dynarr.c) that holds a manager's resources and   *)
(* the descriptors it waits for: capacity doubles when a push finds the    *)
(* array full and is halved when a pop finds it a third full or less;      *)
(* either may fail for want of memory.  Sizes are far from 2^31, and       *)
(* szelem, which only scales them, is left out.                            *)
(***************************************************************************)
EXTENDS Integers, Sequences

CONSTANTS Items, Junk, MaxItems

ASSUME ArrayAssumption == MaxItems \in Nat /\ Junk \notin Items

VARIABLES buf,              \* the allocated memory, one entry per element
          nelem, max_elem,  \* as in struct arrdesc
          refused           \* history: did the last call fail to allocate?

arrayVars == <<buf, nelem, max_elem, refused>>

\* Mutant: new memory, into which nothing is copied.
Realloc_Fresh(n) == [k \in 1..n |-> Junk]

\* Memory of n elements that begins as buf does; of a new array, all junk.
Realloc(n) == [k \in 1..n |-> IF k <= Len(buf) THEN buf[k] ELSE Junk]

\* dynarr_alloc(0, ...), as all of src/ calls it.
ArrayInit == buf = <<>> /\ nelem = 0 /\ max_elem = 0 /\ refused = FALSE

\* No memory: the array stays as it is.  dynarr_resize says so, push and pop
\* do not.
Fail == refused' = TRUE /\ UNCHANGED <<buf, nelem, max_elem>>

Resize(n) ==
  \/ /\ buf' = Realloc(n)
     /\ nelem' = n
     /\ max_elem' = n
     /\ refused' = FALSE
  \/ Fail

\* Is there no room for one more?
Grows == nelem >= max_elem
GrownSize == IF max_elem # 0 THEN max_elem * 2 ELSE 1

Push(x) ==
  /\ nelem < MaxItems
  /\ \/ /\ ~Grows
        /\ buf' = [buf EXCEPT ![nelem + 1] = x]
        /\ nelem' = nelem + 1 /\ refused' = FALSE
        /\ UNCHANGED max_elem
     \/ /\ Grows
        /\ buf' = [Realloc(GrownSize) EXCEPT ![nelem + 1] = x]
        /\ max_elem' = GrownSize
        /\ nelem' = nelem + 1 /\ refused' = FALSE
     \/ Grows /\ Fail

\* Mutant: never shrinks.
Shrinks_Never == FALSE

Shrinks == nelem <= max_elem \div 3
ShrunkSize == max_elem \div 2

\* If it cannot be shrunk the last element stays.
Pop ==
  \/ nelem = 0 /\ refused' = FALSE /\ UNCHANGED <<buf, nelem, max_elem>>
  \/ /\ nelem # 0 /\ ~Shrinks
     /\ nelem' = nelem - 1 /\ refused' = FALSE
     /\ UNCHANGED <<buf, max_elem>>
  \/ /\ nelem # 0 /\ Shrinks
     /\ buf' = Realloc(ShrunkSize)
     /\ max_elem' = ShrunkSize
     /\ nelem' = nelem - 1 /\ refused' = FALSE
  \/ nelem # 0 /\ Shrinks /\ Fail

ArrayNext ==
  (\E x \in Items : Push(x)) \/ Pop \/ \E n \in 0..MaxItems : Resize(n)

ArraySpec == ArrayInit /\ [][ArrayNext]_arrayVars

-----------------------------------------------------------------------------
\* The elements lie inside the memory, and never take less than a third of
\* it, whatever was pushed, popped and refused: the two thresholds, a half and
\* a third, and their rounding fit each other (dynarr.c:94-96, 124-127).
Fits ==
  /\ max_elem = Len(buf)
  /\ max_elem \div 3 <= nelem /\ nelem <= max_elem

\* The elements, and nothing of the junk above them.
Elements == SubSeq(buf, 1, nelem)

Abstract == INSTANCE ItemStack WITH items <- Elements

\* Growing and shrinking keep every element and its place, and a call that has
\* no memory has no effect (dynarr.c:99-101, 129-131).
ImplementsItemStack == Abstract!Spec

=============================================================================
