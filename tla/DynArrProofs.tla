----------------------------- MODULE DynArrProofs -----------------------------
(***************************************************************************)
(* Proofs about the dynamic array: its elements fit, and it is the stack   *)
(* that ItemStack specifies.                                               *)
(***************************************************************************)
EXTENDS DynArr, SequenceTheorems, TLAPS

ArrayType ==
  /\ buf \in Seq(Items \cup {Junk})
  /\ nelem \in Nat /\ max_elem \in Nat
  /\ refused \in BOOLEAN

ArrayInv == ArrayType /\ Fits

\* What realloc returns has the length that was asked for, and begins as the
\* old memory does.
LEMMA ReallocIsSeq ==
  ASSUME ArrayType, NEW n \in Nat
  PROVE  /\ Realloc(n) \in Seq(Items \cup {Junk})
         /\ Len(Realloc(n)) = n
         /\ \A k \in 1..n : k <= Len(buf) => Realloc(n)[k] = buf[k]
<1> DEFINE f == [k \in 1..n |-> IF k <= Len(buf) THEN buf[k] ELSE Junk]
<1>1. \A k \in 1..n : (IF k <= Len(buf) THEN buf[k] ELSE Junk) \in Items \cup {Junk}
  BY DEF ArrayType
<1>2. f \in Seq(Items \cup {Junk}) /\ Len(f) = n
  BY <1>1
<1> QED  BY <1>2 DEF Realloc

\* A half and a third fit each other: below the threshold of pop one element
\* less still fits, and so does it in half the memory; what push doubles is not
\* too large.
LEMMA PopThreshold ==
  ASSUME NEW m \in Nat, NEW n \in Nat, n <= m, m \div 3 <= n, n # 0
  PROVE  /\ n - 1 \in Nat /\ n - 1 <= m /\ m \div 2 \in Nat
         /\ ~(n <= m \div 3) => m \div 3 <= n - 1
         /\ n <= m \div 3 => n - 1 <= m \div 2 /\ (m \div 2) \div 3 <= n - 1
OBVIOUS

LEMMA PushThreshold ==
  ASSUME NEW m \in Nat, NEW n \in Nat, n <= m, m \div 3 <= n
  PROVE  LET g == IF m # 0 THEN m * 2 ELSE 1 IN
         /\ n >= m => g \in Nat /\ g \div 3 <= n + 1 /\ n + 1 <= g
         /\ ~(n >= m) => m \div 3 <= n + 1 /\ n + 1 <= m
OBVIOUS

\* The elements fit (Fits), and the variables have their types: from any state
\* in which they do, every call leads to one.
LEMMA ArrayInvStep == ArrayInv /\ [ArrayNext]_arrayVars => ArrayInv'
<1> SUFFICES ASSUME ArrayInv, [ArrayNext]_arrayVars PROVE ArrayInv'
  OBVIOUS
<1>0. /\ buf \in Seq(Items \cup {Junk}) /\ Len(buf) = max_elem /\ ArrayType
      /\ nelem \in Nat /\ max_elem \in Nat /\ nelem <= max_elem /\ max_elem \div 3 <= nelem
  BY DEF ArrayInv, ArrayType, Fits
<1>1. ASSUME buf' \in Seq(Items \cup {Junk}), Len(buf') = max_elem', refused' \in BOOLEAN,
             nelem' \in Nat, max_elem' \in Nat, nelem' <= max_elem', max_elem' \div 3 <= nelem'
      PROVE  ArrayInv'
  BY <1>1 DEF ArrayInv, ArrayType, Fits
<1>2. CASE UNCHANGED <<buf, nelem, max_elem>> /\ refused' \in BOOLEAN
  BY <1>2 DEF ArrayInv, ArrayType, Fits
<1>3. CASE Fail
  BY <1>2, <1>3 DEF Fail
<1>4. ASSUME NEW x \in Items, Push(x) PROVE ArrayInv'
  <2>1. CASE ~Grows /\ nelem' = nelem + 1 /\ refused' = FALSE
             /\ buf' = [buf EXCEPT ![nelem + 1] = x] /\ UNCHANGED max_elem
    <3>1. max_elem \div 3 <= nelem + 1 /\ nelem + 1 <= max_elem
      BY <1>0, <2>1, PushThreshold DEF Grows
    <3>2. buf' \in Seq(Items \cup {Junk}) /\ Len(buf') = Len(buf)
      <4>1. nelem + 1 \in 1..Len(buf)
        BY <1>0, <3>1
      <4> QED  BY <1>0, <2>1, <4>1, ExceptSeq
    <3>3. nelem' \in Nat /\ max_elem' \in Nat
      BY <1>0, <2>1
    <3> QED  BY <1>0, <1>1, <2>1, <3>1, <3>2, <3>3
  <2>2. CASE Grows /\ nelem' = nelem + 1 /\ refused' = FALSE
             /\ buf' = [Realloc(GrownSize) EXCEPT ![nelem + 1] = x] /\ max_elem' = GrownSize
    <3>1. nelem + 1 <= GrownSize /\ GrownSize \in Nat /\ GrownSize \div 3 <= nelem + 1
      BY <1>0, <2>2, PushThreshold DEF Grows, GrownSize
    <3>2. Realloc(GrownSize) \in Seq(Items \cup {Junk}) /\ Len(Realloc(GrownSize)) = GrownSize
      BY <1>0, <3>1, ReallocIsSeq
    <3>3. buf' \in Seq(Items \cup {Junk}) /\ Len(buf') = GrownSize
      <4>1. nelem + 1 \in 1..Len(Realloc(GrownSize))
        BY <1>0, <3>1, <3>2
      <4> QED  BY <2>2, <3>2, <4>1, ExceptSeq
    <3>4. nelem' \in Nat
      BY <1>0, <2>2
    <3> QED  BY <1>1, <2>2, <3>1, <3>3, <3>4
  <2> QED  BY <1>3, <1>4, <2>1, <2>2 DEF Push
<1>5. CASE Pop
  <2>1. CASE nelem = 0 /\ refused' = FALSE /\ UNCHANGED <<buf, nelem, max_elem>>
    BY <1>2, <2>1
  <2>2. CASE nelem # 0 /\ ~Shrinks /\ nelem' = nelem - 1 /\ refused' = FALSE
             /\ UNCHANGED <<buf, max_elem>>
    <3>1. nelem - 1 \in Nat /\ nelem - 1 <= max_elem /\ max_elem \div 3 <= nelem - 1
      BY <1>0, <2>2, PopThreshold DEF Shrinks
    <3> QED  BY <1>0, <1>1, <2>2, <3>1
  <2>3. CASE nelem # 0 /\ Shrinks /\ nelem' = nelem - 1 /\ refused' = FALSE
             /\ buf' = Realloc(ShrunkSize) /\ max_elem' = ShrunkSize
    <3>1. ShrunkSize \in Nat /\ nelem - 1 \in Nat /\ nelem - 1 <= ShrunkSize
          /\ ShrunkSize \div 3 <= nelem - 1
      BY <1>0, <2>3, PopThreshold DEF Shrinks, ShrunkSize
    <3>2. buf' \in Seq(Items \cup {Junk}) /\ Len(buf') = ShrunkSize
      BY <1>0, <2>3, <3>1, ReallocIsSeq
    <3> QED  BY <1>1, <2>3, <3>1, <3>2
  <2> QED  BY <1>3, <1>5, <2>1, <2>2, <2>3 DEF Pop
<1>6. ASSUME NEW n \in 0..MaxItems, Resize(n) PROVE ArrayInv'
  <2>1. n \in Nat /\ n \div 3 <= n
    BY ArrayAssumption
  <2>2. Realloc(n) \in Seq(Items \cup {Junk}) /\ Len(Realloc(n)) = n
    BY <1>0, <2>1, ReallocIsSeq
  <2>3. CASE buf' = Realloc(n) /\ nelem' = n /\ max_elem' = n /\ refused' = FALSE
    <3>1. max_elem' \in Nat /\ nelem' \in Nat /\ nelem' <= max_elem' /\ max_elem' \div 3 <= nelem'
      BY <2>1, <2>3
    <3>2. buf' \in Seq(Items \cup {Junk}) /\ Len(buf') = max_elem' /\ refused' \in BOOLEAN
      BY <2>2, <2>3
    <3> QED  BY <1>1, <3>1, <3>2
  <2> QED  BY <1>3, <1>6, <2>3 DEF Resize
<1>7. CASE UNCHANGED arrayVars
  BY <1>0, <1>2, <1>7 DEF arrayVars, ArrayType
<1> QED  BY <1>4, <1>5, <1>6, <1>7 DEF ArrayNext

LEMMA ArrayInvariance == ArraySpec => []ArrayInv
<1>1. ArrayInit => ArrayInv
  <2> SUFFICES ASSUME ArrayInit PROVE ArrayInv
    OBVIOUS
  <2>1. max_elem \div 3 <= nelem
    BY DEF ArrayInit
  <2>2. ArrayType /\ max_elem = Len(buf) /\ nelem <= max_elem
    <3>1. <<>> \in Seq(Items \cup {Junk}) /\ Len(<<>>) = 0
      OBVIOUS
    <3>2. buf \in Seq(Items \cup {Junk}) /\ Len(buf) = 0 /\ nelem = 0 /\ max_elem = 0
      BY <3>1, Zenon DEF ArrayInit
    <3>3. refused \in BOOLEAN
      BY Zenon DEF ArrayInit
    <3> QED  BY <3>2, <3>3 DEF ArrayType
  <2> QED  BY <2>1, <2>2 DEF ArrayInv, Fits
<1> QED  BY <1>1, ArrayInvStep, PTL DEF ArraySpec

\* For every number of elements: they lie inside the memory, and take at least
\* a third of it (dynarr.c:94-96, 124-127).
THEOREM ElementsFit == ArraySpec => []Fits
<1>1. ArrayInv => Fits
  BY DEF ArrayInv
<1> QED  BY <1>1, ArrayInvariance, PTL

-----------------------------------------------------------------------------
LEMMA PrefixIsSeq ==
  ASSUME NEW S, NEW s \in Seq(S), NEW n \in Nat, n <= Len(s)
  PROVE  /\ SubSeq(s, 1, n) \in Seq(S) /\ Len(SubSeq(s, 1, n)) = n
         /\ \A k \in 1..n : SubSeq(s, 1, n)[k] = s[k]
OBVIOUS

\* The elements are the memory up to nelem, before and after a step.
LEMMA ElementsIsPrefix ==
  ASSUME ArrayInv, ArrayInv'
  PROVE  /\ nelem \in Nat /\ nelem' \in Nat
         /\ Elements \in Seq(Items \cup {Junk}) /\ Len(Elements) = nelem
         /\ \A k \in 1..nelem : Elements[k] = buf[k]
         /\ Elements' \in Seq(Items \cup {Junk}) /\ Len(Elements') = nelem'
         /\ \A k \in 1..nelem' : Elements'[k] = buf'[k]
<1>1. /\ buf \in Seq(Items \cup {Junk}) /\ nelem \in Nat /\ nelem <= Len(buf)
      /\ buf' \in Seq(Items \cup {Junk}) /\ nelem' \in Nat /\ nelem' <= Len(buf')
  BY DEF ArrayInv, ArrayType, Fits
<1> QED  BY <1>1, PrefixIsSeq DEF Elements

\* A step that adds x above the elements is a push of the stack.
LEMMA PushedIsAppended ==
  ASSUME ArrayInv, ArrayInv', NEW x \in Items, nelem' = nelem + 1, buf'[nelem + 1] = x,
         \A k \in 1..nelem : buf'[k] = buf[k]
  PROVE  Elements' = Append(Elements, x)
<1> DEFINE E == Elements  F == Elements'
<1>1. /\ nelem \in Nat
      /\ E \in Seq(Items \cup {Junk}) /\ Len(E) = nelem
      /\ F \in Seq(Items \cup {Junk}) /\ Len(F) = nelem + 1
      /\ \A k \in 1..nelem : E[k] = buf[k]
      /\ \A k \in 1..nelem + 1 : F[k] = buf'[k]
  BY ElementsIsPrefix
<1> HIDE DEF E, F
<1>5. Append(E, x) \in Seq(Items \cup {Junk}) /\ Len(Append(E, x)) = Len(F)
      /\ \A k \in 1..Len(F) : F[k] = Append(E, x)[k]
  BY <1>1
<1>6. F = Append(E, x)
  BY <1>1, <1>5, SeqEqual
<1> QED  BY <1>6 DEF E, F

\* A step that takes the last element off is a pop of the stack.
LEMMA PoppedIsFront ==
  ASSUME ArrayInv, ArrayInv', nelem # 0, nelem' = nelem - 1,
         \A k \in 1..nelem - 1 : buf'[k] = buf[k]
  PROVE  Elements' = (IF Elements = <<>> THEN Elements ELSE SubSeq(Elements, 1, Len(Elements) - 1))
<1> DEFINE E == Elements  F == Elements'
<1>1. /\ nelem \in Nat
      /\ E \in Seq(Items \cup {Junk}) /\ Len(E) = nelem
      /\ F \in Seq(Items \cup {Junk}) /\ Len(F) = nelem - 1
      /\ \A k \in 1..nelem : E[k] = buf[k]
      /\ \A k \in 1..nelem - 1 : F[k] = buf'[k]
  BY ElementsIsPrefix
<1> HIDE DEF E, F
<1>4. E # <<>>
  BY <1>1
<1>5. SubSeq(E, 1, Len(E) - 1) \in Seq(Items \cup {Junk}) /\ Len(SubSeq(E, 1, Len(E) - 1)) = Len(F)
      /\ \A k \in 1..Len(F) : F[k] = SubSeq(E, 1, Len(E) - 1)[k]
  BY <1>1
<1>6. F = SubSeq(E, 1, Len(E) - 1)
  BY <1>1, <1>5, SeqEqual
<1> QED  BY <1>4, <1>6 DEF E, F

\* Every step of the array is a step of the stack, or none.
LEMMA ArrayStepIsStackStep ==
  ArrayInv /\ ArrayInv' /\ [ArrayNext]_arrayVars
    => [Abstract!Next]_<<Elements, refused>>
<1> SUFFICES ASSUME ArrayInv, ArrayInv', [ArrayNext]_arrayVars
             PROVE  Abstract!Next \/ UNCHANGED <<Elements, refused>>
  OBVIOUS
<1>0. /\ buf \in Seq(Items \cup {Junk}) /\ Len(buf) = max_elem /\ nelem \in Nat /\ nelem <= Len(buf)
      /\ max_elem \in Nat /\ ArrayType
  BY DEF ArrayInv, ArrayType, Fits
<1>1. ASSUME Fail PROVE Abstract!Next
  <2>1. Abstract!Refuse
    BY <1>1 DEF Fail, Elements, Abstract!Refuse
  <2> QED  BY <2>1 DEF Abstract!Next
<1>2. ASSUME NEW x \in Items, Push(x) PROVE Abstract!Next
  <2>1. CASE Fail
    BY <1>1, <2>1
  <2>2. CASE ~Grows /\ nelem' = nelem + 1 /\ refused' = FALSE
             /\ buf' = [buf EXCEPT ![nelem + 1] = x] /\ UNCHANGED max_elem
    <3>1. nelem + 1 \in 1..Len(buf)
      BY <1>0, <2>2 DEF Grows
    <3>2. buf'[nelem + 1] = x /\ \A k \in 1..nelem : buf'[k] = buf[k]
      BY <1>0, <2>2, <3>1
    <3>3. Elements' = Append(Elements, x)
      BY <2>2, <3>2, PushedIsAppended
    <3>4. Abstract!Push(x)
      BY <2>2, <3>3 DEF Abstract!Push
    <3> QED  BY <3>4 DEF Abstract!Next
  <2>3. CASE Grows /\ nelem' = nelem + 1 /\ refused' = FALSE
             /\ buf' = [Realloc(GrownSize) EXCEPT ![nelem + 1] = x] /\ max_elem' = GrownSize
    <3>1. nelem + 1 \in 1..GrownSize /\ GrownSize \in Nat
      BY <1>0, <2>3 DEF Grows, GrownSize
    <3>2. /\ Realloc(GrownSize) \in Seq(Items \cup {Junk}) /\ Len(Realloc(GrownSize)) = GrownSize
          /\ \A k \in 1..nelem : Realloc(GrownSize)[k] = buf[k]
      BY <1>0, <3>1, ReallocIsSeq
    <3>3. buf'[nelem + 1] = x /\ \A k \in 1..nelem : buf'[k] = buf[k]
      BY <1>0, <2>3, <3>1, <3>2
    <3>4. Elements' = Append(Elements, x)
      BY <2>3, <3>3, PushedIsAppended
    <3>5. Abstract!Push(x)
      BY <2>3, <3>4 DEF Abstract!Push
    <3> QED  BY <3>5 DEF Abstract!Next
  <2> QED  BY <1>2, <2>1, <2>2, <2>3 DEF Push
<1>3. CASE Pop
  <2>1. CASE nelem = 0 /\ refused' = FALSE /\ UNCHANGED <<buf, nelem, max_elem>>
    <3>1. Elements' = Elements /\ Elements = <<>>
      <4>1. Elements' = Elements
        BY <2>1 DEF Elements
      <4>2. Elements \in Seq(Items \cup {Junk}) /\ Len(Elements) = 0
        BY <2>1, ElementsIsPrefix
      <4> QED  BY <4>1, <4>2
    <3>2. Abstract!Pop
      BY <2>1, <3>1 DEF Abstract!Pop
    <3> QED  BY <3>2 DEF Abstract!Next
  <2>2. CASE nelem # 0 /\ ~Shrinks /\ nelem' = nelem - 1 /\ refused' = FALSE
             /\ UNCHANGED <<buf, max_elem>>
    <3>1. \A k \in 1..nelem - 1 : buf'[k] = buf[k]
      BY <2>2
    <3>2. Abstract!Pop
      BY <2>2, <3>1, PoppedIsFront DEF Abstract!Pop
    <3> QED  BY <3>2 DEF Abstract!Next
  <2>3. CASE nelem # 0 /\ Shrinks /\ nelem' = nelem - 1 /\ refused' = FALSE
             /\ buf' = Realloc(ShrunkSize) /\ max_elem' = ShrunkSize
    <3>1. ShrunkSize \in Nat /\ nelem - 1 <= ShrunkSize
      BY <1>0, <2>3 DEF Shrinks, ShrunkSize
    <3>2. \A k \in 1..nelem - 1 : buf'[k] = buf[k]
      <4>1. \A k \in 1..ShrunkSize : k <= Len(buf) => Realloc(ShrunkSize)[k] = buf[k]
        BY <1>0, <3>1, ReallocIsSeq
      <4>2. \A k \in 1..nelem - 1 : k \in 1..ShrunkSize /\ k <= Len(buf)
        BY <1>0, <3>1
      <4> QED  BY <2>3, <4>1, <4>2
    <3>3. Abstract!Pop
      BY <2>3, <3>2, PoppedIsFront DEF Abstract!Pop
    <3> QED  BY <3>3 DEF Abstract!Next
  <2>4. CASE Fail
    BY <1>1, <2>4
  <2> QED  BY <1>3, <2>1, <2>2, <2>3, <2>4 DEF Pop
<1>4. ASSUME NEW n \in 0..MaxItems, Resize(n) PROVE Abstract!Next
  <2>1. CASE Fail
    BY <1>1, <2>1
  <2>2. CASE buf' = Realloc(n) /\ nelem' = n /\ max_elem' = n /\ refused' = FALSE
    <3>1. n \in Nat
      BY ArrayAssumption
    <3>2. \A k \in 1..n : k <= Len(buf) => buf'[k] = buf[k]
      BY <1>0, <2>2, <3>1, ReallocIsSeq
    <3>3. Elements' \in Seq(Items \cup {Junk}) /\ Len(Elements') = n
      BY <2>2, ElementsIsPrefix
    <3>4. \A k \in 1..n : k <= Len(Elements) => Elements'[k] = Elements[k]
      BY <1>0, <2>2, <3>1, <3>2, ElementsIsPrefix
    <3>5. Abstract!Resize(n)
      BY <2>2, <3>3, <3>4 DEF Abstract!Resize
    <3> QED  BY <3>5 DEF Abstract!Next
  <2> QED  BY <1>4, <2>1, <2>2 DEF Resize
<1>5. CASE UNCHANGED arrayVars
  BY <1>5 DEF arrayVars, Elements
<1> QED  BY <1>2, <1>3, <1>4, <1>5 DEF ArrayNext

\* For every size and every pattern of refusals the array is the stack of
\* ItemStack: growing and shrinking keep all elements in their places
\* (dynarr.c:99-101, 129-131).
THEOREM ArrayIsStack == ArraySpec => ImplementsItemStack
<1>1. ArrayInit => Abstract!Init
  BY DEF ArrayInit, Abstract!Init, Elements
<1> QED  BY <1>1, ArrayInvariance, ArrayStepIsStackStep, PTL
         DEF ArraySpec, ImplementsItemStack, Abstract!Spec

=============================================================================
