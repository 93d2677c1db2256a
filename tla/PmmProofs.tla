------------------------------ MODULE PmmProofs ------------------------------
(***************************************************************************)
(* Proofs about Pmm, for any ring and index size and any number of pages   *)
(* the ring has room for.                                                  *)
(***************************************************************************)
EXTENDS Pmm, RingIndexProofs, FiniteSetTheorems

(* the test of push is the one for a full ring                             *)
LEMMA FullTest ==
  ASSUME NEW i \in Indices, NEW j \in Indices
  PROVE  i = WrapAddSize(j) <=> Ahead(i, j) = Size
BY SizeAssumption, IndexModAssumption DEF Ahead, WrapAddSize, Indices

(* what a push does to the indices in the ring                             *)
LEMMA RingPush ==
  ASSUME NEW i \in Indices, NEW t \in Indices, NEW b \in Indices,
         Ahead(t, b) < Size
  PROVE  Ahead(i, b) < Ahead(WrapInc(t), b) <=> Ahead(i, b) < Ahead(t, b) \/ i = t
BY SizeAssumption, IndexModAssumption DEF Ahead, WrapInc, Indices

(* what a pop does to the indices in the ring                              *)
LEMMA RingPop ==
  ASSUME NEW i \in Indices, NEW t \in Indices, NEW b \in Indices, t # b
  PROVE  /\ Ahead(i, b) < Ahead(WrapDec(t), b)
            <=> Ahead(i, b) < Ahead(t, b) /\ i # WrapDec(t)
         /\ Ahead(WrapDec(t), b) < Ahead(t, b)
BY SizeAssumption, IndexModAssumption DEF Ahead, WrapDec, Indices

(* what a pop at the base does to the indices in the ring                  *)
LEMMA RingPopBase ==
  ASSUME NEW i \in Indices, NEW t \in Indices, NEW b \in Indices, t # b
  PROVE  /\ Ahead(i, WrapInc(b)) < Ahead(t, WrapInc(b))
            <=> Ahead(i, b) < Ahead(t, b) /\ i # b
         /\ Ahead(b, b) < Ahead(t, b)
BY SizeAssumption, IndexModAssumption DEF Ahead, WrapInc, Indices

(* the pages are finite, so are the free ones, and they fit in the ring    *)
LEMMA FreeFinite ==
  ASSUME IndInv
  PROVE  /\ IsFiniteSet(Free)
         /\ Free \subseteq Pages
         /\ IsFiniteSet(Pages) /\ Cardinality(Pages) = PageCount
         /\ \A p \in Pages \ Free : Ahead(top, base) < Size
<1>1. Free \subseteq Pages BY DEF IndInv, OnePlace
<1>2. IsFiniteSet(Pages) /\ Cardinality(Pages) = PageCount
  BY FS_Interval, PageCountAssumption DEF Pages
<1>3. IsFiniteSet(Free) BY <1>1, <1>2, FS_Subset
<1>4. ASSUME NEW p \in Pages, p \notin Free PROVE Ahead(top, base) < Size
  <2>1. Free # Pages BY <1>4
  <2>2. /\ Cardinality(Free) <= Cardinality(Pages)
        /\ Cardinality(Free) # Cardinality(Pages)
    BY <1>1, <1>2, <2>1, FS_Subset
  <2>3. Cardinality(Free) = Ahead(top, base) /\ Ahead(top, base) \in Nat
    BY AheadNat DEF IndInv, TypeOK
  <2> QED BY <1>2, <2>2, <2>3, PageCountAssumption, SizeAssumption
<1> QED BY <1>1, <1>2, <1>3, <1>4
(***************************************************************************)
(* Pushing a page that is in no position of the ring.                      *)
(***************************************************************************)
LEMMA PushAdds ==
  ASSUME IndInv, NEW p \in Pages \ Free, Push(p), UNCHANGED base
  PROVE  /\ Free' = Free \cup {p}
         /\ UNCHANGED panic
         /\ stack' \in [Slots -> Pages \cup {0}]
         /\ top' \in Indices
         /\ Ahead(top', base') <= Size
         /\ Cardinality(Free') = Ahead(top', base')
         /\ \A i, j \in Indices :
               InRing(i)' /\ InRing(j)' /\ i # j => stack'[Mask(i)] # stack'[Mask(j)]
<1>1. top \in Indices /\ base \in Indices /\ stack \in [Slots -> Pages \cup {0}]
  BY DEF IndInv, TypeOK
<1>2. Ahead(top, base) \in Nat /\ Ahead(top, base) < Size
  BY <1>1, AheadNat, FreeFinite
<1>3. top # WrapAddSize(base)
  BY <1>1, <1>2, FullTest, SizeAssumption
<1>4. /\ stack' = [stack EXCEPT ![Mask(top)] = p]
      /\ top' = WrapInc(top)
      /\ UNCHANGED <<panic, base>>
  BY <1>3 DEF Push
<1>5. Mask(top) \in Slots /\ WrapInc(top) \in Indices BY <1>1, IndexTypes
<1>6. \A i \in Indices : InRing(i)' <=> InRing(i) \/ i = top
  BY <1>1, <1>2, <1>4, RingPush DEF InRing
<1>7. ASSUME NEW i \in Indices, InRing(i)
      PROVE  i # top /\ stack'[Mask(i)] = stack[Mask(i)]
             /\ stack[Mask(i)] \in Free
  <2>1. Ahead(i, base) \in Nat /\ Ahead(i, base) < Ahead(top, base)
    BY <1>1, <1>7, AheadNat DEF InRing
  <2>2. i # top BY <1>2, <2>1
  <2>3. Ahead(top, i) = Ahead(top, base) - Ahead(i, base)
    BY <1>1, <1>2, <2>1, AheadSub
  <2>4. Ahead(top, i) < Size BY <1>2, <2>1, <2>3, SizeAssumption
  <2>5. Mask(top) # Mask(i) BY <1>1, <2>2, <2>4, MasksDiffer
  <2>6. Mask(i) \in Slots BY IndexTypes
  <2>7. stack'[Mask(i)] = stack[Mask(i)] BY <1>1, <1>4, <2>5, <2>6
  <2>8. stack[Mask(i)] \in Free BY <1>7 DEF Free
  <2> QED BY <2>2, <2>7, <2>8
<1>8. stack'[Mask(top)] = p BY <1>1, <1>4, <1>5
<1>9. Free' = Free \cup {p}
  <2>1. Free' = {stack'[Mask(i)] : i \in {j \in Indices : InRing(j)'}}
    BY DEF Free
  <2>2. Free' \subseteq Free \cup {p} BY <1>6, <1>7, <1>8, <2>1
  <2>3. p \in Free' BY <1>1, <1>6, <1>8, <2>1
  <2>4. Free \subseteq Free'
    <3> SUFFICES ASSUME NEW q \in Free PROVE q \in Free'
      OBVIOUS
    <3>1. PICK i \in Indices : InRing(i) /\ q = stack[Mask(i)] BY DEF Free
    <3> QED BY <1>6, <1>7, <2>1, <3>1
  <2> QED BY <2>2, <2>3, <2>4
<1>10. Ahead(top', base') = Ahead(top, base) + 1
  BY <1>1, <1>2, <1>4, AheadInc, SizeAssumption, IndexModAssumption
<1>11. Cardinality(Free') = Ahead(top', base')
  <2>1. Cardinality(Free \cup {p}) = Cardinality(Free) + 1
    BY FreeFinite, FS_AddElement
  <2> QED BY <1>9, <1>10, <2>1 DEF IndInv
<1>12. stack' \in [Slots -> Pages \cup {0}] BY <1>1, <1>4
<1>13. ASSUME NEW i \in Indices, NEW j \in Indices,
              InRing(i)', InRing(j)', i # j
       PROVE  stack'[Mask(i)] # stack'[Mask(j)]
  <2>1. CASE i = top BY <1>6, <1>7, <1>8, <1>13, <2>1
  <2>2. CASE j = top BY <1>6, <1>7, <1>8, <1>13, <2>2
  <2>3. CASE i # top /\ j # top
    BY <1>6, <1>7, <1>13, <2>3 DEF IndInv, OnePlace
  <2> QED BY <2>1, <2>2, <2>3
<1> QED BY <1>2, <1>4, <1>5, <1>9, <1>10, <1>11, <1>12, <1>13, SizeAssumption

(***************************************************************************)
(* Taking the page at index k out of the ring, from either end.            *)
(***************************************************************************)
LEMMA PopRemoves ==
  ASSUME IndInv, NEW k \in Indices, InRing(k), UNCHANGED stack,
         \A i \in Indices : InRing(i)' <=> InRing(i) /\ i # k,
         Ahead(top', base') = Ahead(top, base) - 1
  PROVE  /\ stack[Mask(k)] \in Free
         /\ Free' = Free \ {stack[Mask(k)]}
         /\ Ahead(top', base') <= Size
         /\ Cardinality(Free') = Ahead(top', base')
         /\ \A i, j \in Indices :
               InRing(i)' /\ InRing(j)' /\ i # j => stack'[Mask(i)] # stack'[Mask(j)]
<1>1. stack[Mask(k)] \in Free BY DEF Free
<1>2. Free' = {stack[Mask(i)] : i \in {j \in Indices : InRing(j)'}}
  BY DEF Free
<1>3. Free' = Free \ {stack[Mask(k)]}
  <2>1. ASSUME NEW q \in Free' PROVE q \in Free \ {stack[Mask(k)]}
    <3>1. PICK i \in Indices : InRing(i)' /\ q = stack[Mask(i)] BY <1>2, <2>1
    <3>2. InRing(i) /\ i # k BY <3>1
    <3>3. stack[Mask(i)] # stack[Mask(k)] BY <3>2 DEF IndInv, OnePlace
    <3> QED BY <3>1, <3>2, <3>3 DEF Free
  <2>2. ASSUME NEW q \in Free, q # stack[Mask(k)] PROVE q \in Free'
    <3>1. PICK i \in Indices : InRing(i) /\ q = stack[Mask(i)] BY <2>2 DEF Free
    <3>2. InRing(i)' BY <2>2, <3>1
    <3> QED BY <1>2, <3>1, <3>2
  <2> QED BY <2>1, <2>2
<1>4. Cardinality(Free') = Ahead(top', base')
  <2>1. Cardinality(Free \ {stack[Mask(k)]}) = Cardinality(Free) - 1
    BY <1>1, FreeFinite, FS_RemoveElement
  <2> QED BY <1>3, <2>1 DEF IndInv
<1>5. Ahead(top, base) \in Nat /\ Ahead(top, base) <= Size
  BY AheadNat DEF IndInv, TypeOK
<1>6. Ahead(top', base') <= Size BY <1>5, SizeAssumption
<1>7. \A i, j \in Indices :
        InRing(i)' /\ InRing(j)' /\ i # j => stack'[Mask(i)] # stack'[Mask(j)]
  BY DEF IndInv, OnePlace
<1> QED BY <1>1, <1>3, <1>4, <1>6, <1>7
-----------------------------------------------------------------------------
(* Each action keeps the invariant and is a step of PageSet.               *)

(* the loop of Allocator::new                                              *)
LEMMA InsertStep ==
  ASSUME IndInv, Insert
  PROVE  IndInv' /\ PageSet!Next
<1> DEFINE p == count - 1
<1>1. count \in 0 .. PageCount /\ count > 0 /\ count' = count - 1
      /\ Push(p) /\ UNCHANGED <<base, owned>>
  BY DEF Insert, IndInv, TypeOK
<1>2. p \in Pages BY <1>1, PageCountAssumption DEF Pages
<1>3. p \notin Free \cup owned BY <1>1 DEF IndInv, OnePlace
<1>4. /\ Free' = Free \cup {p}
      /\ UNCHANGED panic
      /\ stack' \in [Slots -> Pages \cup {0}]
      /\ top' \in Indices
      /\ Ahead(top', base') <= Size
      /\ Cardinality(Free') = Ahead(top', base')
      /\ \A i, j \in Indices :
            InRing(i)' /\ InRing(j)' /\ i # j => stack'[Mask(i)] # stack'[Mask(j)]
  BY <1>1, <1>2, <1>3, PushAdds
<1>5. Pages \ (0 .. count' - 1) = (Pages \ (0 .. count - 1)) \cup {p}
  BY <1>1, PageCountAssumption DEF Pages
<1>6. OnePlace'
  <2>1. Free' \cup owned' = Pages \ (0 .. count' - 1)
    BY <1>1, <1>4, <1>5 DEF IndInv, OnePlace
  <2>2. Free' \cap owned' = {} BY <1>1, <1>3, <1>4 DEF IndInv, OnePlace
  <2> QED BY <1>4, <2>1, <2>2 DEF OnePlace
<1>7. TypeOK'
  <2>1. count' \in 0 .. PageCount BY <1>1, PageCountAssumption
  <2> QED BY <1>1, <1>4, <2>1 DEF IndInv, TypeOK
<1>8. PageSet!Add(p) BY <1>1, <1>3, <1>4 DEF PageSet!Add
<1> QED BY <1>2, <1>4, <1>6, <1>7, <1>8 DEF IndInv, NeverFull, PageSet!Next

(* alloc pops from the top                                                 *)
LEMMA AllocateStep ==
  ASSUME IndInv, Allocate
  PROVE  IndInv' /\ PageSet!Next
<1> DEFINE k == WrapDec(top)
           p == stack[Mask(k)]
<1>1. top # base /\ top' = k /\ owned' = owned \cup {p}
      /\ UNCHANGED <<stack, base, count, panic>>
  BY DEF Allocate
<1>2. top \in Indices /\ base \in Indices BY DEF IndInv, TypeOK
<1>3. k \in Indices BY <1>2, IndexTypes
<1>4. /\ InRing(k)
      /\ \A i \in Indices : InRing(i)' <=> InRing(i) /\ i # k
  BY <1>1, <1>2, RingPop DEF InRing
<1>5. Ahead(top', base') = Ahead(top, base) - 1
  BY <1>1, <1>2, AheadDec
<1> HIDE DEF k
<1>6. /\ p \in Free
      /\ Free' = Free \ {p}
      /\ Ahead(top', base') <= Size
      /\ Cardinality(Free') = Ahead(top', base')
      /\ \A i, j \in Indices :
            InRing(i)' /\ InRing(j)' /\ i # j => stack'[Mask(i)] # stack'[Mask(j)]
  BY <1>1, <1>3, <1>4, <1>5, PopRemoves
<1> HIDE DEF p
<1>7. p \in Pages BY <1>6, FreeFinite
<1>8. OnePlace'
  <2>1. Free' \cup owned' = Pages \ (0 .. count' - 1)
    BY <1>1, <1>6 DEF IndInv, OnePlace
  <2>2. Free' \cap owned' = {} BY <1>1, <1>6 DEF IndInv, OnePlace
  <2> QED BY <1>6, <2>1, <2>2 DEF OnePlace
<1>9. TypeOK' BY <1>1, <1>3, <1>7 DEF IndInv, TypeOK
<1>10. PageSet!Take(p) BY <1>1, <1>6 DEF PageSet!Take
<1> QED BY <1>1, <1>6, <1>7, <1>8, <1>9, <1>10 DEF IndInv, NeverFull, PageSet!Next

(* pop_base pops from the bottom                                           *)
LEMMA PopBaseStep ==
  ASSUME IndInv, PopBase
  PROVE  IndInv' /\ PageSet!Next
<1> DEFINE p == stack[Mask(base)]
<1>1. top # base /\ base' = WrapInc(base) /\ owned' = owned \cup {p}
      /\ UNCHANGED <<stack, top, count, panic>>
  BY DEF PopBase
<1>2. top \in Indices /\ base \in Indices BY DEF IndInv, TypeOK
<1>3. WrapInc(base) \in Indices BY <1>2, IndexTypes
<1>4. /\ InRing(base)
      /\ \A i \in Indices : InRing(i)' <=> InRing(i) /\ i # base
  BY <1>1, <1>2, RingPopBase DEF InRing
<1>5. Ahead(top', base') = Ahead(top, base) - 1
  BY <1>1, <1>2, AheadIncSecond
<1>6. /\ p \in Free
      /\ Free' = Free \ {p}
      /\ Ahead(top', base') <= Size
      /\ Cardinality(Free') = Ahead(top', base')
      /\ \A i, j \in Indices :
            InRing(i)' /\ InRing(j)' /\ i # j => stack'[Mask(i)] # stack'[Mask(j)]
  BY <1>1, <1>2, <1>4, <1>5, PopRemoves
<1> HIDE DEF p
<1>7. p \in Pages BY <1>6, FreeFinite
<1>8. OnePlace'
  <2>1. Free' \cup owned' = Pages \ (0 .. count' - 1)
    BY <1>1, <1>6 DEF IndInv, OnePlace
  <2>2. Free' \cap owned' = {} BY <1>1, <1>6 DEF IndInv, OnePlace
  <2> QED BY <1>6, <2>1, <2>2 DEF OnePlace
<1>9. TypeOK' BY <1>1, <1>3, <1>7 DEF IndInv, TypeOK
<1>10. PageSet!Take(p) BY <1>1, <1>6 DEF PageSet!Take
<1> QED BY <1>1, <1>6, <1>7, <1>8, <1>9, <1>10 DEF IndInv, NeverFull, PageSet!Next

(* deallocate pushes a page its caller owned                               *)
LEMMA DeallocateStep ==
  ASSUME IndInv, NEW p \in Pages, Deallocate(p)
  PROVE  IndInv' /\ PageSet!Next
<1>1. p \in owned /\ owned' = owned \ {p} /\ Push(p) /\ UNCHANGED <<base, count>>
  BY DEF Deallocate
<1>2. p \notin Free BY <1>1 DEF IndInv, OnePlace
<1>3. /\ Free' = Free \cup {p}
      /\ UNCHANGED panic
      /\ stack' \in [Slots -> Pages \cup {0}]
      /\ top' \in Indices
      /\ Ahead(top', base') <= Size
      /\ Cardinality(Free') = Ahead(top', base')
      /\ \A i, j \in Indices :
            InRing(i)' /\ InRing(j)' /\ i # j => stack'[Mask(i)] # stack'[Mask(j)]
  BY <1>1, <1>2, PushAdds
<1>4. OnePlace'
  <2>1. Free' \cup owned' = Pages \ (0 .. count' - 1)
    BY <1>1, <1>3 DEF IndInv, OnePlace
  <2>2. Free' \cap owned' = {} BY <1>1, <1>2, <1>3 DEF IndInv, OnePlace
  <2> QED BY <1>3, <2>1, <2>2 DEF OnePlace
<1>5. TypeOK' BY <1>1, <1>3 DEF IndInv, TypeOK
<1>6. PageSet!Give(p) BY <1>1, <1>3 DEF PageSet!Give
<1> QED BY <1>3, <1>4, <1>5, <1>6 DEF IndInv, NeverFull, PageSet!Next

(* no other step changes the ring or the owners                            *)
LEMMA StutterStep ==
  ASSUME IndInv, AllocatePanic \/ UNCHANGED vars
  PROVE  IndInv' /\ UNCHANGED <<Free, owned>>
<1>1. UNCHANGED <<stack, top, base, count, owned>>
      /\ panic' \in {panic, "out of memory"}
  BY DEF AllocatePanic, vars
<1>2. Free' = Free BY <1>1 DEF Free, InRing
<1>3. OnePlace' BY <1>1, <1>2 DEF IndInv, OnePlace, InRing
<1>4. TypeOK' BY <1>1 DEF IndInv, TypeOK
<1> QED BY <1>1, <1>2, <1>3, <1>4 DEF IndInv, NeverFull

(* no page is in the ring before the first one is inserted                 *)
LEMMA InitIndInv ==
  ASSUME Init
  PROVE  IndInv /\ Free = {}
<1> USE DEF Init
<1>1. 0 \in Indices /\ Ahead(top, base) = 0
  BY SizeAssumption, IndexModAssumption DEF Indices, Ahead
<1>2. \A i \in Indices : ~InRing(i)
  <2> SUFFICES ASSUME NEW i \in Indices PROVE ~InRing(i)
    OBVIOUS
  <2>1. Ahead(i, base) \in Nat BY <1>1, AheadNat
  <2> QED BY <1>1, <2>1 DEF InRing
<1>3. Free = {} BY <1>2 DEF Free
<1>4. OnePlace BY <1>2, <1>3 DEF OnePlace, Pages
<1>5. TypeOK BY <1>1, PageCountAssumption DEF TypeOK
<1>6. Cardinality(Free) = 0 BY <1>3, FS_EmptySet
<1> QED BY <1>1, <1>3, <1>4, <1>5, <1>6, SizeAssumption DEF IndInv, NeverFull

(* every step keeps the invariant and is a step of PageSet or a stutter    *)
LEMMA NextStep ==
  ASSUME IndInv, [Next]_vars
  PROVE  IndInv' /\ [PageSet!Next]_<<Free, owned>>
BY InsertStep, AllocateStep, PopBaseStep, DeallocateStep, StutterStep DEF Next

(***************************************************************************)
(* The invariant of the page ring of allocator.rs.                         *)
(***************************************************************************)
THEOREM Invariance == Spec => []IndInv
BY InitIndInv, NextStep, PTL DEF Spec

(***************************************************************************)
(* Every page is in exactly one place: no allocation returns a page that   *)
(* is already in use, for any number of pages and across index wrap.       *)
(***************************************************************************)
THEOREM SinglePlace == Spec => []OnePlace
<1>1. IndInv => OnePlace BY DEF IndInv
<1> QED BY Invariance, <1>1, PTL

(***************************************************************************)
(* free never meets a full ring: its todo!() is dead code as long as the   *)
(* range handed to Allocator::new has at most STACK_SIZE pages.            *)
(***************************************************************************)
THEOREM RingSuffices == Spec => []NeverFull
<1>1. IndInv => NeverFull BY DEF IndInv
<1> QED BY Invariance, <1>1, PTL

(***************************************************************************)
(* The ring of allocator.rs implements the set of free pages.              *)
(***************************************************************************)
THEOREM Refinement == Spec => RingIsPageSet
<1>1. Init => PageSet!Init BY InitIndInv DEF Init, PageSet!Init
<1>2. IndInv /\ [Next]_vars => [PageSet!Next]_<<Free, owned>> BY NextStep
<1> QED BY Invariance, <1>1, <1>2, PTL DEF Spec, RingIsPageSet, PageSet!Spec
=============================================================================
