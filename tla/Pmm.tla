--------------------------------- MODULE Pmm ---------------------------------
(***************************************************************************)
(* The physical memory manager: the ring of free page numbers (Stacks) of  *)
(* kernel/src/memory/allocator.rs and the functions of memory/mod.rs on    *)
(* top of it.  There is one hart and so one ring, and the kernel is not    *)
(* interrupted, so every function is one step.                             *)
(*                                                                         *)
(* The two ring indices live in the pages of the ring itself and are never *)
(* written before they are read: like the page tables, they rely on the    *)
(* memory being zero at boot.                                              *)
(***************************************************************************)
EXTENDS RingIndex, FiniteSets

CONSTANT PageCount  \* the pages left when the ring has taken its own

(* main.rs adds one range of 2048 pages, and STACK_SIZE is 2048.           *)
ASSUME PageCountAssumption == PageCount \in Nat /\ PageCount <= Size

VARIABLES
    stack,      \* the entries of the ring
    top, base,  \* top_base
    count,      \* pages of the range Allocator::new has still to insert
    owned,      \* pages that were allocated and not yet deallocated
    panic

vars == <<stack, top, base, count, owned, panic>>

Pages == 0 .. PageCount - 1

Init ==
    /\ stack = [s \in Slots |-> 0]
    /\ top = 0 /\ base = 0
    /\ count = PageCount
    /\ owned = {}
    /\ panic = "none"

(* mutant: one entry of the ring is never used                             *)
PushEarlyFull(ppn) ==
    IF WrapInc(top) = WrapAddSize(base)
    THEN panic' = "full" /\ UNCHANGED <<stack, top>>
    ELSE /\ stack' = [stack EXCEPT ![Mask(top)] = ppn]
         /\ top' = WrapInc(top)
         /\ UNCHANGED panic

(* push, and the todo!() of free when it returns the page                  *)
Push(ppn) ==
    IF top = WrapAddSize(base)
    THEN panic' = "full" /\ UNCHANGED <<stack, top>>
    ELSE /\ stack' = [stack EXCEPT ![Mask(top)] = ppn]
         /\ top' = WrapInc(top)
         /\ UNCHANGED panic

(* the loop of Allocator::new: the last page of the range comes first      *)
Insert ==
    /\ panic = "none"
    /\ count > 0
    /\ count' = count - 1
    /\ Push(count - 1)
    /\ UNCHANGED <<base, owned>>

(* mutant: the entry is read before the index moves                        *)
AllocateStale ==
    /\ panic = "none"
    /\ count = 0
    /\ top # base
    /\ top' = WrapDec(top)
    /\ owned' = owned \cup {stack[Mask(top)]}
    /\ UNCHANGED <<stack, base, count, panic>>

(* allocate, and each round of mem_allocate_range                          *)
Allocate ==
    /\ panic = "none"
    /\ count = 0
    /\ top # base
    /\ top' = WrapDec(top)
    /\ owned' = owned \cup {stack[Mask(WrapDec(top))]}
    /\ UNCHANGED <<stack, base, count, panic>>

(* alloc expects a page                                                    *)
AllocatePanic ==
    /\ panic = "none"
    /\ count = 0
    /\ top = base
    /\ panic' = "out of memory"
    /\ UNCHANGED <<stack, top, base, count, owned>>

(* The caller owns the page: "The page is no longer in use and hasn't been *)
(* freed yet."  The function has no caller in the program yet, the unmap   *)
(* of sv39.rs keeps its pages: this is what a caller may count on.         *)
Deallocate(ppn) ==
    /\ panic = "none"
    /\ count = 0
    /\ ppn \in owned
    /\ owned' = owned \ {ppn}
    /\ Push(ppn)
    /\ UNCHANGED <<base, count>>

(* mutant: the index moves before the entry is read                        *)
PopBaseNext ==
    /\ panic = "none"
    /\ count = 0
    /\ top # base
    /\ base' = WrapInc(base)
    /\ owned' = owned \cup {stack[Mask(WrapInc(base))]}
    /\ UNCHANGED <<stack, top, count, panic>>

(* pop_base takes the oldest page.  It is meant for moving pages to a tree *)
(* that is not in the build, and has no caller yet.                        *)
PopBase ==
    /\ panic = "none"
    /\ count = 0
    /\ top # base
    /\ base' = WrapInc(base)
    /\ owned' = owned \cup {stack[Mask(base)]}
    /\ UNCHANGED <<stack, top, count, panic>>

Next ==
    \/ Insert \/ Allocate \/ AllocatePanic \/ PopBase
    \/ \E ppn \in Pages : Deallocate(ppn)

Spec == Init /\ [][Next]_vars

-----------------------------------------------------------------------------
(* Indices and entries keep their widths, and what is handed out is a page *)
(* of the range of Allocator::new.                                         *)
TypeOK ==
    /\ stack \in [Slots -> Pages \cup {0}]
    /\ top \in Indices /\ base \in Indices
    /\ count \in 0 .. PageCount
    /\ owned \subseteq Pages
    /\ panic \in {"none", "full", "out of memory"}

(* an index between base and top, and the pages at these indices           *)
InRing(i) == Ahead(i, base) < Ahead(top, base)
Free == {stack[Mask(i)] : i \in {j \in Indices : InRing(j)}}

(***************************************************************************)
(* A page is in one place: waiting to be inserted, at one position of the  *)
(* ring, or with one owner (push, pop and pop_base of Stacks).  Nothing is *)
(* handed out twice, also after the u16 indices have wrapped.              *)
(***************************************************************************)
OnePlace ==
    /\ Free \cup owned = Pages \ (0 .. count - 1)
    /\ Free \cap owned = {}
    /\ \A i, j \in Indices :
           InRing(i) /\ InRing(j) /\ i # j => stack[Mask(i)] # stack[Mask(j)]

(***************************************************************************)
(* The ring is never too small for the pages that come back: the todo!()   *)
(* of free is not reached.                                                 *)
(***************************************************************************)
NeverFull == panic # "full"

(* The inductive invariant behind the two properties above.                *)
IndInv ==
    /\ TypeOK
    /\ OnePlace
    /\ Ahead(top, base) <= Size
    /\ Cardinality(Free) = Ahead(top, base)
    /\ NeverFull

PageSet == INSTANCE PageSet WITH free <- Free

(***************************************************************************)
(* The ring implements a set of free pages: allocate and pop_base take a   *)
(* page that was free, deallocate gives back the page it was given.        *)
(***************************************************************************)
RingIsPageSet == PageSet!Spec
=============================================================================
