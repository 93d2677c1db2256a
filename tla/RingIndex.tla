------------------------------ MODULE RingIndex ------------------------------
(***************************************************************************)
(* The arithmetic of the free-running ring indices: a u16 that only ever   *)
(* moves by wrapping_add and wrapping_sub, and that is masked to a slot    *)
(* when the ring is accessed.  The packet rings of kernel/src/task/ipc.rs  *)
(* and lib/rust/dux/src/mem.rs and the page stacks of                      *)
(* kernel/src/memory/allocator.rs all work this way.                       *)
(***************************************************************************)
EXTENDS Integers

CONSTANTS
    Size,       \* entries of the ring: a power of two in the code
    IndexMod    \* the indices wrap here: 2^16 in the code

ASSUME SizeAssumption == Size \in Nat \ {0}

(***************************************************************************)
(* IPC::new refuses mask_bits > 15 and STACK_SIZE is 2048, so a ring is at *)
(* most half of the range of its index, and both are powers of two.        *)
(***************************************************************************)
ASSUME IndexModAssumption ==
    IndexMod \in Nat /\ IndexMod >= 2 * Size /\ IndexMod % Size = 0

Slots == 0 .. Size - 1
Indices == 0 .. IndexMod - 1

(* mutant: a plain addition                                                *)
WrapIncPlain(i) == i + 1

(* wrapping_add(1), wrapping_sub(1)                                        *)
WrapInc(i) == IF i = IndexMod - 1 THEN 0 ELSE i + 1
WrapDec(i) == IF i = 0 THEN IndexMod - 1 ELSE i - 1

(* i.wrapping_add(Size)                                                    *)
WrapAddSize(i) == IF i + Size >= IndexMod THEN i + Size - IndexMod ELSE i + Size

(* i.wrapping_sub(j): how far i is ahead of j                              *)
Ahead(i, j) == IF i >= j THEN i - j ELSE i + IndexMod - j

(* index & (size - 1)                                                      *)
Mask(i) == i % Size
=============================================================================
