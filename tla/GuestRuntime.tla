---------------------------- MODULE GuestRuntime ----------------------------
(***************************************************************************)
(* The runtime linked into bare-metal guest programs (crates/rvr-rt): the  *)
(* bump allocator and the critical section.                                *)
(*                                                                         *)
(* Both are for programs with one thread.  An interrupt handler of the     *)
(* guest may use the critical section; it is entered only while MIE is set *)
(* and has released what it acquired when it returns, so its calls are     *)
(* among those of release and acquire below.                               *)
(*                                                                         *)
(* usize arithmetic wraps at 2 * half, where half - 1 is isize::MAX.       *)
(***************************************************************************)
EXTENDS Integers, TLAPS

VARIABLES
  half,    \* isize::MAX + 1
  N,       \* the heap's size
  offset,  \* BumpAlloc.offset
  blocks,  \* the blocks handed out so far: first byte and size
  nesting, \* CRITICAL_SECTION_NESTING
  backup,  \* the MIE bit of MSTATUS_BACKUP
  mie,     \* the MIE bit of mstatus
  outside  \* what mie was when the outermost critical section was entered

heap == <<half, N, offset, blocks>>
section == <<nesting, backup, mie, outside>>
vars == <<half, N, offset, blocks, nesting, backup, mie, outside>>

\* BumpAlloc::new.  No Rust object is larger than isize::MAX.
Init ==
  /\ half \in Nat \ {0} /\ N \in 0 .. half - 1
  /\ offset = 0 /\ blocks = {}
  /\ nesting = 0 /\ backup = 0 /\ mie \in {0, 1} /\ outside = mie

\* x & !(align - 1), for a power of two.
RoundDown(x, align) == x - (x % align)

\* core::alloc::Layout: the size, rounded up to the alignment, is at most
\* isize::MAX.
Layout == {l \in [size : Nat, align : Nat \ {0}] : l.size + l.align - 1 < half}

aligned_offset(align) == RoundDown((offset + align - 1) % (2 * half), align)

\* The block, or a null pointer.
alloc(layout) ==
  LET end == (aligned_offset(layout.align) + layout.size) % (2 * half)
  IN  /\ IF end > N THEN UNCHANGED <<offset, blocks>>
         ELSE /\ offset' = end
              /\ blocks' = blocks \cup {[first |-> aligned_offset(layout.align), size |-> layout.size]}
      /\ UNCHANGED <<half, N, section>>

acquire ==
  /\ mie' = 0
  /\ backup' = IF nesting = 0 THEN mie ELSE backup
  /\ outside' = IF nesting = 0 THEN mie ELSE outside
  /\ nesting' = nesting + 1
  /\ UNCHANGED heap

\* Its caller holds the token of an acquire.
release ==
  /\ nesting > 0
  /\ nesting' = nesting - 1
  /\ mie' = IF nesting = 1 /\ backup = 1 THEN 1 ELSE mie
  /\ UNCHANGED <<backup, outside, heap>>

\* The program enables or disables interrupts outside critical sections.
SetMie ==
  /\ nesting = 0 /\ mie' = 1 - mie /\ outside' = mie'
  /\ UNCHANGED <<nesting, backup, heap>>

Next == (\E layout \in Layout : alloc(layout)) \/ acquire \/ release \/ SetMie

Spec == Init /\ [][Next]_vars

-----------------------------------------------------------------------------
(* The allocator. *)

\* The allocator's cursor and the blocks it handed out are sizes, and the
\* interrupt flags are bits.
TypeOK ==
  /\ half \in Nat \ {0} /\ N \in 0 .. half - 1 /\ offset \in 0 .. N
  /\ blocks \subseteq [first : Nat, size : Nat]
  /\ nesting \in Nat /\ backup \in {0, 1} /\ mie \in {0, 1} /\ outside \in {0, 1}

\* Every block alloc has handed out lies in the heap, below offset.
InHeap == \A b \in blocks : b.first + b.size <= offset

\* No byte belongs to two blocks that alloc has handed out.
Disjoint ==
  \A b, c \in blocks : b # c => b.first + b.size <= c.first \/ c.first + c.size <= b.first

\* Interrupts are off in a critical section, however deep, and are as they were
\* before it once the outermost is released.
InterruptsOff ==
  /\ nesting > 0 => mie = 0 /\ backup = outside
  /\ nesting = 0 => mie = outside

\* The inductive invariant.
Inv == TypeOK /\ InHeap /\ Disjoint /\ InterruptsOff

-----------------------------------------------------------------------------

\* Rounding down loses less than one alignment.
LEMMA RoundDownBounds ==
  ASSUME NEW x \in Nat, NEW align \in Nat \ {0}
  PROVE  RoundDown(x, align) \in Nat /\ RoundDown(x, align) <= x /\ x < RoundDown(x, align) + align
  <1>1. x % align \in 0 .. align - 1
    OBVIOUS
  <1>2. x % align <= x
    BY SMT
  <1> QED BY <1>1, <1>2 DEF RoundDown

\* A sum below the wrapping point stays as it is.
LEMMA SmallMod ==
  ASSUME NEW x \in Nat, NEW bound \in Nat \ {0}, x < bound
  PROVE  x % bound = x
  OBVIOUS

\* Neither sum of alloc wraps, and the block starts at or after offset.
LEMMA AllocDoesNotWrap ==
  ASSUME TypeOK, NEW layout \in Layout
  PROVE  /\ aligned_offset(layout.align) \in Nat
         /\ offset <= aligned_offset(layout.align)
         /\ (aligned_offset(layout.align) + layout.size) % (2 * half)
              = aligned_offset(layout.align) + layout.size
  <1> DEFINE x == offset + layout.align - 1
  <1>1. /\ layout.size \in Nat /\ layout.align \in Nat \ {0}
        /\ layout.size + layout.align - 1 < half
        /\ half \in Nat \ {0} /\ offset \in Nat /\ offset < half
    BY DEF TypeOK, Layout
  <1>2. x \in Nat /\ x + layout.size < 2 * half
    BY <1>1
  <1>3. x % (2 * half) = x
    <2>1. 2 * half \in Nat \ {0} /\ x < 2 * half
      BY <1>1, <1>2
    <2> QED BY <1>2, <2>1, SmallMod
  <1>4. aligned_offset(layout.align) = RoundDown(x, layout.align)
    BY <1>3 DEF aligned_offset
  <1>5. /\ RoundDown(x, layout.align) \in Nat
        /\ RoundDown(x, layout.align) <= x /\ x < RoundDown(x, layout.align) + layout.align
    BY <1>1, <1>2, RoundDownBounds
  <1> HIDE DEF x
  <1>6. aligned_offset(layout.align) \in Nat /\ aligned_offset(layout.align) + layout.size < 2 * half
    BY <1>1, <1>2, <1>4, <1>5
  <1>7. offset <= aligned_offset(layout.align)
    BY <1>1, <1>4, <1>5 DEF x
  <1>8. (aligned_offset(layout.align) + layout.size) % (2 * half)
          = aligned_offset(layout.align) + layout.size
    <2>1. 2 * half \in Nat \ {0} /\ aligned_offset(layout.align) + layout.size \in Nat
      BY <1>1, <1>6
    <2> QED BY <1>6, <2>1, SmallMod
  <1> QED BY <1>6, <1>7, <1>8

\* The blocks the allocator hands out lie in the heap and share no byte, for
\* every heap size, word width and sequence of requests; interrupts stay off in
\* critical sections nested to any depth (BumpAlloc::alloc,
\* _critical_section_1_0_acquire and _release).
THEOREM RuntimeSafe == Spec => [](InHeap /\ Disjoint /\ InterruptsOff)
  <1>1. Init => Inv
    BY DEF Init, Inv, TypeOK, InHeap, Disjoint, InterruptsOff
  <1>2. Inv /\ [Next]_vars => Inv'
    <2> SUFFICES ASSUME Inv, [Next]_vars PROVE Inv'
      OBVIOUS
    <2> USE DEF Inv
    <2>1. ASSUME NEW layout \in Layout, alloc(layout) PROVE Inv'
      <3> DEFINE first == aligned_offset(layout.align)
                 block == [first |-> first, size |-> layout.size]
      <3>1. /\ first \in Nat /\ offset <= first /\ layout.size \in Nat
            /\ (first + layout.size) % (2 * half) = first + layout.size
        BY AllocDoesNotWrap DEF Layout
      <3> HIDE DEF first
      <3>2. UNCHANGED <<half, N, nesting, backup, mie, outside>>
        BY <2>1 DEF alloc, section
      <3>3. InterruptsOff'
        BY <3>2 DEF InterruptsOff
      <3>4. CASE first + layout.size > N
        <4>1. UNCHANGED <<offset, blocks>>
          BY <2>1, <3>1, <3>4 DEF alloc, first
        <4> QED BY <3>2, <3>3, <4>1 DEF TypeOK, InHeap, Disjoint
      <3>5. CASE first + layout.size <= N
        <4>1. offset' = first + layout.size /\ blocks' = blocks \cup {block}
          BY <2>1, <3>1, <3>5 DEF alloc, first, TypeOK
        <4>2. TypeOK'
          BY <3>1, <3>2, <3>5, <4>1 DEF TypeOK
        <4>3. InHeap'
          BY <3>1, <4>1 DEF InHeap, TypeOK
        <4>4. Disjoint'
          BY <3>1, <4>1 DEF InHeap, Disjoint, TypeOK
        <4> QED BY <3>3, <4>2, <4>3, <4>4
      <3> QED BY <3>1, <3>4, <3>5 DEF TypeOK
    <2>2. CASE acquire
      BY <2>2 DEF acquire, heap, TypeOK, InHeap, Disjoint, InterruptsOff
    <2>3. CASE release
      BY <2>3 DEF release, heap, TypeOK, InHeap, Disjoint, InterruptsOff
    <2>4. CASE SetMie
      BY <2>4 DEF SetMie, heap, TypeOK, InHeap, Disjoint, InterruptsOff
    <2>5. CASE UNCHANGED vars
      BY <2>5 DEF vars, TypeOK, InHeap, Disjoint, InterruptsOff
    <2> QED BY <2>1, <2>2, <2>3, <2>4, <2>5 DEF Next
  <1>3. Inv => InHeap /\ Disjoint /\ InterruptsOff
    BY DEF Inv
  <1> QED BY <1>1, <1>2, <1>3, PTL DEF Spec
=============================================================================
