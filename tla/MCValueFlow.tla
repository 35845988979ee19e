---------------------------- MODULE MCValueFlow ----------------------------
(***************************************************************************)
(* Instances of ValueFlow: families of images of three to nine             *)
(* instructions, with four registers and two values to a register.         *)
(* 2^16 stands for 2^64 and 2^8 for 2^32.  RV32 code lies below the sign   *)
(* bit: the analysis sign-extends what lui makes and lw loads, and would   *)
(* not recognise an address in the upper half.                             *)
(***************************************************************************)
EXTENDS ValueFlow

Ins(opid, args, rd, rs1, rs2, imm, size) ==
  [opid |-> opid, args |-> args, rd |-> rd, rs1 |-> rs1, rs2 |-> rs2, imm |-> imm, size |-> size]

lui(rd, imm) == Ins("C_LUI", "U", rd, 0, 0, imm, 2)
auipc(rd, imm) == Ins("AUIPC", "U", rd, 0, 0, imm, 4)
li(rd, imm) == Ins("C_LI", "I", rd, 0, 0, imm, 2)
addi(rd, rs, imm) == Ins("ADDI", "I", rd, rs, 0, imm, 2)
add(rd, rs) == Ins("C_ADD", "R", rd, rd, rs, 0, 2)
mv(rd, rs) == Ins("C_MV", "R", rd, 0, rs, 0, 2)
jal(rd, off) == Ins("C_JAL", "J", rd, 0, 0, off, 2)
j(off) == Ins("C_J", "J", 0, 0, 0, off, 2)
jr(rs, off) == Ins("C_JR", "I", 0, rs, 0, off, 2)
jalr(rs) == Ins("C_JALR", "I", 1, rs, 0, 0, 2)
ret == jr(1, 0)
lw(rd, rs) == Ins("C_LW", "I", rd, rs, 0, 0, 2)
ld(rd, rs) == Ins("C_LD", "I", rd, rs, 0, 0, 2)
lh(rd, rs) == Ins("LH", "I", rd, rs, 0, 0, 2)
beqz(rs, off) == Ins("C_BEQZ", "B", NoReg, rs, 0, off, 2)
xor(rd) == Ins("C_XOR", "R", rd, rd, rd, 0, 2)
sw == Ins("C_SW", "S", NoReg, 3, 3, 0, 2)

Bytes(v) == <<v % 4, (v \div 4) % 4, (v \div 16) % 4, v \div 64>>

\* Code from 2 on, a table of two code pointers at 40.
Image(xlen, entry, code) ==
  [xlen |-> xlen, exec |-> {[start |-> 2, code |-> code]}, entry_points |-> {entry},
   ro |-> {[start |-> 40, data |-> Bytes(16) \o Bytes(18)]}]

\* A function at 2, then its caller at 8: the register the function may set has
\* a value before the call and is used after the return.
CallImages ==
  {Image(4, 8, <<d, e, ret, a, jal(1, -8), b, c, xor(3), sw>>) :
     a \in {li(3, 14), li(3, 40), lui(3, 16)},
     b \in {jr(3, 0), lw(3, 3), add(3, 3)},
     c \in {jr(3, 0), jalr(3), beqz(3, -4)},
     d \in {li(3, 12), beqz(3, 4), lh(3, 3), li(3, 44)},
     e \in {ret, addi(3, 3, 2), jr(3, 0)}}

\* Two functions set it, one after the other; a compressed and a full-size
\* instruction, and one that does not decode.
TwoCallImages ==
  {Image(8, 10, <<li(3, d), ret, e, ret, a, jal(1, -10), b, c>>) :
     a \in {li(3, 6), li(3, -2), xor(3)},
     b \in {jal(1, -8), jal(1, -2), sw, Undecodable},
     c \in {jr(3, 0), jr(3, 2), mv(1, 3)},
     d \in {4, 10},
     e \in {li(3, 14), auipc(3, 6), auipc(1, 6), add(3, 3)}}

\* Loops.
LoopImages ==
  {Image(4, 2, <<a, b, c>>) :
     a \in {li(3, 4), xor(3), sw}, b \in {beqz(3, -2), jr(3, 0), add(3, 3)}, c \in {j(-4), ret, jalr(3)}}

\* RV64 code, and a pointer to it, that need more than 32 bits.
HighImages ==
  {[xlen |-> 8, exec |-> {[start |-> 258, code |-> <<li(3, 40), ld(3, 3), a, b>>]}, entry_points |-> {258},
    ro |-> {[start |-> 40, data |-> Bytes(c) \o Bytes(1)]}] :
     a \in {jr(3, 0), auipc(3, 2), j(-4)}, b \in {ret, sw}, c \in {2, 8}}

\* A computed jump that is resolved when first visited and given up later, so
\* that its first target keeps the values of the first visit; and an RV32 jump
\* whose 64-bit target wraps around to code.
DepartingImages ==
  {Image(8, 26, <<sw, sw, ret, sw, ret, beqz(3, 8), lui(3, 8), li(2, 103), ret,
                  xor(3), li(2, 105), ret, jal(1, -14), a>>) : a \in {jr(3, 0), jalr(3)}}
    \cup {Image(4, 2, <<li(3, a), add(3, 3), add(3, 3), jr(3, 0), sw, sw, sw, ret>>) : a \in {3, 68}}

MCImages == CallImages \cup TwoCallImages \cup LoopImages \cup HighImages \cup DepartingImages
=============================================================================
