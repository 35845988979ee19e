-------------------------- MODULE ValueFlowProofs --------------------------
(***************************************************************************)
(* The value propagation is sound, for every image, whatever the order of  *)
(* the worklist: where the worklist ran empty and nothing it takes for     *)
(* granted fails, what it says of registers and of jumps is true of the    *)
(* guest.  At an address that waits for no visit, the successors of its    *)
(* present state are recorded, and their states lie above the state that   *)
(* the instruction there makes of it.                                      *)
(***************************************************************************)
EXTENDS ValueFlow, SequenceTheorems, WellFoundedInduction, TLAPS

-----------------------------------------------------------------------------
(* Least elements. *)

\* Less-than is well founded, as a set of pairs.
LEMMA LessWellFounded == IsWellFoundedOn({ss \in Nat \X Nat : ss[1] < ss[2]}, Nat)
BY NatLessThanWellFounded DEF OpToRel

\* A set of numbers has a least element.
LEMMA LeastOf ==
  ASSUME NEW T, T \subseteq Nat, T # {}
  PROVE  \E x \in T : \A y \in T : x <= y
<1> DEFINE R == {ss \in Nat \X Nat : ss[1] < ss[2]}
<1>1. \A x, y \in Nat : y < x => <<y, x>> \in R
  OBVIOUS
<1>2. \E x \in T : \A y \in T : ~(<<y, x>> \in R)
  <2>1. IsWellFoundedOn(R, Nat)
    BY LessWellFounded
  <2> HIDE DEF R
  <2> QED
    BY ZenonT(30), <2>1, WFMin
<1>3. PICK x \in T : \A y \in T : ~(<<y, x>> \in R)
  BY <1>2
<1>4. ASSUME NEW y \in T PROVE x <= y
  <2>1. ~(<<y, x>> \in R) /\ x \in Nat /\ y \in Nat
    BY <1>3
  <2>2. ~(y < x)
    BY <2>1
  <2> QED
    BY <2>1, <2>2
<1> QED
  BY <1>4

\* Min of a set of numbers is one of them.
LEMMA MinOf ==
  ASSUME NEW T, T \subseteq Nat, T # {}
  PROVE  Min(T) \in T
BY ZenonT(30), LeastOf DEF Min

-----------------------------------------------------------------------------
(* Arithmetic modulo the width of a register. *)

\* Quotient and remainder.
LEMMA DivMod ==
  ASSUME NEW W \in Nat \ {0}, NEW x \in Int
  PROVE  /\ x % W \in 0 .. W - 1 /\ x % W \in Int /\ x \div W \in Int
         /\ x = W * (x \div W) + (x % W)
OBVIOUS

\* The remainder is the only one.
LEMMA ModOf ==
  ASSUME NEW W \in Nat \ {0}, NEW q \in Int, NEW m \in 0 .. W - 1
  PROVE  (W * q + m) % W = m
<1> DEFINE x == W * q + m
           p == x \div W
           n == x % W
<1>1. x \in Int /\ p \in Int /\ n \in 0 .. W - 1 /\ x = W * p + n
  BY DivMod
<1>2. W * (p - q) = m - n
  BY <1>1
<1>3. p - q = 0
  <2>1. CASE p - q >= 1
    <3>1. W * (p - q) >= W
      BY <1>1, <2>1
    <3> QED
      BY <1>1, <1>2, <3>1
  <2>2. CASE p - q <= -1
    <3>1. W * (p - q) <= -W
      BY <1>1, <2>2
    <3> QED
      BY <1>1, <1>2, <3>1
  <2> QED
    BY <1>1, <2>1, <2>2
<1> QED
  BY <1>1, <1>2, <1>3

\* Reducing by a multiple first changes nothing.
LEMMA ModMod ==
  ASSUME NEW W \in Nat \ {0}, NEW K \in Nat \ {0}, NEW N \in Nat \ {0}, N = W * K, NEW x \in Int
  PROVE  (x % N) % W = x % W
<1> DEFINE a == x \div N
           b == x % N
           c == b \div W
           e == b % W
<1>1. a \in Int /\ b \in Int /\ x = N * a + b
  BY DivMod, Zenon
<1>2. c \in Int /\ e \in 0 .. W - 1 /\ b = W * c + e
  BY <1>1, DivMod
<1> HIDE DEF a, b, c, e
<1>3. x = W * (K * a + c) + e
  <2>1. N * a = W * (K * a)
    BY <1>1
  <2>2. K * a \in Int
    BY <1>1
  <2>3. \A u \in Int : W * u + (W * c + e) = W * (u + c) + e
    BY <1>2
  <2> QED
    BY <1>1, <1>2, <2>1, <2>2, <2>3
<1>4. K * a + c \in Int
  BY <1>1, <1>2
<1>5. x % W = e
  BY ZenonT(30), <1>2, <1>3, <1>4, ModOf
<1> QED
  BY <1>5 DEF e, b

\* Reducing an operand of an addition first changes nothing.
LEMMA ModAdd ==
  ASSUME NEW W \in Nat \ {0}, NEW x \in Int, NEW y \in Int
  PROVE  ((x % W) + y) % W = (x + y) % W
<1> DEFINE a == x \div W
           b == x % W
           c == (b + y) \div W
           e == (b + y) % W
<1>1. a \in Int /\ b \in Int /\ x = W * a + b
  BY DivMod
<1>2. c \in Int /\ e \in 0 .. W - 1 /\ b + y = W * c + e
  BY <1>1, DivMod
<1>3. x + y = W * (a + c) + e /\ a + c \in Int
  BY <1>1, <1>2
<1> HIDE DEF a, b, c, e
<1>4. (x + y) % W = e
  BY ZenonT(30), <1>2, <1>3, ModOf
<1> QED
  BY <1>4 DEF e, b

\* A small number is its own remainder.
LEMMA ModSmall ==
  ASSUME NEW W \in Nat \ {0}, NEW x \in Int
  PROVE  /\ 0 <= x /\ x < W => x % W = x
         /\ x < 0 /\ -W <= x => x % W = x + W
<1>1. ASSUME 0 <= x, x < W PROVE x % W = x
  <2>1. x = W * 0 + x
    OBVIOUS
  <2> QED
    BY <1>1, <2>1, ModOf
<1>2. ASSUME x < 0, -W <= x PROVE x % W = x + W
  <2>1. x = W * (-1) + (x + W) /\ x + W \in 0 .. W - 1
    BY <1>2
  <2> QED
    BY <2>1, ModOf
<1> QED
  BY <1>1, <1>2

-----------------------------------------------------------------------------
(* Images and instructions. *)

\* The width of the guest's registers divides 2^64.
LEMMA Widths ==
  ASSUME NEW im \in Images
  PROVE  /\ 2 ^ (im.xlen * Byte) \in Nat \ {0} /\ U64 \in Nat \ {0}
         /\ 2 ^ (4 * Byte) \in Nat \ {0}
         /\ im.xlen = 4 \/ (im.xlen = 8 /\ 2 ^ (im.xlen * Byte) = U64)
         /\ \A x \in Int : (x % U64) % 2 ^ (im.xlen * Byte) = x % 2 ^ (im.xlen * Byte)
<1>1. im.xlen \in {4, 8} /\ Byte \in Nat \ {0}
  BY ImagesAssumption, ConstantsAssumption
<1>2. 4 * Byte \in 0 .. 8 * Byte /\ 8 * Byte \in 0 .. 8 * Byte
  BY <1>1
<1>3. 2 ^ (4 * Byte) \in Nat \ {0} /\ 2 ^ (8 * Byte) \in Nat \ {0}
  BY <1>2, PowersAssumption, Zenon
<1>4. CASE im.xlen = 8
  <2>1. \A x \in Int : (x % U64) % U64 = x % U64
    <3> DEFINE K == 1
    <3>1. U64 \in Nat \ {0} /\ U64 = U64 * K /\ K \in Nat \ {0}
      BY <1>3 DEF U64
    <3> HIDE DEF K
    <3> QED
      BY <3>1, ModMod
  <2> QED
    BY <1>3, <1>4, <2>1 DEF U64
<1>5. CASE im.xlen = 4
  <2>1. \A x \in Int : (x % U64) % 2 ^ (4 * Byte) = x % 2 ^ (4 * Byte)
    <3>1. U64 \in Nat \ {0}
      BY <1>3 DEF U64
    <3> QED
      BY <1>3, <3>1, ModMod, PowersAssumption, Zenon
  <2> QED
    BY <1>3, <1>5, <2>1 DEF U64
<1> QED
  BY <1>1, <1>4, <1>5

\* What the table holds at an address is an instruction that ends within the
\* image.
LEMMA TableType ==
  ASSUME NEW im \in Images, NEW pc \in DOMAIN Table(im)
  PROVE  /\ pc \in Nat /\ Table(im)[pc] \in Instruction
         /\ pc + Table(im)[pc].size < U64
         /\ im.xlen = 4 => 2 * (pc + Table(im)[pc].size) <= 2 ^ (4 * Byte)
<1> DEFINE parts == {decode_segment(seg) : seg \in im.exec}
           f == CHOOSE f \in parts : pc \in DOMAIN f
<1>1. f \in parts /\ pc \in DOMAIN f /\ Table(im)[pc] = f[pc]
  BY DEF Table
<1>2. PICK seg \in im.exec : f = decode_segment(seg)
  BY <1>1
<1> HIDE DEF f
<1> DEFINE code == seg.code
<1>3. /\ seg.start \in Nat /\ code \in Seq(Instruction \cup {Undecodable})
      /\ seg.start + 2 * Len(code) < U64
      /\ im.xlen = 4 => 2 * (seg.start + 2 * Len(code)) <= 2 ^ (4 * Byte)
  BY ZenonT(30), ImagesAssumption
<1>4. PICK k \in 1 .. Len(code) : /\ DecodesAt(code, k) /\ pc = seg.start + 2 * (k - 1)
                                  /\ f[pc] = code[1 + (pc - seg.start) \div 2]
  BY ZenonT(30), <1>1, <1>2 DEF decode_segment
<1>5. Len(code) \in Nat /\ k \in Nat
  BY <1>3, <1>4
<1> HIDE DEF code
<1>6. pc \in Nat /\ 1 + (pc - seg.start) \div 2 = k
  <2>1. \A s, j \in Nat : j >= 1 => s + 2 * (j - 1) \in Nat /\ 1 + ((s + 2 * (j - 1)) - s) \div 2 = j
    OBVIOUS
  <2>2. k >= 1
    BY <1>4, <1>5
  <2> QED
    BY <1>3, <1>4, <1>5, <2>1, <2>2, Zenon
<1>7. f[pc] = code[k] /\ code[k] \in Instruction \cup {Undecodable}
  BY <1>3, <1>4, <1>6
<1>8. code[k] \in Instruction
  <2>1. Undecodable.size = 0
    BY DEF Undecodable
  <2> QED
    BY <1>4, <1>7, <2>1 DEF DecodesAt
<1>9. code[k].size \in {2, 4}
  BY <1>8 DEF Instruction
<1>10. k + code[k].size \div 2 - 1 <= Len(code)
  BY <1>4 DEF DecodesAt
<1>11. pc + code[k].size <= seg.start + 2 * Len(code)
  <2>1. \A s, j, n \in Nat : \A z \in {2, 4} :
          j + z \div 2 - 1 <= n => (s + 2 * (j - 1)) + z <= s + 2 * n
    OBVIOUS
  <2> QED
    BY <1>3, <1>4, <1>5, <1>9, <1>10, <2>1, Zenon
<1>12. U64 \in Nat /\ 2 ^ (4 * Byte) \in Nat
  BY Widths
<1> QED
  <2> DEFINE z == code[k].size
             end == seg.start + 2 * Len(code)
  <2>1. z \in Nat /\ end \in Nat
    <3>1. \A s, n \in Nat : s + 2 * n \in Nat
      OBVIOUS
    <3>2. end \in Nat
      BY <1>3, <1>5, <3>1, Zenon
    <3> QED
      BY <1>9, <3>2
  <2>2. pc + z <= end /\ end < U64 /\ (im.xlen = 4 => 2 * end <= 2 ^ (4 * Byte))
    BY <1>3, <1>11
  <2>3. Table(im)[pc] = code[k]
    BY <1>1, <1>7
  <2> HIDE DEF z, end
  <2>4. pc + z < U64 /\ (im.xlen = 4 => 2 * (pc + z) <= 2 ^ (4 * Byte))
    BY <1>6, <1>12, <2>1, <2>2
  <2> QED
    BY <1>6, <1>8, <2>3, <2>4 DEF z
\* The fields of a decoded instruction.
LEMMA DecodedType ==
  ASSUME NEW i \in Instruction
  PROVE  /\ from_instr(i).rs1 \in Regs /\ from_instr(i).rs2 \in Regs
         /\ from_instr(i).rd \in Regs \cup {NoReg}
         /\ from_instr(i).imm \in Int /\ from_instr(i).imm = i.imm
         /\ from_instr(i).size = i.size
         /\ -(2 ^ (4 * Byte)) <= 2 * from_instr(i).imm /\ 2 * from_instr(i).imm < 2 ^ (4 * Byte)
         /\ from_instr(i).kind = "Load" => from_instr(i).width \in {1, 2, 4, 8}
<1> DEFINE kind == InstrKind(i.opid)
<1>1. kind = "Load" => i.opid \in DOMAIN Loads
  BY DEF InstrKind
<1>2. \A o \in DOMAIN Loads : Loads[o][1] \in {1, 2, 4, 8}
  BY DEF Loads
<1> HIDE DEF kind
<1>3. /\ i.rs1 \in Regs /\ i.rs2 \in Regs /\ i.rd \in Regs \cup {NoReg} /\ i.imm \in Int
      /\ -(2 ^ (4 * Byte)) <= 2 * i.imm /\ 2 * i.imm < 2 ^ (4 * Byte)
  BY DEF Instruction
<1>4. extract_written_reg(i) \in Regs \cup {NoReg}
  BY <1>3 DEF extract_written_reg
<1>5. /\ from_instr(i).kind = kind /\ from_instr(i).imm = i.imm /\ from_instr(i).size = i.size
      /\ from_instr(i).rd \in {extract_written_reg(i), NoReg, i.rd}
      /\ from_instr(i).rs1 \in {i.rs1, i.rs2} /\ from_instr(i).rs2 = i.rs2
      /\ kind = "Load" => from_instr(i).width = Loads[i.opid][1]
  BY DEF from_instr, kind
<1> QED
  BY <1>1, <1>2, <1>3, <1>4, <1>5

\* A loaded value is a number, and was read within the address space.
LEMMA LoadedType ==
  ASSUME NEW im \in Images, NEW addr \in Int, NEW width \in {1, 2, 4, 8}, NEW u \in BOOLEAN,
         NEW v \in read_readonly(im, addr, width)
  PROVE  /\ extend_loaded_value(v, width, u) \in Nat
         /\ 0 <= addr /\ addr < 2 ^ (im.xlen * Byte)
<1>1. PICK seg \in im.ro : v \in Read(seg, addr, width)
  BY DEF read_readonly
<1> DEFINE at == addr - seg.start
           bytes == SubSeq(seg.data, at + 1, at + width)
<1>2. /\ seg.start \in Nat /\ seg.data \in Seq(Int)
      /\ seg.start + Len(seg.data) <= 2 ^ (im.xlen * Byte)
  BY ImagesAssumption
<1>3. at \in Int /\ 0 <= at /\ at + width <= Len(seg.data) /\ v = Value(bytes) /\ Len(seg.data) \in Nat
  BY SMTT(30), <1>1, <1>2 DEF Read
<1>4. bytes \in Seq(Int) /\ Len(bytes) = width
  <2>2. (at + width) - (at + 1) + 1 = width /\ at + 1 <= at + width
    BY <1>3
  <2>3. at + 1 \in Int /\ at + width \in Int
    BY <1>3
  <2>4. \A j \in at + 1 .. at + width : seg.data[j] \in Int
    <3> TAKE j \in at + 1 .. at + width
    <3>1. j \in 1 .. Len(seg.data)
      BY <1>3
    <3> QED
      BY <1>2, <3>1
  <2> DEFINE first == at + 1
             last == at + width
  <2>5. first \in Int /\ last \in Int /\ \A j \in first .. last : seg.data[j] \in Int
    BY <2>3, <2>4
  <2> HIDE DEF at, first, last
  <2>6. /\ SubSeq(seg.data, first, last) \in Seq(Int)
        /\ Len(SubSeq(seg.data, first, last)) = IF first <= last THEN last - first + 1 ELSE 0
    BY <2>5, SubSeqProperties
  <2> QED
    BY <2>2, <2>6 DEF first, last
<1>5. 2 ^ (im.xlen * Byte) \in Nat /\ U64 \in Nat \ {0}
  BY Widths
<1>6. 0 <= addr /\ addr < 2 ^ (im.xlen * Byte)
  <2>1. \A s, n, w \in Nat : s + n <= w /\ 0 <= addr - s /\ addr - s + width <= n => 0 <= addr /\ addr < w
    OBVIOUS
  <2> QED
    BY <1>2, <1>3, <1>5, <2>1, Zenon
<1> DEFINE part(j) == IF j <= Len(bytes) THEN bytes[j] * 2 ^ (Byte * (j - 1)) ELSE 0
<1> HIDE DEF bytes, at
<1>7. \A j \in 1 .. 8 : part(j) \in Int
  <2> TAKE j \in 1 .. 8
  <2>1. CASE j <= Len(bytes)
    <3>1. bytes[j] \in Int
      BY <1>4, <2>1
    <3>2. Byte * (j - 1) \in 0 .. 8 * Byte
      <4>1. \A b \in Nat : \A n \in {1, 2, 3, 4, 5, 6, 7, 8} : b * (n - 1) \in 0 .. 8 * b
        OBVIOUS
      <4>2. j \in {1, 2, 3, 4, 5, 6, 7, 8} /\ Byte \in Nat
        BY ConstantsAssumption
      <4> QED
        BY <4>1, <4>2, Zenon
    <3>3. 2 ^ (Byte * (j - 1)) \in Int
      BY <3>2, PowersAssumption
    <3> HIDE DEF part
    <3>4. \A x, y \in Int : x * y \in Int
      OBVIOUS
    <3> QED
      BY <2>1, <3>1, <3>3, <3>4, Zenon DEF part
  <2>2. CASE ~(j <= Len(bytes))
    BY <2>2
  <2> QED
    BY <2>1, <2>2
<1>8. Value(bytes) = part(1) + part(2) + part(3) + part(4) + part(5) + part(6) + part(7) + part(8)
  BY Zenon DEF Value
<1> HIDE DEF part
<1>9. v \in Int
  <2>1. /\ part(1) \in Int /\ part(2) \in Int /\ part(3) \in Int /\ part(4) \in Int
        /\ part(5) \in Int /\ part(6) \in Int /\ part(7) \in Int /\ part(8) \in Int
    BY <1>7
  <2>3. part(1) + part(2) + part(3) + part(4) + part(5) + part(6) + part(7) + part(8) \in Int
    BY <2>1
  <2> QED
    BY <1>3, <1>8, <2>3, Zenon
<1> DEFINE range == 2 ^ (Byte * width)
<1>10. range \in Nat \ {0}
  <2>1. Byte * width \in 0 .. 8 * Byte
    BY ConstantsAssumption
  <2> QED
    BY <2>1, PowersAssumption
<1>11. extend_loaded_value(v, width, u) \in {((v % range) - range) % U64, v % range}
  BY DEF extend_loaded_value
<1> HIDE DEF range
<1>12. v % range \in Nat /\ (v % range) - range \in Int
  BY <1>9, <1>10
<1>13. ((v % range) - range) % U64 \in Nat
  BY <1>5, <1>12, DivMod
<1> QED
  BY <1>6, <1>11, <1>12, <1>13

-----------------------------------------------------------------------------
(* Register states and their order. *)

RegisterStates == {s \in [Regs -> SUBSET Nat] : s[0] = {0}}

\* w allows whatever v does.
Below(v, w) == is_constant(w) => is_constant(v) /\ v \subseteq w

StateBelow(s, t) == \A r \in Regs : Below(s[r], t[r])

\* Nothing is lost when two states are merged.
LEMMA MergeAbove ==
  ASSUME NEW s \in RegisterStates, NEW t \in RegisterStates
  PROVE  /\ RegisterState_merge(s, t) \in RegisterStates
         /\ StateBelow(s, RegisterState_merge(s, t)) /\ StateBelow(t, RegisterState_merge(s, t))
<1> DEFINE m == RegisterState_merge(s, t)
<1>1. 0 \in Regs
  BY ConstantsAssumption DEF Regs
<1>2. s \in [Regs -> SUBSET Nat] /\ t \in [Regs -> SUBSET Nat] /\ s[0] = {0} /\ t[0] = {0}
  BY DEF RegisterStates
<1>3. ASSUME NEW r \in Regs
      PROVE  m[r] \in SUBSET Nat /\ Below(s[r], m[r]) /\ Below(t[r], m[r]) /\ (r = 0 => m[r] = {0})
  <2>1. CASE r = 0
    <3>1. m[r] = {0}
      BY <1>2, <2>1 DEF RegisterState_merge
    <3> QED
      BY <1>2, <2>1, <3>1 DEF Below, is_constant
  <2>2. CASE r # 0
    <3>1. m[r] = RegisterValue_merge(s[r], t[r])
      BY <2>2 DEF RegisterState_merge
    <3>2. \/ m[r] = {}
          \/ m[r] = s[r] \cup t[r] /\ s[r] # {} /\ t[r] # {}
      BY <3>1 DEF RegisterValue_merge, Capped, is_constant, Unknown
    <3> HIDE DEF m
    <3> QED
      BY <1>2, <2>2, <3>2 DEF Below, is_constant, Unknown
  <2> QED
    BY <2>1, <2>2
<1>4. m = [r \in Regs |-> m[r]]
  BY DEF RegisterState_merge
<1> HIDE DEF m
<1>5. m \in RegisterStates
  BY <1>1, <1>3, <1>4 DEF RegisterStates
<1> QED
  BY <1>3, <1>5 DEF StateBelow, m

\* The order is transitive.
LEMMA BelowTransitive ==
  ASSUME NEW s, NEW t, NEW u, StateBelow(s, t), StateBelow(t, u)
  PROVE  StateBelow(s, u)
BY Zenon DEF StateBelow, Below

\* A state that knows nothing but x0 takes in every other.
LEMMA MergeNew ==
  ASSUME NEW t \in RegisterStates
  PROVE  RegisterState_merge(RegisterState_new, t) = RegisterState_new
<1>1. \A r \in Regs : r # 0 => RegisterValue_merge(Unknown, t[r]) = Unknown
  BY DEF RegisterValue_merge, is_constant
<1> QED
  BY <1>1 DEF RegisterState_merge, RegisterState_new

\* An instruction makes a register state of a register state.
LEMMA TransferType ==
  ASSUME NEW im \in Images, NEW s \in RegisterStates, NEW pc \in Nat, NEW i \in Instruction
  PROVE  transfer(im, s, pc, from_instr(i)) \in RegisterStates
<1> DEFINE d == from_instr(i)
           a == s[d.rs1]
           b == s[d.rs2]
           raw == read_readonly(im, add_signed(Min(a), d.imm), d.width)
           out == CASE d.kind = "Lui" -> {sign_extend_i32(d.imm)}
                    [] d.kind = "Auipc" -> {add_signed(pc, d.imm)}
                    [] d.kind = "Addi" -> Capped({add_signed(v, d.imm) : v \in a})
                    [] d.kind = "Add" -> Capped({(v + w) % U64 : v \in a, w \in b})
                    [] d.kind = "Move" -> a
                    [] d.kind = "Load" -> IF d.rs1 # 2 /\ is_constant(a)
                                          THEN {extend_loaded_value(v, d.width, d.is_unsigned) : v \in raw}
                                          ELSE Unknown
                    [] d.kind \in {"Jal", "Jalr"} -> {pc + d.size}
                    [] OTHER -> Unknown
<1>1. /\ d.rs1 \in Regs /\ d.rs2 \in Regs /\ d.rd \in Regs \cup {NoReg} /\ d.imm \in Int
      /\ d.size = i.size /\ (d.kind = "Load" => d.width \in {1, 2, 4, 8})
  BY DecodedType
<1>2. d.size \in Nat
  BY <1>1 DEF Instruction
<1>3. transfer(im, s, pc, d) = IF d.rd \in {NoReg, 0} THEN s ELSE [s EXCEPT ![d.rd] = out]
  BY DEF transfer
<1>4. d.is_unsigned \in BOOLEAN
  BY DEF from_instr
<1> HIDE DEF d
<1>5. s \in [Regs -> SUBSET Nat] /\ a \in SUBSET Nat /\ b \in SUBSET Nat
  BY <1>1 DEF RegisterStates
<1>6. U64 \in Nat \ {0}
  BY Widths
<1>7. \A x \in Int : x % U64 \in Nat
  BY <1>6, DivMod
<1>8. \A v \in Nat : add_signed(v, d.imm) \in Nat
  <2>1. \A v \in Nat : v + d.imm \in Int
    BY <1>1
  <2> QED
    BY <1>7, <2>1 DEF add_signed
<1>9. ASSUME d.kind = "Load", is_constant(a), NEW v \in raw
      PROVE  extend_loaded_value(v, d.width, d.is_unsigned) \in Nat
  <2>1. Min(a) \in Nat
    BY <1>5, <1>9, MinOf DEF is_constant, Unknown
  <2>2. add_signed(Min(a), d.imm) \in Int
    BY <1>8, <2>1
  <2> HIDE DEF a
  <2> QED
    BY <1>1, <1>4, <1>9, <2>2, LoadedType
<1> HIDE DEF a, b, raw
<1>10. {(v + w) % U64 : v \in a, w \in b} \in SUBSET Nat
  BY <1>5, <1>7
<1>11. {add_signed(v, d.imm) : v \in a} \in SUBSET Nat
  BY <1>5, <1>8
<1>12. out \in SUBSET Nat
  <2>1. \A S \in SUBSET Nat : Capped(S) \in SUBSET Nat
    BY DEF Capped, Unknown
  <2>2. sign_extend_i32(d.imm) \in Nat /\ add_signed(pc, d.imm) \in Nat /\ pc + d.size \in Nat
    BY <1>1, <1>2, <1>7, <1>8 DEF sign_extend_i32
  <2>3. CASE d.kind = "Load"
    BY <1>9, <2>3 DEF Unknown
  <2>4. CASE d.kind # "Load"
    BY <1>5, <1>10, <1>11, <2>1, <2>2, <2>4 DEF Unknown
  <2> QED
    BY <2>3, <2>4
<1> HIDE DEF out
<1>13. CASE d.rd \in {NoReg, 0}
  BY <1>3, <1>13 DEF d
<1>14. CASE ~(d.rd \in {NoReg, 0})
  <2>1. [s EXCEPT ![d.rd] = out] \in [Regs -> SUBSET Nat] /\ [s EXCEPT ![d.rd] = out][0] = s[0]
    <3>1. 0 \in Regs
      BY ConstantsAssumption DEF Regs
    <3> QED
      BY <1>1, <1>5, <1>12, <1>14, <3>1
  <2> QED
    BY ZenonT(30), <1>3, <1>14, <2>1 DEF RegisterStates, d
<1> QED
  BY <1>13, <1>14

-----------------------------------------------------------------------------
(* The worklist. *)

\* The edges from an address that waits for no visit, by its present state.
Propagated(pc) ==
  LET d == from_instr(scan.table[pc])
      succs == get_successors(pc, d, states[pc])
  IN  /\ pc \in DOMAIN successors /\ succs \subseteq successors[pc] /\ succs \subseteq DOMAIN states
      /\ \A t \in succs : StateBelow(transfer(image, states[pc], pc, d), states[t])

WorklistInv ==
  /\ image \in Images /\ scan = Scan(image)
  /\ \A pc \in DOMAIN states : states[pc] \in RegisterStates
  /\ worklist \subseteq DOMAIN states
  /\ \A pc \in image.entry_points : pc \in DOMAIN states /\ states[pc] = RegisterState_new
  /\ \A pc \in DOMAIN states \cap DOMAIN scan.table : pc \in worklist \/ Propagated(pc)

\* The entry points of the image are function entries, and the table is that
\* of the image.
LEMMA ScanOf ==
  ASSUME NEW im
  PROVE  Scan(im).table = Table(im) /\ im.entry_points \subseteq Scan(im).function_entries
BY ZenonT(30) DEF Scan, collect_potential_targets

\* The invariant holds at the start.
LEMMA WorklistInit == Init => WorklistInv
<1> SUFFICES ASSUME Init PROVE WorklistInv
  OBVIOUS
<1>1. RegisterState_new \in RegisterStates
  BY ConstantsAssumption DEF RegisterState_new, RegisterStates, Regs, Unknown
<1>2. image.entry_points \subseteq scan.function_entries
  BY ScanOf DEF Init
<1> QED
  BY <1>1, <1>2 DEF Init, WorklistInv

\* A visit keeps it.
LEMMA VisitKeeps ==
  ASSUME WorklistInv, NEW p \in worklist, Visit(p)
  PROVE  WorklistInv'
<1>1. image' = image /\ scan' = scan
  BY DEF Visit
<1>2. \A pc, d, s : get_successors(pc, d, s)' = get_successors(pc, d, s)
  BY SMTT(30), <1>1 DEF get_successors, jump_targets, func_internal_targets, return_targets
<1>3. CASE ~is_valid_pc(scan.table, p)
  <2>1. states' = states /\ successors' = successors /\ worklist' = worklist \ {p}
    BY <1>3 DEF Visit
  <2>2. p \notin DOMAIN scan.table
    BY <1>3 DEF is_valid_pc
  <2>3. \A pc : Propagated(pc) => Propagated(pc)'
    BY <1>1, <1>2, <2>1, Zenon DEF Propagated
  <2> QED
    BY <1>1, <2>1, <2>2, <2>3 DEF WorklistInv
<1>4. CASE is_valid_pc(scan.table, p)
  <2> DEFINE d == from_instr(scan.table[p])
             s == states[p]
             succs == get_successors(p, d, s)
             out == transfer(image, s, p, d)
             after == [t \in DOMAIN states \cup succs |->
                         IF t \notin succs THEN states[t]
                         ELSE IF t \in DOMAIN states THEN RegisterState_merge(states[t], out)
                         ELSE out]
  <2>1. /\ states' = after
        /\ worklist' = (worklist \ {p}) \cup Requeued(succs, out, after)
        /\ successors' = [c \in DOMAIN successors \cup {p} |->
                            (IF c \in DOMAIN successors THEN successors[c] ELSE {})
                              \cup (IF c = p THEN succs ELSE {})]
    BY ZenonT(30), <1>4 DEF Visit
  <2>2. p \in DOMAIN scan.table /\ p \in DOMAIN states /\ s \in RegisterStates
    BY <1>4 DEF is_valid_pc, WorklistInv
  <2>3. out \in RegisterStates
    <3>1. scan.table = Table(image) /\ image \in Images
      BY ScanOf DEF WorklistInv
    <3>2. p \in Nat /\ scan.table[p] \in Instruction
      BY <2>2, <3>1, TableType
    <3> QED
      BY <2>2, <3>1, <3>2, TransferType
  <2> HIDE DEF succs, out, s, d
  <2>4. /\ DOMAIN states' = DOMAIN states \cup succs
        /\ \A t \in DOMAIN states \ succs : states'[t] = states[t]
        /\ \A t \in DOMAIN states \cap succs : states'[t] = RegisterState_merge(states[t], out)
        /\ \A t \in succs \ DOMAIN states : states'[t] = out
    BY <2>1
  <2>5. \A t \in DOMAIN states' : states'[t] \in RegisterStates
    BY <2>3, <2>4, MergeAbove DEF WorklistInv
  <2>6. \A t \in DOMAIN states : StateBelow(states[t], states'[t])
    <3>1. \A t : StateBelow(states[t], states[t])
      BY Zenon DEF StateBelow, Below
    <3> QED
      BY <2>3, <2>4, <3>1, MergeAbove DEF WorklistInv
  <2>7. \A t \in succs : t \in DOMAIN states' /\ StateBelow(out, states'[t])
    <3>1. StateBelow(out, out)
      BY Zenon DEF StateBelow, Below
    <3> QED
      BY <2>3, <2>4, <3>1, MergeAbove DEF WorklistInv
  <2>8. \A t \in succs : t \in worklist' \/ (t \in DOMAIN states /\ states'[t] = states[t])
    BY <2>1 DEF Requeued
  <2>9. Requeued(succs, out, after) \subseteq succs
    BY DEF Requeued
  <2>10. worklist' \subseteq DOMAIN states'
    BY ZenonT(30), <2>1, <2>4, <2>9 DEF WorklistInv
  <2>11. \A pc \in image.entry_points : pc \in DOMAIN states' /\ states'[pc] = RegisterState_new
    BY <2>3, <2>4, MergeNew DEF WorklistInv
  <2>12. /\ \A c \in DOMAIN successors : c \in DOMAIN successors' /\ successors[c] \subseteq successors'[c]
         /\ p \in DOMAIN successors' /\ succs \subseteq successors'[p]
    BY <2>1
  <2>13. ASSUME NEW pc \in DOMAIN states' \cap DOMAIN scan.table, pc \notin worklist'
         PROVE  Propagated(pc)'
    <3> DEFINE e == from_instr(scan.table[pc])
    <3>1. pc \in DOMAIN states /\ states'[pc] = states[pc]
      BY <2>4, <2>8, <2>13
    <3>2. get_successors(pc, e, states[pc])' = get_successors(pc, e, states[pc])
      BY <1>1, <1>2, <3>1, Zenon
    <3>3. CASE pc = p
      <4>1. get_successors(pc, e, states[pc]) = succs /\ transfer(image, states[pc], pc, e) = out
        BY <3>3 DEF succs, out, s, d
      <4> QED
        BY <1>1, <2>7, <2>12, <3>1, <3>2, <3>3, <4>1 DEF Propagated
    <3>4. CASE pc # p
      <4>1. pc \notin worklist
        BY <2>1, <2>13, <3>4
      <4>2. Propagated(pc)
        BY <2>13, <3>1, <4>1 DEF WorklistInv
      <4> DEFINE q == get_successors(pc, e, states[pc])
                 o == transfer(image, states[pc], pc, e)
      <4>3. /\ pc \in DOMAIN successors /\ q \subseteq successors[pc] /\ q \subseteq DOMAIN states
            /\ \A t \in q : StateBelow(o, states[t])
        BY <4>2 DEF Propagated
      <4>4. transfer(image, states[pc], pc, e)' = o
        BY <1>1, <3>1
      <4> HIDE DEF q, o
      <4>5. pc \in DOMAIN successors' /\ q \subseteq successors'[pc] /\ q \subseteq DOMAIN states'
        BY <2>4, <2>12, <4>3
      <4>6. \A t \in q : StateBelow(o, states'[t])
        BY <2>6, <4>3, BelowTransitive
      <4> QED
        BY <1>1, <3>2, <4>4, <4>5, <4>6 DEF Propagated, q
    <3> QED
      BY <3>3, <3>4
  <2> HIDE DEF after
  <2> QED
    BY ZenonT(30), <1>1, <2>5, <2>10, <2>11, <2>13 DEF WorklistInv
<1> QED
  BY <1>3, <1>4

-----------------------------------------------------------------------------
(* The guest. *)

Covered(r, s) == \A x \in Regs : is_constant(s[x]) => r[x] \in {v % Width : v \in s[x]}

\* The guest runs only once the analysis is over, and what the analysis says
\* is true of it.
GuestInv ==
  guest # NotStarted =>
    /\ Analyzed
    /\ guest.regs \in [Regs -> Int]
    /\ Running /\ Followed => guest.pc \in DOMAIN states /\ Covered(guest.regs, states[guest.pc])

\* What is known of an instruction in the table.
LEMMA At ==
  ASSUME WorklistInv, NEW pc \in DOMAIN scan.table
  PROVE  LET d == from_instr(scan.table[pc])
         IN  /\ image \in Images /\ scan.table = Table(image)
             /\ pc \in Nat /\ scan.table[pc] \in Instruction
             /\ d.rs1 \in Regs /\ d.rs2 \in Regs /\ d.rd \in Regs \cup {NoReg} /\ d.imm \in Int
             /\ d.kind = "Load" => d.width \in {1, 2, 4, 8}
             /\ d.is_unsigned \in BOOLEAN
             /\ pc + d.size \in Nat /\ pc + d.size < Width
             /\ Width \in Nat \ {0} /\ U64 \in Nat \ {0}
             /\ \A x \in Int : (x % U64) % Width = x % Width
<1> DEFINE i == scan.table[pc]
           d == from_instr(i)
<1>1. image \in Images /\ scan.table = Table(image)
  BY ScanOf DEF WorklistInv
<1>2. /\ pc \in Nat /\ i \in Instruction /\ pc + i.size < U64
      /\ image.xlen = 4 => 2 * (pc + i.size) <= 2 ^ (4 * Byte)
  BY <1>1, TableType
<1>3. /\ Width \in Nat \ {0} /\ U64 \in Nat \ {0} /\ 2 ^ (4 * Byte) \in Nat \ {0}
      /\ image.xlen = 4 \/ (image.xlen = 8 /\ Width = U64)
      /\ \A x \in Int : (x % U64) % Width = x % Width
  BY <1>1, Widths DEF Width
<1>4. /\ d.rs1 \in Regs /\ d.rs2 \in Regs /\ d.rd \in Regs \cup {NoReg} /\ d.imm \in Int
      /\ d.size = i.size
      /\ d.kind = "Load" => d.width \in {1, 2, 4, 8}
  BY <1>2, DecodedType
<1>5. d.is_unsigned \in BOOLEAN
  BY DEF from_instr
<1>6. i.size \in {2, 4}
  BY <1>2 DEF Instruction
<1> HIDE DEF i, d
<1>7. pc + i.size \in Nat /\ pc + i.size < Width
  <2> DEFINE e == pc + i.size
  <2>0. e \in Nat /\ e < U64 /\ (image.xlen = 4 => 2 * e <= 2 ^ (4 * Byte))
    BY <1>2, <1>6
  <2> HIDE DEF e
  <2>1. CASE image.xlen = 4
    <3>1. Width = 2 ^ (4 * Byte)
      BY <2>1 DEF Width
    <3> QED
      BY SMTT(30), <1>3, <2>0, <2>1, <3>1 DEF e
  <2>2. CASE image.xlen = 8
    <3>1. Width = U64
      BY <1>3, <2>2
    <3> QED
      BY <2>0, <3>1, Zenon DEF e
  <2> QED
    BY <1>3, <2>1, <2>2
<1> QED
  BY <1>1, <1>2, <1>3, <1>4, <1>5, <1>7 DEF i, d

\* What an instruction may leave in its destination is a number.
LEMMA ResultsType ==
  ASSUME WorklistInv, NEW pc \in DOMAIN scan.table, NEW r \in [Regs -> Int],
         NEW v \in Results(pc, from_instr(scan.table[pc]), r)
  PROVE  v \in Int
<1> DEFINE d == from_instr(scan.table[pc])
           raw == read_readonly(image, (r[d.rs1] + d.imm) % Width, d.width)
<1>1. /\ image \in Images /\ pc \in Nat
      /\ d.rs1 \in Regs /\ d.rs2 \in Regs /\ d.imm \in Int
      /\ d.kind = "Load" => d.width \in {1, 2, 4, 8}
      /\ d.is_unsigned \in BOOLEAN /\ pc + d.size \in Nat /\ Width \in Nat \ {0}
  BY At
<1> HIDE DEF d
<1>2. \A x \in Int : x % Width \in Int
  BY <1>1, DivMod
<1>3. /\ d.imm % Width \in Int /\ (pc + d.imm) % Width \in Int
      /\ r[d.rs1] \in Int /\ (r[d.rs1] + d.imm) % Width \in Int
      /\ (r[d.rs1] + r[d.rs2]) % Width \in Int /\ pc + d.size \in Int
  BY <1>1, <1>2
<1>4. ASSUME d.kind = "Load", NEW w \in raw
      PROVE  extend_loaded_value(w, d.width, d.is_unsigned) % Width \in Int
  <2>1. extend_loaded_value(w, d.width, d.is_unsigned) \in Nat
    BY <1>1, <1>3, <1>4, LoadedType
  <2> QED
    BY <1>2, <2>1
<1>5. Wild \subseteq Int
  BY ConstantsAssumption
<1>6. v \in Results(pc, d, r)
  BY DEF d
<1> HIDE DEF raw
<1>7. CASE d.kind = "Load"
  <2>1. Results(pc, d, r) = IF raw = {} THEN Wild
                            ELSE {extend_loaded_value(w, d.width, d.is_unsigned) % Width : w \in raw}
    BY ZenonT(30), <1>7 DEF Results, raw
  <2>2. v \in Wild \/ \E w \in raw : v = extend_loaded_value(w, d.width, d.is_unsigned) % Width
    BY <1>6, <2>1
  <2> QED
    BY <1>4, <1>5, <1>7, <2>2, Zenon
<1>8. CASE d.kind # "Load"
  <2>1. \/ v \in {d.imm % Width, (pc + d.imm) % Width, (r[d.rs1] + d.imm) % Width,
                  (r[d.rs1] + r[d.rs2]) % Width, r[d.rs1], pc + d.size}
        \/ v \in Wild
    BY ZenonT(30), <1>6, <1>8 DEF Results
  <2> QED
    BY <1>3, <1>5, <2>1, Zenon
<1> QED
  BY <1>7, <1>8

\* The registers after an instruction are covered by the state that transfer
\* makes, if those before it were.
LEMMA ResultsCovered ==
  ASSUME WorklistInv, NEW pc \in DOMAIN scan.table, NEW s \in RegisterStates,
         NEW r \in [Regs -> Int], Covered(r, s),
         from_instr(scan.table[pc]).kind = "Load" => \A v, w \in s[from_instr(scan.table[pc]).rs1] : v = w,
         NEW v \in Results(pc, from_instr(scan.table[pc]), r)
  PROVE  LET d == from_instr(scan.table[pc])
         IN  Covered(IF d.rd \in {NoReg, 0} THEN r ELSE [r EXCEPT ![d.rd] = v], transfer(image, s, pc, d))
<1> DEFINE d == from_instr(scan.table[pc])
           a == s[d.rs1]
           b == s[d.rs2]
           raw == read_readonly(image, add_signed(Min(a), d.imm), d.width)
           out == CASE d.kind = "Lui" -> {sign_extend_i32(d.imm)}
                    [] d.kind = "Auipc" -> {add_signed(pc, d.imm)}
                    [] d.kind = "Addi" -> Capped({add_signed(x, d.imm) : x \in a})
                    [] d.kind = "Add" -> Capped({(x + y) % U64 : x \in a, y \in b})
                    [] d.kind = "Move" -> a
                    [] d.kind = "Load" -> IF d.rs1 # 2 /\ is_constant(a)
                                          THEN {extend_loaded_value(x, d.width, d.is_unsigned) : x \in raw}
                                          ELSE Unknown
                    [] d.kind \in {"Jal", "Jalr"} -> {pc + d.size}
                    [] OTHER -> Unknown
           read == read_readonly(image, (r[d.rs1] + d.imm) % Width, d.width)
<1>1. /\ image \in Images /\ pc \in Nat
      /\ d.rs1 \in Regs /\ d.rs2 \in Regs /\ d.rd \in Regs \cup {NoReg} /\ d.imm \in Int
      /\ d.kind = "Load" => d.width \in {1, 2, 4, 8}
      /\ d.is_unsigned \in BOOLEAN
      /\ pc + d.size \in Nat /\ pc + d.size < Width
      /\ Width \in Nat \ {0} /\ U64 \in Nat \ {0}
      /\ \A x \in Int : (x % U64) % Width = x % Width
  BY At
<1>2. transfer(image, s, pc, d) = IF d.rd \in {NoReg, 0} THEN s ELSE [s EXCEPT ![d.rd] = out]
  BY SMTT(30) DEF transfer
<1>3. v \in Results(pc, d, r) /\ (d.kind = "Load" => \A x, y \in a : x = y)
  OBVIOUS
<1> HIDE DEF d
<1>4. s \in [Regs -> SUBSET Nat] /\ a \in SUBSET Nat /\ b \in SUBSET Nat
  BY ZenonT(30), <1>1 DEF RegisterStates
<1>5. /\ is_constant(a) => \E x \in a : r[d.rs1] = x % Width
      /\ is_constant(b) => \E x \in b : r[d.rs2] = x % Width
  BY ZenonT(30), <1>1 DEF Covered
<1> HIDE DEF a, b, raw, read
<1>o1. /\ d.kind = "Lui" => out = {d.imm % U64}
       /\ d.kind = "Auipc" => out = {(pc + d.imm) % U64}
       /\ d.kind = "Addi" => out = Capped({add_signed(x, d.imm) : x \in a})
       /\ d.kind = "Add" => out = Capped({(x + y) % U64 : x \in a, y \in b})
       /\ d.kind = "Move" => out = a
  BY DEF sign_extend_i32, add_signed
<1>o2. /\ d.kind = "Load" => out = IF d.rs1 # 2 /\ is_constant(a)
                                   THEN {extend_loaded_value(x, d.width, d.is_unsigned) : x \in raw}
                                   ELSE Unknown
       /\ d.kind \in {"Jal", "Jalr"} => out = {pc + d.size}
       /\ d.kind \notin {"Lui", "Auipc", "Addi", "Add", "Move", "Load", "Jal", "Jalr"} => out = Unknown
  OBVIOUS
<1>r1. /\ d.kind = "Lui" => v = d.imm % Width
       /\ d.kind = "Auipc" => v = (pc + d.imm) % Width
       /\ d.kind = "Addi" => v = (r[d.rs1] + d.imm) % Width
       /\ d.kind = "Add" => v = (r[d.rs1] + r[d.rs2]) % Width
       /\ d.kind = "Move" => v = r[d.rs1]
       /\ d.kind \in {"Jal", "Jalr"} => v = pc + d.size
  BY ZenonT(30), <1>3 DEF Results
<1> HIDE DEF out
<1>6. ASSUME is_constant(out) PROVE \E x \in out : v = x % Width
  <2>1. CASE d.kind = "Lui"
    <3>1. v = d.imm % Width /\ out = {d.imm % U64}
      BY <1>o1, <1>r1, <2>1
    <3> QED
      BY <1>1, <3>1
  <2>2. CASE d.kind = "Auipc"
    <3>1. v = (pc + d.imm) % Width /\ out = {(pc + d.imm) % U64}
      BY <1>o1, <1>r1, <2>2
    <3>2. pc + d.imm \in Int
      BY SMTT(30), <1>1
    <3> QED
      BY ZenonT(30), <1>1, <3>1, <3>2
  <2>3. CASE d.kind = "Addi"
    <3>1. v = (r[d.rs1] + d.imm) % Width /\ out = Capped({add_signed(x, d.imm) : x \in a})
      BY SMTT(30), <1>o1, <1>r1, <2>3
    <3>2. out = {add_signed(x, d.imm) : x \in a} /\ is_constant(a)
      BY <1>6, <3>1 DEF Capped, is_constant, Unknown
    <3>3. PICK x \in a : r[d.rs1] = x % Width
      BY <1>5, <3>2
    <3>4. x \in Int /\ x + d.imm \in Int
      BY SMTT(30), <1>1, <1>4
    <3>5. v = ((x + d.imm) % U64) % Width
      <4>1. ((x % Width) + d.imm) % Width = (x + d.imm) % Width
        BY <1>1, <3>4, ModAdd, Zenon
      <4>2. ((x + d.imm) % U64) % Width = (x + d.imm) % Width
        BY <1>1, <3>4, Zenon
      <4> QED
        BY <3>1, <3>3, <4>1, <4>2, Zenon
    <3> QED
      BY <3>2, <3>5 DEF add_signed
  <2>4. CASE d.kind = "Add"
    <3>1. v = (r[d.rs1] + r[d.rs2]) % Width /\ out = Capped({(x + y) % U64 : x \in a, y \in b})
      BY SMTT(30), <1>o1, <1>r1, <2>4
    <3>2. out = {(x + y) % U64 : x \in a, y \in b} /\ is_constant(a) /\ is_constant(b)
      BY <1>6, <3>1 DEF Capped, is_constant, Unknown
    <3>3. PICK x \in a : r[d.rs1] = x % Width
      BY <1>5, <3>2
    <3>4. PICK y \in b : r[d.rs2] = y % Width
      BY <1>5, <3>2
    <3>5. x \in Int /\ y \in Int /\ x + y \in Int /\ y % Width \in Int
      BY <1>1, <1>4, DivMod
    <3>6. ((x % Width) + (y % Width)) % Width = (x + (y % Width)) % Width
      BY <1>1, <3>5, ModAdd, Zenon
    <3>7. x + (y % Width) = (y % Width) + x /\ y + x = x + y
      BY <3>5
    <3>8. ((y % Width) + x) % Width = (y + x) % Width
      BY <1>1, <3>5, ModAdd, Zenon
    <3>9. v = ((x + y) % U64) % Width
      BY <1>1, <3>1, <3>3, <3>4, <3>5, <3>6, <3>7, <3>8, Zenon
    <3> QED
      BY SMTT(30), <3>2, <3>9
  <2>5. CASE d.kind = "Move"
    <3>1. v = r[d.rs1] /\ out = a
      BY <1>o1, <1>r1, <2>5
    <3> QED
      BY ZenonT(30), <1>5, <1>6, <3>1
  <2>6. CASE d.kind = "Load"
    <3>1. out = IF d.rs1 # 2 /\ is_constant(a)
                THEN {extend_loaded_value(x, d.width, d.is_unsigned) : x \in raw} ELSE Unknown
      BY ZenonT(30), <1>o2, <2>6
    <3>2. is_constant(a) /\ out = {extend_loaded_value(x, d.width, d.is_unsigned) : x \in raw} /\ raw # {}
      BY <1>6, <3>1 DEF is_constant, Unknown
    <3>3. PICK x \in a : r[d.rs1] = x % Width
      BY <1>5, <3>2
    <3>4. Min(a) \in a
      BY ZenonT(30), <1>4, <3>2, MinOf DEF is_constant, Unknown
    <3>5. Min(a) = x /\ x \in Int /\ x + d.imm \in Int
      <4>1. Min(a) = x
        BY <1>3, <2>6, <3>4, Zenon
      <4> QED
        BY SMTT(30), <1>1, <1>4, <4>1
    <3> DEFINE addr == (x + d.imm) % U64
    <3>6. raw = read_readonly(image, addr, d.width)
      BY <3>5 DEF raw, add_signed
    <3>7. addr \in Int
      BY ZenonT(30), <1>1, <3>5, DivMod
    <3>8. addr % Width = (x + d.imm) % Width
      BY ZenonT(30), <1>1, <3>5
    <3>9. (r[d.rs1] + d.imm) % Width = (x + d.imm) % Width
      <4>1. ((x % Width) + d.imm) % Width = (x + d.imm) % Width
        BY <1>1, <3>5, ModAdd, Zenon
      <4> QED
        BY <3>3, <4>1, Zenon
    <3> HIDE DEF addr
    <3>10. 0 <= addr /\ addr < Width
      BY ZenonT(30), <1>1, <2>6, <3>2, <3>6, <3>7, LoadedType DEF Width
    <3>11. addr % Width = addr
      BY ZenonT(30), <1>1, <3>7, <3>10, ModSmall
    <3>12. read = raw
      BY <3>6, <3>8, <3>9, <3>11 DEF read
    <3>13. Results(pc, d, r) = IF read = {} THEN Wild
                               ELSE {extend_loaded_value(w, d.width, d.is_unsigned) % Width : w \in read}
      BY ZenonT(30), <2>6 DEF Results, read
    <3> QED
      BY ZenonT(30), <1>3, <3>2, <3>12, <3>13
  <2>7. CASE d.kind \in {"Jal", "Jalr"}
    <3>1. v = pc + d.size /\ out = {pc + d.size}
      BY ZenonT(30), <1>o2, <1>r1, <2>7
    <3>2. (pc + d.size) % Width = pc + d.size
      <4> DEFINE e == pc + d.size
      <4>1. e \in Nat /\ e < Width /\ Width \in Nat \ {0}
        BY <1>1
      <4> HIDE DEF e
      <4>2. e % Width = e
        BY <4>1, ModSmall
      <4> QED
        BY <4>2 DEF e
    <3> QED
      BY ZenonT(30), <3>1, <3>2
  <2>8. CASE d.kind \notin {"Lui", "Auipc", "Addi", "Add", "Move", "Load", "Jal", "Jalr"}
    <3>1. out = Unknown
      BY <1>o2, <2>8
    <3> QED
      BY <1>6, <3>1 DEF is_constant
  <2> QED
    BY ZenonT(30), <2>1, <2>2, <2>3, <2>4, <2>5, <2>6, <2>7, <2>8
<1>7. CASE d.rd \in {NoReg, 0}
  BY <1>2, <1>7 DEF d
<1>8. CASE ~(d.rd \in {NoReg, 0})
  <2>1. Covered([r EXCEPT ![d.rd] = v], [s EXCEPT ![d.rd] = out])
    <3> SUFFICES ASSUME NEW x \in Regs, is_constant([s EXCEPT ![d.rd] = out][x])
                 PROVE  [r EXCEPT ![d.rd] = v][x] \in {y % Width : y \in [s EXCEPT ![d.rd] = out][x]}
      BY DEF Covered
    <3>1. CASE x = d.rd
      BY ZenonT(30), <1>4, <1>6, <3>1
    <3>2. CASE x # d.rd
      BY <1>4, <3>2 DEF Covered
    <3> QED
      BY <3>1, <3>2
  <2> QED
    BY ZenonT(30), <1>2, <1>8, <2>1 DEF d
<1> QED
  BY ZenonT(30), <1>7, <1>8

\* The analysis finds the target of a direct jump or branch.
LEMMA DirectTarget ==
  ASSUME WorklistInv, NEW pc \in DOMAIN scan.table, NEW t \in DOMAIN scan.table,
         t = (pc + from_instr(scan.table[pc]).imm) % Width
  PROVE  t = add_signed(pc, from_instr(scan.table[pc]).imm)
<1> DEFINE i == scan.table[pc]
           imm == from_instr(i).imm
           H == 2 ^ (4 * Byte)
<1>1. image \in Images /\ scan.table = Table(image) /\ pc \in Nat /\ t \in Nat /\ i \in Instruction
  BY At
<1>2. imm \in Int /\ -H <= 2 * imm /\ 2 * imm < H
  BY <1>1, DecodedType
<1>3. /\ H \in Nat \ {0} /\ U64 \in Nat \ {0} /\ Width \in Nat \ {0}
      /\ image.xlen = 4 \/ (image.xlen = 8 /\ Width = U64)
      /\ \A x \in Int : (x % U64) % Width = x % Width
  BY <1>1, Widths DEF Width
<1> HIDE DEF imm, i
<1>4. pc + imm \in Int
  BY <1>1, <1>2
<1>5. t = (pc + imm) % Width
  BY DEF imm, i
<1>6. CASE Width = U64
  BY <1>5, <1>6 DEF add_signed, imm, i
<1>7. CASE image.xlen = 4
  <2>1. Width = H
    BY <1>7 DEF Width
  <2>2. 2 * pc < H /\ 2 * t < H
    <3>1. ASSUME NEW q \in DOMAIN scan.table PROVE 2 * q < H
      <4> DEFINE z == Table(image)[q].size
      <4>1. q \in Nat /\ Table(image)[q] \in Instruction /\ 2 * (q + z) <= H
        BY <1>1, <1>7, <3>1, TableType
      <4>2. z \in {2, 4}
        BY <4>1 DEF Instruction
      <4> HIDE DEF z, H
      <4> QED
        BY <1>3, <4>1, <4>2
    <3> QED
      BY <3>1
  <2> HIDE DEF H
  <2>3. CASE pc + imm < 0
    <3>1. (pc + imm) % H = pc + imm + H
      <4>1. -H <= pc + imm
        BY <1>1, <1>2, <1>3
      <4> QED
        BY ZenonT(30), <1>3, <1>4, <2>3, <4>1, ModSmall
    <3>2. t = pc + imm + H
      BY ZenonT(30), <1>5, <2>1, <3>1
    <3> QED
      BY <1>1, <1>2, <1>3, <2>2, <3>2
  <2>4. CASE 0 <= pc + imm
    <3>1. pc + imm < H
      BY <1>1, <1>2, <1>3, <2>2
    <3>2. (pc + imm) % H = pc + imm
      BY ZenonT(30), <1>3, <1>4, <2>4, <3>1, ModSmall
    <3>3. H <= U64
      <4>1. U64 = H * H
        BY PowersAssumption DEF H
      <4>2. \A n \in Nat \ {0} : n <= n * n
        OBVIOUS
      <4> QED
        BY <1>3, <4>1, <4>2
    <3>4. pc + imm < U64
      BY <1>3, <1>4, <3>1, <3>3
    <3>5. (pc + imm) % U64 = pc + imm
      BY ZenonT(30), <1>3, <1>4, <2>4, <3>4, ModSmall
    <3> QED
      BY <1>5, <2>1, <3>2, <3>5 DEF add_signed, imm, i
  <2> QED
    BY <1>4, <2>3, <2>4
<1> QED
  BY ZenonT(30), <1>3, <1>6, <1>7

\* Where the guest goes next is among the successors.
LEMMA TargetsFollowed ==
  ASSUME WorklistInv, Followed, NEW pc \in DOMAIN states \cap DOMAIN scan.table,
         NEW r \in [Regs -> Int], Covered(r, states[pc]),
         NEW t \in Targets(pc, from_instr(scan.table[pc]), r), t \in DOMAIN scan.table
  PROVE  t \in get_successors(pc, from_instr(scan.table[pc]), states[pc])
<1> DEFINE d == from_instr(scan.table[pc])
           a == states[pc][d.rs1]
           direct == (pc + d.imm) % Width
           through == Even((r[d.rs1] + d.imm) % Width)
           next == IF is_call(d) THEN {pc + d.size} ELSE {}
<1>1. /\ pc \in Nat /\ d.rs1 \in Regs /\ d.imm \in Int
      /\ Width \in Nat \ {0} /\ U64 \in Nat \ {0}
      /\ \A x \in Int : (x % U64) % Width = x % Width
  BY ZenonT(30), At
<1>2. /\ d.kind = "Jalr" => \A x \in a :
           is_valid_pc(scan.table, Even((x + d.imm) % Width)) => add_signed(x, d.imm) < Width
      /\ d.kind = "Jalr" /\ ~is_constant(a) => successors[pc] \subseteq get_successors(pc, d, states[pc])
  BY ZenonT(30) DEF Followed, Granted
<1>3. t = direct => t = add_signed(pc, d.imm)
  BY ZenonT(30), DirectTarget
<1>4. states[pc] \in [Regs -> SUBSET Nat] /\ a \in SUBSET Nat
  BY ZenonT(30), <1>1 DEF WorklistInv, RegisterStates
<1>5. /\ d.kind = "Jal" => t = direct
      /\ d.kind = "Jalr" => t = through /\ (is_constant(a) \/ t \in successors[pc])
      /\ d.kind = "Branch" => t = direct \/ t = pc + d.size
      /\ d.kind \notin {"Jal", "Jalr", "Branch"} => t = pc + d.size
  BY DEF Targets
<1> HIDE DEF d
<1>6. CASE d.kind = "Jal"
  <2>1. t = add_signed(pc, d.imm)
    BY ZenonT(30), <1>3, <1>5, <1>6
  <2> QED
    BY <1>6, <2>1 DEF get_successors, d
<1>7. CASE d.kind = "Branch"
  <2>1. t = add_signed(pc, d.imm) \/ t = pc + d.size
    BY <1>3, <1>5, <1>7
  <2>2. get_successors(pc, d, states[pc]) = ({add_signed(pc, d.imm)} \cap DOMAIN scan.table) \cup {pc + d.size}
    BY ZenonT(30), <1>7 DEF get_successors
  <2> QED
    BY <2>1, <2>2 DEF d
<1>8. CASE d.kind = "Jalr" /\ ~is_constant(a)
  BY ZenonT(30), <1>2, <1>5, <1>8 DEF d
<1>9. CASE d.kind = "Jalr" /\ is_constant(a)
  <2>1. get_successors(pc, d, states[pc]) =
          ({Even(add_signed(x, d.imm)) : x \in a} \cap DOMAIN scan.table) \cup next
    BY <1>9 DEF get_successors
  <2>2. PICK x \in a : r[d.rs1] = x % Width
    BY <1>1, <1>9 DEF Covered
  <2> HIDE DEF a
  <2>3. x \in Int /\ x + d.imm \in Int
    BY SMTT(30), <1>1, <1>4
  <2>4. ((x % Width) + d.imm) % Width = (x + d.imm) % Width
    BY <1>1, <2>3, ModAdd, Zenon
  <2>5. t = Even((x + d.imm) % Width)
    BY ZenonT(30), <1>5, <1>9, <2>2, <2>4
  <2>6. add_signed(x, d.imm) < Width
    BY ZenonT(30), <1>2, <1>9, <2>5 DEF is_valid_pc
  <2> DEFINE y == (x + d.imm) % U64
  <2>7. y \in Int /\ 0 <= y /\ y < Width /\ y % Width = (x + d.imm) % Width
    <3>1. y \in 0 .. U64 - 1 /\ y % Width = (x + d.imm) % Width
      BY <1>1, <2>3, DivMod, Zenon
    <3>2. y < Width
      BY <2>6 DEF add_signed
    <3> HIDE DEF y
    <3> QED
      BY <1>1, <3>1, <3>2
  <2> HIDE DEF y
  <2>8. y % Width = y
    BY ZenonT(30), <1>1, <2>7, ModSmall
  <2>9. t = Even(add_signed(x, d.imm))
    BY ZenonT(30), <2>5, <2>7, <2>8 DEF y, add_signed
  <2> QED
    BY <2>1, <2>9 DEF d
<1>10. CASE d.kind \notin {"Jal", "Jalr", "Branch"}
  <2>1. get_successors(pc, d, states[pc]) = {pc + d.size}
    BY ZenonT(30), <1>10 DEF get_successors
  <2> QED
    BY <1>5, <1>10, <2>1 DEF d
<1> QED
  BY ZenonT(30), <1>6, <1>7, <1>8, <1>9, <1>10

\* A step of the guest keeps it covered.
LEMMA StepCovered ==
  ASSUME WorklistInv, GuestInv, Followed, Step, Running'
  PROVE  /\ guest'.pc \in get_successors(guest.pc, from_instr(scan.table[guest.pc]), states[guest.pc])
         /\ guest.pc \in DOMAIN successors
         /\ get_successors(guest.pc, from_instr(scan.table[guest.pc]), states[guest.pc])
              \subseteq successors[guest.pc]
         /\ guest'.pc \in DOMAIN states /\ Covered(guest'.regs, states[guest'.pc])
<1> DEFINE pc == guest.pc
           r == guest.regs
           d == from_instr(scan.table[pc])
           s == states[pc]
<1>1. /\ guest # NotStarted /\ pc \in DOMAIN scan.table /\ scan' = scan
      /\ pc \in DOMAIN states /\ r \in [Regs -> Int] /\ Covered(r, s)
  BY ZenonT(30) DEF Step, Running, GuestInv, is_valid_pc
<1>2. PICK t \in Targets(pc, d, r), v \in Results(pc, d, r) :
        guest' = [pc |-> t, steps |-> guest.steps + 1,
                  regs |-> IF d.rd \in {NoReg, 0} THEN r ELSE [r EXCEPT ![d.rd] = v]]
  BY DEF Step
<1> DEFINE regs == IF d.rd \in {NoReg, 0} THEN r ELSE [r EXCEPT ![d.rd] = v]
<1>3. guest'.pc = t /\ guest'.regs = regs
  BY ZenonT(30), <1>2
<1>4. t \in DOMAIN scan.table
  BY ZenonT(30), <1>1, <1>3 DEF Running, is_valid_pc
<1>5. worklist = {} /\ Propagated(pc) /\ s \in RegisterStates
  BY ZenonT(30), <1>1 DEF Followed, WorklistInv
<1>6. d.kind = "Load" => \A x, y \in s[d.rs1] : x = y
  BY ZenonT(30), <1>1 DEF Followed, Granted
<1>7. t \in get_successors(pc, d, s)
  BY ZenonT(30), <1>1, <1>4, TargetsFollowed
<1>8. Covered(regs, transfer(image, s, pc, d))
  BY ZenonT(30), <1>1, <1>5, <1>6, ResultsCovered
<1>9. /\ pc \in DOMAIN successors /\ get_successors(pc, d, s) \subseteq successors[pc]
      /\ t \in DOMAIN states /\ StateBelow(transfer(image, s, pc, d), states[t])
  BY <1>5, <1>7 DEF Propagated
<1> HIDE DEF regs, d, s, pc
<1>10. Covered(regs, states[t])
  BY <1>8, <1>9, Zenon DEF Covered, StateBelow, Below
<1> QED
  BY ZenonT(30), <1>3, <1>7, <1>9, <1>10 DEF d, s, pc

\* Every step keeps the two invariants.
LEMMA StepKeepsInvs ==
  ASSUME WorklistInv, GuestInv, [Next]_vars
  PROVE  WorklistInv' /\ GuestInv'
<1>1. ASSUME NEW p \in worklist, Visit(p) PROVE WorklistInv' /\ GuestInv'
  <2>1. guest = NotStarted /\ guest' = guest
    BY <1>1 DEF Visit, GuestInv
  <2> QED
    BY ZenonT(30), <1>1, <2>1, VisitKeeps DEF GuestInv
<1>2. ASSUME UNCHANGED <<image, scan, analysis>>
      PROVE  /\ WorklistInv' /\ (Analyzed => Analyzed') /\ (Followed' => Followed)
             /\ states' = states /\ scan' = scan
             /\ \A r, s : Covered(r, s) => Covered(r, s)'
  <2>1. /\ image' = image /\ scan' = scan /\ states' = states /\ worklist' = worklist
        /\ idx' = idx /\ successors' = successors
    BY <1>2 DEF analysis
  <2>2. \A pc, d, s : get_successors(pc, d, s)' = get_successors(pc, d, s)
    BY <2>1 DEF get_successors, jump_targets, func_internal_targets, return_targets
  <2>3. \A pc : Propagated(pc) => Propagated(pc)'
    BY <2>1, <2>2, Zenon DEF Propagated
  <2>4. WorklistInv'
    BY <2>1, <2>3, Zenon DEF WorklistInv
  <2>5. Analyzed => Analyzed'
    BY <2>1 DEF Analyzed, max_iterations
  <2>6. \A r, s : Covered(r, s) => Covered(r, s)'
    BY <2>1 DEF Covered, Width
  <2>7. Followed' => Followed
    <3>1. Width' = Width
      BY ZenonT(30), <2>1 DEF Width
    <3>2. ASSUME NEW pc, Granted(pc)' PROVE Granted(pc)
      <4>1. get_successors(pc, from_instr(scan.table[pc]), states[pc])'
              = get_successors(pc, from_instr(scan.table[pc]), states[pc])
        BY <2>1, <2>2, Zenon
      <4> QED
        BY ZenonT(30), <2>1, <3>1, <3>2, <4>1 DEF Granted
    <3> QED
      BY <2>1, <3>2 DEF Followed
  <2> QED
    BY <2>1, <2>4, <2>5, <2>6, <2>7
<1>3. CASE Start
  <2>1. UNCHANGED <<image, scan, analysis>> /\ Analyzed
    BY <1>3 DEF Start
  <2>2. PICK pc \in image.entry_points, w \in [Regs \ {0} -> Wild] :
          guest' = [pc |-> pc, regs |-> [x \in Regs |-> IF x = 0 THEN 0 ELSE w[x]], steps |-> 0]
    BY ZenonT(30), <1>3 DEF Start
  <2> DEFINE r == [x \in Regs |-> IF x = 0 THEN 0 ELSE w[x]]
  <2>3. r \in [Regs -> Int]
    <3>1. ASSUME NEW x \in Regs, x # 0 PROVE w[x] \in Int
      BY ZenonT(30), <3>1, ConstantsAssumption
    <3> QED
      BY <3>1
  <2>4. guest'.pc = pc /\ guest'.regs = r
    BY <2>2
  <2>5. pc \in DOMAIN states /\ states[pc] = RegisterState_new
    BY DEF WorklistInv
  <2>6. Covered(r, RegisterState_new)
    <3>1. Width \in Nat \ {0}
      BY Widths DEF WorklistInv, Width
    <3>2. 0 % Width = 0
      BY <3>1, ModSmall
    <3> SUFFICES ASSUME NEW x \in Regs, is_constant(RegisterState_new[x])
                 PROVE  r[x] \in {v % Width : v \in RegisterState_new[x]}
      BY DEF Covered
    <3>3. x = 0
      BY DEF RegisterState_new, is_constant
    <3> QED
      BY <3>2, <3>3 DEF RegisterState_new
  <2> HIDE DEF r
  <2> QED
    BY ZenonT(30), <1>2, <2>1, <2>3, <2>4, <2>5, <2>6 DEF GuestInv
<1>4. CASE Step
  <2>1. UNCHANGED <<image, scan, analysis>> /\ guest # NotStarted /\ Analyzed
    BY <1>4 DEF Step, Running, GuestInv
  <2>2. guest'.regs \in [Regs -> Int]
    <3> DEFINE d == from_instr(scan.table[guest.pc])
    <3>1. guest.regs \in [Regs -> Int] /\ guest.pc \in DOMAIN scan.table
      BY <1>4, <2>1 DEF GuestInv, Step, Running, is_valid_pc
    <3>2. PICK t \in Targets(guest.pc, d, guest.regs), v \in Results(guest.pc, d, guest.regs) :
            guest' = [pc |-> t, steps |-> guest.steps + 1,
                      regs |-> IF d.rd \in {NoReg, 0} THEN guest.regs ELSE [guest.regs EXCEPT ![d.rd] = v]]
      BY ZenonT(30), <1>4 DEF Step
    <3>3. v \in Int
      BY <3>1, ResultsType
    <3> HIDE DEF d
    <3> QED
      BY ZenonT(30), <3>1, <3>2, <3>3
  <2>3. ASSUME Running', Followed'
        PROVE  guest'.pc \in DOMAIN states' /\ Covered(guest.regs, states[guest.pc])'
    <3>1. Followed
      BY <1>2, <2>1, <2>3
    <3> QED
      <4>1. guest'.pc \in DOMAIN states /\ Covered(guest'.regs, states[guest'.pc])
        BY <1>4, <2>3, <3>1, StepCovered
      <4>2. states' = states /\ Width' = Width
        BY <2>1 DEF analysis, Width
      <4> QED
        BY <4>1, <4>2, Zenon DEF Covered
  <2> QED
    BY ZenonT(30), <1>2, <2>1, <2>2, <2>3 DEF GuestInv
<1>5. CASE UNCHANGED vars
  <2>1. UNCHANGED <<image, scan, analysis>> /\ guest' = guest
    BY <1>5 DEF vars, analysis
  <2>2. Running' => Running
    BY <1>2, <2>1 DEF Running
  <2> QED
    BY <1>2, <2>1, <2>2 DEF GuestInv
<1> QED
  BY ZenonT(30), <1>1, <1>3, <1>4, <1>5 DEF Next

\* Both invariants hold throughout.
LEMMA InvsHold == Spec => [](WorklistInv /\ GuestInv)
<1>1. Init => WorklistInv /\ GuestInv
  BY WorklistInit DEF Init, GuestInv
<1>2. WorklistInv /\ GuestInv /\ [Next]_vars => (WorklistInv /\ GuestInv)'
  BY StepKeepsInvs
<1> QED
  BY <1>1, <1>2, PTL DEF Spec

\* For every image and every order of the worklist, a register of which the
\* analysis says that it holds one of some constants at an address holds one
\* of them whenever the guest gets there, and the guest gets nowhere else
\* (analysis/mod.rs worklist, data.rs transfer and merge).
THEOREM ValuesSound == Spec => []ValuesCovered
<1>1. WorklistInv /\ GuestInv => ValuesCovered
  BY DEF ValuesCovered, GuestInv, Running, Covered
<1> QED
  BY <1>1, InvsHold, PTL

\* For every image and every order of the worklist, a jump or branch of the
\* guest lands on a block leader or where no instruction is
\* (analysis/mod.rs get_successors and compute_leaders).
THEOREM LeadersSound == Spec => JumpsLandOnLeaders
<1>1. WorklistInv /\ GuestInv /\ [Next]_vars =>
        [(Followed /\ Step /\ is_control_flow(from_instr(scan.table[guest.pc]))
            /\ is_valid_pc(scan.table, guest'.pc)) => guest'.pc \in compute_leaders]_vars
  <2> SUFFICES ASSUME WorklistInv, GuestInv, Followed, Step, is_valid_pc(scan.table, guest'.pc),
                      is_control_flow(from_instr(scan.table[guest.pc]))
               PROVE  guest'.pc \in compute_leaders
    OBVIOUS
  <2>1. Running'
    <3>1. scan' = scan /\ DOMAIN guest' = {"pc", "regs", "steps"}
      BY DEF Step
    <3>2. guest' # NotStarted
      BY SMTT(30), <3>1 DEF NotStarted
    <3> QED
      BY ZenonT(30), <3>1, <3>2 DEF Running, NotStarted, NoReg
  <2>2. guest'.pc \in successors[guest.pc] /\ guest.pc \in DOMAIN successors
    BY <2>1, StepCovered
  <2> QED
    BY <2>2 DEF compute_leaders
<1> QED
  BY <1>1, InvsHold, PTL DEF Spec, JumpsLandOnLeaders
=============================================================================
