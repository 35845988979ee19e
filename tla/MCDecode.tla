-------------------------------- MODULE MCDecode --------------------------------
(***************************************************************************)
(* The decoders of RV32 and RV64 against the instruction formats.  Two     *)
(* kinds of input are decoded by the standard registry: the encoding of    *)
(* every legal instruction (Assemble), and words as they come, legal or    *)
(* not (Fetch): every 16-bit parcel, and the 32-bit words of the listed    *)
(* field values, also cut short by the end of a segment.                   *)
(***************************************************************************)
EXTENDS Integers, Sequences, FiniteSets

Regs == {0, 2, 9, 15, 31}
Csrs == {0, 768, 3072, 4095}
(* Immediates of n bits: all of up to 6, the corners and single bits of the longer. *)
Imms(n) == IF n <= 6 THEN 0..(2^n - 1)
           ELSE {0, 2^n - 1, 2^(n - 1) - 1} \cup {2^k : k \in 0..(n - 1)} \cup {2^n - 2^k : k \in 1..(n - 1)}

E32 == INSTANCE Encoding WITH XLEN <- 32, RegSample <- Regs, CsrSample <- Csrs, ImmSample <- Imms
E64 == INSTANCE Encoding WITH XLEN <- 64, RegSample <- Regs, CsrSample <- Csrs, ImmSample <- Imms
D32 == INSTANCE Decode WITH Xlen <- 32
D64 == INSTANCE Decode WITH Xlen <- 64

Opcodes == {3, 15, 19, 23, 27, 35, 47, 51, 55, 59, 99, 103, 111, 115, 119}
Funct7s == (0..8) \cup (16..21) \cup {24, 25, 32, 33, 36, 37, 48, 49, 52, 53, 64, 80, 96, 112, 127}
Word(op, r, f3, rs2, f7) == [n |-> 4, lo |-> op + 2^7 * 3 * r + 2^12 * f3, hi |-> r + 2^4 * rs2 + 2^9 * f7]
CutShort == {[n |-> n, lo |-> lo, hi |-> 0] : n \in 0..3, lo \in {1, 3, 19, 51, 55, 115}}

Layouts32 == [op \in E32!Instructions |-> E32!LayoutOf(op)]
Layouts64 == [op \in E64!Instructions |-> E64!LayoutOf(op)]
Operands32 == [op \in E32!Instructions |->
                 [rd |-> E32!Rds(op), rs1 |-> E32!Rs1s(op), rs2 |-> E32!Rs2s(op), imm |-> E32!ImmsOf(op), csr |-> E32!Csrs(op)]]
Operands64 == [op \in E64!Instructions |->
                 [rd |-> E64!Rds(op), rs1 |-> E64!Rs1s(op), rs2 |-> E64!Rs2s(op), imm |-> E64!ImmsOf(op), csr |-> E64!Csrs(op)]]

VARIABLES xlen, bytes, asked, got, claims
vars == <<xlen, bytes, asked, got, claims>>

None == [op |-> ""]
Decoded(b) == IF xlen = 32 THEN D32!decode(b, D32!Standard) ELSE D64!decode(b, D64!Standard)
Claims(b) == Cardinality(IF xlen = 32 THEN D32!Claimants(b, D32!Standard) ELSE D64!Claimants(b, D64!Standard))
Layouts == IF xlen = 32 THEN Layouts32 ELSE Layouts64
Encoded(i) == E64!Encode(Layouts[i.op], i)
Allowed(i) == IF xlen = 32 THEN E32!Allowed(i) ELSE E64!Allowed(i)

Init == xlen \in {32, 64} /\ bytes = [n |-> 0, lo |-> 0, hi |-> 0] /\ asked = None /\ got = None /\ claims = 0
Take(b, i) == bytes' = b /\ asked' = i /\ got' = Decoded(b) /\ claims' = Claims(b) /\ UNCHANGED xlen
Start == bytes.n = 0 /\ bytes.lo = 0
Assemble ==
    /\ Start
    /\ \E op \in DOMAIN Layouts :
       LET o == IF xlen = 32 THEN Operands32[op] ELSE Operands64[op]
       IN \E rd \in o.rd, rs1 \in o.rs1, rs2 \in o.rs2, imm \in o.imm, csr \in o.csr :
          LET i == IF xlen = 32 THEN E32!With(op, rd, rs1, rs2, imm, csr) ELSE E64!With(op, rd, rs1, rs2, imm, csr)
          IN /\ Allowed(i)
             /\ Take(Encoded(i), i)
Fetch16 == Start /\ \E q \in 0..2 : \E h \in 0..(2^14 - 1) : Take([n |-> 2, lo |-> 4 * h + q, hi |-> 0], None)
Fetch32 == Start /\ \E op \in Opcodes, r \in {0, 1}, f3 \in 0..7, rs2 \in {0, 1, 2, 5, 7, 15, 24}, f7 \in Funct7s :
               Take(Word(op, r, f3, rs2, f7), None)
FetchShort == Start /\ \E b \in CutShort : Take(b, None)
Next == Assemble \/ Fetch16 \/ Fetch32 \/ FetchShort
Spec == Init /\ [][Next]_vars

(* ExtensionRegistry::decode decodes every legal instruction of the formats, to  *)
(* itself; but two of the HINTs, which write x0, it takes for an invalid parcel.  *)
RefusedHint(i) == i.op \in {"c.slli", "c.lui"} /\ i.rd = 0
DecodesEveryInstruction ==
    asked # None => IF RefusedHint(asked) THEN got.op = "c.invalid" ELSE got = asked

(* What a registry decodes is the instruction the bytes encode: no other         *)
(* operands, no reserved word taken for an instruction.  The one that is, is a   *)
(* shift of RV32 by 32 or more, whose amount has six bits whatever XLEN.  The    *)
(* fields the manual reserves in fence, fence.i and lr, and the aq and rl bits,  *)
(* are not looked at.                                                            *)
Lax == {"fence", "fence.i"}
Strip(b) == IF b.lo % 128 = 47 THEN [b EXCEPT !.hi = @ - ((@ \div 512) % 4) * 512] ELSE b
WideShift(i) == xlen = 32 /\ i.op \in {"slli", "srli", "srai", "c.slli", "c.srli", "c.srai"} /\ i.imm >= 32
DecodesNothingElse ==
    got.op \notin {"", "c.invalid"} \cup Lax =>
        /\ got.op \in DOMAIN Layouts /\ got.size <= bytes.n
        /\ Encoded(got) = [Strip(bytes) EXCEPT !.n = got.size]
        /\ Allowed(got) \/ WideShift(got)

(* No two extensions claim the same bytes, but for zext.h, which is pack or packw *)
(* with x0: the order of registration does not matter otherwise.                 *)
OneClaimant == claims <= (IF got.op = "zext.h" THEN 2 ELSE 1)
=================================================================================
