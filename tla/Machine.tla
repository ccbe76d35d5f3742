------------------------------ MODULE Machine --------------------------------
(***************************************************************************)
(* i86.cpp, i86inline.h: what the instructions work on: registers, flags,  *)
(* memory, the stack, operands.                                            *)
(***************************************************************************)
EXTENDS Alu, Functions, Sequences

CONSTANT Handlers  \* what the interrupt vectors point to: <<CS, IP>>

Byte == 128
Word == 32768

Words == {"AX", "CX", "DX", "BX", "SP", "BP", "SI", "DI"}
Lows  == [AL |-> "AX", CL |-> "CX", DL |-> "DX", BL |-> "BX"]
Highs == [AH |-> "AX", CH |-> "CX", DH |-> "DX", BH |-> "BX"]

(* A machine m: words w, segments sr, flags f with df and ie, ip, memory,  *)
(* what went through the ports, whether HLT stopped it, and whether        *)
(* interrupts wait for one more instruction (shadow).                      *)
Wrapped(x, h) == x % (2 * h)

Reg(m, r) ==
  IF r \in Words THEN m.w[r]
  ELSE IF r \in DOMAIN Lows THEN m.w[Lows[r]] % 256 ELSE m.w[Highs[r]] \div 256

SetReg(m, r, v) ==
  IF r \in Words THEN [m EXCEPT !.w[r] = Wrapped(v, Word)]
  ELSE IF r \in DOMAIN Lows
    THEN [m EXCEPT !.w[Lows[r]] = 256 * (@ \div 256) + Wrapped(v, Byte)]
    ELSE [m EXCEPT !.w[Highs[r]] = 256 * Wrapped(v, Byte) + (@ % 256)]

(* calc_addr; m.prefix is the segment prefix of the instruction.           *)
Address(m, seg, off) == 16 * m.sr[seg] + Wrapped(off, Word)
CalcAddr(m, seg, off) ==
  Address(m, IF m.prefix # "none" /\ seg \in {"DS", "SS"} THEN m.prefix ELSE seg, off)

Get(m, a, h) == IF h = Byte THEN m.mem[a] ELSE m.mem[a] + 256 * m.mem[a + 1]
Put(m, a, h, v) ==
  [m EXCEPT !.mem = IF h = Byte THEN [@ EXCEPT ![a] = Wrapped(v, Byte)]
                    ELSE [@ EXCEPT ![a] = v % 256, ![a + 1] = (v \div 256) % 256]]

-----------------------------------------------------------------------------
(* Operands: a register, an immediate, or memory at base registers and a   *)
(* displacement, which is on the stack if BP is one of them (get_ea).  An  *)
(* "extended" immediate is a byte that m_src holds extended to 32 bits.    *)
R(r) == [kind |-> "reg", reg |-> r]
Imm(n) == [kind |-> "imm", n |-> n]
ExtendedImm(n) == [kind |-> "extended", n |-> n]
At(base, disp) == [kind |-> "mem", base |-> base, disp |-> disp]

Offset(m, o) == Wrapped(o.disp + SumFunctionOnSet(m.w, o.base), Word)
Ea(m, o) == CalcAddr(m, IF "BP" \in o.base THEN "SS" ELSE "DS", Offset(m, o))

Read(m, o, h) ==
  CASE o.kind = "reg" -> Reg(m, o.reg)
    [] o.kind \in {"imm", "extended"} -> o.n
    [] o.kind = "mem" -> Get(m, Ea(m, o), h)

Write(m, o, h, v) ==
  IF o.kind = "reg" THEN SetReg(m, o.reg, v) ELSE Put(m, Ea(m, o), h, v)

NextWord(m, o) ==
  Get(m, Ea(m, o) - Offset(m, o) + Wrapped(Offset(m, o) + 2, Word), Word)

Push(m, v) ==
  SetReg(Put(m, Address(m, "SS", m.w["SP"] - 2), Word, v), "SP", m.w["SP"] - 2)
Top(m) == Get(m, Address(m, "SS", m.w["SP"]), Word)
Drop(m) == SetReg(m, "SP", m.w["SP"] + 2)
PopReg(m, r) == SetReg(Drop(m), r, Top(m))
PopSeg(m, seg) == [Drop(m) EXCEPT !.sr[seg] = Top(m)]
PopIp(m) == [Drop(m) EXCEPT !.ip = Top(m)]

Jump(m, cond, rel) == IF cond THEN [m EXCEPT !.ip = @ + rel] ELSE m

(* CompressFlags and ExpandFlags; IOPL, NT and MF are always set.          *)
Flag(b, n) == IF b THEN 2 ^ n ELSE 0
CompressFlags(m) ==
  Flag(m.f.cf, 0) + 2 + Flag(m.f.pf, 2) + Flag(m.f.af, 4) + Flag(m.f.zf, 6)
    + Flag(m.f.sf, 7) + Flag(m.ie, 9) + Flag(m.df, 10) + Flag(m.f.of, 11) + 61440
ExpandFlags(m, x) ==
  [m EXCEPT !.f = [cf |-> Bit(x, 0), pf |-> Bit(x, 2), af |-> Bit(x, 4), zf |-> Bit(x, 6),
                   sf |-> Bit(x, 7), of |-> Bit(x, 11)],
            !.ie = Bit(x, 9), !.df = Bit(x, 10)]
ExpandFlagsButCarry(m, x) == [ExpandFlags(m, x) EXCEPT !.f.cf = m.f.cf]

PushFlags(m) == Push(m, CompressFlags(m))
PopFlagsButCarry(m) == ExpandFlagsButCarry(Drop(m), Top(m))
PopFlags(m) == ExpandFlags(Drop(m), Top(m))

Interrupt(m, n) ==
  LET p == Push(Push([Push(m, CompressFlags(m)) EXCEPT !.ie = FALSE], m.sr["CS"]), m.ip)
  IN  [p EXCEPT !.sr["CS"] = Handlers[n][1], !.ip = Handlers[n][2]]
InterruptReturn(m) == PopFlags(PopSeg(PopIp(m), "CS"))
=============================================================================
