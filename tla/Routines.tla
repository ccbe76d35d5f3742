------------------------------ MODULE Routines --------------------------------
(***************************************************************************)
(* Routines of the kind firmware is made of, run on the CPU of I186 from   *)
(* different inputs while interrupts come in between any two instructions, *)
(* and what each is meant to compute.                                      *)
(*                                                                         *)
(* CS 1 is the routine, 2 the interrupt handler, 3 that of the faults, 4 a *)
(* far procedure.  Data is at DS:0, ES is 32 and SS 64 bytes further.      *)
(***************************************************************************)
EXTENDS I186, FiniteSets, TLC

VARIABLE given   \* the inputs of the routine

vars == <<cpu, routine, irqs, given>>

Op(o) == [op |-> o]
Rel(o, n) == [op |-> o, rel |-> n]
One(o, h, d) == [op |-> o, h |-> h, d |-> d]
Two(o, h, d, s) == [op |-> o, h |-> h, d |-> d, s |-> s]
Set(r, n) == Two("mov", IF r \in Words THEN Word ELSE Byte, R(r), Imm(n))
By(o, h, r, n) == [op |-> o, h |-> h, d |-> R(r), by |-> n]
If(cc, n) == [op |-> "jcc", cc |-> cc, rel |-> n]
Str(o, h) == [op |-> o, h |-> h]
Rept(r, o, h) == [op |-> o, h |-> h, rep |-> r]
Seg(o, sr) == [op |-> o, sr |-> sr]
Stop == <<Op("cli"), Op("hlt")>>
Mem(n) == At({}, n)

(* Saves what it uses, and leaves nothing else as it was.                  *)
Handler ==
  <<Op("pusha"), Seg("pushseg", "DS"), Op("std"), Set("AX", 65535), Set("SI", 7),
    Set("CX", 0), Set("BP", 1), Two("add", Word, R("AX"), R("AX")), Seg("popseg", "DS"),
    Op("popa"), Op("iret")>>
(* Leaves a mark at DS:31.                                                 *)
Faulted == <<ImmediateByte(6, Byte, Mem(31), 255), Op("iret")>>
FarProcedure ==
  <<Op("clc"), One("inc", Word, R("DX")), [op |-> "retf", n |-> 2]>>

Whole(main) == <<main \o Stop, Handler, Faulted, FarProcedure>>

(* The number at DS:4 added to the one at DS:8, byte by byte, then taken   *)
(* away again at DS:12.                                                    *)
AddWide ==
  <<Set("CX", 3), Set("SI", 4), Op("clc"),
    Two("mov", Byte, R("AL"), At({"SI"}, 0)), Two("adc", Byte, At({"SI"}, 4), R("AL")),
    One("inc", Word, R("SI")), Rel("loop", -4), Op("salc"),
    Two("mov", Byte, R("DL"), R("AL")), Set("BX", 4), Set("SI", 0), Set("CX", 3), Op("stc"),
    Op("cmc"), Two("mov", Byte, R("AL"), At({"BX", "SI"}, 4)),
    Two("sbb", Byte, R("AL"), At({"BX", "SI"}, 0)),
    Two("mov", Byte, At({"BX", "SI"}, 8), R("AL")),
    Two("lea", Word, R("SI"), At({"SI"}, 1)), Rel("loop", -5)>>

(* Each condition after AX was compared with BX, a bit of DX for each.     *)
Order == <<"o", "no", "c", "nc", "z", "nz", "ce", "nce",
           "s", "ns", "p", "np", "l", "nl", "le", "nle">>
Compare ==
  S!FlattenSeq([k \in 1..16 |->
    <<Two("cmp", Word, R("AX"), R("BX")), If(Order[k], 1), Rel("jmp", 1),
      Immediate(2, Word, R("DX"), 2 ^ (k - 1))>>])

(* Packed digits in AL and BL added and taken away, unpacked ones          *)
(* multiplied, divided, added and taken away.                              *)
Decimal ==
  <<Two("add", Byte, R("AL"), R("BL")), Op("daa"), Op("pushf"),
    Two("mov", Byte, Mem(0), R("AL")), Op("popf"), Two("sbb", Byte, R("AH"), R("AH")),
    Two("mov", Byte, Mem(1), R("AH")), Two("sub", Byte, R("AL"), R("BL")), Op("das"),
    Two("mov", Byte, Mem(2), R("AL")),
    ImmediateByte(5, Word, R("AX"), 15), ImmediateByte(5, Byte, R("BL"), 15), One("mul", Byte, R("BL")),
    [op |-> "aam", n |-> 10], Two("mov", Word, Mem(4), R("AX")), [op |-> "aad", n |-> 10],
    Two("mov", Word, Mem(6), R("AX")), [op |-> "aam", n |-> 10],
    Two("add", Byte, R("AL"), R("BL")), Op("aaa"), Two("mov", Word, Mem(8), R("AX")),
    Two("sub", Byte, R("AL"), R("BL")), Op("aas"), Two("mov", Word, Mem(10), R("AX"))>>

(* AX divided by BL, signed and not, and multiplied back.                  *)
Divide ==
  <<Two("mov", Word, Mem(0), R("AX")), One("div", Byte, R("BL")),
    Two("mov", Word, Mem(2), R("AX")), Two("xchg", Byte, Mem(31), R("CL")),
    Two("mov", Word, R("AX"), Mem(0)), One("idiv", Byte, R("BL")),
    Two("mov", Word, Mem(4), R("AX")), Two("mov", Byte, R("AL"), Mem(0)),
    One("imul", Byte, R("BL")), Two("mov", Word, Mem(6), R("AX")),
    Two("mov", Byte, R("AL"), R("BL")), Op("cbw"), Two("xchg", Word, R("AX"), R("BX")),
    Two("mov", Word, R("AX"), Mem(0)), Op("cwd"), One("idiv", Word, R("BX")),
    Two("mov", Word, Mem(8), R("AX")), Two("mov", Word, Mem(10), R("DX")),
    [op |-> "imulby", d |-> R("AX"), s |-> R("BX"), n |-> 3]>>

(* AL turned left and right by CL, with and without the carry; shifted.    *)
Turn ==
  <<By("rol", Byte, "AL", "CL"), By("ror", Byte, "AL", "CL"), Op("stc"),
    By("rcl", Byte, "AL", "CL"), By("rcr", Byte, "AL", "CL"), Op("lahf"),
    Two("mov", Byte, Mem(0), R("AL")), Op("sahf"), Op("salc"), Two("mov", Byte, Mem(1), R("AL")),
    Two("mov", Byte, R("AL"), Mem(0)), Op("cbw"), By("shl", Word, "AX", "CL"),
    Two("mov", Word, Mem(2), R("AX")), By("sar", Word, "AX", "CL"),
    Two("mov", Word, Mem(4), R("AX")), By("shr", Word, "AX", "imm") @@ [n |-> 1],
    Two("mov", Word, Mem(6), R("AX")), By("shl", Word, "AX", "one"), Op("into"),
    One("not", Byte, R("BL")), One("neg", Byte, R("BL"))>>

(* CX bytes moved from SI to DI, which may overlap, compared with what ES  *)
(* has kept of them, searched, filled, and sent through the ports.         *)
Copy ==
  <<Seg("pushseg", "DS"), Seg("popseg", "ES"),
    One("push", Word, R("SI")), One("push", Word, R("CX")), One("push", Word, R("DI")),
    Two("cmp", Word, R("SI"), R("DI")), If("nc", 5),
    Two("add", Word, R("SI"), R("CX")), One("dec", Word, R("SI")),
    Two("add", Word, R("DI"), R("CX")), One("dec", Word, R("DI")), Op("std"),
    Rept("repe", "movs", Byte), Op("cld"),
    One("pop", Word, R("SI")), One("pop", Word, R("CX")), One("pop", Word, R("DI")),
    Set("AX", 2), [op |-> "toseg", sr |-> "ES", s |-> R("AX")],
    Two("or", Word, R("CX"), R("CX")), Rept("repe", "cmps", Byte), Op("lahf"),
    Two("mov", Byte, Mem(24), R("AH")),
    Set("DI", 0), Set("AL", 5), Set("CX", 8), Rept("repne", "scas", Byte),
    Two("mov", Word, Mem(25), R("DI")), Set("CX", 2), Set("DI", 10), Rept("repe", "stos", Word),
    Set("SI", 13), Op("std"), Str("lods", Byte) @@ [seg |-> "ES"], Op("cld"),
    Two("mov", Byte, Mem(27), R("AL")), Set("CX", 2), Rept("repe", "ins", Byte),
    Set("SI", 14), Set("CX", 2), Rept("repe", "outs", Byte) @@ [seg |-> "ES"],
    Set("BX", 1), Set("AL", 2), Op("xlat") @@ [seg |-> "ES"], Str("out", Byte), Str("in", Byte)>>

(* Calls, frames, faults and far pointers, between PUSHA and POPA.         *)
FrameMain(sub) ==
  <<Op("pusha"), Op("pushf"), [op |-> "pushi", n |-> 200], Rel("call", sub - 5),
    [op |-> "pushi", n |-> 200], [op |-> "callfar", seg2 |-> 4, off |-> 1],
    Two("mov", Word, Mem(0), Imm(1)), Two("mov", Word, Mem(2), Imm(4)),
    [op |-> "pushi", n |-> 200], One("callfarrm", Word, Mem(0)), Seg("pushseg", "ES"),
    [op |-> "lfar", d |-> R("DI"), s |-> Mem(0), seg2 |-> "ES"],
    [op |-> "fromseg", sr |-> "ES", d |-> Mem(8)], Seg("popseg", "ES"),
    One("push", Word, R("SP")), One("pop", Word, Mem(10)),
    Set("AX", 2), Two("bound", Word, R("AX"), Mem(0)), Set("AX", 5),
    Two("bound", Word, R("AX"), Mem(0)), [op |-> "int", n |-> 32],
    Set("CX", 3), Two("test", Word, R("CX"), R("BX")), Op("pushf"),
    Two("xor", Word, R("AX"), R("AX")), Rel("loope", -1), Rel("loopne", -1),
    Rel("jcxz", 0), Op("popf"), [op |-> "testi", h |-> Byte, d |-> R("BL"), s |-> Imm(1)],
    Op("cld"), Set("AX", sub), [op |-> "pushi", n |-> 200], One("callrm", Word, R("AX")),
    [op |-> "jmpfar", seg2 |-> 1, off |-> 36], Set("AX", 38), One("jmprm", Word, R("AX")),
    Op("sti"), Op("popf"), Op("popa")>>
Sub2(level) ==
  <<[op |-> "enter", n |-> 4, level |-> level], Op("pusha"),
    Two("mov", Word, At({"BP"}, -2), Imm(9)), Two("sub", Word, At({"BP"}, -2), R("BP")),
    By("sar", Word, "DX", "imm") @@ [n |-> 2], Op("popa"), Op("leave"), [op |-> "ret", n |-> 2]>>
Frame(level) == FrameMain(Len(FrameMain(0)) + 3) \o Stop \o Sub2(level)

-----------------------------------------------------------------------------
Main == [addwide |-> AddWide, compare |-> Compare, decimal |-> Decimal, divide |-> Divide,
         turn |-> Turn, copy |-> Copy]
Programs ==
  [r \in DOMAIN Main |-> Whole(Main[r])] @@
  [frame  |-> <<Frame(0), Handler, Faulted, FarProcedure>>,
   nested |-> <<Frame(3), Handler, Faulted, FarProcedure>>]

(* The registers and the memory that hold the inputs.                      *)
Registers(r, g) ==
  CASE r = "compare" -> [AX |-> g.a, BX |-> g.b]
    [] r = "decimal" -> [AX |-> g.a, BX |-> g.b]
    [] r = "divide"  -> [AX |-> g.a, BX |-> g.b]
    [] r = "turn"    -> [AX |-> g.a, CX |-> g.b, BX |-> g.c]
    [] r = "copy"    -> [SI |-> g.a, DI |-> g.b, CX |-> g.c]
    [] OTHER         -> [AX |-> g.a, BX |-> g.b, CX |-> g.c]

ByteOf(x, n) == (x \div (256 ^ n)) % 256
Memory(r, g) ==
  [a \in 0..159 |->
     CASE r = "addwide" /\ a \in 4..6  -> ByteOf(g.a, a - 4)
       [] r = "addwide" /\ a \in 8..10 -> ByteOf(g.b, a - 8)
       [] r = "copy" /\ (a \in 0..7 \/ a \in 32..39) -> (a % 32) + 1
       [] OTHER -> 0]

Start(r, g) ==
  [w |-> Registers(r, g) @@ [x \in Words |-> IF x = "SP" THEN 96 ELSE 0],
   sr |-> [CS |-> 1, DS |-> 0, ES |-> 2, SS |-> 4],
   f |-> [x \in {"cf", "pf", "af", "zf", "sf", "of"} |-> FALSE], df |-> FALSE, ie |-> TRUE,
   ip |-> 1, mem |-> Memory(r, g), prefix |-> "none", ports |-> <<>>,
   halt |-> FALSE, shadow |-> FALSE]

CONSTANT Cases   \* of each routine, the inputs it is run from

Init ==
  /\ routine \in DOMAIN Cases /\ given \in Cases[routine]
  /\ cpu = Start(routine, given) /\ irqs = 0

Next == (Execute \/ TakeInterrupt) /\ UNCHANGED given

Spec == Init /\ [][Next]_vars

-----------------------------------------------------------------------------
Ended(r) == routine = r /\ cpu.halt

Number(n, k) == LET b(j) == IF j < k THEN cpu.mem[n + j] * 256 ^ j ELSE 0
                IN  b(0) + b(1) + b(2)
Digits(x) == 10 * (x \div 16) + (x % 16)
Unpacked(n) == 10 * cpu.mem[n + 1] + cpu.mem[n]

Long(n) == Number(n, 2)
Faults == cpu.mem[31]

(* Carries go from byte to byte and from digit to digit, past instructions *)
(* that leave them alone and interrupts that save them: numbers of several *)
(* bytes are added and subtracted exactly, and so are decimal ones, packed *)
(* and unpacked.                                                           *)
CarriesExact ==
  /\ Ended("addwide") =>
       /\ Number(8, 3) = (given.a + given.b) % 256 ^ 3
       /\ Reg(cpu, "DL") = IF given.a + given.b >= 256 ^ 3 THEN 255 ELSE 0
       /\ Number(12, 3) = given.b
  /\ Ended("decimal") =>
       LET p == (given.a % 16) * (given.b % 16)
       IN  /\ Digits(cpu.mem[0]) + (IF cpu.mem[1] = 255 THEN 100 ELSE 0)
                = Digits(given.a) + Digits(given.b)
           /\ cpu.mem[2] = given.a
           /\ Unpacked(4) = p /\ Long(6) = p
           /\ Unpacked(8) = p + (given.b % 16) /\ Unpacked(10) = p

(* After a comparison every condition says what its name does, of numbers  *)
(* with and without sign.                                                  *)
Truth(a, b) ==
  LET x == Signed(a, Word)
      y == Signed(b, Word)
  IN  [o |-> x - y \notin (-Word)..(Word - 1), c |-> a < b, z |-> a = b, ce |-> a <= b,
       s |-> (a - b) % (2 * Word) >= Word, l |-> x < y, le |-> x <= y,
       p |-> Cardinality({n \in 0..7 : Bit((a - b) % 256, n)}) % 2 = 0]
Opposite == [no |-> "o", nc |-> "c", nz |-> "z", nce |-> "ce", ns |-> "s", np |-> "p",
             nl |-> "l", nle |-> "le"]

OrderDecided ==
  Ended("compare") =>
    LET t == Truth(given.a, given.b)
    IN  \A k \in 1..16 :
          Bit(cpu.w["DX"], k - 1)
            = IF Order[k] \in DOMAIN t THEN t[Order[k]] ELSE ~t[Opposite[Order[k]]]

(* A division leaves a quotient and a remainder that give the dividend     *)
(* back, or it faults, exactly when there is no quotient that fits, and    *)
(* leaves its operands alone; turns and shifts undo each other.            *)
Divides(q, r, x, n) == q * n + r = x /\ Abs(r) < Abs(n) /\ (r = 0 \/ (r < 0) = (x < 0))
Divisible(x, n, h) == n # 0 /\ Truncated(x, n) \in (-(h - 1))..(h - 1)

QuotientOrFault ==
  /\ Ended("divide") =>
       LET x == Signed(given.a, Word)
           n == Signed(given.b, Byte)
           unsigned == given.b # 0 /\ given.a \div given.b <= 255
       IN  /\ unsigned => Divides(cpu.mem[2], cpu.mem[3], given.a, given.b)
           /\ ~unsigned => Long(2) = given.a
           /\ Reg(cpu, "CL") = IF unsigned THEN 0 ELSE 1
           /\ IF Divisible(x, n, Byte)
                THEN Divides(Signed(cpu.mem[4], Byte), Signed(cpu.mem[5], Byte), x, n)
                ELSE Long(4) = given.a
           /\ IF Divisible(x, n, Word)
                THEN Divides(Signed(Long(8), Word), Signed(Long(10), Word), x, n)
                ELSE Long(8) = given.a
           /\ Faults = Cardinality({h \in {Byte, Word} : ~Divisible(x, n, h)})
           /\ Signed(Long(6), Word) = Signed(given.a % 256, Byte) * n
           /\ cpu.w["AX"] = (3 * n) % (2 * Word)
  /\ Ended("turn") =>
       LET c == given.b % 32
           x == Signed(given.a, Byte)
           y == Signed((x * 2 ^ Min2(c, 16)) % (2 * Word), Word)
       IN  /\ cpu.mem[0] = given.a /\ cpu.mem[1] = 255
           /\ Signed(Long(2), Word) = y
           /\ Signed(Long(4), Word) = y \div 2 ^ Min2(c, 16)
           /\ Long(6) = Long(4) \div 2
           /\ Reg(cpu, "BL") = (given.c + 1) % 256

(* A string is moved whole, even onto itself, by the direction flag; it is *)
(* compared to the end, searched to the byte sought, and each element goes *)
(* through the ports once and in its order, however often REP is broken    *)
(* off by an interrupt.                                                    *)
StringsWhole ==
  Ended("copy") =>
    /\ \A k \in 0..(given.c - 1) : cpu.mem[given.b + k] = given.a + k + 1
    /\ \A k \in 0..7 : k \notin given.b..(given.b + given.c - 1) => cpu.mem[k] = k + 1
    /\ given.c > 0 => Bit(cpu.mem[24], 6)
    /\ Long(25) = 5
    /\ [k \in 0..3 |-> cpu.mem[42 + k]] = [k \in 0..3 |-> IF k % 2 = 0 THEN 5 ELSE cpu.mem[24]]
    /\ cpu.mem[27] = cpu.mem[45]
    /\ <<cpu.mem[46], cpu.mem[47], cpu.mem[46], cpu.mem[47], 4, Reg(cpu, "AL")>> = cpu.ports

(* Calls, frames, faults and interrupts, near and far, give the stack      *)
(* back, and with it registers, segments and flags.                        *)
FramesBalanced ==
  routine \in {"frame", "nested"} /\ cpu.halt =>
    /\ cpu.w = Start(routine, given).w /\ cpu.sr = Start(routine, given).sr
    /\ cpu.f = Start(routine, given).f /\ cpu.df = FALSE
    /\ Faults = 2 /\ Long(8) = 4 /\ Long(10) = 76
=============================================================================
