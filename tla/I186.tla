-------------------------------- MODULE I186 ---------------------------------
(***************************************************************************)
(* i86.cpp, i86inline.h, i186.cpp: the instructions that move data and     *)
(* control, and the step of the CPU: it executes the instruction at CS:IP, *)
(* or takes an interrupt.  Which interrupt is offered, and when, is        *)
(* Interrupts and Cpu: here one may come whenever they are enabled.        *)
(***************************************************************************)
EXTENDS BitLogic

CONSTANTS Code,     \* of each routine: a sequence of instructions for each CS
          Inputs,   \* what the ports return
          MaxIrqs   \* bound: interrupts in a routine

VARIABLES cpu, routine, irqs

Here == Code[routine][cpu.sr["CS"]][cpu.ip]

(* The instruction may have a segment prefix, and is behind the pointer.   *)
Fetched ==
  [cpu EXCEPT !.ip = @ + 1, !.shadow = FALSE,
              !.prefix = IF "seg" \in DOMAIN Here THEN Here.seg ELSE "none"]

-----------------------------------------------------------------------------
(* Moves.  XCHG puts the register's value back at the address it read.     *)
Mov(m, i) == Write(m, i.d, i.h, Read(m, i.s, i.h))
Xchg(m, i) ==
  SetReg(Write(m, i.d, i.h, Read(m, i.s, i.h)), i.s.reg, Read(m, i.d, i.h))
Lea(m, i) == Write(m, i.d, Word, Offset(m, i.s))
LoadFar(m, i) ==
  [Write(m, i.d, Word, Read(m, i.s, Word)) EXCEPT !.sr[i.seg2] = NextWord(m, i.s)]
FromSeg(m, i) == Write(m, i.d, Word, m.sr[i.sr])
ToSeg(m, i) == [m EXCEPT !.sr[i.sr] = Read(m, i.s, Word), !.shadow = (i.sr = "SS")]
Xlat(m) == SetReg(m, "AL", Get(m, CalcAddr(m, "DS", m.w["BX"] + Reg(m, "AL")), Byte))

(* PUSH SP pushes the pointer as it is after the push.                     *)
PushReg(m, i) == Push(m, IF i.d = R("SP") THEN Wrapped(m.w["SP"] - 2, Word) ELSE Read(m, i.d, Word))
PushImm(m, i) == Push(m, Wrapped(i.n, Word))
PopRm(m, i) == Write(Drop(m), i.d, Word, Top(m))
Pusha(m) ==
  S!FoldLeft(Push, m, <<m.w["AX"], m.w["CX"], m.w["DX"], m.w["BX"], m.w["SP"],
                        m.w["BP"], m.w["SI"], m.w["DI"]>>)
Popa(m) ==
  LET low == S!FoldLeft(PopReg, m, <<"DI", "SI", "BP">>)
  IN  S!FoldLeft(PopReg, Drop(low), <<"BX", "DX", "CX", "AX">>)

(* ENTER copies the display to below the locals; LEAVE undoes the frame.   *)
Enter(m, i) ==
  LET b == SetReg(Push(m, m.w["BP"]), "BP", m.w["SP"] - 2)
      locals == SetReg(b, "SP", b.w["SP"] - i.n)
      display == S!FoldLeft(LAMBDA p, k : Push(p, Get(p, CalcAddr(p, "SS", p.w["BP"] - 2 * k), Word)),
                            locals, [k \in 1..(i.level - 1) |-> k])
  IN  IF i.level = 0 THEN locals ELSE Push(display, display.w["BP"])
Leave(m) == PopReg(SetReg(m, "SP", m.w["BP"]), "BP")

Sahf(m) == [m EXCEPT !.f = [ExpandFlags(m, Reg(m, "AH")).f EXCEPT !.of = m.f.of]]
Lahf(m) == SetReg(m, "AH", CompressFlags(m))

-----------------------------------------------------------------------------
(* Strings: one element, which goes from DS:SI to ES:DI; only the former   *)
(* is subject to a prefix.                                                 *)
Size(h) == IF h = Byte THEN 1 ELSE 2
StepByForward(m, h, r) == SetReg(m, r, m.w[r] + Size(h))
StepBy(m, h, r) == SetReg(m, r, IF m.df THEN m.w[r] - Size(h) ELSE m.w[r] + Size(h))
From(m, h) == Get(m, CalcAddr(m, "DS", m.w["SI"]), h)
To(m) == CalcAddr(m, "ES", m.w["DI"])

Movs(m, h) == StepBy(StepBy(Put(m, To(m), h, From(m, h)), h, "DI"), h, "SI")
Cmps(m, h) ==
  [StepBy(StepBy(m, h, "DI"), h, "SI") EXCEPT
     !.f = AfterSub(@, From(m, h), Get(m, To(m), h), 0, h)]
Stos(m, h) == StepBy(Put(m, To(m), h, Reg(m, Low(h))), h, "DI")
Lods(m, h) == StepBy(SetReg(m, Low(h), From(m, h)), h, "SI")
Scas(m, h) ==
  [StepBy(m, h, "DI") EXCEPT !.f = AfterSub(@, Reg(m, Low(h)), Get(m, To(m), h), 0, h)]
Ins(m, h, v) == StepBy(Put([m EXCEPT !.ports = Append(@, v)], To(m), h, v), h, "DI")
Outs(m, h) == StepBy([m EXCEPT !.ports = Append(@, From(m, h))], h, "SI")

(* Under REP an element at a time: IP goes back to the prefix while CX and *)
(* what was compared say so, and an interrupt may come in between.         *)
CompareEnds(i, f) ==
  /\ i.op \in {"cmps", "scas"}
  /\ IF i.rep = "repe" THEN ~f.zf ELSE f.zf

Rep(m, i, element) ==
  IF "rep" \notin DOMAIN i THEN element
  ELSE IF m.w["CX"] = 0 THEN m
  ELSE LET n == SetReg(element, "CX", m.w["CX"] - 1)
       IN  IF n.w["CX"] > 0 /\ ~CompareEnds(i, n.f) THEN [n EXCEPT !.ip = @ - 1] ELSE n

-----------------------------------------------------------------------------
(* Control.  Near addresses count from the instruction behind.             *)
Call(m, i) == Jump(Push(m, m.ip), TRUE, i.rel)
CallRm(m, i) == [Push(m, m.ip) EXCEPT !.ip = Read(m, i.d, Word)]
JmpRm(m, i) == [m EXCEPT !.ip = Read(m, i.d, Word)]
CallFar(m, i) ==
  [Push(Push(m, m.sr["CS"]), m.ip) EXCEPT !.sr["CS"] = i.seg2, !.ip = i.off]
CallFarRm(m, i) ==
  CallFar(m, [seg2 |-> NextWord(m, i.d), off |-> Read(m, i.d, Word)])
JmpFar(m, i) == [m EXCEPT !.sr["CS"] = i.seg2, !.ip = i.off]
Ret(m, i) == LET p == PopIp(m) IN SetReg(p, "SP", p.w["SP"] + i.n)
Retf(m, i) == LET p == PopSeg(PopIp(m), "CS") IN SetReg(p, "SP", p.w["SP"] + i.n)
Into(m) == IF m.f.of THEN Interrupt(m, 4) ELSE m
Bound(m, i) ==
  LET low == Signed(Read(m, i.s, Word), Word)
      high == Signed(NextWord(m, i.s), Word)
  IN  IF Signed(Read(m, i.d, Word), Word) \in low..high THEN m ELSE Interrupt(m, 5)

Counted(m) == SetReg(m, "CX", m.w["CX"] - 1)
Loop(m, i, cond) == LET n == Counted(m) IN Jump(n, cond /\ n.w["CX"] # 0, i.rel)
Jcxz(m, i) == Jump(m, m.w["CX"] = 0, i.rel)
Jcc(m, i) == Jump(m, Holds(m.f)[i.cc], i.rel)

-----------------------------------------------------------------------------
Does(op, machine) == Here.op = op /\ cpu' = machine

Arithmetic ==
  \/ Does("add", Add(Fetched, Here))    \/ Does("or", Either(Fetched, Here))
  \/ Does("adc", Adc(Fetched, Here))    \/ Does("sbb", Sbb(Fetched, Here))
  \/ Does("and", Both(Fetched, Here))   \/ Does("sub", Sub(Fetched, Here))
  \/ Does("xor", Differ(Fetched, Here)) \/ Does("cmp", Cmp(Fetched, Here))
  \/ Does("test", Test(Fetched, Here))  \/ Does("testi", TestImm(Fetched, Here))
  \/ Does("inc", Inc(Fetched, Here))    \/ Does("dec", Dec(Fetched, Here))
  \/ Does("not", Complement(Fetched, Here)) \/ Does("neg", Neg(Fetched, Here))
  \/ Does("mul", Mul(Fetched, Here))    \/ Does("imul", Imul(Fetched, Here))
  \/ Does("div", Div(Fetched, Here))    \/ Does("idiv", Idiv(Fetched, Here))
  \/ Does("imulby", ImulBy(Fetched, Here))

Adjusts ==
  \/ Does("aam", Aam(Fetched, Here)) \/ Does("aad", Aad(Fetched, Here))
  \/ Does("daa", Daa(Fetched))       \/ Does("das", Das(Fetched))
  \/ Does("aaa", Aaa(Fetched))       \/ Does("aas", Aas(Fetched))
  \/ Does("cbw", Cbw(Fetched))       \/ Does("cwd", Cwd(Fetched))
  \/ Does("salc", Salc(Fetched))

Shifts ==
  \/ Does("rol", Rotate(Fetched, Here)) \/ Does("ror", Rotate(Fetched, Here))
  \/ Does("rcl", Rotate(Fetched, Here)) \/ Does("rcr", Rotate(Fetched, Here))
  \/ Does("shl", Shift(Fetched, Here))  \/ Does("shr", Shift(Fetched, Here))
  \/ Does("sar", Shift(Fetched, Here))

Moves ==
  \/ Does("mov", Mov(Fetched, Here))         \/ Does("xchg", Xchg(Fetched, Here))
  \/ Does("lea", Lea(Fetched, Here))         \/ Does("lfar", LoadFar(Fetched, Here))
  \/ Does("fromseg", FromSeg(Fetched, Here)) \/ Does("toseg", ToSeg(Fetched, Here))
  \/ Does("xlat", Xlat(Fetched))

Stack ==
  \/ Does("push", PushReg(Fetched, Here))   \/ Does("pop", PopRm(Fetched, Here))
  \/ Does("pushi", PushImm(Fetched, Here))
  \/ Does("pushseg", Push(Fetched, Fetched.sr[Here.sr]))
  \/ Does("popseg", [PopSeg(Fetched, Here.sr) EXCEPT !.shadow = (Here.sr = "SS")])
  \/ Does("pusha", Pusha(Fetched))          \/ Does("popa", Popa(Fetched))
  \/ Does("enter", Enter(Fetched, Here))    \/ Does("leave", Leave(Fetched))
  \/ Does("pushf", PushFlags(Fetched))          \/ Does("popf", PopFlags(Fetched))
  \/ Does("sahf", Sahf(Fetched))            \/ Does("lahf", Lahf(Fetched))

Strings ==
  \/ Does("movs", Rep(Fetched, Here, Movs(Fetched, Here.h)))
  \/ Does("cmps", Rep(Fetched, Here, Cmps(Fetched, Here.h)))
  \/ Does("stos", Rep(Fetched, Here, Stos(Fetched, Here.h)))
  \/ Does("lods", Rep(Fetched, Here, Lods(Fetched, Here.h)))
  \/ Does("scas", Rep(Fetched, Here, Scas(Fetched, Here.h)))
  \/ Does("outs", Rep(Fetched, Here, Outs(Fetched, Here.h)))
  \/ \E v \in Inputs : Does("ins", Rep(Fetched, Here, Ins(Fetched, Here.h, v)))

Ports ==
  \/ \E v \in Inputs :
       Does("in", SetReg([Fetched EXCEPT !.ports = Append(@, v)], Low(Here.h), v))
  \/ Does("out", [Fetched EXCEPT !.ports = Append(@, Reg(Fetched, Low(Here.h)))])

Control ==
  \/ Does("jcc", Jcc(Fetched, Here))   \/ Does("jmp", Jump(Fetched, TRUE, Here.rel))
  \/ Does("jmprm", JmpRm(Fetched, Here)) \/ Does("jmpfar", JmpFar(Fetched, Here))
  \/ Does("call", Call(Fetched, Here)) \/ Does("callrm", CallRm(Fetched, Here))
  \/ Does("callfar", CallFar(Fetched, Here)) \/ Does("callfarrm", CallFarRm(Fetched, Here))
  \/ Does("ret", Ret(Fetched, Here))   \/ Does("retf", Retf(Fetched, Here))
  \/ Does("int", Interrupt(Fetched, Here.n)) \/ Does("into", Into(Fetched))
  \/ Does("iret", InterruptReturn(Fetched))       \/ Does("bound", Bound(Fetched, Here))
  \/ Does("loop", Loop(Fetched, Here, TRUE))
  \/ Does("loope", Loop(Fetched, Here, Fetched.f.zf))
  \/ Does("loopne", Loop(Fetched, Here, ~Fetched.f.zf))
  \/ Does("jcxz", Jcxz(Fetched, Here))

FlagOps ==
  \/ Does("cmc", [Fetched EXCEPT !.f.cf = ~@])
  \/ Does("clc", [Fetched EXCEPT !.f.cf = FALSE]) \/ Does("stc", [Fetched EXCEPT !.f.cf = TRUE])
  \/ Does("cli", [Fetched EXCEPT !.ie = FALSE])
  \/ Does("sti", [Fetched EXCEPT !.ie = TRUE, !.shadow = TRUE])
  \/ Does("cld", [Fetched EXCEPT !.df = FALSE])   \/ Does("std", [Fetched EXCEPT !.df = TRUE])
  \/ Does("hlt", [Fetched EXCEPT !.halt = TRUE])

Execute ==
  /\ ~cpu.halt
  /\ Arithmetic \/ Adjusts \/ Shifts \/ Moves \/ Stack \/ Strings \/ Ports \/ Control \/ FlagOps
  /\ UNCHANGED <<routine, irqs>>

(* An external interrupt, before the next instruction.                     *)
TakeInterrupt ==
  /\ cpu.ie /\ ~cpu.shadow /\ irqs < MaxIrqs
  /\ cpu' = [Interrupt(cpu, 13) EXCEPT !.halt = FALSE, !.prefix = "none"]
  /\ irqs' = irqs + 1
  /\ UNCHANGED routine
=============================================================================
