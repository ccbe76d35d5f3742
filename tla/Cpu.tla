-------------------------------- MODULE Cpu ----------------------------------
(***************************************************************************)
(* i186.cpp: execute_run, the CPU's loop, as far as interrupts see it.     *)
(* Each turn of it takes an interrupt or not, fetches and executes: what   *)
(* an instruction computes is left out (see I86), what it does to          *)
(* interrupts, and where it can be interrupted, is not.  The sources of    *)
(* the controller act between the turns: timers and lines change when      *)
(* execute_run has returned or, in an OUT, at its end.                     *)
(*                                                                         *)
(* The firmware is arbitrary.  Its main program comes now and then to a    *)
(* string instruction, alone or with a segment override before or after    *)
(* REP; what it repeats may be cut short anywhere (icount).                *)
(***************************************************************************)
EXTENDS Interrupts

CONSTANTS Count,     \* what CX holds when a string instruction starts
          MaxDepth   \* bound: IF is set only at a smaller depth of interrupts

ASSUME CpuAssumption == Count \in Nat \ {0} /\ MaxDepth \in Nat \ {0}

VARIABLES
  IF_, halt, no_interrupt,
  seg_prefix_next,
  ip,        \* where: at some "code", or at the "prefix" or the "rep" of the string
  prev_ip,   \* where the instruction began that ip is in, with its prefixes
  stack,     \* what interrupts pushed: IP and IF
  string,    \* the string instruction: its form, CX, and whether an element
             \*    was moved through the wrong segment
  shadow     \* history: an instruction that holds interrupts off for the next
             \*    one was executed, and that next one was not

flow == <<ip, prev_ip, stack, string>>
cpu == <<IF_, halt, no_interrupt, seg_prefix_next, flow, shadow>>

Place == {"code", "prefix", "rep"}
Forms == {"plain", "outer", "inner"}

NoString == [form |-> "plain", left |-> 0, astray |-> FALSE]

CpuInit ==
  /\ IF_ = FALSE /\ halt = FALSE /\ no_interrupt = 0 /\ seg_prefix_next = FALSE
  /\ ip = "code" /\ prev_ip = "code" /\ stack = <<>> /\ string = NoString
  /\ shadow = FALSE

-----------------------------------------------------------------------------
(* The head of the loop.  After a prefix it is passed over.                *)
TakesAfterPrefix == intr.line /\ no_interrupt = 0 /\ IF_

Takes == ~seg_prefix_next /\ intr.line /\ no_interrupt = 0 /\ IF_

(* interrupt(-1).  The handler's first instruction is the next step.       *)
Dispatch ==
  /\ Takes
  /\ stack' = Append(stack, [ip |-> ip, IF_ |-> IF_])
  /\ IF_' = FALSE /\ halt' = FALSE
  /\ ip' = "code" /\ prev_ip' = "code"
  /\ Acknowledge
  /\ UNCHANGED <<no_interrupt, seg_prefix_next, string, shadow>>

(* The turn goes on to an instruction, which leaves no_interrupt = n.      *)
Executes(n) ==
  /\ ~Takes /\ (halt => seg_prefix_next)
  /\ no_interrupt' = IF n = 1 THEN 1 ELSE IF seg_prefix_next THEN no_interrupt ELSE 0

(* One in the code, not a prefix: the next begins at p.                    *)
InCode(n, p) ==
  /\ Executes(n) /\ ip = "code"
  /\ ip' = p /\ prev_ip' = p
  /\ seg_prefix_next' = FALSE /\ shadow' = (n = 1)

-----------------------------------------------------------------------------
Plain == InCode(0, ip) /\ UNCHANGED <<IF_, halt, stack, string, controller>>

ReachString ==
  /\ stack = <<>>
  /\ \E f \in Forms :
       /\ InCode(0, IF f = "outer" THEN "prefix" ELSE "rep")
       /\ string' = [form |-> f, left |-> Count, astray |-> FALSE]
  /\ UNCHANGED <<IF_, halt, stack, controller>>

MaySetIF == Len(stack) < MaxDepth

Sti ==
  /\ InCode(1, ip) /\ MaySetIF /\ IF_' = TRUE
  /\ UNCHANGED <<halt, stack, string, controller>>

Cli == InCode(0, ip) /\ IF_' = FALSE /\ UNCHANGED <<halt, stack, string, controller>>

(* MOV SS, POP SS and LOCK                                                 *)
HoldsOff == InCode(1, ip) /\ UNCHANGED <<IF_, halt, stack, string, controller>>

HltHoldsOff == InCode(1, ip) /\ halt' = TRUE /\ UNCHANGED <<IF_, stack, string, controller>>

Hlt == InCode(0, ip) /\ halt' = TRUE /\ UNCHANGED <<IF_, stack, string, controller>>

(* Where the instruction began: m_prev_ip is set only past no prefix.       *)
StartAtRep == ip

Start == IF seg_prefix_next THEN prev_ip ELSE ip

SegmentOverride ==
  /\ Executes(0) /\ ip \in {"code", "prefix"}
  /\ seg_prefix_next' = TRUE
  /\ prev_ip' = Start
  /\ ip' = IF ip = "prefix" THEN "rep" ELSE ip
  /\ UNCHANGED <<IF_, halt, stack, string, shadow, controller>>

Popf ==
  /\ InCode(0, ip)
  /\ \E f \in BOOLEAN : IF_' = (f /\ MaySetIF)
  /\ UNCHANGED <<halt, stack, string, controller>>

Iret ==
  /\ stack # <<>>
  /\ InCode(0, stack[Len(stack)].ip) /\ IF_' = stack[Len(stack)].IF_
  /\ stack' = SubSeq(stack, 1, Len(stack) - 1)
  /\ UNCHANGED <<halt, string, controller>>

(* OUT to, or IN from, a register of the controller                        *)
Port == InCode(0, ip) /\ (RegisterWrite \/ ReadPoll) /\ UNCHANGED <<IF_, halt, stack, string>>

(* repx_op and the loop of a repeated string instruction: the override is  *)
(* in m_seg_prefix, from the prefix before or from repx_op.                *)
Repeat ==
  /\ Executes(0) /\ ip = "rep"
  /\ LET overridden == seg_prefix_next \/ string.form = "inner"
         astray == overridden # (string.form # "plain")
     IN  \/ /\ \E c \in 1..(string.left - 1) :
                 string' = [string EXCEPT !.left = c, !.astray = @ \/ astray]
            /\ ip' = Start
         \/ /\ string' = [NoString EXCEPT !.astray = string.astray \/ astray]
            /\ ip' = "code"
  /\ seg_prefix_next' = FALSE /\ prev_ip' = ip' /\ shadow' = FALSE
  /\ UNCHANGED <<IF_, halt, stack, controller>>

-----------------------------------------------------------------------------
(* device_reset of both classes, when the device is not running            *)
Reset ==
  /\ ResetController
  /\ IF_' = FALSE /\ halt' = FALSE /\ no_interrupt' = 0 /\ seg_prefix_next' = FALSE
  /\ ip' = "code" /\ prev_ip' = "code" /\ stack' = <<>> /\ string' = NoString
  /\ shadow' = FALSE

Event == Raised /\ UNCHANGED cpu

Instruction ==
  \/ Plain \/ ReachString \/ Sti \/ Cli \/ HoldsOff \/ Hlt \/ SegmentOverride
  \/ Popf \/ Iret \/ Port \/ Repeat

Turn == Dispatch \/ Instruction

Init == InterruptsInit /\ CpuInit
Next == Turn \/ Event \/ Reset
vars == <<controller, cpu>>

(* execute_run goes on as long as run_cycles is called.                    *)
Spec == Init /\ [][Next]_vars /\ WF_vars(Turn)

-----------------------------------------------------------------------------
(* STI, MOV SS, POP SS and LOCK hold interrupts off until the instruction  *)
(* after them has been executed, segment overrides before it included: SS  *)
(* and SP change together.                                                 *)
InterruptShadow == [][shadow => Len(stack') <= Len(stack)]_vars

(* A string instruction interrupted in the middle is resumed at its first  *)
(* byte, so that every element moves through the segment of its override;  *)
(* no handler and no prefix of another instruction disturbs it.            *)
StringWhole ==
  LET begin == IF string.form = "outer" THEN "prefix" ELSE "rep"
      main  == IF stack = <<>> THEN ip ELSE stack[1].ip
  IN  /\ ~string.astray
      /\ string.left > 0 /\ (stack = <<>> => ~seg_prefix_next) => main = begin

(* HLT ends when an interrupt comes, if IF is set: also right after STI.   *)
HaltWakes == halt /\ IF_ /\ intr.line ~> ~(halt /\ intr.line)
=============================================================================
