------------------------------- MODULE GameBoy ------------------------------
(***************************************************************************)
(* The emulator's main loop (src/src/main.c) running the CPU, the timer    *)
(* and the interrupt controller together.                                  *)
(*                                                                         *)
(* The program is single-threaded, but its components interleave: every    *)
(* timer_tick() inside an instruction or inside the dispatch of an         *)
(* interrupt may request an interrupt, reload TIMA or raise IME, and every *)
(* store may land in one of their registers.  The state between two        *)
(* actions is the state between two such calls: "todo" holds the           *)
(* micro-operations the running C call has left, "phase" where the loop    *)
(* is.  What the Game Boy program executes is the environment: any opcode  *)
(* of Opcodes, with any outcome of its condition, any effective address    *)
(* of Pointers and any byte stored.                                        *)
(***************************************************************************)
EXTENDS Timer, Interrupts, Instructions, Bus, FiniteSets

CONSTANTS Opcodes,        \* opcodes the Game Boy program executes
          CbOpcodes,      \* second bytes of its CB instructions
          Pointers,       \* values of HL, SP, .. at a memory access
          TimerBytes,     \* bytes stored into a timer register
          InterruptBytes  \* bytes stored into IF or IE, as sets of bits

ASSUME EnvironmentAssumption ==
  /\ Opcodes \subseteq 0..255
  /\ CbOpcodes \subseteq 0..255
  /\ Pointers \subseteq Address
  /\ TimerBytes \subseteq Nat
  /\ InterruptBytes \subseteq SUBSET Sources
  /\ MaxTicks >= 2

VARIABLES halt,           \* g_cpu.halt
          ime_scheduled,  \* g_cpu.ime_scheduled
          phase,          \* the part of the loop being executed
          todo,           \* micro-operations left of the running call
          addr,           \* effective address or stack pointer of the call
          serving         \* the interrupt being dispatched

cpuVars  == <<halt, ime_scheduled>>
callVars == <<phase, todo, addr, serving>>
vars     == <<timerVars, interruptVars, cpuVars, callVars>>

NoInterrupt == -1

Phases == {"loop", "execute", "interrupts", "dispatch", "clear", "stopped"}

TypeOK ==
  /\ TimerTypeOK
  /\ InterruptTypeOK
  /\ halt \in BOOLEAN
  /\ ime_scheduled \in BOOLEAN
  /\ phase \in Phases
  /\ todo \in Seq(MicroOps)
  /\ addr \in Address
  /\ serving \in Sources \cup {NoInterrupt}

Init ==
  /\ TimerInit
  /\ InterruptInit
  /\ halt = FALSE
  /\ ime_scheduled = FALSE
  /\ phase = "loop"
  /\ todo = << >>
  /\ addr = 0
  /\ serving = NoInterrupt

-----------------------------------------------------------------------------
(* timer_ticks(n): the timer, the request of an overflow, the delayed EI.  *)

\* Variant of DeliverOverflow: only an enabled interrupt is requested.
DeliverEnabled ==
  IF tima_overflow /\ TIMA \in ie_reg THEN Request(TIMA) ELSE UNCHANGED if_reg

DeliverOverflow ==
  IF tima_overflow THEN Request(TIMA) ELSE UNCHANGED if_reg

\* Variant of DelayedEnable: ime_scheduled is not reset.
DelayedEnableAgain == ime' = (ime \/ ime_scheduled) /\ UNCHANGED ime_scheduled

DelayedEnable ==
  /\ ime' = (ime \/ ime_scheduled)
  /\ ime_scheduled' = FALSE

Tick(n) ==
  /\ TimerTicks(n)
  /\ DeliverOverflow
  /\ DelayedEnable
  /\ UNCHANGED <<ie_reg, halt>>

(* write_memory(a, ..) *)
Write(a) ==
  /\ \/ /\ Device(a) \in TimerRegisters
        /\ \E value \in TimerBytes : WriteTimer(Device(a), value)
        /\ UNCHANGED interruptVars
     \/ /\ Device(a) \in InterruptRegisters
        /\ \E bits \in InterruptBytes : WriteInterrupt(Device(a), bits)
        /\ UNCHANGED timerVars
     \/ /\ Device(a) \in {"cartridge", "memory"}
        /\ UNCHANGED <<timerVars, interruptVars>>
  /\ UNCHANGED cpuVars

-----------------------------------------------------------------------------
(* The running call. *)

\* The call's next micro-operation is op.
Running(op) == phase \in {"execute", "dispatch"} /\ todo # << >> /\ Head(todo) = op

NextPhase == IF phase = "execute" THEN "interrupts" ELSE "clear"

\* The micro-operation returns; a is the address the next one will use.
Return(a) ==
  /\ todo' = Tail(todo)
  /\ phase' = IF Tail(todo) = << >> THEN NextPhase ELSE phase
  /\ addr' = IF Tail(todo) = << >> THEN 0 ELSE a
  /\ UNCHANGED serving

TickOnce  == Running("tick")  /\ Tick(1) /\ Return(addr)
TickTwice == Running("tick2") /\ Tick(2) /\ Return(addr)

Store     == Running("store") /\ Write(addr) /\ Return(addr)

StoreNext ==
  LET next == (addr + 1) % AddressMod
  IN  Running("store_next") /\ Write(next) /\ Return(next)

\* Variant of Push: the stack pointer does not wrap around.
PushUnwrapped ==
  Running("push") /\ Write((addr + AddressMod - 1) % AddressMod) /\ Return(addr - 1)

Push ==
  LET below == (addr + AddressMod - 1) % AddressMod
  IN  Running("push") /\ Write(below) /\ Return(below)

ClearDiv ==
  /\ Running("clear_div")
  /\ WriteTimer("DIV", 0)
  /\ Return(addr)
  /\ UNCHANGED <<interruptVars, cpuVars>>

\* RETI and DI write IME at once, EI asks the next timer_ticks to do it.
SetIme ==
  /\ \/ Running("ime_on")  /\ ime' = TRUE
     \/ Running("ime_off") /\ ime' = FALSE
  /\ Return(addr)
  /\ UNCHANGED <<timerVars, if_reg, ie_reg, cpuVars>>

ScheduleIme ==
  /\ Running("schedule")
  /\ ime_scheduled' = TRUE
  /\ Return(addr)
  /\ UNCHANGED <<timerVars, interruptVars, halt>>

EnterHalt ==
  /\ Running("halt")
  /\ halt' = TRUE
  /\ Return(addr)
  /\ UNCHANGED <<timerVars, interruptVars, ime_scheduled>>

\* FATAL_ERROR: the process ends.
Exit ==
  /\ Running("exit")
  /\ phase' = "stopped"
  /\ todo' = << >>
  /\ addr' = 0
  /\ UNCHANGED <<timerVars, interruptVars, cpuVars, serving>>

-----------------------------------------------------------------------------
(* The main loop. *)

Addressed == {"store", "store_next", "push"}

\* The addresses a program may use: none if it stores nothing.
AddressesFor(program) ==
  IF \E k \in 1..Len(program) : program[k] \in Addressed THEN Pointers ELSE {0}

\* execute_instruction(): the call begins.
ExecuteInstruction ==
  /\ phase = "loop" /\ ~halt
  /\ \E op \in Opcodes, condition, self_jump \in BOOLEAN, cb \in CbOpcodes :
       LET program == Program(op, [condition |-> condition,
                                   self_jump |-> self_jump, cb |-> cb])
       IN  /\ todo' = program
           /\ addr' \in AddressesFor(program)
  /\ phase' = "execute"
  /\ UNCHANGED <<timerVars, interruptVars, cpuVars, serving>>

\* In halt mode the loop only lets a cycle pass.
HaltTick ==
  /\ phase = "loop" /\ halt
  /\ Tick(1)
  /\ phase' = "interrupts"
  /\ UNCHANGED <<todo, addr, serving>>

\* Variant of NoDispatch: halt mode only ends by a dispatch.
NoDispatchAsleep ==
  /\ phase = "interrupts"
  /\ Pending = {} \/ ~ime
  /\ phase' = "loop"
  /\ UNCHANGED <<timerVars, interruptVars, cpuVars, todo, addr, serving>>

\* handle_interrupts(): no request is enabled, or IME is clear.
NoDispatch ==
  /\ phase = "interrupts"
  /\ Pending = {} \/ ~ime
  /\ halt' = (halt /\ Pending = {})
  /\ phase' = "loop"
  /\ UNCHANGED <<timerVars, interruptVars, ime_scheduled, todo, addr, serving>>

\* What the two variants of BeginDispatch below share with it.
StartDispatch ==
  /\ serving' = Highest(Pending)
  /\ phase' = "dispatch"
  /\ todo' = Dispatch
  /\ addr' \in Pointers
  /\ UNCHANGED <<timerVars, interruptVars, ime_scheduled>>

\* Variants of BeginDispatch: IME is not tested; halt is not cleared.
DispatchUnmasked ==
  phase = "interrupts" /\ Pending # {} /\ halt' = FALSE /\ StartDispatch
DispatchAsleep ==
  phase = "interrupts" /\ Pending # {} /\ ime /\ UNCHANGED halt /\ StartDispatch

\* handle_interrupts(): the dispatch of the most important request begins.
BeginDispatch ==
  /\ phase = "interrupts"
  /\ Pending # {} /\ ime
  /\ halt' = FALSE
  /\ serving' = Highest(Pending)
  /\ phase' = "dispatch"
  /\ todo' = Dispatch
  /\ addr' \in Pointers
  /\ UNCHANGED <<timerVars, interruptVars, ime_scheduled>>

\* Variant of ClearFlag: the flags are cleared together.
ClearFlags ==
  /\ phase = "clear"
  /\ if_reg' = {}
  /\ phase' = "loop"
  /\ serving' = NoInterrupt
  /\ UNCHANGED <<timerVars, ie_reg, ime, cpuVars, todo, addr>>

\* handle_interrupts() after handle_interrupt(): the flag is cleared in IF as
\* it is by now.
ClearFlag ==
  /\ phase = "clear"
  /\ if_reg' = if_reg \ {serving}
  /\ phase' = "loop"
  /\ serving' = NoInterrupt
  /\ UNCHANGED <<timerVars, ie_reg, ime, cpuVars, todo, addr>>

-----------------------------------------------------------------------------
CallStep == \/ TickOnce \/ TickTwice \/ Store \/ StoreNext \/ Push \/ ClearDiv
            \/ SetIme \/ ScheduleIme \/ EnterHalt \/ Exit

LoopStep == \/ ExecuteInstruction \/ HaltTick \/ NoDispatch \/ BeginDispatch
            \/ ClearFlag

Next == CallStep \/ LoopStep

Spec == Init /\ [][Next]_vars

\* The loop is sequential code that never blocks: it keeps taking steps.
FairSpec == Spec /\ WF_vars(Next)

-----------------------------------------------------------------------------
(* Properties *)

\* Machine cycles the next step lets pass, 0 for a step without timer_ticks.
Elapsed ==
  IF Running("tick2") THEN 2
  ELSE IF Running("tick") \/ (phase = "loop" /\ halt) THEN 1
  ELSE 0

(***************************************************************************)
(* Whenever the loop is about to let a cycle pass in halt mode, no request *)
(* is both set and enabled: a HALT cannot sleep through an interrupt,      *)
(* whether the request came before the HALT, during it, or in halt mode,   *)
(* and whatever IME is (handle_interrupts, interrupt.c:93-98).             *)
(***************************************************************************)
NoSleepThroughInterrupt == phase = "loop" /\ halt => Pending = {}

(***************************************************************************)
(* The enable an EI scheduled is consumed by the first tick of the next    *)
(* instruction: no store, IME update, HALT or end of the process is ever   *)
(* reached with it outstanding.  In particular EI directly followed by DI  *)
(* leaves IME clear (timer.c:85-89; tests/src/cpu/interrupt.cc, HaltBug).  *)
(***************************************************************************)
NoStaleEnable ==
  phase = "execute" /\ todo # << >> /\ Head(todo) \notin Ticks => ~ime_scheduled

(***************************************************************************)
(* IME is raised only while an instruction executes, never by the ticks of *)
(* a dispatch or of halt mode: the instruction after EI always runs before *)
(* the interrupt EI lets in (timer.c:85-89, instruction.c:155-160).        *)
(***************************************************************************)
EnableOnlyInsideInstruction == [][~ime /\ ime' => phase = "execute"]_vars

(***************************************************************************)
(* A request flag disappears from IF only when its own dispatch completes  *)
(* or when a store of the program reaches IF; a request raised by the      *)
(* ticks of another interrupt's dispatch survives it (interrupt.c:104).    *)
(***************************************************************************)
NoLostRequest ==
  [][\A i \in Sources : i \in if_reg /\ i \notin if_reg' =>
       \/ phase = "clear" /\ serving = i
       \/ Running("store") \/ Running("store_next") \/ Running("push")]_vars

(***************************************************************************)
(* TIMA loses no period: after n cycles the counter, with the pending      *)
(* overflow as its carry, has advanced by one exactly when a period of TAC *)
(* ended in those cycles, also when DIV wraps around, when timer_ticks is  *)
(* called with 2, and when the call first reloads TIMA from TMA            *)
(* (timer.c:77-117).                                                       *)
(***************************************************************************)
CountsEveryPeriod ==
  [][Elapsed > 0 =>
       tima' + (IF tima_overflow' THEN TimaMod ELSE 0) =
         Reloaded + (IF TimerEnabled /\ div' % Freq < Elapsed THEN 1 ELSE 0)]_vars

(***************************************************************************)
(* Every overflow of TIMA becomes an interrupt request (timer.c:92-96).    *)
(***************************************************************************)
OverflowReachesIF == tima_overflow ~> TIMA \in if_reg

(***************************************************************************)
(* A CPU that halts with the timer running and its interrupt enabled wakes *)
(* up: TIMA reaches its overflow, the request reaches IF, and              *)
(* handle_interrupts clears halt (main.c:23-30, timer.c, interrupt.c:93).  *)
(***************************************************************************)
WakesFromHalt ==
  (phase = "loop" /\ halt /\ TimerEnabled /\ TIMA \in ie_reg) ~> ~halt
=============================================================================
