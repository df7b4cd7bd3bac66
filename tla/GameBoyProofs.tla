--------------------------- MODULE GameBoyProofs ----------------------------
(* Theorems about GameBoy, for every value of its constants. *)
EXTENDS GameBoy, ModuloTheorems, SequenceTheorems, TLAPS

-----------------------------------------------------------------------------
(* Lemmas about the operators. *)

(* The remainder by a positive number is a byte, an address, .. *)
LEMMA ModRange ==
  ASSUME NEW a \in Int, NEW m \in Nat \ {0}
  PROVE  a % m \in 0..(m - 1)
OBVIOUS

LEMMA AddressRange == AddressMod \in Nat \ {0} /\ 0 \in Address
<1>1. AddressMod \in Nat \ {0}
  BY DEF AddressMod
<1>2. QED
  BY <1>1 DEF Address

(* HALT and EI do their work in the last micro-operation of their program. *)
Late  == {"halt", "schedule"}
Early == MicroOps \ Late

(***************************************************************************)
(* A handler is either the single last step of HALT or EI, or a sequence   *)
(* of other micro-operations (instruction.c:513-549).                      *)
(***************************************************************************)
LEMMA HandlerType ==
  ASSUME NEW name, NEW type, NEW o
  PROVE  \/ Handler(name, type, o) \in Seq(Early)
         \/ Handler(name, type, o) \in {<<"halt">>, <<"schedule">>}
<1>1. /\ << >> \in Seq(Early)
      /\ <<"tick">> \in Seq(Early)
      /\ <<"tick", "tick">> \in Seq(Early)
  BY DEF Early, Late, MicroOps, Ticks
<1>2. Push16 \in Seq(Early) /\ Pop16 \in Seq(Early)
  BY DEF Push16, Pop16, Early, Late, MicroOps, Ticks
<1>3. /\ <<"tick">> \o Push16 \in Seq(Early)
      /\ Pop16 \o <<"tick">> \in Seq(Early)
  BY <1>1, <1>2, ConcatProperties
<1>4. Pop16 \o <<"tick", "ime_on">> \in Seq(Early)
  <2>1. <<"tick", "ime_on">> \in Seq(Early)
    BY DEF Early, Late, MicroOps, Ticks
  <2>2. QED
    BY <1>2, <2>1, ConcatProperties
<1>5. /\ Jr(type, o) \in Seq(Early)
      /\ Ld(type) \in Seq(Early)
      /\ IncDec(type) \in Seq(Early)
      /\ Cb(o.cb) \in Seq(Early)
  <2>1. /\ <<"exit">> \in Seq(Early)
        /\ <<"tick2", "store", "store_next">> \in Seq(Early)
        /\ <<"tick", "store">> \in Seq(Early)
        /\ <<"tick2", "store">> \in Seq(Early)
        /\ <<"tick", "tick", "tick", "store">> \in Seq(Early)
    BY DEF Early, Late, MicroOps, Ticks
  <2>2. QED
    BY <1>1, <2>1 DEF Jr, Ld, IncDec, Cb
<1>6. Call(type, o) \in Seq(Early)
  BY <1>1, <1>3 DEF Call
<1>7. Ret(type, o) \in Seq(Early)
  <2> DEFINE test == IF type # "NO_OPERAND" THEN <<"tick">> ELSE << >>
             jump == IF Condition(type, o) THEN Pop16 \o <<"tick">> ELSE << >>
  <2>1. test \in Seq(Early) /\ jump \in Seq(Early)
    BY <1>1, <1>3
  <2> HIDE DEF test, jump
  <2>2. test \o jump \in Seq(Early)
    BY <2>1, ConcatProperties
  <2>3. QED
    BY <2>2 DEF Ret, test, jump
<1>8. <<"ime_off">> \in Seq(Early) /\ <<"clear_div">> \in Seq(Early)
        /\ <<"store">> \in Seq(Early)
  BY DEF Early, Late, MicroOps, Ticks
<1>9. QED
  BY <1>1, <1>2, <1>3, <1>4, <1>5, <1>6, <1>7, <1>8 DEF Handler

(* A late micro-operation occurs in s at the end only. *)
LateAtEnd(s) == \A k \in 1..Len(s) : s[k] \in Late => k = Len(s)

(***************************************************************************)
(* Every program is a sequence of micro-operations that begins with the    *)
(* tick of its opcode fetch and has nothing after HALT's or EI's last step *)
(* (instruction.c:553-559).                                                *)
(***************************************************************************)
LEMMA ProgramType ==
  ASSUME NEW op, NEW o
  PROVE  /\ Program(op, o) \in Seq(MicroOps)
         /\ Program(op, o) # << >>
         /\ Head(Program(op, o)) = "tick"
         /\ LateAtEnd(Program(op, o))
<1> DEFINE fetch   == <<"tick">> \o FetchTicks(Type(op))
           handler == Handler(Name(op), Type(op), o)
<1>1. FetchTicks(Type(op)) \in Seq(Early)
  <2>1. /\ << >> \in Seq(Early)
        /\ <<"tick">> \in Seq(Early)
        /\ <<"tick", "tick">> \in Seq(Early)
        /\ <<"tick", "tick", "tick">> \in Seq(Early)
    BY DEF Early, Late, MicroOps, Ticks
  <2>2. QED
    BY <2>1 DEF FetchTicks
<1>2. fetch \in Seq(Early) /\ Len(fetch) > 0 /\ fetch[1] = "tick"
  <2>1. <<"tick">> \in Seq(Early) /\ Len(<<"tick">>) = 1 /\ <<"tick">>[1] = "tick"
    BY DEF Early, Late, MicroOps, Ticks
  <2>2. QED
    BY <1>1, <2>1, ConcatProperties
<1>3. handler \in Seq(MicroOps) /\ LateAtEnd(handler)
  <2>1. Early \subseteq MicroOps
    BY DEF Early
  <2>2. CASE handler \in Seq(Early)
    BY <2>1, <2>2 DEF LateAtEnd, Early
  <2>3. CASE handler \in {<<"halt">>, <<"schedule">>}
    <3>1. /\ <<"halt">> \in Seq(MicroOps) /\ <<"schedule">> \in Seq(MicroOps)
          /\ Len(<<"halt">>) = 1 /\ Len(<<"schedule">>) = 1
      BY DEF MicroOps, Ticks
    <3>2. \A k \in 1..1 : k = 1
      OBVIOUS
    <3> HIDE DEF handler
    <3>3. handler \in Seq(MicroOps) /\ Len(handler) = 1
      BY <2>3, <3>1
    <3>4. QED
      BY <3>2, <3>3 DEF LateAtEnd
  <2>4. QED
    BY <2>2, <2>3, HandlerType
<1> HIDE DEF fetch, handler
<1>4. fetch \in Seq(MicroOps)
  BY <1>2 DEF Early
<1>5. /\ fetch \o handler \in Seq(MicroOps)
      /\ Len(fetch \o handler) = Len(fetch) + Len(handler)
      /\ \A k \in 1..Len(fetch) : (fetch \o handler)[k] = fetch[k]
      /\ \A k \in 1..(Len(fetch) + Len(handler)) : k > Len(fetch) =>
           (fetch \o handler)[k] = handler[k - Len(fetch)]
  BY <1>3, <1>4, ConcatProperties
<1>6. fetch \o handler # << >> /\ Head(fetch \o handler) = "tick"
  BY <1>2, <1>3, <1>4, <1>5
<1>7. LateAtEnd(fetch \o handler)
  <2> SUFFICES ASSUME NEW k \in 1..(Len(fetch) + Len(handler)),
                      (fetch \o handler)[k] \in Late
               PROVE  k = Len(fetch) + Len(handler)
    BY <1>5 DEF LateAtEnd
  <2>1. CASE k <= Len(fetch)
    <3>1. k \in 1..Len(fetch)
      BY <1>2, <1>3, <2>1
    <3>2. fetch[k] \in Early
      BY <1>2, <3>1
    <3>3. (fetch \o handler)[k] = fetch[k]
      BY <1>5, <3>1
    <3>4. fetch[k] \notin Late
      BY <3>2 DEF Early
    <3>5. QED
      BY <3>3, <3>4
  <2>2. CASE k > Len(fetch)
    <3>1. k - Len(fetch) \in 1..Len(handler)
      BY <1>3, <1>4, <2>2
    <3>2. (fetch \o handler)[k] = handler[k - Len(fetch)]
      BY <1>5, <2>2
    <3>3. handler[k - Len(fetch)] \in Late
      BY <3>2
    <3>4. k - Len(fetch) = Len(handler)
      BY <1>3, <3>1, <3>3 DEF LateAtEnd
    <3>5. Len(fetch) \in Nat /\ Len(handler) \in Nat
      BY <1>3, <1>4
    <3>6. QED
      BY <3>4, <3>5
  <2>3. QED
    BY <2>1, <2>2, <1>3, <1>4
<1>8. QED
  BY <1>5, <1>6, <1>7 DEF Program, fetch, handler

LEMMA DispatchType == Dispatch \in Seq(MicroOps)
<1>1. /\ <<"tick2">> \in Seq(MicroOps)
      /\ Push16 \in Seq(MicroOps)
      /\ <<"tick">> \in Seq(MicroOps)
  BY DEF Push16, MicroOps, Ticks
<1>2. QED
  BY <1>1, ConcatProperties DEF Dispatch

-----------------------------------------------------------------------------
(* Type correctness. *)

(* A call of timer_ticks keeps the timer's registers in their range. *)
LEMMA TickType ==
  ASSUME TypeOK, NEW n \in {1, 2}, Tick(n)
  PROVE  /\ TimerTypeOK'
         /\ InterruptTypeOK'
         /\ halt' \in BOOLEAN
         /\ ime_scheduled' \in BOOLEAN
<1>1. div' \in 0..(DivMod - 1)
  <2>1. div' = (div + n) % DivMod /\ div + n \in Int
    BY DEF Tick, TimerTicks, TypeOK, TimerTypeOK
  <2>2. QED
    BY <2>1, ModRange, TimerAssumption
<1>2. tima' \in Byte
  <2>1. Reloaded \in Byte
    BY DEF Reloaded, TypeOK, TimerTypeOK
  <2>2. Freq \in Nat \ {0}
    BY TimerAssumption DEF Freq, TypeOK, TimerTypeOK
  <2>3. (div + n) \div Freq - div \div Freq \in Int
    BY <2>2 DEF TypeOK, TimerTypeOK
  <2>4. IncreaseTima(n) \in Byte
    BY <2>3, ModRange, TimerAssumption DEF IncreaseTima, Byte
  <2>5. (Reloaded + IncreaseTima(n)) % TimaMod \in Byte
    <3>1. Reloaded + IncreaseTima(n) \in Int
      BY <2>1, <2>4, TimerAssumption DEF Byte
    <3>2. QED
      BY <3>1, ModRange, TimerAssumption DEF Byte
  <2>6. 0 \in Byte
    BY TimerAssumption DEF Byte
  <2>7. QED
    BY <2>1, <2>5, <2>6 DEF Tick, TimerTicks
<1>3. tma' \in Byte /\ tac' \in 0..7 /\ tima_overflow' \in BOOLEAN
  BY DEF Tick, TimerTicks, TypeOK, TimerTypeOK
<1>4. InterruptTypeOK'
  BY SourcesAssumption
     DEF Tick, DeliverOverflow, Request, DelayedEnable, TypeOK, InterruptTypeOK
<1>5. halt' \in BOOLEAN /\ ime_scheduled' \in BOOLEAN
  BY DEF Tick, DelayedEnable, TypeOK
<1>6. QED
  BY <1>1, <1>2, <1>3, <1>4, <1>5 DEF TimerTypeOK

(* So does a store, wherever it lands. *)
LEMMA WriteType ==
  ASSUME TypeOK, NEW a \in Address, Write(a)
  PROVE  /\ TimerTypeOK'
         /\ InterruptTypeOK'
         /\ halt' \in BOOLEAN
         /\ ime_scheduled' \in BOOLEAN
<1>1. halt' \in BOOLEAN /\ ime_scheduled' \in BOOLEAN
  BY DEF Write, TypeOK, cpuVars
<1>2. CASE Device(a) \in TimerRegisters
  <2>1. PICK value \in TimerBytes : WriteTimer(Device(a), value)
    BY <1>2 DEF Write, TimerRegisters, InterruptRegisters
  <2>2. value % 8 \in 0..7 /\ value % TimaMod \in Byte
    <3>1. value \in Int
      BY EnvironmentAssumption
    <3>2. value % 8 \in 0..(8 - 1)
      BY <3>1, ModRange
    <3>3. value % TimaMod \in Byte
      BY <3>1, ModRange, TimerAssumption DEF Byte
    <3>4. QED
      BY <3>2, <3>3
  <2>3. TimerTypeOK'
    BY <2>1, <2>2, TimerAssumption DEF WriteTimer, TypeOK, TimerTypeOK
  <2>4. InterruptTypeOK'
    BY <1>2 DEF Write, TimerRegisters, InterruptRegisters, TypeOK,
                InterruptTypeOK, interruptVars
  <2>5. QED
    BY <1>1, <2>3, <2>4
<1>3. CASE Device(a) \in InterruptRegisters
  <2>1. PICK bits \in InterruptBytes : WriteInterrupt(Device(a), bits)
    BY <1>3 DEF Write, TimerRegisters, InterruptRegisters
  <2>2. InterruptTypeOK'
    BY <2>1, EnvironmentAssumption DEF WriteInterrupt, TypeOK, InterruptTypeOK
  <2>3. TimerTypeOK'
    BY <1>3 DEF Write, TimerRegisters, InterruptRegisters, TypeOK,
                TimerTypeOK, timerVars
  <2>4. QED
    BY <1>1, <2>2, <2>3
<1>4. CASE UNCHANGED <<timerVars, interruptVars>>
  BY <1>1, <1>4 DEF TypeOK, TimerTypeOK, InterruptTypeOK, timerVars, interruptVars
<1>5. QED
  BY <1>2, <1>3, <1>4 DEF Write

(* The bookkeeping of a call that returns from one micro-operation. *)
LEMMA ReturnType ==
  ASSUME TypeOK, todo # << >>, NEW a \in Address, Return(a)
  PROVE  /\ phase' \in Phases
         /\ todo' \in Seq(MicroOps)
         /\ addr' \in Address
         /\ serving' \in Sources \cup {NoInterrupt}
<1>1. todo' \in Seq(MicroOps)
  BY HeadTailProperties DEF TypeOK, Return
<1>2. QED
  BY <1>1, AddressRange DEF TypeOK, Return, NextPhase, Phases

LEMMA HighestType ==
  ASSUME NEW S \in SUBSET Sources, S # {}
  PROVE  Highest(S) \in S
<1>1. S \subseteq 0..4
  BY SourcesAssumption DEF VBLANK, JOYPAD
<1>2. \E i \in S : \A j \in S : i <= j
  <2>1. CASE 0 \in S
    BY <1>1, <2>1
  <2>2. CASE 0 \notin S /\ 1 \in S
    BY <1>1, <2>2
  <2>3. CASE 0 \notin S /\ 1 \notin S /\ 2 \in S
    BY <1>1, <2>3
  <2>4. CASE 0 \notin S /\ 1 \notin S /\ 2 \notin S /\ 3 \in S
    BY <1>1, <2>4
  <2>5. CASE 0 \notin S /\ 1 \notin S /\ 2 \notin S /\ 3 \notin S
    <3>1. \A j \in S : j = 0 \/ j = 1 \/ j = 2 \/ j = 3 \/ j = 4
      BY <1>1
    <3>2. \A j \in S : j = 4
      BY <2>5, <3>1
    <3>3. QED
      BY <3>2
  <2>6. QED
    BY <2>1, <2>2, <2>3, <2>4, <2>5
<1>3. QED
  BY <1>2 DEF Highest

LEMMA TypeInit == Init => TypeOK
<1>1. 0 \in Byte /\ << >> \in Seq(MicroOps) /\ 0 \in Address
  BY TimerAssumption, AddressRange DEF Byte
<1>2. TimerInit => TimerTypeOK
  <2>1. DivDefault \in 0..(DivMod - 1)
    BY TimerAssumption
  <2>2. 0 \in 0..7
    OBVIOUS
  <2>3. QED
    BY <1>1, <2>1, <2>2, Zenon DEF TimerInit, TimerTypeOK
<1>3. InterruptInit => InterruptTypeOK
  BY DEF InterruptInit, InterruptTypeOK
<1>4. QED
  BY <1>1, <1>2, <1>3 DEF Init, TypeOK, Phases

LEMMA TypeStep == TypeOK /\ [Next]_vars => TypeOK'
<1> SUFFICES ASSUME TypeOK, [Next]_vars PROVE TypeOK'
  OBVIOUS
<1>a. addr \in Address /\ 0 \in Address
  BY AddressRange DEF TypeOK
<1>1. CASE TickOnce
  BY <1>1, <1>a, TickType, ReturnType DEF TickOnce, Running, TypeOK
<1>2. CASE TickTwice
  BY <1>2, <1>a, TickType, ReturnType DEF TickTwice, Running, TypeOK
<1>3. CASE Store
  BY <1>3, <1>a, WriteType, ReturnType DEF Store, Running, TypeOK
<1>4. CASE StoreNext
  <2> DEFINE next == (addr + 1) % AddressMod
  <2>1. next \in Address
    <3>1. addr + 1 \in Int
      BY <1>a, AddressRange DEF Address
    <3>2. QED
      BY <3>1, AddressRange, ModRange DEF Address
  <2>2. Write(next) /\ Return(next) /\ todo # << >>
    BY <1>4 DEF StoreNext, Running
  <2> HIDE DEF next
  <2>3. QED
    BY <2>1, <2>2, WriteType, ReturnType DEF TypeOK
<1>5. CASE Push
  <2> DEFINE below == (addr + AddressMod - 1) % AddressMod
  <2>1. below \in Address
    <3>1. addr + AddressMod - 1 \in Int
      BY <1>a, AddressRange DEF Address
    <3>2. QED
      BY <3>1, AddressRange, ModRange DEF Address
  <2>2. Write(below) /\ Return(below) /\ todo # << >>
    BY <1>5 DEF Push, Running
  <2> HIDE DEF below
  <2>3. QED
    BY <2>1, <2>2, WriteType, ReturnType DEF TypeOK
<1>6. CASE ClearDiv
  <2>1. TimerTypeOK'
    BY <1>6, TimerAssumption DEF ClearDiv, WriteTimer, TypeOK, TimerTypeOK
  <2>2. QED
    BY <1>6, <1>a, <2>1, ReturnType
       DEF ClearDiv, Running, TypeOK, InterruptTypeOK, interruptVars, cpuVars
<1>7. CASE SetIme
  BY <1>7, <1>a, ReturnType
     DEF SetIme, Running, TypeOK, TimerTypeOK, InterruptTypeOK, timerVars, cpuVars
<1>8. CASE ScheduleIme
  BY <1>8, <1>a, ReturnType
     DEF ScheduleIme, Running, TypeOK, TimerTypeOK, InterruptTypeOK, timerVars,
         interruptVars
<1>9. CASE EnterHalt
  BY <1>9, <1>a, ReturnType
     DEF EnterHalt, Running, TypeOK, TimerTypeOK, InterruptTypeOK, timerVars,
         interruptVars
<1>10. CASE Exit
  BY <1>10, <1>a
     DEF Exit, TypeOK, TimerTypeOK, InterruptTypeOK, timerVars, interruptVars,
         cpuVars, Phases
<1>11. CASE ExecuteInstruction
  <2>1. todo' \in Seq(MicroOps)
    BY <1>11, ProgramType DEF ExecuteInstruction
  <2>2. addr' \in Address
    BY <1>11, <1>a, EnvironmentAssumption DEF ExecuteInstruction, AddressesFor
  <2>3. QED
    BY <1>11, <2>1, <2>2
       DEF ExecuteInstruction, TypeOK, TimerTypeOK, InterruptTypeOK, timerVars,
           interruptVars, cpuVars, Phases
<1>12. CASE HaltTick
  BY <1>12, TickType DEF HaltTick, TypeOK, Phases
<1>13. CASE NoDispatch
  BY <1>13
     DEF NoDispatch, TypeOK, TimerTypeOK, InterruptTypeOK, timerVars,
         interruptVars, Phases
<1>14. CASE BeginDispatch
  <2>1. Pending \in SUBSET Sources /\ Pending # {}
    BY <1>14 DEF BeginDispatch, Pending, TypeOK, InterruptTypeOK
  <2>2. serving' \in Sources \cup {NoInterrupt}
    BY <1>14, <2>1, HighestType DEF BeginDispatch
  <2>3. QED
    BY <1>14, <2>2, DispatchType, EnvironmentAssumption
       DEF BeginDispatch, TypeOK, TimerTypeOK, InterruptTypeOK, timerVars,
           interruptVars, Phases
<1>15. CASE ClearFlag
  BY <1>15
     DEF ClearFlag, TypeOK, TimerTypeOK, InterruptTypeOK, timerVars, cpuVars,
         Phases
<1>16. CASE UNCHANGED vars
  BY <1>16
     DEF vars, TypeOK, TimerTypeOK, InterruptTypeOK, timerVars, interruptVars,
         cpuVars, callVars
<1>17. QED
  BY <1>1, <1>2, <1>3, <1>4, <1>5, <1>6, <1>7, <1>8, <1>9, <1>10, <1>11, <1>12,
     <1>13, <1>14, <1>15, <1>16 DEF Next, CallStep, LoopStep

(* Type correctness: the registers stay in their ranges, and the running   *)
(* call always is a sequence of known micro-operations (the whole of       *)
(* main.c:23-36 with the code it calls).                                   *)
THEOREM TypeCorrect == Spec => []TypeOK
BY TypeInit, TypeStep, PTL DEF Spec

-----------------------------------------------------------------------------
(* The discipline of HALT and EI. *)

DispatchOps == {"tick", "tick2", "push"}

(***************************************************************************)
(* The shape of the running call.  While an instruction executes something *)
(* is left of it, HALT's and EI's effect being the last thing it does;     *)
(* a dispatch only ticks and pushes; elsewhere no call is running.         *)
(***************************************************************************)
CallShape ==
  /\ phase = "execute" => todo # << >> /\ LateAtEnd(todo)
  /\ phase = "dispatch" =>
       /\ todo # << >>
       /\ \A k \in 1..Len(todo) : todo[k] \in DispatchOps
  /\ phase \notin {"execute", "dispatch"} => todo = << >>

(***************************************************************************)
(* Where halt and ime_scheduled may be set.  An EI is outstanding only     *)
(* until the first tick of the next instruction, which is why it never     *)
(* meets halt, and why the ticks of a dispatch find IME set already.       *)
(***************************************************************************)
HaltInv ==
  /\ phase \in {"execute", "dispatch", "clear"} => ~halt
  /\ halt => ~ime_scheduled
  /\ NoSleepThroughInterrupt

EnableInv ==
  /\ phase = "execute" /\ ime_scheduled => Head(todo) \in Ticks
  /\ phase = "dispatch" => ime

IInv == TypeOK /\ CallShape /\ HaltInv /\ EnableInv

(* Dispatch consists of ticks and pushes (interrupt.c:79-87). *)
LEMMA DispatchShape ==
  /\ Dispatch # << >>
  /\ \A k \in 1..Len(Dispatch) : Dispatch[k] \in DispatchOps
<1>1. /\ <<"tick2">> \in Seq(DispatchOps)
      /\ Push16 \in Seq(DispatchOps)
      /\ <<"tick">> \in Seq(DispatchOps)
  BY DEF Push16, DispatchOps
<1>2. Dispatch \in Seq(DispatchOps)
  BY <1>1, ConcatProperties DEF Dispatch
<1>3. Len(Dispatch) > 0
  BY <1>1, ConcatProperties DEF Dispatch
<1>4. QED
  BY <1>2, <1>3

(* Returning from a micro-operation keeps the shape of the call. *)
LEMMA ReturnShape ==
  ASSUME TypeOK, CallShape, phase \in {"execute", "dispatch"}, NEW a, Return(a)
  PROVE  /\ CallShape'
         /\ phase = "execute" /\ Head(todo) \in Late => phase' = "interrupts"
         /\ phase = "execute" => phase' \in {"execute", "interrupts"}
         /\ phase = "dispatch" => phase' \in {"dispatch", "clear"}
<1>1. /\ todo \in Seq(MicroOps) /\ todo # << >>
      /\ Tail(todo) \in Seq(MicroOps)
      /\ Len(Tail(todo)) = Len(todo) - 1
      /\ \A k \in 1..Len(Tail(todo)) : Tail(todo)[k] = todo[k + 1]
      /\ Len(todo) \in Nat /\ Len(todo) > 0
  BY HeadTailProperties DEF TypeOK, CallShape
<1>2. CASE phase = "execute"
  <2>1. LateAtEnd(Tail(todo))
    <3> SUFFICES ASSUME NEW k \in 1..Len(Tail(todo)), Tail(todo)[k] \in Late
                 PROVE  k = Len(Tail(todo))
      BY DEF LateAtEnd
    <3>1. k + 1 \in 1..Len(todo) /\ todo[k + 1] \in Late
      BY <1>1
    <3>2. k + 1 = Len(todo)
      BY <1>2, <3>1 DEF CallShape, LateAtEnd
    <3>3. Len(Tail(todo)) \in Nat
      BY <1>1, LenProperties
    <3>4. k \in Int /\ Len(todo) \in Int /\ Len(Tail(todo)) = Len(todo) - 1
      BY <1>1, <3>3
    <3> DEFINE n == Len(todo)
               t == Len(Tail(todo))
    <3>5. k + 1 = n /\ t = n - 1 /\ k \in Int /\ n \in Int
      BY <3>2, <3>4
    <3> HIDE DEF n, t
    <3>6. k = t
      BY <3>5
    <3>7. QED
      BY <3>6 DEF t
  <2>2. ASSUME Head(todo) \in Late PROVE Tail(todo) = << >>
    <3>1. 1 \in 1..Len(todo) /\ todo[1] \in Late
      BY <1>1, <2>2
    <3>2. Len(todo) = 1
      BY <1>2, <3>1 DEF CallShape, LateAtEnd
    <3>3. Len(Tail(todo)) = 0
      BY <1>1, <3>2
    <3>4. QED
      BY <1>1, <3>3, EmptySeq
  <2>3. QED
    BY <1>2, <2>1, <2>2 DEF Return, NextPhase, CallShape, LateAtEnd
<1>3. CASE phase = "dispatch"
  <2>1. \A k \in 1..Len(Tail(todo)) : Tail(todo)[k] \in DispatchOps
    <3> SUFFICES ASSUME NEW k \in 1..Len(Tail(todo))
                 PROVE  Tail(todo)[k] \in DispatchOps
      OBVIOUS
    <3>1. k + 1 \in 1..Len(todo)
      BY <1>1
    <3>2. QED
      BY <1>1, <1>3, <3>1 DEF CallShape
  <2>2. QED
    BY <1>3, <2>1 DEF Return, NextPhase, CallShape
<1>4. QED
  BY <1>2, <1>3

(* A dispatch has no micro-operation but ticks and pushes left to run. *)
LEMMA DispatchHead ==
  ASSUME TypeOK, CallShape, phase = "dispatch"
  PROVE  Head(todo) \in DispatchOps
<1>1. todo \in Seq(MicroOps) /\ todo # << >>
  BY DEF TypeOK, CallShape
<1>2. 1 \in 1..Len(todo) /\ Head(todo) = todo[1]
  BY <1>1
<1>3. QED
  BY <1>2 DEF CallShape

LEMMA InvInit == Init => IInv
<1>1. Init => TypeOK
  BY TypeInit
<1>2. Init => CallShape /\ HaltInv /\ EnableInv
  BY DEF Init, CallShape, HaltInv, EnableInv, NoSleepThroughInterrupt
<1>3. QED
  BY <1>1, <1>2 DEF IInv

LEMMA InvStep == IInv /\ [Next]_vars => IInv'
<1> SUFFICES ASSUME IInv, [Next]_vars PROVE IInv'
  OBVIOUS
<1>a. TypeOK'
  BY TypeStep DEF IInv
<1>b. TypeOK /\ CallShape /\ HaltInv /\ EnableInv
  BY DEF IInv
<1>1. CASE TickOnce \/ TickTwice
  <2>1. /\ phase \in {"execute", "dispatch"}
        /\ \E a : Return(a)
        /\ halt' = halt /\ ime_scheduled' = FALSE /\ ime' = (ime \/ ime_scheduled)
    BY <1>1 DEF TickOnce, TickTwice, Running, Tick, DelayedEnable
  <2>2. CallShape' /\ phase' \in {"execute", "interrupts", "dispatch", "clear"}
        /\ (phase' = "dispatch" => phase = "dispatch")
    BY <1>b, <2>1, ReturnShape
  <2>3. QED
    BY <1>a, <1>b, <2>1, <2>2
       DEF IInv, HaltInv, EnableInv, NoSleepThroughInterrupt
<1>2. CASE Store \/ StoreNext \/ Push
  <2>1. /\ phase \in {"execute", "dispatch"}
        /\ \E a : Return(a)
        /\ halt' = halt /\ ime_scheduled' = ime_scheduled
        /\ Head(todo) \notin Ticks
    BY <1>2 DEF Store, StoreNext, Push, Running, Write, cpuVars, Ticks
  <2>2. CallShape' /\ phase' \in {"execute", "interrupts", "dispatch", "clear"}
        /\ (phase' = "dispatch" => phase = "dispatch")
        /\ (phase' = "execute" => phase = "execute")
    BY <1>b, <2>1, ReturnShape
  <2>3. ime' = ime
    BY <1>2 DEF Store, StoreNext, Push, Write, WriteInterrupt, interruptVars
  <2>4. QED
    BY <1>a, <1>b, <2>1, <2>2, <2>3
       DEF IInv, HaltInv, EnableInv, NoSleepThroughInterrupt
<1>3. CASE ClearDiv \/ SetIme
  <2>1. /\ phase \in {"execute", "dispatch"}
        /\ \E a : Return(a)
        /\ halt' = halt /\ ime_scheduled' = ime_scheduled
        /\ Head(todo) \in {"clear_div", "ime_on", "ime_off"}
    BY <1>3 DEF ClearDiv, SetIme, Running, cpuVars
  <2>2. phase = "execute"
    BY <1>b, <2>1, DispatchHead DEF DispatchOps
  <2>3. CallShape' /\ phase' \in {"execute", "interrupts"}
    BY <1>b, <2>1, <2>2, ReturnShape
  <2>4. QED
    BY <1>a, <1>b, <2>1, <2>2, <2>3
       DEF IInv, HaltInv, EnableInv, NoSleepThroughInterrupt, Ticks
<1>4. CASE ScheduleIme \/ EnterHalt
  <2>1. /\ phase \in {"execute", "dispatch"}
        /\ \E a : Return(a)
        /\ Head(todo) \in Late /\ Head(todo) \notin DispatchOps \cup Ticks
        /\ \/ halt' = halt
           \/ ime_scheduled' = ime_scheduled
    BY <1>4 DEF ScheduleIme, EnterHalt, Running, Late, DispatchOps, Ticks
  <2>2. phase = "execute"
    BY <1>b, <2>1, DispatchHead
  <2>3. CallShape' /\ phase' = "interrupts"
    BY <1>b, <2>1, <2>2, ReturnShape
  <2>4. halt' => ~ime_scheduled'
    BY <1>4, <1>b, <2>1, <2>2 DEF ScheduleIme, EnterHalt, HaltInv, EnableInv
  <2>5. QED
    BY <1>a, <2>3, <2>4 DEF IInv, HaltInv, EnableInv, NoSleepThroughInterrupt
<1>5. CASE Exit
  BY <1>a, <1>b, <1>5
     DEF Exit, cpuVars, IInv, CallShape, HaltInv, EnableInv,
         NoSleepThroughInterrupt
<1>6. CASE ExecuteInstruction
  <2>1. todo' # << >> /\ Head(todo') = "tick" /\ LateAtEnd(todo')
    BY <1>6, ProgramType DEF ExecuteInstruction
  <2>2. CallShape'
    BY <1>6, <2>1 DEF ExecuteInstruction, CallShape, LateAtEnd
  <2>3. QED
    BY <1>a, <1>b, <1>6, <2>1, <2>2
       DEF ExecuteInstruction, cpuVars, IInv, HaltInv, EnableInv,
           NoSleepThroughInterrupt, Ticks
<1>7. CASE HaltTick
  BY <1>a, <1>b, <1>7
     DEF HaltTick, Tick, DelayedEnable, IInv, CallShape, HaltInv, EnableInv,
         NoSleepThroughInterrupt
<1>8. CASE NoDispatch
  BY <1>a, <1>b, <1>8
     DEF NoDispatch, IInv, CallShape, HaltInv, EnableInv,
         NoSleepThroughInterrupt, Pending, interruptVars
<1>9. CASE BeginDispatch
  <2>1. CallShape'
    BY <1>9, DispatchShape DEF BeginDispatch, CallShape
  <2>2. QED
    BY <1>a, <1>b, <1>9, <2>1
       DEF BeginDispatch, IInv, HaltInv, EnableInv, NoSleepThroughInterrupt,
           interruptVars
<1>10. CASE ClearFlag
  BY <1>a, <1>b, <1>10
     DEF ClearFlag, cpuVars, IInv, CallShape, HaltInv, EnableInv,
         NoSleepThroughInterrupt
<1>11. CASE UNCHANGED vars
  BY <1>a, <1>b, <1>11
     DEF vars, interruptVars, cpuVars, callVars, IInv, CallShape, LateAtEnd,
         HaltInv, EnableInv, NoSleepThroughInterrupt, Pending
<1>12. QED
  BY <1>1, <1>2, <1>3, <1>4, <1>5, <1>6, <1>7, <1>8, <1>9, <1>10, <1>11
     DEF Next, CallStep, LoopStep

LEMMA Invariant == Spec => []IInv
BY InvInit, InvStep, PTL DEF Spec

(* A CPU in halt mode never has a request both set and enabled when the    *)
(* loop lets the next cycle pass (main.c:23-30, interrupt.c:90-98).        *)
THEOREM HaltNeverSleepsThrough == Spec => []NoSleepThroughInterrupt
<1>1. IInv => NoSleepThroughInterrupt
  BY DEF IInv, HaltInv
<1>2. QED
  BY <1>1, Invariant, PTL

(* An EI is consumed by the opcode fetch that follows it, before anything  *)
(* else the next instruction does (timer.c:85-89).                         *)
THEOREM EnableIsConsumed == Spec => []NoStaleEnable
<1>1. IInv => NoStaleEnable
  BY DEF IInv, EnableInv, NoStaleEnable
<1>2. QED
  BY <1>1, Invariant, PTL

(* IME rises only inside an instruction, so that the instruction after EI  *)
(* runs before the interrupt it lets in (timer.c:85-89).                   *)
THEOREM EnableNeedsInstruction == Spec => EnableOnlyInsideInstruction
<1>1. IInv /\ [Next]_vars => [~ime /\ ime' => phase = "execute"]_vars
  <2> SUFFICES ASSUME IInv, Next, ~ime, ime' PROVE phase = "execute"
    OBVIOUS
  <2>1. TypeOK /\ CallShape /\ HaltInv /\ EnableInv
    BY DEF IInv
  <2>2. CASE CallStep
    <3>1. phase \in {"execute", "dispatch"}
      BY <2>2 DEF CallStep, TickOnce, TickTwice, Store, StoreNext, Push, ClearDiv,
                  SetIme, ScheduleIme, EnterHalt, Exit, Running
    <3>2. QED
      BY <2>1, <3>1 DEF EnableInv
  <2>3. CASE LoopStep
    BY <2>1, <2>3
       DEF LoopStep, ExecuteInstruction, HaltTick, NoDispatch, BeginDispatch,
           ClearFlag, Tick, DelayedEnable, HaltInv, interruptVars
  <2>4. QED
    BY <2>2, <2>3 DEF Next
<1>2. QED
  BY <1>1, Invariant, PTL DEF Spec, EnableOnlyInsideInstruction

-----------------------------------------------------------------------------
(* The requests. *)

(* A request leaves IF only by the completion of its own dispatch or by a  *)
(* store of the program (interrupt.c:29-41, 101-104).                      *)
THEOREM RequestsSurvive == Spec => NoLostRequest
<1>1. [Next]_vars =>
        [\A i \in Sources : i \in if_reg /\ i \notin if_reg' =>
           \/ phase = "clear" /\ serving = i
           \/ Running("store") \/ Running("store_next") \/ Running("push")]_vars
  <2> SUFFICES ASSUME Next, NEW i \in Sources, i \in if_reg, i \notin if_reg'
               PROVE  \/ phase = "clear" /\ serving = i
                      \/ Running("store") \/ Running("store_next")
                      \/ Running("push")
    OBVIOUS
  <2>1. CASE CallStep
    BY <2>1
       DEF CallStep, TickOnce, TickTwice, Tick, DeliverOverflow, Request, Store,
           StoreNext, Push, ClearDiv, SetIme, ScheduleIme, EnterHalt, Exit,
           interruptVars
  <2>2. CASE LoopStep
    BY <2>2
       DEF LoopStep, ExecuteInstruction, HaltTick, Tick, DeliverOverflow, Request,
           NoDispatch, BeginDispatch, ClearFlag, interruptVars
  <2>3. QED
    BY <2>1, <2>2 DEF Next
<1>2. QED
  BY <1>1, PTL DEF Spec, NoLostRequest

-----------------------------------------------------------------------------
(* The arithmetic of the timer. *)

(***************************************************************************)
(* One call of timer_ticks advances TIMA, its pending overflow counted as  *)
(* a carry, by the number of periods that end in the call, although it     *)
(* computes with the DIV of before the call and wraps DIV and the          *)
(* increment to their widths (timer.c:77-117).                             *)
(***************************************************************************)
LEMMA TickCounts ==
  ASSUME TypeOK, NEW n \in {1, 2}, TimerTicks(n)
  PROVE  tima' + (IF tima_overflow' THEN TimaMod ELSE 0) =
           Reloaded + (IF TimerEnabled /\ div' % Freq < n THEN 1 ELSE 0)
<1> DEFINE ends == IF (div + n) % Freq < n THEN 1 ELSE 0
<1>1. /\ Freq \in Nat \ {0} /\ n <= Freq /\ DivMod % Freq = 0
      /\ DivMod \in Nat \ {0} /\ TimaMod \in Nat /\ TimaMod >= 2
      /\ n \in Nat \ {0}
  <2>1. tac % 4 \in 0..3
    BY DEF TypeOK, TimerTypeOK
  <2>2. MaxTicks \in Nat /\ n <= MaxTicks
    BY TimerAssumption, EnvironmentAssumption
  <2>3. Freq \in Nat \ {0} /\ MaxTicks <= Freq /\ DivMod % Freq = 0
    BY <2>1, TimerAssumption DEF Freq
  <2>4. QED
    BY <2>2, <2>3, TimerAssumption
<1>2. div \in Nat /\ div + n \in Nat
  BY <1>1 DEF TypeOK, TimerTypeOK
<1>3. (div + n) \div Freq - div \div Freq = ends
  BY <1>1, <1>2, PeriodEnds
<1>4. div' % Freq = (div + n) % Freq
  BY <1>1, <1>2, WrapModulo DEF TimerTicks
<1> HIDE DEF ends
<1>5. ends \in {0, 1} /\ (ends = 1 <=> div' % Freq < n)
  BY <1>4 DEF ends
<1>6. \A x \in Nat : x < TimaMod => x % TimaMod = x
  <2> SUFFICES ASSUME NEW x \in Nat, x < TimaMod PROVE x % TimaMod = x
    OBVIOUS
  <2>1. TimaMod \in Nat \ {0} /\ TimaMod * 0 + x = x
    BY <1>1
  <2>2. QED
    BY <2>1, DivisionOf
<1>7. IncreaseTima(n) = ends
  BY <1>1, <1>3, <1>5, <1>6 DEF IncreaseTima
<1>8. Reloaded \in Nat /\ Reloaded <= TimaMod - 1
  BY <1>1 DEF Reloaded, TypeOK, TimerTypeOK, Byte
<1>9. CASE ~(TimerEnabled /\ ends = 1)
  <2>1. ~(TimerEnabled /\ IncreaseTima(n) # 0)
    BY <1>5, <1>7, <1>9
  <2>2. tima' = Reloaded /\ ~tima_overflow'
    BY <2>1 DEF TimerTicks
  <2>3. ~(TimerEnabled /\ div' % Freq < n)
    BY <1>5, <1>9
  <2>4. QED
    BY <1>8, <2>2, <2>3
<1>10. CASE TimerEnabled /\ ends = 1 /\ Reloaded = TimaMod - 1
  <2>1. IncreaseTima(n) # 0
    BY <1>7, <1>10
  <2>2. tima' = 0 /\ tima_overflow'
    BY <1>10, <2>1, Zenon DEF TimerTicks
  <2>3. Reloaded + 1 = TimaMod
    BY <1>1, <1>10
  <2>4. QED
    BY <1>1, <1>5, <1>10, <2>2, <2>3
<1>11. CASE TimerEnabled /\ ends = 1 /\ Reloaded # TimaMod - 1
  <2>1. Reloaded + 1 \in Nat /\ Reloaded + 1 < TimaMod
    BY <1>1, <1>8, <1>11
  <2>2. (Reloaded + 1) % TimaMod = Reloaded + 1
    BY <2>1, <1>6
  <2>a. IncreaseTima(n) = 1 /\ IncreaseTima(n) # 0
    BY <1>7, <1>11
  <2>3. tima' = Reloaded + 1 /\ ~tima_overflow'
    BY <1>11, <2>a, <2>2, Zenon DEF TimerTicks
  <2>4. QED
    BY <1>5, <1>8, <1>11, <2>3
<1>12. QED
  BY <1>9, <1>10, <1>11

(* The cycles a step lets pass go through timer_ticks. *)
LEMMA ElapsedTicks ==
  ASSUME Next, Elapsed > 0
  PROVE  Elapsed \in {1, 2} /\ TimerTicks(Elapsed)
<1>1. CASE Running("tick2")
  BY <1>1 DEF Elapsed, Next, CallStep, LoopStep, TickOnce, TickTwice, Store,
              StoreNext, Push, ClearDiv, SetIme, ScheduleIme, EnterHalt, Exit,
              ExecuteInstruction, HaltTick, NoDispatch, BeginDispatch, ClearFlag,
              Running, Tick
<1>2. CASE Running("tick")
  BY <1>2 DEF Elapsed, Next, CallStep, LoopStep, TickOnce, TickTwice, Store,
              StoreNext, Push, ClearDiv, SetIme, ScheduleIme, EnterHalt, Exit,
              ExecuteInstruction, HaltTick, NoDispatch, BeginDispatch, ClearFlag,
              Running, Tick
<1>3. CASE phase = "loop" /\ halt
  BY <1>3 DEF Elapsed, Next, CallStep, LoopStep, TickOnce, TickTwice, Store,
              StoreNext, Push, ClearDiv, SetIme, ScheduleIme, EnterHalt, Exit,
              ExecuteInstruction, HaltTick, NoDispatch, BeginDispatch, ClearFlag,
              Running, Tick
<1>4. QED
  BY <1>1, <1>2, <1>3 DEF Elapsed

(* TIMA counts every period that ends while the timer runs, for any widths *)
(* of DIV and TIMA and any periods that divide DIV's range and are not     *)
(* shorter than the longest call (timer.c:77-117).                         *)
THEOREM TimerCounts == Spec => CountsEveryPeriod
<1>1. TypeOK /\ [Next]_vars =>
        [Elapsed > 0 =>
           tima' + (IF tima_overflow' THEN TimaMod ELSE 0) =
             Reloaded + (IF TimerEnabled /\ div' % Freq < Elapsed THEN 1 ELSE 0)]_vars
  <2> SUFFICES ASSUME TypeOK, Next, Elapsed > 0
               PROVE  tima' + (IF tima_overflow' THEN TimaMod ELSE 0) =
                        Reloaded + (IF TimerEnabled /\ div' % Freq < Elapsed
                                    THEN 1 ELSE 0)
    OBVIOUS
  <2>1. Elapsed \in {1, 2} /\ TimerTicks(Elapsed)
    BY ElapsedTicks
  <2>2. QED
    BY <2>1, TickCounts
<1>2. QED
  BY <1>1, TypeCorrect, PTL DEF Spec, CountsEveryPeriod
=============================================================================
