---------------------------- MODULE MCProcessor -----------------------------
(***************************************************************************)
(* Small programs in machine code, the command lines they are run with and *)
(* the points of the timer's cycle they are begun at.                      *)
(***************************************************************************)
EXTENDS Processor

At(base, bytes) == [a \in base..(base + Len(bytes) - 1) |-> bytes[a - base + 1]]

-----------------------------------------------------------------------------
(* What all programs share. *)

\* Address 0x100: one cycle or more, then JP 0x150.
Entry(nops) == At(\h100, [i \in 1..nops |-> 0] \o <<\hC3, \h50, \h01>>)

\* LD SP,D000; TMA = 228; TIMA = start; IE = 5; TAC = 5: an overflow every 112
\* cycles.  IME is set from the beginning.
Prelude(start) ==
  <<\h31, \h00, \hD0, \h3E, 228, \hE0, \h06, \h3E, start, \hE0, \h05,
    \h3E, 5, \hE0, \hFF, \hE0, \h07>>

\* VBLANK counts at 0xC102.
VblankHandler ==
  At(\h40, <<\hF5, \hE5,            \* PUSH AF; PUSH HL
             \h21, \h02, \hC1, \h34,\* LD HL,C102; INC (HL)
             \hE1, \hF1, \hD9>>)    \* POP HL; POP AF; RETI

\* TIMA counts at 0xC100, counts at 0xC101 if the bytes 0xC010 and 0xC011
\* differ, and requests VBLANK, which is served inside it.
TimerHandler ==
  At(\h50, <<\hF5, \hE5,
             \h21, \h10, \hC0, \h2A, \hBE,       \* LD HL,C010; LD A,(HL+); CP (HL)
             \h28, \h04, \h21, \h01, \hC1, \h34, \* JR Z,+4; LD HL,C101; INC (HL)
             \h21, \h00, \hC1, \h34,             \* LD HL,C100; INC (HL)
             \h3E, \h01, \hE0, \h0F,             \* LD A,1; LDH (0F),A
             \hE1, \hF1, \hD9>>)

\* RST 38 doubles A.
RstRoutine == At(\h38, <<\h87, \hC9>>)

Rom(body, rest, start, nops) ==
  Entry(nops) @@ RstRoutine @@ VblankHandler @@ TimerHandler
    @@ At(\h150, Prelude(start) \o body) @@ rest

\* JR -2.
End == <<\h18, \hFE>>

-----------------------------------------------------------------------------
(* The programs, from 0x161 on. *)

\* x times y by shifting and adding, into 0xC002 and 0xC003.
Multiply(x, y) ==
  <<\h21, \h00, \hC0, \h36, x, \h23, \h36, y, \* LD HL,C000; LD (HL),x; INC HL; LD (HL),y
    \hFA, \h01, \hC0, \h4F, \h06, \h00,       \* LD A,(C001); LD C,A; LD B,0
    \hFA, \h00, \hC0, \h21, \h00, \h00,       \* LD A,(C000); LD HL,0
    \h1E, \h08,                               \* LD E,8
    \h29, \h87, \h30, \h01, \h09,             \* ADD HL,HL; ADD A,A; JR NC,+1; ADD HL,BC
    \h1D, \h20, \hF8,                         \* DEC E; JR NZ,-8
    \h7D, \hEA, \h02, \hC0, \h7C, \hEA, \h03, \hC0>> \o End

\* n + ... + 1 by recursion, into 0xC000 and 0xC001; the function is at 0x170.
Triangle(n) ==
  <<\h3E, n, \hCD, \h70, \h01,                       \* LD A,n; CALL 0170
    \h7D, \hEA, \h00, \hC0, \h7C, \hEA, \h01, \hC0>> \o End \o
  <<\hB7, \h21, \h00, \h00, \hC8,                    \* OR A; LD HL,0; RET Z
    \hF5, \h3D, \hCD, \h70, \h01, \hF1,              \* PUSH AF; DEC A; CALL 0170; POP AF
    \h5F, \h16, \h00, \h19, \hC9>>                   \* LD E,A; LD D,0; ADD HL,DE; RET

\* The bytes 0xC010 and 0xC011 are incremented six times with interrupts
\* disabled.
CriticalSection ==
  <<\h06, \h06, \hF3, \h21, \h10, \hC0, \h34, \h23, \h34, \* LD B,6; DI; LD HL,C010; INC (HL); INC HL; INC (HL)
    \hFB, \h05, \h20, \hF5>> \o End                       \* EI; DEC B; JR NZ,-11

\* Twice HALT, then HALT with interrupts disabled; 42 into 0xC000.
Sleeper ==
  <<\h06, \h02, \h76, \h05, \h20, \hFC,       \* LD B,2; HALT; DEC B; JR NZ,-4
    \hF3, \h76, \h3E, 42, \hEA, \h00, \hC0>>  \* DI; HALT; LD A,42; LD (C000),A
    \o End

\* Every byte of the string at 0x200 to the console.
Message ==
  <<\h21, \h00, \h02, \h2A, \hB7, \h28, \h08,  \* LD HL,0200; LD A,(HL+); OR A; JR Z,+8
    \hE0, \h01, \h3E, \h81, \hE0, \h02,        \* LDH (01),A; LD A,81; LDH (02),A
    \h18, \hF4>> \o End                        \* JR -12

Letters == <<79, 75, 75, 33>>

\* The instructions that move SP, the pairs, a jump through HL, DAA, CB, and
\* the high page.
Moves ==
  <<\h08, \h00, \hC0,                                 \* LD (C000),SP
    \h01, \hFF, \h12, \hC5, \hF1, \hF5, \hC1,         \* LD BC,12FF; PUSH BC; POP AF; PUSH AF; POP BC
    \h79, \hEA, \h02, \hC0,                           \* LD A,C; LD (C002),A
    \hF8, \hFE, \hE5, \hF9, \hE8, \h02,               \* LD HL,SP-2; PUSH HL; LD SP,HL; ADD SP,2
    \h7C, \hEA, \h03, \hC0, \h7D, \hEA, \h04, \hC0,
    \h3E, 21, \hFF, \hEA, \h05, \hC0,                 \* LD A,21; RST 38; LD (C005),A
    \h3E, \h45, \hC6, \h38, \h27, \hEA, \h06, \hC0,   \* LD A,45; ADD A,38; DAA; LD (C006),A
    \h21, \h07, \hC0, \h36, \h81, \hCB, \h06,         \* LD HL,C007; LD (HL),81; RLC (HL)
    \hCB, \hDE, \hCB, \h7E,                           \* SET 3,(HL); BIT 7,(HL)
    \h11, \h07, \hC0, \h1A, \h0E, \h80, \hE2,         \* LD DE,C007; LD A,(DE); LD C,80; LD (C),A
    \hAF, \hF2, \hC6, \h01, \hEA, \h08, \hC0,         \* XOR A; LD A,(C); ADD A,1; LD (C008),A
    \h21, \hAA, \h01, \hE9, \h18, \hFE,               \* LD HL,01AA; JP (HL); JR -2
    \h3E, \h01, \hEA, \h09, \hC0>> \o End             \* LD A,1; LD (C009),A

Results ==
  [multiply |-> (\hC002 :> (200 * 123) % 256) @@ (\hC003 :> (200 * 123) \div 256),
   triangle |-> (\hC000 :> ((23 * 24) \div 2) % 256) @@ (\hC001 :> ((23 * 24) \div 2) \div 256),
   critical |-> (\hC010 :> 6) @@ (\hC011 :> 6) @@ (\hC101 :> 0),
   sleeper  |-> (\hC000 :> 42),
   message  |-> << >>,
   moves    |-> At(\hC000, <<\h00, \hD0, \hF0, \hCF, \hFE, 42, \h83, \h0B, \h0C, \h01>>)]

Bodies ==
  [multiply |-> Multiply(200, 123), triangle |-> Triangle(23),
   critical |-> CriticalSection, sleeper |-> Sleeper, message |-> Message,
   moves |-> Moves]

-----------------------------------------------------------------------------
(* Command lines, in the order argp hands them over. *)

Line(options_before) == options_before \o <<"exit-infinite-loop", "CARTRIDGE", "end">>

Plain(program) == Line(IF program = "message" THEN <<"blargg">> ELSE << >>)

LevelLines ==
  {Line(levels \o rest) :
     levels \in UNION {[1..n -> {"silent", "level ?", "level TRACE"}] : n \in 0..2},
     rest \in {<<"blargg">>, <<"trace">>}}
    \cup {Line(<<"blargg", "level ERROR">>), Line(<<"level WARNING", "blargg">>)}

\* No cartridge, two and three.
OddLines ==
  {<<"blargg", "end">>,
   <<"blargg", "exit-infinite-loop", "CARTRIDGE", "CARTRIDGE", "end">>,
   <<"CARTRIDGE", "CARTRIDGE", "CARTRIDGE", "end">>}

Jobs ==
  {<<p, Plain(p), start, nops>> : p \in DOMAIN Bodies, start \in 228..255, nops \in 0..3}
    \cup ({"message"} \X (LevelLines \cup OddLines) \X {230} \X {0})

MCPrograms ==
  [j \in Jobs |->
     [rom |-> Rom(Bodies[j[1]], At(\h200, Letters \o <<0>>), j[3], j[4]),
      keys |-> j[2], result |-> Results[j[1]],
      message |-> IF j[1] = "message" THEN Letters ELSE << >>]]

MCData == (\hC000..\hC01F) \cup {\hFF80}
=============================================================================
