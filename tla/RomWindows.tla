----------------------------- MODULE RomWindows -----------------------------
(***************************************************************************)
(* What the ROM banking of a cartridge promises the program: two windows   *)
(* of 16 KiB, each showing one bank.  A bank number has an upper part and  *)
(* a lower part below "span".  A write of the program moves one part, or   *)
(* puts the low window under the upper part, and nothing else moves; the   *)
(* high window of a full span never shows a bank whose lower part is 0.    *)
(***************************************************************************)
EXTENDS Integers

VARIABLES span,       \* banks the lower part of the number tells apart
          both,       \* the upper part also selects the low window's bank
          low, high   \* banks shown at 0x0000 and 0x4000

vars == <<span, both, low, high>>

Spans == {16, 32}

Lower == high % span
Upper == high - Lower
LowBank == IF both THEN Upper ELSE 0

Init == span = 32 /\ both = FALSE /\ low = 0 /\ high = 1

\* The loader recognises a cartridge of several games, or does not.
Wire == span' \in Spans /\ both' = FALSE /\ low' = 0 /\ high' = 1

SelectLower ==
  /\ high' \in Upper..(Upper + span - 1)
  /\ span = 32 => Lower' # 0
  /\ UNCHANGED <<span, both, low>>

SelectUpper ==
  /\ \E upper \in 0..3 : high' = upper * span + Lower
  /\ low' = LowBank'
  /\ UNCHANGED <<span, both>>

SelectMode ==
  /\ both' = ~both
  /\ low' = LowBank'
  /\ UNCHANGED <<span, high>>

Next == Wire \/ SelectLower \/ SelectUpper \/ SelectMode

Spec == Init /\ [][Next]_vars
=============================================================================
