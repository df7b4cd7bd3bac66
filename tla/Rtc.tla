--------------------------------- MODULE Rtc --------------------------------
(***************************************************************************)
(* The real-time clock of the MBC3 (src/src/cartridge/mbc3.c): five        *)
(* registers the program writes (writable), a latched copy it reads        *)
(* (readable), and the host time up to which they have been brought        *)
(* (g_rtc.time).  The fifth register is a record of its three meaningful   *)
(* bits.  The moduli are constants so that a small instance covers every   *)
(* carry; the program's are 60, 60, 24 and 256, and HaltUnit is 2^6.       *)
(***************************************************************************)
EXTENDS Integers

\* The bits of RTC_DAYS_HI.
DaysHi == [upper : 0..1, halt : BOOLEAN, carry : BOOLEAN]

CONSTANTS SecondMod, MinuteMod, HourMod, DayMod,
          HaltUnit,       \* the weight of the bit of g_rtc.time that is tested
          MaxNow,         \* bound on the host's clock
          DayFlags        \* bytes the program stores into the fifth register

ASSUME RtcAssumption ==
  /\ {SecondMod, MinuteMod, HourMod, DayMod} \subseteq 1..256
  /\ HaltUnit \in Nat \ {0}
  /\ MaxNow \in Nat
  /\ DayFlags \subseteq DaysHi

VARIABLES now,            \* time(NULL)
          time,           \* g_rtc.time
          writable, readable,
          mapped,         \* g_rtc_mapped_register
          last_value      \* the byte last written to the latch area

rtcVars == <<now, time, writable, readable, mapped, last_value>>

Registers == [seconds : 0..255, minutes : 0..255, hours : 0..255,
              days_lo : 0..255, days_hi : DaysHi]

RtcTypeOK ==
  /\ now \in 0..MaxNow
  /\ time \in 0..MaxNow
  /\ writable \in Registers
  /\ readable \in Registers
  /\ mapped \in 0..255
  /\ last_value \in 0..255

Zero == [seconds |-> 0, minutes |-> 0, hours |-> 0, days_lo |-> 0,
         days_hi |-> [upper |-> 0, halt |-> FALSE, carry |-> FALSE]]

\* Zeroed static storage; only last_value has an initialiser.
RtcInit ==
  /\ now \in 0..MaxNow
  /\ time = 0
  /\ writable = Zero
  /\ readable = Zero
  /\ mapped = 0
  /\ last_value = 1

-----------------------------------------------------------------------------
MinuteLength == SecondMod
HourLength   == MinuteMod * MinuteLength
DayLength    == HourMod * HourLength
CycleLength  == DayMod * DayLength

\* The registers r as a number of seconds.
Total(r) ==
  r.seconds + r.minutes * MinuteLength + r.hours * HourLength
    + r.days_lo * DayLength + r.days_hi.upper * CycleLength

\* The host's seconds since the last update; none if its clock was set back.
HostSeconds == IF now > time THEN now - time ELSE 0

\* BIT(g_rtc.time, RTC_HALT_FLAG): a bit of the time itself.
TimeBit == (time \div HaltUnit) % 2 = 1

\* The seconds update_rtc adds.
SinceUpdate == IF TimeBit THEN 0 ELSE HostSeconds

\* Variant of DaysHiAfter: the carry is lost.
DaysHiUncarried(high) == [upper |-> (high \div 2) % 2,
                          halt |-> writable.days_hi.halt, carry |-> high > 0]

\* RTC_DAYS_HI after an update that carried "high" out of the low day byte.
DaysHiAfter(high) == [upper |-> (high \div 2) % 2,
                      halt  |-> writable.days_hi.halt,
                      carry |-> writable.days_hi.carry \/ high > 0]

\* The registers update_rtc leaves behind.
Updated ==
  LET diff == SinceUpdate + Total(writable)
      high == diff \div CycleLength
  IN  [seconds |-> diff % SecondMod,
       minutes |-> (diff \div MinuteLength) % MinuteMod,
       hours   |-> (diff \div HourLength) % HourMod,
       days_lo |-> (diff \div DayLength) % DayMod,
       days_hi |-> DaysHiAfter(high)]

\* Variant of Latch: the copy comes first.
LatchEarly == time' = now /\ writable' = Updated /\ readable' = writable

\* latch_rtc: update_rtc, then the copy.
Latch ==
  /\ time' = now
  /\ writable' = Updated
  /\ readable' = Updated

\* The store of a byte into the mapped register; days_hi takes its three bits.
Stored(r, register, byte, bits) ==
  CASE register = 8  -> [r EXCEPT !.seconds = byte]
    [] register = 9  -> [r EXCEPT !.minutes = byte]
    [] register = 10 -> [r EXCEPT !.hours = byte]
    [] register = 11 -> [r EXCEPT !.days_lo = byte]
    [] register = 12 -> [r EXCEPT !.days_hi = bits]

\* The host's clock is read anew by every call, and may be set back.
HostClock ==
  /\ now' \in 0..MaxNow \ {now}
  /\ UNCHANGED <<time, writable, readable, mapped, last_value>>
=============================================================================
