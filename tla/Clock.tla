-------------------------------- MODULE Clock --------------------------------
(***************************************************************************)
(* The real time clock of the target: rtc_drv.c under stm32F429_RTC.cpp    *)
(* and virtualRTC.hpp, and the way a user sets it at the terminal, through *)
(* parseTimeAndDate.  A time of day and a date are a number each.          *)
(***************************************************************************)
EXTENDS Integers

CONSTANTS
  Day,    \* times of a day
  Dates   \* dates, which are 1 .. Dates

ASSUME ClockAssumption == Day \in Nat \ {0} /\ Dates \in Nat \ {0}

VARIABLES
  time, date,  \* the registers of the clock
  said,        \* the terminal's answer to the last setting
  confirmed    \* history: the date typed in that was last confirmed, and the
               \* midnights since

clockVars == <<time, date, said, confirmed>>

Times    == 0 .. Day - 1
Calendar == 1 .. Dates

NextDate(d) == IF d = Dates THEN 1 ELSE d + 1

ClockInit ==
  /\ time = 0 /\ date = 1
  /\ said = "nothing" /\ confirmed = 1

ClockTick ==
  /\ time' = (time + 1) % Day
  /\ date' = IF time' = 0 THEN NextDate(date) ELSE date
  /\ confirmed' = IF time' = 0 /\ confirmed \in Calendar THEN NextDate(confirmed)
                  ELSE confirmed
  /\ UNCHANGED said

\* Dates that may be typed in, from below the calendar to above it: -1 is for a
\* negative day, month or year, Dates + 1 for a day that its month has not and
\* a year beyond the register's hundred, Dates + 2 for a day 32 or a month 13.
Typed == -1 .. Dates + 2

\* What parseTimeAndDate accepts: it knows no lower bound but that of day zero,
\* and no calendar.
Parsed(t, d) == t < Day /\ d # 0 /\ d <= Dates + 1

\* A number that is none of the clock's ends up as one of them, cut to 8 bits
\* and to the digits of the register; nothing says so.
Register(v, range) == IF v \in range THEN {v} ELSE range

\* Mutant: the date first.
SetDateFirst(t, d, timeSet, dateSet) ==
  /\ time' \in IF timeSet /\ dateSet THEN Register(t, Times) ELSE {time}
  /\ date' \in IF dateSet THEN Register(d, Calendar) ELSE {date}

\* setTime && setDate.
SetTimeAndDate(t, d, timeSet, dateSet) ==
  /\ time' \in IF timeSet THEN Register(t, Times) ELSE {time}
  /\ date' \in IF timeSet /\ dateSet THEN Register(d, Calendar) ELSE {date}

SetClock ==
  \E t \in -1 .. Day, d \in Typed :
    IF Parsed(t, d)
    THEN \E timeSet, dateSet \in BOOLEAN :
           /\ SetTimeAndDate(t, d, timeSet, dateSet)
           /\ said' = IF timeSet /\ dateSet THEN "configured" ELSE "error"
           /\ confirmed' = IF said' = "configured" THEN d ELSE confirmed
    ELSE /\ said' = "invalid"
         /\ UNCHANGED <<time, date, confirmed>>

ClockTypeOK ==
  /\ time \in Times /\ date \in Calendar /\ confirmed \in Typed
  /\ said \in {"nothing", "invalid", "configured", "error"}

\* However often setting the clock fails half way, and whatever midnight comes in
\* between, the clock has the date that the user typed in when it was last
\* confirmed (terminal_component.cpp:347), if that is a date: one that is none is
\* cut to the register and confirmed all the same.  The time may have moved.
DateAsConfirmed == confirmed \in Calendar => date = confirmed

=============================================================================
