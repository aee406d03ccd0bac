-------------------------------- MODULE RTC --------------------------------
(***************************************************************************)
(* The clock driver of drivers/rtc.c and the clock chip it reads.  The     *)
(* chip counts on while the driver reads its six registers one after       *)
(* another; during an update a register shows its old or its new value.    *)
(* Registers hold BCD or binary, the hour counts to 24 or to 12 with the   *)
(* afternoon in bit 7.  Between two commands any time passes: each starts  *)
(* at any of Starts.                                                       *)
(***************************************************************************)
EXTENDS Integers, Sequences

CONSTANTS
    Starts,         \* times the chip may show when the driver starts
    Formats,        \* settings of register B: [binary, h24 : BOOLEAN]
    MaxUpdates,     \* bound: updates of the chip during a command
    NoTime          \* no result, no format known

Registers == <<"second", "minute", "hour", "day", "month", "year">>
Fields == {Registers[i] : i \in 1 .. 6}

Time(h, mi, s, d, mo, y) ==
    [second |-> s, minute |-> mi, hour |-> h, day |-> d, month |-> mo, year |-> y]
Zero == Time(0, 0, 0, 0, 0, 0)

TimesOfDay ==
    {x \in [Fields -> Int] :
        /\ x.second \in 0 .. 59 /\ x.minute \in 0 .. 59 /\ x.hour \in 0 .. 23
        /\ x.day \in 1 .. 31 /\ x.month \in 1 .. 12 /\ x.year \in 0 .. 99}

\* A command reads the clock within a minute.
ASSUME RTCAssumption ==
    /\ Starts \subseteq TimesOfDay
    /\ Formats \subseteq [binary : BOOLEAN, h24 : BOOLEAN]
    /\ MaxUpdates \in 0 .. 58

VARIABLES
    now, updating,      \* the chip: time of day, update in progress
    format,             \* register B
    updates,            \* updates so far
    rtc_pc,             \* "idle", "wait", "read", "compare" or "done"
    reg,                \* the register read next, 1 .. 6
    pass,               \* 1 in the first pass over the registers, then 2
    t, last_t,          \* the readings of rtc_read_time
    result,             \* what it returned
    caller,             \* "rtc_init", "date" or "ticks"; "none" when idle
    shown,              \* the time the date command got first
    times               \* history: what the chip has shown since the call, or
                        \* since the first pass over the registers began

chip == <<now, updating, format, updates>>
reader == <<rtc_pc, reg, pass, t, last_t, result, caller, shown>>
rtc_vars == <<chip, reader, times>>

(***************************************************************************)
(* The chip.                                                               *)
(***************************************************************************)
Leap(y) == y % 4 = 0 /\ (y % 100 # 0 \/ y % 400 = 0)
DaysIn(m, y) == IF m = 2 THEN IF Leap(y) THEN 29 ELSE 28
                ELSE IF m \in {4, 6, 9, 11} THEN 30 ELSE 31

NextDay(x) ==
    CASE x.day < DaysIn(x.month, 2000 + x.year) -> [x EXCEPT !.day = @ + 1]
      [] x.month < 12 /\ x.day = DaysIn(x.month, 2000 + x.year) ->
            [x EXCEPT !.day = 1, !.month = @ + 1]
      [] OTHER -> [x EXCEPT !.day = 1, !.month = 1, !.year = (@ + 1) % 100]

NextSecond(x) ==
    CASE x.second < 59 -> [x EXCEPT !.second = @ + 1]
      [] x.second = 59 /\ x.minute < 59 -> [x EXCEPT !.second = 0, !.minute = @ + 1]
      [] x.second = 59 /\ x.minute = 59 /\ x.hour < 23 ->
            [x EXCEPT !.second = 0, !.minute = 0, !.hour = @ + 1]
      [] OTHER -> NextDay([x EXCEPT !.second = 0, !.minute = 0, !.hour = 0])

Coded(n) == IF format.binary THEN n ELSE (n \div 10) * 16 + (n % 10)
HourOn12(h) == IF h % 12 = 0 THEN 12 ELSE h % 12
Register(x, f) ==
    IF f = "hour" /\ ~format.h24
    THEN Coded(HourOn12(x.hour)) + (IF x.hour >= 12 THEN 128 ELSE 0)
    ELSE Coded(x[f])

BeginUpdate ==
    /\ rtc_pc \in {"wait", "read", "compare"}
    /\ ~updating
    /\ updates < MaxUpdates
    /\ updating' = TRUE
    /\ updates' = updates + 1
    /\ UNCHANGED <<now, format, reader, times>>

EndUpdate ==
    /\ updating
    /\ updating' = FALSE
    /\ now' = NextSecond(now)
    /\ times' = times \cup {now'}
    /\ UNCHANGED <<format, updates, reader>>

(***************************************************************************)
(* The driver.                                                             *)
(***************************************************************************)
cmos_read(f) ==
    {Register(now, f)} \cup
        (IF updating THEN {Register(NextSecond(now), f)} ELSE {})

rtc_init_state ==
    /\ now = Zero
    /\ updating = FALSE
    /\ format = NoTime
    /\ updates = 0
    /\ rtc_pc = "idle" /\ reg = 1 /\ pass = 1
    /\ t = Zero /\ last_t = Zero
    /\ result = NoTime
    /\ caller = "none"
    /\ shown = NoTime
    /\ times = {}

\* A call of rtc_read_time.
rtc_call(who) ==
    /\ rtc_pc' = "wait"
    /\ pass' = 1
    /\ caller' = who
    /\ result' = NoTime
    /\ shown' = IF who = "ticks" THEN result ELSE NoTime
    /\ IF caller = "none"
       THEN now' \in Starts /\ format' \in Formats
       ELSE UNCHANGED <<now, format>>
    /\ times' = {now'}
    /\ UNCHANGED <<updating, updates, reg, t, last_t>>

\* The caller has used the result and goes on.
rtc_return ==
    /\ rtc_pc' = "idle"
    /\ caller' = "none"
    /\ result' = NoTime /\ shown' = NoTime
    /\ times' = {}
    /\ now' = Zero /\ format' = NoTime /\ updates' = 0
    /\ UNCHANGED <<updating, reg, pass, t, last_t>>

\* while (cmos_is_updating()) ;
cmos_is_updating ==
    /\ rtc_pc = "wait"
    /\ ~updating
    /\ rtc_pc' = "read"
    /\ times' = IF pass = 1 THEN {now} ELSE times
    /\ UNCHANGED <<chip, reg, pass, t, last_t, result, caller, shown>>

rtc_read_register ==
    /\ rtc_pc = "read"
    /\ \E v \in cmos_read(Registers[reg]) : t' = [t EXCEPT ![Registers[reg]] = v]
    /\ reg' = (reg % 6) + 1
    /\ rtc_pc' = IF reg = 6 THEN "compare" ELSE "read"
    /\ UNCHANGED <<chip, pass, last_t, result, caller, shown, times>>

bcd_to_bin(v) == (v \div 16) * 10 + (v % 16)

Converted(raw) ==
    LET bin == IF format.binary THEN raw
               ELSE [f \in Fields |->
                        IF f = "hour" THEN bcd_to_bin(raw.hour % 128)
                                           + (raw.hour \div 128) * 128
                        ELSE bcd_to_bin(raw[f])]
        hour == IF ~format.h24 /\ bin.hour >= 128
                THEN ((bin.hour % 128) + 12) % 24 ELSE bin.hour
    IN  [bin EXCEPT !.hour = hour, !.year = @ + 2000]

\* Mutant: only the dates of the two passes are compared.
SameDate(a, b) == a.day = b.day /\ a.month = b.month /\ a.year = b.year

SameReading(a, b) == \A f \in Fields : a[f] = b[f]

\* The end of a pass: the first is always repeated, the others until two
\* passes in a row agree.
rtc_compare ==
    /\ rtc_pc = "compare"
    /\ IF pass = 2 /\ SameReading(t, last_t)
       THEN /\ rtc_pc' = "done"
            /\ result' = Converted(t)
            /\ t' = Zero /\ last_t' = Zero /\ pass' = 1
       ELSE /\ rtc_pc' = "wait"
            /\ last_t' = t
            /\ pass' = 2
            /\ UNCHANGED <<t, result>>
    /\ UNCHANGED <<chip, reg, caller, shown, times>>

rtc_read_time == cmos_is_updating \/ rtc_read_register \/ rtc_compare

\* Days since 1970 of a date of a year that begins in March.
DaysFromCivil(y, m, d) ==
    LET era == y \div 400
        yoe == y - era * 400
        doy == (153 * (m - 3) + 2) \div 5 + d - 1
        doe == yoe * 365 + yoe \div 4 - yoe \div 100 + doy
    IN  era * 146097 + doe - 719468

\* Mutant: the year is not moved back in January and February.
rtc_get_ticks_march(x) ==
    DaysFromCivil(x.year, IF x.month <= 2 THEN x.month + 12 ELSE x.month, x.day) * 86400
        + x.hour * 3600 + x.minute * 60 + x.second

\* The arithmetic of rtc_get_ticks on the time it has read.
rtc_get_ticks(x) ==
    LET y == IF x.month <= 2 THEN x.year - 1 ELSE x.year
        m == IF x.month <= 2 THEN x.month + 12 ELSE x.month
    IN  DaysFromCivil(y, m, x.day) * 86400 + x.hour * 3600 + x.minute * 60 + x.second

ChipSteps == BeginUpdate \/ EndUpdate

----------------------------------------------------------------------------
(***************************************************************************)
(* The hour that 12-hour registers cannot convey through this driver: the  *)
(* first of each half day is 12 in the register, and the driver adds 12 in *)
(* the afternoon only, to whatever hour it finds.                          *)
(***************************************************************************)
HourReliable(x) == format.h24 \/ x.hour \notin {0, 12}

Full(x) == [x EXCEPT !.year = @ + 2000]

(***************************************************************************)
(* What rtc_read_time returns (rtc.c:39, "Read twice to ensure consistent  *)
(* reading") is a time the chip has shown while it read the registers, and *)
(* never a mixture of two: not at the end of a minute, of a leap day or of *)
(* a year, and in each of the four formats, but for the hour in 12-hour    *)
(* format from noon to one and from midnight to one.                       *)
(***************************************************************************)
ReadingIsTrue ==
    rtc_pc = "done" =>
        \E x \in times :
            /\ \A f \in Fields \ {"hour"} : result[f] = Full(x)[f]
            /\ HourReliable(x) => result.hour = x.hour

\* Days from the first of January 1970 to the first of January of a year.
YearDays(y) == IF Leap(y) THEN 366 ELSE 365
DaysBefore[y \in 1970 .. 2099] ==
    IF y = 1970 THEN 0 ELSE DaysBefore[y - 1] + YearDays(y - 1)

\* Days of a year before a month.
MonthStarts == <<0, 31, 59, 90, 120, 151, 181, 212, 243, 273, 304, 334>>
DayOfYear(x) == MonthStarts[x.month]
                + (IF x.month > 2 /\ Leap(x.year) THEN 1 ELSE 0) + x.day - 1

\* Seconds since the first of January 1970, by counting days.
UnixTime(x) ==
    (DaysBefore[x.year] + DayOfYear(x)) * 86400 + x.hour * 3600 + x.minute * 60 + x.second

OnCalendar(x) == x.day <= DaysIn(x.month, 2000 + x.year)

\* The chip shows dates of the calendar, and its two digits of the year do
\* not run out during a command.
ASSUME CalendarAssumption ==
    \A x \in Starts : OnCalendar(x) /\ ~(x.year = 99 /\ x.month = 12 /\ x.day = 31)

(***************************************************************************)
(* The two numbers that the date command prints come from two readings:    *)
(* the Unix time is that of the date on its left or of one of the seconds  *)
(* that have passed since, never an earlier one.                           *)
(***************************************************************************)
DateAndStampAgree ==
    (caller = "ticks" /\ rtc_pc = "done"
        /\ format.h24) =>
        /\ rtc_get_ticks(result) = UnixTime(result)
        /\ rtc_get_ticks(result) \in UnixTime(shown) .. UnixTime(shown) + MaxUpdates
=============================================================================
