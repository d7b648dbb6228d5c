----------------------------- MODULE WorkingHours -----------------------------
(***************************************************************************)
(* engine/businessHours.ts: whether staff answer Telegram themselves.  A    *)
(* moment is a count of milliseconds since the epoch, a Thursday midnight   *)
(* in UTC.                                                                  *)
(***************************************************************************)
EXTENDS Integers

TashkentUtcOffsetHours == 5
OpeningHour == 10
ClosingHour == 18

MsPerHour == 60 * 60 * 1000
MsPerDay == 24 * MsPerHour
MsPerWeek == 7 * MsPerDay

\* Date.getUTCHours and Date.getUTCDay: day 0 is a Sunday.
UTCHours(moment) == (moment \div MsPerHour) % 24
UTCDay(moment) == ((moment \div MsPerDay) + 4) % 7

isWeekday(dayOfWeek) == dayOfWeek \in 1..5

\* Mutant of isWithinWorkingHours: the closing hour counts as worked.
WorksThroughClosingHour(moment) ==
    LET tashkentTime == moment + TashkentUtcOffsetHours * MsPerHour IN
    /\ isWeekday(UTCDay(tashkentTime))
    /\ UTCHours(tashkentTime) \in OpeningHour..ClosingHour

isWithinWorkingHours(moment) ==
    LET tashkentTime == moment + TashkentUtcOffsetHours * MsPerHour IN
    /\ isWeekday(UTCDay(tashkentTime))
    /\ UTCHours(tashkentTime) >= OpeningHour
    /\ UTCHours(tashkentTime) < ClosingHour

-----------------------------------------------------------------------------
\* What the rule means, said without a calendar.  Staff first sat down at
\* their desks, within this count, on the first Monday of 1970 at 05:00 UTC,
\* 101 hours in; they sit there for eight hours on five days of each week.
FirstMorning == 101 * MsPerHour

StaffAtDesk(moment) ==
    LET sinceMondayMorning == (moment - FirstMorning) % MsPerWeek IN
    /\ sinceMondayMorning < 5 * MsPerDay
    /\ sinceMondayMorning % MsPerDay < 8 * MsPerHour
===============================================================================
