------------------------------- MODULE Payroll -------------------------------
(***************************************************************************)
(* The payroll report (PayrollService) over the time clock records of one  *)
(* user, and the personal days that become such records                    *)
(* (PersonalDaysService).                                                  *)
(*                                                                         *)
(* A submission writes its row and then a record for each of its days, in  *)
(* commands of their own.  Only its times are compared, not its dates: a   *)
(* range that ends before it starts is stored, and has no days.  Hours may *)
(* be negative: an override can move the clock-in of an open punch past    *)
(* the time it is clocked out at.                                          *)
(***************************************************************************)
EXTENDS Integers, FiniteSets, Functions

CONSTANTS
    TimeRecords,       \* rows of TimeClockRecord of the user
    LastDay,           \* bound: punch dates are 0..LastDay
    FirstWeekday,      \* getUTCDay() of day 0
    PunchHours,        \* the hours that a closed punch may have
    WorkdayHours,      \* WORKDAY_END_HOUR - WORKDAY_START_HOUR
    OvertimeThreshold  \* OVERTIME_THRESHOLD_HOURS

DaysOfPeriod == 0..LastDay
HoursTypes == {"regular", "personal"}

ASSUME PayrollAssumption ==
    /\ LastDay \in Nat /\ FirstWeekday \in 0..6
    /\ PunchHours \subseteq Int /\ WorkdayHours \in Nat /\ OvertimeThreshold \in Nat

VARIABLES
    records,       \* records[r]: the row r, or NoRecord
    booking,       \* the submission in progress, or NotBooking
    booked         \* the submissions that ended, complete or not; for the
                   \* properties only

payrollVars == <<records, booking, booked>>

-----------------------------------------------------------------------------
NoRecord == [status |-> "absent"]
NotBooking == [at |-> "none"]

Record == [day : DaysOfPeriod, hours : Int, type : HoursTypes, status : {"open", "clock_out"}]
Submission == [from : DaysOfPeriod, to : DaysOfPeriod, part : BOOLEAN, hours : Int]

PayrollTypeOK ==
    /\ records \in [TimeRecords -> Record \cup {NoRecord}]
    /\ booking = NotBooking \/ booking \in [at : DaysOfPeriod, of : Submission]
    /\ booked \subseteq [of : Submission, complete : BOOLEAN]

PayrollInit ==
    /\ records = [r \in TimeRecords |-> NoRecord]
    /\ booking = NotBooking
    /\ booked = {}

Existing == {r \in TimeRecords : records[r] # NoRecord}
Add(r, record) == r \notin Existing /\ records' = [records EXCEPT ![r] = record]

-----------------------------------------------------------------------------
\* A punch of the time clock, still open (or flagged), or closed.
ClockPunch(r, d) ==
    /\ \/ \E h \in PunchHours : Add(r, [day |-> d, hours |-> h, type |-> "regular", status |-> "clock_out"])
       \/ Add(r, [day |-> d, hours |-> 0, type |-> "regular", status |-> "open"])
    /\ UNCHANGED <<booking, booked>>

\* submit: part of the first day, by a start and a later end time, or whole
\* days.  Where no day is from the first to the last, the call ends with that.
Submit(from, to, part, hours) ==
    LET s == [from |-> from, to |-> to, part |-> part, hours |-> hours] IN
    /\ booking = NotBooking
    /\ IF part THEN hours > 0 ELSE hours = WorkdayHours
    /\ IF part \/ from <= to
         THEN booking' = [at |-> from, of |-> s] /\ UNCHANGED booked
         ELSE booked' = booked \cup {[of |-> s, complete |-> TRUE]} /\ UNCHANGED booking
    /\ UNCHANGED records

\* Mutant of IsLastDay: the loop ends before the last day.
IsLastDayEarly(d, s) == s.part \/ d + 1 >= s.to

\* Mutant of IsLastDay: the loop runs past the last day.
IsLastDayLate(d, s) == s.part \/ d > s.to

\* eachDateInclusive; part of a day is on the first, whatever the end date.
IsLastDay(d, s) == s.part \/ d >= s.to

\* bridgeToTimeClock: the record of the next day.
BookDay(r) ==
    LET s == booking.of IN
    /\ booking # NotBooking
    /\ Add(r, [day |-> booking.at, hours |-> s.hours, type |-> "personal", status |-> "clock_out"])
    /\ IF IsLastDay(booking.at, s)
         THEN booking' = NotBooking /\ booked' = booked \cup {[of |-> s, complete |-> TRUE]}
         ELSE booking' = [booking EXCEPT !.at = @ + 1] /\ UNCHANGED booked

\* A command fails, or the server stops: the days so far stay.
BookingFails ==
    /\ booking # NotBooking
    /\ booking' = NotBooking
    /\ booked' = booked \cup {[of |-> booking.of, complete |-> FALSE]}
    /\ UNCHANGED records

PayrollNext ==
    \/ \E r \in TimeRecords : BookDay(r) \/ \E d \in DaysOfPeriod : ClockPunch(r, d)
    \/ \E from, to \in DaysOfPeriod, part \in BOOLEAN, hours \in PunchHours \cup {WorkdayHours} :
          Submit(from, to, part, hours)
    \/ BookingFails

PayrollSpec == PayrollInit /\ [][PayrollNext]_payrollVars

-----------------------------------------------------------------------------
(* report and buildRow                                                     *)

\* Mutant of Monday: weeks begin on Sunday.
Sunday(d) == d - ((FirstWeekday + d) % 7)

\* weekKey
Monday(d) == d - ((FirstWeekday + d + 6) % 7)

InPeriod(from, to) == {r \in Existing : records[r].day \in from..to}
Unresolved(from, to) == \E r \in InPeriod(from, to) : records[r].status # "clock_out"
Counted(from, to, type) ==
    {r \in InPeriod(from, to) : records[r].status = "clock_out" /\ records[r].type = type}

Total(rs) == SumFunction([r \in rs |-> records[r].hours])
Hours(from, to, type) == Total(Counted(from, to, type))

Overtime(from, to) ==
    LET regular == Counted(from, to, "regular")
        weeks == {Monday(records[r].day) : r \in regular}
        beyond(w) ==
            LET h == Total({r \in regular : Monday(records[r].day) = w})
            IN  IF h > OvertimeThreshold THEN h - OvertimeThreshold ELSE 0
    IN  SumFunction([w \in weeks |-> beyond(w)])

-----------------------------------------------------------------------------
(* Properties.                                                             *)

\* buildRow: the reports of two periods that follow each other and the report
\* of both together agree: hours of every type add up, and so does overtime
\* when the second begins a week (a Monday); elsewhere a week that is cut has
\* no more overtime than the whole one, if no punch has negative hours.
ReportsAddUp ==
    \A d \in 1..LastDay :
        /\ \A type \in HoursTypes : Hours(0, LastDay, type) = Hours(0, d - 1, type) + Hours(d, LastDay, type)
        /\ Unresolved(0, LastDay) <=> Unresolved(0, d - 1) \/ Unresolved(d, LastDay)
        /\ (FirstWeekday + d) % 7 = 1 =>
              Overtime(0, LastDay) = Overtime(0, d - 1) + Overtime(d, LastDay)
        /\ (\A r \in Existing : records[r].hours >= 0) =>
              Overtime(0, LastDay) >= Overtime(0, d - 1) + Overtime(d, LastDay)

\* FR-010: every day from the first to the last of a submission that did not
\* fail, or the first if it is for part of a day, is in the report of that day
\* alone, whatever else is booked or punched.  A range that ends before it starts
\* has no such day: nothing is claimed of it (see RangesAreInOrder).
BookedDaysAreReported ==
    \A b \in booked : b.complete =>
        \A d \in b.of.from..(IF b.of.part THEN b.of.from ELSE b.of.to) :
            Hours(d, d, "personal") >= b.of.hours

\* The report counts every record once, whichever way the time is cut into
\* periods, the records that personal days were turned into included.
EveryHourIsCounted == ReportsAddUp /\ BookedDaysAreReported

\* users/6-validation.md:44: the date range of a personal day is "Start <= End",
\* so that a submission that succeeds has a day to book.
RangesAreInOrder == \A b \in booked : b.complete => b.of.from <= b.of.to
=============================================================================
