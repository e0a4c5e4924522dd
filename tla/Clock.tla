-------------------------------- MODULE Clock --------------------------------
(***************************************************************************)
(* Setting the clock of the Pi (src/rpi/ibus.c): the time and the date     *)
(* that the instrument cluster displays arrive in messages of their own,   *)
(* and the navigation computer repeats the minutes and seconds of GPS.     *)
(*                                                                         *)
(* now is the true time in seconds, in the zone that the car displays.     *)
(* The Pi's clock runs as fast as the true one, so that it is described by *)
(* how far it is ahead: error.  It only changes when it is set.  The       *)
(* calendar of the model has months of 30 days; as in mktime(), a month or *)
(* day that does not exist counts on from the one before.                  *)
(***************************************************************************)
EXTENDS TimeFlags, Integers

CONSTANTS
  Instants,   \* the true times at which something happens
  Zones,      \* zones of the Pi, in seconds east of UTC
  Skews,      \* how far the car's clock is ahead of the true time
  Errors,     \* how far the Pi's clock is ahead at the start
  TimeStyle,  \* how the car displays the time, a subset of {"24h", "12h"}
  DateStyle   \* and the date, a subset of {"dmy", "mdy", "unset"}

Hour == 3600
Day  == 86400

(* A zone is at most a day away from UTC, as POSIX has it for TZ.          *)
ASSUME ClockAssumption ==
  /\ Instants \subseteq Nat
  /\ Zones \cup Skews \cup Errors \subseteq Int
  /\ \A z \in Zones : -Day <= z /\ z <= Day
  /\ TimeStyle \subseteq {"24h", "12h"}
  /\ DateStyle \subseteq {"dmy", "mdy", "unset"}

VARIABLES
  now,                                 \* the true time
  zone, skew,                          \* the Pi's zone, the car's clock
  error,                               \* of the Pi's clock
  set_gps_time, datetime,              \* struct ibus
  heard,      \* history: when the time and the date were handled, or 0
  misread     \* history: what may be set wrongly, and is not an error of
              \* a few minutes

ibus == <<have_time, have_date, set_gps_time, datetime>>
clock_vars == <<now, zone, skew, error, ibus, heard, misread>>

DateTime == [day : 0..30, month : 0..30, year : Nat,
             hours : 0..24, minutes : 0..59, seconds : 0..59]

ClockInit ==
  /\ now \in Instants
  /\ zone \in Zones /\ skew \in Skews /\ error \in Errors
  /\ have_time = FALSE /\ have_date = FALSE /\ set_gps_time = FALSE
  /\ datetime = [day |-> 0, month |-> 0, year |-> 0,
                 hours |-> 0, minutes |-> 0, seconds |-> 0]
  /\ heard = [time |-> 0, date |-> 0] /\ misread = {}
-----------------------------------------------------------------------------
(* Calendar and clock of a number of seconds.                              *)

HourOf(t)   == (t \div Hour) % 24
MinuteOf(t) == (t \div 60) % 60
SecondOf(t) == t % 60
DayNo(t)    == t \div Day

YearOf(t)  == DayNo(t) \div 360
MonthOf(t) == ((DayNo(t) % 360) \div 30) + 1
MDayOf(t)  == (DayNo(t) % 30) + 1

(* mktime: fields out of range are carried over.                           *)
MkTime(dayno, hours, minutes, seconds) ==
  dayno * Day + hours * Hour + minutes * 60 + seconds

MkDay(day, month, year) == year * 360 + (month - 1) * 30 + day - 1

(* The car displays its own clock; the Pi has its own, too.                *)
Car     == now + skew
PiLocal == now + error
-----------------------------------------------------------------------------
(* What the texts are taken for.  Of 12 hours only the "P" is looked at;   *)
(* the digits of an unset date are dashes, and a day is always expected    *)
(* before the month.                                                       *)

HoursIgnoringP(t, style) ==   \* mutant: the "P" is not looked at
  IF style = "24h" THEN HourOf(t) ELSE ((HourOf(t) + 11) % 12) + 1

HoursRead(t, style) ==
  IF style = "24h" THEN HourOf(t)
  ELSE ((HourOf(t) + 11) % 12) + (IF HourOf(t) >= 12 THEN 13 ELSE 1)

DayRead(t, style) ==
  CASE style = "dmy" -> MDayOf(t) [] style = "mdy" -> MonthOf(t) [] OTHER -> 0
MonthRead(t, style) ==
  CASE style = "dmy" -> MonthOf(t) [] style = "mdy" -> MDayOf(t) [] OTHER -> 0

(* GPS sends two decimal digits in a byte.                                 *)
Bcd(n) == (n \div 10) * 16 + (n % 10)
FromBcd(b) == (b \div 16) * 10 + (b % 16)
-----------------------------------------------------------------------------
(* ibus_set_time_and_date; every caller changes the time.  The date that   *)
(* is kept is that of gmtime(), but mktime() expects local time.           *)
NewError(new, change_date) ==
  LET day == IF change_date THEN MkDay(new.day, new.month, new.year)
             ELSE DayNo(PiLocal - zone)
  IN  MkTime(day, new.hours, new.minutes, new.seconds) - now

SetTimeAndDate(change_date) ==
  error' = IF have_time' /\ have_date' THEN NewError(datetime', change_date)
           ELSE error

(* When a text is not taken for what it says, and when the day has changed  *)
(* between the two messages.                                               *)
Twelve(style)      == style = "12h" /\ HourOf(Car) % 12 = 0
Unreadable(style)  == style = "unset" \/ (style = "mdy" /\ MDayOf(Car) # MonthOf(Car))
PastMidnight(then) == DayNo(Car) # DayNo(then + skew)

(* ibus_handle_time.                                                       *)
TakeTime(style) ==
  /\ ~have_time
  /\ have_time' = TRUE
  /\ datetime' = [datetime EXCEPT !.hours = HoursRead(Car, style),
                                  !.minutes = MinuteOf(Car), !.seconds = 1]
  /\ UNCHANGED <<now, zone, skew, have_date, set_gps_time>>
  /\ SetTimeAndDate(TRUE)
  /\ heard' = [heard EXCEPT !.time = now]
  /\ misread' = misread
       \cup (IF Twelve(style) THEN {"hour"} ELSE {})
       \cup (IF have_date /\ PastMidnight(heard.date) THEN {"day"} ELSE {})

(* ibus_handle_date.                                                       *)
TakeDate(style) ==
  /\ ~have_date
  /\ have_date' = TRUE
  /\ datetime' = [datetime EXCEPT !.day = DayRead(Car, style),
                                  !.month = MonthRead(Car, style),
                                  !.year = YearOf(Car)]
  /\ UNCHANGED <<now, zone, skew, have_time, set_gps_time>>
  /\ SetTimeAndDate(TRUE)
  /\ heard' = [heard EXCEPT !.date = now]
  /\ misread' = misread
       \cup (IF Unreadable(style) \/ (have_time /\ PastMidnight(heard.time))
             THEN {"day"} ELSE {})

(* The minutes that are far enough from a full hour.                       *)
MidHour(minutes) == minutes > 2 /\ minutes < 57

AnyFirst(offset) ==   \* mutant: the first time any offset is accepted
  (offset >= 30 /\ offset <= 180) \/ ~set_gps_time

WorthSetting(offset) ==
  (offset >= 30 /\ offset <= 180) \/ (~set_gps_time /\ offset <= 180)

LocalHour == HourOf(PiLocal)

Distance(m, n) == IF m > n THEN m - n ELSE n - m

(* ibus_handle_gps: the fields are overwritten even if the clock is not    *)
(* set because the time or the date is still missing.                      *)
HandleGps ==
  LET minutes == FromBcd(Bcd(MinuteOf(now)))
      seconds == FromBcd(Bcd(SecondOf(now)))
      offset  == Distance(minutes * 60 + seconds,
                          MinuteOf(PiLocal) * 60 + SecondOf(PiLocal))
  IN  /\ MidHour(minutes) /\ MidHour(MinuteOf(PiLocal))
      /\ WorthSetting(offset)
      /\ set_gps_time' = TRUE
      /\ datetime' = [datetime EXCEPT !.hours = LocalHour, !.minutes = minutes,
                                      !.seconds = seconds]
      /\ UNCHANGED <<now, zone, skew, have_time, have_date, heard>>
      /\ SetTimeAndDate(FALSE)
      /\ misread' = IF have_time /\ ~have_date THEN misread \cup {"hour"}
                    ELSE misread

(* Time passes.                                                            *)
Wait ==
  /\ now' \in {t \in Instants : t > now}
  /\ UNCHANGED <<zone, skew, error, ibus, heard, misread>>

(* A second time or date, GPS near a full hour or not worth setting.       *)
Ignore == UNCHANGED clock_vars

ClockNext ==
  \/ \E style \in TimeStyle : TakeTime(style)
  \/ \E style \in DateStyle : TakeDate(style)
  \/ HandleGps
  \/ Ignore
  \/ Wait

ClockSpec == ClockInit /\ [][ClockNext]_clock_vars
-----------------------------------------------------------------------------
ClockTypeOK ==
  /\ now \in Instants /\ zone \in Zones /\ skew \in Skews
  /\ error \in Int
  /\ {have_time, have_date, set_gps_time} \subseteq BOOLEAN
  /\ datetime \in DateTime
  /\ heard \in [time : Instants \cup {0}, date : Instants \cup {0}]
  /\ misread \subseteq {"hour", "day"}

(* The clock is set in full when the later one of time and date arrives,   *)
(* and then shows the car's time of day, but for what the display does not *)
(* tell (up to a minute) and the time that passed since it was displayed;  *)
(* the day is the car's, too.  It is not so if the text was not read as    *)
(* meant (12 o'clock with "PM" or "AM", a date that is unset or begins     *)
(* with the month), if a GPS message came between the time and the date    *)
(* (it puts the hour of the Pi's unset clock there), or if midnight came   *)
(* between them.                                                           *)
Behind == Car - PiLocal

SetFromCar ==
  [][(~(have_time /\ have_date) /\ have_time' /\ have_date') =>
       LET late == Behind'
       IN  /\ "hour" \notin misread' => (late + 1) % Day <= now - heard'.time + 60
           /\ misread' = {} => -1 <= late /\ late <= now - heard'.time + 60]_clock_vars

(* Afterwards nothing but GPS sets the clock, by three minutes at most,    *)
(* and leaves an error of whole hours.  (A day may be lost or gained, too, *)
(* when the day in the Pi's zone is not that of UTC.)                      *)
GpsAdjusts ==
  [][have_time /\ have_date /\ error' # error =>
       /\ error' % Hour = 0
       /\ LET change == Distance(error', error)
          IN  IF DayNo(PiLocal) = DayNo(PiLocal - zone) THEN change <= 180
              ELSE Distance(change, Day) <= 180]_clock_vars

(* The date of the Pi is the one displayed, also in the form that the      *)
(* comment of ibus_handle_time shows ("01/26/2010" on 26 January).  It is  *)
(* not: the month is read as the day.                                      *)
DateAsDisplayed ==
  [][~have_date /\ have_date' =>
       datetime'.day = MDayOf(Car) /\ datetime'.month = MonthOf(Car)]_clock_vars
=============================================================================
