------------------------------ MODULE DvbTime -------------------------------
(***************************************************************************)
(* The times of DVB (dvb/si/datetime.h): a day is a number, counted from   *)
(* November 1858, an hour, a minute and a second are two decimal digits    *)
(* each.  A time goes into the 40 bits of such a field and out again when  *)
(* a TDT is made and checked (generate_tdt in dvb_gen_si.c), and the       *)
(* duration of an event into 24 bits.                                      *)
(*                                                                         *)
(* The calendar is the one of gmtime_r and timegm, followed day by day.    *)
(***************************************************************************)
EXTENDS Naturals

CONSTANTS
  Digits,   \* minutes and seconds that are tried
  MaxHours  \* bound: the hours of the longest duration

ASSUME DvbTimeAssumption == Digits \subseteq 0 .. 59 /\ MaxHours \in Nat

VARIABLES
  date,     \* the date, with year (since 1900), month and day
  clock,    \* the time of the day: hour, minute and second
  duration  \* of an event, in hours, minutes and seconds

timeVars == <<date, clock, duration>>

NoTime == [h |-> 0, m |-> 0, s |-> 0]
FirstDay == [y |-> 0, m |-> 3, d |-> 1]
LastDay  == [y |-> 138, m |-> 4, d |-> 22]

-----------------------------------------------------------------------------
(* The calendar *)

Leap(y) == y % 4 = 0 /\ (y % 100 # 0 \/ (1900 + y) % 400 = 0)
DaysIn(y, m) ==
  CASE m = 2 -> IF Leap(y) THEN 29 ELSE 28
    [] m \in {4, 6, 9, 11} -> 30
    [] OTHER -> 31

Tomorrow(t) ==
  IF t.d < DaysIn(t.y, t.m) THEN [t EXCEPT !.d = @ + 1]
  ELSE IF t.m < 12 THEN [t EXCEPT !.d = 1, !.m = @ + 1]
  ELSE [y |-> t.y + 1, m |-> 1, d |-> 1]

-----------------------------------------------------------------------------
(* Dates *)

(* Slip: January and February are not counted with the year before. *)
dvb_mjd_setFlat(t) ==
  (14956 + t.d + (t.y * 1461) \div 4 + ((t.m + 1) * 306001) \div 10000) % 65536

dvb_mjd_set(t) ==
  LET l == IF t.m \in {1, 2} THEN 1 ELSE 0
  IN  (14956 + t.d + ((t.y - l) * 1461) \div 4
         + ((t.m + 1 + l * 12) * 306001) \div 10000) % 65536

dvb_mjd_get(mjd) ==
  LET yp == (mjd * 20 - 301564) \div 7305
      mp == (mjd * 10000 - 149561000 - 10000 * ((yp * 1461) \div 4)) \div 306001
      k  == IF mp \in {14, 15} THEN 1 ELSE 0
  IN  [y |-> yp + k, m |-> mp - 1 - k * 12,
       d |-> mjd - 14956 - (yp * 1461) \div 4 - (mp * 306001) \div 10000]

(* Hours, minutes and seconds *)

dec2bcd(n) == (n \div 10) * 16 + (n % 10)
bcd2dec(b) == (b \div 16) * 10 + (b % 16)

dvb_time_encode(t) == dec2bcd(t.h) * 65536 + dec2bcd(t.m) * 256 + dec2bcd(t.s)
dvb_time_decode_bcd(bcd) ==
  [h |-> bcd2dec((bcd \div 65536) % 256), m |-> bcd2dec((bcd \div 256) % 256),
   s |-> bcd2dec(bcd % 256)]

(* A number of seconds, taken apart by division. *)
Seconds(t) == t.h * 3600 + t.m * 60 + t.s
dvb_time_encode_duration(sec) ==
  LET s == sec % 60
      m == (sec - s) \div 60
      h == (m - (m % 60)) \div 60
  IN  dvb_time_encode([h |-> h, m |-> m - h * 60, s |-> s])

(* The same without seconds. *)
Minutes(t) == t.h * 60 + t.m
dvb_time_encode_duration16(min) == dec2bcd(min \div 60) * 256 + dec2bcd(min % 60)
dvb_time_decode_bcd16(bcd) ==
  [h |-> bcd2dec((bcd \div 256) % 256), m |-> bcd2dec(bcd % 256), s |-> 0]

dvb_time_encode_UTC(day, time) == <<dvb_mjd_set(day), dvb_time_encode(time)>>
dvb_time_decode_UTC(utc) == <<dvb_mjd_get(utc[1]), dvb_time_decode_bcd(utc[2])>>

-----------------------------------------------------------------------------

Times(hours) == [h : hours, m : Digits, s : Digits]

(* A TDT is made on every day, and on the first at every time of the day.  *)
TimeInit ==
  /\ date = FirstDay
  /\ \/ clock \in Times(0 .. 23) /\ duration = NoTime
     \/ clock = NoTime /\ duration \in Times(0 .. MaxHours)

NextDay ==
  /\ clock = NoTime /\ duration = NoTime /\ date # LastDay
  /\ date' = Tomorrow(date)
  /\ UNCHANGED <<clock, duration>>

(* What generate_tdt checks of each TDT it makes, for every day that the   *)
(* field can say, from March 1900 to the 22nd of April 2038 and in leap    *)
(* years and others: the time it reads back is the one it put in.  And so  *)
(* for the durations of events, up to the 159 hours that go into eight     *)
(* bits when the first digit is let run past nine.                         *)
TimesKept ==
  /\ dvb_time_decode_UTC(dvb_time_encode_UTC(date, clock)) = <<date, clock>>
  /\ dvb_time_decode_bcd(dvb_time_encode_duration(Seconds(duration))) = duration
  /\ dvb_time_decode_bcd16(dvb_time_encode_duration16(Minutes(duration)))
       = [duration EXCEPT !.s = 0]
=============================================================================
