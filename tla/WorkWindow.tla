----------------------------- MODULE WorkWindow -----------------------------
(***************************************************************************)
(* The calendar of a WorkWindowPolicy (core/orchestration/domain/          *)
(* dispatch_policy.py): which instants its windows contain, and when it    *)
(* opens next.  Dispatcher lets a window open and close at any time; here  *)
(* is when it does.                                                        *)
(*                                                                         *)
(* Instants are counted in ticks of UTC.  One time zone stands for all: it *)
(* is Hour ahead during the summer, so its clocks go forward once and back *)
(* once.                                                                   *)
(***************************************************************************)
EXTENDS Integers, Sequences

CONSTANTS Minute,  \* ticks of a minute, the unit of windows and of the search
          Day,     \* minutes of a day
          Hour,    \* ticks that the clocks go forward and back
          Summer,  \* the instants of the summer
          DaySets, \* what a client may give for days
          Horizon, \* days that the search looks ahead (14)
          Never    \* no opening within the horizon; a model value

Weekdays == 1 .. 7
TimesOfDay == 0 .. Day - 1

ASSUME CalendarAssumption ==
  /\ Minute \in Nat \ {0} /\ Day \in Nat \ {0} /\ Horizon \in Nat /\ Hour \in Nat
  /\ DaySets \subseteq (SUBSET Weekdays) \ {{}}
  /\ Never \notin Int

(* The search looks two weeks ahead; the clocks change on whole minutes,   *)
(* by whole minutes, and the summer is one stretch.                        *)
ASSUME SearchAssumption ==
  /\ Horizon >= 14
  /\ Hour % Minute = 0 /\ Summer \subseteq Int
  /\ \A t \in Summer : \A n \in 0 .. Minute - 1 : (t - (t % Minute)) + n \in Summer
  /\ \A t, u \in Summer : t .. u \subseteq Summer

(* What _window_from_dict accepts; days left out means every day.          *)
Windows == [start : TimesOfDay, end : TimesOfDay, days : DaySets]

-----------------------------------------------------------------------------
(* instant.astimezone(timezone).                                           *)
Local(t) == IF t \in Summer THEN t + Hour ELSE t

Weekday(t) == 1 + ((Local(t) \div (Day * Minute)) % 7)
NextDay(d) == 1 + (d % 7)
TimeOfDay(t) == Local(t) % (Day * Minute)

WrapsMidnight(w) == w.end <= w.start

DayMatches(w, t) ==
  \/ Weekday(t) \in w.days
  \/ WrapsMidnight(w) /\ NextDay(Weekday(t)) \in w.days

(* Window.contains.                                                        *)
Covers(w, t) ==
  LET started == TimeOfDay(t) >= w.start * Minute
      ended   == TimeOfDay(t) >= w.end * Minute
  IN /\ DayMatches(w, t)
     /\ IF WrapsMidnight(w) THEN started \/ ~ended ELSE started /\ ~ended

(* WorkWindowPolicy.is_open.                                               *)
IsOpen(windows, t) == \E i \in DOMAIN windows : Covers(windows[i], t)

(* Wrong variant of NextOpening: it looks a week ahead, too short for a    *)
(* weekly window that the clocks skip once.                                *)
NextOpeningThisWeek(windows, t) ==
  LET open == {n \in 0 .. 7 * Day - 1 : IsOpen(windows, t + n * Minute)}
  IN IF open = {} THEN Never
     ELSE t + Minute * (CHOOSE n \in open : \A m \in open : n <= m)

(* next_window_opening: minute by minute from t itself, so that an opening *)
(* between two of these instants is found up to a minute late.             *)
NextOpening(windows, t) ==
  LET open == {n \in 0 .. Horizon * Day - 1 : IsOpen(windows, t + n * Minute)}
  IN IF open = {} THEN Never
     ELSE t + Minute * (CHOOSE n \in open : \A m \in open : n <= m)
=============================================================================
