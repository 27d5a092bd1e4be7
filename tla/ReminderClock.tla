--------------------------- MODULE ReminderClock ---------------------------
(***************************************************************************)
(* The time arithmetic of internal/core/prospection: the night, the        *)
(* staleness window, the one verdict every stored reminder is judged by,   *)
(* the digest's hour and the mornings an open check-in waits.              *)
(*                                                                         *)
(* An instant is an integer number of ticks since some midnight, in the    *)
(* clock's own zone.  With DayLen = 24 a tick is an hour and the constants *)
(* are the code's own; a coarser day keeps the order of the code's windows *)
(* and makes state machines small.  Zone changes (DST) are left out: every *)
(* day has DayLen ticks.                                                   *)
(***************************************************************************)
EXTENDS Integers

CONSTANTS
    DayLen,            \* ticks in a local day
    TriggerStaleness,  \* TriggerStalenessHours
    TimerStaleness,    \* TimerStalenessHours
    DigestHour,        \* tick of the day the digest is due
    DigestCutoffHour,  \* tick of the day after which it is not
    MinDigestWindow,   \* MinDigestWindowMinutes
    NoTime             \* the zero time.Time, a nil *time.Time

ASSUME ClockAssumption ==
    /\ DayLen \in Nat \ {0}
    /\ {TriggerStaleness, TimerStaleness} \subseteq Nat
    /\ DigestHour \in 0 .. DayLen - 1
    /\ DigestCutoffHour \in DigestHour .. DayLen - 1
    /\ MinDigestWindow \in Nat \ {0}
    /\ NoTime \notin Int

Times == Int \cup {NoTime}

DayOf(t) == t \div DayLen
HourOf(t) == t % DayLen
At(t, hour) == DayOf(t) * DayLen + hour      \* TimeOfDay.on(t, 0, zone)
NextMidnight(t) == (DayOf(t) + 1) * DayLen
IsDateOnly(t) == HourOf(t) = 0

----------------------------------------------------------------------------
(* QuietHours: the night is [midnight, end).  InNight is its Contains.     *)

InNight(end, t) == HourOf(t) < end

DeliverableFrom(end, t) == IF InNight(end, t) THEN At(t, end) ELSE t

(***************************************************************************)
(* verdict: pending before its instant, deferred through the night when it *)
(* keeps one, stale when overdue by more than the window, else delivered.  *)
(***************************************************************************)
Verdict(fireAt, from, staleness, now, deferred) ==
    CASE now < fireAt -> "pending"
      [] now >= fireAt /\ deferred -> "defer"
      [] now >= fireAt /\ ~deferred /\ now - from > staleness -> "stale"
      [] OTHER -> "deliver"

TriggerVerdict(end, fireAt, now) ==
    Verdict(fireAt, DeliverableFrom(end, fireAt), TriggerStaleness, now, InNight(end, now))

TimerVerdict(fireAt, now) == Verdict(fireAt, fireAt, TimerStaleness, now, FALSE)

----------------------------------------------------------------------------
(***************************************************************************)
(* Reminder: the gate's view of a stored trigger and of its unit.          *)
(*   fireAt   when it rings            about    the event its payload names *)
(*   lead     its lead, 0 when none    current  the unit's event now        *)
(*   rule     recurring                occurs   its anchor's occurrence on  *)
(*                                              or after fireAt, if anchored*)
(*   waiting  fired and not judged for lateness                             *)
(*   newer    the unit has armed a one-shot since (legacy rows only)        *)
(*   asked, dayOnly, nightExempt       as in the payload                    *)
(***************************************************************************)
Reminder ==
    [fireAt : Int, about : Times, lead : Nat, rule : BOOLEAN, occurs : Times,
     current : Times, waiting : BOOLEAN, newer : BOOLEAN,
     asked : BOOLEAN, dayOnly : BOOLEAN, nightExempt : BOOLEAN]

NamesEvent(r) == r.about # NoTime \/ r.lead > 0 \/ r.rule

Superseded(r) ==
    IF r.about # NoTime
    THEN r.current # NoTime /\ r.about # r.current
    ELSE ~NamesEvent(r) /\ r.newer

About(r) ==
    CASE r.about # NoTime -> r.about
      [] r.about = NoTime /\ r.lead > 0 -> r.fireAt + r.lead
      [] r.about = NoTime /\ r.lead = 0 /\ r.rule -> r.occurs
      [] OTHER -> r.current

DayGranular(r, about) == r.rule \/ r.dayOnly \/ (~r.asked /\ IsDateOnly(about))

Passed(r, about, now) ==
    IF DayGranular(r, about) THEN now >= NextMidnight(about) ELSE now >= about

Lapse(reason) == [verdict |-> "stale", reason |-> reason]
Keep(verdict) == [verdict |-> verdict, reason |-> "none"]

(***************************************************************************)
(* ReminderVerdict: a moved event first, then a past one, then a row that  *)
(* waits for the digest, then lateness.                                    *)
(***************************************************************************)
ReminderVerdict(end, r, now) ==
    IF Superseded(r) THEN
        IF r.current # NoTime /\ Passed(r, r.current, now)
        THEN Lapse("passed") ELSE Lapse("superseded")
    ELSE IF About(r) # NoTime /\ Passed(r, About(r), now) THEN Lapse("passed")
    ELSE IF r.waiting THEN Keep("deliver")
    ELSE LET v == IF r.nightExempt
                  THEN Verdict(r.fireAt, r.fireAt, TriggerStaleness, now, FALSE)
                  ELSE TriggerVerdict(end, r.fireAt, now)
         IN  IF v = "stale" THEN Lapse("overdue") ELSE Keep(v)

----------------------------------------------------------------------------
(* The digest's window, and the mornings that have begun since an instant. *)

Larger(a, b) == IF a < b THEN b ELSE a

DigestAt(end, t) == At(t, Larger(DigestHour, end))

(* lastDigest = NoTime when the log holds none.                            *)
DigestDue(end, lastDigest, now) ==
    LET due    == DigestAt(end, now)
        cutoff == Larger(At(now, DigestCutoffHour), due + MinDigestWindow)
    IN  /\ now >= due
        /\ now < cutoff
        /\ lastDigest # NoTime => lastDigest < At(now, 0)

(* morningsAfter: the local days after since's day whose digest hour has   *)
(* come by now, counted up to limit.                                       *)
MorningsAfter(end, since, now, limit) ==
    LET today == IF DigestAt(end, now) <= now THEN DayOf(now) ELSE DayOf(now) - 1
        n     == today - DayOf(since)
    IN  IF n < 0 THEN 0 ELSE IF n > limit THEN limit ELSE n
============================================================================
