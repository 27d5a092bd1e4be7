---------------------------- MODULE ReminderPlan ----------------------------
(***************************************************************************)
(* The planning half of internal/core/prospection: which reminders an      *)
(* event is owed (reminders.go), how they are carried onto the rows it     *)
(* already has (follow.go), and the one catch-up an event whose leads are  *)
(* all behind is owed (catchup.go).  A unit's own leads (WithEventLeads),  *)
(* its interrupt level and every text are left out.                        *)
(***************************************************************************)
EXTENDS ReminderClock, Sequences, FiniteSets

CONSTANTS
    QuietEnd,      \* ReminderPrefs.QuietEnd
    EveningAt,     \* ReminderPrefs.EveningAt
    DateOnlyAt,    \* ReminderPrefs.DateOnlyAt
    TimedLeads,    \* ReminderPrefs.TimedLeads
    RemindMeLead,  \* ReminderPrefs.RemindMeLead
    AtOnceMargin   \* AtOnceMarginMinutes

ASSUME PrefsAssumption ==
    /\ {QuietEnd, EveningAt, DateOnlyAt} \subseteq 0 .. DayLen - 1
    /\ EveningAt >= QuietEnd
    /\ TimedLeads \in Seq(Nat \ {0})
    /\ RemindMeLead \in Nat \ {0} /\ AtOnceMargin \in Nat

----------------------------------------------------------------------------
(* Where a nominal instant really rings.                                   *)

(* Mutants: the night not looked at, and the event not looked at.          *)
BugDueAtNight(nominal, event) == nominal
BugDueAtEvent(nominal, event) == DeliverableFrom(QuietEnd, nominal)

(* dueAt: moved out of the night, to its end when that is before the event *)
(* and else to the evening before.                                         *)
DueAt(nominal, event) ==
    IF ~InNight(QuietEnd, nominal) THEN nominal
    ELSE IF DeliverableFrom(QuietEnd, nominal) < event
         THEN DeliverableFrom(QuietEnd, nominal)
         ELSE At(nominal, EveningAt) - DayLen

(* deliverAt: NoTime when only the night is left.                          *)
DeliverAt(nominal, event, now) ==
    LET at == DueAt(nominal, event)
    IN  IF at >= now THEN at ELSE IF InNight(QuietEnd, now) THEN NoTime ELSE now

(* Sent: [about, leads, at], one reminder that went out.                   *)
CoveredBy(sent, event, nominal, due) ==
    \E s \in sent : s.about = event /\ (event - nominal \in s.leads \/ due <= s.at)

----------------------------------------------------------------------------
(* The leads of an event: [at, asked, own].                                *)

Instants(event, dateOnly) ==
    IF dateOnly THEN << At(event, DateOnlyAt) - DayLen >>
    ELSE [i \in DOMAIN TimedLeads |-> event - TimedLeads[i]]

EveryLeadBehind(event, now) ==
    \A i \in DOMAIN Instants(event, IsDateOnly(event)) :
        Instants(event, IsDateOnly(event))[i] < now

(* leadSet: an event's leads, then the instant the user asked for.         *)
LeadSet(isEvent, asked, at, dayOnly) ==
    LET dateOnly == IF asked THEN dayOnly ELSE IsDateOnly(at)
        timed == IF isEvent
                 THEN [i \in DOMAIN Instants(at, dateOnly) |->
                         [at |-> Instants(at, dateOnly)[i], asked |-> FALSE, own |-> FALSE]]
                 ELSE << >>
        named == [at |-> IF dayOnly THEN At(at, DateOnlyAt) ELSE at - RemindMeLead,
                  asked |-> TRUE, own |-> FALSE]
    IN  IF asked THEN Append(timed, named) ELSE timed

ToldOn(told, now) == told # NoTime /\ DayOf(told) = DayOf(now)
ToldToday(at, told, now) == ToldOn(told, now) /\ DayOf(at) > DayOf(told)

(* skipToldDay: no lead rings on the day a later event is told, unless it  *)
(* is the only one left; then the nearest does.  The leads that stay keep  *)
(* their positions.                                                        *)
SkipToldDay(leads, at, told, now) ==
    LET onTold == {i \in DOMAIN leads : /\ ~leads[i].asked /\ leads[i].at >= now
                                        /\ DayOf(leads[i].at) = DayOf(told)}
        others == DOMAIN leads \ onTold
        left == \E i \in others : leads[i].at >= now \/ leads[i].asked
        nearest == {i \in onTold : \A j \in onTold :
                      leads[j].at < leads[i].at \/ (leads[j].at = leads[i].at /\ i <= j)}
        kept == IF told = NoTime \/ DayOf(at) <= DayOf(told) THEN DOMAIN leads
                ELSE IF left THEN others ELSE others \cup nearest
    IN  [i \in kept |-> leads[i]]

(* ringOnTheDay: NoTime when no slot of the day is before the event's end. *)
RingOnTheDay(at) ==
    LET end == IF IsDateOnly(at) THEN NextMidnight(at) ELSE at
    IN  IF At(at, DateOnlyAt) < end THEN At(at, DateOnlyAt)
        ELSE IF At(at, QuietEnd) < end THEN At(at, QuietEnd) ELSE NoTime

----------------------------------------------------------------------------
(***************************************************************************)
(* reminders: [why, plans], one plan per instant at which something rings, *)
(* or the reason nothing does.  A plan is                                  *)
(*   [fireAt, about, immediate, lead, leads, asked, dayOnly, nightExempt]  *)
(***************************************************************************)
Refuse(why) == [why |-> why, plans |-> {}]

Armed(plans) == [why |-> "none", plans |-> plans]

Arms(r) == r.plans # {}

Plan(fireAt, about, immediate, lead, leads, asked, dayOnly, exempt) ==
    [fireAt |-> fireAt, about |-> about, immediate |-> immediate, lead |-> lead,
     leads |-> leads, asked |-> asked, dayOnly |-> dayOnly, nightExempt |-> exempt]

EndOf(at, dayOnly) == IF dayOnly THEN NextMidnight(at) ELSE at

(* The leads still ahead, at their positions, and last of all the at-once  *)
(* item an asked lead behind or no lead ahead adds.                        *)
OnceAt == 0

Earlier(i, j) == i # j /\ i # OnceAt /\ (j = OnceAt \/ i < j)

RingItems(leads, now) ==
    LET ahead == {i \in DOMAIN leads : leads[i].at >= now}
        behind == \E i \in DOMAIN leads \ ahead : leads[i].asked
        once == IF behind \/ ahead = {} THEN {OnceAt} ELSE {}
    IN  [i \in ahead \cup once |->
            IF i = OnceAt THEN [at |-> now, asked |-> behind, own |-> FALSE, once |-> TRUE]
            ELSE [at |-> leads[i].at, asked |-> leads[i].asked, own |-> leads[i].own,
                  once |-> FALSE]]

(* What becomes of an item: too late to ask for, covered by what was sent, *)
(* left with only the night, hushed as nobody asked for it at the moment   *)
(* it is told, or rung.                                                    *)
Fate(it, ring, left, at, told, now, sent) ==
    IF it.asked /\ it.once /\ left < AtOnceMargin THEN "too late"
    ELSE IF CoveredBy(sent, at, it.at, ring.due) THEN "covered"
    ELSE IF ring.fireAt = NoTime THEN "quiet hours"
    ELSE IF ring.fireAt = now /\ (it.once \/ it.at # now) /\ ~it.asked /\ ToldOn(told, now)
    THEN "hushed" ELSE "rings"

(* Where an item rings; an asked one at a named time whatever the hour.    *)
RingAt(it, exempt, end, now) ==
    [due    |-> IF exempt THEN it.at ELSE DueAt(it.at, end),
     fireAt |-> IF exempt THEN it.at ELSE DeliverAt(it.at, end, now)]

RingOf(it, at, dayOnly, told, now, sent) ==
    LET exempt == it.asked /\ (it.once \/ ~dayOnly)
        serves == ~it.once /\ ~it.own /\ (~it.asked \/ ~dayOnly)
        end    == EndOf(at, dayOnly)
        ring   == RingAt(it, exempt, end, now)
    IN  [fireAt    |-> ring.fireAt,
         fate      |-> Fate(it, ring, end - now, at, told, now, sent),
         asked     |-> it.asked,
         exempt    |-> exempt,
         immediate |-> ring.fireAt = now /\ (it.once \/ it.at # now),
         leads     |-> IF serves THEN {at - it.at} ELSE {}]

(* Two items that ring at one instant are one reminder, opened by the      *)
(* first that is not hushed and joined by every later one.                 *)
Opens(rings) ==
    {i \in DOMAIN rings :
        /\ rings[i].fate = "rings"
        /\ \A j \in DOMAIN rings :
              rings[j].fate = "rings" /\ rings[j].fireAt = rings[i].fireAt => ~Earlier(j, i)}

Joined(rings, i) ==
    {j \in DOMAIN rings :
        /\ rings[j].fate \in {"rings", "hushed"} /\ rings[j].fireAt = rings[i].fireAt
        /\ ~Earlier(j, i)}

PlanOf(first, joined, at, dayOnly) ==
    Plan(first.fireAt, at, first.immediate,
         IF first.immediate THEN 0 ELSE Larger(0, at - first.fireAt),
         UNION {r.leads : r \in joined}, \E r \in joined : r.asked, dayOnly,
         \E r \in joined : r.exempt)

Unrung(rings, leads) ==
    LET fates == {rings[i].fate : i \in DOMAIN rings}
    IN  Refuse(IF "hushed" \in fates /\ \A i \in DOMAIN leads : ~leads[i].asked
               THEN "leads behind"
               ELSE IF "covered" \in fates THEN "covered"
               ELSE IF "too late" \in fates THEN "too late" ELSE "quiet hours")

Rung(rings, leads, at, dayOnly) ==
    IF Opens(rings) = {} THEN Unrung(rings, leads)
    ELSE Armed({PlanOf(rings[i], {rings[j] : j \in Joined(rings, i)}, at, dayOnly) :
                    i \in Opens(rings)})

RingsOf(items, at, dayOnly, told, now, sent) ==
    [i \in DOMAIN items |-> RingOf(items[i], at, dayOnly, told, now, sent)]

Reminders(at, dayOnly, leads, told, now, sent) ==
    IF EndOf(at, dayOnly) <= now THEN Refuse("already past")
    ELSE Rung(RingsOf(RingItems(leads, now), at, dayOnly, told, now, sent), leads, at, dayOnly)

(* On the day it is told, a later event whose leads are all behind rings   *)
(* on its own day.                                                         *)
OrOnTheDay(planned, event, told, now, sent) ==
    LET ring == RingOnTheDay(event)
    IN  IF planned.why # "leads behind" \/ ~ToldToday(event, told, now) THEN planned
        ELSE IF ring = NoTime THEN Refuse("quiet hours")
        ELSE Reminders(event, FALSE, << [at |-> ring, asked |-> FALSE, own |-> TRUE] >>,
                       told, now, sent)

EventReminders(event, told, now, sent) ==
    OrOnTheDay(Reminders(event, FALSE,
                         SkipToldDay(LeadSet(TRUE, FALSE, event, FALSE), event, told, now),
                         told, now, sent),
               event, told, now, sent)

AskedReminders(at, isEvent, dayOnly, told, now, sent) ==
    Reminders(at, dayOnly, SkipToldDay(LeadSet(isEvent, TRUE, at, dayOnly), at, told, now),
              told, now, sent)

----------------------------------------------------------------------------
(***************************************************************************)
(* Following: [why, plans, carry, expire], the plans in firing order, the  *)
(* live row each is carried onto (0 for none), and the live rows left      *)
(* over.  live is a sequence of [id, fireAt].                              *)
(***************************************************************************)
Ranked(S, rank) == [k \in 1 .. Cardinality(S) |-> CHOOSE x \in S : rank[x] = k - 1]

InOrder(plans) ==
    Ranked(plans, [p \in plans |-> Cardinality({q \in plans : q.fireAt < p.fireAt})])

(* settle, with the first n live rows carried onto the first n plans.      *)
Settle(why, plans, live, n) ==
    [why    |-> why,
     plans  |-> plans,
     carry  |-> [i \in DOMAIN plans |-> IF i <= n THEN live[i].id ELSE 0],
     expire |-> [k \in 1 .. Len(live) - n |-> live[n + k].id]]

CarryNothing(why, live) == Settle(why, << >>, live, 0)

CarryOnto(plans, live, now) ==
    LET n == IF Len(plans) < Len(live) THEN Len(plans) ELSE Len(live)
        kept(i) == IF i <= n /\ plans[i].immediate /\ live[i].fireAt <= now
                   THEN [plans[i] EXCEPT !.fireAt = live[i].fireAt] ELSE plans[i]
    IN  Settle("none", [i \in DOMAIN plans |-> kept(i)], live, n)

Onto(planned, event, live, told, now) ==
    IF planned.why = "leads behind" /\ live # << >> /\ live[1].fireAt <= now
    THEN CarryOnto(<< Plan(now, event, TRUE, 0, {}, FALSE, FALSE, FALSE) >>, live, now)
    ELSE IF \/ ~Arms(planned)
            \/ live = << >> /\ EveryLeadBehind(event, now) /\ ~ToldToday(event, told, now)
    THEN CarryNothing(planned.why, live)
    ELSE CarryOnto(InOrder(planned.plans), live, now)

FollowSent(event, live, sent, told, now) ==
    Onto(EventReminders(event, told, now, sent), event, live, told, now)

Follow(event, live, now) == FollowSent(event, live, {}, now, now)

AtOnce(p) == p.asked /\ p.immediate /\ p.leads = {}

OntoAhead(planned, live, now) ==
    LET ahead == {p \in planned.plans : ~AtOnce(p)}
    IN  IF ahead = {} THEN CarryNothing(planned.why, live)
        ELSE CarryOnto(InOrder(ahead), live, now)

FollowAsked(at, isEvent, dayOnly, live, sent, told, now) ==
    OntoAhead(AskedReminders(at, isEvent, dayOnly, told, now, sent), live, now)

----------------------------------------------------------------------------
(* The catch-up owed: one plan, or "not owed", or the night's refusal.     *)

(* Mutant: nothing sent counts as spoken for.                              *)
BugSpokenFor(sent, at) == \A s \in sent : s.about = at

SpokenFor(sent, at) == \E s \in sent : s.about = at

CatchUp(event, live, sent, now) ==
    LET by == EndOf(event, IsDateOnly(event))
        at == DeliverAt(now, by, now)
    IN  IF by <= now \/ live # << >> \/ ~EveryLeadBehind(event, now) \/ SpokenFor(sent, event)
        THEN Refuse("not owed")
        ELSE IF at = NoTime THEN Refuse("quiet hours")
        ELSE Armed({Plan(at, event, at = now, IF at = now THEN 0 ELSE Larger(0, event - at),
                         {}, FALSE, FALSE, FALSE)})

RingAtOnce(planned, at, dayOnly, fire, now) ==
    IF Cardinality(planned.plans) # 1 \/ \E p \in planned.plans : ~AtOnce(p)
    THEN Refuse("not owed")
    ELSE IF fire = NoTime THEN Refuse("quiet hours")
    ELSE Armed({[p EXCEPT !.fireAt = fire, !.immediate = (fire = now), !.nightExempt = FALSE,
                          !.lead = IF fire # now /\ ~dayOnly THEN at - fire ELSE @] :
                    p \in planned.plans})

CatchUpAsked(at, isEvent, dayOnly, live, sent, now) ==
    IF live # << >> \/ SpokenFor(sent, at) THEN Refuse("not owed")
    ELSE RingAtOnce(AskedReminders(at, isEvent, dayOnly, NoTime, now, {}), at, dayOnly,
                    DeliverAt(now, EndOf(at, dayOnly), now), now)
============================================================================
