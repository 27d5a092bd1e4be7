---------------------------- MODULE ReminderPass ----------------------------
(***************************************************************************)
(* The due scan over event reminders: internal/brain's checkRunner.at      *)
(* (scan, re-plan, retry, flush, the digest's sweep of past reminders)     *)
(* against the triggers table of internal/store/sqlite, interleaved call   *)
(* by call with a correction that moves the unit's event, and with store,  *)
(* log and transport failures and a crash of the process.                  *)
(*                                                                         *)
(* Every call to the store is one atomic step: its UPDATE carries its own  *)
(* precondition.  The proactive slot and the vault lock allow one pass at  *)
(* a time, so there is one pass and one correction in progress at most.    *)
(* A tick is long against a pass: the clock moves between passes only.     *)
(***************************************************************************)
EXTENDS ReminderPlan, FiniteSetsExt

CONSTANTS
    Ids,            \* trigger ids, in the order an id comparison gives them
    Units,          \* the units reminders hang off
    Kinds,          \* what a unit may be: an "event", one "asked" for, a "series"
    HasChannel,     \* a channel is configured
    Conversations,  \* whether it may have one conversation to speak to: Booleans
    Start,          \* when every unit was captured
    FirstAt,        \* [Kinds -> the event's first instant, a series' first ring]
    EventChoices,   \* the instants a correction may move an event to
    Horizon, MaxCorrections, MaxCrashes, MaxFaults    \* bounds

ASSUME PassAssumption ==
    /\ Ids \subseteq Nat \ {0} /\ IsFiniteSet(Ids)
    /\ Kinds \subseteq {"event", "asked", "series"}
    /\ HasChannel \in BOOLEAN /\ Conversations \subseteq BOOLEAN
    /\ Start \in Int /\ Horizon \in Int /\ Start <= Horizon
    /\ FirstAt \in [Kinds -> Int] /\ EventChoices \subseteq Int
    /\ {MaxCorrections, MaxCrashes, MaxFaults} \subseteq Nat

VARIABLES
    kind,       \* [Units -> Kinds]
    hasConversation,
    now,
    event,      \* units.event_at
    status,     \* triggers.status, "none" for an id not created yet
    surfaced,   \* triggers.surfaced_at is not NULL
    firedAt,    \* triggers.fired_at
    body,       \* the rest of the row: unit, fire_at, recurrence and payload
    lastDigest, \* the last check.digest.sent row
    unmarked,   \* checkRunner.unmarked: sent here, and not recorded as delivered
    pc,         \* where the pass is
    due,        \* rows still to judge: the due rows, then the undelivered ones
    stale,      \* rows to re-plan before they are retired
    settled,    \* ids this pass fired or retired in its scan
    queue,      \* pushQueue.rows
    retry,      \* undelivered rows to send again
    group,      \* the unit's stale rows, then those still to retire
    planEvent,  \* the event instant replanUnit read
    ops,        \* what is left of reminderSet.apply
    outbox,     \* the rows flush has still to send
    message,    \* the rows of the message just sent, those not surfaced yet
    failed,     \* at returns an error
    cpc, cunit, cops,               \* the correction in progress
    corrections, crashes, faults,   \* what the bounds count
    sends,      \* ghost: messages about the row the transport carried
    acked,      \* ghost: those this process knows were carried
    cut,        \* ghost: rows sent whose marking loop a log failure ended
    raced,      \* ghost: units corrected while a pass held rows of theirs
    refused,    \* ghost: [Units -> the instant a plan armed nothing for]
    dropped     \* ghost: units whose correction stopped part way

settings == << kind, hasConversation >>
dbVars == << event, status, surfaced, firedAt, body >>
scanVars == << due, stale, settled, queue, retry >>
planVars == << group, planEvent, ops >>
sendVars == << outbox, message, failed >>
corrVars == << cpc, cunit, cops >>
tellVars == << unmarked, sends, acked, cut >>
ghostVars == << raced, refused, dropped >>
boundVars == << corrections, crashes, faults >>
vars == << settings, now, dbVars, lastDigest, pc, scanVars, planVars, sendVars, corrVars, tellVars,
           ghostVars, boundVars >>

Series == {u \in Units : kind[u] = "series"}     \* a daily reminder and no event
RemindMe == {u \in Units : kind[u] = "asked"}    \* a reminder the user asked for
EventAt0 == [u \in Units |-> FirstAt[kind[u]]]

----------------------------------------------------------------------------
(* Rows and the reads of the table.                                        *)

NoKey == << >>          \* an id that is not a catch-up's

BodyOf(u, p, key) ==
    [unit |-> u, fireAt |-> p.fireAt, about |-> p.about, lead |-> p.lead, leads |-> p.leads,
     asked |-> p.asked, dayOnly |-> p.dayOnly, nightExempt |-> p.nightExempt,
     rule |-> FALSE, key |-> key]

SeriesBody(u, at) ==
    [unit |-> u, fireAt |-> at, about |-> NoTime, lead |-> 0, leads |-> {}, asked |-> FALSE,
     dayOnly |-> FALSE, nightExempt |-> FALSE, rule |-> TRUE, key |-> NoKey]

Row(i) == [id |-> i, body |-> body[i], armed |-> status[i] = "armed"]

(***************************************************************************)
(* The pass keeps its rows in sets and takes the foremost: the armed ones, *)
(* as the table lists them, in (fire_at, id) order, and after them the     *)
(* undelivered ones in (fired_at, id) order.                               *)
(***************************************************************************)
Before(r, s) == r.body.fireAt < s.body.fireAt \/ (r.body.fireAt = s.body.fireAt /\ r.id < s.id)

FiredBefore(r, s) ==
    firedAt[r.id] < firedAt[s.id] \/ (firedAt[r.id] = firedAt[s.id] /\ r.id < s.id)

Ahead(r, s) ==
    \/ r.armed /\ ~s.armed
    \/ r.armed /\ s.armed /\ Before(r, s)
    \/ ~r.armed /\ ~s.armed /\ FiredBefore(r, s)

Foremost(r, rows) == \A s \in rows : s = r \/ Ahead(r, s)

Due(t) == {Row(i) : i \in {j \in Ids : status[j] = "armed" /\ body[j].fireAt <= t}}
ArmedForUnit(u) == {Row(i) : i \in {j \in Ids : status[j] = "armed" /\ body[j].unit = u}}
FiredForUnit(u) == {i \in Ids : status[i] = "fired" /\ body[i].unit = u /\ ~body[i].rule}
Unsurfaced(i) == status[i] = "fired" /\ ~surfaced[i]   \* Surface's and Lapse's precondition
Undelivered == {Row(i) : i \in {j \in Ids : Unsurfaced(j)}}

Unused == {i \in Ids : status[i] = "none"}
FreshId == CHOOSE i \in Unused : TRUE

IdsOf(rows) == {r.id : r \in rows}
OfUnit(rows, u) == {r \in rows : r.body.unit = u}

(* pushQueue.add: the rows not in the queue yet.                           *)
Enqueue(q, rows) == q \cup {r \in rows : r.id \notin IdsOf(q)}

----------------------------------------------------------------------------
(* reminderGate.judge, on what it read of the unit.                        *)

DailyAfter(hour, t) == IF At(t, hour) > t THEN At(t, hour) ELSE At(t, hour) + DayLen

(* prospection.Rearmed, for a daily anchor at the row's own hour.          *)
Rearmed(fireAt, t) ==
    DailyAfter(HourOf(fireAt), IF fireAt < At(t, 0) THEN At(t, 0) - 1 ELSE fireAt)

Reminder0(b, fired, current) ==
    [fireAt |-> b.fireAt, about |-> b.about, lead |-> b.lead, rule |-> b.rule,
     occurs |-> IF b.rule THEN DailyAfter(HourOf(b.fireAt), b.fireAt - 1) ELSE NoTime,
     current |-> current, waiting |-> fired /\ b.rule, newer |-> FALSE,
     asked |-> b.asked, dayOnly |-> b.dayOnly, nightExempt |-> b.nightExempt]

(* Mutant: a late reminder taken for one whose event has passed.           *)
BugJudgePassed(b, fired, current) ==
    LET v == ReminderVerdict(QuietEnd, Reminder0(b, fired, current), now)
    IN  IF v.verdict = "stale" THEN Lapse("passed") ELSE v

Judge(b, fired, current) == ReminderVerdict(QuietEnd, Reminder0(b, fired, current), now)

(* What units.ByID gives the gate; an unreadable unit gives nothing, and a *)
(* series is judged without it.                                            *)
CurrentOf(b, readable) == IF b.rule \/ ~readable THEN NoTime ELSE event[b.unit]

CanDeliver == HasChannel /\ hasConversation

ToReplan(v) == v.verdict = "stale" /\ v.reason # "passed"

----------------------------------------------------------------------------
(* Init: every unit captured at Start, its reminders armed as a capture    *)
(* arms them.                                                              *)

ArmedBodies(u, plans) == [i \in DOMAIN plans |-> BodyOf(u, plans[i], NoKey)]

Captured(u) ==
    IF u \in Series THEN << SeriesBody(u, EventAt0[u]) >>
    ELSE LET planned == IF u \in RemindMe
                        THEN AskedReminders(EventAt0[u], TRUE, IsDateOnly(EventAt0[u]), Start, Start,
                                            {})
                        ELSE EventReminders(EventAt0[u], Start, Start, {})
         IN  ArmedBodies(u, InOrder(planned.plans))

NoBody == SeriesBody(CHOOSE u \in Units : TRUE, Start)

(* A capture creates its unit's rows one by one: theirs are the first ids, *)
(* in that order within the unit.                                          *)
Laid ==
    LET slots == UNION {{<< u, k >> : k \in DOMAIN Captured(u)} : u \in Units}
    IN  \E slotOf \in [slots -> Ids] :
            /\ \A s, t \in slots : s # t => slotOf[s] # slotOf[t]
            /\ \A s, t \in slots : s[1] = t[1] /\ s[2] < t[2] => slotOf[s] < slotOf[t]
            /\ \A i \in Ids : (\E s \in slots : i <= slotOf[s]) => \E s \in slots : i = slotOf[s]
            /\ status = [i \in Ids |-> IF \E s \in slots : slotOf[s] = i THEN "armed" ELSE "none"]
            /\ body = [i \in Ids |->
                         IF \E s \in slots : slotOf[s] = i
                         THEN LET s == CHOOSE t \in slots : slotOf[t] = i IN Captured(s[1])[s[2]]
                         ELSE NoBody]

Init ==
    /\ kind \in [Units -> Kinds] /\ hasConversation \in Conversations
    /\ now = Start
    /\ event = [u \in Units |-> IF u \in Series THEN NoTime ELSE EventAt0[u]]
    /\ Laid
    /\ surfaced = [i \in Ids |-> FALSE]
    /\ firedAt = [i \in Ids |-> NoTime]
    /\ lastDigest = NoTime
    /\ pc = "idle" /\ planEvent = NoTime
    /\ due = {} /\ stale = {} /\ queue = {} /\ retry = {} /\ group = {}
    /\ ops = << >> /\ outbox = {} /\ message = {}
    /\ settled = {} /\ unmarked = {} /\ failed = FALSE
    /\ cpc = "idle" /\ cunit = NoTime /\ cops = << >>
    /\ corrections = 0 /\ crashes = 0 /\ faults = 0
    /\ sends = [i \in Ids |-> 0] /\ acked = [i \in Ids |-> 0]
    /\ cut = {} /\ raced = {} /\ dropped = {}
    /\ refused = [u \in Units |->
                    IF u \notin Series /\ Captured(u) = << >> THEN EventAt0[u] ELSE NoTime]

----------------------------------------------------------------------------
(***************************************************************************)
(* Failures.  A step of the pass ends "ok", or "store" when its call fails *)
(* and changes nothing, or "log" when the write lands and the decision row *)
(* after it does not.  The last two make at return an error, which still   *)
(* flushes what was queued.                                                *)
(***************************************************************************)
Outcomes == {"ok", "store", "log"}

Charge(o) ==
    /\ o # "ok" => faults < MaxFaults
    /\ faults' = IF o = "ok" THEN faults ELSE faults + 1
    /\ UNCHANGED << corrections, crashes >>

ClearWork ==
    /\ due' = {} /\ stale' = {} /\ settled' = {} /\ retry' = {}
    /\ group' = {} /\ planEvent' = NoTime /\ ops' = << >>

Abort ==
    /\ pc' = "flush" /\ failed' = TRUE
    /\ ClearWork
    /\ UNCHANGED << queue, outbox, message >>

(* The table's guarded writes, taken when their precondition holds.  A     *)
(* series leaves armed and gets its successor in one transaction (Rearm).  *)
Successor(r) == SeriesBody(r.body.unit, Rearmed(r.body.fireAt, now))

(* Mutant: an expired series is not re-armed.                              *)
BugLeaveArmedOnce(r, to) ==
    /\ IF r.body.rule /\ to = "fired"
       THEN /\ Unused # {}
            /\ status' = [status EXCEPT ![r.id] = to, ![FreshId] = "armed"]
            /\ body' = [body EXCEPT ![FreshId] = Successor(r)]
       ELSE status' = [status EXCEPT ![r.id] = to] /\ UNCHANGED body
    /\ firedAt' = IF to = "fired" THEN [firedAt EXCEPT ![r.id] = now] ELSE firedAt
    /\ UNCHANGED << event, surfaced >>

LeaveArmed(r, to) ==
    /\ IF r.body.rule
       THEN /\ Unused # {}
            /\ status' = [status EXCEPT ![r.id] = to, ![FreshId] = "armed"]
            /\ body' = [body EXCEPT ![FreshId] = Successor(r)]
       ELSE status' = [status EXCEPT ![r.id] = to] /\ UNCHANGED body
    /\ firedAt' = IF to = "fired" THEN [firedAt EXCEPT ![r.id] = now] ELSE firedAt
    /\ UNCHANGED << event, surfaced >>

(* Expire of an armed row, or Lapse of a fired one.                        *)
ExpireRow(i) ==
    /\ status' = [status EXCEPT ![i] = "expired"]
    /\ UNCHANGED << event, surfaced, firedAt, body >>

Create(b) ==
    /\ Unused # {}
    /\ status' = [status EXCEPT ![FreshId] = "armed"]
    /\ body' = [body EXCEPT ![FreshId] = b]
    /\ UNCHANGED << event, surfaced, firedAt >>

Reschedule(i, b) ==
    /\ body' = [body EXCEPT ![i] = b]
    /\ UNCHANGED << event, status, surfaced, firedAt >>

----------------------------------------------------------------------------
(* The scan.                                                               *)

(* Ghost: the pass holds rows of u it has still to write on; a correction  *)
(* meets a pass that has just read rows of its unit.                       *)
Holds(u) == OfUnit(due \cup stale \cup group, u) # {}
Race(rows) == IF cpc # "idle" /\ OfUnit(rows, cunit) # {} THEN raced \cup {cunit} ELSE raced

BeginPass ==
    /\ pc = "idle"
    /\ pc' = "scan"
    /\ due' = Due(now)
    /\ failed' = FALSE
    /\ raced' = Race(due')
    /\ UNCHANGED << settings, now, dbVars, lastDigest, stale, settled, queue, retry, planVars,
                    outbox, message, corrVars, tellVars, refused, dropped, boundVars >>

(* One due row judged: put with the stale, left as it is, or on to a write. *)
JudgeDue ==
    /\ pc = "scan"
    /\ \E r \in due, readable \in BOOLEAN :
        LET v == Judge(r.body, FALSE, CurrentOf(r.body, readable))
        IN  /\ Foremost(r, due)
            /\ r.body.rule => readable
            /\ Charge(IF readable THEN "ok" ELSE "store")
            /\ \/ /\ ~r.body.rule /\ CanDeliver /\ ToReplan(v)
                  /\ stale' = stale \cup {r} /\ due' = due \ {r} /\ pc' = pc
               \/ /\ ~r.body.rule /\ ~CanDeliver /\ (ToReplan(v) \/ v.verdict = "deliver")
                  /\ due' = due \ {r} /\ pc' = pc /\ UNCHANGED stale
               \/ /\ v.verdict \in {"pending", "defer"}
                  /\ due' = due \ {r} /\ pc' = pc /\ UNCHANGED stale
               \/ /\ v.verdict = "deliver" /\ (r.body.rule \/ CanDeliver)
                  /\ pc' = "fire" /\ UNCHANGED << due, stale >>
               \/ /\ v.verdict = "stale" /\ (r.body.rule \/ v.reason = "passed")
                  /\ pc' = "expire" /\ UNCHANGED << due, stale >>
    /\ UNCHANGED << settings, now, dbVars, lastDigest, settled, queue, retry, planVars, sendVars,
                    corrVars, tellVars, raced, refused, dropped >>

(* fireAndDeliver and, in the scan, retire: a row no longer armed is       *)
(* another writer's and is skipped.  A fire whose log row fails is not     *)
(* queued: the row waits for a later pass to retry it.                     *)
WriteVerdict ==
    /\ pc \in {"fire", "expire"}
    /\ \E r \in due, o \in Outcomes :
        LET armed == status[r.id] = "armed"
        IN  /\ Foremost(r, due)
            /\ Charge(o)
            /\ IF o = "store" \/ ~armed THEN UNCHANGED dbVars
               ELSE LeaveArmed(r, IF pc = "fire" THEN "fired" ELSE "expired")
            /\ IF o # "ok" THEN Abort
               ELSE /\ pc' = "scan" /\ due' = due \ {r}
                    /\ settled' = IF armed THEN settled \cup {r.id} ELSE settled
                    /\ queue' = IF armed /\ pc = "fire" THEN Enqueue(queue, {r}) ELSE queue
                    /\ UNCHANGED << stale, retry, planVars, sendVars >>
    /\ UNCHANGED << settings, now, lastDigest, corrVars, tellVars, ghostVars >>

(* Only a pass that can speak goes on to the re-plan.  The timers, scanned *)
(* in between, are left out but for the error their scan may end in.       *)
ScanDone ==
    /\ pc = "scan" /\ due = {}
    /\ \/ /\ CanDeliver /\ Charge("ok")
          /\ pc' = "sift" /\ due' = Undelivered
          /\ raced' = Race(due')
          /\ UNCHANGED << stale, settled, queue, retry, planVars, sendVars >>
       \/ Charge("store") /\ Abort /\ UNCHANGED raced
       \/ /\ ~CanDeliver /\ Charge("ok")
          /\ pc' = "flush"
          /\ UNCHANGED << raced, scanVars, planVars, sendVars >>
    /\ UNCHANGED << settings, now, dbVars, lastDigest, corrVars, tellVars, refused,
                    dropped >>

----------------------------------------------------------------------------
(* The re-plan: undelivered rows judged, then the stale rows of each unit. *)

(* A row is sent again unless this pass fired it, or this process sent it  *)
(* and could not record that.  Mutant: what was sent is not remembered.    *)
BugAgain(r, v) == v.verdict = "deliver" /\ r.id \notin settled

Again(r, v) == v.verdict = "deliver" /\ r.id \notin settled \cup unmarked

Sift ==
    /\ pc = "sift"
    /\ \E r \in due, readable \in BOOLEAN :
        LET v == Judge(r.body, TRUE, CurrentOf(r.body, readable))
        IN  /\ Foremost(r, due)
            /\ r.body.rule => readable
            /\ Charge(IF readable THEN "ok" ELSE "store")
            /\ stale' = IF ToReplan(v) THEN stale \cup {r} ELSE stale
            /\ retry' = IF Again(r, v) THEN retry \cup {r} ELSE retry
            /\ due' = due \ {r}
    /\ UNCHANGED << settings, now, dbVars, lastDigest, pc, settled, queue, planVars, sendVars,
                    corrVars, tellVars, raced, refused, dropped >>

SiftDone ==
    /\ pc = "sift" /\ due = {}
    /\ pc' = "plan"
    /\ UNCHANGED << settings, now, dbVars, lastDigest, scanVars, planVars, sendVars, corrVars,
                    tellVars, ghostVars, boundVars >>

(* replanUnit reads the unit of the first stale row; one it cannot read    *)
(* holds its rows as they are.                                             *)
ReadUnit ==
    /\ pc = "plan"
    /\ \E r \in stale, readable \in BOOLEAN :
        LET u == r.body.unit
        IN  /\ Foremost(r, stale)
            /\ Charge(IF readable THEN "ok" ELSE "store")
            /\ stale' = stale \ OfUnit(stale, u)
            /\ IF readable
               THEN pc' = "read" /\ group' = OfUnit(stale, u) /\ planEvent' = event[u]
               ELSE UNCHANGED << pc, group, planEvent >>
    /\ UNCHANGED << settings, now, dbVars, lastDigest, due, settled, queue, retry, ops, sendVars,
                    corrVars, tellVars, ghostVars >>

(* What reminderSet.apply writes for a Following: [kind, id, plan, was].   *)
Op(write, id, plan, was) == [kind |-> write, id |-> id, plan |-> plan, was |-> was]

NoPlan == Plan(NoTime, NoTime, FALSE, 0, {}, FALSE, FALSE, FALSE)

OpsOf(f) ==
    [i \in DOMAIN f.plans |->
        IF f.carry[i] # 0 THEN Op("move", f.carry[i], f.plans[i], body[f.carry[i]])
        ELSE Op("arm", 0, f.plans[i], NoBody)]
    \o [i \in DOMAIN f.expire |-> Op("expire", f.expire[i], NoPlan, body[f.expire[i]])]

(* liveSet: the rows in (fire_at, id) order.                               *)
LiveSet(rows) ==
    LET ordered == Ranked(rows, [r \in rows |-> Cardinality({s \in rows : Before(s, r)})])
    IN  [i \in DOMAIN ordered |-> [id |-> ordered[i].id, fireAt |-> ordered[i].body.fireAt]]

(* replanUnit reads the unit's rows and decides: the plan followed onto    *)
(* what is still live, a catch-up when nothing is, or nothing at all.      *)
Decided(u, live, f, owed) ==
    LET bare  == f.plans = << >> /\ live = << >>
        late  == bare /\ f.why \in {"none", "already past", "leads behind"}
    IN  /\ pc' = "apply"
        /\ \/ ~bare /\ ops' = OpsOf(f)
           \/ \E p \in owed.plans : late /\ ops' = << Op("catch-up", 0, p, NoBody) >>
           \/ bare /\ ~(late /\ Arms(owed)) /\ ops' = << >>
        /\ refused' = IF \/ f.plans = << >> /\ (f.why \in {"quiet hours", "too late"} \/ InNight(QuietEnd, now))
                         \/ late /\ owed.why = "quiet hours"
                      THEN [refused EXCEPT ![u] = planEvent] ELSE refused
        /\ UNCHANGED << scanVars, group, planEvent, sendVars >>

DecidePlan ==
    /\ pc = "read"
    /\ \E r \in group, o \in {"ok", "store"} :
        LET u    == r.body.unit
            day  == r.body.dayOnly
            live == LiveSet({s \in ArmedForUnit(u) :
                               ~s.body.rule /\ s.id \notin IdsOf(group) \cup settled})
            sent == {[about |-> body[i].about, leads |-> body[i].leads, at |-> firedAt[i]] :
                        i \in FiredForUnit(u) \ IdsOf(group)}
        IN  /\ Foremost(r, group)
            /\ Charge(o)
            /\ IF o # "ok" THEN Abort /\ UNCHANGED refused
               ELSE Decided(u, live,
                            IF u \in RemindMe
                            THEN FollowAsked(planEvent, TRUE, day, live, sent, Start, now)
                            ELSE FollowSent(planEvent, live, sent, Start, now),
                            IF u \in RemindMe
                            THEN CatchUpAsked(planEvent, TRUE, day, live, sent, now)
                            ELSE CatchUp(planEvent, live, sent, now))
    /\ UNCHANGED << settings, now, dbVars, lastDigest, corrVars, tellVars, raced,
                    dropped >>

(* A move that changes nothing writes nothing; a move or an expiry of a    *)
(* row no longer armed is an error.  A catch-up's id names the event and   *)
(* the attempt.                                                            *)
Same(op) ==
    /\ op.kind = "move"
    /\ op.was.fireAt = op.plan.fireAt /\ op.was.about = op.plan.about
    /\ op.was.lead = op.plan.lead /\ op.was.leads = op.plan.leads

(* Mutant: the write goes through whatever became of the row.              *)
BugConflicts(op) == FALSE

Conflicts(op) == op.kind \in {"move", "expire"} /\ status[op.id] # "armed"

(* Mutant: every catch-up takes the first one's id.                        *)
BugAttempt(u, about) == 1

Attempt(u, about) ==
    1 + Max({0} \cup {body[i].key[2] : i \in {j \in Ids :
            /\ status[j] # "none" /\ body[j].unit = u /\ body[j].key # NoKey
            /\ body[j].key[1] = about}})

Apply(op, u) ==
    \/ op.kind = "move" /\ Reschedule(op.id, BodyOf(u, op.plan, op.was.key))
    \/ op.kind = "expire" /\ ExpireRow(op.id)
    \/ op.kind = "arm" /\ Create(BodyOf(u, op.plan, NoKey))
    \/ /\ op.kind = "catch-up"
       /\ Create(BodyOf(u, op.plan, << op.plan.about, Attempt(u, op.plan.about) >>))

(* The log row comes before the write, except a catch-up's.                *)
ApplyPlan ==
    /\ pc = "apply" /\ ops # << >>
    /\ \E r \in group, o \in Outcomes :
        LET op == Head(ops)
            u  == r.body.unit
        IN  /\ Foremost(r, group)
            /\ Charge(o)
            /\ Same(op) => o = "ok"
            /\ LET writes == /\ ~Same(op) /\ ~Conflicts(op)
                             /\ o = "ok" \/ (o = "log" /\ op.kind = "catch-up")
               IN  IF writes THEN Apply(op, u) ELSE UNCHANGED dbVars
            /\ IF o = "ok" /\ (Same(op) \/ ~Conflicts(op))
               THEN ops' = Tail(ops) /\ UNCHANGED << pc, scanVars, group, planEvent, sendVars >>
               ELSE Abort
    /\ UNCHANGED << settings, now, lastDigest, corrVars, tellVars, ghostVars >>

ApplyDone ==
    /\ pc = "apply" /\ ops = << >>
    /\ pc' = "retire"
    /\ UNCHANGED << settings, now, dbVars, lastDigest, scanVars, planVars, sendVars, corrVars,
                    tellVars, ghostVars, boundVars >>

(* retire, of the re-planned rows and of the digest's past ones: an armed  *)
(* row expires, a fired one lapses, one another writer moved is skipped.   *)
Retire ==
    /\ pc \in {"retire", "sweep"}
    /\ \E r \in group, o \in Outcomes :
        LET holds == IF r.armed THEN status[r.id] = "armed" ELSE Unsurfaced(r.id)
        IN  /\ Foremost(r, group)
            /\ Charge(o)
            /\ IF o = "store" \/ ~holds THEN UNCHANGED dbVars
               ELSE IF r.armed THEN LeaveArmed(r, "expired") ELSE ExpireRow(r.id)
            /\ IF o = "ok"
               THEN group' = group \ {r} /\ UNCHANGED << pc, scanVars, planEvent, ops, sendVars >>
               ELSE Abort
    /\ UNCHANGED << settings, now, lastDigest, corrVars, tellVars, ghostVars >>

RetireDone ==
    /\ pc = "retire" /\ group = {}
    /\ pc' = "plan" /\ planEvent' = NoTime
    /\ UNCHANGED << settings, now, dbVars, lastDigest, scanVars, group, ops, sendVars, corrVars,
                    tellVars, ghostVars, boundVars >>

(* The retries join the queue last: what the re-plan wrote comes first.    *)
PlanDone ==
    /\ pc = "plan" /\ stale = {}
    /\ pc' = "flush"
    /\ queue' = Enqueue(queue, retry)
    /\ retry' = {} /\ settled' = {}
    /\ UNCHANGED << settings, now, dbVars, lastDigest, due, stale, planVars, sendVars, corrVars,
                    tellVars, ghostVars, boundVars >>

----------------------------------------------------------------------------
(* The flush: one message per unit, then its rows surfaced one by one.     *)

Flush ==
    /\ pc = "flush"
    /\ pc' = "send"
    /\ outbox' = queue
    /\ queue' = {} /\ settled' = {}
    /\ UNCHANGED << settings, now, dbVars, lastDigest, due, stale, retry, planVars, message,
                    failed, corrVars, tellVars, ghostVars, boundVars >>

Told(count, rows) == [i \in Ids |-> IF i \in IdsOf(rows) THEN count[i] + 1 ELSE count[i]]

(* deliver: with nowhere to speak nothing is sent.  A send may fail before *)
(* or after the message was carried; either way the rows stay unsurfaced.  *)
(* If the failure cannot be logged the flush ends there (lost).            *)
(* Mutant: a failed send's rows are surfaced all the same.                 *)
BugUnsent(rows, lost) ==
    /\ pc' = "mark" /\ message' = rows
    /\ outbox' = outbox \ rows
    /\ UNCHANGED << failed, acked >>

Unsent(rows, lost) ==
    /\ outbox' = IF lost THEN {} ELSE outbox \ rows
    /\ failed' = (failed \/ lost)
    /\ UNCHANGED << pc, message, acked >>

(* pushQueue.groups: one message per unit, in the order of first appearance. *)
Send ==
    /\ pc = "send"
    /\ \E r \in outbox :
        LET rows == OfUnit(outbox, r.body.unit)
        IN  /\ Foremost(r, outbox)
            /\ \/ /\ ~CanDeliver
                  /\ \E lost \in {FALSE, HasChannel} :
                        Unsent(rows, lost) /\ Charge(IF lost THEN "log" ELSE "ok")
                  /\ UNCHANGED sends
               \/ /\ CanDeliver /\ Charge("ok")
                  /\ pc' = "mark" /\ message' = rows /\ outbox' = outbox \ rows
                  /\ sends' = Told(sends, rows) /\ acked' = Told(acked, rows)
                  /\ UNCHANGED failed
               \/ /\ CanDeliver /\ Charge("store")
                  /\ \E lost \in BOOLEAN : Unsent(rows, lost)
                  /\ sends' \in {sends, Told(sends, rows)}
    /\ UNCHANGED << settings, now, dbVars, lastDigest, scanVars, planVars, corrVars, unmarked,
                    cut, ghostVars >>

(* Surface, then its log row, of each row of the message in (fire_at, id)  *)
(* order.  A failed Surface is remembered for the life of the process and  *)
(* the loop goes on; a failed log row returns from deliver at once, and    *)
(* the rows after it are neither surfaced nor remembered.                  *)
Mark ==
    /\ pc = "mark"
    /\ \E r \in message, o \in Outcomes :
        LET rest == message \ {r}
        IN  /\ \A s \in rest : Before(r, s)
            /\ Charge(o)
            /\ surfaced' = IF o # "store" /\ Unsurfaced(r.id)
                           THEN [surfaced EXCEPT ![r.id] = TRUE] ELSE surfaced
            /\ unmarked' = IF o = "store" THEN unmarked \cup {r.id} ELSE unmarked
            /\ cut' = IF o = "log" THEN cut \cup IdsOf(rest) ELSE cut
            /\ message' = IF o = "log" THEN {} ELSE rest
            /\ outbox' = IF o = "ok" THEN outbox ELSE {}
            /\ failed' = (failed \/ o # "ok")
    /\ UNCHANGED << settings, now, event, status, firedAt, body, lastDigest, pc, scanVars,
                    planVars, corrVars, sends, acked, ghostVars >>

MarkDone ==
    /\ pc = "mark" /\ message = {}
    /\ pc' = "send"
    /\ UNCHANGED << settings, now, dbVars, lastDigest, scanVars, planVars, sendVars,
                    corrVars, tellVars, ghostVars, boundVars >>

(* A pass that failed returns; another goes on to the digest, whose first  *)
(* business is the undelivered rows whose event has passed.                *)
(* splitPast's past.  Mutant: the lapse of the superseded instead.         *)
BugPast ==
    {r \in Undelivered : Judge(r.body, TRUE, CurrentOf(r.body, TRUE)) = Lapse("superseded")}

Past ==
    {r \in Undelivered : Judge(r.body, TRUE, CurrentOf(r.body, TRUE)) = Lapse("passed")}

SendDone ==
    /\ pc = "send" /\ outbox = {}
    /\ LET sweeps == ~failed /\ HasChannel /\ DigestDue(QuietEnd, lastDigest, now)
       IN  \/ sweeps /\ Charge("ok") /\ pc' = "sweep" /\ group' = Past
           \/ sweeps /\ Charge("store") /\ pc' = "idle" /\ UNCHANGED group
           \/ ~sweeps /\ Charge("ok") /\ pc' = "idle" /\ UNCHANGED group
    /\ UNCHANGED << settings, now, dbVars, lastDigest, scanVars, planEvent, ops, sendVars,
                    corrVars, tellVars, ghostVars >>

(* The digest that follows is sent, or has nothing to say, or fails.       *)
SweepDone ==
    /\ pc = "sweep" /\ group = {}
    /\ pc' = "idle"
    /\ lastDigest' \in {lastDigest} \cup (IF CanDeliver THEN {now} ELSE {})
    /\ UNCHANGED << settings, now, dbVars, scanVars, planVars, sendVars, corrVars, tellVars,
                    ghostVars, boundVars >>

----------------------------------------------------------------------------
(* A correction that moves an event: the unit is written, then its armed   *)
(* reminders follow, each write on its own.                                *)

CorrectUnit ==
    /\ cpc = "idle" /\ corrections < MaxCorrections
    /\ \E u \in Units \ Series, at \in EventChoices :
        /\ at # event[u]
        /\ event' = [event EXCEPT ![u] = at]
        /\ cpc' = "follow" /\ cunit' = u
        /\ dropped' = dropped \ {u}
        /\ raced' = IF Holds(u) THEN raced \cup {u} ELSE raced \ {u}
    /\ corrections' = corrections + 1
    /\ UNCHANGED << settings, now, status, surfaced, firedAt, body, lastDigest, pc, scanVars,
                    planVars, sendVars, cops, tellVars, refused, crashes, faults >>

FollowedTo(f) ==
    /\ cops' = OpsOf(f)
    /\ refused' = [refused EXCEPT ![cunit] = IF f.plans # << >> THEN NoTime ELSE event[cunit]]

FollowReminder ==
    /\ cpc = "follow"
    /\ LET live == LiveSet(ArmedForUnit(cunit))
           at   == event[cunit]
       IN  FollowedTo(IF cunit \in RemindMe
                      THEN FollowAsked(at, TRUE, IsDateOnly(at), live, {}, now, now)
                      ELSE Follow(at, live, now))
    /\ cpc' = "apply"
    /\ UNCHANGED << settings, now, dbVars, lastDigest, pc, scanVars, planVars, sendVars, cunit,
                    tellVars, raced, dropped, boundVars >>

CorrectReminder ==
    /\ cpc = "apply" /\ cops # << >>
    /\ LET op == Head(cops)
       IN  \E o \in {"ok", "store"} :
            /\ Charge(o)
            /\ IF o = "ok" /\ ~Same(op) /\ ~Conflicts(op)
               THEN Apply(op, cunit) ELSE UNCHANGED dbVars
            /\ IF o = "ok" /\ (Same(op) \/ ~Conflicts(op))
               THEN cops' = Tail(cops) /\ UNCHANGED << cpc, dropped >>
               ELSE cops' = << >> /\ cpc' = "idle" /\ dropped' = dropped \cup {cunit}
    /\ UNCHANGED << settings, now, lastDigest, pc, scanVars, planVars, sendVars, cunit, tellVars,
                    raced, refused >>

CorrectDone ==
    /\ cpc = "apply" /\ cops = << >>
    /\ cpc' = "idle"
    /\ UNCHANGED << settings, now, dbVars, lastDigest, pc, scanVars, planVars, sendVars, cunit,
                    cops, tellVars, ghostVars, boundVars >>

----------------------------------------------------------------------------
Tick ==
    /\ pc = "idle" /\ cpc = "idle" /\ now < Horizon
    /\ now' = now + 1
    /\ UNCHANGED << settings, dbVars, lastDigest, pc, scanVars, planVars, sendVars, corrVars,
                    tellVars, ghostVars, boundVars >>

(* The process dies: the vault stays, everything else is forgotten.        *)
Crash ==
    /\ crashes < MaxCrashes
    /\ pc # "idle" \/ cpc # "idle" \/ unmarked # {}
    /\ crashes' = crashes + 1
    /\ pc' = "idle" /\ cpc' = "idle" /\ cops' = << >>
    /\ ClearWork
    /\ queue' = {} /\ outbox' = {} /\ message' = {} /\ failed' = FALSE
    /\ unmarked' = {} /\ cut' = {} /\ acked' = [i \in Ids |-> 0]
    /\ dropped' = IF cpc = "idle" THEN dropped ELSE dropped \cup {cunit}
    /\ UNCHANGED << settings, now, dbVars, lastDigest, cunit, sends, raced, refused,
                    corrections, faults >>

PassStep ==
    \/ BeginPass \/ JudgeDue \/ WriteVerdict \/ ScanDone
    \/ Sift \/ SiftDone \/ ReadUnit \/ DecidePlan \/ ApplyPlan \/ ApplyDone
    \/ Retire \/ RetireDone \/ PlanDone
    \/ Flush \/ Send \/ Mark \/ MarkDone \/ SendDone \/ SweepDone

CorrectionStep == CorrectUnit \/ FollowReminder \/ CorrectReminder \/ CorrectDone

Next == PassStep \/ CorrectionStep \/ Tick \/ Crash

Spec == Init /\ [][Next]_vars

(* The scheduler starts a pass every interval and a started one runs on; a *)
(* step of the pass is always possible, so its weak fairness is that it    *)
(* moves again and again.  A started correction runs on too.  Time passes  *)
(* whatever the pass does: strong fairness stands for that, the clock here *)
(* moving between passes only.                                             *)
passVars == << pc, scanVars, planVars, sendVars >>

FairSpec ==
    /\ Spec
    /\ []<><< passVars' # passVars >>_vars
    /\ []<>(cpc = "idle") \/ []<><< corrVars' # corrVars >>_vars
    /\ SF_vars(Tick)

----------------------------------------------------------------------------
(* Types: the table's columns and the sets the pass keeps.                 *)
Rows == [id : Ids, armed : BOOLEAN,
         body : [unit : Units, fireAt : Int, about : Times, lead : Int, leads : SUBSET Int,
                 asked : BOOLEAN, dayOnly : BOOLEAN, nightExempt : BOOLEAN, rule : BOOLEAN,
                 key : {NoKey} \cup (Int \X Nat)]]

TypeOK ==
    /\ status \in [Ids -> {"none", "armed", "fired", "expired"}]
    /\ surfaced \in [Ids -> BOOLEAN]
    /\ firedAt \in [Ids -> Times]
    /\ \A i \in Ids : Row(i) \in Rows
    /\ event \in [Units -> Times]
    /\ pc \in {"idle", "scan", "fire", "expire", "sift", "plan", "read", "apply", "retire",
               "flush", "send", "mark", "sweep"}
    /\ cpc \in {"idle", "follow", "apply"}
    /\ due \cup stale \cup queue \cup retry \cup group \cup outbox \cup message \subseteq Rows
    /\ settled \cup unmarked \cup cut \subseteq Ids

(* Surface comes after Send and nowhere else: a row recorded as having     *)
(* reached the user was carried to them at least once, through failures,   *)
(* retries, aborted passes and crashes.                                    *)
SurfacedWasSent == \A i \in Ids : surfaced[i] => sends[i] > 0

(* A process sends a reminder it knows was carried once only: what was     *)
(* surfaced leaves Undelivered, and what could not be surfaced is          *)
(* remembered.  The rows after a failed log row are the exception.         *)
ToldOncePerProcess == \A i \in Ids : acked[i] <= 1 \/ i \in cut

(* Every interleaving of pass, correction, failure and crash writes the    *)
(* table only as TriggerRepo promises: a row leaves armed once, no failure *)
(* or stale snapshot revives it, a row the user saw never lapses, and a    *)
(* row that expired unfired carries no fired_at (I15).                     *)
Lifecycle == INSTANCE TriggerLifecycle WITH Moments <- Start .. Horizon
KeepsTheLifecycle == Lifecycle!LSpec

(* I17: a recurring reminder always has exactly one armed row to ring next. *)
SeriesAlive ==
    \A u \in Series : Cardinality({i \in Ids : status[i] = "armed" /\ body[i].unit = u}) = 1

(* ADR-0032: an event is owed a catch-up only while nothing about it has   *)
(* reached the user.  Whatever fails in between, no catch-up of an event   *)
(* takes another's id, and no two are both recorded as delivered while the *)
(* event was moved once at most: moved away and back during a pass, the    *)
(* catch-up it was moved away from is delivered beside the next one.  That *)
(* is within the failures a run allows: after three, a catch-up never      *)
(* retired is carried to the morning by a re-plan in the night, whose      *)
(* Onto asks only what is live, though another was delivered.              *)
CatchUps(u, at) ==
    {i \in Ids : /\ status[i] # "none" /\ body[i].unit = u
                 /\ body[i].key # NoKey /\ body[i].key[1] = at}

OwnIds(u, at) == \A i, j \in CatchUps(u, at) : body[i].key = body[j].key => i = j

OneCatchUp ==
    \A u \in Units : \A at \in EventChoices \cup {EventAt0[u]} :
        /\ OwnIds(u, at)
        /\ corrections <= 1 => \A i, j \in CatchUps(u, at) :
              surfaced[i] /\ surfaced[j] /\ body[i].about = at /\ body[j].about = at => i = j

(* ADR-0032: the re-plan is written before the rows it replaces are        *)
(* retired, so no crash or failure between the two forgets an event: while *)
(* it is ahead, something is armed or waiting for it, or it was spoken of, *)
(* or a plan found no moment left for it.  Two cases are set apart: a      *)
(* correction that stopped part way, and one that moved the event while a  *)
(* pass held rows of it, which CorrectionIsKept is about.                  *)
Forgotten(u, excused) ==
    /\ now < event[u]
    /\ refused[u] # event[u] /\ u \notin excused
    /\ ~\E i \in Ids :
            /\ body[i].unit = u
            /\ \/ status[i] = "armed" /\ (body[i].about = event[u] \/ body[i].fireAt < event[u])
               \/ Unsurfaced(i)
               \/ surfaced[i] /\ body[i].about = event[u]

NeverForgotten ==
    cpc = "idle" => \A u \in Units \ Series : ~Forgotten(u, dropped \cup raced)

(* I29: a correction that ran to its end leaves the event its reminders,   *)
(* whatever pass it met.  The code breaks it: retire expires by id a row   *)
(* that the correction has just moved to the new instant.                  *)
CorrectionIsKept ==
    pc = "idle" /\ cpc = "idle" => \A u \in Units \ Series : ~Forgotten(u, dropped)

----------------------------------------------------------------------------
(* No reminder waits for ever: one that fired reaches the user or lapses   *)
(* once its event has passed, and one that is due fires, expires, or is    *)
(* moved to a later instant.                                               *)
DueRow(i) == status[i] = "armed" /\ body[i].fireAt <= now
RemindersAreSettled ==
    \A i \in Ids : /\ Unsurfaced(i) ~> ~Unsurfaced(i)
                   /\ DueRow(i) ~> ~DueRow(i)

============================================================================
