# Nooma in TLA+

Nooma is a personal memory that runs as one process over one vault, a directory
with a SQLite database. It reads what its user writes (a chat message, a page of
the UI), keeps it as units, connects and weighs them at night, and speaks first
when something is due: a reminder, a timer, a morning digest. This directory
holds TLA+ models of the parts where that is hard to get right, the TLC
configurations that check them, and TLAPS proofs.

All paths below are relative to the repository (`src/` is its root).
`PROJECT.json` maps every definition to the lines it translates.

## 1. Inventory

### The parts and their state

| Part | Code | State it keeps | Operations | Module |
|---|---|---|---|---|
| Reminder clock | `internal/core/prospection` (`quiethours`, `staleness`, `reminder`, `digest`, `checkin`) | none | is it night, from when may this be delivered, deliver / defer / lapse, is the digest due | `ReminderClock` |
| Reminder planning | `internal/core/prospection` (`reminders`, `follow`, `catchup`) | none | the rings of an event, what following a moved event changes, the catch-up owed | `ReminderPlan`, `ReminderCases` |
| Trigger store | `internal/store/sqlite/triggerrepo.go` | table `triggers`: status, fire_at, fired_at, surfaced_at, resolution, payload | guarded single-row updates | `TriggerLifecycle` (promise), `ReminderPass` (rows) |
| Due scan | `internal/brain` (`check`, `deliver`, `render`, `reminder_gate`, `reminder_step`) | in memory: the rows sent and not recorded (`unmarked`) | judge, fire, re-plan, retire, send, mark | `ReminderPass` |
| Timers | `internal/brain` (`check`, `timer_ring`, `timers`, `timers_chat`), `timerrepo.go` | table `timers` | set, cancel, fire, send once | `Timers` |
| Morning digest, check-ins, relation questions | `internal/brain` (`digest`, `digest_checkin`, `checkin`, `goal_checkin`) | `check.digest.sent` rows of the log, `asked_at`, re-ask counts, `pending_questions` | sweep, choose, send, mark, answer, put off, confirm, reject | `MorningDigest` |
| Channel | `internal/channels` | the update offset, held and handled ids | poll, admit, hand on, confirm | `Channel` |
| Capture | `internal/brain/capture.go` | units, vectors, relations, triggers, timers, rows of the log | classify, answer, store, embed, relate, name, arm, reply | `Chat` |
| Correction, closing, naming, preferences | `internal/brain` (`correction`, `correction_reminder`, `task_close`, `naming`, `preferences_rearm`) | units, their reminders, the journal, config | edit a field, move the reminders, close, name, re-arm | `UnitEdits` (and `ReminderPass`, for a correction during a scan) |
| Consolidation, relations, learning | `internal/brain` (`consolidate`, `learn`, `relation_curation`), `internal/core/{consolidation,learning}` | `relations`, `relation_thresholds`, `learning_signals`, `consolidation_last_run_at` | strengthen, connect, ask, reweight, learn; confirm, reject, pin, undo | `Relations` |
| Self-model | `internal/brain` (`consolidate` derive, `belief_edit`) | `self_beliefs` | derive, reinforce, shield; edit, claim, retire | `Beliefs` |
| Weights, focus | `internal/core/{weight,focus}`, `internal/brain/focuskeeper.go` | weights, the focus shown last | decay, archive, lift, rank, hold a focus | `Attention` |
| Scheduler, serve, vault lock | `internal/scheduler`, `cmd/nooma/serve.go`, `internal/store/vaultlock` | two one-place slots, a log mutex, timers, an advisory lock | nightly cron, boot catch-up, check every five minutes; acquire, start, signal, join, release | `Serve` |
| Vault, migrations, copies | `internal/store/sqlite` (`open`, `migrate`, `snapshot`), `internal/bundle`, `cmd/nooma/{backup,export,import,init}.go` | files, `PRAGMA user_version` | open, migrate, back up, prune, export, import, init | `Vault` |
| Recall, reading, graph | `internal/core/{recall,graph}`, `internal/reading` | none of their own | rank, read | - |
| Providers, HTTP, UI, CLI | the rest | none of their own | I/O and rendering | - |

### How they meet

The scheduler's three goroutines call Consolidate and Check. Check runs the due
scan, the timers, then the digest, on the same tables the chat (through the
channel's poller) and the UI write. There is no lock inside the brain: the slots
keep two passes of a kind apart, the vault lock keeps two processes apart, and
between a pass and a user's message there are only the preconditions each UPDATE
carries. A pass reads rows, decides on them, and writes one row at a time; most
writes are followed by a row of the decision log; a send lies between two
writes. The repositories share no transaction, so each call may be the last one
that succeeds.

### What is hard

* **A pass against a user.** Rows, units, relations, beliefs and check-ins are
  read, judged and written later; a correction or an answer may come between any
  two calls.
* **Send, then record.** A transport may carry a message and report failure, the
  record may fail after the send, the process may die between them.
* **Replace, then retire.** A lapsed reminder's replacement is written before
  the row it replaces is expired, with a crash possible between.
* **Delivered again.** A message whose handling failed part way is handed on
  again, over what the first attempt left; a restart forgets what was handled.
* **Times.** The night, the staleness window, a lead, the digest's window and
  the day a user was told interact; planning and judging must agree.
* **Counts inside windows.** Questions and check-ins are closed by counting
  digests or mornings in a bounded look at the log.
* **Learning from an answer once.** Verdicts, bars and their history are written
  apart, and a failed pass is repeated.
* **Everyone logs to one writer** that may block, under one mutex, and a
  shutdown waits for the goroutines only so long.
* **No lock between commands.** Backups, exports, imports and openings by two
  binaries meet in the files they name.

`PROJECT.json` lists these as hazards, each at its line with the properties
that would notice it going wrong; three have none, as the code does go wrong
there or accepts it (a pair judged from both sides, strengthening over a newer
relation, a focus published over a newer one: section 3).

## 2. The modules

| Module | Models | Uses | Proofs |
|---|---|---|---|
| `ReminderClock` | quiet hours, verdicts, the digest's and the check-ins' clock | - | |
| `ReminderPlan` | rings, following, catch-ups, as sets of plans | `ReminderClock` | `ReminderProofs` |
| `ReminderCases` | one event, one capture, a running clock: planning against judging | `ReminderPlan` | `ReminderProofs` |
| `TriggerLifecycle` | **abstract**: what the trigger store promises of a row's status, delivery and fired_at | - | |
| `ReminderPass` | the due scan and a correction, call by call, over the triggers table | `ReminderPlan`; implements `TriggerLifecycle` | `ReminderProofs` |
| `Channel` | **abstract** for `Chat`: the transport's server, the poller, the runner; the handling of a message is one step | - | `ChatProofs` |
| `Timers` | the timers' rows, the pass that rings them, the statements of the chat and the page | - | `ChatProofs` |
| `Chat` | the handling of a message taken apart, beside the timers | `Channel` (implements it), `Timers` | `ChatProofs` |
| `MorningDigest` | the digest, answers, curation | `ReminderClock` | `MorningDigestProofs` |
| `UnitEdits` | one unit, its reminders and all who write them | - | `UnitEditsProofs` |
| `Relations` | the relations, their questions, the bars and all who write them | - | `RelationsProofs` |
| `Beliefs` | the self-model, the derive phase and the page | - | `NightProofs` |
| `Attention` | weights, the archive and reweight phases, the held focus | - | `NightProofs` |
| `Serve` | scheduler, log, shutdown, vault lock | - | `ServeProofs` |
| `Vault` | opening, migrating, backup, export, import, init | - | `VaultProofs` |

Each `MC...` module gives the constants of its module's runs.

Definitions whose name begins with `Bug` are wrong on purpose: each is a
plausible slip in the definition that follows it, and `PROJECT.json` says which
property it must break.

**Time** is a number of ticks; in the reminder and digest modules `DayLen` ticks
make a day and the night is from 0 to `QuietEnd`. `ReminderCases` runs on the
code's own figures (24 ticks, night to 7, six hours of staleness); the state
machines run on a shorter day with the same order of instants.

**Between two calls.** In every module one action is one call of the store, the
transport or a model, with its guard, its error path and the pure code around
it; a local variable that lives across two calls is state of the actor (`pc` and
what it read), since anyone may act in between. A failed call does what the code
does with it: stop, skip, remember, or leave open whether a message was carried.
A crash loses every variable that is not a table or a file. Failures, crashes
and what the user does are counted, and the counters bounded by the constants
`Max...`. Ghosts, which no guard reads, are marked so at their declaration.

**ReminderPass.** The rows of the table are functions over `Ids` (`status`,
`surfaced`, `firedAt`, `body`), one per column group. `due` is the slice the
scan goes through, `stale`, `settled`, `queue` and `retry` its accumulators,
`ops` what `reminderSet.apply` has still to write. `pc` goes scan - (fire or
expire) - sift - read - plan - apply - retire - flush - send - mark - sweep. The
correction is a second process (`cpc`, `cops`): the unit, the read of the
reminders, each reminder.

**ReminderPlan** gives the plans of an event as a set: a plan's instant, lead
and told day determine it, and the code's sorting and de-duplication are what
makes the set. No definition recurses, so all of it can be reasoned about.
`ReminderCases` names its instant and its capture apart from `ReminderPass`'s,
so that one module of proofs can extend both.

**MorningDigest.** Check-ins are triggers seen by their question's life (armed,
fired, open, answered, expired), relation questions rows of
`pending_questions`. The pass goes questions - checkins - send - reask - goal -
question - record; answers (`apc`) and curation (`kpc`) are processes of a read
and a write each, so that both may act on what they read before the pass wrote.

**Channel, Timers, Chat.** `Channel` has the server's queue, the channel's
`seen`, `held` and `answered`, the runner's batch and its ring of handled ids.
`Chat` adds what a handling does (`step`, `reading`, `part`, `log`, `owed`):
each write, the row it owes after it, and what a failure of either leaves. What
the model makes of a message may differ when it is delivered again.

**Timers.** `speaks` says whether the pass has a channel and a conversation to
speak in (`check.go:291`): where it has none a timer is fired and nothing is sent,
nor recorded as unsent.

**UnitEdits.** Each operation reads the unit (`job[a].read`), plans, writes its
journal row, the fields, and then the reminders row by row (`move`, `arm`,
`drop`). A date is a number, past up to 0; a reminder keeps the date it is about
and what it says. `torn` is a ghost: two operations overlapped, or one of a
correction, a close or a naming stopped half way, or the row of a change of
preferences was not written.

**Relations.** A relation is kept by its ends; what a pass, a hand (chat or
page) and the learning page hold between calls are `night`, `hand` and `tuner`.
Confidence and strength are steps of a small scale.

**Beliefs.** Belief texts are points of a line, alike when near, which is what
the comparison of two vectors decides.

**Attention.** Scores, weights and strengths are whole numbers of hundredths and
an instant is a day; `Fade` is what so many days divide a weight by (the run
halves it each day); `round` is a computation of the page or the digest, call
by call: the focus it loaded and when, the relations it read, the tasks it chose,
the loads it chose, published later.

**Serve.** A goroutine is where it is in its loop: check, wait, load, take, run,
say (waiting for the log mutex), write, off. Serve's main goroutine is `phase`:
after a signal it says so, drains, joins, may warn of the poller, waits for the
listening goroutine (`reaping`, the `<-errc` of `serve.go:286`), closes.
`listener` is that goroutine, which announces the port before it serves.
`stalled` says that nobody reads what serve writes, on either stream.
Time is cyclic, so behaviours are not cut off by a horizon: `hour` counts round
the day, `age` how long ago a whole pass completed (capped where the catch-up
stops telling apart), `wait` what is left of each timer.

**Vault.** A file is who wrote it and how far it is (none, torn, raw, damaged,
checked); a run is one command, in the steps between which another's files may
be renamed or removed.

## 3. What is checked

Sizes are distinct states; every run ends within five minutes on two workers.

| Run | Question | Size |
|---|---|---|
| `reminder_cases` | do planning and judging agree, for every capture of a day, every event of the next two, every later instant of a 24-hour clock? | 86 thousand |
| `reminder_faults` | an event's reminders and a series through passes, a correction, one failure and one crash, with and without a conversation | 2.9 million |
| `reminder_live` | one event, one lead, a correction, one failure, under fairness | 200 thousand |
| `reminder_raced` | (expects a violation) a correction that ends well, while a pass re-plans the event's rows | - |
| `digest` | an item's or a goal's check-in and a relation question over three mornings, or three questions, answered and curated meanwhile, one failure or crash | 4.6 million |
| `chat` | two messages through channel, runner and capture beside a timer and the page, one failed call, one restart, under fairness | 790 thousand |
| `unit_edits` | two operations on one unit with three reminders, a naming, a change of preferences, one mishap | 1.3 million |
| `relations` | the nightly pass, a hand and the learning page over two units, any call failing once | 5.1 million |
| `beliefs` | one derive phase beside two pages over two topic keys, one failure | 4.0 million |
| `attention` | two tasks and a load: page and digest computing and publishing one focus for two days, or the weights alone for three; one turn of the process | 2.6 million |
| `serve` | boots, nights, failures, stalled streams, shutdowns, a failed listener, crashes, a hand-run pass, under fairness | 220 thousand |
| `vault` | two of the five commands over the same files in two seconds, one failure, one crash | 570 thousand |

`reminder_cases`
: `PlansKeepTheNight` (nothing rings at night unless the user named the
  instant), `PlannedRingIsDelivered` (what is planned is delivered by the scan
  that finds it on time, before the event is over), `NeverSilentlyLost` (once all
  a capture armed has lapsed unsent, the event is owed a catch-up or planned
  again, unless only its night is left; what the user asked for, as long as the
  margin of an at-once reminder is).

`reminder_faults`
: `SurfacedWasSent` (a record of delivery follows a delivery),
  `ToldOncePerProcess` (a process that knows it sent a reminder does not send it
  again, but for the rows behind a failed log row), `OneCatchUp` (two catch-ups of
  an event have different numbers and, with at most one correction, only one is
  delivered), `NeverForgotten` (an event ahead has a reminder armed or waiting,
  or was spoken of, or a plan found no moment for it; two cases are set apart: a
  correction that stopped part way, and one that moved the event while a pass held
  rows of it, which is `reminder_raced`), `SeriesAlive` (a recurring reminder has exactly one armed row).

`reminder_raced`
: `CorrectionIsKept` (a correction that ran to its end leaves the event its
  reminders, whatever pass it met), which TLC must refute, with no failure at
  all: see below.

`reminder_live`
: `RemindersAreSettled` (no row stays due, or fired and undelivered, for ever)
  and `KeepsTheLifecycle` (the table is written only as `TriggerLifecycle`
  allows: a refinement, with the rows' columns mapped by name). The refinement is
  about status, delivery and `fired_at`: a write that moves an armed row's
  instant or what it is about is a stutter of it, and asking and resolving, which
  only check-ins have, are steps of `MorningDigest` and not of its next-state
  relation.

`digest`
: `SaidAsOwed` (one digest a date, a question and a goal asked once, a check-in
  again as often as its cap, plus one per failure or crash), `CheckInsClose` (an
  open check-in of an item has outlived at most MaxCheckinReasks digests of later
  days since it last reached the user, and one more for each failure),
  `QuestionsClose` (with a digest every day a question is expired after
  MaxDigestDeferrals more, and the open pool is bounded by MaxDigestDeferrals + 1),
  `AnswerIsFinal` (no sweep, re-ask or goal write overwrites an answer).

`chat`
: `NothingIsLost` (no update is dropped by the server before it was handled,
  answered or ignored), `NoEffectTwice` (no message takes effect twice within a
  run), `AnsweredIsRecorded` (what a reply stands on is in the vault),
  `RingsOnce` (a timer rings at most once and not after a cancel),
  `UnheardIsRecorded` (where the pass may speak, a timer that fired and did not
  ring has its row, but for one per failed call and one per stop; where it may not,
  nothing is sent and nothing recorded, and nothing is claimed),
  `NothingWaitsForEver`, `ChannelSpec` (the chat implements `Channel`).

`unit_edits`
: `OverwrittenIsRecorded` (every value an edit overwrites is in the journal),
  `LandsRight` (an operation that lands with nobody beside it leaves the
  reminders the unit's date gets, saying what the unit says), `ClosedIsQuiet`
  (a close that lands alone leaves none armed; of one that overlaps another
  operation or stops half way nothing is said), `PrefsAreFollowed` (reminders other than the
  preferences give are a change still pending, or `torn`).

`relations`
: `NoVerdictMovesTwice` (an answer moves its bar once), `PinStands` (nobody but
  the user moves a pinned bar), `AnswersAreHonest` (a relation is deleted only
  after the verdict and, from the page, the log row that say so; a confirming
  verdict stands on a raise that landed; a question is closed only about a
  relation that was raised or deleted).

`beliefs`
: `ShieldHolds` (the pass creates nothing under the key of a belief it read as
  retired, nor anything alike unless that one could not be compared, which is
  then in the log), `EditsKeepThePreImage`, `UserWordStands` (a derivation replaces
  nothing the user stated or retired).

`attention`
: `FocusIsSteady` (a computation drops a member of the focus it loaded only for
  one that beats it by the margin, or equals it). It is said of computations: what
  is published may be older than the focus it replaces, which
  `docs/02-cognitive-core.md:343` accepts. `RisesAreEarned` (a weight rises only by
  a new relation, and by a lift to half the ceiling at most).

`serve`
: `OnePass` (one consolidation writes the vault at a time, in any process),
  `SkippedForARunningPass` (JD-6-01), `KeepsRunning` (both jobs run again and again while somebody reads what serve
  writes), `ShutdownEnds` (a shutdown ends whatever a goroutine of the scheduler is
  stuck in, its log line included; one that does not is found at one of three
  writes nobody reads: serve's own line that it shuts down, its warning about a
  poller, the listener's announcement).

`vault`
: `CopiesAreChecked` (what has a backup's or a bundle's name was verified),
  `OpensAtItsSchema` (a database is handed out at its binary's schema),
  `TargetStands` (no vault is written over).

### Why the bounds are enough

*Reminders.* The event is told on one evening for the next; two leads may be due
in one pass, both may be stale at the next, a first and a second catch-up still
fit before it, and the horizon lies past the event and past the digest that
sweeps what is left. Eight ids (six in the live run) are more than any behaviour
creates. One failure with one crash reaches a failed send followed by a restart
and a failed record; one correction reaches every place of the pass. Two
corrections in one behaviour and two units in one message are beyond the run;
the theorems on the same module have no bounds.

*Digest.* With one re-ask and MaxDigestDeferrals at 1, a check-in is delivered,
put off, asked again and closed, and a question asked and expired, within three
mornings; the windows scale with both constants. `OneCheckIn` lets one life
either push an item or arm a goal, `OneFailure` stops at one failure or crash.
Three questions are one more than may be open; `QuestionsApart` has the second and
the third come only where no check-in does and nothing failed.

*Chat.* Two messages are the least for one to be held while a later one is
answered; a ring of two ids is what one failure can overrun by none and two by
one, which is `NoEffectTwice`'s limit (section 4). Timers are armed beside one
message (`MaxWithTimers`). The process has the channel its messages come through
and one conversation (`Speaking`); the theorems hold where it has none as well.

*Edits.* Two operations and a third actor's rows reach every overlap of two;
three rows are an event's own, its successor and one that fired.

*Relations, Beliefs.* Two units, each early or late, give every order of a pass
and an answer; two keys and three texts give alike, unlike, and between.

*Attention.* Two tasks and a load contend for a focus of one; two days are the
least for a focus to be held over a night. `FocusApart` leaves the third day and
the second relation, which old beside new needs, to behaviours in which nobody
asks for the focus.

*Serve.* A day is one tick, and a pass is stale after a day, as in the code (24
hours); goroutines whose waits have run out move in any order, so a catch-up may
run before, beside and after the cron. Nothing is bounded but the failures; after a signal
calls under the cancelled context fail freely.

*Vault.* Two runs are every pair of commands; the theorems are for any number.

Deadlock is checked in the runs of `ReminderPass` and of `Serve`. The other
runs end, at their horizon or with every operation used up, and say so.

### Fairness

`ReminderPass!FairSpec`: the scheduler starts a pass every interval and a
started pass or correction runs on (each of its calls returns), so the pass
moves again and again; as some step of it is always possible, that is its weak
fairness, written without ENABLED. The clock moves between passes only, hence
strong fairness of `Tick`. Failures are bounded: liveness says nothing of a
store that fails for ever. `Chat!FairSpec`: the runner polls on, a handling runs
on, and the scheduler passes over the timers again, each weakly. `Serve!FairSpec`:
each goroutine runs on, and a pass ends, because provider calls carry deadlines
(I32); the log mutex starves nobody, as Go's does; the main and the listening
goroutine go on wherever they are not blocked; the grace ends; time passes.
Nothing is assumed of whoever reads the streams, of the user who switches
consolidation off, or of the signals.

### Where the code and its documents part

One such sentence is kept as a run that TLC must refute, `reminder_raced`: a
correction between the read of the due rows and `retire` has its moved row
expired, as retire asks only that it is still armed (`reminder_gate.go:141`), and
the event may be left without a reminder. `docs/06-harness.md:291` (I29) has a
moved event keep exactly what a fresh capture would arm. The others were met while
modelling or proving:

* *Reminders.* `deliver` ends its marking loop at the first failed log row, so
  later rows of the message are sent again by the same process (`deliver.go:174`;
  `check.go:417`: "It never resends them"). A remind-me lead longer than the
  staleness window goes stale in the night while the event's own rows count as
  live, so no catch-up is armed (`follow.go:84`; ADR-0032 point 3). With
  `date_only_reminder_at` inside the night and an early `evening_reminder_at`
  (both legal, `prefs.go:96`), an event of tomorrow's small hours whose reminder
  lapsed today is lost: its lead and the reminder of its own day are both moved
  to today's evening, which is behind, and hushed (`reminders.go`). An event
  moved away and back during a pass with a failed log row gets two catch-ups in
  one message. One moved once gets two as well, after a crash and three failures:
  a catch-up late by day and never retired is only deferred in the night, so a
  re-plan for another row of the event counts it as live and carries it to the
  morning, though a second one was delivered meanwhile (`follow.go:72`, which
  unlike `CatchUp` does not ask what was spoken of). TLC finds this from
  `reminder_faults` with one lead of 13 ticks, an event at 25 moved to 30 and
  `MaxFaults` 3, passes beginning at 12, 20, 22, 27 and 29 only; with
  `MaxFaults` 2 that search finds none.
* *Digest.* The sweep counts digests inside MaxDigestDeferrals + 2 days, so
  digests further apart never expire a question (`digest.go:50`; docs 02:398 "The
  count is digests, not elapsed days"). A failed mark or record lets the next
  pass of the morning send a second digest (`SaidAsOwed` counts it).
  MaxDigestDeferrals + 1 questions may be open, one more than `digest.go:773`
  says. A rejection whose second write fails leaves a question no sweep closes,
  since `Open` joins relations (`checkin.go:212` says it does). A retired goal's
  armed check-in is still asked. The page's "pending digest" lists pushes the
  digest deletes (`today.go:159`, `digest.go:108`).
* *Relations.* A pair whose units were both touched since the last pass is
  judged from each side and related in both directions (`consolidate.go:413`),
  where `docs/02-cognitive-core.md:499` says a pair once judged is not judged
  again (423-427 owns that two directions may both exist). Strengthening upserts
  a whole relation from what the pass read, so it may resurrect one rejected
  meanwhile or undo a confirmation's confidence (`consolidate.go:1205`, against
  the comment at 1193); no property covers it. A failure between the upsert and
  the question leaves an uncertain relation never asked; a failed pass repeats
  its strengthening, and one that fails between connecting and reweighting loses
  its new edges.
* *Self-model.* An active belief whose derived key another takes is overwritten
  without a pre-image (by design, rule 5 of the shield). Two proposals alike in
  one pass may both be created. An active belief that cannot be embedded ends
  the phase.
* *Chat.* A message whose handling always fails blocks those behind it; a
  redelivered voice note that is refused pins the cursor; a close that fails part
  way leaves reminders armed although the retry reports nothing to do.
* *Timers.* With no channel, or more than one conversation, a due timer is fired
  and neither sent nor recorded as unsent (`check.go:291`).
* *Focus.* Select sorts by the adjusted score (`focus/select.go:139`) and leaves
  equal ones in the order of the ranking, in which the challenger comes first:
  at exact equality with the margin the incumbent is evicted.
  `hysteresis.go:100` says that it wins ties, `docs/06-harness.md:281` (I19)
  that a challenger must beat it by more than the margin; `FocusIsSteady` leaves
  the tie open. No code writes an energy reading, so the low-energy deferral and
  the carried items are never reached.
* *Serve.* After the join the shutdown waits for the listening goroutine with no
  deadline (`<-errc`, `serve.go:286`), and that goroutine writes its
  announcement (`serve.go:309`) before it serves. With nobody reading the stream
  since boot the database is not closed and the lock not released, although
  `serve.go:260` has the grace bound the whole shutdown: `Stuck` in
  `ShutdownEnds`. While the log is stalled a job with something to log halts
  although it gave its slot back (`proactive.go:59`). A vault without providers
  has no scheduler, so no check runs there (`wiring.go`: "The pass still runs").
  A listener that fails closes the database without joining the scheduler. A
  catch-up may repeat a pass the cron has just completed.
* *Vault.* Pruning may take the configuration of an older run between its two
  renames, and counts an orphan `.yml` as a backup. With two backups in one
  second, one's failing rename removes the other's configuration; a third may
  have its half-written file named by the first. A crash leaves partial files,
  and later exports refuse.

## 4. What is proved

Each theorem holds for every value of the constants that satisfies its module's
named assumption (`PrefsAssumption`, `PassAssumption`, `CasesAssumption`,
`DigestAssumption`, `ChannelAssumption`, `TimersAssumption`, `ChatAssumption`,
`EditsAssumption`, `RelationsAssumption`, `BeliefsAssumption`,
`AttentionAssumption`, `ServeAssumption`, `VaultAssumption` and those of the clock): numbers are
numbers, sets finite where they are counted, an hour lies in its day, a bar's
default between its bounds.

**Reminders** (`ReminderProofs`).
* `KeepsLifecycle`: `Spec => KeepsTheLifecycle`, the refinement: each step maps
  to a step of `TriggerLifecycle` or to none. It needs `Columns`, the types of
  the columns and the clock; each write's guard does the rest, so no planning
  operator is expanded and it holds for any plan.
* `SurfacedSent`: `SentInv` adds that while a message is marked each of its rows
  was sent.
* `TellsOnce` (`ToldOncePerProcess`): a row may be told twice only if it can
  still be sent after it was told. `ToldInv` follows it through the pass: what
  the scan carries (`Acks`, `Pending`, `Left`, `Stages`, `Sifted`) has left
  *armed* and is unsurfaced only in the message or among the unmarked, and a
  queued, retried or outgoing row is fired, untold and held once.
* `NightIsKept`, `RingsAreDelivered`: the two planning properties, from lemmas
  on plans that hold for every clock, night and lead: an item rings no earlier
  than now, before the event ends, outside the night unless it is exempt or
  asked for, and one plan has one instant.
* `NothingIsLostSilently` (`NeverSilentlyLost`), for `RemindMeLead <=
  TriggerStaleness` and `QuietEnd <= DateOnlyAt`, which the defaults satisfy (15
  minutes and 6 hours; 07:00 and 09:00) and legal preferences need not. An event
  with a lead ahead is planned again: the told day never takes the last lead
  (`NearestStays`), it rings unless the night moved it before now
  (`LeadsAheadRing`), and then the event's own day does (`EventIsReplanned`). One
  with every lead behind is owed a catch-up (`BehindIsOwed`). What the user asked
  for at a time was armed no earlier than they named it (`NamedRings`), so it is
  overdue only after the event; asked for on a day, its one at-once reminder is
  owed (`AskedIsOwed`). Without either hypothesis TLC refutes it (section 3).
* `SeriesStayAlive`: `SeriesInv` is `Table` (rows fit their kind, and each
  series has one armed row) with `PassRows` (what the pass read of a row still
  describes it, or the row has left armed) and `PlansSafe` (what it is about to
  write keeps the count).
* `CatchUpsAreApart` (the first half of `OneCatchUp`, over every instant and any
  number of corrections): a new catch-up is numbered past every row the table
  holds for its unit and event (`AttemptIsNew`), and no write changes a row's
  unit or id (`OnlyFourWrite`). `AimInv` is what makes that inductive: a move
  decided earlier, by a pass or a correction, still names a row of its unit and
  writes back the id that row has, though others have written in between.

**Digest** (`MorningDigestProofs`).
* `DigestTypes`, `MarkedCarried` (asked_at and re-ask counts follow a digest that
  arrived; proved only, part of the invariant), `AnswersFinal`: `Types`, with what
  the pass holds in each phase; `Said` (once the digest is out, what it has still
  to mark was carried once more than it is marked); `Reserved` (a chosen goal is
  armed until the pass fires it, then fired until it surfaces it: why its two
  writes hit no answered row).
* `SaidNoMoreThanOwed`: `OwedInv` adds `PassShape` and `Counted`, an account of
  what each failure and crash may have repeated.
* `QuestionsAreClosed`: `CloseInv` ties the age of an open question to the rows
  of the log: with a digest each day the days since it was asked inject into the
  rows in the window, so the count reaches the cap inside it (`Judged`), and the
  questions open at once inject into the days (`Booked`).

**Serve** (`ServeProofs`): `ServeTypes`, `OneConsolidation`, `SkipsAreHonest`,
from `Locked` (serve holds the lock exactly while it is not down), `Held` (a job
is inside its pass exactly while it holds its slot), `Owned` (a slot is held by
a job of its own) and `Unwound` (nothing runs when serve is down).

**Chat** (`ChatProofs`).
* `ChannelLosesNothing`: `CursorInv` says every update below the cursor is
  accounted for: held, answered, in the batch or settled.
* `ChannelHandlesOnce`, `ChatTakesEffectOnce`: the ring of handled ids holds an
  id until `Window` others push it out, which takes as many failed
  confirmations; hence the hypothesis `MaxFaults <= Window`, which is needed:
  with more, an old update is handled again. `ChatTakesEffectOnceConfirmed` drops
  it where a confirmation cannot fail: Telegram's only parses the id it made
  itself (`telegram/channel.go:184`), and its window is 256 (`dedup.go:18`).
* `ChatImplementsChannel`, `ChatImplementsTimers`: each step of the composition
  is a step of each part or leaves it alone; with the first,
  `ChatLosesNothing` follows from the channel's theorem.
* `ChatRingsOnce`, `ChatMissesAreCounted`: `RingInv`, `HeardInv` and `ShownInv`
  (what a prompt listed was a live timer when it was listed). The second is
  `UnheardIsRecorded`, of a process that has a channel and a conversation.
* `ChatRecordsWhatItKept`: `KeptInv` ties the step a handling has reached, over
  every earlier attempt, to the rows in the vault.

**Edits** (`UnitEditsProofs`).
* `EditsLoseNothing`: a field's value in the unit is one the journal holds, or
  the one it had first and an operation about to write it has noted.
* `LandsAsPlanned`, `ClosesQuietly`: `LandInv` follows a lone operation from its
  read to its last row: the unit stands still while it writes the reminders,
  every armed row is moved, dropped or already right, and a row that fires
  meanwhile ends the operation in a conflict. That new rows find a free id is a
  counting argument over the ranks of the kept rows.
* `PreferencesAreFollowed`: the armed reminders agree with the preferences, or
  an operation that read the newer ones is at work, or the change is pending.

**Relations** (`RelationsProofs`): `RelationTypes`; `AnswersStayHonest` from
what each actor holds between its calls (`Honest`); `VerdictsMoveOnce` from
`Spent` (a counted verdict lies before the bar's last move, in every history an
undo can restore); `PinsStand`.

**Beliefs** (`NightProofs`): `RetiredStaysRetired`, `EditsAreRecorded`,
`WordsStand`, from `MissedAreHeard` (a retired belief the pass could not compare
is in the log or about to be, before anything is created) and `EditsAreNoted`.

**Attention** (`NightProofs`).
* `RisesAreGained`: `BoostsAreEarned` says what the pass is about to write lies
  at an end of one of its own relations and within half the ceiling. It rests on
  arithmetic: a walk of two relations gains at most a half and nothing where no
  relation ends (`WalksAreBounded`), and a step towards a target stays below it
  (`StepsTowards`).
* `FocusHoldsStill`: were a dropped incumbent's raised score above a newcomer's,
  whoever is ahead of the first would be ahead of the second, and as many would
  be: the newcomer would not be in (`SelectHolds`). The scores are those of the
  computation's own reads, which a computation keeps once it has them.

**Vault** (`VaultProofs`).
* `VaultsStand`, `OpenedAtItsSchema` (`OpenInv`: a migration under way is below
  its binary's schema).
* `CopiesStayChecked`: `Spec /\ [][Roomy]_vars => []CopiesAreChecked`. With three
  backups in one second, or three exports, the property is false: the second's
  failure takes the first's partial file away and the third begins another,
  which the first then names. `Roomy` excludes that and no more for backups (none
  begins in a second in which two others began and one still runs) and keeps
  exports from overlapping; two exports at once are model-checked. `Pairs` (of
  three backups of a second at most one is under way) makes `Held` inductive: a
  verified file is checked, or was taken by another that cannot create it again.

Only model-checked, and why:

* liveness (`RemindersAreSettled`, `KeepsRunning`, `ShutdownEnds`,
  `NothingWaitsForEver`): the provers reason neither about ENABLED nor about
  fairness at this size;
* the second half of `OneCatchUp` (with one correction, one delivery): false
  with two corrections, or with three failures (section 3), so no theorem for
  every bound; its first half, that their numbers differ, is `CatchUpsAreApart`;
* `NeverForgotten`: false for asked leads longer than the staleness window;
* `CheckInsClose`, over the run's three mornings.

`CorrectionIsKept` is refuted, so there is nothing to prove.

## 5. Not modelled

Providers, HTTP and UI rendering, the command line, the wording and length of
messages and the encoding of rows are I/O or layout. Vector distances and
real-valued scores appear as what they decide (alike or not, hundredths). Recall
and reading keep no state. Left out of the modelled parts: the dry run of
`check`, a unit's own leads and interrupt levels, legacy recurring rows and
carried items (never reached, see above), the cadence learnt from goal
check-ins, the referents of a conversation (`remind_referent.go`), load
hypotheses, daylight saving. `weight.Revive`, `ZoneOf` and the `incomplete`
status have no caller in the code and none here.
