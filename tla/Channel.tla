------------------------------ MODULE Channel ------------------------------
(***************************************************************************)
(* The chat's transport: Telegram's server, the channel that polls it and  *)
(* the runner that hands each message on (src/internal/channels).  The     *)
(* handling of a message is one step here, that succeeds or fails; Chat    *)
(* takes it apart and implements this specification.                       *)
(***************************************************************************)
EXTENDS Integers, Sequences, FiniteSets

CONSTANTS NumUpdates,  \* updates sent to the bot
          Kinds,       \* what an update may be
          Window,      \* how many handled ids the runner remembers
          MaxFaults,   \* failed calls
          MaxCrashes   \* restarts

ASSUME ChannelAssumption ==
    /\ NumUpdates \in Nat
    /\ Kinds \subseteq {"text", "voice", "command", "other"}
    /\ Window \in Nat \ {0}
    /\ MaxFaults \in Nat
    /\ MaxCrashes \in Nat

(* The ids Telegram gives, in the order sent. *)
Updates == 1 .. NumUpdates

VARIABLES kind,      \* what was sent under each id, "none" until it is
          gone,      \* the server has dropped the updates below this one
          seen,      \* Channel.seen
          held,      \* Channel.unconfirmed
          answered,  \* Channel.answered
          inbox,     \* updates of the current poll not looked at yet; Telegram
                     \* sends them, and the loops take them, in ascending order
          batch,     \* admitted messages not yet handled
          marked,    \* the runner's dedupRing, oldest first
          run,       \* where the runner is
          settled,   \* ghost: how each update ended
          again,     \* ghost: how often this process handled each update
          failed,    \* ghost: handlings of each update that failed
          faults, crashes

chVars == <<kind, gone, seen, held, answered, inbox, batch, marked, run,
            settled, again, failed, faults, crashes>>

Runs == {"poll", "sort", "next", "handle", "done", "stopped"}

Smallest(S) == CHOOSE u \in S : \A v \in S : u <= v

(* The updates the server still has. *)
Pending(from) == {u \in Updates : u >= from /\ kind[u] # "none"}

ChannelInit ==
    /\ kind = [u \in Updates |-> "none"]
    /\ gone = 0
    /\ seen = 0 /\ held = {} /\ answered = {}
    /\ inbox = {} /\ batch = {} /\ marked = <<>>
    /\ run = "poll"
    /\ settled = [u \in Updates |-> "no"]
    /\ again = [u \in Updates |-> 0]
    /\ failed = [u \in Updates |-> 0]
    /\ faults = 0 /\ crashes = 0

Fault == faults < MaxFaults /\ faults' = faults + 1

---------------------------------------------------------------------------

(* Somebody writes to the bot. *)
UserSends ==
    /\ \E u \in Updates, k \in Kinds :
        /\ kind[u] = "none"
        /\ \A v \in Updates : v < u => kind[v] # "none"
        /\ kind' = [kind EXCEPT ![u] = k]
    /\ UNCHANGED <<gone, seen, held, answered, inbox, batch, marked, run,
                   settled, again, failed, faults, crashes>>

(* Where the next poll reads from: the oldest message not confirmed, else  *)
(* past everything seen.                                                   *)
BugNextOffset == IF seen = 0 THEN 0 ELSE seen + 1
NextOffset ==
    IF held # {} THEN Smallest(held) ELSE IF seen = 0 THEN 0 ELSE seen + 1

ForgetAnsweredBelow(offset) == answered' = {u \in answered : u >= offset}

(* The server drops what lies below the offset it is asked from. *)
Confirmed(offset) == IF offset > gone THEN offset ELSE gone

(* One getUpdates.  A call that fails may have reached the server. *)
Poll ==
    /\ run = "poll"
    /\ ForgetAnsweredBelow(NextOffset)
    /\ \/ /\ gone' = Confirmed(NextOffset)
          /\ inbox' = Pending(Confirmed(NextOffset))
          /\ run' = "sort"
          /\ UNCHANGED faults
       \/ /\ Fault
          /\ gone' \in {gone, Confirmed(NextOffset)}
          /\ run' \in {"poll", "stopped"}
          /\ UNCHANGED inbox
    /\ batch' = {}
    /\ UNCHANGED <<kind, seen, held, marked, settled, again, failed, crashes>>

Observe(u) == seen' = IF u > seen THEN u ELSE seen

(* A command, or a note that could not be heard: answered here, once. *)
AnswerHere(u) ==
    /\ answered' = answered \union {u}
    /\ settled' = [settled EXCEPT ![u] = IF @ = "no" THEN "answered" ELSE @]

Hold(u) ==
    /\ held' = held \union {u}
    /\ batch' = batch \union {u}

(* An edit, a join, or a chat outside the allow-list. *)
Ignored(u) ==
    /\ kind[u] = "other"
    /\ settled' = [settled EXCEPT ![u] = "ignored"]
    /\ UNCHANGED <<held, answered, batch>>

AnsweredHere(u) ==
    /\ kind[u] \in {"command", "voice"}
    /\ IF u \in answered THEN UNCHANGED <<answered, settled>>
                         ELSE AnswerHere(u)
    /\ UNCHANGED <<held, batch>>

(* A text, or a note that was heard and not answered before. *)
Admitted(u) ==
    /\ \/ kind[u] = "text"
       \/ kind[u] = "voice" /\ u \notin answered
    /\ Hold(u)
    /\ UNCHANGED <<answered, settled>>

(* Receive's loop over one update. *)
Admit ==
    /\ run = "sort" /\ inbox # {}
    /\ LET u == Smallest(inbox) IN
        /\ Observe(u)
        /\ inbox' = inbox \ {u}
        /\ Ignored(u) \/ AnsweredHere(u) \/ Admitted(u)
    /\ UNCHANGED <<kind, gone, marked, run, again, failed, faults, crashes>>

Sorted ==
    /\ run = "sort" /\ inbox = {}
    /\ run' = "next"
    /\ UNCHANGED <<kind, gone, seen, held, answered, inbox, batch, marked,
                   settled, again, failed, faults, crashes>>

(* The message at the head of the batch. *)
Msg == Smallest(batch)

InRing(u) == \E i \in DOMAIN marked : marked[i] = u

BugMark(u) == UNCHANGED marked
Mark(u) ==
    marked' = IF InRing(u) THEN marked
              ELSE LET full == Append(marked, u)
                   IN IF Len(full) > Window THEN Tail(full) ELSE full

(* handleBatch: skip what was handled, hand on the rest, stop at the end. *)
TakeMessage ==
    /\ run = "next"
    /\ \/ /\ batch = {} /\ run' = "poll" /\ UNCHANGED batch
       \/ /\ batch # {} /\ InRing(Msg)
          /\ batch' = batch \ {Msg} /\ UNCHANGED run
       \/ /\ batch # {} /\ ~InRing(Msg)
          /\ run' = "handle" /\ UNCHANGED batch
    /\ UNCHANGED <<kind, gone, seen, held, answered, inbox, marked,
                   settled, again, failed, faults, crashes>>

(* A handler's error breaks the batch; nothing of it is confirmed. *)
BreakBatch(u) ==
    /\ failed' = [failed EXCEPT ![u] = @ + 1]
    /\ run' = "poll"
    /\ batch' = {}
    /\ UNCHANGED <<kind, gone, seen, held, answered, inbox, marked, settled,
                   again, crashes>>

Handled ==
    /\ run = "handle" /\ run' = "done"
    /\ UNCHANGED <<kind, gone, seen, held, answered, inbox, batch, marked,
                   settled, again, failed, faults, crashes>>

HandleFails ==
    /\ run = "handle"
    /\ Fault /\ BreakBatch(Msg)

(* A call that fails inside the handling and is got over. *)
HandleGoesOn ==
    /\ run = "handle" /\ Fault
    /\ UNCHANGED <<kind, gone, seen, held, answered, inbox, batch, marked, run,
                   settled, again, failed, crashes>>

(* Handled: marked, then confirmed.  Telegram's Confirm only forgets what  *)
(* it holds, but the port allows it to fail.                               *)
BugRelease(u) == {}
Release(u) == {v \in held : v > u}

Confirm ==
    /\ run = "done"
    /\ LET u == Msg IN
        /\ Mark(u)
        /\ settled' = [settled EXCEPT ![u] = "handled"]
        /\ again' = [again EXCEPT ![u] = @ + 1]
        /\ \/ /\ held' = Release(u)
              /\ batch' = batch \ {Msg} /\ run' = "next"
              /\ UNCHANGED faults
           \/ /\ Fault
              /\ batch' = {} /\ run' = "poll"
              /\ UNCHANGED held
    /\ UNCHANGED <<kind, gone, seen, answered, inbox, failed, crashes>>

(* The process dies and comes back: all it knew was in memory. *)
ChannelRestart ==
    /\ crashes < MaxCrashes /\ crashes' = crashes + 1
    /\ seen' = 0 /\ held' = {} /\ answered' = {}
    /\ inbox' = {} /\ batch' = {} /\ marked' = <<>>
    /\ run' = "poll"
    /\ again' = [u \in Updates |-> 0]
    /\ UNCHANGED <<kind, gone, settled, failed, faults>>

RunnerStep == Poll \/ Admit \/ Sorted \/ TakeMessage \/ Confirm

ChannelNext ==
    \/ UserSends \/ RunnerStep
    \/ Handled \/ HandleFails \/ HandleGoesOn
    \/ ChannelRestart

ChannelSpec == ChannelInit /\ [][ChannelNext]_chVars

---------------------------------------------------------------------------

ChannelTypeOK ==
    /\ kind \in [Updates -> Kinds \union {"none"}]
    /\ gone \in 0 .. NumUpdates + 1
    /\ seen \in {0} \union Updates
    /\ held \subseteq Updates
    /\ answered \subseteq Updates
    /\ inbox \subseteq Updates /\ batch \subseteq Updates
    /\ marked \in Seq(Updates) /\ Len(marked) <= Window
    /\ run \in Runs
    /\ settled \in [Updates -> {"no", "handled", "answered", "ignored"}]
    /\ again \in [Updates -> Nat] /\ failed \in [Updates -> Nat]
    /\ faults \in 0 .. MaxFaults /\ crashes \in 0 .. MaxCrashes

(* What the server no longer has was dealt with: a message that failed, or *)
(* that a crash interrupted, is still there to be sent again.              *)
NothingIsLost == \A u \in Updates : u < gone => settled[u] # "no"

(* One process handles a message once, however often it is delivered. *)
HandledOnce == \A u \in Updates : again[u] <= 1

===========================================================================
