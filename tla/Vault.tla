------------------------------- MODULE Vault -------------------------------
(***************************************************************************)
(* The vault as files: opening its database and bringing its schema        *)
(* forward (src/internal/store/sqlite/open.go, migrate.go), and the        *)
(* commands that make copies of it beside whatever serves it:              *)
(*                                                                         *)
(*   backup   src/cmd/nooma/backup.go, store/sqlite/snapshot.go            *)
(*   export   src/cmd/nooma/export.go, src/internal/bundle/bundle.go       *)
(*   import   src/cmd/nooma/import.go                                      *)
(*   init     src/cmd/nooma/init.go                                        *)
(*                                                                         *)
(* A run is one command, or one opening of the database.  None of them     *)
(* takes a lock: runs meet in the files they name.  A crash leaves every   *)
(* file as it is, and whoever still writes a file writes it wherever       *)
(* others have moved it.                                                   *)
(***************************************************************************)
EXTENDS Integers, FiniteSets

CONSTANTS Runs,       \* runs of a command, each once
          Commands,   \* of "open", "backup", "export", "import", "init"
          Schemas,    \* schema versions the installed binaries know up to
          Seconds,    \* the seconds a backup may be named after
          Keeps,      \* values of --keep, 0 for all
          MaxFaults, MaxCrashes

ASSUME VaultAssumption ==
    /\ Runs \subseteq Nat \ {0}
    /\ Schemas \subseteq Nat \ {0} /\ IsFiniteSet(Schemas)
    /\ Seconds \subseteq Nat \ {0} /\ Seconds # {} /\ Keeps \subseteq Nat
    /\ MaxFaults \in Nat /\ MaxCrashes \in Nat

VARIABLES version,   \* PRAGMA user_version of the vault's database
          fs,        \* the files in the directory of the copies
          target,    \* the directory import and init are to make
          second,    \* the wall clock
          run,       \* what each run is doing
          faults, crashes

vars == <<version, fs, target, second, run, faults, crashes>>

(* A file: who wrote it and how far it is.  A snapshot that was written    *)
(* whole may still be damaged; "checked" is one its verification passed.   *)
NoFile == [st |-> "none", by |-> 0, version |-> 0]
Names == {"db", "yml", "db.partial", "yml.partial"} \X Seconds
            \union {<<"bundle", 0>>, <<"bundle.partial", 0>>}
Bundle == <<"bundle", 0>>
Elsewhere == -1   \* the writer of a bundle brought from elsewhere
Partial == <<"bundle.partial", 0>>
Given == {NoFile} \union [st : {"raw", "torn"}, by : {Elsewhere}, version : Schemas]
There(f) == fs[f] # NoFile
Gone(fsys, fnames) == [f \in Names |-> IF f \in fnames THEN NoFile ELSE fsys[f]]
Moved(a, b) == [fs EXCEPT ![b] = fs[a], ![a] = NoFile]
Marked(r, from, to) ==
    [f \in Names |-> IF fs[f].by = r /\ fs[f].st = from THEN [fs[f] EXCEPT !.st = to] ELSE fs[f]]

Empty == [st |-> "empty", by |-> 0, version |-> 0]
Absent == [st |-> "absent", by |-> 0, version |-> 0]

Off == [cmd |-> "none", pc |-> "off", schema |-> 0, at |-> 0, stamp |-> 0, keep |-> 0,
        seen |-> 0, drop |-> {}]

Init ==
    /\ version \in {0} \union Schemas
    /\ \E given \in Given :
        fs = [f \in Names |-> IF f = Bundle THEN given ELSE NoFile]
    /\ target \in {Absent, Empty}
    /\ second \in Seconds /\ \A s \in Seconds : second <= s
    /\ run = [r \in Runs |-> Off]
    /\ faults = 0 /\ crashes = 0

Steps(r, pc) == run' = [run EXCEPT ![r].pc = pc]
At(r, cmd, pc) == run[r].cmd = cmd /\ run[r].pc = pc
(* Of an ended run only the name it gave is looked at again. *)
Ends(r) == run' = [run EXCEPT ![r] = [Off EXCEPT !.pc = "over", !.stamp = run[r].stamp]]
Fault == faults < MaxFaults /\ faults' = faults + 1
Fine == UNCHANGED <<faults, crashes>>
Files == UNCHANGED <<version, target, second>>

---------------------------------------------------------------------------
(* Opening the database.                                                   *)

(* migrateMigrations reads where the schema is outside any transaction. *)
Compares(r) ==
    \/ /\ version < run[r].schema
       /\ run' = [run EXCEPT ![r].pc = "migrate", ![r].seen = version + 1]
    \/ version = run[r].schema /\ Steps(r, "opened")
    \/ version > run[r].schema /\ Ends(r)      \* VersionError

(* Open connects, again and again while another first connection converts  *)
(* the file.                                                               *)
Connects(r) ==
    /\ At(r, "open", "start")
    /\ \/ Compares(r) /\ Fine
       \/ Fault /\ Ends(r) /\ UNCHANGED crashes
    /\ UNCHANGED <<version, fs, target, second>>

(* applyMigration: one transaction per pending migration, seen is its      *)
(* number; another binary may have come this far, or past it.              *)
BugRefuses(r) == version < run[r].seen - 1
Refuses(r) ==
    \/ version > run[r].schema
    \/ version < run[r].seen - 1

Migrates(r) ==
    /\ At(r, "open", "migrate")
    /\ \/ /\ ~Refuses(r)
          /\ version' = IF version >= run[r].seen THEN version ELSE run[r].seen
          /\ IF run[r].seen = run[r].schema THEN Steps(r, "opened")
             ELSE run' = [run EXCEPT ![r].seen = @ + 1]
          /\ Fine
       \/ /\ Refuses(r) /\ Ends(r) /\ UNCHANGED version /\ Fine
       \/ /\ Fault /\ Ends(r) /\ UNCHANGED <<version, crashes>>
    /\ UNCHANGED <<fs, target, second>>

Closes(r) ==
    /\ At(r, "open", "opened") /\ Ends(r)
    /\ UNCHANGED fs /\ Files /\ Fine

---------------------------------------------------------------------------
(* backup.                                                                 *)

Of(r, kind) == <<kind, run[r].stamp>>

(* Any error before the two renames are done removes the partial files,    *)
(* whoever wrote them.                                                     *)
Discards(r) == fs' = Gone(fs, {Of(r, "db.partial"), Of(r, "yml.partial")})
BackupFails(r) ==
    /\ run[r].cmd = "backup"
    /\ run[r].pc \in {"snapshot", "write", "verify", "copy", "yml"}
    /\ Fault /\ Discards(r) /\ Ends(r)
    /\ Files /\ UNCHANGED crashes

(* The names are looked for before anything is written.  *)
BackupLooks(r) ==
    /\ At(r, "backup", "start")
    /\ IF There(Of(r, "db")) \/ There(Of(r, "yml")) THEN Ends(r) ELSE Steps(r, "snapshot")
    /\ UNCHANGED fs /\ Files /\ Fine

(* VACUUM INTO refuses a file that exists. *)
BackupCreates(r) ==
    /\ At(r, "backup", "snapshot")
    /\ IF There(Of(r, "db.partial")) THEN Discards(r) /\ Ends(r)
       ELSE /\ fs' = [fs EXCEPT ![Of(r, "db.partial")] =
                        [st |-> "torn", by |-> r, version |-> 0]]
            /\ Steps(r, "write")
    /\ Files /\ Fine

(* It is written through, to the end or to a damaged end. *)
BackupWrites(r) ==
    /\ At(r, "backup", "write")
    /\ \/ fs' = Marked(r, "torn", "raw") /\ Fine
       \/ fs' = Marked(r, "torn", "damaged") /\ Fault /\ UNCHANGED crashes
    /\ Steps(r, "verify") /\ Files

BugBackupVerifies(r) ==
    /\ At(r, "backup", "verify")
    /\ IF There(Of(r, "db.partial")) THEN UNCHANGED fs /\ Steps(r, "copy")
       ELSE Discards(r) /\ Ends(r)
    /\ Files /\ Fine
BackupVerifies(r) ==
    /\ At(r, "backup", "verify")
    /\ LET f == Of(r, "db.partial") IN
       IF fs[f].st \in {"raw", "checked"}
       THEN fs' = [fs EXCEPT ![f].st = "checked"] /\ Steps(r, "copy")
       ELSE Discards(r) /\ Ends(r)
    /\ Files /\ Fine

BackupCopies(r) ==
    /\ At(r, "backup", "copy")
    /\ fs' = [fs EXCEPT ![Of(r, "yml.partial")] = [st |-> "checked", by |-> r, version |-> 0]]
    /\ Steps(r, "yml") /\ Files /\ Fine

BackupNamesConfig(r) ==
    /\ At(r, "backup", "yml")
    /\ IF There(Of(r, "yml.partial"))
       THEN fs' = Moved(Of(r, "yml.partial"), Of(r, "yml")) /\ Steps(r, "db")
       ELSE Discards(r) /\ Ends(r)
    /\ Files /\ Fine

(* The database last; without it the configuration goes again. *)
BackupNamesDb(r) ==
    /\ At(r, "backup", "db")
    /\ \/ /\ There(Of(r, "db.partial")) /\ Fine
          /\ fs' = Moved(Of(r, "db.partial"), Of(r, "db"))
          /\ IF run[r].keep > 0 THEN Steps(r, "list") ELSE Ends(r)
       \/ /\ \/ ~There(Of(r, "db.partial")) /\ UNCHANGED faults
             \/ Fault
          /\ fs' = Gone(fs, {Of(r, k) : k \in {"yml", "db.partial", "yml.partial"}})
          /\ Ends(r) /\ UNCHANGED crashes
    /\ Files

(* pruneBackups counts a backup by either of its names. *)
Stamps == {s \in Seconds : There(<<"db", s>>) \/ There(<<"yml", s>>)}
Beyond(keep) == {s \in Stamps : Cardinality({t \in Stamps : t > s}) >= keep}
BackupLists(r) ==
    /\ At(r, "backup", "list")
    /\ \/ run' = [run EXCEPT ![r].pc = "prune", ![r].drop = {"db", "yml"} \X Beyond(run[r].keep)]
          /\ Fine
       \/ Fault /\ Ends(r) /\ UNCHANGED crashes
    /\ UNCHANGED fs /\ Files

(* Newest first, of each the database first; a name that cannot be removed *)
(* does not keep the others.                                               *)
First(drop) == {f \in drop : \A g \in drop : g[2] <= f[2] /\ (g[2] = f[2] => f[1] = "db" \/ g = f)}
BackupPrunes(r) ==
    /\ At(r, "backup", "prune")
    /\ \/ /\ run[r].drop = {} /\ Ends(r) /\ UNCHANGED fs /\ Fine
       \/ \E f \in First(run[r].drop) :
            /\ run' = [run EXCEPT ![r].drop = @ \ {f}]
            /\ \/ fs' = Gone(fs, {f}) /\ Fine
               \/ Fault /\ UNCHANGED <<fs, crashes>>
    /\ Files

---------------------------------------------------------------------------
(* export.                                                                 *)

ExportFails(r) ==
    /\ run[r].cmd = "export"
    /\ run[r].pc \in {"snapshot", "create", "write", "verify", "name"}
    /\ Fault /\ fs' = Gone(fs, {Partial}) /\ Ends(r)
    /\ Files /\ UNCHANGED crashes

ExportLooks(r) ==
    /\ At(r, "export", "start")
    /\ IF There(Bundle) \/ There(Partial) THEN Ends(r) ELSE Steps(r, "snapshot")
    /\ UNCHANGED fs /\ Files /\ Fine

(* The snapshot is the run's own, and verified before it is packed. *)
ExportSnapshots(r) ==
    /\ At(r, "export", "snapshot")
    /\ run' = [run EXCEPT ![r].pc = "create", ![r].seen = version]
    /\ UNCHANGED fs /\ Files /\ Fine

(* The partial file is created only where there is none. *)
ExportCreates(r) ==
    /\ At(r, "export", "create")
    /\ IF There(Partial) THEN fs' = Gone(fs, {Partial}) /\ Ends(r)
       ELSE /\ fs' = [fs EXCEPT ![Partial] = [st |-> "torn", by |-> r, version |-> run[r].seen]]
            /\ Steps(r, "write")
    /\ Files /\ Fine

ExportWrites(r) ==
    /\ At(r, "export", "write")
    /\ \/ fs' = Marked(r, "torn", "raw") /\ Fine
       \/ fs' = Marked(r, "torn", "damaged") /\ Fault /\ UNCHANGED crashes
    /\ Steps(r, "verify") /\ Files

(* It is read again, and must hold what was written. *)
ReadsWell(r) == fs[Partial].st = "raw" /\ fs[Partial].by = r
ExportVerifies(r) ==
    /\ At(r, "export", "verify")
    /\ IF ReadsWell(r)
       THEN /\ fs' = [fs EXCEPT ![Partial].st = IF @ = "raw" THEN "checked" ELSE @]
            /\ Steps(r, "name")
       ELSE fs' = Gone(fs, {Partial}) /\ Ends(r)
    /\ Files /\ Fine

ExportNames(r) ==
    /\ At(r, "export", "name")
    /\ fs' = IF There(Partial) THEN Moved(Partial, Bundle) ELSE fs
    /\ Ends(r) /\ Files /\ Fine

---------------------------------------------------------------------------
(* import and init.                                                        *)

NotYet == target.st # "vault"
Stays == UNCHANGED <<version, fs, second>>
MakesNothing(r) == Ends(r) /\ UNCHANGED target

(* Each looks first for a target that is not there, or an empty directory. *)
Looks(r) ==
    /\ run[r].cmd \in {"import", "init"} /\ run[r].pc = "start"
    /\ IF NotYet
       THEN run' = [run EXCEPT ![r].pc = IF run[r].cmd = "init" THEN "build" ELSE "check",
                               ![r].keep = IF target.st = "empty" THEN 1 ELSE 0]
       ELSE Ends(r)
    /\ UNCHANGED target /\ Stays /\ Fine

(* import verifies the bundle, and refuses a schema newer than its own.    *)
ImportChecks(r) ==
    /\ At(r, "import", "check")
    /\ LET b == fs[Bundle] IN
       IF b.st \in {"raw", "checked"} /\ b.version <= run[r].schema
       THEN run' = [run EXCEPT ![r].pc = "build", ![r].at = b.by, ![r].seen = b.version]
       ELSE Ends(r)
    /\ UNCHANGED target /\ Stays /\ Fine

(* It unpacks into a folder of its own and checks each file against the    *)
(* manifest it verified, opens the database, which brings it forward, and  *)
(* rebuilds the index; init makes a new one.                               *)
Unpacks(r) == fs[Bundle].by = run[r].at /\ fs[Bundle].version = run[r].seen
Builds(r) ==
    /\ run[r].cmd \in {"import", "init"} /\ run[r].pc = "build"
    /\ \/ /\ run[r].cmd = "init" \/ Unpacks(r)
          /\ run' = [run EXCEPT ![r].pc = "clear", ![r].at = 0,
                                ![r].seen = run[r].schema]
          /\ Fine
       \/ /\ run[r].cmd = "import" /\ ~Unpacks(r) /\ Ends(r) /\ Fine
       \/ Fault /\ Ends(r) /\ UNCHANGED crashes
    /\ UNCHANGED target /\ Stays

(* An empty directory is removed: import when it found one before, init    *)
(* when there is something now.                                            *)
BugRemoves == target.st # "absent"
Removes == target.st = "empty"
Clears(r) ==
    /\ run[r].cmd \in {"import", "init"} /\ run[r].pc = "clear"
    /\ \/ /\ Removes /\ (run[r].cmd = "init" \/ run[r].keep = 1)
          /\ target' = Absent /\ Steps(r, "place") /\ Fine
       \/ /\ IF run[r].cmd = "init" THEN target.st = "absent" ELSE run[r].keep = 0
          /\ UNCHANGED target /\ Steps(r, "place") /\ Fine
       \/ /\ IF run[r].cmd = "init" THEN target.st = "vault"
             ELSE run[r].keep = 1 /\ ~Removes
          /\ MakesNothing(r) /\ Fine
    /\ Stays

(* rename moves onto nothing.  An empty directory it refuses, unless that  *)
(* came between its look and its move; import puts back the one it took.   *)
Places(r) ==
    /\ run[r].cmd \in {"import", "init"} /\ run[r].pc = "place"
    /\ \/ /\ NotYet /\ Fine
          /\ target' = [st |-> "vault", by |-> r, version |-> run[r].seen]
       \/ /\ \/ target # Absent /\ UNCHANGED faults
             \/ Fault
          /\ UNCHANGED crashes
          /\ target' = IF run[r].keep = 1 /\ run[r].cmd = "import" /\ target = Absent
                       THEN Empty ELSE target
    /\ Ends(r) /\ Stays

---------------------------------------------------------------------------

Starts(r) ==
    /\ run[r].pc = "off"
    /\ \E cmd \in Commands, n \in Schemas, k \in Keeps :
        run' = [run EXCEPT ![r] =
                 [Off EXCEPT !.cmd = cmd, !.pc = "start",
                             !.schema = IF cmd \in {"open", "import", "init"} THEN n ELSE 0,
                             !.stamp = IF cmd = "backup" THEN second ELSE 0,
                             !.keep = IF cmd = "backup" THEN k ELSE 0]]
    /\ UNCHANGED fs /\ Files /\ Fine

Crash(r) ==
    /\ run[r].pc \notin {"off", "over"}
    /\ crashes < MaxCrashes /\ crashes' = crashes + 1
    /\ Ends(r) /\ UNCHANGED <<fs, faults>> /\ Files

(* Somebody copies a bundle over the one there is. *)
Brought ==
    /\ Fault /\ \E given \in Given \ {fs[Bundle]} : fs' = [fs EXCEPT ![Bundle] = given]
    /\ UNCHANGED <<version, target, second, run, crashes>>

Tick ==
    /\ \E s \in Seconds : s > second /\ second' = s
    /\ UNCHANGED <<version, fs, target, run, faults, crashes>>

OpenStep(r) == Connects(r) \/ Migrates(r) \/ Closes(r)
BackupStep(r) ==
    \/ BackupLooks(r) \/ BackupCreates(r) \/ BackupWrites(r) \/ BackupVerifies(r)
    \/ BackupCopies(r) \/ BackupNamesConfig(r) \/ BackupNamesDb(r)
    \/ BackupLists(r) \/ BackupPrunes(r) \/ BackupFails(r)
ExportStep(r) ==
    \/ ExportLooks(r) \/ ExportSnapshots(r) \/ ExportCreates(r) \/ ExportWrites(r)
    \/ ExportVerifies(r) \/ ExportNames(r) \/ ExportFails(r)
MakeStep(r) == Looks(r) \/ ImportChecks(r) \/ Builds(r) \/ Clears(r) \/ Places(r)

Next ==
    \/ \E r \in Runs :
        Starts(r) \/ OpenStep(r) \/ BackupStep(r) \/ ExportStep(r) \/ MakeStep(r) \/ Crash(r)
    \/ Brought \/ Tick

Spec == Init /\ [][Next]_vars

---------------------------------------------------------------------------

(* backup.go: "a nooma-*.db in dest is always a complete, checked backup", *)
(* and a bundle that has its name verified.  It holds of two runs in one   *)
(* second, or for one bundle: a third may begin the partial file that the  *)
(* failure of the second took from the first.                              *)
CopiesAreChecked ==
    /\ \A s \in Seconds : fs[<<"db", s>>].st \in {"none", "checked"}
    /\ fs[Bundle].by \in Runs => fs[Bundle].st = "checked"

(* A database is handed out at the schema the binary knows, neither short  *)
(* of it nor past it, whoever migrates it at the same time.                *)
OpensAtItsSchema ==
    [][\A r \in Runs : run'[r].pc = "opened" /\ run[r].pc # "opened" =>
            version' = run'[r].schema]_vars

(* Import "never writes over a vault", and init neither, though each looks *)
(* long before it writes.                                                  *)
TargetStands == [][target.st = "vault" => target' = target]_vars

===========================================================================
