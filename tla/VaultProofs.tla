---------------------------- MODULE VaultProofs ----------------------------
(***************************************************************************)
(* What Vault promises for any runs, binaries, seconds and bounds: no      *)
(* vault is made over a vault, a database is handed out at the schema its  *)
(* binary knows, and what is named as a copy was verified, as long as no   *)
(* third backup of a second begins beside another and exports take turns.  *)
(***************************************************************************)
EXTENDS Vault, TLAPS

(* Only a step of import or init changes what stands in the target, and    *)
(* it does so where there is no vault yet.                                 *)
LEMMA MakeLeavesVaults ==
  ASSUME NEW r \in Runs, MakeStep(r), target.st = "vault"
  PROVE  target' = target
<1>1. CASE Looks(r)
  BY <1>1 DEF Looks
<1>2. CASE ImportChecks(r)
  BY <1>2 DEF ImportChecks
<1>3. CASE Builds(r)
  BY <1>3 DEF Builds
<1>4. CASE Clears(r)
  <2>1. ~Removes
    BY DEF Removes
  <2> QED BY <1>4, <2>1 DEF Clears, MakesNothing
<1>5. CASE Places(r)
  <2>1. ~NotYet /\ target # Absent
    BY DEF NotYet, Absent
  <2> QED BY <1>5, <2>1 DEF Places
<1> QED BY <1>1, <1>2, <1>3, <1>4, <1>5 DEF MakeStep

LEMMA CopiesLeaveTheVault ==
  ASSUME NEW r \in Runs, BackupStep(r) \/ ExportStep(r)
  PROVE  UNCHANGED <<version, target>>
<1>1. CASE BackupStep(r)
  BY <1>1 DEF BackupStep, BackupLooks, BackupCreates, BackupWrites, BackupVerifies,
       BackupCopies, BackupNamesConfig, BackupNamesDb, BackupLists, BackupPrunes,
       BackupFails, Files
<1>2. CASE ExportStep(r)
  BY <1>2 DEF ExportStep, ExportLooks, ExportSnapshots, ExportCreates, ExportWrites,
       ExportVerifies, ExportNames, ExportFails, Files
<1> QED BY <1>1, <1>2

(* Import and init never write over a vault (import.go, init.go), however  *)
(* their looks and their writes fall among those of others.                *)
THEOREM VaultsStand == Spec => TargetStands
<1>1. ASSUME [Next]_vars, target.st = "vault" PROVE target' = target
  <2>1. ASSUME NEW r \in Runs, Starts(r) \/ OpenStep(r) \/ Crash(r)
        PROVE  target' = target
    BY <2>1 DEF Starts, OpenStep, Connects, Migrates, Closes, Crash, Files
  <2>2. CASE Brought \/ Tick \/ UNCHANGED vars
    BY <2>2 DEF Brought, Tick, vars
  <2> QED BY <1>1, <2>1, <2>2, MakeLeavesVaults, CopiesLeaveTheVault DEF Next
<1> QED BY <1>1, PTL DEF Spec, TargetStands

---------------------------------------------------------------------------
(* Every run is a record of the one shape, which is all that the steps     *)
(* which only look at files or write them need keep.                       *)
Fields == {"cmd", "pc", "schema", "at", "stamp", "keep", "seen", "drop"}
Shaped == DOMAIN run = Runs /\ \A r \in Runs : DOMAIN run[r] = Fields

Knows == \A r \in Runs : run[r].schema \in Nat
Counts == \A r \in Runs : run[r].pc = "migrate" => run[r].seen \in Nat

OpenInv == Shaped /\ Knows /\ Counts /\ version \in Nat

(* A step of a run that neither begins, goes on nor ends migrating. *)
Aside(r) ==
    /\ Shaped'
    /\ \A q \in Runs \ {r} : run'[q] = run[q]
    /\ run'[r].pc \notin {"migrate", "opened"} /\ run'[r].schema \in Nat
    /\ UNCHANGED version

LEMMA AsideKeeps ==
  ASSUME NEW r \in Runs, OpenInv, Aside(r)
  PROVE  OpenInv' /\ (\A q \in Runs : run'[q].pc = "opened" => run[q].pc = "opened")
BY DEF OpenInv, Aside, Knows, Counts

LEMMA OffShaped == DOMAIN Off = Fields
BY DEF Off, Fields

LEMMA Ended ==
  ASSUME NEW r \in Runs, OpenInv, Ends(r), UNCHANGED version
  PROVE  Aside(r)
BY DEF OpenInv, Shaped, Ends, Off, Fields, Aside

LEMMA Stepped ==
  ASSUME NEW r \in Runs, OpenInv, NEW pc,
         pc \notin {"migrate", "opened"}, Steps(r, pc), UNCHANGED version
  PROVE  Aside(r)
BY DEF OpenInv, Shaped, Knows, Steps, Aside, Fields

(* The steps that set more of a record than where the run is. *)
LEMMA Turned ==
  ASSUME NEW r \in Runs, OpenInv, NEW pc, pc \notin {"migrate", "opened"},
         NEW a, NEW s, NEW d, NEW k, UNCHANGED version,
         \/ run' = [run EXCEPT ![r].pc = pc, ![r].drop = d]
         \/ run' = [run EXCEPT ![r].pc = pc, ![r].seen = s]
         \/ run' = [run EXCEPT ![r].pc = pc, ![r].keep = k]
         \/ run' = [run EXCEPT ![r].pc = pc, ![r].at = a, ![r].seen = s]
  PROVE  Aside(r)
BY DEF OpenInv, Shaped, Knows, Aside, Fields

LEMMA BackupAside ==
  ASSUME NEW r \in Runs, OpenInv, BackupStep(r)
  PROVE  Aside(r)
<1> UNCHANGED version
  BY CopiesLeaveTheVault
<1>1. CASE BackupLooks(r)
  BY <1>1, Ended, Stepped DEF BackupLooks
<1>2. CASE BackupCreates(r)
  BY <1>2, Ended, Stepped DEF BackupCreates
<1>3. CASE BackupWrites(r)
  BY <1>3, Stepped DEF BackupWrites
<1>4. CASE BackupVerifies(r)
  BY <1>4, Ended, Stepped DEF BackupVerifies
<1>5. CASE BackupCopies(r)
  BY <1>5, Stepped DEF BackupCopies
<1>6. CASE BackupNamesConfig(r)
  BY <1>6, Ended, Stepped DEF BackupNamesConfig
<1>7. CASE BackupNamesDb(r)
  BY <1>7, Ended, Stepped DEF BackupNamesDb
<1>8. CASE BackupLists(r)
  BY <1>8, Ended, Turned DEF BackupLists
<1>9. CASE BackupPrunes(r)
  <2>1. CASE Ends(r)
    BY <2>1, Ended
  <2>2. ASSUME NEW f, run' = [run EXCEPT ![r].drop = @ \ {f}] PROVE Aside(r)
    BY <1>9, <2>2 DEF BackupPrunes, At, Aside, OpenInv, Shaped, Knows, Fields
  <2> QED BY <1>9, <2>1, <2>2 DEF BackupPrunes
<1>10. CASE BackupFails(r)
  BY <1>10, Ended DEF BackupFails
<1> QED BY <1>1, <1>2, <1>3, <1>4, <1>5, <1>6, <1>7, <1>8, <1>9, <1>10 DEF BackupStep

LEMMA ExportAside ==
  ASSUME NEW r \in Runs, OpenInv, ExportStep(r)
  PROVE  Aside(r)
<1> UNCHANGED version
  BY CopiesLeaveTheVault
<1>1. CASE ExportLooks(r)
  BY <1>1, Ended, Stepped DEF ExportLooks
<1>2. CASE ExportSnapshots(r)
  BY <1>2, Turned DEF ExportSnapshots
<1>3. CASE ExportCreates(r)
  BY <1>3, Ended, Stepped DEF ExportCreates
<1>4. CASE ExportWrites(r)
  BY <1>4, Stepped DEF ExportWrites
<1>5. CASE ExportVerifies(r)
  BY <1>5, Ended, Stepped DEF ExportVerifies
<1>6. CASE ExportNames(r)
  BY <1>6, Ended DEF ExportNames
<1>7. CASE ExportFails(r)
  BY <1>7, Ended DEF ExportFails
<1> QED BY <1>1, <1>2, <1>3, <1>4, <1>5, <1>6, <1>7 DEF ExportStep

LEMMA MakeAside ==
  ASSUME NEW r \in Runs, OpenInv, MakeStep(r)
  PROVE  Aside(r)
<1> UNCHANGED version
  BY DEF MakeStep, Looks, ImportChecks, Builds, Clears, Places, Stays
<1>1. CASE Looks(r)
  <2>1. CASE Ends(r)
    BY <2>1, Ended
  <2>2. ASSUME NEW pc \in {"build", "check"}, NEW k,
               run' = [run EXCEPT ![r].pc = pc, ![r].keep = k]
        PROVE  Aside(r)
    BY <2>2, Turned
  <2> QED BY <1>1, <2>1, <2>2 DEF Looks
<1>2. CASE ImportChecks(r)
  <2>1. CASE Ends(r)
    BY <2>1, Ended
  <2>2. ASSUME NEW a, NEW s, run' = [run EXCEPT ![r].pc = "build", ![r].at = a, ![r].seen = s]
        PROVE  Aside(r)
    BY <2>2, Turned
  <2> QED BY <1>2, <2>1, <2>2 DEF ImportChecks
<1>3. CASE Builds(r)
  <2>1. CASE Ends(r)
    BY <2>1, Ended
  <2>2. ASSUME NEW a, NEW s, run' = [run EXCEPT ![r].pc = "clear", ![r].at = a, ![r].seen = s]
        PROVE  Aside(r)
    BY <2>2, Turned
  <2> QED BY <1>3, <2>1, <2>2 DEF Builds
<1>4. CASE Clears(r)
  BY <1>4, Ended, Stepped DEF Clears, MakesNothing
<1>5. CASE Places(r)
  BY <1>5, Ended DEF Places
<1> QED BY <1>1, <1>2, <1>3, <1>4, <1>5 DEF MakeStep

LEMMA StartsAside ==
  ASSUME NEW r \in Runs, OpenInv, Starts(r)
  PROVE  Aside(r)
<1>1. PICK cmd \in Commands, n \in Schemas, k \in Keeps :
        run' = [run EXCEPT ![r] =
                 [Off EXCEPT !.cmd = cmd, !.pc = "start",
                             !.schema = IF cmd \in {"open", "import", "init"} THEN n ELSE 0,
                             !.stamp = IF cmd = "backup" THEN second ELSE 0,
                             !.keep = IF cmd = "backup" THEN k ELSE 0]]
  BY DEF Starts
<1> QED BY <1>1, VaultAssumption DEF Starts, Files, Aside, OpenInv, Shaped, Off, Fields

(* The schema a run begins to bring forward is below its binary's, and the *)
(* last migration is the binary's own.                                     *)
LEMMA OpenStepKeeps ==
  ASSUME NEW r \in Runs, OpenInv, OpenStep(r)
  PROVE  /\ OpenInv'
         /\ \A q \in Runs : run'[q].pc = "opened" /\ run[q].pc # "opened" =>
              version' = run'[q].schema
<1>1. CASE Closes(r)
  BY <1>1, Ended, AsideKeeps DEF Closes, Files
<1>2. CASE Connects(r)
  <2>1. CASE Ends(r)
    BY <1>2, <2>1, Ended, AsideKeeps DEF Connects
  <2>2. CASE Steps(r, "opened") /\ version = run[r].schema
    BY <1>2, <2>2 DEF Connects, Steps, OpenInv, Shaped, Knows, Counts, Fields
  <2>3. CASE run' = [run EXCEPT ![r].pc = "migrate", ![r].seen = version + 1]
    BY <1>2, <2>3 DEF Connects, OpenInv, Shaped, Knows, Counts, Fields
  <2> QED BY <1>2, <2>1, <2>2, <2>3 DEF Connects, Compares
<1>3. CASE Migrates(r)
  <2>1. CASE Ends(r) /\ UNCHANGED version
    BY <1>3, <2>1, Ended, AsideKeeps DEF Migrates
  <2>2. CASE /\ ~Refuses(r)
             /\ version' = IF version >= run[r].seen THEN version ELSE run[r].seen
             /\ IF run[r].seen = run[r].schema THEN Steps(r, "opened")
                ELSE run' = [run EXCEPT ![r].seen = @ + 1]
    <3>1. run[r].seen \in Nat /\ run[r].schema \in Nat /\ version \in Nat
      BY <1>3 DEF Migrates, At, OpenInv, Counts, Knows
    <3>2. version' \in Nat
      BY <2>2, <3>1
    <3>3. CASE run[r].seen = run[r].schema /\ Steps(r, "opened")
      <4>1. version' = run[r].schema
        BY <2>2, <3>1, <3>3 DEF Refuses
      <4> QED BY <3>2, <3>3, <4>1 DEF Steps, OpenInv, Shaped, Knows, Counts, Fields
    <3>4. CASE run' = [run EXCEPT ![r].seen = @ + 1]
      <4>1. run[r].pc = "migrate"
        BY <1>3 DEF Migrates, At
      <4> QED BY <3>1, <3>2, <3>4, <4>1 DEF OpenInv, Shaped, Knows, Counts, Fields
    <3> QED BY <2>2, <3>3, <3>4
  <2> QED BY <1>3, <2>1, <2>2 DEF Migrates
<1> QED BY <1>1, <1>2, <1>3 DEF OpenStep

LEMMA StepKeeps ==
  ASSUME OpenInv, [Next]_vars
  PROVE  /\ OpenInv'
         /\ \A q \in Runs : run'[q].pc = "opened" /\ run[q].pc # "opened" =>
              version' = run'[q].schema
<1>1. ASSUME NEW r \in Runs, Starts(r) \/ BackupStep(r) \/ ExportStep(r) \/ MakeStep(r)
      PROVE  Aside(r)
  BY <1>1, StartsAside, BackupAside, ExportAside, MakeAside
<1>2. ASSUME NEW r \in Runs, Crash(r) PROVE Aside(r)
  BY <1>2, Ended DEF Crash, Files
<1>3. CASE Brought \/ Tick \/ UNCHANGED vars
  BY <1>3 DEF Brought, Tick, vars, OpenInv, Shaped, Knows, Counts
<1>4. ASSUME NEW r \in Runs, OpenStep(r) \/ Aside(r)
      PROVE  /\ OpenInv'
             /\ \A q \in Runs : run'[q].pc = "opened" /\ run[q].pc # "opened" =>
                  version' = run'[q].schema
  BY <1>4, AsideKeeps, OpenStepKeeps
<1>5. CASE Brought \/ Tick \/ UNCHANGED vars
  BY <1>3, <1>5 DEF Brought, Tick, vars
<1> QED BY <1>1, <1>2, <1>4, <1>5 DEF Next

(* Whoever migrates it meanwhile, a database is handed out at the schema   *)
(* its binary knows (migrate.go, migrateTo).                               *)
THEOREM OpenedAtItsSchema == Spec => OpensAtItsSchema
<1>1. Init => OpenInv
  BY VaultAssumption DEF Init, OpenInv, Shaped, Knows, Counts, Off, Fields
<1>2. OpenInv /\ [Next]_vars => OpenInv'
  BY StepKeeps
<1>3. OpenInv /\ [Next]_vars =>
        [\A r \in Runs : run'[r].pc = "opened" /\ run[r].pc # "opened" =>
            version' = run'[r].schema]_vars
  BY StepKeeps
<1> QED BY <1>1, <1>2, <1>3, PTL DEF Spec, OpensAtItsSchema

---------------------------------------------------------------------------
(* Copies.  What is named as a backup or a bundle was verified, for any    *)
(* number of runs, provided no backup begins in a second in which two      *)
(* others began and one of them still runs, and exports do not overlap:    *)
(* the one sequence of steps in which a run names what another has only    *)
(* begun to write needs three (see CopiesAreChecked).                      *)
Uncrowded(r) ==
    /\ run'[r].cmd = "export" => \A q \in Runs \ {r} : run[q].cmd # "export"
    /\ run'[r].cmd = "backup" =>
         \A a, b \in Runs \ {r} : a # b /\ run[a].stamp = second /\ run[b].stamp = second
            => run[a].pc = "over" /\ run[b].pc = "over"
Roomy == \A r \in Runs : run[r].pc = "off" /\ run'[r].pc = "start" => Uncrowded(r)

Db(s) == <<"db", s>>
DbPartial(s) == <<"db.partial", s>>

(* A file's record, and the runs' names.                                   *)
FilesShaped ==
    /\ DOMAIN fs = Names
    /\ \A f \in Names : /\ DOMAIN fs[f] = {"st", "by", "version"}
                        /\ fs[f].st = "none" => fs[f] = NoFile
Droppable == {"db", "yml"} \X Seconds
Drops == \A r \in Runs : run[r].drop \subseteq Droppable
Stamped == second \in Seconds /\ \A r \in Runs : run[r].cmd = "backup" => run[r].stamp \in Seconds

(* Of three backups of one second no two are under way.                    *)
Pairs == \A a, b, c \in Runs :
    /\ a # b /\ b # c /\ a # c
    /\ run[a].stamp = run[b].stamp /\ run[b].stamp = run[c].stamp /\ run[a].stamp # 0
    => run[a].pc = "over" \/ run[b].pc = "over"
Solo == \A q, r \in Runs : run[q].cmd = "export" /\ run[r].cmd = "export" => q = r

(* A backup that has verified its file names that file, or none: another   *)
(* took it away, which began before and does not create it again.          *)
Verified == {"copy", "yml", "db"}
Begun == {"off", "start", "snapshot"}
HeldBy(r) ==
    run[r].cmd = "backup" /\ run[r].pc \in Verified =>
      \/ fs[DbPartial(run[r].stamp)].st = "checked"
      \/ /\ fs[DbPartial(run[r].stamp)] = NoFile
         /\ \E q \in Runs \ {r} : run[q].stamp = run[r].stamp /\ run[q].pc \notin Begun
Held == \A r \in Runs : HeldBy(r)
PackedBy(r) == At(r, "export", "name") => fs[Partial].st = "checked"
Packed == \A r \in Runs : PackedBy(r)

RunsInv == Shaped /\ Drops /\ Stamped /\ Pairs /\ Solo
FilesInv == FilesShaped /\ Held /\ Packed /\ CopiesAreChecked

(* A step of a run that had begun.                                         *)
Goes(r) ==
    /\ run[r].pc \notin {"off", "over"}
    /\ Shaped'
    /\ \A q \in Runs \ {r} : run'[q] = run[q]
    /\ run'[r].stamp = run[r].stamp /\ run'[r].cmd \in {run[r].cmd, "none"}
    /\ run'[r].pc \notin {"off", "start"}
    /\ run'[r].pc = "snapshot" => run[r].pc = "start"
    /\ run'[r].drop \subseteq run[r].drop \union Droppable

LEMMA EndGoes ==
  ASSUME NEW r \in Runs, Shaped, run[r].pc \notin {"off", "over"}, Ends(r)
  PROVE  Goes(r) /\ run'[r].pc = "over" /\ run'[r].cmd = "none"
BY DEF Shaped, Ends, Off, Fields, Goes

LEMMA StepGoes ==
  ASSUME NEW r \in Runs, Shaped, run[r].pc \notin {"off", "over"},
         NEW pc, pc \notin {"off", "start"}, pc = "snapshot" => run[r].pc = "start", Steps(r, pc)
  PROVE  Goes(r) /\ run'[r].pc = pc /\ run'[r].cmd = run[r].cmd
BY DEF Shaped, Steps, Fields, Goes

LEMMA TurnGoes ==
  ASSUME NEW r \in Runs, Shaped, run[r].pc \notin {"off", "over"},
         NEW pc, pc \notin {"off", "start", "snapshot"}, NEW a, NEW s, NEW d \in SUBSET Droppable, NEW k,
         \/ run' = [run EXCEPT ![r].pc = pc, ![r].drop = d]
         \/ run' = [run EXCEPT ![r].pc = pc, ![r].seen = s]
         \/ run' = [run EXCEPT ![r].pc = pc, ![r].keep = k]
         \/ run' = [run EXCEPT ![r].pc = pc, ![r].at = a, ![r].seen = s]
  PROVE  Goes(r) /\ run'[r].pc = pc /\ run'[r].cmd = run[r].cmd
BY DEF Shaped, Fields, Goes

LEMMA GoingKeepsRuns ==
  ASSUME NEW r \in Runs, RunsInv, Goes(r), UNCHANGED second
  PROVE  RunsInv'
<1>1. Stamped'
  BY DEF RunsInv, Stamped, Goes
<1>2. \A q \in Runs : run'[q].stamp = run[q].stamp /\ (run[q].pc = "over" => run'[q].pc = "over")
  BY DEF Goes
<1>3. Pairs'
  BY <1>2 DEF RunsInv, Pairs
<1>4. Solo'
  BY DEF RunsInv, Solo, Goes
<1>5. Drops'
  BY DEF RunsInv, Drops, Goes
<1> QED BY <1>1, <1>3, <1>4, <1>5 DEF RunsInv, Goes

---------------------------------------------------------------------------
LEMMA NamesApart ==
  /\ Bundle \in Names /\ Partial \in Names /\ Bundle # Partial
  /\ \A s \in Seconds :
       /\ Db(s) \in Names /\ DbPartial(s) \in Names
       /\ <<"yml", s>> \in Names /\ <<"yml.partial", s>> \in Names
       /\ \A t : /\ Db(s) # DbPartial(t) /\ Db(s) # <<"yml", t>> /\ Db(s) # <<"yml.partial", t>>
                 /\ DbPartial(s) # <<"yml", t>> /\ DbPartial(s) # <<"yml.partial", t>>
                 /\ DbPartial(s) # Db(t)
                 /\ Db(s) = Db(t) => s = t
                 /\ DbPartial(s) = DbPartial(t) => s = t
       /\ Db(s) # Bundle /\ Db(s) # Partial /\ DbPartial(s) # Bundle /\ DbPartial(s) # Partial
       /\ <<"yml", s>> # Bundle /\ <<"yml", s>> # Partial
       /\ <<"yml.partial", s>> # Bundle /\ <<"yml.partial", s>> # Partial
BY DEF Names, Bundle, Partial, Db, DbPartial

LEMMA NoFileFacts ==
  /\ NoFile.st = "none" /\ NoFile.by = 0 /\ DOMAIN NoFile = {"st", "by", "version"}
  /\ 0 \notin Runs /\ Elsewhere \notin Runs
BY VaultAssumption DEF NoFile, Elsewhere

(* What another run's step may do to the file a run has verified.          *)
Spares(r) ==
    \A q \in Runs \ {r} : run[q].cmd = "backup" /\ run[q].pc \in Verified =>
      \/ fs'[DbPartial(run[q].stamp)] = fs[DbPartial(run[q].stamp)]
      \/ fs'[DbPartial(run[q].stamp)].st = "checked"
      \/ /\ fs'[DbPartial(run[q].stamp)] = NoFile
         /\ run[r].stamp = run[q].stamp /\ run'[r].pc \notin Begun

LEMMA OthersHeld ==
  ASSUME NEW r \in Runs, FilesInv, Goes(r), Spares(r), NEW q \in Runs \ {r}
  PROVE  HeldBy(q)'
<1> DEFINE p == DbPartial(run[q].stamp)
<1> SUFFICES ASSUME run'[q].cmd = "backup", run'[q].pc \in Verified
             PROVE  \/ fs'[DbPartial(run'[q].stamp)].st = "checked"
                    \/ /\ fs'[DbPartial(run'[q].stamp)] = NoFile
                       /\ \E w \in Runs \ {q} : run'[w].stamp = run'[q].stamp /\ run'[w].pc \notin Begun
  BY DEF HeldBy, DbPartial
<1>1. run'[q] = run[q] /\ HeldBy(q)
  BY DEF Goes, FilesInv, Held
<1>2. \A w \in Runs \ {q} : run[w].stamp = run[q].stamp /\ run[w].pc \notin Begun
          => run'[w].stamp = run'[q].stamp /\ run'[w].pc \notin Begun
  BY <1>1 DEF Goes, Begun
<1>3. CASE fs'[p] = fs[p]
  BY <1>1, <1>2, <1>3 DEF HeldBy
<1>4. CASE fs'[p] = NoFile /\ run[r].stamp = run[q].stamp /\ run'[r].pc \notin Begun
  <2>1. run'[r].stamp = run'[q].stamp
    BY <1>1, <1>4 DEF Goes
  <2> QED BY <1>1, <1>4, <2>1
<1>5. CASE fs'[p].st = "checked"
  BY <1>1, <1>5
<1> QED BY <1>1, <1>3, <1>4, <1>5 DEF Spares

LEMMA StepOfOne ==
  ASSUME NEW r \in Runs, RunsInv, FilesInv, Goes(r), UNCHANGED second, Spares(r),
         fs'[Partial] = fs[Partial] \/ run[r].cmd = "export",
         FilesShaped', HeldBy(r)', PackedBy(r)', CopiesAreChecked'
  PROVE  RunsInv' /\ FilesInv'
<1>1. Held'
  BY OthersHeld DEF Held
<1>2. \A q \in Runs \ {r} : PackedBy(q)'
  BY DEF RunsInv, Solo, FilesInv, Packed, PackedBy, Goes, At
<1> QED BY <1>1, <1>2, GoingKeepsRuns DEF FilesInv, Packed

LEMMA CopiesKept ==
  ASSUME FilesInv, \A s \in Seconds : fs'[Db(s)] \in {fs[Db(s)], NoFile},
         fs'[Bundle] \in {fs[Bundle], NoFile}
  PROVE  CopiesAreChecked'
BY NoFileFacts DEF FilesInv, CopiesAreChecked, Db

(* The ways a step writes the files.                                       *)
LEMMA Removing ==
  ASSUME FilesShaped, NEW S, fs' = Gone(fs, S)
  PROVE  FilesShaped' /\ \A f \in Names : fs'[f] = IF f \in S THEN NoFile ELSE fs[f]
BY NoFileFacts DEF FilesShaped, Gone

LEMMA Moving ==
  ASSUME FilesShaped, NEW a \in Names, NEW b \in Names, a # b, fs' = Moved(a, b)
  PROVE  /\ FilesShaped' /\ fs'[a] = NoFile /\ fs'[b] = fs[a]
         /\ \A f \in Names \ {a, b} : fs'[f] = fs[f]
BY NoFileFacts DEF FilesShaped, Moved

LEMMA Putting ==
  ASSUME FilesShaped, NEW a \in Names, NEW s, NEW w, NEW n, s # "none",
         fs' = [fs EXCEPT ![a] = [st |-> s, by |-> w, version |-> n]]
  PROVE  /\ FilesShaped' /\ fs'[a] = [st |-> s, by |-> w, version |-> n]
         /\ \A f \in Names \ {a} : fs'[f] = fs[f]
BY DEF FilesShaped

LEMMA Passing ==
  ASSUME FilesShaped, NEW a \in Names, fs' = [fs EXCEPT ![a].st = "checked"]
  PROVE  /\ FilesShaped' /\ fs'[a].st = "checked"
         /\ \A f \in Names \ {a} : fs'[f] = fs[f]
BY DEF FilesShaped

LEMMA Marking ==
  ASSUME FilesShaped, NEW r, NEW to \in {"raw", "damaged"}, fs' = Marked(r, "torn", to)
  PROVE  /\ FilesShaped'
         /\ \A f \in Names : /\ fs[f].st # "torn" \/ fs[f].by # r => fs'[f] = fs[f]
                             /\ fs'[f].by = fs[f].by
BY DEF FilesShaped, Marked

LEMMA LeavesFiles ==
  ASSUME NEW r \in Runs, RunsInv, FilesInv, Goes(r), UNCHANGED <<second, fs>>,
         HeldBy(r)', PackedBy(r)'
  PROVE  RunsInv' /\ FilesInv'
<1>1. Spares(r)
  BY DEF Spares
<1>2. FilesShaped' /\ CopiesAreChecked' /\ fs'[Partial] = fs[Partial]
  BY DEF FilesInv, FilesShaped, CopiesAreChecked
<1> QED BY <1>1, <1>2, StepOfOne

LEMMA OverHolds ==
  ASSUME NEW r \in Runs, run'[r].cmd = "none"
  PROVE  HeldBy(r)' /\ PackedBy(r)'
BY DEF HeldBy, PackedBy, At

(* A backup that fails takes the partial files of its name away.           *)
LEMMA DiscardKeeps ==
  ASSUME NEW r \in Runs, RunsInv, FilesInv, run[r].pc \notin {"off", "over"},
         run[r].cmd = "backup", UNCHANGED second, Ends(r),
         NEW S, S \subseteq {Of(r, k) : k \in {"yml", "db.partial", "yml.partial"}}, fs' = Gone(fs, S)
  PROVE  RunsInv' /\ FilesInv'
<1> DEFINE s == run[r].stamp
<1>1. s \in Seconds /\ FilesShaped
  BY DEF RunsInv, Stamped, FilesInv
<1>2. Goes(r) /\ run'[r].pc = "over" /\ run'[r].cmd = "none"
  BY EndGoes DEF RunsInv
<1>3. S \subseteq {<<"yml", s>>, DbPartial(s), <<"yml.partial", s>>}
  BY DEF Of, DbPartial
<1>4. FilesShaped' /\ \A f \in Names : fs'[f] = IF f \in S THEN NoFile ELSE fs[f]
  BY <1>1, Removing
<1>5. \A t \in Seconds : fs'[Db(t)] = fs[Db(t)]
  BY <1>1, <1>3, <1>4, NamesApart
<1>6. fs'[Bundle] = fs[Bundle] /\ fs'[Partial] = fs[Partial]
  BY <1>1, <1>3, <1>4, NamesApart
<1>7. \A t \in Seconds \ {s} : fs'[DbPartial(t)] = fs[DbPartial(t)]
  BY <1>1, <1>3, <1>4, NamesApart
<1>8. fs'[DbPartial(s)] \in {NoFile, fs[DbPartial(s)]}
  BY <1>1, <1>4, NamesApart
<1>9. Spares(r)
  BY <1>2, <1>7, <1>8 DEF Spares, RunsInv, Stamped, Begun
<1> QED BY <1>2, <1>4, <1>5, <1>6, <1>9, CopiesKept, OverHolds, StepOfOne

---------------------------------------------------------------------------
LEMMA BackupBegins ==
  ASSUME NEW r \in Runs, RunsInv, FilesInv, BackupLooks(r) \/ BackupCreates(r)
  PROVE  RunsInv' /\ FilesInv'
<1> DEFINE s == run[r].stamp
<1> UNCHANGED second
  BY DEF BackupLooks, BackupCreates, Files
<1>1. run[r].cmd = "backup" /\ run[r].pc \notin {"off", "over"} /\ Shaped
  BY DEF BackupLooks, BackupCreates, At, RunsInv
<1>2. CASE BackupLooks(r)
  <2>1. UNCHANGED fs /\ Goes(r) /\ run'[r].pc \in {"over", "snapshot"}
    BY <1>1, <1>2, EndGoes, StepGoes DEF BackupLooks, At
  <2>2. HeldBy(r)' /\ PackedBy(r)'
    BY <2>1 DEF HeldBy, PackedBy, At, Verified
  <2> QED BY <2>1, <2>2, LeavesFiles
<1>3. CASE BackupCreates(r) /\ There(Of(r, "db.partial"))
  <2>1. fs' = Gone(fs, {Of(r, "db.partial"), Of(r, "yml.partial")}) /\ Ends(r)
    BY <1>3 DEF BackupCreates, Discards
  <2> QED BY <1>1, <2>1, DiscardKeeps
<1>4. CASE BackupCreates(r) /\ ~There(Of(r, "db.partial"))
  <2>1. /\ fs' = [fs EXCEPT ![DbPartial(s)] = [st |-> "torn", by |-> r, version |-> 0]]
        /\ Steps(r, "write") /\ run[r].pc = "snapshot" /\ fs[DbPartial(s)] = NoFile
    BY <1>4 DEF BackupCreates, DbPartial, Of, At, There
  <2>2. Goes(r) /\ run'[r].pc = "write"
    BY <1>1, <2>1, StepGoes
  <2>3. s \in Seconds /\ FilesShaped
    BY <1>1 DEF RunsInv, Stamped, FilesInv
  <2>4. DbPartial(s) \in Names
    BY <2>3, NamesApart
  <2>5. FilesShaped' /\ \A f \in Names \ {DbPartial(s)} : fs'[f] = fs[f]
    BY <2>1, <2>3, <2>4, Putting
  <2>6. /\ \A t \in Seconds : fs'[Db(t)] = fs[Db(t)]
        /\ fs'[Bundle] = fs[Bundle] /\ fs'[Partial] = fs[Partial]
        /\ \A t \in Seconds \ {s} : fs'[DbPartial(t)] = fs[DbPartial(t)]
    BY <2>3, <2>5, NamesApart
  <2>7. ASSUME NEW q \in Runs \ {r}, run[q].cmd = "backup", run[q].pc \in Verified, run[q].stamp = s
        PROVE  FALSE
    <3>1. PICK w \in Runs \ {q} : run[w].stamp = s /\ run[w].pc \notin Begun
      BY <2>1, <2>7, NoFileFacts DEF FilesInv, Held, HeldBy
    <3>2. w # r
      BY <2>1, <3>1 DEF Begun
    <3>3. s # 0
      BY <2>3, VaultAssumption
    <3> QED BY <2>1, <2>7, <3>1, <3>2, <3>3 DEF RunsInv, Pairs, Verified
  <2>8. Spares(r)
    BY <2>6, <2>7 DEF Spares, RunsInv, Stamped
  <2>9. HeldBy(r)' /\ PackedBy(r)'
    BY <2>2 DEF HeldBy, PackedBy, At, Verified
  <2> QED BY <2>2, <2>5, <2>6, <2>8, <2>9, CopiesKept, StepOfOne
<1> QED BY <1>2, <1>3, <1>4

(* Whatever a run writes on, wherever it has been moved, was torn before.  *)
LEMMA MarkKeeps ==
  ASSUME NEW r \in Runs, RunsInv, FilesInv, Goes(r), UNCHANGED second, run'[r].pc = "verify",
         NEW to \in {"raw", "damaged"}, fs' = Marked(r, "torn", to)
  PROVE  RunsInv' /\ FilesInv'
<1>1. /\ FilesShaped'
      /\ \A f \in Names : /\ fs[f].st # "torn" \/ fs[f].by # r => fs'[f] = fs[f]
                          /\ fs'[f].by = fs[f].by
  BY Marking DEF FilesInv
<1>2. CopiesAreChecked'
  <2>1. \A t \in Seconds : fs'[Db(t)] = fs[Db(t)]
    BY <1>1, NamesApart DEF FilesInv, CopiesAreChecked, Db
  <2>2. fs'[Bundle] = fs[Bundle]
    BY <1>1, NamesApart DEF FilesInv, CopiesAreChecked
  <2> QED BY <2>1, <2>2, CopiesKept
<1>3. \A q \in Runs \ {r} : HeldBy(q)'
  <2>1. Spares(r)
    BY <1>1, NamesApart, NoFileFacts DEF Spares, FilesInv, Held, HeldBy, RunsInv, Stamped
  <2> QED BY <2>1, OthersHeld
<1>4. \A q \in Runs \ {r} : PackedBy(q)'
  BY <1>1, NamesApart DEF FilesInv, Packed, PackedBy, Goes, At
<1>5. HeldBy(r)' /\ PackedBy(r)'
  BY DEF HeldBy, PackedBy, At, Verified
<1> QED BY <1>1, <1>2, <1>3, <1>4, <1>5, GoingKeepsRuns DEF FilesInv, Held, Packed

LEMMA BackupVerifyKeeps ==
  ASSUME NEW r \in Runs, RunsInv, FilesInv, BackupVerifies(r)
  PROVE  RunsInv' /\ FilesInv'
<1> DEFINE s == run[r].stamp
<1> UNCHANGED second
  BY DEF BackupVerifies, Files
<1>1. run[r].cmd = "backup" /\ run[r].pc = "verify" /\ Shaped
  BY DEF BackupVerifies, At, RunsInv
<1>2. CASE ~(fs[Of(r, "db.partial")].st \in {"raw", "checked"})
  <2>1. fs' = Gone(fs, {Of(r, "db.partial"), Of(r, "yml.partial")}) /\ Ends(r)
    BY <1>2 DEF BackupVerifies, Discards
  <2> QED BY <1>1, <2>1, DiscardKeeps
<1>3. CASE fs[Of(r, "db.partial")].st \in {"raw", "checked"}
  <2>1. fs' = [fs EXCEPT ![DbPartial(s)].st = "checked"] /\ Steps(r, "copy")
    BY <1>3 DEF BackupVerifies, DbPartial, Of
  <2>2. Goes(r) /\ run'[r].pc = "copy" /\ run'[r].cmd = "backup"
    BY <1>1, <2>1, StepGoes
  <2>3. s \in Seconds /\ FilesShaped
    BY <1>1 DEF RunsInv, Stamped, FilesInv
  <2>4. DbPartial(s) \in Names
    BY <2>3, NamesApart
  <2>5. /\ FilesShaped' /\ fs'[DbPartial(s)].st = "checked"
        /\ \A f \in Names \ {DbPartial(s)} : fs'[f] = fs[f]
    BY <2>1, <2>3, <2>4, Passing
  <2>6. /\ \A t \in Seconds : fs'[Db(t)] = fs[Db(t)]
        /\ fs'[Bundle] = fs[Bundle] /\ fs'[Partial] = fs[Partial]
        /\ \A t \in Seconds \ {s} : fs'[DbPartial(t)] = fs[DbPartial(t)]
    BY <2>3, <2>5, NamesApart
  <2>7. Spares(r)
    BY <2>5, <2>6 DEF Spares, RunsInv, Stamped
  <2>8. HeldBy(r)' /\ PackedBy(r)'
    BY <2>2, <2>5 DEF HeldBy, PackedBy, At, Goes
  <2> QED BY <2>2, <2>5, <2>6, <2>7, <2>8, CopiesKept, StepOfOne
<1> QED BY <1>2, <1>3

(* The configuration's files are nobody's concern here.                    *)
LEMMA ConfigKeeps ==
  ASSUME NEW r \in Runs, RunsInv, FilesInv, Goes(r), UNCHANGED second,
         run[r].cmd = "backup", run[r].pc \in Verified, run'[r].cmd = "backup",
         FilesShaped',
         \A f \in Names \ {<<"yml", run[r].stamp>>, <<"yml.partial", run[r].stamp>>} : fs'[f] = fs[f]
  PROVE  RunsInv' /\ FilesInv'
<1>1. run[r].stamp \in Seconds
  BY DEF RunsInv, Stamped
<1>2. /\ \A t \in Seconds : fs'[Db(t)] = fs[Db(t)] /\ fs'[DbPartial(t)] = fs[DbPartial(t)]
      /\ fs'[Bundle] = fs[Bundle] /\ fs'[Partial] = fs[Partial]
  BY <1>1, NamesApart
<1>3. Spares(r)
  BY <1>2 DEF Spares, RunsInv, Stamped
<1>4. HeldBy(r)'
  <2>1. HeldBy(r) /\ fs'[DbPartial(run[r].stamp)] = fs[DbPartial(run[r].stamp)]
    BY <1>1, <1>2 DEF FilesInv, Held
  <2> QED BY <2>1 DEF HeldBy, Goes
<1>5. PackedBy(r)'
  BY DEF PackedBy, At
<1> QED BY <1>2, <1>3, <1>4, <1>5, CopiesKept, StepOfOne

LEMMA BackupConfigs ==
  ASSUME NEW r \in Runs, RunsInv, FilesInv, BackupCopies(r) \/ BackupNamesConfig(r)
  PROVE  RunsInv' /\ FilesInv'
<1> DEFINE a == <<"yml.partial", run[r].stamp>>
           b == <<"yml", run[r].stamp>>
<1> UNCHANGED second
  BY DEF BackupCopies, BackupNamesConfig, Files
<1>1. run[r].cmd = "backup" /\ run[r].pc \in {"copy", "yml"} /\ Shaped /\ run[r].stamp \in Seconds
  BY DEF BackupCopies, BackupNamesConfig, At, RunsInv, Stamped
<1>2. a \in Names /\ b \in Names /\ a # b /\ FilesShaped
  BY <1>1, NamesApart DEF FilesInv
<1>3. CASE BackupCopies(r)
  <2>1. fs' = [fs EXCEPT ![a] = [st |-> "checked", by |-> r, version |-> 0]] /\ Steps(r, "yml")
    BY <1>3 DEF BackupCopies, Of
  <2>2. Goes(r) /\ run'[r].cmd = "backup"
    BY <1>1, <2>1, StepGoes
  <2>3. FilesShaped' /\ \A f \in Names \ {a} : fs'[f] = fs[f]
    BY <1>2, <2>1, Putting
  <2> QED BY <1>1, <2>2, <2>3, ConfigKeeps DEF Verified
<1>4. CASE BackupNamesConfig(r) /\ There(Of(r, "yml.partial"))
  <2>1. fs' = Moved(a, b) /\ Steps(r, "db")
    BY <1>4 DEF BackupNamesConfig, Of
  <2>2. Goes(r) /\ run'[r].cmd = "backup"
    BY <1>1, <2>1, StepGoes
  <2>3. FilesShaped' /\ \A f \in Names \ {a, b} : fs'[f] = fs[f]
    BY <1>2, <2>1, Moving
  <2> QED BY <1>1, <2>2, <2>3, ConfigKeeps DEF Verified
<1>5. CASE BackupNamesConfig(r) /\ ~There(Of(r, "yml.partial"))
  <2>1. fs' = Gone(fs, {Of(r, "db.partial"), Of(r, "yml.partial")}) /\ Ends(r)
    BY <1>5 DEF BackupNamesConfig, Discards
  <2> QED BY <1>1, <2>1, DiscardKeeps
<1> QED BY <1>3, <1>4, <1>5

(* The name goes to a file that was verified: if the run's own is gone     *)
(* there is none to move.                                                  *)
LEMMA BackupNamesKeeps ==
  ASSUME NEW r \in Runs, RunsInv, FilesInv, BackupNamesDb(r)
  PROVE  RunsInv' /\ FilesInv'
<1> DEFINE s == run[r].stamp
<1> UNCHANGED second
  BY DEF BackupNamesDb, Files
<1>1. run[r].cmd = "backup" /\ run[r].pc = "db" /\ Shaped /\ s \in Seconds
  BY DEF BackupNamesDb, At, RunsInv, Stamped
<1>2. CASE fs' = Gone(fs, {Of(r, k) : k \in {"yml", "db.partial", "yml.partial"}}) /\ Ends(r)
  BY <1>1, <1>2, DiscardKeeps
<1>3. CASE /\ There(Of(r, "db.partial"))
           /\ fs' = Moved(Of(r, "db.partial"), Of(r, "db"))
           /\ IF run[r].keep > 0 THEN Steps(r, "list") ELSE Ends(r)
  <2>1. Goes(r) /\ run'[r].pc \in {"list", "over"}
    BY <1>1, <1>3, StepGoes, EndGoes
  <2>2. DbPartial(s) \in Names /\ Db(s) \in Names /\ DbPartial(s) # Db(s) /\ FilesShaped
    BY <1>1, NamesApart DEF FilesInv
  <2>3. fs' = Moved(DbPartial(s), Db(s)) /\ fs[DbPartial(s)] # NoFile
    BY <1>3 DEF Of, DbPartial, Db, There
  <2>4. /\ FilesShaped' /\ fs'[DbPartial(s)] = NoFile /\ fs'[Db(s)] = fs[DbPartial(s)]
        /\ \A f \in Names \ {DbPartial(s), Db(s)} : fs'[f] = fs[f]
    BY <2>2, <2>3, Moving
  <2>5. fs[DbPartial(s)].st = "checked"
    BY <1>1, <2>3 DEF FilesInv, Held, HeldBy, Verified
  <2>6. /\ \A t \in Seconds \ {s} : fs'[Db(t)] = fs[Db(t)] /\ fs'[DbPartial(t)] = fs[DbPartial(t)]
        /\ fs'[Bundle] = fs[Bundle] /\ fs'[Partial] = fs[Partial]
    BY <1>1, <2>4, NamesApart
  <2>7. CopiesAreChecked'
    BY <2>4, <2>5, <2>6 DEF FilesInv, CopiesAreChecked, Db
  <2>8. Spares(r)
    BY <2>1, <2>4, <2>6 DEF Spares, RunsInv, Stamped, Begun
  <2>9. HeldBy(r)' /\ PackedBy(r)'
    BY <2>1 DEF HeldBy, PackedBy, At, Verified
  <2> QED BY <2>1, <2>4, <2>6, <2>7, <2>8, <2>9, StepOfOne
<1> QED BY <1>2, <1>3 DEF BackupNamesDb

LEMMA BackupClears ==
  ASSUME NEW r \in Runs, RunsInv, FilesInv, BackupLists(r) \/ BackupPrunes(r)
  PROVE  RunsInv' /\ FilesInv'
<1> UNCHANGED second
  BY DEF BackupLists, BackupPrunes, Files
<1>1. run[r].pc \in {"list", "prune"} /\ Shaped /\ FilesShaped
  BY DEF BackupLists, BackupPrunes, At, RunsInv, FilesInv
<1>2. Goes(r) /\ run'[r].pc \in {"prune", "over"}
  <2>1. CASE Ends(r)
    BY <1>1, <2>1, EndGoes
  <2>2. CASE run' = [run EXCEPT ![r].pc = "prune", ![r].drop = {"db", "yml"} \X Beyond(run[r].keep)]
    <3>1. {"db", "yml"} \X Beyond(run[r].keep) \in SUBSET Droppable
      BY DEF Beyond, Stamps, Droppable
    <3> QED BY <1>1, <2>2, <3>1, TurnGoes
  <2>3. ASSUME NEW f, run[r].pc = "prune", run' = [run EXCEPT ![r].drop = @ \ {f}]
        PROVE  Goes(r) /\ run'[r].pc = "prune"
    BY <2>3, <1>1 DEF Goes, Shaped, Fields
  <2> QED BY <2>1, <2>2, <2>3 DEF BackupLists, BackupPrunes, At
<1>3. HeldBy(r)' /\ PackedBy(r)'
  BY <1>2 DEF HeldBy, PackedBy, At, Verified
<1>4. CASE UNCHANGED fs
  BY <1>2, <1>3, <1>4, LeavesFiles
<1>5. ASSUME NEW f, f[1] \in {"db", "yml"}, fs' = Gone(fs, {f})
      PROVE  RunsInv' /\ FilesInv'
  <2>1. FilesShaped' /\ \A g \in Names : fs'[g] = IF g \in {f} THEN NoFile ELSE fs[g]
    BY <1>1, <1>5, Removing
  <2>2. /\ \A t \in Seconds : f # DbPartial(t)
        /\ f # Bundle /\ f # Partial
    BY <1>5 DEF DbPartial, Bundle, Partial
  <2>3. /\ \A t \in Seconds : fs'[Db(t)] \in {fs[Db(t)], NoFile} /\ fs'[DbPartial(t)] = fs[DbPartial(t)]
        /\ fs'[Bundle] = fs[Bundle] /\ fs'[Partial] = fs[Partial]
    BY <2>1, <2>2, NamesApart
  <2>4. Spares(r)
    BY <2>3 DEF Spares, RunsInv, Stamped
  <2> QED BY <1>2, <1>3, <2>1, <2>3, <2>4, CopiesKept, StepOfOne
<1>6. ASSUME NEW f \in First(run[r].drop), BackupPrunes(r), fs' = Gone(fs, {f})
      PROVE  f[1] \in {"db", "yml"}
  <2>1. f \in Droppable
    BY <1>6 DEF First, RunsInv, Drops
  <2> QED BY <2>1 DEF Droppable
<1>7. CASE \E f \in First(run[r].drop) : BackupPrunes(r) /\ fs' = Gone(fs, {f})
  BY <1>5, <1>6, <1>7
<1> QED BY <1>4, <1>7 DEF BackupLists, BackupPrunes

LEMMA BackupKeeps ==
  ASSUME NEW r \in Runs, RunsInv, FilesInv, BackupStep(r)
  PROVE  RunsInv' /\ FilesInv'
<1>1. CASE BackupWrites(r)
  <2>1. run[r].pc = "write" /\ Steps(r, "verify") /\ UNCHANGED second
        /\ \E to \in {"raw", "damaged"} : fs' = Marked(r, "torn", to)
    BY <1>1 DEF BackupWrites, At, Files
  <2>2. Goes(r) /\ run'[r].pc = "verify"
    BY <2>1, StepGoes DEF RunsInv
  <2> QED BY <2>1, <2>2, MarkKeeps
<1>2. CASE BackupFails(r)
  <2>1. /\ fs' = Gone(fs, {Of(r, "db.partial"), Of(r, "yml.partial")}) /\ Ends(r)
        /\ UNCHANGED second /\ run[r].cmd = "backup" /\ run[r].pc \notin {"off", "over"}
    BY <1>2 DEF BackupFails, Discards, Files
  <2> QED BY <2>1, DiscardKeeps
<1> QED BY <1>1, <1>2, BackupBegins, BackupVerifyKeeps, BackupConfigs, BackupNamesKeeps, BackupClears
        DEF BackupStep

---------------------------------------------------------------------------
(* Exports: only the one at work writes the partial file.                  *)
LEMMA ExportDrops ==
  ASSUME NEW r \in Runs, RunsInv, FilesInv, Goes(r), UNCHANGED second, run[r].cmd = "export",
         HeldBy(r)', PackedBy(r)', FilesShaped', \A f \in Names \ {Partial} : fs'[f] = fs[f]
  PROVE  RunsInv' /\ FilesInv'
<1>1. /\ \A t \in Seconds : fs'[Db(t)] = fs[Db(t)] /\ fs'[DbPartial(t)] = fs[DbPartial(t)]
      /\ fs'[Bundle] = fs[Bundle]
  BY NamesApart
<1>2. Spares(r)
  BY <1>1 DEF Spares, RunsInv, Stamped
<1> QED BY <1>1, <1>2, CopiesKept, StepOfOne

LEMMA ExportFailing ==
  ASSUME NEW r \in Runs, RunsInv, FilesInv, run[r].pc \notin {"off", "over"},
         run[r].cmd = "export", UNCHANGED second, Ends(r), fs' = Gone(fs, {Partial})
  PROVE  RunsInv' /\ FilesInv'
<1>1. Goes(r) /\ run'[r].cmd = "none"
  BY EndGoes DEF RunsInv
<1>2. FilesShaped' /\ \A f \in Names \ {Partial} : fs'[f] = fs[f]
  BY Removing DEF FilesInv
<1> QED BY <1>1, <1>2, OverHolds, ExportDrops

LEMMA ExportKeeps ==
  ASSUME NEW r \in Runs, RunsInv, FilesInv, ExportStep(r)
  PROVE  RunsInv' /\ FilesInv'
<1>1. run[r].cmd = "export" /\ run[r].pc \notin {"off", "over"} /\ UNCHANGED second
  BY DEF ExportStep, ExportLooks, ExportSnapshots, ExportCreates, ExportWrites, ExportVerifies,
         ExportNames, ExportFails, At, Files
<1>2. Shaped /\ FilesShaped /\ Partial \in Names /\ Bundle \in Names /\ Partial # Bundle
  BY NamesApart DEF RunsInv, FilesInv
<1>3. CASE fs' = Gone(fs, {Partial}) /\ Ends(r)
  BY <1>1, <1>3, ExportFailing
<1>4. CASE ExportLooks(r) \/ ExportSnapshots(r)
  <2>1. Goes(r) /\ UNCHANGED fs /\ run'[r].pc \in {"over", "snapshot", "create"}
    <3>1. CASE Ends(r) /\ UNCHANGED fs
      BY <1>1, <1>2, <3>1, EndGoes
    <3>2. CASE ExportLooks(r) /\ Steps(r, "snapshot")
      BY <1>1, <1>2, <3>2, StepGoes DEF ExportLooks, At
    <3>3. CASE ExportSnapshots(r)
      BY <1>1, <1>2, <3>3, TurnGoes DEF ExportSnapshots
    <3> QED BY <1>4, <3>1, <3>2, <3>3 DEF ExportLooks
  <2>2. HeldBy(r)' /\ PackedBy(r)'
    BY <2>1 DEF HeldBy, PackedBy, At, Verified
  <2> QED BY <1>1, <2>1, <2>2, LeavesFiles
<1>5. CASE ExportCreates(r) /\ ~There(Partial)
  <2>1. /\ fs' = [fs EXCEPT ![Partial] = [st |-> "torn", by |-> r, version |-> run[r].seen]]
        /\ Steps(r, "write")
    BY <1>5 DEF ExportCreates
  <2>2. Goes(r) /\ run'[r].pc = "write"
    BY <1>1, <1>2, <2>1, StepGoes
  <2>3. FilesShaped' /\ \A f \in Names \ {Partial} : fs'[f] = fs[f]
    BY <1>2, <2>1, Putting
  <2>4. HeldBy(r)' /\ PackedBy(r)'
    BY <2>2 DEF HeldBy, PackedBy, At, Verified
  <2> QED BY <1>1, <2>2, <2>3, <2>4, ExportDrops
<1>6. CASE ExportWrites(r)
  <2>1. Steps(r, "verify") /\ \E to \in {"raw", "damaged"} : fs' = Marked(r, "torn", to)
    BY <1>6 DEF ExportWrites
  <2>2. Goes(r) /\ run'[r].pc = "verify"
    BY <1>1, <1>2, <2>1, StepGoes
  <2> QED BY <1>1, <2>1, <2>2, MarkKeeps
<1>7. CASE ExportVerifies(r) /\ ReadsWell(r)
  <2>1. fs' = [fs EXCEPT ![Partial].st = "checked"] /\ Steps(r, "name")
    BY <1>7 DEF ExportVerifies, ReadsWell
  <2>2. Goes(r) /\ run'[r].pc = "name" /\ run'[r].cmd = "export"
    BY <1>1, <1>2, <2>1, StepGoes
  <2>3. FilesShaped' /\ fs'[Partial].st = "checked" /\ \A f \in Names \ {Partial} : fs'[f] = fs[f]
    BY <1>2, <2>1, Passing
  <2>4. HeldBy(r)' /\ PackedBy(r)'
    BY <2>2, <2>3 DEF HeldBy, PackedBy
  <2> QED BY <1>1, <2>2, <2>3, <2>4, ExportDrops
<1>8. CASE ExportNames(r)
  <2>1. Goes(r) /\ run'[r].cmd = "none" /\ run[r].pc = "name"
    BY <1>1, <1>2, <1>8, EndGoes DEF ExportNames, At
  <2>2. fs[Partial].st = "checked"
    BY <1>1, <2>1 DEF FilesInv, Packed, PackedBy, At
  <2>3. fs' = Moved(Partial, Bundle)
    BY <1>8, <2>2, NoFileFacts DEF ExportNames, There
  <2>4. /\ FilesShaped' /\ fs'[Bundle] = fs[Partial]
        /\ \A f \in Names \ {Partial, Bundle} : fs'[f] = fs[f]
    BY <1>2, <2>3, Moving
  <2>5. \A t \in Seconds : fs'[Db(t)] = fs[Db(t)] /\ fs'[DbPartial(t)] = fs[DbPartial(t)]
    BY <2>4, NamesApart
  <2>6. CopiesAreChecked'
    BY <2>2, <2>4, <2>5 DEF FilesInv, CopiesAreChecked, Db
  <2>7. Spares(r)
    BY <2>5 DEF Spares, RunsInv, Stamped
  <2> QED BY <1>1, <2>1, <2>4, <2>6, <2>7, OverHolds, StepOfOne
<1>9. ExportFails(r) => fs' = Gone(fs, {Partial}) /\ Ends(r)
  BY DEF ExportFails
<1>10. /\ ExportCreates(r) /\ There(Partial) => fs' = Gone(fs, {Partial}) /\ Ends(r)
       /\ ExportVerifies(r) /\ ~ReadsWell(r) => fs' = Gone(fs, {Partial}) /\ Ends(r)
  BY DEF ExportCreates, ExportVerifies
<1> QED BY <1>3, <1>4, <1>5, <1>6, <1>7, <1>8, <1>9, <1>10 DEF ExportStep

---------------------------------------------------------------------------
(* The other commands have nothing to do with these files.                 *)
LEMMA OthersGo ==
  ASSUME NEW r \in Runs, Shaped, OpenStep(r) \/ MakeStep(r)
  PROVE  Goes(r) /\ run'[r].cmd \notin {"backup", "export"} /\ UNCHANGED <<fs, second>>
<1>1. run[r].cmd \in {"open", "import", "init"} /\ run[r].pc \notin {"off", "over"} /\ UNCHANGED <<fs, second>>
  BY DEF OpenStep, Connects, Migrates, Closes, MakeStep, Looks, ImportChecks, Builds, Clears, Places,
         Stays, Files, At
<1>2. Ends(r) => Goes(r) /\ run'[r].cmd \in {run[r].cmd, "none"}
  BY <1>1, EndGoes
<1>3. ASSUME NEW pc, pc \notin {"off", "start", "snapshot"}, Steps(r, pc)
      PROVE  Goes(r) /\ run'[r].cmd \in {run[r].cmd, "none"}
  BY <1>1, <1>3, StepGoes
<1>4. {} \in SUBSET Droppable
  OBVIOUS
<1>5. ASSUME NEW pc, pc \notin {"off", "start", "snapshot"}, NEW s,
             run' = [run EXCEPT ![r].pc = pc, ![r].seen = s]
      PROVE  Goes(r) /\ run'[r].cmd \in {run[r].cmd, "none"}
  BY <1>1, <1>4, <1>5, TurnGoes
<1>6. ASSUME NEW pc, pc \notin {"off", "start", "snapshot"}, NEW k,
             run' = [run EXCEPT ![r].pc = pc, ![r].keep = k]
      PROVE  Goes(r) /\ run'[r].cmd \in {run[r].cmd, "none"}
  BY <1>1, <1>4, <1>6, TurnGoes
<1>7. ASSUME NEW pc, pc \notin {"off", "start", "snapshot"}, NEW a, NEW s,
             run' = [run EXCEPT ![r].pc = pc, ![r].at = a, ![r].seen = s]
      PROVE  Goes(r) /\ run'[r].cmd \in {run[r].cmd, "none"}
  BY <1>1, <1>4, <1>7, TurnGoes
<1>8. run' = [run EXCEPT ![r].seen = @ + 1] /\ run[r].pc = "migrate"
        => Goes(r) /\ run'[r].cmd \in {run[r].cmd, "none"}
  BY <1>1 DEF Goes, Shaped, Fields
<1>9. Connects(r) => Goes(r) /\ run'[r].cmd \in {run[r].cmd, "none"}
  BY <1>2, <1>3, <1>5 DEF Connects, Compares
<1>10. Migrates(r) \/ Closes(r) => Goes(r) /\ run'[r].cmd \in {run[r].cmd, "none"}
  BY <1>2, <1>3, <1>8 DEF Migrates, Closes, At
<1>11. Looks(r) => Goes(r) /\ run'[r].cmd \in {run[r].cmd, "none"}
  <2>1. (IF run[r].cmd = "init" THEN "build" ELSE "check") \notin {"off", "start", "snapshot"}
    OBVIOUS
  <2> QED BY <1>2, <1>6, <2>1 DEF Looks
<1>12. ImportChecks(r) => Goes(r) /\ run'[r].cmd \in {run[r].cmd, "none"}
  <2>1. run' = [run EXCEPT ![r].pc = "build", ![r].at = fs[Bundle].by, ![r].seen = fs[Bundle].version]
          => Goes(r) /\ run'[r].cmd \in {run[r].cmd, "none"}
    BY <1>7
  <2> QED BY <1>2, <2>1 DEF ImportChecks
<1>13. Builds(r) => Goes(r) /\ run'[r].cmd \in {run[r].cmd, "none"}
  <2>1. run' = [run EXCEPT ![r].pc = "clear", ![r].at = 0, ![r].seen = run[r].schema]
          => Goes(r) /\ run'[r].cmd \in {run[r].cmd, "none"}
    BY <1>7
  <2> QED BY <1>2, <2>1 DEF Builds
<1>14. Clears(r) \/ Places(r) => Goes(r) /\ run'[r].cmd \in {run[r].cmd, "none"}
  BY <1>2, <1>3 DEF Clears, Places, MakesNothing
<1> QED BY <1>1, <1>9, <1>10, <1>11, <1>12, <1>13, <1>14 DEF OpenStep, MakeStep

LEMMA OthersKeep ==
  ASSUME NEW r \in Runs, RunsInv, FilesInv, OpenStep(r) \/ MakeStep(r) \/ Crash(r)
  PROVE  RunsInv' /\ FilesInv'
<1>1. Goes(r) /\ run'[r].cmd \notin {"backup", "export"} /\ UNCHANGED <<fs, second>>
  <2>1. CASE Crash(r)
    BY <2>1, EndGoes DEF Crash, Files, RunsInv
  <2> QED BY <2>1, OthersGo DEF RunsInv
<1>2. HeldBy(r)' /\ PackedBy(r)'
  BY <1>1 DEF HeldBy, PackedBy, At
<1> QED BY <1>1, <1>2, LeavesFiles

(* A run begins.                                                           *)
LEMMA StartKeeps ==
  ASSUME NEW r \in Runs, RunsInv, FilesInv, Roomy, Starts(r)
  PROVE  RunsInv' /\ FilesInv'
<1>1. /\ Shaped' /\ \A q \in Runs \ {r} : run'[q] = run[q]
      /\ run[r].pc = "off" /\ run'[r].pc = "start" /\ run'[r].drop = {}
      /\ run'[r].stamp = IF run'[r].cmd = "backup" THEN second ELSE 0
      /\ UNCHANGED <<fs, second>>
  <2>1. PICK cmd \in Commands, n \in Schemas, k \in Keeps :
          run' = [run EXCEPT ![r] =
                   [Off EXCEPT !.cmd = cmd, !.pc = "start",
                               !.schema = IF cmd \in {"open", "import", "init"} THEN n ELSE 0,
                               !.stamp = IF cmd = "backup" THEN second ELSE 0,
                               !.keep = IF cmd = "backup" THEN k ELSE 0]]
    BY DEF Starts
  <2> QED BY <2>1 DEF Starts, Files, RunsInv, Shaped, Off, Fields
<1>2. Uncrowded(r)
  BY <1>1 DEF Roomy
<1>3. Stamped' /\ Drops'
  BY <1>1 DEF RunsInv, Stamped, Drops
<1>4. Solo'
  BY <1>1, <1>2 DEF RunsInv, Solo, Uncrowded
<1>5. Pairs'
  <2> SUFFICES ASSUME NEW a \in Runs, NEW b \in Runs, NEW c \in Runs, a # b, b # c, a # c,
                      run'[a].stamp = run'[b].stamp, run'[b].stamp = run'[c].stamp, run'[a].stamp # 0
               PROVE  run'[a].pc = "over" \/ run'[b].pc = "over"
    BY DEF Pairs
  <2>1. CASE r \notin {a, b, c}
    BY <1>1, <2>1 DEF RunsInv, Pairs
  <2>2. CASE r \in {a, b, c}
    <3>1. run'[r].cmd = "backup" /\ run'[a].stamp = second /\ run'[b].stamp = second /\ run'[c].stamp = second
      BY <1>1, <2>2
    <3> QED BY <1>1, <1>2, <2>2, <3>1 DEF Uncrowded
  <2> QED BY <2>1, <2>2
<1>6. ASSUME NEW q \in Runs PROVE HeldBy(q)' /\ PackedBy(q)'
  <2>1. CASE q = r
    BY <1>1, <2>1 DEF HeldBy, PackedBy, At, Verified
  <2>2. CASE q # r
    <3>1. run'[q] = run[q] /\ fs' = fs /\ HeldBy(q) /\ PackedBy(q)
      BY <1>1, <2>2 DEF FilesInv, Held, Packed
    <3>2. \A w \in Runs \ {q} : run[w].pc \notin Begun => run'[w] = run[w]
      BY <1>1 DEF Begun
    <3> QED BY <3>1, <3>2 DEF HeldBy, PackedBy, At
  <2> QED BY <2>1, <2>2
<1>7. FilesShaped' /\ CopiesAreChecked'
  BY <1>1 DEF FilesInv, FilesShaped, CopiesAreChecked
<1> QED BY <1>1, <1>3, <1>4, <1>5, <1>6, <1>7 DEF RunsInv, FilesInv, Held, Packed

(* A bundle from elsewhere is not one a run made.                          *)
LEMMA BroughtKeeps ==
  ASSUME RunsInv, FilesInv, Brought
  PROVE  RunsInv' /\ FilesInv'
<1>1. PICK given \in Given : fs' = [fs EXCEPT ![Bundle] = given]
  BY DEF Brought
<1>2. DOMAIN given = {"st", "by", "version"} /\ given.by \notin Runs /\ (given.st = "none" => given = NoFile)
  BY NoFileFacts DEF Given
<1>3. /\ FilesShaped' /\ fs'[Bundle] = given /\ \A f \in Names \ {Bundle} : fs'[f] = fs[f]
  BY <1>1, <1>2, NamesApart DEF FilesInv, FilesShaped
<1>4. /\ \A t \in Seconds : fs'[Db(t)] = fs[Db(t)] /\ fs'[DbPartial(t)] = fs[DbPartial(t)]
      /\ fs'[Partial] = fs[Partial]
  BY <1>3, NamesApart
<1>5. UNCHANGED <<run, second>>
  BY DEF Brought
<1>6. CopiesAreChecked'
  BY <1>2, <1>3, <1>4 DEF FilesInv, CopiesAreChecked, Db
<1>7. Held'
  BY <1>4, <1>5 DEF FilesInv, Held, HeldBy, RunsInv, Stamped
<1>8. Packed'
  BY <1>4, <1>5 DEF FilesInv, Packed, PackedBy, At
<1>9. RunsInv'
  BY <1>5 DEF RunsInv, Shaped, Drops, Stamped, Pairs, Solo
<1> QED BY <1>3, <1>6, <1>7, <1>8, <1>9 DEF FilesInv

LEMMA CopiesStep ==
  ASSUME RunsInv, FilesInv, Roomy \/ UNCHANGED vars, [Next]_vars
  PROVE  RunsInv' /\ FilesInv'
<1>1. CASE Tick \/ UNCHANGED vars
  <2>1. UNCHANGED <<fs, run>> /\ second' \in Seconds
    BY <1>1 DEF Tick, vars, RunsInv, Stamped
  <2> QED BY <2>1 DEF RunsInv, Shaped, Drops, Stamped, Pairs, Solo,
             FilesInv, FilesShaped, CopiesAreChecked, Held, HeldBy, Packed, PackedBy, At
<1>2. ASSUME Next, Roomy, ~Tick PROVE RunsInv' /\ FilesInv'
  BY <1>2, StartKeeps, BackupKeeps, ExportKeeps, OthersKeep, BroughtKeeps DEF Next
<1> QED BY <1>1, <1>2

LEMMA CopiesInit == Init => RunsInv /\ FilesInv
<1> SUFFICES ASSUME Init PROVE RunsInv /\ FilesInv
  OBVIOUS
<1>1. RunsInv
  BY DEF Init, RunsInv, Shaped, Drops, Stamped, Pairs, Solo, Off, Fields
<1>2. PICK given \in Given : fs = [f \in Names |-> IF f = Bundle THEN given ELSE NoFile]
  BY DEF Init
<1>3. DOMAIN given = {"st", "by", "version"} /\ given.by \notin Runs /\ (given.st = "none" => given = NoFile)
  BY NoFileFacts DEF Given
<1>4. FilesShaped
  BY <1>2, <1>3, NoFileFacts DEF FilesShaped
<1>5. CopiesAreChecked
  BY <1>2, <1>3, NamesApart, NoFileFacts DEF CopiesAreChecked, Db
<1>6. Held /\ Packed
  BY DEF Init, Held, HeldBy, Packed, PackedBy, At, Off
<1> QED BY <1>1, <1>4, <1>5, <1>6 DEF FilesInv

(* What has a backup's or a bundle's name was verified (backup.go: "a      *)
(* nooma-*.db in dest is always a complete, checked backup"; export.go),   *)
(* wherever runs fail, crash, take away each other's files and prune, as   *)
(* long as no third backup of a second begins beside another and exports   *)
(* do not overlap.                                                         *)
THEOREM CopiesStayChecked == Spec /\ [][Roomy]_vars => []CopiesAreChecked
<1>1. RunsInv /\ FilesInv /\ [Next]_vars /\ [Roomy]_vars => RunsInv' /\ FilesInv'
  BY CopiesStep
<1>2. FilesInv => CopiesAreChecked
  BY DEF FilesInv
<1> QED BY <1>1, <1>2, CopiesInit, PTL DEF Spec

===========================================================================
