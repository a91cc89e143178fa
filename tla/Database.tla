------------------------------ MODULE Database ------------------------------
(***************************************************************************)
(* The database of the service and the processes that open it: the server, *)
(* which migrates it at every start; two runs of the backup command to one *)
(* destination; the restore drill of an existing artifact; the purge of a  *)
(* provider's rows; and the operator, who discards artifacts and puts a    *)
(* verified one in the place of the database.  Any process may be killed   *)
(* between two of its steps, a file operation may fail, and the power may  *)
(* go: then what was not synchronised may be gone.                         *)
(*                                                                         *)
(* SQLite commits of the live database are atomic and durable; a           *)
(* connection that has read holds a shared lock until it closes.           *)
(***************************************************************************)
EXTENDS DatabaseSchema

CONSTANTS
    Backups,        \* runs of the backup command
    Drill,          \* the run of the restore verification
    Databases,      \* what the live database may be at first
    Artifacts,      \* what may already lie at the destination
    MaxRows,        \* bound: application writes
    MaxFaults       \* bound: kills, failed operations, power losses

(* A file: its image, and whether its bytes are on stable storage. *)
File == [image: Image, synced: BOOLEAN]

ASSUME DatabaseAssumption ==
    /\ Drill \notin Backups
    /\ None \notin Image \cup Secrets \cup File
    /\ Databases \subseteq Image
    /\ \A im \in Databases : im.version > Current \/ Consistent(im)
    /\ Artifacts \subseteq Image
    /\ \A im \in Artifacts : im.sound /\ (im.version > Current \/ Consistent(im))
    /\ MaxRows \in Nat /\ MaxFaults \in Nat

VARIABLES
    live,       \* the live database as a reader sees it, WAL included
    files,      \* its files: wal holds frames, mode, deleted pages not yet reclaimed
    server,     \* down, opened (migrated), up, or refused
    purge,      \* the step the purge has reached
    dest,       \* the destination of the backups: None or a file
    durable,    \* what is there after a loss of power
    run,        \* the runs of the backup command and of the drill
    adopted,    \* the operator has put a verified artifact in place
    faults

vars == <<live, files, server, purge, dest, durable, run, adopted, faults>>

Runs == Backups \cup {Drill}

(* A run: its step; the rows committed when it began; its staged file; for *)
(* the drill, the image it inspected and copied.  A run that has reported  *)
(* a failure is idle again.                                                *)
Run == [step: {"idle", "reading", "staged", "copied", "drilled", "verified",
               "linked", "synced", "failing", "done"},
        from: Nat,
        file: File \cup {None},
        seen: Image \cup {None}]

Idle == [step |-> "idle", from |-> 0, file |-> None, seen |-> None]

(* Has reported that its artifact is verified. *)
Reported(r) == run[r].step = "done"

Purges == {"idle", "opened", "journal", "locked", "deleted", "restored", "ok"}

TypeOK ==
    /\ live \in Image
    /\ files \in [wal: BOOLEAN, mode: {"wal", "delete"}, free: BOOLEAN]
    /\ server \in {"down", "opened", "up", "refused"}
    /\ purge \in Purges
    /\ dest \in File \cup {None}
    /\ durable \in File \cup {None}
    /\ run \in [Runs -> Run]
    /\ adopted \in BOOLEAN
    /\ faults \in 0..MaxFaults

Init ==
    /\ live \in Databases
    /\ files = [wal |-> FALSE, mode |-> "wal", free |-> FALSE]
    /\ server = "down"
    /\ purge = "idle"
    /\ dest \in {None} \cup {[image |-> im, synced |-> TRUE] : im \in Artifacts}
    /\ durable = dest
    /\ run = [r \in Runs |-> Idle]
    /\ adopted = FALSE
    /\ faults = 0

-----------------------------------------------------------------------------
(* Locks. *)

(* From BEGIN EXCLUSIVE to the return to normal locking no one else reads. *)
Locked == purge \in {"locked", "deleted"}

ServerConnected == server \in {"opened", "up"}

(* Connections of other processes the purge has to reckon with. *)
Connected == ServerConnected \/ \E r \in Backups : run[r].step = "reading"

-----------------------------------------------------------------------------
(* The server. *)

(* new Store(dbPath): a newer schema is refused, anything else is migrated *)
(* in one transaction.                                                     *)
OpenStore(secret) == live' = Migrate(live, secret)

Start ==
    /\ server = "down"
    /\ ~Locked
    /\ files' = [files EXCEPT !.mode = "wal"]
    /\ IF live.version > Current
       THEN server' = "refused" /\ UNCHANGED live
       ELSE server' = "opened" /\ \E secret \in Secrets : OpenStore(secret)
    /\ UNCHANGED <<purge, dest, durable, run, adopted, faults>>

(* A transaction of its own, after the one of the migration. *)
Prepare ==
    /\ server = "opened"
    /\ live' = PrepareActorMethod(live)
    /\ server' = "up"
    /\ UNCHANGED <<files, purge, dest, durable, run, adopted, faults>>

(* The workers write provider rows and actor evidence. *)
Write ==
    /\ server = "up"
    /\ live.rows < MaxRows
    /\ live' = [live EXCEPT !.rows = @ + 1, !.provider = TRUE, !.actors = live.method]
    /\ files' = [files EXCEPT !.wal = TRUE]
    /\ UNCHANGED <<server, purge, dest, durable, run, adopted, faults>>

(* The process ends, by a stop or a crash; what it committed stays. *)
Stop ==
    /\ server # "down"
    /\ server' = "down"
    /\ UNCHANGED <<live, files, purge, dest, durable, run, adopted, faults>>

-----------------------------------------------------------------------------
(* The backup command and the drill. *)

Advance(r, step) == run' = [run EXCEPT ![r].step = step]
(* From an error to the finally block, which removes the staging directory. *)
Failing(b) == run' = [run EXCEPT ![b] = [Idle EXCEPT !.step = "failing"]]
Reset(r) == run' = [run EXCEPT ![r] = Idle]

(* regularFile and destinationPath: an existing destination is refused     *)
(* before anything is staged; then the live database is inspected over a   *)
(* read-only connection.                                                   *)
BeginBackup(b) ==
    /\ run[b].step = "idle"
    /\ dest = None
    /\ IF ~Locked /\ Inspected(live, FALSE)
       THEN run' = [run EXCEPT ![b] = [Idle EXCEPT !.step = "reading", !.from = live.rows]]
       ELSE Failing(b)
    /\ UNCHANGED <<live, files, server, purge, dest, durable, adopted, faults>>

(* Mutant: the staged file is not synchronised. *)
MutantSnapshot(b) ==
    /\ run[b].step = "reading"
    /\ run' = [run EXCEPT ![b].step = "staged", ![b].file = [image |-> live, synced |-> FALSE]]
    /\ UNCHANGED <<live, files, server, purge, dest, durable, adopted, faults>>

(* VACUUM INTO takes a snapshot of what is committed when the statement    *)
(* runs; the connection closes; the staged file is synchronised.           *)
Snapshot(b) ==
    /\ run[b].step = "reading"
    /\ run' = [run EXCEPT ![b].step = "staged", ![b].file = [image |-> live, synced |-> TRUE]]
    /\ UNCHANGED <<live, files, server, purge, dest, durable, adopted, faults>>

(* verifyRestorableBackup of the staged file, which nobody else knows. *)
VerifyStaged(b) ==
    /\ run[b].step = "staged"
    /\ IF /\ Inspected(run[b].file.image, TRUE)
          /\ \A secret \in Secrets : Restorable(run[b].file.image, secret)
       THEN Advance(b, "verified") ELSE Failing(b)
    /\ UNCHANGED <<live, files, server, purge, dest, durable, adopted, faults>>

(* Mutant: the file is renamed into place. *)
MutantPublish(b) ==
    /\ run[b].step = "verified"
    /\ dest' = run[b].file /\ Advance(b, "linked")
    /\ UNCHANGED <<live, files, server, purge, durable, adopted, faults>>

(* link(2) never replaces an existing entry. *)
Publish(b) ==
    /\ run[b].step = "verified"
    /\ IF dest = None
       THEN dest' = run[b].file /\ Advance(b, "linked")
       ELSE Failing(b) /\ UNCHANGED dest
    /\ UNCHANGED <<live, files, server, purge, durable, adopted, faults>>

SyncEntry(b) ==
    /\ run[b].step = "linked"
    /\ durable' = dest
    /\ Advance(b, "synced")
    /\ UNCHANGED <<live, files, server, purge, dest, adopted, faults>>

(* The finally block: the staging directory is removed and the directory   *)
(* synchronised once more, after a success and after a failure.            *)
Clean(b) ==
    /\ run[b].step \in {"synced", "failing"}
    /\ durable' = dest
    /\ IF run[b].step = "synced"
       THEN run' = [run EXCEPT ![b].step = "done", ![b].file = None]
       ELSE Reset(b)
    /\ UNCHANGED <<live, files, server, purge, dest, adopted, faults>>

(* Any file operation may fail.  After the link the file stays where it is *)
(* and the command reports a failure; so it does when only the finally     *)
(* block fails.                                                            *)
FileFails(b) ==
    /\ faults < MaxFaults
    /\ faults' = faults + 1
    /\ \/ run[b].step \notin {"idle", "done", "synced", "failing"} /\ Failing(b)
       \/ run[b].step \in {"synced", "failing"} /\ Reset(b)
    /\ UNCHANGED <<live, files, server, purge, dest, durable, adopted>>

(* The process is killed; no finally block runs. *)
Kill(r) ==
    /\ faults < MaxFaults
    /\ faults' = faults + 1
    /\ run[r].step \notin {"idle", "done"}
    /\ Reset(r)
    /\ UNCHANGED <<live, files, server, purge, dest, durable, adopted>>

-----------------------------------------------------------------------------
(* The restore drill of the artifact at the destination, in its steps,     *)
(* because the operator may put another file there meanwhile.              *)

(* The artifact is inspected and copied, and the copy inspected and        *)
(* compared with it.                                                       *)
CopyArtifact ==
    /\ run[Drill].step \in {"idle", "done"}
    /\ dest # None
    /\ run' = [run EXCEPT ![Drill] =
                 IF Inspected(dest.image, TRUE)
                 THEN [Idle EXCEPT !.step = "copied", !.seen = dest.image] ELSE Idle]
    /\ UNCHANGED <<live, files, server, purge, dest, durable, adopted, faults>>

(* The copy, and only the copy, is migrated, written to and inspected. *)
DrillCopy ==
    /\ run[Drill].step = "copied"
    /\ IF \A secret \in Secrets : Restorable(run[Drill].seen, secret)
       THEN Advance(Drill, "drilled") ELSE Reset(Drill)
    /\ UNCHANGED <<live, files, server, purge, dest, durable, adopted, faults>>

(* The artifact is still the file that was inspected. *)
Recheck ==
    /\ run[Drill].step = "drilled"
    /\ IF dest # None /\ dest.image = run[Drill].seen
       THEN run' = [run EXCEPT ![Drill] = [Idle EXCEPT !.step = "done"]] ELSE Reset(Drill)
    /\ UNCHANGED <<live, files, server, purge, dest, durable, adopted, faults>>

-----------------------------------------------------------------------------
(* The purge of a provider's rows. *)

PurgeStep(step) == purge' = step /\ UNCHANGED <<server, dest, durable, run, adopted, faults>>

(* The command checks that the file is a database of this release before   *)
(* it opens it as the application would.                                   *)
OpenPurge ==
    /\ purge \in {"idle", "ok"}
    /\ live.sound /\ live.version = Current /\ "outcome" \in live.groups
    /\ \E secret \in Secrets : OpenStore(secret)
    /\ files' = [files EXCEPT !.mode = "wal"]
    /\ PurgeStep("opened")

(* wal_checkpoint(TRUNCATE), which may find the database busy while        *)
(* someone else is connected, then journal_mode=DELETE, which needs every  *)
(* other connection closed.                                                *)
LeaveWal ==
    /\ purge = "opened"
    /\ IF Connected
       THEN PurgeStep("idle") /\ files' \in {files, [files EXCEPT !.wal = FALSE]}
       ELSE PurgeStep("journal") /\ files' = [files EXCEPT !.wal = FALSE, !.mode = "delete"]
    /\ UNCHANGED live

(* Mutant: the transaction is begun without excluding anybody. *)
MutantLock ==
    /\ purge = "journal"
    /\ PurgeStep("locked") /\ UNCHANGED <<live, files>>

(* BEGIN EXCLUSIVE; a refusal puts the journal mode back. *)
Lock ==
    /\ purge = "journal"
    /\ IF Connected
       THEN PurgeStep("idle") /\ files' = [files EXCEPT !.mode = "wal"]
       ELSE PurgeStep("locked") /\ UNCHANGED files
    /\ UNCHANGED live

DeleteRows ==
    /\ purge = "locked"
    /\ live' = [live EXCEPT !.provider = FALSE]
    /\ files' = [files EXCEPT !.free = live.provider]
    /\ PurgeStep("deleted")

(* VACUUM, an empty freelist, normal locking and WAL mode again. *)
Vacuum ==
    /\ purge = "deleted"
    /\ files' = [files EXCEPT !.free = FALSE, !.mode = "wal"]
    /\ PurgeStep("restored")
    /\ UNCHANGED live

FinalCheckpoint ==
    /\ purge = "restored"
    /\ \/ files' = [files EXCEPT !.wal = FALSE] /\ PurgeStep("ok")
       \/ Connected /\ PurgeStep("idle") /\ UNCHANGED files
    /\ UNCHANGED live

(* Killed, or failed where nothing but the journal mode is left to put back. *)
KillPurge ==
    /\ purge \notin {"idle", "ok"}
    /\ faults < MaxFaults
    /\ faults' = faults + 1
    /\ purge' = "idle"
    /\ UNCHANGED <<live, files, server, dest, durable, run, adopted>>

-----------------------------------------------------------------------------
(* The operator and the machine. *)

(* What was reported of an artifact says nothing of the next one. *)
Forgotten ==
    [r \in Runs |-> IF Reported(r) THEN Idle ELSE run[r]]

(* A finished artifact is moved away, or another one is put there. *)
Discard ==
    /\ dest # None
    /\ \A b \in Backups : run[b].step \notin {"linked", "synced"}
    /\ dest' \in {None} \cup {[image |-> im, synced |-> TRUE] : im \in Artifacts}
    /\ dest' # dest
    /\ durable' = dest'
    /\ run' = Forgotten
    /\ UNCHANGED <<live, files, server, purge, adopted, faults>>

(* The recovery procedure: everything is stopped, and the artifact the     *)
(* drill accepted takes the place of the live database.                    *)
Adopt ==
    /\ server \in {"down", "refused"}
    /\ purge \in {"idle", "ok"}
    /\ \A r \in Runs : run[r].step \in {"idle", "done"}
    /\ dest # None /\ Reported(Drill)
    /\ live' = dest.image
    /\ files' = [wal |-> FALSE, mode |-> "delete", free |-> FALSE]
    /\ server' = "down"
    /\ adopted' = TRUE
    /\ UNCHANGED <<purge, dest, durable, run, faults>>

(* The power goes: every process ends, an entry that was not synchronised  *)
(* may be gone, and bytes that were not are torn.                          *)
PowerLoss ==
    /\ faults < MaxFaults
    /\ faults' = faults + 1
    /\ server' = "down"
    /\ purge' = "idle"
    /\ run' = [r \in Runs |-> IF Reported(r) THEN run[r] ELSE Idle]
    /\ dest' \in {durable} \cup
          (IF dest = None THEN {None}
           ELSE {[image |-> [dest.image EXCEPT !.sound = @ /\ dest.synced], synced |-> TRUE]})
    /\ durable' = dest'
    /\ UNCHANGED <<live, files, adopted>>

Next ==
    \/ Start \/ Prepare \/ Write \/ Stop
    \/ \E b \in Backups :
          \/ BeginBackup(b) \/ Snapshot(b) \/ VerifyStaged(b)
          \/ Publish(b) \/ SyncEntry(b) \/ Clean(b) \/ FileFails(b)
    \/ CopyArtifact \/ DrillCopy \/ Recheck
    \/ \E r \in Runs : Kill(r)
    \/ OpenPurge \/ LeaveWal \/ Lock \/ DeleteRows \/ Vacuum \/ FinalCheckpoint \/ KillPurge
    \/ Discard \/ Adopt \/ PowerLoss

Spec == Init /\ [][Next]_vars

-----------------------------------------------------------------------------
(* Properties. *)

(* What a backup command reported as created is there, will be there after *)
(* a loss of power, is a whole database of this release and holds every    *)
(* write committed before the command was given; and whatever happens to a *)
(* command, what lies at its destination is never a torn file.             *)
BackupsAreWhole ==
    /\ dest # None => dest.image.sound
    /\ \A b \in Backups :
          Reported(b) =>
             /\ dest # None /\ durable = dest
             /\ Inspected(dest.image, FALSE)
             /\ dest.image.rows >= run[b].from

(* No run of the command and no drill changes an artifact once it lies at  *)
(* the destination: only the operator does, and a loss of power.           *)
NeverReplaced ==
    [][dest # None /\ dest' # dest => Discard \/ PowerLoss]_vars

(* A server that serves has the exact schema and the actor method of its   *)
(* release, no evidence of another method, and no pending alert that would *)
(* never fall due - whichever release left the database, also when it was  *)
(* interrupted between the migration and the preparation, and also when    *)
(* the database is an artifact the drill accepted, which no server of this *)
(* release refuses.                                                        *)
ServingIsPrepared ==
    /\ server = "up" =>
          /\ live.version = Current /\ ExactSchema(live)
          /\ live.method = "current" /\ live.actors \in {None, "current"}
          /\ live.due # "malformed"
    /\ adopted => server # "refused"

(* Opening a database never takes it back to an older schema, never        *)
(* changes the installation secret the actor labels derive from, loses no  *)
(* committed write, and leaves the database of a newer release alone.      *)
MigrationIsForward ==
    [][live' # live =>
          \/ Adopt
          \/ /\ live.version <= Current /\ live'.version >= live.version
             /\ live.secret \in {None, live'.secret}
             /\ live'.rows >= live.rows]_vars

(* The purge deletes nothing while another process has the database open,  *)
(* and reports success only when the deleted pages are reclaimed, the WAL  *)
(* holds nothing and the journal mode is restored.                         *)
PurgeFailsClosed ==
    [][purge' # purge =>
          /\ live.provider /\ ~live'.provider => ~Connected
          /\ purge' = "ok" => files' = [wal |-> FALSE, mode |-> "wal", free |-> FALSE]]_vars
=============================================================================
