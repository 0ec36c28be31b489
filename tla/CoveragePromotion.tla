-------------------------- MODULE CoveragePromotion --------------------------
(***************************************************************************)
(* The coverage snapshot on disk, the commands that replace it and the API *)
(* processes that load it at startup.  Each action is one change of a file *)
(* or one comparison of a pair; a process may crash before any of them.    *)
(*                                                                         *)
(* A snapshot is named by its digest, and metadata by the digest it is     *)
(* bound to (contentSha256).  What a process has written survives it.      *)
(***************************************************************************)
EXTENDS Naturals, FiniteSets

CONSTANTS
  Process,     \* the processes of a behaviour
  Version,     \* digests of snapshots
  Candidate,   \* those of the promotable candidates
  Command,     \* bound: the commands that are run
  MaxRunning,  \* bound: how many processes run at a time
  SyncFails,   \* a directory may fail to be synchronised after a journal is linked
  None         \* no file

VARIABLES
  active,    \* the target snapshot and its metadata sidecar
  journal,   \* <target>.promotion.json
  dirs,      \* dirs[p]: the transaction directory of process p
  backups,   \* the pairs copied to backups/
  pc,        \* pc[p]: the next operation of process p
  local,     \* local[p]: its variables
  served     \* served[p]: the pair process p serves, or None

vars == <<active, journal, dirs, backups, pc, local, served>>

ASSUME ConstantsAssumption ==
  /\ None \notin Version /\ Candidate \subseteq Version /\ MaxRunning \in Nat
  /\ SyncFails \in BOOLEAN
  /\ Command \subseteq {"promote", "rollback", "import", "serve"}

File == Version \cup {None}
Pair == [snapshot : File, metadata : File]
Absent == [snapshot |-> None, metadata |-> None]
Whole(v) == [snapshot |-> v, metadata |-> v]

\* directory is the process whose transaction directory holds the copies.
Journal == [new : Version, previous : Pair, directory : Process]

ASSUME NoneAssumption == None \notin Journal

Directory == [new : Pair, previous : Pair]
NoDirectory == [new |-> Absent, previous |-> Absent]

Recovery == {"decide", "restoreSnapshot", "restoreMetadata", "confirmPrevious",
             "removeJournal", "removeDirectory"}
Replacement == {"backup", "backupMetadata", "stage", "copySnapshot", "copyMetadata", "publish",
                "renameSnapshot", "renameMetadata", "confirmNew"}
Loading == {"load", "readSnapshot", "findMetadata", "readMetadata", "verify"}
Importing == {"writeSnapshot", "writeMetadata"}
Ended == {"done", "failed", "refused", "crashed"}
Point == {"new", "recover"} \cup Recovery \cup Replacement \cup Loading \cup Importing \cup Ended

Local == [source : File,                    \* the snapshot a command installs
          journal : Journal \cup {None},    \* the journal it has read or written
          resume : Point,                   \* where it goes on after a recovery
          data : File, metadata : File]     \* what it has loaded or backed up

Fresh == [source |-> None, journal |-> None, resume |-> "done", data |-> None, metadata |-> None]

Holders == Recovery \cup {"renameSnapshot", "renameMetadata", "confirmNew"}

TypeOK ==
  /\ active \in Pair
  /\ journal \in Journal \cup {None}
  /\ dirs \in [Process -> Directory]
  /\ backups \in SUBSET Pair
  /\ pc \in [Process -> Point]
  /\ local \in [Process -> Local]
  /\ served \in [Process -> Pair \cup {None}]
  /\ \A p \in Process : pc[p] \in Holders => local[p].journal # None

Init ==
  /\ active \in {Whole(v) : v \in Version} \cup {Absent}
  /\ journal = None
  /\ dirs = [p \in Process |-> NoDirectory]
  /\ backups = {}
  /\ pc = [p \in Process |-> "new"]
  /\ local = [p \in Process |-> Fresh]
  /\ served = [p \in Process |-> None]

Running == {p \in Process : pc[p] \notin Ended \cup {"new"}}

Goto(p, point) == pc' = [pc EXCEPT ![p] = point]

\* recoverPendingCoveragePromotion(targetPath), and then point.
RecoverThen(p, point) ==
  /\ Goto(p, "recover")
  /\ local' = [local EXCEPT ![p].resume = point]

Start(p, source, point) ==
  /\ pc[p] = "new" /\ Cardinality(Running) < MaxRunning
  /\ Goto(p, "recover")
  /\ local' = [local EXCEPT ![p].source = source, ![p].resume = point]
  /\ UNCHANGED <<active, journal, dirs, backups, served>>

\* Mutant: the pair is backed up before an interrupted promotion is recovered.
StartPromoteUnrecovered(p) ==
  /\ "promote" \in Command /\ pc[p] = "new" /\ Cardinality(Running) < MaxRunning
  /\ \E v \in Candidate : local' = [local EXCEPT ![p].source = v]
  /\ Goto(p, "backup")
  /\ UNCHANGED <<active, journal, dirs, backups, served>>

StartPromote(p) == "promote" \in Command /\ \E v \in Candidate : Start(p, v, "backup")

\* assertPromotableSnapshot asks for metadata bound to the backup's snapshot.
StartRollback(p) ==
  "rollback" \in Command /\ \E v \in Version : Whole(v) \in backups /\ Start(p, v, "backup")

StartImport(p) == "import" \in Command /\ \E v \in Version : Start(p, v, "writeSnapshot")

StartServer(p) == "serve" \in Command /\ Start(p, None, "load")

\* The process is killed or fails to read a file, or the machine restarts.
Crash(p) ==
  /\ p \in Running
  /\ Goto(p, "crashed")
  /\ UNCHANGED <<active, journal, dirs, backups, local, served>>
-----------------------------------------------------------------------------
(******************** recoverPendingCoveragePromotion *******************)

Pending == journal # None

ReadJournal(p) ==
  /\ pc[p] = "recover"
  /\ IF Pending
     THEN Goto(p, "decide") /\ local' = [local EXCEPT ![p].journal = journal]
     ELSE Goto(p, local[p].resume) /\ UNCHANGED local
  /\ UNCHANGED <<active, journal, dirs, backups, served>>

\* Mutant: only the digest of the snapshot is compared.
IsCompleteNewSnapshot(j) == active.snapshot = j.new

IsCompleteNewPair(j) == active = Whole(j.new)

Decide(p) ==
  /\ pc[p] = "decide"
  /\ Goto(p, IF IsCompleteNewPair(local[p].journal) THEN "removeJournal" ELSE "restoreSnapshot")
  /\ UNCHANGED <<active, journal, dirs, backups, local, served>>

\* Mutant: the copy of the prior snapshot is moved back.
AfterRestoreMoved(d) == [dirs EXCEPT ![d].previous.snapshot = None]

\* copyAtomically leaves the copy where it is.
AfterRestore(d) == dirs

Refuse(p) ==
  /\ Goto(p, "refused")
  /\ UNCHANGED <<active, journal, dirs, backups, local, served>>

RestoreSnapshot(p) ==
  LET j == local[p].journal IN
  /\ pc[p] = "restoreSnapshot"
  /\ \/ /\ j.previous.snapshot \in {None, dirs[j.directory].previous.snapshot}
        /\ active' = [active EXCEPT !.snapshot = j.previous.snapshot]
        /\ dirs' = AfterRestore(j.directory)
        /\ Goto(p, "restoreMetadata")
        /\ UNCHANGED <<journal, backups, local, served>>
     \/ /\ j.previous.snapshot \notin {None, dirs[j.directory].previous.snapshot}
        /\ Refuse(p)

RestoreMetadata(p) ==
  LET j == local[p].journal IN
  /\ pc[p] = "restoreMetadata"
  /\ \/ /\ j.previous.metadata \in {None, dirs[j.directory].previous.metadata}
        /\ active' = [active EXCEPT !.metadata = j.previous.metadata]
        /\ Goto(p, "confirmPrevious")
        /\ UNCHANGED <<journal, dirs, backups, local, served>>
     \/ /\ j.previous.metadata \notin {None, dirs[j.directory].previous.metadata}
        /\ Refuse(p)

ConfirmPrevious(p) ==
  /\ pc[p] = "confirmPrevious"
  /\ Goto(p, IF active = local[p].journal.previous THEN "removeJournal" ELSE "refused")
  /\ UNCHANGED <<active, journal, dirs, backups, local, served>>

\* cleanupPromotion: the journal first, then the directory.
RemoveJournal(p) ==
  /\ pc[p] = "removeJournal"
  /\ journal' = None
  /\ Goto(p, "removeDirectory")
  /\ UNCHANGED <<active, dirs, backups, local, served>>

RemoveDirectory(p) ==
  /\ pc[p] = "removeDirectory"
  /\ dirs' = [dirs EXCEPT ![local[p].journal.directory] = NoDirectory]
  /\ Goto(p, local[p].resume)
  /\ UNCHANGED <<active, journal, backups, local, served>>
-----------------------------------------------------------------------------
(***************** promoteSnapshot and rollbackSnapshot *****************)

\* backupSnapshot: the snapshot first, if there is one.  A copy that is cut
\* short here has no metadata, so nothing is ever rolled back to it.
Backup(p) ==
  /\ pc[p] = "backup"
  /\ \/ active.snapshot = None /\ RecoverThen(p, "stage")
     \/ /\ active.snapshot # None
        /\ local' = [local EXCEPT ![p].data = active.snapshot]
        /\ Goto(p, "backupMetadata")
  /\ UNCHANGED <<active, journal, dirs, backups, served>>

BackupMetadata(p) ==
  /\ pc[p] = "backupMetadata"
  /\ backups' = backups \cup {[snapshot |-> local[p].data, metadata |-> active.metadata]}
  /\ RecoverThen(p, "stage")
  /\ UNCHANGED <<active, journal, dirs, served>>

\* The new pair, its metadata bound to the copied bytes.
Stage(p) ==
  /\ pc[p] = "stage"
  /\ dirs' = [dirs EXCEPT ![p].new = Whole(local[p].source)]
  /\ Goto(p, "copySnapshot")
  /\ UNCHANGED <<active, journal, backups, local, served>>

CopySnapshot(p) ==
  /\ pc[p] = "copySnapshot"
  /\ dirs' = [dirs EXCEPT ![p].previous.snapshot = active.snapshot]
  /\ Goto(p, "copyMetadata")
  /\ UNCHANGED <<active, journal, backups, local, served>>

CopyMetadata(p) ==
  /\ pc[p] = "copyMetadata"
  /\ dirs' = [dirs EXCEPT ![p].previous.metadata = active.metadata]
  /\ Goto(p, "publish")
  /\ UNCHANGED <<active, journal, backups, local, served>>

NewJournal(p) == [new |-> local[p].source, previous |-> dirs[p].previous, directory |-> p]

\* publishJournal links the file under its name, which fails if it exists.
PublishJournal(p) ==
  /\ pc[p] = "publish" /\ journal = None
  /\ journal' = NewJournal(p)
  /\ local' = [local EXCEPT ![p].journal = NewJournal(p), ![p].resume = "done"]
  /\ Goto(p, "renameSnapshot")
  /\ UNCHANGED <<active, dirs, backups, served>>

\* The catch block while journalPublished is false: the directory goes.
Discard(p) ==
  /\ dirs' = [dirs EXCEPT ![p] = NoDirectory]
  /\ Goto(p, "failed")
  /\ UNCHANGED <<active, backups, local, served>>

\* An error before the journal is linked, one that is there among them.
AbandonReplacement(p) ==
  /\ pc[p] \in {"stage", "copySnapshot", "copyMetadata", "publish"}
  /\ Discard(p) /\ UNCHANGED journal

\* The journal is linked, but publishJournal fails when it synchronises.
FailToSync(p) ==
  /\ SyncFails /\ pc[p] = "publish" /\ journal = None
  /\ journal' = NewJournal(p)
  /\ Discard(p)

\* An error after the journal is published: recover, then rethrow.
FailReplacement(p) ==
  /\ pc[p] \in {"renameSnapshot", "renameMetadata", "confirmNew"}
  /\ RecoverThen(p, "failed")
  /\ UNCHANGED <<active, journal, dirs, backups, served>>

RenameSnapshot(p) ==
  /\ pc[p] = "renameSnapshot" /\ dirs[p].new.snapshot # None
  /\ active' = [active EXCEPT !.snapshot = dirs[p].new.snapshot]
  /\ dirs' = [dirs EXCEPT ![p].new.snapshot = None]
  /\ Goto(p, "renameMetadata")
  /\ UNCHANGED <<journal, backups, local, served>>

RenameMetadata(p) ==
  /\ pc[p] = "renameMetadata" /\ dirs[p].new.metadata # None
  /\ active' = [active EXCEPT !.metadata = dirs[p].new.metadata]
  /\ dirs' = [dirs EXCEPT ![p].new.metadata = None]
  /\ Goto(p, "confirmNew")
  /\ UNCHANGED <<journal, backups, local, served>>

ConfirmNew(p) ==
  /\ pc[p] = "confirmNew" /\ IsCompleteNewPair(local[p].journal)
  /\ Goto(p, "removeJournal")
  /\ UNCHANGED <<active, journal, dirs, backups, local, served>>
-----------------------------------------------------------------------------
(********************** runImportLiveCoverage ***************************)

\* writeCoverageSnapshot
WriteSnapshot(p) ==
  /\ pc[p] = "writeSnapshot"
  /\ active' = [active EXCEPT !.snapshot = local[p].source]
  /\ RecoverThen(p, "writeMetadata")
  /\ UNCHANGED <<journal, dirs, backups, served>>

\* writeCoverageSnapshotMetadata binds the metadata to the file on disk.
WriteMetadata(p) ==
  /\ pc[p] = "writeMetadata"
  /\ \/ /\ active.snapshot # None
        /\ active' = [active EXCEPT !.metadata = active.snapshot]
        /\ Goto(p, "done")
     \/ active.snapshot = None /\ Goto(p, "failed") /\ UNCHANGED active
  /\ UNCHANGED <<journal, dirs, backups, local, served>>
-----------------------------------------------------------------------------
(********************** createCoverageRepository ************************)

Serve(p, pair) ==
  /\ served' = [served EXCEPT ![p] = pair]
  /\ Goto(p, "done")

\* Without a snapshot the API serves an empty one.
Load(p) ==
  /\ pc[p] = "load"
  /\ \/ active.snapshot = None /\ Serve(p, Absent) /\ UNCHANGED local
     \/ active.snapshot # None /\ RecoverThen(p, "readSnapshot") /\ UNCHANGED served
  /\ UNCHANGED <<active, journal, dirs, backups>>

\* A file that is gone since it was found ends the process, like Crash.
ReadSnapshot(p) ==
  /\ pc[p] = "readSnapshot" /\ active.snapshot # None
  /\ local' = [local EXCEPT ![p].data = active.snapshot]
  /\ Goto(p, "findMetadata")
  /\ UNCHANGED <<active, journal, dirs, backups, served>>

\* A snapshot without metadata is served as unclassified.
FindMetadata(p) ==
  /\ pc[p] = "findMetadata"
  /\ \/ active.metadata # None /\ RecoverThen(p, "readMetadata") /\ UNCHANGED served
     \/ /\ active.metadata = None
        /\ Serve(p, [snapshot |-> local[p].data, metadata |-> None])
        /\ UNCHANGED local
  /\ UNCHANGED <<active, journal, dirs, backups>>

ReadMetadata(p) ==
  /\ pc[p] = "readMetadata" /\ active.metadata # None
  /\ local' = [local EXCEPT ![p].metadata = active.metadata]
  /\ Goto(p, "verify")
  /\ UNCHANGED <<active, journal, dirs, backups, served>>

\* verifyCoverageSnapshotMetadataDigest reads the snapshot file again.
MatchesDigest(p) == active.snapshot = local[p].metadata

Verify(p) ==
  /\ pc[p] = "verify"
  /\ \/ /\ MatchesDigest(p)
        /\ Serve(p, [snapshot |-> local[p].data, metadata |-> local[p].metadata])
        /\ UNCHANGED <<active, journal, dirs, backups, local>>
     \/ ~MatchesDigest(p) /\ Refuse(p)

Next == \E p \in Process :
  \/ StartPromote(p) \/ StartRollback(p) \/ StartImport(p) \/ StartServer(p) \/ Crash(p)
  \/ ReadJournal(p) \/ Decide(p) \/ RestoreSnapshot(p) \/ RestoreMetadata(p)
  \/ ConfirmPrevious(p) \/ RemoveJournal(p) \/ RemoveDirectory(p)
  \/ Backup(p) \/ BackupMetadata(p) \/ Stage(p) \/ CopySnapshot(p) \/ CopyMetadata(p) \/ PublishJournal(p)
  \/ RenameSnapshot(p) \/ RenameMetadata(p) \/ ConfirmNew(p)
  \/ AbandonReplacement(p) \/ FailToSync(p) \/ FailReplacement(p)
  \/ WriteSnapshot(p) \/ WriteMetadata(p)
  \/ Load(p) \/ ReadSnapshot(p) \/ FindMetadata(p) \/ ReadMetadata(p) \/ Verify(p)

Spec == Init /\ [][Next]_vars
-----------------------------------------------------------------------------
(******************************* Properties *****************************)

\* The pair a recovery would leave.
Effective ==
  IF journal = None \/ IsCompleteNewPair(journal) THEN active ELSE journal.previous

\* The processes between the two files of an import.
Importers ==
  {p \in Process : local[p].resume = "writeMetadata" /\ pc[p] \notin {"done", "failed"}}

Active == INSTANCE ActiveCoverage WITH pair <- Effective, importing <- Importers

(***************************************************************************)
(* README.md: "If the process stops between replacements, the next startup *)
(* keeps the complete new pair or restores the complete prior pair before  *)
(* serving coverage."  The files implement one pair that is replaced as a  *)
(* whole by whatever promotion, rollback or recovery is cut short, mixed   *)
(* by an import only, and served only when its metadata approves it.       *)
(***************************************************************************)
ReplacesWholePairs == Active!Spec

(***************************************************************************)
(* README.md: "the next startup keeps the complete new pair or restores    *)
(* the complete prior pair": no startup and no command is refused because  *)
(* of what a crash or an error left, also when a recovery was cut short.   *)
(* A startup is refused only while the pair is one an import left mixed.   *)
(***************************************************************************)
RecoveryIsNeverRefused ==
  [][\A p \in Process : pc[p] # "refused" /\ pc'[p] = "refused" =>
       Effective.metadata \notin {None, Effective.snapshot}]_vars

\* Its process did not learn that the journal was published.
Unsynced == journal # None /\ local[journal.directory].journal # journal

(***************************************************************************)
(* What the code keeps of that promise: apart from a pair an import left   *)
(* mixed, only a journal that was linked but not synchronised, whose       *)
(* copies went with the directory of its failed promotion, is refused.     *)
(* Every crash and every other error can be recovered from.                *)
(***************************************************************************)
RefusesOnlyUnsynced ==
  [][\A p \in Process : pc[p] # "refused" /\ pc'[p] = "refused" =>
       Unsynced \/ Effective.metadata \notin {None, Effective.snapshot}]_vars

(***************************************************************************)
(* Whatever runs at the same time and wherever it is cut short, a journal  *)
(* that its process knows it published names copies that are still there,  *)
(* so the next process to start alone can recover.                         *)
(***************************************************************************)
JournalIsBacked ==
  journal # None /\ local[journal.directory].journal = journal =>
    dirs[journal.directory].previous = journal.previous

(***************************************************************************)
(* manage-live-coverage.ts: "Backed up previous active snapshot".  What    *)
(* is copied to the backups is the pair in effect, never the mix of two    *)
(* that an interrupted promotion left; and a promotion or rollback takes   *)
(* effect only when the pair it replaces is there, snapshot and metadata,  *)
(* whatever stopped between its backup and its renames, so that it can be  *)
(* undone.  Recoveries do not replace the pair in effect, imports do and   *)
(* make no backup.                                                         *)
(***************************************************************************)
TakesEffect == Effective' # Effective /\ UNCHANGED Importers

ReplacedPairsAreBackedUp ==
  [][/\ backups' \ backups \subseteq {Effective}
     /\ TakesEffect => Effective \in backups \cup {Absent}]_vars
=============================================================================
