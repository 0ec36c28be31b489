----------------------- MODULE CoveragePromotionProofs -----------------------
(* Whatever commands and startups overlap, and wherever they crash, the     *)
(* journal that is on disk names copies that are on disk.  When they come   *)
(* one at a time, the pair is replaced as a whole.                          *)
EXTENDS CoveragePromotion, FiniteSetTheorems, TLAPS

\* Where a process goes on after a recovery.
Resumption == {"backup", "stage", "load", "readSnapshot", "readMetadata",
               "writeSnapshot", "writeMetadata", "done", "failed"}

\* The process may still publish a journal.
Unpublished(p) ==
  \/ pc[p] \in {"new", "backup", "backupMetadata", "stage", "copySnapshot", "copyMetadata", "publish"}
  \/ pc[p] \in {"recover"} \cup Recovery /\ local[p].resume \in {"backup", "stage"}

\* The process replaces the pair, its journal published.
Replacing(p) == pc[p] \in {"renameSnapshot", "renameMetadata", "confirmNew"}

ResumesKnown == \A p \in Process : /\ local[p].resume \in Resumption
                                   /\ Replacing(p) => local[p].resume = "done"

SourcesNamed ==
  \A p \in Process : Unpublished(p) /\ pc[p] # "new" => local[p].source \in Version

\* A journal that anyone has seen belongs to a process that publishes no other.
JournalsPublished ==
  /\ journal # None => ~Unpublished(journal.directory)
  /\ \A p \in Process : local[p].journal # None => ~Unpublished(local[p].journal.directory)

\* The journal goes before the directory.
RemovedInOrder ==
  \A p \in Process : pc[p] = "removeDirectory" /\ journal # None =>
    journal.directory # local[p].journal.directory

\* A journal that its process does not know of is one it gave up on.
UnknownGivenUp ==
  journal # None /\ local[journal.directory].journal # journal => pc[journal.directory] = "failed"

IInv == /\ TypeOK /\ ResumesKnown /\ SourcesNamed
        /\ JournalsPublished /\ RemovedInOrder /\ UnknownGivenUp /\ JournalIsBacked
-----------------------------------------------------------------------------
(* A step of process p that publishes no journal, as the invariant sees it. *)
Advances(p) ==
  /\ pc[p] # "failed"
  /\ \A q \in Process \ {p} : pc'[q] = pc[q] /\ local'[q] = local[q]
  /\ local'[p].resume \in Resumption
  /\ Replacing(p)' => local'[p].resume = "done"
  /\ Unpublished(p)' => Unpublished(p)
  /\ Unpublished(p)' => local'[p].source \in Version
  /\ journal' \in {journal, None}
  /\ local'[p].journal \in {local[p].journal, journal}
  /\ pc'[p] = "removeDirectory" => journal' = None
  /\ journal # None => dirs'[journal.directory].previous = dirs[journal.directory].previous

\* Such a step keeps the invariant.
LEMMA AdvancesPreserve ==
  ASSUME IInv, TypeOK', NEW p \in Process, Advances(p) PROVE IInv'
<1>1. \A q \in Process : Unpublished(q)' => Unpublished(q)
  BY DEF Advances, Unpublished
<1>2. ResumesKnown'
  BY DEF IInv, Advances, ResumesKnown, Replacing
<1>3. SourcesNamed'
  BY DEF IInv, Advances, SourcesNamed, Unpublished
<1>4. JournalsPublished'
  BY <1>1, NoneAssumption DEF IInv, TypeOK, Journal, Local, Advances, JournalsPublished
<1>5. RemovedInOrder'
  BY DEF IInv, Advances, RemovedInOrder
<1>6. ASSUME journal' # None
      PROVE  /\ journal' = journal /\ journal.directory \in Process
             /\ journal.directory = p => local[p].journal = journal /\ local'[p].journal = journal
  BY <1>6 DEF IInv, TypeOK, Journal, Advances, UnknownGivenUp
<1>7. UnknownGivenUp'
  BY <1>6 DEF IInv, Advances, UnknownGivenUp
<1>8. JournalIsBacked'
  BY <1>6 DEF IInv, Advances, JournalIsBacked
<1> QED
  BY <1>2, <1>3, <1>4, <1>5, <1>7, <1>8 DEF IInv

\* A process is resumed where it may be.
LEMMA ResumptionsArePoints ==
  /\ Resumption \subseteq Point /\ {"recover", "renameSnapshot"} \subseteq Point
  /\ Resumption \cap (Holders \cup {"removeDirectory", "new"}) = {} /\ "recover" \notin Holders
BY DEF Resumption, Point, Recovery, Holders, Replacement, Loading, Importing, Ended

\* A call of recoverPendingCoveragePromotion.
LEMMA RecoveryIsCalled ==
  ASSUME IInv, NEW p \in Process, NEW point \in Resumption,
         pc[p] \notin {"new", "recover", "failed"} \cup Recovery, RecoverThen(p, point),
         point = "stage" => Unpublished(p), point # "backup",
         active' \in Pair, backups' \in SUBSET Pair, UNCHANGED <<journal, dirs, served>>
  PROVE  TypeOK' /\ Advances(p)
<1>1. pc' \in [Process -> Point] /\ local' \in [Process -> Local]
  BY ResumptionsArePoints DEF IInv, TypeOK, RecoverThen, Goto, Local
<1>2. /\ \A q \in Process \ {p} : pc'[q] = pc[q] /\ local'[q] = local[q]
      /\ pc'[p] = "recover" /\ local'[p] = [local[p] EXCEPT !.resume = point]
      /\ local'[p].resume = point /\ local'[p].journal = local[p].journal
      /\ local'[p].source = local[p].source
  BY <1>1 DEF IInv, TypeOK, RecoverThen, Goto, Local
<1>3. TypeOK'
  BY <1>1, <1>2, ResumptionsArePoints DEF IInv, TypeOK
<1>4. Advances(p)
  BY <1>2 DEF IInv, SourcesNamed, Advances, Unpublished, Replacing, Recovery
<1> QED
  BY <1>3, <1>4

\* A process that starts looks for a journal first.
LEMMA ProcessStarts ==
  ASSUME IInv, NEW p \in Process, NEW source \in File, NEW point \in Resumption \ {"stage"},
         point = "backup" => source \in Version, Start(p, source, point)
  PROVE  TypeOK' /\ Advances(p)
<1>1. pc' \in [Process -> Point] /\ local' \in [Process -> Local]
  BY ResumptionsArePoints DEF IInv, TypeOK, Start, Goto, Local
<1>2. /\ \A q \in Process \ {p} : pc'[q] = pc[q] /\ local'[q] = local[q]
      /\ pc[p] = "new" /\ pc'[p] = "recover"
      /\ local'[p].resume = point /\ local'[p].journal = local[p].journal
      /\ local'[p].source = source
  BY <1>1 DEF IInv, TypeOK, Start, Goto, Local
<1>3. TypeOK'
  BY <1>1, <1>2, ResumptionsArePoints DEF IInv, TypeOK, Start
<1>4. Advances(p)
  BY <1>2 DEF Start, Advances, Unpublished, Replacing, Recovery
<1> QED
  BY <1>3, <1>4

\* A process that is refused changes no file.
LEMMA ProcessRefused ==
  ASSUME IInv, NEW p \in Process, pc[p] # "failed", Refuse(p)
  PROVE  TypeOK' /\ Advances(p)
<1>1. TypeOK'
  BY DEF Refuse, Goto, IInv, TypeOK, Recovery, Holders, Point, Replacement, Loading, Importing, Ended
<1>2. Advances(p)
  BY DEF Refuse, Goto, IInv, TypeOK, ResumesKnown, Advances, Unpublished, Replacing, Recovery
<1> QED
  BY <1>1, <1>2

\* The actions one by one; the two that a crash must not separate are the
\* removals of RemoveJournal and RemoveDirectory.
LEMMA NextPreserves == ASSUME IInv, [Next]_vars PROVE IInv'
<1>1. ASSUME NEW p \in Process, Crash(p) PROVE TypeOK' /\ Advances(p)
  <2>1. TypeOK'
    BY <1>1 DEF Crash, Goto, Running, Ended, IInv, TypeOK, ResumesKnown, Resumption, Recovery, Holders, Point, Replacement, Loading, Importing, Ended, Local, Journal, Directory, NoDirectory, Pair, File, Absent, Whole
  <2>2. Advances(p)
    BY <1>1 DEF Crash, Goto, Running, Ended, IInv, TypeOK, ResumesKnown, SourcesNamed, JournalsPublished, Advances,
                  Unpublished, Replacing, Resumption, Recovery, Local, Journal, Directory, NoDirectory, Pair, File, Absent, Whole
  <2> QED
    BY <2>1, <2>2
<1>2. ASSUME NEW p \in Process, Decide(p) PROVE TypeOK' /\ Advances(p)
  <2>1. TypeOK'
    BY <1>2 DEF Decide, Goto, IInv, TypeOK, ResumesKnown, Resumption, Recovery, Holders, Point, Replacement, Loading, Importing, Ended, Local, Journal, Directory, NoDirectory, Pair, File, Absent, Whole
  <2>2. Advances(p)
    BY <1>2 DEF Decide, Goto, IInv, TypeOK, ResumesKnown, SourcesNamed, JournalsPublished, Advances,
                  Unpublished, Replacing, Resumption, Recovery, Local, Journal, Directory, NoDirectory, Pair, File, Absent, Whole
  <2> QED
    BY <2>1, <2>2
<1>3. ASSUME NEW p \in Process, ConfirmPrevious(p) PROVE TypeOK' /\ Advances(p)
  <2>1. TypeOK'
    BY <1>3 DEF ConfirmPrevious, Goto, IInv, TypeOK, ResumesKnown, Resumption, Recovery, Holders, Point, Replacement, Loading, Importing, Ended, Local, Journal, Directory, NoDirectory, Pair, File, Absent, Whole
  <2>2. Advances(p)
    BY <1>3 DEF ConfirmPrevious, Goto, IInv, TypeOK, ResumesKnown, SourcesNamed, JournalsPublished, Advances,
                  Unpublished, Replacing, Resumption, Recovery, Local, Journal, Directory, NoDirectory, Pair, File, Absent, Whole
  <2> QED
    BY <2>1, <2>2
<1>4. ASSUME NEW p \in Process, RemoveJournal(p) PROVE TypeOK' /\ Advances(p)
  <2>1. TypeOK'
    BY <1>4 DEF RemoveJournal, Goto, IInv, TypeOK, ResumesKnown, Resumption, Recovery, Holders, Point, Replacement, Loading, Importing, Ended, Local, Journal, Directory, NoDirectory, Pair, File, Absent, Whole
  <2>2. Advances(p)
    BY <1>4 DEF RemoveJournal, Goto, IInv, TypeOK, ResumesKnown, SourcesNamed, JournalsPublished, Advances,
                  Unpublished, Replacing, Resumption, Recovery, Local, Journal, Directory, NoDirectory, Pair, File, Absent, Whole
  <2> QED
    BY <2>1, <2>2
<1>5. ASSUME NEW p \in Process, RemoveDirectory(p) PROVE TypeOK' /\ Advances(p)
  <2>1. TypeOK'
    BY <1>5 DEF RemoveDirectory, Goto, IInv, TypeOK, ResumesKnown, Resumption, Recovery, Holders, Point, Replacement, Loading, Importing, Ended, Local, Journal, Directory, NoDirectory, Pair, File, Absent, Whole
  <2>2. journal # None => journal.directory \in Process /\ journal.directory # local[p].journal.directory
    BY <1>5 DEF RemoveDirectory, IInv, TypeOK, Journal, RemovedInOrder
  <2>3. Advances(p)
    BY <1>5, <2>2 DEF RemoveDirectory, Goto, IInv, TypeOK, ResumesKnown, SourcesNamed, Advances,
                  Unpublished, Replacing, Resumption, Recovery
  <2> QED
    BY <2>1, <2>3
<1>6. ASSUME NEW p \in Process, Stage(p) PROVE TypeOK' /\ Advances(p)
  <2>1. dirs' \in [Process -> Directory]
    BY <1>6, ConstantsAssumption DEF Stage, IInv, TypeOK, Directory, Pair, Whole, Local
  <2>2. Goto(p, "copySnapshot") /\ UNCHANGED <<active, journal, backups, local, served>>
    BY <1>6 DEF Stage
  <2>3. TypeOK'
    BY <2>1, <2>2 DEF Goto, IInv, TypeOK, Recovery, Holders, Point, Replacement, Loading, Importing, Ended
  <2>4. Unpublished(p) /\ pc[p] # "new"
    BY <1>6 DEF Stage, Unpublished
  <2>5. journal # None => dirs'[journal.directory].previous = dirs[journal.directory].previous
    BY <1>6, <2>4 DEF Stage, IInv, TypeOK, JournalsPublished, Journal, Directory
  <2>6. Advances(p)
    BY <2>2, <2>4, <2>5 DEF Goto, IInv, TypeOK, ResumesKnown, SourcesNamed, Advances, Unpublished, Replacing, Recovery
  <2> QED
    BY <2>3, <2>6
<1>7. ASSUME NEW p \in Process, CopySnapshot(p) PROVE TypeOK' /\ Advances(p)
  <2>1. dirs' \in [Process -> Directory]
    BY <1>7 DEF CopySnapshot, IInv, TypeOK, Directory, Pair
  <2>2. Goto(p, "copyMetadata") /\ UNCHANGED <<active, journal, backups, local, served>>
    BY <1>7 DEF CopySnapshot
  <2>3. TypeOK'
    BY <2>1, <2>2 DEF Goto, IInv, TypeOK, Recovery, Holders, Point, Replacement, Loading, Importing, Ended
  <2>4. Unpublished(p) /\ pc[p] # "new"
    BY <1>7 DEF CopySnapshot, Unpublished
  <2>5. journal # None => dirs'[journal.directory].previous = dirs[journal.directory].previous
    BY <1>7, <2>4 DEF CopySnapshot, IInv, TypeOK, JournalsPublished, Journal, Directory
  <2>6. Advances(p)
    BY <2>2, <2>4, <2>5 DEF Goto, IInv, TypeOK, ResumesKnown, SourcesNamed, Advances, Unpublished, Replacing, Recovery
  <2> QED
    BY <2>3, <2>6
<1>8. ASSUME NEW p \in Process, CopyMetadata(p) PROVE TypeOK' /\ Advances(p)
  <2>1. dirs' \in [Process -> Directory]
    BY <1>8 DEF CopyMetadata, IInv, TypeOK, Directory, Pair
  <2>2. Goto(p, "publish") /\ UNCHANGED <<active, journal, backups, local, served>>
    BY <1>8 DEF CopyMetadata
  <2>3. TypeOK'
    BY <2>1, <2>2 DEF Goto, IInv, TypeOK, Recovery, Holders, Point, Replacement, Loading, Importing, Ended
  <2>4. Unpublished(p) /\ pc[p] # "new"
    BY <1>8 DEF CopyMetadata, Unpublished
  <2>5. journal # None => dirs'[journal.directory].previous = dirs[journal.directory].previous
    BY <1>8, <2>4 DEF CopyMetadata, IInv, TypeOK, JournalsPublished, Journal, Directory
  <2>6. Advances(p)
    BY <2>2, <2>4, <2>5 DEF Goto, IInv, TypeOK, ResumesKnown, SourcesNamed, Advances, Unpublished, Replacing, Recovery
  <2> QED
    BY <2>3, <2>6
<1>9. ASSUME NEW p \in Process, WriteMetadata(p) PROVE TypeOK' /\ Advances(p)
  <2>1. active' \in Pair /\ UNCHANGED <<journal, dirs, backups, local, served>>
    BY <1>9 DEF WriteMetadata, IInv, TypeOK, Pair
  <2>2. pc[p] = "writeMetadata" /\ (Goto(p, "done") \/ Goto(p, "failed"))
    BY <1>9 DEF WriteMetadata
  <2>3. TypeOK'
    BY <2>1, <2>2 DEF Goto, IInv, TypeOK, Recovery, Holders, Point, Replacement, Loading, Importing, Ended
  <2>4. Advances(p)
    BY <2>1, <2>2 DEF Goto, IInv, TypeOK, ResumesKnown, Advances, Unpublished, Replacing, Recovery
  <2> QED
    BY <2>3, <2>4
<1>10. ASSUME NEW p \in Process, ReadMetadata(p) PROVE TypeOK' /\ Advances(p)
  <2>1. pc[p] = "readMetadata" /\ Goto(p, "verify") /\ UNCHANGED <<active, journal, dirs, backups, served>>
    BY <1>10 DEF ReadMetadata
  <2>2. /\ local' \in [Process -> Local]
        /\ \A q \in Process \ {p} : local'[q] = local[q]
        /\ local'[p].journal = local[p].journal /\ local'[p].resume = local[p].resume
    BY <1>10 DEF ReadMetadata, IInv, TypeOK, Local, Pair
  <2>3. TypeOK'
    BY <2>1, <2>2 DEF Goto, IInv, TypeOK, Recovery, Holders, Point, Replacement, Loading, Importing, Ended
  <2>4. Advances(p)
    BY <2>1, <2>2 DEF Goto, IInv, TypeOK, ResumesKnown, Advances, Unpublished, Replacing, Recovery
  <2> QED
    BY <2>3, <2>4
<1>11. ASSUME NEW p \in Process, StartPromote(p) PROVE TypeOK' /\ Advances(p)
  <2> QED
    BY <1>11, ConstantsAssumption, ProcessStarts DEF StartPromote, File, Resumption
<1>12. ASSUME NEW p \in Process, StartRollback(p) PROVE TypeOK' /\ Advances(p)
  <2> QED
    BY <1>12, ConstantsAssumption, ProcessStarts DEF StartRollback, File, Resumption
<1>13. ASSUME NEW p \in Process, StartImport(p) PROVE TypeOK' /\ Advances(p)
  <2> QED
    BY <1>13, ConstantsAssumption, ProcessStarts DEF StartImport, File, Resumption
<1>14. ASSUME NEW p \in Process, StartServer(p) PROVE TypeOK' /\ Advances(p)
  <2> QED
    BY <1>14, ConstantsAssumption, ProcessStarts DEF StartServer, File, Resumption
<1>15. ASSUME NEW p \in Process, RestoreSnapshot(p) PROVE TypeOK' /\ Advances(p)
  <2>1. CASE Refuse(p)
    BY <1>15, <2>1, ProcessRefused DEF RestoreSnapshot
  <2>2. CASE ~Refuse(p)
    <3>1. active' \in Pair /\ Goto(p, "restoreMetadata") /\ UNCHANGED <<journal, dirs, backups, local, served>>
      BY <1>15, <2>2 DEF RestoreSnapshot, AfterRestore, IInv, TypeOK, Recovery, Holders, Local, Journal, Pair
    <3>2. TypeOK'
      BY <1>15, <3>1 DEF RestoreSnapshot, Goto, IInv, TypeOK, Recovery, Holders, Point, Replacement, Loading, Importing, Ended
    <3>3. Advances(p)
      BY <1>15, <3>1 DEF RestoreSnapshot, Goto, IInv, TypeOK, ResumesKnown, SourcesNamed, Advances, Unpublished, Replacing, Recovery
    <3> QED
      BY <3>2, <3>3
  <2> QED
    BY <2>1, <2>2
<1>16. ASSUME NEW p \in Process, RestoreMetadata(p) PROVE TypeOK' /\ Advances(p)
  <2>1. CASE Refuse(p)
    BY <1>16, <2>1, ProcessRefused DEF RestoreMetadata
  <2>2. CASE ~Refuse(p)
    <3>1. active' \in Pair /\ Goto(p, "confirmPrevious") /\ UNCHANGED <<journal, dirs, backups, local, served>>
      BY <1>16, <2>2 DEF RestoreMetadata, IInv, TypeOK, Recovery, Holders, Local, Journal, Pair
    <3>2. TypeOK'
      BY <1>16, <3>1 DEF RestoreMetadata, Goto, IInv, TypeOK, Recovery, Holders, Point, Replacement, Loading, Importing, Ended
    <3>3. Advances(p)
      BY <1>16, <3>1 DEF RestoreMetadata, Goto, IInv, TypeOK, ResumesKnown, SourcesNamed, Advances, Unpublished, Replacing, Recovery
    <3> QED
      BY <3>2, <3>3
  <2> QED
    BY <2>1, <2>2
<1>17. ASSUME NEW p \in Process, Backup(p) PROVE TypeOK' /\ Advances(p)
  <2>1. CASE active.snapshot = None
    BY <1>17, <2>1, RecoveryIsCalled DEF Backup, IInv, TypeOK, Unpublished, Recovery, Resumption
  <2>2. CASE active.snapshot # None
    <3>1. /\ pc' = [pc EXCEPT ![p] = "backupMetadata"] /\ pc[p] = "backup"
          /\ local' = [local EXCEPT ![p] = [local[p] EXCEPT !.data = active.snapshot]]
          /\ UNCHANGED <<active, journal, dirs, backups, served>>
      BY <1>17, <2>2 DEF Backup, Goto
    <3>2. [local[p] EXCEPT !.data = active.snapshot] \in Local
      BY DEF IInv, TypeOK, Local, Pair
    <3>3. "backupMetadata" \in Point /\ "backupMetadata" \notin Holders
      BY DEF Point, Replacement, Holders, Recovery
    <3>4. /\ \A q \in Process \ {p} : pc'[q] = pc[q] /\ local'[q] = local[q]
          /\ pc'[p] = "backupMetadata" /\ local'[p].resume = local[p].resume
          /\ local'[p].source = local[p].source /\ local'[p].journal = local[p].journal
      BY <3>1 DEF IInv, TypeOK, Local
    <3>5. TypeOK'
      BY <3>1, <3>2, <3>3, <3>4 DEF IInv, TypeOK
    <3>6. Advances(p)
      BY <3>1, <3>4 DEF IInv, ResumesKnown, SourcesNamed, Advances, Unpublished, Replacing
    <3> QED
      BY <3>5, <3>6
  <2> QED
    BY <2>1, <2>2
<1>31. ASSUME NEW p \in Process, BackupMetadata(p) PROVE TypeOK' /\ Advances(p)
  <2>1. backups' \in SUBSET Pair
    BY <1>31 DEF BackupMetadata, IInv, TypeOK, Local, Pair
  <2> QED
    BY <1>31, <2>1, RecoveryIsCalled DEF BackupMetadata, IInv, TypeOK, Unpublished, Recovery, Resumption
<1>18. ASSUME NEW p \in Process, WriteSnapshot(p) PROVE TypeOK' /\ Advances(p)
  <2>1. active' \in Pair
    BY <1>18 DEF WriteSnapshot, IInv, TypeOK, Local, Pair
  <2> QED
    BY <1>18, <2>1, RecoveryIsCalled DEF WriteSnapshot, IInv, TypeOK, Recovery, Resumption
<1>19. ASSUME NEW p \in Process, RenameSnapshot(p) PROVE TypeOK' /\ Advances(p)
  <2>1. /\ pc[p] = "renameSnapshot" /\ active' \in Pair /\ Goto(p, "renameMetadata")
        /\ dirs' = [dirs EXCEPT ![p].new.snapshot = None] /\ UNCHANGED <<journal, backups, local, served>>
    BY <1>19 DEF RenameSnapshot, IInv, TypeOK, Directory, Pair
  <2>2. [dirs[p].new EXCEPT !.snapshot = None] \in Pair
    BY DEF IInv, TypeOK, Directory, Pair, File
  <2>3. [dirs[p] EXCEPT !.new = [dirs[p].new EXCEPT !.snapshot = None]] \in Directory
    BY <2>2 DEF IInv, TypeOK, Directory
  <2>4. dirs' = [dirs EXCEPT ![p] = [dirs[p] EXCEPT !.new = [dirs[p].new EXCEPT !.snapshot = None]]]
    BY <2>1
  <2>5. dirs' \in [Process -> Directory]
    BY <2>3, <2>4 DEF IInv, TypeOK
  <2>6. \A d \in Process : dirs'[d].previous = dirs[d].previous
    BY <2>4 DEF IInv, TypeOK, Directory
  <2>7. TypeOK'
    BY <2>1, <2>5 DEF Goto, IInv, TypeOK, Recovery, Holders, Point, Replacement, Loading, Importing, Ended
  <2>8. Advances(p)
    BY <2>1, <2>6 DEF Goto, IInv, TypeOK, ResumesKnown, Advances, Unpublished, Replacing, Recovery, Journal
  <2> QED
    BY <2>7, <2>8
<1>20. ASSUME NEW p \in Process, RenameMetadata(p) PROVE TypeOK' /\ Advances(p)
  <2>1. /\ pc[p] = "renameMetadata" /\ active' \in Pair /\ Goto(p, "confirmNew")
        /\ dirs' = [dirs EXCEPT ![p].new.metadata = None] /\ UNCHANGED <<journal, backups, local, served>>
    BY <1>20 DEF RenameMetadata, IInv, TypeOK, Directory, Pair
  <2>2. [dirs[p].new EXCEPT !.metadata = None] \in Pair
    BY DEF IInv, TypeOK, Directory, Pair, File
  <2>3. [dirs[p] EXCEPT !.new = [dirs[p].new EXCEPT !.metadata = None]] \in Directory
    BY <2>2 DEF IInv, TypeOK, Directory
  <2>4. dirs' = [dirs EXCEPT ![p] = [dirs[p] EXCEPT !.new = [dirs[p].new EXCEPT !.metadata = None]]]
    BY <2>1
  <2>5. dirs' \in [Process -> Directory]
    BY <2>3, <2>4 DEF IInv, TypeOK
  <2>6. \A d \in Process : dirs'[d].previous = dirs[d].previous
    BY <2>4 DEF IInv, TypeOK, Directory
  <2>7. TypeOK'
    BY <2>1, <2>5 DEF Goto, IInv, TypeOK, Recovery, Holders, Point, Replacement, Loading, Importing, Ended
  <2>8. Advances(p)
    BY <2>1, <2>6 DEF Goto, IInv, TypeOK, ResumesKnown, Advances, Unpublished, Replacing, Recovery, Journal
  <2> QED
    BY <2>7, <2>8
<1>21. ASSUME NEW p \in Process, ConfirmNew(p) PROVE TypeOK' /\ Advances(p)
  <2>1. pc[p] = "confirmNew" /\ Goto(p, "removeJournal") /\ UNCHANGED <<active, journal, dirs, backups, local, served>>
    BY <1>21 DEF ConfirmNew
  <2>2. TypeOK'
    BY <2>1 DEF Goto, IInv, TypeOK, Recovery, Holders, Point, Replacement, Loading, Importing, Ended
  <2>3. Advances(p)
    BY <2>1 DEF Goto, IInv, TypeOK, ResumesKnown, JournalsPublished, Advances, Unpublished, Replacing, Recovery
  <2> QED
    BY <2>2, <2>3
<1>22. ASSUME NEW p \in Process, ReadJournal(p) PROVE TypeOK' /\ Advances(p)
  <2>1. /\ pc[p] = "recover" /\ UNCHANGED <<active, journal, dirs, backups, served>>
        /\ \A q \in Process \ {p} : pc'[q] = pc[q] /\ local'[q] = local[q]
        /\ local'[p].resume = local[p].resume /\ local'[p].source = local[p].source
    BY <1>22 DEF ReadJournal, Goto, IInv, TypeOK, Local
  <2>2. CASE Pending
    <3>1. /\ pc'[p] = "decide" /\ local'[p].journal = journal /\ journal # None
          /\ pc' \in [Process -> Point] /\ local' \in [Process -> Local]
      BY <1>22, <2>2 DEF ReadJournal, Pending, Goto, IInv, TypeOK, Local, Point, Recovery
    <3>2. TypeOK'
      BY <2>1, <3>1 DEF IInv, TypeOK
    <3>3. Advances(p)
      BY <2>1, <3>1 DEF IInv, ResumesKnown, SourcesNamed, Advances, Unpublished, Replacing, Recovery
    <3> QED
      BY <3>2, <3>3
  <2>3. CASE ~Pending
    <3>1. pc'[p] = local[p].resume /\ pc' \in [Process -> Point] /\ local' = local
      BY <1>22, <2>3, ResumptionsArePoints DEF ReadJournal, Goto, IInv, TypeOK, ResumesKnown
    <3>2. TypeOK'
      BY <2>1, <3>1, ResumptionsArePoints DEF IInv, TypeOK, ResumesKnown
    <3>3. Advances(p)
      BY <2>1, <3>1, ResumptionsArePoints DEF IInv, ResumesKnown, SourcesNamed, Advances, Unpublished, Replacing, Resumption, Recovery
    <3> QED
      BY <3>2, <3>3
  <2> QED
    BY <2>2, <2>3
<1>23. ASSUME NEW p \in Process, Load(p) PROVE TypeOK' /\ Advances(p)
  <2>1. CASE RecoverThen(p, "readSnapshot") /\ UNCHANGED served
    BY <1>23, <2>1, RecoveryIsCalled DEF Load, IInv, TypeOK, Recovery, Resumption
  <2>2. CASE Serve(p, Absent) /\ UNCHANGED local
    <3>1. TypeOK'
      BY <1>23, <2>2 DEF Load, Serve, Goto, IInv, TypeOK, Recovery, Holders, Point, Replacement, Loading, Importing, Ended, Absent, Pair, File
    <3>2. Advances(p)
      BY <1>23, <2>2 DEF Load, Serve, Goto, IInv, TypeOK, ResumesKnown, Advances, Unpublished, Replacing, Recovery
    <3> QED
      BY <3>1, <3>2
  <2> QED
    BY <1>23, <2>1, <2>2 DEF Load
<1>24. ASSUME NEW p \in Process, ReadSnapshot(p) PROVE TypeOK' /\ Advances(p)
  <2>1. pc[p] = "readSnapshot" /\ Goto(p, "findMetadata") /\ UNCHANGED <<active, journal, dirs, backups, served>>
    BY <1>24 DEF ReadSnapshot
  <2>2. /\ local' \in [Process -> Local]
        /\ \A q \in Process \ {p} : local'[q] = local[q]
        /\ local'[p].journal = local[p].journal /\ local'[p].resume = local[p].resume
    BY <1>24 DEF ReadSnapshot, IInv, TypeOK, Local, Pair
  <2>3. TypeOK'
    BY <2>1, <2>2 DEF Goto, IInv, TypeOK, Recovery, Holders, Point, Replacement, Loading, Importing, Ended
  <2>4. Advances(p)
    BY <2>1, <2>2 DEF Goto, IInv, TypeOK, ResumesKnown, Advances, Unpublished, Replacing, Recovery
  <2> QED
    BY <2>3, <2>4
<1>25. ASSUME NEW p \in Process, Verify(p) PROVE TypeOK' /\ Advances(p)
  <2>1. CASE Refuse(p)
    BY <1>25, <2>1, ProcessRefused DEF Verify
  <2>2. CASE ~Refuse(p)
    <3>1. /\ pc[p] = "verify" /\ UNCHANGED <<active, journal, dirs, backups, local>>
          /\ Serve(p, [snapshot |-> local[p].data, metadata |-> local[p].metadata])
      BY <1>25, <2>2 DEF Verify
    <3>2. served' \in [Process -> Pair \cup {None}]
      BY <3>1 DEF Serve, IInv, TypeOK, Local, Pair
    <3>3. TypeOK'
      BY <3>1, <3>2 DEF Serve, Goto, IInv, TypeOK, Recovery, Holders, Point, Replacement, Loading, Importing, Ended
    <3>4. Advances(p)
      BY <3>1 DEF Serve, Goto, IInv, TypeOK, ResumesKnown, Advances, Unpublished, Replacing, Recovery
    <3> QED
      BY <3>3, <3>4
  <2> QED
    BY <2>1, <2>2
<1>26. ASSUME NEW p \in Process, FindMetadata(p) PROVE TypeOK' /\ Advances(p)
  <2>1. CASE RecoverThen(p, "readMetadata") /\ UNCHANGED served
    BY <1>26, <2>1, RecoveryIsCalled DEF FindMetadata, IInv, TypeOK, Recovery, Resumption
  <2>2. CASE Serve(p, [snapshot |-> local[p].data, metadata |-> None]) /\ UNCHANGED local
    <3>1. pc[p] = "findMetadata" /\ UNCHANGED <<active, journal, dirs, backups>>
      BY <1>26 DEF FindMetadata
    <3>2. served' \in [Process -> Pair \cup {None}]
      BY <2>2 DEF Serve, IInv, TypeOK, Local, Pair, File
    <3>3. TypeOK'
      BY <2>2, <3>1, <3>2 DEF Serve, Goto, IInv, TypeOK, Recovery, Holders, Point, Replacement, Loading, Importing, Ended
    <3>4. Advances(p)
      BY <2>2, <3>1 DEF Serve, Goto, IInv, TypeOK, ResumesKnown, Advances, Unpublished, Replacing, Recovery
    <3> QED
      BY <3>3, <3>4
  <2> QED
    BY <1>26, <2>1, <2>2 DEF FindMetadata
<1>27. ASSUME NEW p \in Process, FailReplacement(p) PROVE TypeOK' /\ Advances(p)
  BY <1>27, RecoveryIsCalled DEF FailReplacement, IInv, TypeOK, Recovery, Resumption
<1>28. ASSUME NEW p \in Process, AbandonReplacement(p) PROVE TypeOK' /\ Advances(p)
  <2>1. /\ Unpublished(p) /\ pc[p] # "new" /\ Goto(p, "failed") /\ dirs' = [dirs EXCEPT ![p] = NoDirectory]
        /\ UNCHANGED <<active, journal, backups, local, served>>
    BY <1>28 DEF AbandonReplacement, Discard, Unpublished
  <2>2. TypeOK'
    BY <2>1 DEF Goto, IInv, TypeOK, Recovery, Holders, Point, Replacement, Loading, Importing, Ended,
                Directory, NoDirectory, Pair, File, Absent
  <2>3. Advances(p)
    BY <2>1 DEF Goto, IInv, TypeOK, ResumesKnown, JournalsPublished, Advances, Unpublished, Replacing, Recovery, Journal
  <2> QED
    BY <2>2, <2>3
<1>29. ASSUME NEW p \in Process, PublishJournal(p) \/ FailToSync(p) PROVE IInv'
  <2>1. /\ pc[p] = "publish" /\ journal = None /\ journal' = NewJournal(p)
        /\ UNCHANGED <<active, backups, served>>
        /\ Unpublished(p) /\ local[p].source \in Version
    BY <1>29 DEF PublishJournal, FailToSync, Discard, IInv, SourcesNamed, Unpublished
  <2>2. NewJournal(p) \in Journal /\ NewJournal(p).directory = p
        /\ NewJournal(p).previous = dirs[p].previous
    BY <2>1 DEF NewJournal, Journal, IInv, TypeOK, Directory
  <2>3. CASE FailToSync(p)
    <3>1. Goto(p, "failed") /\ dirs' = [dirs EXCEPT ![p] = NoDirectory] /\ UNCHANGED local
      BY <2>3 DEF FailToSync, Discard
    <3>2. TypeOK'
      BY <2>1, <2>2, <3>1 DEF Goto, IInv, TypeOK, Recovery, Holders, Point, Replacement, Loading, Importing, Ended,
                              Directory, NoDirectory, Pair, File, Absent
    <3>3. \A q \in Process : Unpublished(q)' <=> Unpublished(q) /\ q # p
      BY <3>1 DEF Unpublished, Goto, IInv, TypeOK, Recovery
    <3>4. ResumesKnown' /\ SourcesNamed'
      BY <3>1, <3>3 DEF Goto, IInv, TypeOK, ResumesKnown, Replacing, SourcesNamed
    <3>5. JournalsPublished'
      BY <2>1, <2>2, <3>1, <3>3 DEF IInv, TypeOK, Local, Journal, JournalsPublished
    <3>6. \A q \in Process : pc[q] = "removeDirectory" => local[q].journal.directory # p
      BY <2>1 DEF IInv, TypeOK, JournalsPublished, Holders, Recovery
    <3>7. RemovedInOrder'
      BY <2>1, <2>2, <3>1, <3>6 DEF RemovedInOrder, Goto, IInv, TypeOK
    <3>8. local[p].journal # NewJournal(p)
      BY <2>1, <2>2, NoneAssumption DEF IInv, TypeOK, Local, JournalsPublished
    <3>9. UnknownGivenUp' /\ JournalIsBacked'
      BY <2>1, <2>2, <3>1, <3>8 DEF UnknownGivenUp, JournalIsBacked, Goto, IInv, TypeOK
    <3> QED
      BY <3>2, <3>4, <3>5, <3>7, <3>9 DEF IInv
  <2>4. CASE PublishJournal(p)
    <3>1. /\ Goto(p, "renameSnapshot") /\ UNCHANGED dirs
          /\ local' = [local EXCEPT ![p].journal = NewJournal(p), ![p].resume = "done"]
      BY <2>4 DEF PublishJournal
    <3>2. /\ local' \in [Process -> Local] /\ pc' \in [Process -> Point]
          /\ \A q \in Process \ {p} : pc'[q] = pc[q] /\ local'[q] = local[q]
          /\ pc'[p] = "renameSnapshot" /\ local'[p].resume = "done" /\ local'[p].journal = NewJournal(p)
      BY <2>2, <3>1, ResumptionsArePoints DEF Goto, IInv, TypeOK, Local, Resumption
    <3>3. TypeOK'
      BY <2>1, <2>2, <3>1, <3>2, NoneAssumption DEF IInv, TypeOK
    <3>4. \A q \in Process : Unpublished(q)' <=> Unpublished(q) /\ q # p
      BY <3>2 DEF Unpublished, Recovery
    <3>5. ResumesKnown' /\ SourcesNamed'
      BY <3>2, <3>4 DEF IInv, ResumesKnown, Replacing, SourcesNamed, Resumption
    <3>6. JournalsPublished'
      BY <2>1, <2>2, <3>2, <3>4 DEF IInv, TypeOK, Local, Journal, JournalsPublished
    <3>7. \A q \in Process : pc[q] = "removeDirectory" => local[q].journal.directory # p
      BY <2>1 DEF IInv, TypeOK, JournalsPublished, Holders, Recovery
    <3>8. RemovedInOrder'
      BY <2>1, <2>2, <3>2, <3>7 DEF RemovedInOrder
    <3>9. UnknownGivenUp' /\ JournalIsBacked'
      BY <2>1, <2>2, <3>1, <3>2 DEF UnknownGivenUp, JournalIsBacked
    <3> QED
      BY <3>3, <3>5, <3>6, <3>8, <3>9 DEF IInv
  <2> QED
    BY <1>29, <2>3, <2>4
<1>30. CASE UNCHANGED vars
  BY <1>30 DEF vars, IInv, TypeOK, ResumesKnown, Replacing, SourcesNamed, JournalsPublished,
               RemovedInOrder, UnknownGivenUp, JournalIsBacked, Unpublished
<1> QED
  BY <1>1, <1>2, <1>3, <1>4, <1>5, <1>6, <1>7, <1>8, <1>9, <1>10, <1>11, <1>12, <1>13, <1>14, <1>15, <1>16, <1>17, <1>18, <1>19, <1>20, <1>21, <1>22, <1>23, <1>24, <1>25, <1>26, <1>27, <1>28, <1>29, <1>30, <1>31, AdvancesPreserve DEF Next

LEMMA InitEstablishes == Init => IInv
<1> SUFFICES ASSUME Init PROVE IInv
  OBVIOUS
<1>1. TypeOK
  BY NoneAssumption DEF Init, TypeOK, Recovery, Holders, Point, Replacement, Loading, Importing, Ended, Fresh, Local, Journal, Directory, NoDirectory, Pair, File, Absent, Whole
<1>2. ResumesKnown /\ SourcesNamed /\ JournalsPublished /\ RemovedInOrder /\ UnknownGivenUp /\ JournalIsBacked
  BY DEF Init, Fresh, ResumesKnown, Replacing, SourcesNamed, JournalsPublished, RemovedInOrder,
         UnknownGivenUp, JournalIsBacked, Unpublished, Resumption, Recovery
<1> QED
  BY <1>1, <1>2 DEF IInv

LEMMA IInvHolds == Spec => []IInv
<1>1. Init => IInv
  BY InitEstablishes
<1>2. IInv /\ [Next]_vars => IInv'
  BY NextPreserves
<1> QED
  BY <1>1, <1>2, PTL DEF Spec

(***************************************************************************)
(* Type correctness of the files, of the processes of the command line and *)
(* of the API processes that load the pair.                                *)
(***************************************************************************)
THEOREM CoverageTyped == Spec => []TypeOK
<1>1. IInv => TypeOK
  BY DEF IInv
<1> QED
  BY <1>1, IInvHolds, PTL

(***************************************************************************)
(* However many commands and startups overlap, wherever they crash and     *)
(* whichever directory is not synchronised, a journal that its process     *)
(* knows it published names copies of the prior pair that are on disk: the *)
(* order in which cleanupPromotion removes the two, and publishJournal's   *)
(* refusal to replace a journal, are enough.                               *)
(***************************************************************************)
THEOREM JournalBacked == Spec => []JournalIsBacked
<1>1. IInv => JournalIsBacked
  BY DEF IInv
<1> QED
  BY <1>1, IInvHolds, PTL
-----------------------------------------------------------------------------
\* The snapshot of the journal is in place, its metadata is not.
Half(j) == [snapshot |-> j.new, metadata |-> j.previous.metadata]

\* What a process calls recoverPendingCoveragePromotion for a second time.
Again == {"stage", "readSnapshot", "readMetadata", "writeMetadata"}

\* Where a process that runs alone has removed every journal, and where it has one.
Unlocked == {"removeDirectory", "backup", "backupMetadata", "stage", "copySnapshot", "copyMetadata",
             "publish"}
            \cup Loading \cup Importing
Locked == Holders \ {"removeDirectory"}

Alone == Running = {} \/ \E p \in Process : Running = {p}

\* There is no metadata without a snapshot, and a journal tells how far it got.
Files ==
  /\ active.snapshot = None => active.metadata = None
  /\ journal # None =>
       /\ journal.previous.snapshot = None => journal.previous.metadata = None
       /\ active \in {journal.previous, Half(journal), Whole(journal.new)}

\* The journal of a process that runs alone.
Holds(p) ==
  /\ pc[p] \in Unlocked \/ (pc[p] = "recover" /\ local[p].resume \in Again) => journal = None
  /\ pc[p] \in Locked => local[p].journal = journal
  /\ pc[p] \in Recovery => local[p].resume \notin Again

\* The pair while the process replaces or restores it.
Replaces(p) ==
  /\ pc[p] = "restoreSnapshot" => active # Whole(journal.new)
  /\ pc[p] \in {"restoreMetadata", "confirmPrevious", "renameSnapshot"} => active = journal.previous
  /\ pc[p] = "removeJournal" => active \in {journal.previous, Whole(journal.new)}
  /\ pc[p] = "renameMetadata" => active = Half(journal)
  /\ pc[p] = "confirmNew" => active = Whole(journal.new)

\* The transaction directory while the process fills and empties it.
Stages(p) ==
  /\ pc[p] \in {"copySnapshot", "copyMetadata", "publish"} => dirs[p].new = Whole(local[p].source)
  /\ pc[p] = "copyMetadata" => dirs[p].previous.snapshot = active.snapshot
  /\ pc[p] = "publish" => dirs[p].previous = active
  /\ pc[p] = "renameSnapshot" => dirs[p].new = Whole(journal.new)
  /\ pc[p] = "renameMetadata" => dirs[p].new.metadata = journal.new

\* What the API has read is what is on disk.
Loads(p) ==
  /\ \/ pc[p] \in {"findMetadata", "readMetadata", "verify"}
     \/ pc[p] = "recover" /\ local[p].resume = "readMetadata"
     => local[p].data = active.snapshot
  /\ pc[p] = "verify" => local[p].metadata = active.metadata /\ active.metadata # None

\* The snapshot of an import is there until its metadata is.
Imports(p) ==
  /\ pc[p] = "writeSnapshot" \/ local[p].resume = "writeSnapshot" => local[p].source \in Version
  /\ local[p].resume = "writeMetadata" => active.snapshot # None
  /\ pc[p] = "writeMetadata" => local[p].resume = "writeMetadata"
  /\ local[p].resume = "writeMetadata" => pc[p] \in {"recover", "writeMetadata"}

Before(p) == pc[p] = "new" => local[p].resume = "done"

Served(p) == pc[p] \notin Ended => served[p] = None

Sees(p) == Holds(p) /\ Replaces(p) /\ Stages(p) /\ Loads(p) /\ Imports(p)

\* A process that runs alone sees no file change but by its own steps.
AInv == /\ Alone /\ Files
        /\ \A p \in Running : Sees(p)
        /\ \A p \in Process : Before(p) /\ Served(p)

\* A step of process p leaves the other processes alone.
Others(p) == \A q \in Process \ {p} : pc'[q] = pc[q] /\ local'[q] = local[q] /\ served'[q] = served[q]

\* What a step of process p owes to the invariant.
Owes(p) == Files' /\ (p \in Running' => Sees(p)') /\ Before(p)' /\ Served(p)'

LEMMA OwedIsEnough ==
  ASSUME AInv, NEW p \in Process, Others(p), p \in Running \/ Running = {}, Owes(p)
  PROVE  AInv'
<1>1. \A q \in Running : q = p
  BY DEF AInv, Alone
<1>2. \A q \in Running' : q = p
  BY <1>1 DEF Running, Others
<1>3. Alone'
  BY <1>2 DEF Alone, Running
<1>4. \A q \in Process : Before(q)' /\ Served(q)'
  BY DEF AInv, Before, Served, Others, Owes
<1> QED
  BY <1>2, <1>3, <1>4 DEF AInv, Owes

\* A process between the two files of an import, and what a step of it does to the others.
Between(p) == local[p].resume = "writeMetadata" /\ pc[p] \notin {"done", "failed"}

LEMMA SameImporters ==
  ASSUME NEW p \in Process, Others(p), Between(p)' <=> Between(p)
  PROVE  Importers' = Importers
<1>1. \A q \in Process : Between(q)' <=> Between(q)
  BY DEF Others, Between
<1> QED
  BY <1>1 DEF Importers, Between

\* A process starts only when none runs.
LEMMA StartsAlone ==
  ASSUME MaxRunning = 1, AInv, NEW p \in Process, NEW source, NEW point, Start(p, source, point)
  PROVE  Running = {}
<1>1. SUFFICES ASSUME NEW q \in Process, Running = {q} PROVE FALSE
  BY DEF AInv, Alone
<1>2. Cardinality(Running) = 1
  BY <1>1, FS_Singleton
<1> QED
  BY <1>2 DEF Start

\* The processes that start.
LEMMA StartsOwe ==
  ASSUME MaxRunning = 1, IInv, AInv, TypeOK', NEW p \in Process, NEW source \in File,
         NEW point \in {"backup", "writeSnapshot", "load"},
         point = "writeSnapshot" => source \in Version, Start(p, source, point)
  PROVE  /\ AInv'
         /\ UNCHANGED <<Effective, Importers, served>>
<1>1. /\ pc[p] = "new" /\ pc'[p] = "recover" /\ UNCHANGED <<active, journal, dirs, served>>
      /\ local'[p].resume = point /\ local'[p].source = source
      /\ local[p].resume = "done" /\ Others(p)
  BY DEF Start, Goto, Others, IInv, TypeOK, Local, AInv, Before
<1>2. Owes(p)
  BY <1>1 DEF Owes, AInv, Files, Sees, Holds, Replaces, Stages, Loads, Imports, Before, Served, Again,
              Unlocked, Loading, Importing, Locked, Holders, Recovery, Ended
<1>3. Importers' = Importers
  BY <1>1 DEF Importers, Others
<1>4. Effective' = Effective
  BY <1>1 DEF Effective, IsCompleteNewPair
<1> QED
  BY <1>1, <1>2, <1>3, <1>4, StartsAlone, OwedIsEnough

\* The pair of Active as a step of this module shows it.
Shows == \/ UNCHANGED <<Effective, Importers, served>>
         \/ Active!Next

\* What each step of a process that runs alone satisfies.
Accords(p) ==
  /\ Others(p) /\ p \in Running /\ Owes(p) /\ Shows
  /\ pc'[p] = "refused" => Unsynced \/ Effective.metadata \notin {None, Effective.snapshot}

\* The end of a recovery, or the lack of a journal to recover.
LEMMA ResumedOwes ==
  ASSUME IInv, AInv, NEW p \in Process, p \in Running, Others(p), pc[p] \in {"recover", "removeDirectory"},
         pc'[p] = local[p].resume, local'[p] = local[p], journal = None,
         UNCHANGED <<active, journal, served>>
  PROVE  Owes(p) /\ Importers' = Importers
<1>1. /\ local[p].resume \in Resumption /\ Sees(p) /\ Files /\ Served(p)
  BY DEF IInv, ResumesKnown, AInv
<1>2. Files' /\ Before(p)' /\ Served(p)'
  BY <1>1 DEF Files, Before, Served, Resumption, Ended
<1>3. Holds(p)'
  BY <1>1 DEF Holds, Resumption, Locked, Holders, Recovery
<1>4. Replaces(p)' /\ Stages(p)'
  BY <1>1 DEF Replaces, Stages, Resumption
<1>5. Loads(p)'
  BY <1>1 DEF Sees, Holds, Loads, Resumption, Recovery, Again
<1>6. p \in Running' => Imports(p)'
  BY <1>1 DEF Sees, Imports, Resumption, Again
<1>7. Importers' = Importers
  <2>1. \A q \in Process \ {p} : q \in Importers' <=> q \in Importers
    BY DEF Importers, Others
  <2>2. p \in Importers' <=> p \in Importers
    BY <1>1 DEF Importers, Resumption
  <2> QED
    BY <2>1, <2>2 DEF Importers
<1> QED
  BY <1>2, <1>3, <1>4, <1>5, <1>6, <1>7 DEF Owes, Sees

\* The steps that leave the pair as it is.
LEMMA QuietStepsAccord ==
  ASSUME IInv, AInv, TypeOK'
  PROVE  \A p \in Process :
           \/ Crash(p) \/ ReadJournal(p) \/ Decide(p) \/ ConfirmPrevious(p) \/ RemoveJournal(p)
           \/ RemoveDirectory(p) \/ Backup(p) \/ BackupMetadata(p) \/ Stage(p) \/ CopySnapshot(p) \/ CopyMetadata(p)
           \/ AbandonReplacement(p) \/ FailReplacement(p) \/ ConfirmNew(p)
           \/ ReadSnapshot(p) \/ ReadMetadata(p)
           => Accords(p)
<1>1. ASSUME NEW p \in Process, Crash(p) PROVE Accords(p)
  <2>1. /\ Others(p) /\ p \in Running
        /\ pc[p] \notin Ended \cup {"new"} /\ pc'[p] = "crashed" /\ local' = local
        /\ UNCHANGED <<active, journal, dirs, served>>
    BY <1>1 DEF Crash, Goto, Others, Running, Ended, IInv, TypeOK, ResumesKnown, Replacing, Local, Journal, Pair, Directory, Running
  <2>2. Owes(p)
    <3>1. Files'
      BY <2>1 DEF AInv, Files, Half, Whole
    <3>6. Before(p)' /\ Served(p)'
      BY <2>1 DEF AInv, Before, Served, Ended, Running, Loading
    <3>2. p \in Running' => Holds(p)'
      BY <2>1 DEF AInv, Sees, Holds, Again, Unlocked, Loading, Importing, Locked, Holders, Recovery, Ended, Running,
                  IInv, TypeOK, ResumesKnown, Replacing, Local, Journal, Pair, Directory, Resumption
    <3>3. p \in Running' => Replaces(p)'
      BY <2>1 DEF AInv, Files, Sees, Holds, Replaces, Stages, Locked, Holders, Recovery, Ended, Running,
                  IInv, TypeOK, ResumesKnown, Replacing, Local, Journal, Pair, Directory, Half, Whole, Resumption
    <3>4. p \in Running' => Stages(p)'
      BY <2>1 DEF AInv, Sees, Stages, Replaces, Holds, Locked, Holders, Recovery, Ended, Running, IInv, TypeOK, ResumesKnown, Replacing, Local, Journal, Pair, Directory, Half, Whole, Resumption
    <3>5. p \in Running' => Loads(p)' /\ Imports(p)'
      BY <2>1 DEF AInv, Files, Sees, Loads, Imports, Recovery, Ended, Running, IInv, TypeOK, ResumesKnown, Replacing, Local, Journal, Pair, Directory, Resumption
    <3> QED
      BY <3>1, <3>2, <3>3, <3>4, <3>5, <3>6 DEF Owes, Sees
  <2>3. Importers' = Importers
    <3>1. Imports(p) /\ Holds(p) /\ p \in Process
      BY <2>1 DEF AInv, Sees, Running
    <3>2. Between(p)' <=> Between(p)
      BY <3>1, <2>1 DEF Between, Imports, Holds, Recovery, Resumption, IInv, ResumesKnown
    <3> QED
      BY <3>2, <2>1, SameImporters
  <2>4. Effective' = Effective
    BY <2>1 DEF Effective, IsCompleteNewPair, AInv, Files, Sees, Holds, Replaces, Locked, Holders, Running, Ended
  <2>5. pc'[p] # "refused"
    BY <2>1 DEF AInv, Sees, Holds, Replaces, Locked, Holders, Recovery, Resumption, IInv, TypeOK, ResumesKnown, Replacing, Local, Journal, Pair, Directory
  <2> QED
    BY <2>1, <2>2, <2>3, <2>4, <2>5 DEF Accords, Shows
<1>2. ASSUME NEW p \in Process, ReadJournal(p) PROVE Accords(p)
  <2>1. /\ Others(p) /\ p \in Running
        /\ pc[p] = "recover" /\ UNCHANGED <<active, journal, dirs, served>>
        /\ IF journal # None
           THEN pc'[p] = "decide" /\ local'[p] = [local[p] EXCEPT !.journal = journal]
           ELSE pc'[p] = local[p].resume /\ local'[p] = local[p]
    BY <1>2 DEF ReadJournal, Goto, Others, Running, Ended, IInv, TypeOK, ResumesKnown, Replacing, Local, Journal, Pair, Directory, Pending
  <2>2. Effective' = Effective
    BY <2>1 DEF Effective, IsCompleteNewPair
  <2>3. pc'[p] # "refused"
    BY <2>1 DEF IInv, ResumesKnown, Resumption
  <2>4. Owes(p) /\ Importers' = Importers
    <3>1. CASE journal = None
      BY <2>1, <3>1, ResumedOwes
    <3>2. CASE journal # None
      <4>1. /\ pc'[p] = "decide" /\ local'[p].journal = journal /\ local'[p].resume = local[p].resume
            /\ local'[p].source = local[p].source
        BY <2>1, <3>2 DEF IInv, TypeOK, Local
      <4>2. Owes(p)
        BY <2>1, <3>2, <4>1 DEF Owes, AInv, Files, Sees, Holds, Replaces, Stages, Loads, Imports, Before, Served, Again,
              Unlocked, Loading, Importing, Locked, Holders, Recovery, Ended, Running
      <4>3. Importers' = Importers
        BY <2>1, <4>1 DEF Importers, Others
      <4> QED
        BY <4>2, <4>3
    <3> QED
      BY <3>1, <3>2
  <2> QED
    BY <2>1, <2>2, <2>3, <2>4 DEF Accords, Shows
<1>3. ASSUME NEW p \in Process, Decide(p) PROVE Accords(p)
  <2>1. /\ Others(p) /\ p \in Running
        /\ pc[p] = "decide" /\ local' = local /\ UNCHANGED <<active, journal, dirs, served>>
        /\ pc'[p] = IF active = Whole(local[p].journal.new) THEN "removeJournal" ELSE "restoreSnapshot"
    BY <1>3 DEF Decide, Goto, Others, Running, Ended, IInv, TypeOK, ResumesKnown, Replacing, Local, Journal, Pair, Directory, IsCompleteNewPair
  <2>2. Owes(p)
    <3>1. Files'
      BY <2>1 DEF AInv, Files, Half, Whole
    <3>6. Before(p)' /\ Served(p)'
      BY <2>1 DEF AInv, Before, Served, Ended, Running, Loading
    <3>2. p \in Running' => Holds(p)'
      BY <2>1 DEF AInv, Sees, Holds, Again, Unlocked, Loading, Importing, Locked, Holders, Recovery, Ended, Running,
                  IInv, TypeOK, ResumesKnown, Replacing, Local, Journal, Pair, Directory, Resumption
    <3>3. p \in Running' => Replaces(p)'
      BY <2>1 DEF AInv, Files, Sees, Holds, Replaces, Stages, Locked, Holders, Recovery, Ended, Running,
                  IInv, TypeOK, ResumesKnown, Replacing, Local, Journal, Pair, Directory, Half, Whole, Resumption
    <3>4. p \in Running' => Stages(p)'
      BY <2>1 DEF AInv, Sees, Stages, Replaces, Holds, Locked, Holders, Recovery, Ended, Running, IInv, TypeOK, ResumesKnown, Replacing, Local, Journal, Pair, Directory, Half, Whole, Resumption
    <3>5. p \in Running' => Loads(p)' /\ Imports(p)'
      BY <2>1 DEF AInv, Files, Sees, Loads, Imports, Recovery, Ended, Running, IInv, TypeOK, ResumesKnown, Replacing, Local, Journal, Pair, Directory, Resumption
    <3> QED
      BY <3>1, <3>2, <3>3, <3>4, <3>5, <3>6 DEF Owes, Sees
  <2>3. Importers' = Importers
    <3>1. Imports(p) /\ Holds(p) /\ p \in Process
      BY <2>1 DEF AInv, Sees, Running
    <3>2. Between(p)' <=> Between(p)
      BY <3>1, <2>1 DEF Between, Imports, Holds, Recovery, Resumption, IInv, ResumesKnown
    <3> QED
      BY <3>2, <2>1, SameImporters
  <2>4. Effective' = Effective
    BY <2>1 DEF Effective, IsCompleteNewPair, AInv, Files, Sees, Holds, Replaces, Locked, Holders, Running, Ended
  <2>5. pc'[p] # "refused"
    BY <2>1 DEF AInv, Sees, Holds, Replaces, Locked, Holders, Recovery, Resumption, IInv, TypeOK, ResumesKnown, Replacing, Local, Journal, Pair, Directory
  <2> QED
    BY <2>1, <2>2, <2>3, <2>4, <2>5 DEF Accords, Shows
<1>4. ASSUME NEW p \in Process, ConfirmPrevious(p) PROVE Accords(p)
  <2>1. /\ Others(p) /\ p \in Running
        /\ pc[p] = "confirmPrevious" /\ local' = local /\ UNCHANGED <<active, journal, dirs, served>>
        /\ pc'[p] = IF active = local[p].journal.previous THEN "removeJournal" ELSE "refused"
    BY <1>4 DEF ConfirmPrevious, Goto, Others, Running, Ended, IInv, TypeOK, ResumesKnown, Replacing, Local, Journal, Pair, Directory
  <2>2. Owes(p)
    <3>1. Files'
      BY <2>1 DEF AInv, Files, Half, Whole
    <3>6. Before(p)' /\ Served(p)'
      BY <2>1 DEF AInv, Before, Served, Ended, Running, Loading
    <3>2. p \in Running' => Holds(p)'
      BY <2>1 DEF AInv, Sees, Holds, Again, Unlocked, Loading, Importing, Locked, Holders, Recovery, Ended, Running,
                  IInv, TypeOK, ResumesKnown, Replacing, Local, Journal, Pair, Directory, Resumption
    <3>3. p \in Running' => Replaces(p)'
      BY <2>1 DEF AInv, Files, Sees, Holds, Replaces, Stages, Locked, Holders, Recovery, Ended, Running,
                  IInv, TypeOK, ResumesKnown, Replacing, Local, Journal, Pair, Directory, Half, Whole, Resumption
    <3>4. p \in Running' => Stages(p)'
      BY <2>1 DEF AInv, Sees, Stages, Replaces, Holds, Locked, Holders, Recovery, Ended, Running, IInv, TypeOK, ResumesKnown, Replacing, Local, Journal, Pair, Directory, Half, Whole, Resumption
    <3>5. p \in Running' => Loads(p)' /\ Imports(p)'
      BY <2>1 DEF AInv, Files, Sees, Loads, Imports, Recovery, Ended, Running, IInv, TypeOK, ResumesKnown, Replacing, Local, Journal, Pair, Directory, Resumption
    <3> QED
      BY <3>1, <3>2, <3>3, <3>4, <3>5, <3>6 DEF Owes, Sees
  <2>3. Importers' = Importers
    <3>1. Imports(p) /\ Holds(p) /\ p \in Process
      BY <2>1 DEF AInv, Sees, Running
    <3>2. Between(p)' <=> Between(p)
      BY <3>1, <2>1 DEF Between, Imports, Holds, Recovery, Resumption, IInv, ResumesKnown
    <3> QED
      BY <3>2, <2>1, SameImporters
  <2>4. Effective' = Effective
    BY <2>1 DEF Effective, IsCompleteNewPair, AInv, Files, Sees, Holds, Replaces, Locked, Holders, Running, Ended
  <2>5. pc'[p] # "refused"
    BY <2>1 DEF AInv, Sees, Holds, Replaces, Locked, Holders, Recovery, Resumption, IInv, TypeOK, ResumesKnown, Replacing, Local, Journal, Pair, Directory
  <2> QED
    BY <2>1, <2>2, <2>3, <2>4, <2>5 DEF Accords, Shows
<1>5. ASSUME NEW p \in Process, RemoveJournal(p) PROVE Accords(p)
  <2>1. /\ Others(p) /\ p \in Running
        /\ pc[p] = "removeJournal" /\ pc'[p] = "removeDirectory" /\ local' = local
        /\ journal' = None /\ UNCHANGED <<active, dirs, served>>
    BY <1>5 DEF RemoveJournal, Goto, Others, Running, Ended, IInv, TypeOK, ResumesKnown, Replacing, Local, Journal, Pair, Directory
  <2>2. Owes(p)
    <3>1. Files'
      BY <2>1 DEF AInv, Files, Sees, Holds, Replaces, Stages, Locked, Holders, Recovery, Running, Ended,
                  IInv, TypeOK, Journal, Pair, Directory, Half, Whole
    <3>6. Before(p)' /\ Served(p)'
      BY <2>1 DEF AInv, Before, Served, Ended, Running, Loading
    <3>2. p \in Running' => Holds(p)'
      BY <2>1 DEF AInv, Sees, Holds, Again, Unlocked, Loading, Importing, Locked, Holders, Recovery, Ended, Running,
                  IInv, TypeOK, ResumesKnown, Replacing, Local, Journal, Pair, Directory, Resumption
    <3>3. p \in Running' => Replaces(p)'
      BY <2>1 DEF AInv, Files, Sees, Holds, Replaces, Stages, Locked, Holders, Recovery, Ended, Running,
                  IInv, TypeOK, ResumesKnown, Replacing, Local, Journal, Pair, Directory, Half, Whole, Resumption
    <3>4. p \in Running' => Stages(p)'
      BY <2>1 DEF AInv, Sees, Stages, Replaces, Holds, Locked, Holders, Recovery, Ended, Running, IInv, TypeOK, ResumesKnown, Replacing, Local, Journal, Pair, Directory, Half, Whole, Resumption
    <3>5. p \in Running' => Loads(p)' /\ Imports(p)'
      BY <2>1 DEF AInv, Files, Sees, Loads, Imports, Recovery, Ended, Running, IInv, TypeOK, ResumesKnown, Replacing, Local, Journal, Pair, Directory, Resumption
    <3> QED
      BY <3>1, <3>2, <3>3, <3>4, <3>5, <3>6 DEF Owes, Sees
  <2>3. Importers' = Importers
    <3>1. Imports(p) /\ Holds(p) /\ p \in Process
      BY <2>1 DEF AInv, Sees, Running
    <3>2. Between(p)' <=> Between(p)
      BY <3>1, <2>1 DEF Between, Imports, Holds, Recovery, Resumption, IInv, ResumesKnown
    <3> QED
      BY <3>2, <2>1, SameImporters
  <2>4. Effective' = Effective
    BY <2>1 DEF Effective, IsCompleteNewPair, AInv, Files, Sees, Holds, Replaces, Locked, Holders, Running, Ended
  <2>5. pc'[p] # "refused"
    BY <2>1 DEF AInv, Sees, Holds, Replaces, Locked, Holders, Recovery, Resumption, IInv, TypeOK, ResumesKnown, Replacing, Local, Journal, Pair, Directory
  <2> QED
    BY <2>1, <2>2, <2>3, <2>4, <2>5 DEF Accords, Shows
<1>6. ASSUME NEW p \in Process, RemoveDirectory(p) PROVE Accords(p)
  <2>1. /\ Others(p) /\ p \in Running
        /\ pc[p] = "removeDirectory" /\ pc'[p] = local[p].resume /\ local' = local
        /\ UNCHANGED <<active, journal, served>>
    BY <1>6 DEF RemoveDirectory, Goto, Others, Running, Ended, IInv, TypeOK, ResumesKnown, Replacing, Local, Journal, Pair, Directory
  <2>2. journal = None /\ local[p].resume \in Resumption
    BY <2>1 DEF IInv, ResumesKnown, AInv, Sees, Holds, Unlocked
  <2>3. Owes(p) /\ Importers' = Importers
    BY <2>1, <2>2, ResumedOwes
  <2>4. Effective' = Effective
    BY <2>1 DEF Effective, IsCompleteNewPair
  <2> QED
    BY <2>1, <2>2, <2>3, <2>4 DEF Accords, Shows, Resumption
<1>7. ASSUME NEW p \in Process, Backup(p) \/ BackupMetadata(p) PROVE Accords(p)
  <2>1. /\ Others(p) /\ p \in Running /\ pc[p] \in {"backup", "backupMetadata"}
        /\ \/ pc'[p] = "recover" /\ local'[p].resume = "stage"
           \/ pc'[p] = "backupMetadata" /\ local'[p].resume = local[p].resume
        /\ local'[p].source = local[p].source /\ local'[p].journal = local[p].journal
        /\ UNCHANGED <<active, journal, dirs, served>>
    BY <1>7 DEF Backup, BackupMetadata, Goto, Others, Running, Ended, IInv, TypeOK, ResumesKnown, Replacing, Local, Journal, Pair, Directory, RecoverThen
  <2>6. journal = None /\ local[p].resume # "writeMetadata"
    BY <2>1 DEF AInv, Sees, Holds, Unlocked, Imports
  <2>2. Owes(p)
    <3>1. Files'
      BY <2>1 DEF AInv, Files, Half, Whole
    <3>6. Before(p)' /\ Served(p)'
      BY <2>1, <2>6 DEF AInv, Before, Served, Ended, Running, Loading
    <3>2. p \in Running' => Holds(p)'
      BY <2>1, <2>6 DEF AInv, Sees, Holds, Again, Unlocked, Loading, Importing, Locked, Holders, Recovery, Ended, Running,
                  IInv, TypeOK, ResumesKnown, Replacing, Local, Journal, Pair, Directory, Resumption
    <3>3. p \in Running' => Replaces(p)'
      BY <2>1, <2>6 DEF AInv, Files, Sees, Holds, Replaces, Stages, Locked, Holders, Recovery, Ended, Running,
                  IInv, TypeOK, ResumesKnown, Replacing, Local, Journal, Pair, Directory, Half, Whole, Resumption
    <3>4. p \in Running' => Stages(p)'
      BY <2>1, <2>6 DEF AInv, Sees, Stages, Replaces, Holds, Locked, Holders, Recovery, Ended, Running, IInv, TypeOK, ResumesKnown, Replacing, Local, Journal, Pair, Directory, Half, Whole, Resumption
    <3>5. p \in Running' => Loads(p)' /\ Imports(p)'
      BY <2>1, <2>6 DEF AInv, Files, Sees, Loads, Imports, Recovery, Ended, Running, IInv, TypeOK, ResumesKnown, Replacing, Local, Journal, Pair, Directory, Resumption
    <3> QED
      BY <3>1, <3>2, <3>3, <3>4, <3>5, <3>6 DEF Owes, Sees
  <2>3. Importers' = Importers
    <3>1. Imports(p) /\ Holds(p) /\ p \in Process
      BY <2>1, <2>6 DEF AInv, Sees, Running
    <3>2. Between(p)' <=> Between(p)
      BY <3>1, <2>1, <2>6 DEF Between, Imports, Holds, Recovery, Resumption, IInv, ResumesKnown
    <3> QED
      BY <3>2, <2>1, <2>6, SameImporters
  <2>4. Effective' = Effective
    BY <2>1 DEF Effective, IsCompleteNewPair, AInv, Files, Sees, Holds, Replaces, Locked, Holders, Running, Ended
  <2>5. pc'[p] # "refused"
    BY <2>1 DEF AInv, Sees, Holds, Replaces, Locked, Holders, Recovery, Resumption, IInv, TypeOK, ResumesKnown, Replacing, Local, Journal, Pair, Directory
  <2> QED
    BY <2>1, <2>2, <2>3, <2>4, <2>5 DEF Accords, Shows
<1>8. ASSUME NEW p \in Process, Stage(p) PROVE Accords(p)
  <2>1. /\ Others(p) /\ p \in Running
        /\ pc[p] = "stage" /\ pc'[p] = "copySnapshot" /\ local' = local
        /\ dirs'[p].new = Whole(local[p].source) /\ UNCHANGED <<active, journal, served>>
    BY <1>8 DEF Stage, Goto, Others, Running, Ended, IInv, TypeOK, ResumesKnown, Replacing, Local, Journal, Pair, Directory
  <2>2. Owes(p)
    <3>1. Files'
      BY <2>1 DEF AInv, Files, Half, Whole
    <3>6. Before(p)' /\ Served(p)'
      BY <2>1 DEF AInv, Before, Served, Ended, Running, Loading
    <3>2. p \in Running' => Holds(p)'
      BY <2>1 DEF AInv, Sees, Holds, Again, Unlocked, Loading, Importing, Locked, Holders, Recovery, Ended, Running,
                  IInv, TypeOK, ResumesKnown, Replacing, Local, Journal, Pair, Directory, Resumption
    <3>3. p \in Running' => Replaces(p)'
      BY <2>1 DEF AInv, Files, Sees, Holds, Replaces, Stages, Locked, Holders, Recovery, Ended, Running,
                  IInv, TypeOK, ResumesKnown, Replacing, Local, Journal, Pair, Directory, Half, Whole, Resumption
    <3>4. p \in Running' => Stages(p)'
      BY <2>1 DEF AInv, Sees, Stages, Replaces, Holds, Locked, Holders, Recovery, Ended, Running, IInv, TypeOK, ResumesKnown, Replacing, Local, Journal, Pair, Directory, Half, Whole, Resumption
    <3>5. p \in Running' => Loads(p)' /\ Imports(p)'
      BY <2>1 DEF AInv, Files, Sees, Loads, Imports, Recovery, Ended, Running, IInv, TypeOK, ResumesKnown, Replacing, Local, Journal, Pair, Directory, Resumption
    <3> QED
      BY <3>1, <3>2, <3>3, <3>4, <3>5, <3>6 DEF Owes, Sees
  <2>3. Importers' = Importers
    <3>1. Imports(p) /\ Holds(p) /\ p \in Process
      BY <2>1 DEF AInv, Sees, Running
    <3>2. Between(p)' <=> Between(p)
      BY <3>1, <2>1 DEF Between, Imports, Holds, Recovery, Resumption, IInv, ResumesKnown
    <3> QED
      BY <3>2, <2>1, SameImporters
  <2>4. Effective' = Effective
    BY <2>1 DEF Effective, IsCompleteNewPair, AInv, Files, Sees, Holds, Replaces, Locked, Holders, Running, Ended
  <2>5. pc'[p] # "refused"
    BY <2>1 DEF AInv, Sees, Holds, Replaces, Locked, Holders, Recovery, Resumption, IInv, TypeOK, ResumesKnown, Replacing, Local, Journal, Pair, Directory
  <2> QED
    BY <2>1, <2>2, <2>3, <2>4, <2>5 DEF Accords, Shows
<1>9. ASSUME NEW p \in Process, CopySnapshot(p) PROVE Accords(p)
  <2>1. /\ Others(p) /\ p \in Running
        /\ pc[p] = "copySnapshot" /\ pc'[p] = "copyMetadata" /\ local' = local
        /\ dirs'[p].new = dirs[p].new /\ dirs'[p].previous.snapshot = active.snapshot
        /\ UNCHANGED <<active, journal, served>>
    BY <1>9 DEF CopySnapshot, Goto, Others, Running, Ended, IInv, TypeOK, ResumesKnown, Replacing, Local, Journal, Pair, Directory
  <2>2. Owes(p)
    <3>1. Files'
      BY <2>1 DEF AInv, Files, Half, Whole
    <3>6. Before(p)' /\ Served(p)'
      BY <2>1 DEF AInv, Before, Served, Ended, Running, Loading
    <3>2. p \in Running' => Holds(p)'
      BY <2>1 DEF AInv, Sees, Holds, Again, Unlocked, Loading, Importing, Locked, Holders, Recovery, Ended, Running,
                  IInv, TypeOK, ResumesKnown, Replacing, Local, Journal, Pair, Directory, Resumption
    <3>3. p \in Running' => Replaces(p)'
      BY <2>1 DEF AInv, Files, Sees, Holds, Replaces, Stages, Locked, Holders, Recovery, Ended, Running,
                  IInv, TypeOK, ResumesKnown, Replacing, Local, Journal, Pair, Directory, Half, Whole, Resumption
    <3>4. p \in Running' => Stages(p)'
      BY <2>1 DEF AInv, Sees, Stages, Replaces, Holds, Locked, Holders, Recovery, Ended, Running, IInv, TypeOK, ResumesKnown, Replacing, Local, Journal, Pair, Directory, Half, Whole, Resumption
    <3>5. p \in Running' => Loads(p)' /\ Imports(p)'
      BY <2>1 DEF AInv, Files, Sees, Loads, Imports, Recovery, Ended, Running, IInv, TypeOK, ResumesKnown, Replacing, Local, Journal, Pair, Directory, Resumption
    <3> QED
      BY <3>1, <3>2, <3>3, <3>4, <3>5, <3>6 DEF Owes, Sees
  <2>3. Importers' = Importers
    <3>1. Imports(p) /\ Holds(p) /\ p \in Process
      BY <2>1 DEF AInv, Sees, Running
    <3>2. Between(p)' <=> Between(p)
      BY <3>1, <2>1 DEF Between, Imports, Holds, Recovery, Resumption, IInv, ResumesKnown
    <3> QED
      BY <3>2, <2>1, SameImporters
  <2>4. Effective' = Effective
    BY <2>1 DEF Effective, IsCompleteNewPair, AInv, Files, Sees, Holds, Replaces, Locked, Holders, Running, Ended
  <2>5. pc'[p] # "refused"
    BY <2>1 DEF AInv, Sees, Holds, Replaces, Locked, Holders, Recovery, Resumption, IInv, TypeOK, ResumesKnown, Replacing, Local, Journal, Pair, Directory
  <2> QED
    BY <2>1, <2>2, <2>3, <2>4, <2>5 DEF Accords, Shows
<1>10. ASSUME NEW p \in Process, CopyMetadata(p) PROVE Accords(p)
  <2>1. /\ Others(p) /\ p \in Running
        /\ pc[p] = "copyMetadata" /\ pc'[p] = "publish" /\ local' = local
        /\ dirs'[p].new = dirs[p].new /\ dirs'[p].previous.metadata = active.metadata
        /\ dirs'[p].previous.snapshot = dirs[p].previous.snapshot /\ dirs'[p].previous \in Pair
        /\ UNCHANGED <<active, journal, served>>
    BY <1>10 DEF CopyMetadata, Goto, Others, Running, Ended, IInv, TypeOK, ResumesKnown, Replacing, Local, Journal, Pair, Directory
  <2>6. /\ journal = None /\ dirs'[p].previous = active /\ dirs'[p].new = Whole(local[p].source)
        /\ local[p].resume \notin {"writeSnapshot", "writeMetadata"} \/ local[p].source \in Version
    <3>1. Sees(p)
      BY <2>1 DEF AInv
    <3>2. journal = None /\ dirs'[p].new = Whole(local[p].source)
      BY <2>1, <3>1 DEF Sees, Holds, Unlocked, Stages
    <3>3. active \in Pair /\ dirs[p].previous.snapshot = active.snapshot
      BY <2>1, <3>1 DEF Sees, Stages, IInv, TypeOK
    <3>4. dirs'[p].previous = active
      BY <2>1, <3>3 DEF Pair
    <3>5. local[p].resume \notin {"writeSnapshot", "writeMetadata"} \/ local[p].source \in Version
      BY <2>1, <3>1 DEF Sees, Imports
    <3> QED
      BY <3>2, <3>4, <3>5
  <2>2. Owes(p)
    <3>1. Files'
      BY <2>1 DEF AInv, Files, Half, Whole
    <3>6. Before(p)' /\ Served(p)'
      BY <2>1, <2>6 DEF AInv, Before, Served, Ended, Running, Loading
    <3>2. p \in Running' => Holds(p)'
      BY <2>1, <2>6 DEF AInv, Sees, Holds, Again, Unlocked, Loading, Importing, Locked, Holders, Recovery, Ended, Running,
                  IInv, TypeOK, ResumesKnown, Replacing, Local, Journal, Pair, Directory, Resumption
    <3>3. p \in Running' => Replaces(p)'
      BY <2>1, <2>6 DEF AInv, Files, Sees, Holds, Replaces, Stages, Locked, Holders, Recovery, Ended, Running,
                  IInv, TypeOK, ResumesKnown, Replacing, Local, Journal, Pair, Directory, Half, Whole, Resumption
    <3>4. p \in Running' => Stages(p)'
      BY <2>1, <2>6 DEF AInv, Sees, Stages, Replaces, Holds, Locked, Holders, Recovery, Ended, Running, IInv, TypeOK, ResumesKnown, Replacing, Local, Journal, Pair, Directory, Half, Whole, Resumption
    <3>5. p \in Running' => Loads(p)' /\ Imports(p)'
      BY <2>1, <2>6 DEF AInv, Files, Sees, Loads, Imports, Recovery, Ended, Running, IInv, TypeOK, ResumesKnown, Replacing, Local, Journal, Pair, Directory, Resumption
    <3> QED
      BY <3>1, <3>2, <3>3, <3>4, <3>5, <3>6 DEF Owes, Sees
  <2>3. Importers' = Importers
    <3>1. Imports(p) /\ Holds(p) /\ p \in Process
      BY <2>1, <2>6 DEF AInv, Sees, Running
    <3>2. Between(p)' <=> Between(p)
      BY <3>1, <2>1, <2>6 DEF Between, Imports, Holds, Recovery, Resumption, IInv, ResumesKnown
    <3> QED
      BY <3>2, <2>1, <2>6, SameImporters
  <2>4. Effective' = Effective
    BY <2>1 DEF Effective, IsCompleteNewPair, AInv, Files, Sees, Holds, Replaces, Locked, Holders, Running, Ended
  <2>5. pc'[p] # "refused"
    BY <2>1 DEF AInv, Sees, Holds, Replaces, Locked, Holders, Recovery, Resumption, IInv, TypeOK, ResumesKnown, Replacing, Local, Journal, Pair, Directory
  <2> QED
    BY <2>1, <2>2, <2>3, <2>4, <2>5 DEF Accords, Shows
<1>11. ASSUME NEW p \in Process, AbandonReplacement(p) PROVE Accords(p)
  <2>1. /\ Others(p) /\ p \in Running
        /\ pc[p] \in {"stage", "copySnapshot", "copyMetadata", "publish"} /\ pc'[p] = "failed" /\ local' = local
        /\ UNCHANGED <<active, journal, served>>
    BY <1>11 DEF AbandonReplacement, Goto, Others, Running, Ended, IInv, TypeOK, ResumesKnown, Replacing, Local, Journal, Pair, Directory, Discard
  <2>2. Owes(p)
    <3>1. Files'
      BY <2>1 DEF AInv, Files, Half, Whole
    <3>6. Before(p)' /\ Served(p)'
      BY <2>1 DEF AInv, Before, Served, Ended, Running, Loading
    <3>2. p \in Running' => Holds(p)'
      BY <2>1 DEF AInv, Sees, Holds, Again, Unlocked, Loading, Importing, Locked, Holders, Recovery, Ended, Running,
                  IInv, TypeOK, ResumesKnown, Replacing, Local, Journal, Pair, Directory, Resumption
    <3>3. p \in Running' => Replaces(p)'
      BY <2>1 DEF AInv, Files, Sees, Holds, Replaces, Stages, Locked, Holders, Recovery, Ended, Running,
                  IInv, TypeOK, ResumesKnown, Replacing, Local, Journal, Pair, Directory, Half, Whole, Resumption
    <3>4. p \in Running' => Stages(p)'
      BY <2>1 DEF AInv, Sees, Stages, Replaces, Holds, Locked, Holders, Recovery, Ended, Running, IInv, TypeOK, ResumesKnown, Replacing, Local, Journal, Pair, Directory, Half, Whole, Resumption
    <3>5. p \in Running' => Loads(p)' /\ Imports(p)'
      BY <2>1 DEF AInv, Files, Sees, Loads, Imports, Recovery, Ended, Running, IInv, TypeOK, ResumesKnown, Replacing, Local, Journal, Pair, Directory, Resumption
    <3> QED
      BY <3>1, <3>2, <3>3, <3>4, <3>5, <3>6 DEF Owes, Sees
  <2>3. Importers' = Importers
    <3>1. Imports(p) /\ Holds(p) /\ p \in Process
      BY <2>1 DEF AInv, Sees, Running
    <3>2. Between(p)' <=> Between(p)
      BY <3>1, <2>1 DEF Between, Imports, Holds, Recovery, Resumption, IInv, ResumesKnown
    <3> QED
      BY <3>2, <2>1, SameImporters
  <2>4. Effective' = Effective
    BY <2>1 DEF Effective, IsCompleteNewPair, AInv, Files, Sees, Holds, Replaces, Locked, Holders, Running, Ended
  <2>5. pc'[p] # "refused"
    BY <2>1 DEF AInv, Sees, Holds, Replaces, Locked, Holders, Recovery, Resumption, IInv, TypeOK, ResumesKnown, Replacing, Local, Journal, Pair, Directory
  <2> QED
    BY <2>1, <2>2, <2>3, <2>4, <2>5 DEF Accords, Shows
<1>12. ASSUME NEW p \in Process, FailReplacement(p) PROVE Accords(p)
  <2>1. /\ Others(p) /\ p \in Running
        /\ pc[p] \in {"renameSnapshot", "renameMetadata", "confirmNew"} /\ pc'[p] = "recover"
        /\ local'[p] = [local[p] EXCEPT !.resume = "failed"] /\ UNCHANGED <<active, journal, dirs, served>>
    BY <1>12 DEF FailReplacement, Goto, Others, Running, Ended, IInv, TypeOK, ResumesKnown, Replacing, Local, Journal, Pair, Directory, RecoverThen
  <2>2. Owes(p)
    <3>1. Files'
      BY <2>1 DEF AInv, Files, Half, Whole
    <3>6. Before(p)' /\ Served(p)'
      BY <2>1 DEF AInv, Before, Served, Ended, Running, Loading
    <3>2. p \in Running' => Holds(p)'
      BY <2>1 DEF AInv, Sees, Holds, Again, Unlocked, Loading, Importing, Locked, Holders, Recovery, Ended, Running,
                  IInv, TypeOK, ResumesKnown, Replacing, Local, Journal, Pair, Directory, Resumption
    <3>3. p \in Running' => Replaces(p)'
      BY <2>1 DEF AInv, Files, Sees, Holds, Replaces, Stages, Locked, Holders, Recovery, Ended, Running,
                  IInv, TypeOK, ResumesKnown, Replacing, Local, Journal, Pair, Directory, Half, Whole, Resumption
    <3>4. p \in Running' => Stages(p)'
      BY <2>1 DEF AInv, Sees, Stages, Replaces, Holds, Locked, Holders, Recovery, Ended, Running, IInv, TypeOK, ResumesKnown, Replacing, Local, Journal, Pair, Directory, Half, Whole, Resumption
    <3>5. p \in Running' => Loads(p)' /\ Imports(p)'
      BY <2>1 DEF AInv, Files, Sees, Loads, Imports, Recovery, Ended, Running, IInv, TypeOK, ResumesKnown, Replacing, Local, Journal, Pair, Directory, Resumption
    <3> QED
      BY <3>1, <3>2, <3>3, <3>4, <3>5, <3>6 DEF Owes, Sees
  <2>3. Importers' = Importers
    <3>1. Imports(p) /\ Holds(p) /\ p \in Process
      BY <2>1 DEF AInv, Sees, Running
    <3>2. Between(p)' <=> Between(p)
      BY <3>1, <2>1 DEF Between, Imports, Holds, Recovery, Resumption, IInv, ResumesKnown
    <3> QED
      BY <3>2, <2>1, SameImporters
  <2>4. Effective' = Effective
    BY <2>1 DEF Effective, IsCompleteNewPair, AInv, Files, Sees, Holds, Replaces, Locked, Holders, Running, Ended
  <2>5. pc'[p] # "refused"
    BY <2>1 DEF AInv, Sees, Holds, Replaces, Locked, Holders, Recovery, Resumption, IInv, TypeOK, ResumesKnown, Replacing, Local, Journal, Pair, Directory
  <2> QED
    BY <2>1, <2>2, <2>3, <2>4, <2>5 DEF Accords, Shows
<1>13. ASSUME NEW p \in Process, ConfirmNew(p) PROVE Accords(p)
  <2>1. /\ Others(p) /\ p \in Running
        /\ pc[p] = "confirmNew" /\ pc'[p] = "removeJournal" /\ local' = local
        /\ UNCHANGED <<active, journal, dirs, served>>
    BY <1>13 DEF ConfirmNew, Goto, Others, Running, Ended, IInv, TypeOK, ResumesKnown, Replacing, Local, Journal, Pair, Directory
  <2>2. Owes(p)
    <3>1. Files'
      BY <2>1 DEF AInv, Files, Half, Whole
    <3>6. Before(p)' /\ Served(p)'
      BY <2>1 DEF AInv, Before, Served, Ended, Running, Loading
    <3>2. p \in Running' => Holds(p)'
      BY <2>1 DEF AInv, Sees, Holds, Again, Unlocked, Loading, Importing, Locked, Holders, Recovery, Ended, Running,
                  IInv, TypeOK, ResumesKnown, Replacing, Local, Journal, Pair, Directory, Resumption
    <3>3. p \in Running' => Replaces(p)'
      BY <2>1 DEF AInv, Files, Sees, Holds, Replaces, Stages, Locked, Holders, Recovery, Ended, Running,
                  IInv, TypeOK, ResumesKnown, Replacing, Local, Journal, Pair, Directory, Half, Whole, Resumption
    <3>4. p \in Running' => Stages(p)'
      BY <2>1 DEF AInv, Sees, Stages, Replaces, Holds, Locked, Holders, Recovery, Ended, Running, IInv, TypeOK, ResumesKnown, Replacing, Local, Journal, Pair, Directory, Half, Whole, Resumption
    <3>5. p \in Running' => Loads(p)' /\ Imports(p)'
      BY <2>1 DEF AInv, Files, Sees, Loads, Imports, Recovery, Ended, Running, IInv, TypeOK, ResumesKnown, Replacing, Local, Journal, Pair, Directory, Resumption
    <3> QED
      BY <3>1, <3>2, <3>3, <3>4, <3>5, <3>6 DEF Owes, Sees
  <2>3. Importers' = Importers
    <3>1. Imports(p) /\ Holds(p) /\ p \in Process
      BY <2>1 DEF AInv, Sees, Running
    <3>2. Between(p)' <=> Between(p)
      BY <3>1, <2>1 DEF Between, Imports, Holds, Recovery, Resumption, IInv, ResumesKnown
    <3> QED
      BY <3>2, <2>1, SameImporters
  <2>4. Effective' = Effective
    BY <2>1 DEF Effective, IsCompleteNewPair, AInv, Files, Sees, Holds, Replaces, Locked, Holders, Running, Ended
  <2>5. pc'[p] # "refused"
    BY <2>1 DEF AInv, Sees, Holds, Replaces, Locked, Holders, Recovery, Resumption, IInv, TypeOK, ResumesKnown, Replacing, Local, Journal, Pair, Directory
  <2> QED
    BY <2>1, <2>2, <2>3, <2>4, <2>5 DEF Accords, Shows
<1>14. ASSUME NEW p \in Process, ReadSnapshot(p) PROVE Accords(p)
  <2>1. /\ Others(p) /\ p \in Running
        /\ pc[p] = "readSnapshot" /\ pc'[p] = "findMetadata"
        /\ local'[p].data = active.snapshot /\ local'[p].source = local[p].source
        /\ local'[p].journal = local[p].journal /\ local'[p].resume = local[p].resume
        /\ UNCHANGED <<active, journal, dirs, served>>
    BY <1>14 DEF ReadSnapshot, Goto, Others, Running, Ended, IInv, TypeOK, ResumesKnown, Replacing, Local, Journal, Pair, Directory
  <2>2. Owes(p)
    <3>1. Files'
      BY <2>1 DEF AInv, Files, Half, Whole
    <3>6. Before(p)' /\ Served(p)'
      BY <2>1 DEF AInv, Before, Served, Ended, Running, Loading
    <3>2. p \in Running' => Holds(p)'
      BY <2>1 DEF AInv, Sees, Holds, Again, Unlocked, Loading, Importing, Locked, Holders, Recovery, Ended, Running,
                  IInv, TypeOK, ResumesKnown, Replacing, Local, Journal, Pair, Directory, Resumption
    <3>3. p \in Running' => Replaces(p)'
      BY <2>1 DEF AInv, Files, Sees, Holds, Replaces, Stages, Locked, Holders, Recovery, Ended, Running,
                  IInv, TypeOK, ResumesKnown, Replacing, Local, Journal, Pair, Directory, Half, Whole, Resumption
    <3>4. p \in Running' => Stages(p)'
      BY <2>1 DEF AInv, Sees, Stages, Replaces, Holds, Locked, Holders, Recovery, Ended, Running, IInv, TypeOK, ResumesKnown, Replacing, Local, Journal, Pair, Directory, Half, Whole, Resumption
    <3>5. p \in Running' => Loads(p)' /\ Imports(p)'
      BY <2>1 DEF AInv, Files, Sees, Loads, Imports, Recovery, Ended, Running, IInv, TypeOK, ResumesKnown, Replacing, Local, Journal, Pair, Directory, Resumption
    <3> QED
      BY <3>1, <3>2, <3>3, <3>4, <3>5, <3>6 DEF Owes, Sees
  <2>3. Importers' = Importers
    <3>1. Imports(p) /\ Holds(p) /\ p \in Process
      BY <2>1 DEF AInv, Sees, Running
    <3>2. Between(p)' <=> Between(p)
      BY <3>1, <2>1 DEF Between, Imports, Holds, Recovery, Resumption, IInv, ResumesKnown
    <3> QED
      BY <3>2, <2>1, SameImporters
  <2>4. Effective' = Effective
    BY <2>1 DEF Effective, IsCompleteNewPair, AInv, Files, Sees, Holds, Replaces, Locked, Holders, Running, Ended
  <2>5. pc'[p] # "refused"
    BY <2>1 DEF AInv, Sees, Holds, Replaces, Locked, Holders, Recovery, Resumption, IInv, TypeOK, ResumesKnown, Replacing, Local, Journal, Pair, Directory
  <2> QED
    BY <2>1, <2>2, <2>3, <2>4, <2>5 DEF Accords, Shows
<1>15. ASSUME NEW p \in Process, ReadMetadata(p) PROVE Accords(p)
  <2>1. /\ Others(p) /\ p \in Running
        /\ pc[p] = "readMetadata" /\ pc'[p] = "verify" /\ active.metadata # None
        /\ local'[p].metadata = active.metadata /\ local'[p].source = local[p].source
        /\ local'[p].journal = local[p].journal /\ local'[p].resume = local[p].resume
        /\ local'[p].data = local[p].data
        /\ UNCHANGED <<active, journal, dirs, served>>
    BY <1>15 DEF ReadMetadata, Goto, Others, Running, Ended, IInv, TypeOK, ResumesKnown, Replacing, Local, Journal, Pair, Directory
  <2>6. local[p].resume # "writeMetadata"
    BY <2>1 DEF AInv, Sees, Imports
  <2>2. Owes(p)
    <3>1. Files'
      BY <2>1 DEF AInv, Files, Half, Whole
    <3>6. Before(p)' /\ Served(p)'
      BY <2>1, <2>6 DEF AInv, Before, Served, Ended, Running, Loading
    <3>2. p \in Running' => Holds(p)'
      BY <2>1, <2>6 DEF AInv, Sees, Holds, Again, Unlocked, Loading, Importing, Locked, Holders, Recovery, Ended, Running,
                  IInv, TypeOK, ResumesKnown, Replacing, Local, Journal, Pair, Directory, Resumption
    <3>3. p \in Running' => Replaces(p)'
      BY <2>1, <2>6 DEF AInv, Files, Sees, Holds, Replaces, Stages, Locked, Holders, Recovery, Ended, Running,
                  IInv, TypeOK, ResumesKnown, Replacing, Local, Journal, Pair, Directory, Half, Whole, Resumption
    <3>4. p \in Running' => Stages(p)'
      BY <2>1, <2>6 DEF AInv, Sees, Stages, Replaces, Holds, Locked, Holders, Recovery, Ended, Running, IInv, TypeOK, ResumesKnown, Replacing, Local, Journal, Pair, Directory, Half, Whole, Resumption
    <3>5. p \in Running' => Loads(p)' /\ Imports(p)'
      BY <2>1, <2>6 DEF AInv, Files, Sees, Loads, Imports, Recovery, Ended, Running, IInv, TypeOK, ResumesKnown, Replacing, Local, Journal, Pair, Directory, Resumption
    <3> QED
      BY <3>1, <3>2, <3>3, <3>4, <3>5, <3>6 DEF Owes, Sees
  <2>3. Importers' = Importers
    <3>1. Imports(p) /\ Holds(p) /\ p \in Process
      BY <2>1, <2>6 DEF AInv, Sees, Running
    <3>2. Between(p)' <=> Between(p)
      BY <3>1, <2>1, <2>6 DEF Between, Imports, Holds, Recovery, Resumption, IInv, ResumesKnown
    <3> QED
      BY <3>2, <2>1, <2>6, SameImporters
  <2>4. Effective' = Effective
    BY <2>1 DEF Effective, IsCompleteNewPair, AInv, Files, Sees, Holds, Replaces, Locked, Holders, Running, Ended
  <2>5. pc'[p] # "refused"
    BY <2>1 DEF AInv, Sees, Holds, Replaces, Locked, Holders, Recovery, Resumption, IInv, TypeOK, ResumesKnown, Replacing, Local, Journal, Pair, Directory
  <2> QED
    BY <2>1, <2>2, <2>3, <2>4, <2>5 DEF Accords, Shows
<1> QED
  BY <1>1, <1>2, <1>3, <1>4, <1>5, <1>6, <1>7, <1>8, <1>9, <1>10, <1>11, <1>12, <1>13, <1>14, <1>15

\* A step that is no import and serves nothing, as Importers sees it.
LEMMA NoImporterMoves ==
  ASSUME NEW p \in Process, Others(p), local[p].resume # "writeMetadata", local'[p].resume # "writeMetadata"
  PROVE  Importers' = Importers
BY DEF Others, Importers

\* A recovery restores what Effective names already.
LEMMA RestoreStepsAccord ==
  ASSUME IInv, AInv, TypeOK', NEW p \in Process, RestoreSnapshot(p) \/ RestoreMetadata(p)
  PROVE  Accords(p)
<1> DEFINE j == local[p].journal
<1>1. /\ p \in Running /\ Others(p) /\ local' = local /\ UNCHANGED <<journal, dirs, served>>
      /\ pc[p] \in {"restoreSnapshot", "restoreMetadata"}
  BY DEF RestoreSnapshot, RestoreMetadata, AfterRestore, Refuse, Goto, Others, Running, Ended, IInv, TypeOK
<1>2. /\ journal # None /\ j = journal /\ local[p].resume \notin Again
      /\ journal \in Journal /\ journal.previous \in Pair /\ Sees(p)
  BY <1>1, NoneAssumption DEF AInv, Sees, Holds, Locked, Holders, Recovery, IInv, TypeOK, Journal
<1>3. Importers' = Importers
  BY <1>1, <1>2, NoImporterMoves DEF Again
<1>4. CASE Refuse(p)
  <2>1. pc'[p] = "refused" /\ UNCHANGED active
    BY <1>1, <1>4 DEF Refuse, Goto, IInv, TypeOK
  <2>2. Owes(p)
    BY <1>1, <2>1 DEF Owes, AInv, Files, Before, Served, Running, Ended
  <2>3. Shows
    BY <1>1, <1>3, <2>1 DEF Shows, Effective, IsCompleteNewPair
  <2>4. ~(/\ j.previous.snapshot = dirs[j.directory].previous.snapshot
          /\ j.previous.metadata = dirs[j.directory].previous.metadata)
    BY <1>1, <1>4 DEF RestoreSnapshot, RestoreMetadata, Refuse, Goto, IInv, TypeOK
  <2>5. Unsynced
    BY <1>2, <2>4 DEF Unsynced, IInv, JournalIsBacked
  <2> QED
    BY <1>1, <2>2, <2>3, <2>5 DEF Accords
<1>5. CASE ~Refuse(p)
  <2>1. active = journal.previous \/ active = Half(journal)
    BY <1>1, <1>2 DEF AInv, Files, Sees, Replaces
  <2>2. active \in Pair
    BY DEF IInv, TypeOK
  <2>3. CASE pc[p] = "restoreSnapshot"
    <3>1. active' = [active EXCEPT !.snapshot = journal.previous.snapshot] /\ pc'[p] = "restoreMetadata"
      BY <1>1, <1>2, <1>5, <2>3 DEF RestoreSnapshot, RestoreMetadata, Goto, IInv, TypeOK
    <3>2. active' = journal.previous
      BY <1>2, <2>1, <2>2, <3>1 DEF Half, Pair
    <3>3. Effective = journal.previous /\ Effective' = journal.previous
      BY <1>1, <1>2, <2>3, <3>2 DEF Effective, IsCompleteNewPair, Sees, Replaces
    <3>4. Owes(p)
      BY <1>1, <1>2, <3>1, <3>2 DEF Owes, AInv, Files, Sees, Holds, Replaces, Stages, Loads, Imports,
            Before, Served, Running, Ended, Again, Locked, Unlocked, Loading, Importing, Recovery
    <3> QED
      BY <1>1, <1>3, <3>1, <3>3, <3>4 DEF Accords, Shows
  <2>4. CASE pc[p] = "restoreMetadata"
    <3>1. active' = [active EXCEPT !.metadata = journal.previous.metadata] /\ pc'[p] = "confirmPrevious"
      BY <1>1, <1>2, <1>5, <2>4 DEF RestoreSnapshot, RestoreMetadata, Goto, IInv, TypeOK
    <3>2. active = journal.previous /\ active' = active
      BY <1>2, <2>2, <2>4, <3>1 DEF Sees, Replaces, Pair
    <3>3. Effective' = Effective
      BY <1>1, <3>2 DEF Effective, IsCompleteNewPair
    <3>4. Owes(p)
      BY <1>1, <1>2, <3>1, <3>2 DEF Owes, AInv, Files, Sees, Holds, Replaces, Stages, Loads, Imports,
            Before, Served, Running, Ended, Again, Locked, Unlocked, Loading, Importing, Recovery
    <3> QED
      BY <1>1, <1>3, <3>1, <3>3, <3>4 DEF Accords, Shows
  <2> QED
    BY <1>1, <2>3, <2>4
<1> QED
  BY <1>4, <1>5

\* A journal is linked when the copies it names are the active pair.
LEMMA PublishStepsAccord ==
  ASSUME IInv, AInv, TypeOK', NEW p \in Process, PublishJournal(p) \/ FailToSync(p)
  PROVE  Accords(p)
<1>1. /\ p \in Running /\ Others(p) /\ UNCHANGED <<active, served>>
      /\ pc[p] = "publish" /\ journal = None /\ journal' = NewJournal(p)
      /\ \/ /\ pc'[p] = "renameSnapshot" /\ dirs' = dirs
            /\ local'[p].journal = journal' /\ local'[p].resume = "done"
         \/ pc'[p] = "failed" /\ local' = local
  BY DEF PublishJournal, FailToSync, Discard, Goto, Others, Running, Ended, IInv, TypeOK, Local
<1>2. Sees(p) /\ Files /\ Served(p) /\ local[p].source \in Version
  BY <1>1 DEF AInv, IInv, SourcesNamed, Unpublished
<1>3. /\ journal'.previous = active /\ journal'.new = local[p].source
      /\ dirs[p].new = Whole(local[p].source) /\ local[p].resume # "writeMetadata"
  BY <1>1, <1>2 DEF NewJournal, Sees, Stages, Imports
<1>4. Importers' = Importers
  <2>1. CASE pc'[p] = "renameSnapshot"
    BY <1>1, <1>3, <2>1, NoImporterMoves
  <2>2. CASE pc'[p] = "failed"
    BY <1>1, <1>3, <2>2, NoImporterMoves
  <2> QED
    BY <1>1, <2>1, <2>2
<1>5. Effective = active /\ Effective' = active
  BY <1>1, <1>3 DEF Effective, IsCompleteNewPair
<1>6. Files' /\ Before(p)' /\ Served(p)'
  BY <1>1, <1>2, <1>3 DEF Files, Before, Served, Ended
<1>7. p \in Running' => Sees(p)'
  BY <1>1, <1>3 DEF Running, Ended, Sees, Holds, Replaces, Stages, Loads, Imports, Unlocked, Loading,
        Importing, Recovery
<1> QED
  BY <1>1, <1>4, <1>5, <1>6, <1>7 DEF Accords, Owes, Shows

\* The two renames: the pair becomes the new one with one of them.
LEMMA RenameStepsAccord ==
  ASSUME IInv, AInv, TypeOK', NEW p \in Process, RenameSnapshot(p) \/ RenameMetadata(p)
  PROVE  Accords(p)
<1>1. /\ p \in Running /\ Others(p) /\ UNCHANGED <<journal, local, served>>
      /\ pc[p] \in {"renameSnapshot", "renameMetadata"}
      /\ local[p].resume = "done" /\ active \in Pair
  BY DEF RenameSnapshot, RenameMetadata, Goto, Others, Running, Ended, IInv, TypeOK, ResumesKnown, Replacing
<1>2. /\ journal # None /\ local[p].journal = journal /\ Sees(p) /\ Files /\ Served(p)
      /\ journal.previous \in Pair /\ journal.new \in Version
  BY <1>1, NoneAssumption DEF AInv, Sees, Holds, Locked, Holders, Recovery, IInv, TypeOK, Journal
<1>3. Importers' = Importers
  BY <1>1, NoImporterMoves
<1>4. ASSUME Effective' = Whole(journal.new) PROVE Shows
  BY <1>1, <1>2, <1>3, <1>4 DEF Shows, Active!Next, Active!Replace, Active!Whole, Whole
<1>5. CASE pc[p] = "renameSnapshot"
  <2>1. /\ active' = [active EXCEPT !.snapshot = dirs[p].new.snapshot] /\ pc'[p] = "renameMetadata"
        /\ dirs' = [dirs EXCEPT ![p].new.snapshot = None]
    BY <1>1, <1>5 DEF RenameSnapshot, RenameMetadata, Goto, IInv, TypeOK
  <2>2. active = journal.previous /\ dirs[p].new = Whole(journal.new)
    BY <1>2, <1>5 DEF Sees, Replaces, Stages
  <2>3. active' = Half(journal)
    BY <1>1, <2>1, <2>2 DEF Half, Whole, Pair
  <2>4. dirs'[p].new = [dirs[p].new EXCEPT !.snapshot = None]
    BY <2>1 DEF IInv, TypeOK, Directory
  <2>5. dirs'[p].new.metadata = journal.new
    BY <2>2, <2>4 DEF Whole
  <2>6. Owes(p)
    BY <1>1, <1>2, <2>1, <2>2, <2>3, <2>5, ConstantsAssumption DEF Owes, AInv, Files, Sees, Holds, Replaces, Stages, Loads, Imports,
          Before, Served, Running, Ended, Again, Locked, Holders, Unlocked, Loading, Importing, Recovery, Half
  <2>7. Shows
    <3>1. CASE Half(journal) = Whole(journal.new)
      BY <1>1, <1>2, <1>4, <2>3, <3>1 DEF Effective, IsCompleteNewPair
    <3>2. CASE Half(journal) # Whole(journal.new)
      <4>1. Effective' = journal.previous /\ Effective = journal.previous
        BY <1>1, <1>2, <2>2, <2>3, <3>2 DEF Effective, IsCompleteNewPair
      <4> QED
        BY <1>1, <1>3, <4>1 DEF Shows
    <3> QED
      BY <3>1, <3>2
  <2> QED
    BY <1>1, <2>1, <2>6, <2>7 DEF Accords
<1>6. CASE pc[p] = "renameMetadata"
  <2>1. active' = [active EXCEPT !.metadata = dirs[p].new.metadata] /\ pc'[p] = "confirmNew"
    BY <1>1, <1>6 DEF RenameSnapshot, RenameMetadata, Goto, IInv, TypeOK
  <2>2. active = Half(journal) /\ dirs[p].new.metadata = journal.new
    BY <1>2, <1>6 DEF Sees, Replaces, Stages
  <2>3. active' = Whole(journal.new)
    BY <2>1, <2>2 DEF Half, Whole
  <2>4. Owes(p)
    <3>1. Files'
      BY <1>1, <1>2, <2>3, ConstantsAssumption DEF Files, Whole
    <3>2. Sees(p)'
      BY <1>1, <1>2, <2>1, <2>3 DEF Sees, Holds, Replaces, Stages, Loads, Imports, Again,
            Unlocked, Loading, Importing, Recovery
    <3>3. Before(p)' /\ Served(p)'
      BY <1>1, <1>2, <2>1 DEF Before, Served, Ended
    <3> QED
      BY <3>1, <3>2, <3>3 DEF Owes
  <2>5. Effective' = Whole(journal.new)
    BY <1>1, <2>3 DEF Effective, IsCompleteNewPair
  <2> QED
    BY <1>1, <1>4, <2>1, <2>4, <2>5 DEF Accords
<1> QED
  BY <1>1, <1>5, <1>6

\* The two files of an import.
LEMMA ImportStepsAccord ==
  ASSUME IInv, AInv, TypeOK', NEW p \in Process, WriteSnapshot(p) \/ WriteMetadata(p)
  PROVE  Accords(p)
<1>1. /\ p \in Running /\ Others(p) /\ UNCHANGED <<journal, dirs, served>>
      /\ pc[p] \in {"writeSnapshot", "writeMetadata"} /\ active \in Pair
  BY DEF WriteSnapshot, WriteMetadata, RecoverThen, Goto, Others, Running, Ended, IInv, TypeOK
<1>2. Sees(p) /\ Files /\ Served(p) /\ journal = None
  BY <1>1 DEF AInv, Sees, Holds, Unlocked, Importing
<1>3. Effective = active /\ Effective' = active'
  BY <1>1, <1>2 DEF Effective
<1>4. CASE pc[p] = "writeSnapshot"
  <2>1. /\ active' = [active EXCEPT !.snapshot = local[p].source] /\ local[p].source \in Version
        /\ pc'[p] = "recover" /\ local'[p].resume = "writeMetadata" /\ local'[p].journal = local[p].journal
        /\ local'[p].source = local[p].source /\ local[p].resume # "writeMetadata"
    BY <1>1, <1>2, <1>4 DEF WriteSnapshot, WriteMetadata, RecoverThen, Goto, IInv, TypeOK, Local, Sees, Imports
  <2>2. active'.snapshot = local[p].source /\ active'.snapshot # None
    BY <1>1, <2>1, ConstantsAssumption DEF Pair
  <2>3. Owes(p)
    BY <1>1, <1>2, <2>1, <2>2 DEF Owes, AInv, Files, Sees, Holds, Replaces, Stages, Loads, Imports,
          Before, Served, Running, Ended, Again, Locked, Unlocked, Loading, Importing, Holders, Recovery
  <2>4. Importers' = Importers \cup {p} /\ p \notin Importers
    BY <2>1, <1>1 DEF Importers, Others
  <2>5. Active!Import(p)
    BY <1>1, <1>3, <2>1, <2>4 DEF Active!Import
  <2> QED
    BY <1>1, <2>1, <2>3, <2>5 DEF Accords, Shows, Active!Next
<1>5. CASE pc[p] = "writeMetadata"
  <2>1. active.snapshot # None /\ local[p].resume = "writeMetadata"
    BY <1>2, <1>5 DEF Sees, Imports
  <2>2. /\ active' = [active EXCEPT !.metadata = active.snapshot]
        /\ pc'[p] = "done" /\ local' = local
    BY <1>1, <1>5, <2>1 DEF WriteSnapshot, WriteMetadata, Goto, IInv, TypeOK
  <2>3. active' = Whole(active.snapshot)
    BY <1>1, <2>2 DEF Pair, Whole
  <2>4. Owes(p)
    BY <1>1, <1>2, <2>1, <2>2, <2>3 DEF Owes, Files, Before, Served, Running, Ended, Whole
  <2>5. Importers' = Importers \ {p} /\ p \in Importers
    BY <1>1, <1>5, <2>1, <2>2 DEF Importers, Others
  <2>6. Active!Approve(p)
    BY <1>1, <1>3, <2>3, <2>5 DEF Active!Approve, Active!Whole, Whole
  <2> QED
    BY <1>1, <2>2, <2>4, <2>6 DEF Accords, Shows, Active!Next
<1> QED
  BY <1>1, <1>4, <1>5

\* The startup of the API.
LEMMA ServeStepsAccord ==
  ASSUME IInv, AInv, TypeOK', NEW p \in Process, Load(p) \/ FindMetadata(p) \/ Verify(p)
  PROVE  Accords(p)
<1>1. /\ p \in Running /\ Others(p) /\ UNCHANGED <<active, journal, dirs>>
      /\ pc[p] \in {"load", "findMetadata", "verify"} /\ active \in Pair /\ served[p] = None
  <2>1. pc[p] \in {"load", "findMetadata", "verify"}
    BY DEF Load, FindMetadata, Verify
  <2> QED
    BY <2>1 DEF Load, FindMetadata, Verify, Serve, Refuse, RecoverThen, Goto, Others, Running, Ended,
           IInv, TypeOK, AInv, Served
<1>2. Sees(p) /\ Files /\ journal = None /\ local[p].resume # "writeMetadata"
  BY <1>1 DEF AInv, Sees, Holds, Imports, Unlocked, Loading
<1>3. Effective = active /\ Effective' = active
  BY <1>1, <1>2 DEF Effective
<1>4. ASSUME NEW point \in {"readSnapshot", "readMetadata"}, RecoverThen(p, point), UNCHANGED served,
             point = "readMetadata" => pc[p] = "findMetadata"
      PROVE  Accords(p)
  <2>1. /\ pc'[p] = "recover" /\ local'[p].resume = point /\ local'[p].journal = local[p].journal
        /\ local'[p].source = local[p].source /\ local'[p].data = local[p].data
    BY <1>4 DEF RecoverThen, Goto, IInv, TypeOK, Local
  <2>2. Owes(p)
    BY <1>1, <1>2, <1>4, <2>1 DEF Owes, AInv, Files, Sees, Holds, Replaces, Stages, Loads, Imports,
          Before, Served, Running, Ended, Again, Locked, Unlocked, Loading, Importing, Holders, Recovery
  <2>3. Importers' = Importers
    BY <1>1, <1>2, <2>1, NoImporterMoves
  <2> QED
    BY <1>1, <1>3, <1>4, <2>1, <2>2, <2>3 DEF Accords, Shows
<1>5. ASSUME Serve(p, active), local' = local, active.metadata \in {None, active.snapshot} PROVE Accords(p)
  <2>1. pc'[p] = "done" /\ served' = [served EXCEPT ![p] = active] /\ served'[p] = active
    BY <1>5 DEF Serve, Goto, IInv, TypeOK
  <2>2. Importers' = Importers
    BY <1>1, <1>2, <1>5, NoImporterMoves
  <2>3. Active!Serve(p)
    BY <1>1, <1>3, <1>5, <2>1, <2>2 DEF Active!Serve
  <2>4. Owes(p)
    BY <1>1, <1>2, <1>5, <2>1 DEF Owes, Files, Before, Served, Running, Ended
  <2> QED
    BY <1>1, <2>1, <2>3, <2>4 DEF Accords, Shows, Active!Next
<1>6. CASE Load(p)
  <2>1. active.snapshot = None => active = Absent
    BY <1>1, <1>2 DEF Files, Pair, Absent
  <2>2. active.snapshot = None => active.metadata = None
    BY <1>2 DEF Files
  <2> QED
    BY <1>4, <1>5, <1>6, <2>1, <2>2 DEF Load
<1>7. CASE FindMetadata(p)
  <2>1. pc[p] = "findMetadata" /\ local[p].data = active.snapshot
    BY <1>2, <1>7 DEF FindMetadata, Sees, Loads
  <2>2. active.metadata = None => active = [snapshot |-> local[p].data, metadata |-> None]
    BY <1>1, <2>1 DEF Pair
  <2> QED
    BY <1>4, <1>5, <1>7, <2>1, <2>2 DEF FindMetadata
<1>8. CASE Verify(p)
  <2>1. /\ pc[p] = "verify" /\ local[p].data = active.snapshot /\ local[p].metadata = active.metadata
        /\ active.metadata # None
    BY <1>2, <1>8 DEF Verify, Sees, Loads
  <2>2. CASE MatchesDigest(p)
    <3>1. active = [snapshot |-> local[p].data, metadata |-> local[p].metadata]
      BY <1>1, <2>1 DEF Pair
    <3>2. active.metadata = active.snapshot
      BY <2>1, <2>2 DEF MatchesDigest
    <3> QED
      BY <1>5, <1>8, <2>2, <3>1, <3>2 DEF Verify
  <2>3. CASE ~MatchesDigest(p)
    <3>1. pc'[p] = "refused" /\ local' = local /\ served' = served
      BY <1>8, <2>3 DEF Verify, Refuse, Goto, IInv, TypeOK
    <3>2. Importers' = Importers
      BY <1>1, <1>2, <3>1, NoImporterMoves
    <3>3. Owes(p)
      BY <1>1, <1>2, <3>1 DEF Owes, AInv, Files, Before, Served, Running, Ended
    <3>4. Effective.metadata \notin {None, Effective.snapshot}
      BY <1>3, <2>1, <2>3 DEF MatchesDigest
    <3> QED
      BY <1>1, <1>3, <3>1, <3>2, <3>3, <3>4 DEF Accords, Shows
  <2> QED
    BY <2>2, <2>3
<1> QED
  BY <1>6, <1>7, <1>8

\* The steps of a process that has started.
Moves(p) ==
  \/ Crash(p) \/ ReadJournal(p) \/ Decide(p) \/ RestoreSnapshot(p) \/ RestoreMetadata(p)
  \/ ConfirmPrevious(p) \/ RemoveJournal(p) \/ RemoveDirectory(p)
  \/ Backup(p) \/ BackupMetadata(p) \/ Stage(p) \/ CopySnapshot(p) \/ CopyMetadata(p)
  \/ PublishJournal(p) \/ RenameSnapshot(p) \/ RenameMetadata(p) \/ ConfirmNew(p)
  \/ AbandonReplacement(p) \/ FailToSync(p) \/ FailReplacement(p)
  \/ WriteSnapshot(p) \/ WriteMetadata(p)
  \/ Load(p) \/ ReadSnapshot(p) \/ FindMetadata(p) \/ ReadMetadata(p) \/ Verify(p)

LEMMA MovesAccord ==
  ASSUME IInv, IInv', AInv, NEW p \in Process, Moves(p) PROVE Accords(p)
<1>1. TypeOK'
  BY DEF IInv
<1>2. \/ Crash(p) \/ ReadJournal(p) \/ Decide(p) \/ ConfirmPrevious(p) \/ RemoveJournal(p)
      \/ RemoveDirectory(p) \/ Backup(p) \/ BackupMetadata(p) \/ Stage(p) \/ CopySnapshot(p) \/ CopyMetadata(p)
      \/ AbandonReplacement(p) \/ FailReplacement(p) \/ ConfirmNew(p)
      \/ ReadSnapshot(p) \/ ReadMetadata(p)
      => Accords(p)
  BY <1>1, QuietStepsAccord
<1>3. RestoreSnapshot(p) \/ RestoreMetadata(p) => Accords(p)
  BY <1>1, RestoreStepsAccord
<1>4. PublishJournal(p) \/ FailToSync(p) => Accords(p)
  BY <1>1, PublishStepsAccord
<1>5. RenameSnapshot(p) \/ RenameMetadata(p) => Accords(p)
  BY <1>1, RenameStepsAccord
<1>6. WriteSnapshot(p) \/ WriteMetadata(p) => Accords(p)
  BY <1>1, ImportStepsAccord
<1>7. Load(p) \/ FindMetadata(p) \/ Verify(p) => Accords(p)
  BY <1>1, ServeStepsAccord
<1> QED
  BY <1>2, <1>3, <1>4, <1>5, <1>6, <1>7 DEF Moves

LEMMA NextAccords ==
  ASSUME MaxRunning = 1, IInv, IInv', AInv, [Next]_vars
  PROVE  /\ AInv' /\ Shows
         /\ \A p \in Process : pc[p] # "refused" /\ pc'[p] = "refused" =>
              Unsynced \/ Effective.metadata \notin {None, Effective.snapshot}
<1> USE DEF IInv
<1>1. TypeOK'
  OBVIOUS
<1>2. CASE UNCHANGED vars
  <2>1. AInv'
    BY <1>2 DEF vars, AInv, Alone, Running, Files, Sees, Holds, Replaces, Stages, Loads, Imports, Before, Served
  <2>2. Shows
    BY <1>2 DEF vars, Shows, Effective, IsCompleteNewPair, Importers
  <2> QED
    BY <1>2, <2>1, <2>2 DEF vars
<1>3. ASSUME NEW p \in Process, StartPromote(p) \/ StartRollback(p) \/ StartImport(p) \/ StartServer(p)
      PROVE  /\ AInv' /\ Shows
             /\ \A q \in Process : pc[q] # "refused" => pc'[q] # "refused"
  <2>1. PICK source \in File, point \in {"backup", "writeSnapshot", "load"} :
               Start(p, source, point) /\ (point = "writeSnapshot" => source \in Version)
    BY <1>3, ConstantsAssumption DEF StartPromote, StartRollback, StartImport, StartServer, File
  <2>2. AInv' /\ UNCHANGED <<Effective, Importers, served>>
    BY <1>1, <2>1, StartsOwe
  <2>3. \A q \in Process : pc'[q] \in {pc[q], "recover"}
    BY <2>1 DEF Start, Goto, TypeOK
  <2> QED
    BY <2>2, <2>3 DEF Shows
<1>4. ASSUME NEW p \in Process, Accords(p)
      PROVE  /\ AInv' /\ Shows
             /\ \A q \in Process : pc[q] # "refused" /\ pc'[q] = "refused" =>
                  Unsynced \/ Effective.metadata \notin {None, Effective.snapshot}
  BY <1>4, OwedIsEnough DEF Accords, Others
<1>5. ASSUME Next PROVE \E p \in Process :
        \/ StartPromote(p) \/ StartRollback(p) \/ StartImport(p) \/ StartServer(p)
        \/ Moves(p)
  BY <1>5 DEF Next, Moves
<1>6. \A p \in Process : Moves(p) => Accords(p)
  <2> HIDE DEF IInv
  <2> QED
    BY MovesAccord
<1> QED
  BY <1>2, <1>3, <1>4, <1>5, <1>6

LEMMA InitAccords == Init => AInv /\ Active!Init
<1> SUFFICES ASSUME Init PROVE AInv /\ Active!Init
  OBVIOUS
<1>1. Running = {}
  BY DEF Init, Running
<1>2. Files /\ \A p \in Process : Before(p) /\ Served(p)
  BY DEF Init, Files, Before, Served, Fresh, Ended, Whole, Absent
<1>3. Effective = active /\ Importers = {}
  BY DEF Init, Effective, Importers, Fresh
<1> QED
  BY <1>1, <1>2, <1>3 DEF AInv, Alone, Init, Active!Init, Active!Whole, Active!Absent, Whole, Absent

LEMMA AInvHolds == ASSUME MaxRunning = 1 PROVE Spec => []AInv
<1>1. Init => AInv
  BY InitAccords
<1>2. IInv /\ IInv' /\ AInv /\ [Next]_vars => AInv'
  BY NextAccords
<1> QED
  BY <1>1, <1>2, IInvHolds, PTL DEF Spec

(***************************************************************************)
(* No startup and no command is refused because of what a crash or an      *)
(* error left, but for a journal that was linked and not synchronised, and *)
(* for a pair that an import left mixed.                                   *)
(***************************************************************************)
THEOREM OnlyUnsyncedRefused == ASSUME MaxRunning = 1 PROVE Spec => RefusesOnlyUnsynced
<1>1. /\ IInv /\ IInv' /\ AInv /\ [Next]_vars
      => [\A p \in Process : pc[p] # "refused" /\ pc'[p] = "refused" =>
            Unsynced \/ Effective.metadata \notin {None, Effective.snapshot}]_vars
  BY NextAccords
<1> QED
  BY <1>1, IInvHolds, AInvHolds, PTL DEF Spec, RefusesOnlyUnsynced

(***************************************************************************)
(* The files, the journals and the transaction directories implement one   *)
(* pair that is replaced as a whole, however often a promotion or its      *)
(* recovery is cut short.                                                  *)
(***************************************************************************)
THEOREM CoverageReplacesWholePairs == ASSUME MaxRunning = 1 PROVE Spec => ReplacesWholePairs
<1>1. Init => Active!Init
  BY InitAccords
<1>2. IInv /\ IInv' /\ AInv /\ [Next]_vars => [Active!Next]_(Active!vars)
  BY NextAccords DEF Shows, Active!vars
<1> QED
  BY <1>1, <1>2, IInvHolds, AInvHolds, PTL DEF Spec, ReplacesWholePairs, Active!Spec
-----------------------------------------------------------------------------
BackedUp(pair) == pair \in backups \cup {Absent}

\* What is staged replaces a pair that is backed up.
Keeping(p) == \/ pc[p] \in {"stage", "copySnapshot", "copyMetadata", "publish"}
              \/ pc[p] = "recover" /\ local[p].resume = "stage"

Backs(p) == /\ pc[p] = "backupMetadata" => local[p].data = active.snapshot
            /\ Keeping(p) => BackedUp(active)

BInv == /\ journal # None => BackedUp(journal.previous)
        /\ \A p \in Running : Backs(p)

\* A step that neither makes a backup nor publishes a journal.
Calm(p) ==
  /\ pc'[p] # "backupMetadata" /\ backups' = backups /\ journal' \in {journal, None}
  /\ Keeping(p)' => Keeping(p) /\ active' = active

LEMMA CalmStepsPreserve ==
  ASSUME BInv, NEW p \in Process, p \in Running \/ ~Keeping(p), \A q \in Running' : q = p, Calm(p)
  PROVE  BInv'
<1>1. (journal # None => BackedUp(journal.previous))'
  BY DEF BInv, Calm, BackedUp
<1>2. Backs(p)'
  BY DEF BInv, Calm, Backs, BackedUp
<1> QED
  BY <1>1, <1>2 DEF BInv

\* The steps of a process that runs alone, apart from those.
LEMMA CalmSteps ==
  ASSUME IInv, AInv, NEW p \in Process, p \in Running,
         \/ Crash(p) \/ ReadJournal(p) \/ Decide(p) \/ RestoreSnapshot(p) \/ RestoreMetadata(p)
         \/ ConfirmPrevious(p) \/ RemoveJournal(p) \/ RemoveDirectory(p)
         \/ Stage(p) \/ CopySnapshot(p) \/ CopyMetadata(p) \/ RenameSnapshot(p) \/ RenameMetadata(p)
         \/ ConfirmNew(p) \/ AbandonReplacement(p) \/ FailReplacement(p)
         \/ WriteSnapshot(p) \/ WriteMetadata(p)
         \/ Load(p) \/ ReadSnapshot(p) \/ FindMetadata(p) \/ ReadMetadata(p) \/ Verify(p)
  PROVE  Calm(p)
<1>1. /\ local[p].resume \in Resumption /\ pc \in [Process -> Point] /\ local \in [Process -> Local]
      /\ pc[p] \in Recovery => local[p].resume \notin Again
  BY DEF IInv, TypeOK, ResumesKnown, AInv, Sees, Holds
<1>2. CASE Crash(p) \/ Decide(p) \/ ConfirmPrevious(p) \/ ConfirmNew(p)
  BY <1>1, <1>2 DEF Crash, Decide, ConfirmPrevious, ConfirmNew, Goto, Calm, Keeping
<1>3. CASE ReadJournal(p)
  BY <1>1, <1>3 DEF ReadJournal, Goto, Calm, Keeping, Resumption
<1>4. CASE RestoreSnapshot(p) \/ RestoreMetadata(p)
  BY <1>1, <1>4 DEF RestoreSnapshot, RestoreMetadata, Refuse, Goto, Calm, Keeping
<1>5. CASE RemoveJournal(p)
  BY <1>1, <1>5 DEF RemoveJournal, Goto, Calm, Keeping
<1>6. CASE RemoveDirectory(p)
  BY <1>1, <1>6 DEF RemoveDirectory, Goto, Calm, Keeping, Resumption, Recovery, Again
<1>7. CASE Stage(p) \/ CopySnapshot(p) \/ CopyMetadata(p) \/ AbandonReplacement(p)
  BY <1>1, <1>7 DEF Stage, CopySnapshot, CopyMetadata, AbandonReplacement, Discard, Goto, Calm, Keeping
<1>8. CASE RenameSnapshot(p) \/ RenameMetadata(p) \/ WriteMetadata(p)
  BY <1>1, <1>8 DEF RenameSnapshot, RenameMetadata, WriteMetadata, Goto, Calm, Keeping
<1>9. ASSUME NEW point \in {"failed", "writeMetadata", "readSnapshot", "readMetadata"}, RecoverThen(p, point)
      PROVE  pc'[p] = "recover" /\ local'[p].resume = point /\ ~Keeping(p)'
  BY <1>1, <1>9 DEF RecoverThen, Goto, Local, Keeping
<1>10. CASE FailReplacement(p) \/ WriteSnapshot(p)
  BY <1>9, <1>10 DEF FailReplacement, WriteSnapshot, Calm
<1>11. CASE Load(p) \/ FindMetadata(p)
  <2>1. CASE \E point \in {"readSnapshot", "readMetadata"} : RecoverThen(p, point)
    BY <1>9, <1>11, <2>1 DEF Load, FindMetadata, Calm
  <2>2. CASE pc' = [pc EXCEPT ![p] = "done"]
    BY <1>1, <1>11, <2>2 DEF Load, FindMetadata, Calm, Keeping
  <2> QED
    BY <1>11, <2>1, <2>2 DEF Load, FindMetadata, Serve, Goto
<1>12. CASE ReadSnapshot(p) \/ ReadMetadata(p)
  BY <1>1, <1>12 DEF ReadSnapshot, ReadMetadata, Goto, Calm, Keeping
<1>13. CASE Verify(p)
  BY <1>1, <1>13 DEF Verify, Serve, Refuse, Goto, Calm, Keeping
<1> QED
  BY <1>2, <1>3, <1>4, <1>5, <1>6, <1>7, <1>8, <1>10, <1>11, <1>12, <1>13

\* The pair in effect is copied.
LEMMA BackupsAreInEffect ==
  ASSUME IInv, AInv, BInv, NEW p \in Process, p \in Running, \A q \in Running' : q = p,
         Backup(p) \/ BackupMetadata(p)
  PROVE  BInv' /\ backups' \ backups \subseteq {Effective}
<1>1. /\ Sees(p) /\ Backs(p) /\ Files /\ active \in Pair
      /\ pc \in [Process -> Point] /\ local \in [Process -> Local]
  BY DEF AInv, BInv, IInv, TypeOK
<1>2. journal = None /\ journal' = None /\ active' = active
  BY <1>1 DEF Backup, BackupMetadata, Sees, Holds, Unlocked
<1>3. Effective = active
  BY <1>2 DEF Effective
<1>4. CASE Backup(p) /\ active.snapshot = None
  <2>1. active = Absent
    BY <1>1, <1>4 DEF Files, Pair, Absent
  <2>2. backups' = backups /\ pc'[p] = "recover"
    BY <1>1, <1>4 DEF Backup, RecoverThen, Goto
  <2>3. Backs(p)'
    BY <1>2, <2>1, <2>2 DEF Backs, BackedUp
  <2> QED
    BY <1>2, <2>2, <2>3 DEF BInv
<1>5. CASE Backup(p) /\ active.snapshot # None
  <2>1. backups' = backups /\ pc'[p] = "backupMetadata" /\ local'[p].data = active.snapshot
    BY <1>1, <1>5 DEF Backup, Goto, Local
  <2>2. Backs(p)'
    BY <1>2, <2>1 DEF Backs, Keeping
  <2> QED
    BY <1>2, <2>1, <2>2 DEF BInv
<1>6. CASE BackupMetadata(p)
  <2>1. local[p].data = active.snapshot
    BY <1>1, <1>6 DEF BackupMetadata, Backs
  <2>2. [snapshot |-> local[p].data, metadata |-> active.metadata] = active
    BY <1>1, <2>1 DEF Pair
  <2>3. backups' = backups \cup {active} /\ pc'[p] = "recover"
    BY <1>1, <1>6, <2>2 DEF BackupMetadata, RecoverThen, Goto
  <2>4. Backs(p)'
    BY <1>2, <2>3 DEF Backs, BackedUp
  <2> QED
    BY <1>2, <1>3, <2>3, <2>4 DEF BInv
<1> QED
  BY <1>4, <1>5, <1>6

\* The journal names the pair that was backed up.
LEMMA PublishedPairIsBackedUp ==
  ASSUME IInv, AInv, BInv, NEW p \in Process, p \in Running, \A q \in Running' : q = p,
         PublishJournal(p) \/ FailToSync(p)
  PROVE  BInv' /\ backups' = backups
<1>1. /\ Sees(p) /\ Backs(p) /\ pc[p] = "publish" /\ pc \in [Process -> Point]
      /\ backups' = backups /\ active' = active /\ journal' = NewJournal(p)
  BY DEF AInv, BInv, IInv, TypeOK, PublishJournal, FailToSync, Discard
<1>2. journal'.previous = active /\ BackedUp(active)
  BY <1>1 DEF NewJournal, Sees, Stages, Backs, Keeping
<1>3. pc'[p] \in {"renameSnapshot", "failed"}
  BY <1>1 DEF PublishJournal, FailToSync, Discard, Goto
<1>4. Backs(p)'
  BY <1>3 DEF Backs, Keeping
<1> QED
  BY <1>1, <1>2, <1>4 DEF BInv, BackedUp

\* Only a rename puts another pair into effect, apart from an import.
LEMMA ReplacedIsBackedUp ==
  ASSUME IInv, AInv, BInv, NEW p \in Process, p \in Running, Others(p), TakesEffect,
         \/ UNCHANGED <<active, journal>>
         \/ RestoreSnapshot(p) \/ RestoreMetadata(p) \/ RemoveJournal(p)
         \/ PublishJournal(p) \/ FailToSync(p) \/ RenameSnapshot(p) \/ RenameMetadata(p)
         \/ WriteSnapshot(p) \/ WriteMetadata(p)
  PROVE  BackedUp(Effective)
<1>1. /\ Sees(p) /\ Files /\ active \in Pair /\ pc \in [Process -> Point] /\ local \in [Process -> Local]
      /\ Effective' # Effective /\ Importers' = Importers
      /\ pc[p] \in Locked => local[p].journal = journal /\ journal # None
  BY DEF AInv, IInv, TypeOK, TakesEffect, Sees, Holds, Locked
<1>2. CASE journal # None /\ active # Whole(journal.new)
  BY <1>2 DEF BInv, Effective, IsCompleteNewPair
<1>3. CASE journal = None \/ active = Whole(journal.new)
  <2>1. Effective = active
    BY <1>3 DEF Effective, IsCompleteNewPair
  <2>2. CASE UNCHANGED <<active, journal>>
    BY <1>1, <2>2 DEF Effective, IsCompleteNewPair
  <2>3. CASE RestoreSnapshot(p)
    BY <1>1, <1>3, <2>3 DEF RestoreSnapshot, Locked, Holders, Recovery, Sees, Replaces
  <2>4. CASE RestoreMetadata(p)
    <3>1. journal # None /\ local[p].journal = journal /\ active = journal.previous
      BY <1>1, <2>4 DEF RestoreMetadata, Locked, Holders, Recovery, Sees, Replaces
    <3> QED
      BY <2>1, <3>1 DEF BInv
  <2>5. CASE RemoveJournal(p)
    BY <1>1, <2>1, <2>5 DEF RemoveJournal, Effective
  <2>6. CASE PublishJournal(p) \/ FailToSync(p)
    <3>1. journal'.previous = active /\ active' = active
      BY <1>1, <2>6 DEF PublishJournal, FailToSync, Discard, NewJournal, Sees, Stages
    <3> QED
      BY <1>1, <2>1, <3>1 DEF Effective
  <2>7. CASE RenameSnapshot(p)
    <3>1. journal # None /\ active = journal.previous
      BY <1>1, <2>7 DEF RenameSnapshot, Locked, Holders, Sees, Replaces
    <3> QED
      BY <2>1, <3>1 DEF BInv
  <2>8. CASE RenameMetadata(p)
    <3>1. /\ journal # None /\ journal' = journal /\ dirs[p].new.metadata = journal.new
          /\ active' = [active EXCEPT !.metadata = journal.new] /\ active = Whole(journal.new)
      BY <1>1, <1>3, <2>8 DEF RenameMetadata, Locked, Holders, Sees, Stages
    <3>2. active' = active
      BY <3>1 DEF Whole
    <3> QED
      BY <1>1, <3>1, <3>2 DEF Effective, IsCompleteNewPair
  <2>9. CASE WriteSnapshot(p)
    <3>1. p \notin Importers
      BY <1>1, <2>9 DEF WriteSnapshot, Importers, Sees, Imports
    <3>2. pc'[p] = "recover" /\ local'[p].resume = "writeMetadata"
      BY <1>1, <2>9 DEF WriteSnapshot, RecoverThen, Goto, Local
    <3>3. p \in Importers'
      BY <3>2 DEF Importers
    <3> QED
      BY <1>1, <3>1, <3>3
  <2>10. CASE WriteMetadata(p)
    <3>1. p \in Importers
      BY <1>1, <2>10 DEF WriteMetadata, Importers, Sees, Imports
    <3>2. pc'[p] \in {"done", "failed"}
      BY <1>1, <2>10 DEF WriteMetadata, Goto
    <3>3. p \notin Importers'
      BY <3>2 DEF Importers
    <3> QED
      BY <1>1, <3>1, <3>3
  <2> QED
    BY <2>2, <2>3, <2>4, <2>5, <2>6, <2>7, <2>8, <2>9, <2>10
<1> QED
  BY <1>2, <1>3

LEMMA NextBacks ==
  ASSUME MaxRunning = 1, IInv, IInv', AInv, BInv, [Next]_vars
  PROVE  /\ BInv' /\ backups' \ backups \subseteq {Effective}
         /\ TakesEffect => BackedUp(Effective)
<1>1. CASE UNCHANGED vars
  BY <1>1 DEF vars, BInv, BackedUp, Backs, Keeping, Running, TakesEffect, Effective, IsCompleteNewPair
<1>2. ASSUME NEW p \in Process, StartPromote(p) \/ StartRollback(p) \/ StartImport(p) \/ StartServer(p)
      PROVE  BInv' /\ backups' = backups /\ Effective' = Effective
  <2>1. PICK source \in File, point \in {"backup", "writeSnapshot", "load"} : Start(p, source, point)
    BY <1>2, ConstantsAssumption DEF StartPromote, StartRollback, StartImport, StartServer, File
  <2>2. Running = {}
    BY <2>1, StartsAlone
  <2>3. /\ pc[p] = "new" /\ pc'[p] = "recover" /\ local'[p].resume = point
        /\ \A q \in Process \ {p} : pc'[q] = pc[q]
        /\ UNCHANGED <<active, journal, backups>>
    BY <2>1 DEF Start, Goto, IInv, TypeOK, Local
  <2>4. \A q \in Running' : q = p
    BY <2>2, <2>3 DEF Running
  <2>5. Calm(p) /\ ~Keeping(p)
    BY <2>3 DEF Calm, Keeping
  <2> QED
    BY <2>3, <2>4, <2>5, CalmStepsPreserve DEF Effective, IsCompleteNewPair
<1>3. ASSUME NEW p \in Process, Moves(p)
      PROVE  /\ BInv' /\ backups' \ backups \subseteq {Effective}
             /\ TakesEffect => BackedUp(Effective)
  <2>4. p \in Running /\ Others(p)
    BY <1>3, MovesAccord DEF Accords
  <2>1. \A q \in Running' : q = p
    <3>1. \A q \in Running : q = p
      BY <2>4 DEF AInv, Alone
    <3> QED
      BY <2>4, <3>1 DEF Running, Others
  <2>2. BInv' /\ backups' \ backups \subseteq {Effective}
    <3>1. CASE Backup(p) \/ BackupMetadata(p)
      BY <2>4, <2>1, <3>1, BackupsAreInEffect
    <3>2. CASE PublishJournal(p) \/ FailToSync(p)
      BY <2>4, <2>1, <3>2, PublishedPairIsBackedUp
    <3>3. CASE ~(Backup(p) \/ BackupMetadata(p) \/ PublishJournal(p) \/ FailToSync(p))
      <4>1. Calm(p)
        BY <1>3, <2>4, <3>3, CalmSteps DEF Moves
      <4> QED
        BY <2>4, <2>1, <4>1, CalmStepsPreserve DEF Calm
    <3> QED
      BY <3>1, <3>2, <3>3
  <2>3. \/ UNCHANGED <<active, journal>>
        \/ RestoreSnapshot(p) \/ RestoreMetadata(p) \/ RemoveJournal(p)
        \/ PublishJournal(p) \/ FailToSync(p) \/ RenameSnapshot(p) \/ RenameMetadata(p)
        \/ WriteSnapshot(p) \/ WriteMetadata(p)
    BY <1>3 DEF Moves, Crash, ReadJournal, Decide, ConfirmPrevious, RemoveDirectory, Stage, CopySnapshot, CopyMetadata,
                ConfirmNew, AbandonReplacement, Discard, FailReplacement, Load, ReadSnapshot, FindMetadata,
                ReadMetadata, Verify, Refuse, Backup, BackupMetadata
  <2> QED
    BY <2>2, <2>3, <2>4, ReplacedIsBackedUp
<1>4. ASSUME Next PROVE \E p \in Process :
        \/ StartPromote(p) \/ StartRollback(p) \/ StartImport(p) \/ StartServer(p)
        \/ Moves(p)
  BY <1>4 DEF Next, Moves
<1> QED
  BY <1>1, <1>2, <1>3, <1>4 DEF TakesEffect

LEMMA BInvHolds == ASSUME MaxRunning = 1 PROVE Spec => []BInv
<1>1. Init => BInv
  BY DEF Init, BInv, Running
<1>2. IInv /\ IInv' /\ AInv /\ BInv /\ [Next]_vars => BInv'
  BY NextBacks
<1> QED
  BY <1>1, <1>2, IInvHolds, AInvHolds, PTL DEF Spec

(***************************************************************************)
(* With one command or startup at a time: however many of them were cut    *)
(* short, what is backed up is the pair in effect, and what a promotion or *)
(* rollback replaces is backed up before it is replaced.                   *)
(***************************************************************************)
THEOREM ReplacedPairsBackedUp == ASSUME MaxRunning = 1 PROVE Spec => ReplacedPairsAreBackedUp
<1>1. /\ IInv /\ IInv' /\ AInv /\ BInv /\ [Next]_vars
      => [/\ backups' \ backups \subseteq {Effective}
          /\ TakesEffect => Effective \in backups \cup {Absent}]_vars
  BY NextBacks DEF BackedUp
<1> QED
  BY <1>1, IInvHolds, AInvHolds, BInvHolds, PTL DEF Spec, ReplacedPairsAreBackedUp
=============================================================================
