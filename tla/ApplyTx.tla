------------------------------ MODULE ApplyTx -------------------------------
(***************************************************************************)
(* The transaction that applies a difference of manifests to a directory   *)
(* (internal/syncfs/apply.go): the host applies the client's changes to a  *)
(* workspace with it, and the client the command's changes to its project. *)
(*                                                                         *)
(* New files are staged in a temporary directory; commit moves what is in  *)
(* the way to a backup directory, makes directories, moves the new files   *)
(* in and sets the modes of directories.  Each of these operations may     *)
(* fail, and then rollback undoes what the transaction recorded, one       *)
(* operation after the other.  Each of those may fail as well: rollback    *)
(* notes the error and goes on, and what it has not moved back goes with   *)
(* the temporary directory.                                                *)
(*                                                                         *)
(* The directory is a function from paths to what is there: nothing, a     *)
(* file with a content, or a directory with a mode.  Symbolic links, which *)
(* are treated like files or refused as parents, are left out.             *)
(***************************************************************************)
EXTENDS Naturals, FiniteSets

CONSTANTS Paths,        \* the paths below the root
          Above,        \* Above[p]: the directories on the way to p
          Hashes,       \* contents of files
          Modes,        \* modes of directories
          DefaultMode,  \* the mode that MkdirAll gives
          Absent,       \* nothing
          Stale         \* the directory may differ from the base manifest

ASSUME PathAssumption ==
    /\ IsFiniteSet(Paths)
    /\ Above \in [Paths -> SUBSET Paths]
    /\ \A p \in Paths : p \notin Above[p] /\ \A q \in Above[p] : Above[q] \subseteq Above[p]
    /\ \A p \in Paths : \A q, r \in Above[p] : q = r \/ q \in Above[r] \/ r \in Above[q]
ASSUME NodeAssumption ==
    /\ DefaultMode \in Modes
    /\ Absent \notin Hashes \cup Modes
    /\ Hashes \cap Modes = {}
ASSUME StaleAssumption == Stale \in BOOLEAN

VARIABLES files,      \* the directory
          origin,     \* history: the directory before the transaction
          base,       \* the manifest that the difference starts from
          target,     \* the manifest that the difference leads to
          phase,      \* where ApplyChanges is
          todo,       \* paths that the phase has not reached
          backups,    \* t.backups: the paths moved aside
          stored,     \* what the backup directory holds
          created,    \* t.createdDirs
          installed,  \* t.installed
          dirModes,   \* t.dirModes, Absent for a path without an entry
          refused     \* the paths whose operation failed in rollback: its joined error

params == <<origin, base, target>>
record == <<backups, stored, created, installed, dirModes, refused>>
vars == <<files, params, phase, todo, record>>

Nodes == Hashes \cup Modes \cup {Absent}

M == INSTANCE Manifest WITH Hashes <- Hashes \cup Modes, NoFile <- Absent

\* Only directories have something below them.
FileTrees ==
    {t \in [Paths -> Nodes] :
        \A p \in Paths : t[p] # Absent => \A q \in Above[p] : t[q] \in Modes}

Depth(p) == Cardinality(Above[p])
Subtree(p) == {q \in Paths : q = p \/ p \in Above[q]}

entries == M!Changed(base, target)
deleted == M!Deleted(base, target)
DirEntries == {p \in entries : target[p] \in Modes}
FileEntries == {p \in entries : target[p] \in Hashes}

\* A lookup of p fails with ENOTDIR, which is not fs.ErrNotExist.
NotDir(p) == \E q \in Above[p] : files[q] \in Hashes

\* MkdirAll of the directories in S.
WithDirs(t, S) == [p \in Paths |-> IF p \in S /\ t[p] = Absent THEN DefaultMode ELSE t[p]]

NoFiles == [p \in Paths |-> Absent]

Init ==
    /\ files \in FileTrees
    /\ origin = files
    /\ base \in IF Stale THEN FileTrees ELSE {files}
    /\ target \in FileTrees
    /\ phase = "stage"
    /\ todo = {}
    /\ backups = {}
    /\ stored = NoFiles
    /\ created = {}
    /\ installed = {}
    /\ dirModes = NoFiles
    /\ refused = {}

-----------------------------------------------------------------------------
\* stageChanges: the new files are in the temporary directory.
StageChanges ==
    /\ phase = "stage"
    /\ phase' = IF entries \cup deleted = {} THEN "done" ELSE "backup"
    /\ todo' = entries \cup deleted
    /\ UNCHANGED <<files, params, record>>

\* A file cannot be staged: nothing has changed.
StagingFails ==
    /\ phase = "stage"
    /\ entries \cup deleted # {}
    /\ phase' = "failed"
    /\ UNCHANGED <<files, params, todo, record>>

-----------------------------------------------------------------------------
\* commit has failed, and rollback starts with the files that are installed.
RollBack == phase' = "remove" /\ todo' = installed

(* commit, first loop: what is in the way is moved aside, parents first *)

InOrder(p) == p \in todo /\ \A q \in todo : Depth(p) <= Depth(q)

coveredByChangeBackup(p) == \E b \in backups : p \in Subtree(b)

\* Fault: a directory is never moved aside.
KeepDirs(p) ==
    \/ coveredByChangeBackup(p)
    \/ files[p] = Absent /\ ~NotDir(p)
    \/ files[p] \in Modes

KeepInPlace(p) ==
    \/ coveredByChangeBackup(p)
    \/ files[p] = Absent /\ ~NotDir(p)
    \/ p \in DirEntries /\ files[p] \in Modes

SkipPath(p) ==
    /\ phase = "backup"
    /\ InOrder(p)
    /\ KeepInPlace(p)
    /\ todo' = todo \ {p}
    /\ UNCHANGED <<files, params, phase, record>>

BackupPath(p) ==
    /\ phase = "backup"
    /\ InOrder(p)
    /\ ~KeepInPlace(p)
    /\ files[p] # Absent
    /\ files' = [q \in Paths |-> IF q \in Subtree(p) THEN Absent ELSE files[q]]
    /\ stored' = [q \in Paths |-> IF q \in Subtree(p) THEN files[q] ELSE stored[q]]
    /\ backups' = backups \cup {p}
    /\ todo' = todo \ {p}
    /\ UNCHANGED <<params, phase, created, installed, dirModes, refused>>

EndBackup ==
    /\ phase = "backup"
    /\ todo = {}
    /\ phase' = "mkdir"
    /\ todo' = DirEntries
    /\ UNCHANGED <<files, params, record>>

-----------------------------------------------------------------------------
(* second loop: the directories, which Diff has sorted by path *)

\* Fault: the mode of a directory that exists is not recorded.
RecordOnlyNew(p) ==
    /\ created' = IF files[p] = Absent THEN created \cup {p} ELSE created
    /\ UNCHANGED dirModes

\* What is recorded before MkdirAll is called.
RecordDir(p) ==
    /\ created' = IF files[p] = Absent THEN created \cup {p} ELSE created
    /\ dirModes' = IF files[p] = Absent THEN dirModes
                   ELSE [dirModes EXCEPT ![p] = files[p]]

MakeDir(p) ==
    /\ phase = "mkdir"
    /\ InOrder(p)
    /\ ~NotDir(p)
    /\ RecordDir(p)
    /\ files' = WithDirs(files, Above[p] \cup {p})
    /\ todo' = todo \ {p}
    /\ UNCHANGED <<params, phase, backups, stored, installed, refused>>

MakeDirFails(p) ==
    /\ phase = "mkdir"
    /\ InOrder(p)
    /\ ~NotDir(p)
    /\ RecordDir(p)
    /\ files' \in {files, WithDirs(files, Above[p])}
    /\ RollBack
    /\ UNCHANGED <<params, backups, stored, installed, refused>>

EndMkdir ==
    /\ phase = "mkdir"
    /\ todo = {}
    /\ phase' = "install"
    /\ todo' = FileEntries
    /\ UNCHANGED <<files, params, record>>

-----------------------------------------------------------------------------
(* third loop: the files *)

RecordParents(p) == created' = created \cup {q \in Above[p] : files[q] = Absent}

InstallFile(p) ==
    /\ phase = "install"
    /\ p \in todo
    /\ ~NotDir(p)
    /\ files[p] \notin Modes
    /\ RecordParents(p)
    /\ files' = [WithDirs(files, Above[p]) EXCEPT ![p] = target[p]]
    /\ installed' = installed \cup {p}
    /\ todo' = todo \ {p}
    /\ UNCHANGED <<params, phase, backups, stored, dirModes, refused>>

\* MkdirAll or the rename fails.
InstallFails(p) ==
    /\ phase = "install"
    /\ p \in todo
    /\ RecordParents(p)
    /\ files' \in {files} \cup (IF NotDir(p) THEN {} ELSE {WithDirs(files, Above[p])})
    /\ RollBack
    /\ UNCHANGED <<params, backups, stored, installed, dirModes, refused>>

EndInstall ==
    /\ phase = "install"
    /\ todo = {}
    /\ phase' = "chmod"
    /\ todo' = DirEntries
    /\ UNCHANGED <<files, params, record>>

-----------------------------------------------------------------------------
(* last loop: the modes of the directories *)

ChmodDir(p) ==
    /\ phase = "chmod"
    /\ p \in todo
    /\ files' = [files EXCEPT ![p] = target[p]]
    /\ todo' = todo \ {p}
    /\ UNCHANGED <<params, phase, record>>

\* The temporary directory goes, with what was moved aside.
Commit ==
    /\ phase = "chmod"
    /\ todo = {}
    /\ phase' = "done"
    /\ stored' = NoFiles
    /\ UNCHANGED <<files, params, todo, backups, created, installed, dirModes, refused>>

-----------------------------------------------------------------------------
\* Any other operation of commit fails: a lookup below a file, a rename, a chmod.
CommitFails ==
    /\ \/ phase = "backup" /\ \E p \in todo : InOrder(p) /\ ~KeepInPlace(p)
       \/ phase = "mkdir" /\ \E p \in todo : InOrder(p) /\ NotDir(p)
       \/ phase = "chmod" /\ todo # {}
    /\ RollBack
    /\ UNCHANGED <<files, params, record>>

-----------------------------------------------------------------------------
(* rollback: an operation that fails leaves its path to the joined error *)

Undone(p) ==
    /\ todo' = todo \ {p}
    /\ UNCHANGED <<params, phase, backups, created, installed, dirModes>>

Refuse(p) == refused' = refused \cup {p}

RemoveInstalled(p) ==
    /\ phase = "remove"
    /\ p \in todo
    /\ \/ files' = [files EXCEPT ![p] = Absent] /\ UNCHANGED refused
       \/ Refuse(p) /\ UNCHANGED files
    /\ Undone(p)
    /\ UNCHANGED stored

EndRemove ==
    /\ phase = "remove"
    /\ todo = {}
    /\ phase' = "return"
    /\ todo' = backups
    /\ UNCHANGED <<files, params, record>>

\* What is at p is removed and the backup renamed to it.  The rename replaces a file by a
\* file, even one that RemoveAll could not remove.
ReturnBackup(p) ==
    /\ phase = "return"
    /\ p \in todo
    /\ files' = [q \in Paths |-> IF q \in Subtree(p) THEN stored[q] ELSE files[q]]
    /\ stored' = [q \in Paths |-> IF q \in Subtree(p) THEN Absent ELSE stored[q]]
    /\ \/ UNCHANGED refused
       \/ {files[p], stored[p]} \subseteq Hashes /\ Refuse(p)
    /\ Undone(p)

\* RemoveAll, which may have removed a part, MkdirAll or the rename fails.
ReturnFails(p) ==
    /\ phase = "return"
    /\ p \in todo
    /\ files' \in {t \in FileTrees :
                      \A q \in Paths : t[q] = files[q] \/ (q \in Subtree(p) /\ t[q] = Absent)}
    /\ Refuse(p)
    /\ Undone(p)
    /\ UNCHANGED stored

ModesToRestore == {p \in Paths : dirModes[p] # Absent}

\* Fault: the modes are not restored.
EndReturnWithoutModes ==
    /\ phase = "return"
    /\ todo = {}
    /\ phase' = "modes"
    /\ todo' = {}
    /\ UNCHANGED <<files, params, record>>

EndReturn ==
    /\ phase = "return"
    /\ todo = {}
    /\ phase' = "modes"
    /\ todo' = ModesToRestore
    /\ UNCHANGED <<files, params, record>>

RestoreMode(p) ==
    /\ phase = "modes"
    /\ p \in todo
    /\ \/ /\ files[p] \in Modes
          /\ files' = [files EXCEPT ![p] = dirModes[p]]
          /\ UNCHANGED refused
       \/ Refuse(p) /\ UNCHANGED files
    /\ Undone(p)
    /\ UNCHANGED stored

EndModes ==
    /\ phase = "modes"
    /\ todo = {}
    /\ phase' = "unmake"
    /\ todo' = created
    /\ UNCHANGED <<files, params, record>>

DeepestFirst(p) == p \in todo /\ \A q \in todo : Depth(q) <= Depth(p)

Empty(p) == \A q \in Subtree(p) : q = p \/ files[q] = Absent

\* os.Remove removes a file as well, and a directory only when it is empty.
RemoveMade(p) ==
    /\ phase = "unmake"
    /\ DeepestFirst(p)
    /\ \/ /\ Empty(p)
          /\ ~NotDir(p)
          /\ files' = [files EXCEPT ![p] = Absent]
          /\ UNCHANGED refused
       \/ Refuse(p) /\ UNCHANGED files
    /\ Undone(p)
    /\ UNCHANGED stored

\* The deferred RemoveAll of the temporary directory, with the backups left in it.
DiscardBackups ==
    /\ phase = "unmake"
    /\ todo = {}
    /\ phase' = "failed"
    /\ stored' = NoFiles
    /\ UNCHANGED <<files, params, todo, backups, created, installed, dirModes, refused>>

Finished == phase \in {"done", "failed"} /\ UNCHANGED vars

Next ==
    \/ StageChanges \/ StagingFails
    \/ \E p \in Paths :
        \/ SkipPath(p) \/ BackupPath(p)
        \/ MakeDir(p) \/ MakeDirFails(p)
        \/ InstallFile(p) \/ InstallFails(p)
        \/ ChmodDir(p)
        \/ RemoveInstalled(p) \/ ReturnBackup(p) \/ ReturnFails(p)
        \/ RestoreMode(p) \/ RemoveMade(p)
    \/ EndBackup \/ EndMkdir \/ EndInstall \/ Commit \/ CommitFails
    \/ EndRemove \/ EndReturn \/ EndModes \/ DiscardBackups
    \/ Finished

Spec == Init /\ [][Next]_vars

-----------------------------------------------------------------------------
(* Properties *)

TypeOK ==
    /\ files \in FileTrees
    /\ {origin, base, target} \subseteq FileTrees
    /\ phase \in {"stage", "backup", "mkdir", "install", "chmod", "remove", "return",
                  "modes", "unmake", "done", "failed"}
    /\ todo \subseteq Paths
    /\ backups \subseteq Paths
    /\ stored \in [Paths -> Nodes]
    /\ created \subseteq Paths
    /\ installed \subseteq Paths
    /\ dirModes \in [Paths -> Modes \cup {Absent}]
    /\ refused \subseteq Paths

\* The directory is always a tree: nothing is below a file, and no path is left without
\* its directory.  A commit that succeeds leaves what the target manifest lists and nothing of
\* what it deletes; a directory that was as the base manifest says is as the
\* target manifest says: this is Manifest's Patch.
CommitGivesTarget ==
    /\ TypeOK
    /\ phase = "done" =>
        /\ \A p \in entries : files[p] = target[p]
        /\ \A p \in deleted : files[p] = Absent
        /\ origin = base => files = M!Patch(origin, base, target)

\* Until the commit is complete, or the temporary directory goes after a rollback, nothing
\* is lost, whatever the rollback could not undo: everything that was there is in
\* its place, or in the backup directory, or a directory whose mode is recorded, or
\* what rollback took for a directory of its own.
NothingLost ==
    phase \notin {"done", "failed"} =>
        \A p \in Paths :
            \/ origin[p] = Absent
            \/ files[p] = origin[p]
            \/ stored[p] = origin[p] /\ coveredByChangeBackup(p)
            \/ dirModes[p] = origin[p]
            \/ phase = "unmake" /\ p \in created /\ coveredByChangeBackup(p)

\* An operation of the rollback failed at p, or at a directory on the way to p.
Refused(p) == \E q \in refused : p \in Subtree(q)

\* "ApplyChanges stages files and restores every replaced path if commit fails", but for:
\* what is at or below a path for which an operation of the rollback failed, as the
\* error says (of what stays in the backup nothing is left then); a replaced path at which
\* commit made a directory; and a directory that the base manifest wrongly says
\* exists, which MkdirAll makes on the way to an entry.
RestoredUnlessRefused ==
    phase = "failed" =>
        \A p \in Paths :
            \/ files[p] = origin[p]
            \/ Refused(p)
            \/ p \in created /\ coveredByChangeBackup(p)
            \/ origin[p] = Absent /\ {base[p], files[p]} \subseteq Modes
=============================================================================
