---------------------------- MODULE ApplyTxProofs ---------------------------
(***************************************************************************)
(* Proofs about ApplyTx, for any finite set of paths, any directory, base  *)
(* and target: a commit that succeeds gives the target, nothing is lost    *)
(* before, and what a rollback restores whose operations may fail too.     *)
(***************************************************************************)
EXTENDS ApplyTx, FiniteSetTheorems, TLAPS

touched == entries \cup deleted

\* The paths that are moved aside, with those below them.
moved == {p \in Paths : coveredByChangeBackup(p)}

-----------------------------------------------------------------------------
(* The invariant *)

Committing == {"stage", "backup", "mkdir", "install", "chmod"}

\* Where the paths that were moved aside are, and which they are: none is below another.
BackupInv ==
    /\ backups \subseteq touched
    /\ \A b \in backups : ~(b \in DirEntries /\ origin[b] \in Modes)
    /\ \A b, c \in backups : b \in Subtree(c) => b = c
    /\ \A p \in Paths : p \in moved => dirModes[p] = Absent
    /\ phase \in Committing \cup {"remove"} =>
          \A p \in Paths : p \in moved => stored[p] = origin[p]

\* Nothing but backups has happened.
EarlyInv ==
    /\ phase \in {"stage", "backup"} =>
          /\ created = {} /\ dirModes = [p \in Paths |-> Absent]
          /\ \A p \in Paths : files[p] = IF p \in moved THEN Absent ELSE origin[p]
    /\ phase = "stage" => backups = {}
    /\ phase \in {"stage", "backup", "mkdir"} => installed = {}

\* The first loop is done with a path.
Settled(p) ==
    p \in moved \/ origin[p] = Absent \/ (p \in DirEntries /\ origin[p] \in Modes)

\* The mode that a directory had is recorded.
ModeKept(p) == p \in moved \/ origin[p] = Absent \/ dirModes[p] = origin[p]

\* How far each loop has come.
LoopInv ==
    /\ phase = "backup" => /\ todo \subseteq touched
                           /\ \A b \in backups, p \in todo : Depth(b) <= Depth(p)
                           /\ \A p \in touched \ todo : Settled(p)
    /\ phase \in {"mkdir", "install", "chmod"} => \A p \in touched : Settled(p)
    /\ phase = "mkdir" =>
          /\ todo \subseteq DirEntries
          /\ \A p \in todo : p \in moved => files[p] = Absent
          /\ \A p \in DirEntries \ todo : files[p] \in Modes /\ ModeKept(p)
    /\ phase \in {"install", "chmod"} =>
          \A p \in DirEntries : files[p] \in Modes /\ ModeKept(p)
    /\ phase = "install" => todo \subseteq FileEntries /\ FileEntries \ todo \subseteq installed
    /\ phase = "chmod" => /\ todo \subseteq DirEntries /\ FileEntries \subseteq installed
                          /\ \A p \in DirEntries \ todo : files[p] = target[p]
    /\ phase = "done" => \A p \in entries : files[p] = target[p]

\* What was there and was not moved aside is there, but for its mode.
KeptInv ==
    phase # "failed" =>
        \A p \in Paths : p \notin moved /\ origin[p] # Absent =>
            /\ \/ files[p] = origin[p]
               \/ /\ phase \in {"chmod", "remove", "return", "modes", "unmake", "done"}
                  /\ p \in DirEntries
                  /\ dirModes[p] = origin[p] /\ files[p] \in Modes
            /\ p \notin created /\ p \notin installed
            /\ dirModes[p] \in {Absent, origin[p]}

\* What was not there is there only for a reason.
NewInv ==
    phase # "failed" =>
        /\ \A p \in Paths : p \notin moved /\ origin[p] = Absent =>
              \/ files[p] = Absent
              \/ p \in installed
              \/ files[p] \in Modes /\ (p \in created \/ base[p] \in Modes)
        /\ installed \subseteq FileEntries
        /\ \A p \in installed :
              phase \in Committing \cup {"done"} \/ (phase = "remove" /\ p \in todo)
                 => files[p] = target[p]

\* What the target does not have is not made.
GoneInv ==
    phase \in {"mkdir", "install", "chmod", "done"} =>
        \A p \in Paths : target[p] = Absent /\ (p \in deleted \/ origin[p] = Absent)
            => files[p] = Absent

\* The rollback has not come to the backup that p was moved aside with.
Waiting(p) == \E b \in todo : p \in Subtree(b)

\* What was moved aside is back, or still in the backup directory because it could not be
\* moved back.
Returned(p) == files[p] = origin[p] \/ (stored[p] = origin[p] /\ Refused(p))

\* How far each loop of the rollback has come.
UndoInv ==
    /\ phase = "remove" => todo \subseteq installed
    /\ phase = "return" =>
          /\ todo \subseteq backups
          /\ \A p \in moved : IF Waiting(p) THEN stored[p] = origin[p] ELSE Returned(p)
    /\ phase = "modes" => todo \subseteq ModesToRestore /\ \A p \in moved : Returned(p)
    /\ phase = "unmake" => /\ todo \subseteq created
                           /\ \A p \in moved : Returned(p) \/ p \in created
    /\ phase \in {"remove", "return", "modes", "unmake"} =>
          \A p \in installed \ moved :
              (phase = "remove" /\ p \in todo) \/ files[p] = Absent \/ Refused(p)
    /\ phase \in {"modes", "unmake"} =>
          \A p \in Paths \ moved : origin[p] # Absent =>
              files[p] = origin[p] \/ (phase = "modes" /\ p \in todo) \/ Refused(p)
    /\ phase = "unmake" => \A p \in created \ todo : files[p] = Absent \/ Refused(p)

TxInv ==
    /\ TypeOK /\ BackupInv /\ EarlyInv /\ LoopInv /\ KeptInv /\ NewInv /\ GoneInv
    /\ UndoInv /\ RestoredUnlessRefused

-----------------------------------------------------------------------------
(* Paths and trees *)

\* A directory on the way to a path is less deep.
LEMMA DepthGrows ==
    ASSUME NEW q \in Paths
    PROVE  /\ Depth(q) \in Nat
           /\ \A p \in Above[q] : p \in Paths /\ Depth(p) \in Nat /\ Depth(p) < Depth(q)
<1>1. IsFiniteSet(Above[q]) /\ Depth(q) \in Nat
    BY PathAssumption, FS_Subset, FS_CardinalityType DEF Depth
<1>2. ASSUME NEW p \in Above[q]
      PROVE  p \in Paths /\ Depth(p) \in Nat /\ Depth(p) < Depth(q)
    <2>1. p \in Paths /\ Above[p] \subseteq Above[q] /\ p \notin Above[p]
        BY PathAssumption
    <2>2. Above[p] # Above[q]
        BY <2>1, <1>2
    <2>3. IsFiniteSet(Above[p]) /\ Depth(p) \in Nat
        BY <2>1, PathAssumption, FS_Subset, FS_CardinalityType DEF Depth
    <2>4. Depth(p) <= Depth(q) /\ Depth(p) # Depth(q)
        BY <1>1, <2>1, <2>2, FS_Subset DEF Depth
    <2>. QED
        BY <1>1, <2>1, <2>3, <2>4
<1>. QED
    BY <1>1, <1>2

\* Two directories with a common path below are one below the other.
LEMMA Comparable ==
    ASSUME NEW p \in Paths, NEW b \in Paths, NEW q \in Subtree(p), q \in Subtree(b)
    PROVE  p \in Subtree(b) \/ p \in Above[b]
BY PathAssumption DEF Subtree

\* What is below a path that is below.
LEMMA SubtreeFacts ==
    ASSUME NEW p \in Paths
    PROVE  /\ Subtree(p) \subseteq Paths /\ p \in Subtree(p)
           /\ \A q \in Subtree(p) : q # p => p \in Above[q]
           /\ \A q \in Subtree(p) : Subtree(q) \subseteq Subtree(p)
           /\ \A q \in Paths : p \in Above[q] => q \in Subtree(p)
BY PathAssumption DEF Subtree

\* What a tree is.
LEMMA TreeFacts ==
    ASSUME NEW t \in FileTrees
    PROVE  /\ t \in [Paths -> Nodes]
           /\ \A p \in Paths : t[p] # Absent => \A q \in Above[p] : q \in Paths /\ t[q] \in Modes
           /\ \A p \in Paths : \A q \in Above[p] : t[q] \notin Modes => t[p] = Absent
BY PathAssumption DEF FileTrees

\* The two kinds of entries, and the deleted paths.
LEMMA EntryFacts ==
    ASSUME TypeOK
    PROVE  /\ entries = {p \in Paths : target[p] # Absent /\ base[p] # target[p]}
           /\ deleted = {p \in Paths : base[p] # Absent /\ target[p] = Absent}
           /\ entries = DirEntries \cup FileEntries /\ DirEntries \cap FileEntries = {}
           /\ \A p \in DirEntries : p \in Paths /\ target[p] \in Modes /\ target[p] # Absent
           /\ \A p \in FileEntries : p \in Paths /\ target[p] \in Hashes /\ target[p] # Absent
           /\ touched \subseteq Paths
<1>1. /\ entries = {p \in Paths : target[p] # Absent /\ base[p] # target[p]}
      /\ deleted = {p \in Paths : base[p] # Absent /\ target[p] = Absent}
    BY DEF entries, deleted, M!Changed, M!Deleted
<1>2. \A p \in Paths : target[p] \in Hashes \cup Modes \cup {Absent}
    BY TreeFacts DEF TypeOK, Nodes
<1>. QED
    BY <1>1, <1>2, NodeAssumption DEF DirEntries, FileEntries, touched

\* A path moved aside takes all below it along.
LEMMA MovedBelow ==
    ASSUME NEW p \in Paths, NEW q \in Above[p], q \in moved
    PROVE  q \in Paths /\ p \in moved
BY PathAssumption DEF moved, coveredByChangeBackup, Subtree

\* What MkdirAll leaves.
LEMMA DirsFacts ==
    ASSUME NEW t \in [Paths -> Nodes], NEW S \in SUBSET Paths
    PROVE  /\ WithDirs(t, S) \in [Paths -> Nodes]
           /\ \A p \in Paths : WithDirs(t, S)[p] =
                                  IF p \in S /\ t[p] = Absent THEN DefaultMode ELSE t[p]
           /\ \A p \in Paths : t[p] # Absent => WithDirs(t, S)[p] = t[p]
BY NodeAssumption DEF WithDirs, Nodes

\* MkdirAll of the directories on the way to p, or of them and p, where no file is in
\* the way, keeps the directory a tree.
LEMMA DirsTree ==
    ASSUME TypeOK, NEW p \in Paths, ~NotDir(p)
    PROVE  /\ WithDirs(files, Above[p]) \in FileTrees
           /\ WithDirs(files, Above[p] \cup {p}) \in FileTrees
           /\ \A q \in Above[p] : WithDirs(files, Above[p])[q] \in Modes
<1>1. /\ files \in [Paths -> Nodes] /\ Above[p] \subseteq Paths
      /\ \A q \in Paths : files[q] # Absent => \A r \in Above[q] : r \in Paths /\ files[r] \in Modes
    BY TreeFacts, PathAssumption DEF TypeOK
<1>2. \A q \in Above[p] : q \in Paths /\ files[q] \in Modes \cup {Absent}
    BY <1>1 DEF NotDir, Nodes
<1>3. ASSUME NEW S \in {Above[p], Above[p] \cup {p}}
      PROVE  /\ WithDirs(files, S) \in FileTrees
             /\ \A q \in Above[p] : WithDirs(files, S)[q] \in Modes
    <2>0. S \in SUBSET Paths
        BY <1>1
    <2>1. \A q \in Above[p] : WithDirs(files, S)[q] \in Modes
        BY <1>1, <1>2, <2>0, DirsFacts, NodeAssumption
    <2>2. ASSUME NEW q \in Paths, WithDirs(files, S)[q] # Absent, NEW r \in Above[q]
          PROVE  WithDirs(files, S)[r] \in Modes
        <3>1. CASE files[q] # Absent
            <4>1. r \in Paths /\ files[r] \in Modes
                BY <1>1, <3>1
            <4>. QED
                BY <1>1, <2>0, <4>1, DirsFacts, NodeAssumption
        <3>2. CASE files[q] = Absent
            <4>1. q \in S
                BY <1>1, <2>0, <2>2, <3>2, DirsFacts
            <4>2. r \in Above[p]
                BY <4>1, PathAssumption
            <4>. QED
                BY <4>2, <2>1
        <3>. QED
            BY <3>1, <3>2
    <2>. QED
        BY <2>0, <2>1, <2>2, <1>1, DirsFacts DEF FileTrees
<1>. QED
    BY <1>3

\* A step does not change what the difference is.
LEMMA SameDifference ==
    ASSUME UNCHANGED params
    PROVE  /\ origin' = origin /\ base' = base /\ target' = target
           /\ entries' = entries /\ deleted' = deleted /\ touched' = touched
           /\ DirEntries' = DirEntries /\ FileEntries' = FileEntries
<1>1. origin' = origin /\ base' = base /\ target' = target
    BY DEF params
<1>2. entries' = entries /\ deleted' = deleted
    BY <1>1 DEF entries, deleted
<1>. QED
    BY <1>1, <1>2 DEF touched, DirEntries, FileEntries

\* The same backups cover the same paths.
LEMMA SameMoved ==
    ASSUME backups' = backups
    PROVE  moved' = moved
BY DEF moved, coveredByChangeBackup

-----------------------------------------------------------------------------
(* The steps *)

\* The directory is as it was and nothing is recorded.
LEMMA TxInit == Init => TxInv
<1>. SUFFICES ASSUME Init PROVE TxInv
    OBVIOUS
<1>1. TypeOK
    BY DEF Init, TypeOK, FileTrees, Nodes, NoFiles
<1>2. moved = {}
    BY DEF Init, moved, coveredByChangeBackup
<1>3. BackupInv
    BY <1>2 DEF Init, BackupInv
<1>4. EarlyInv
    BY <1>2 DEF Init, EarlyInv, NoFiles
<1>5. KeptInv
    BY <1>2 DEF Init, KeptInv, NoFiles
<1>6. NewInv
    BY <1>2 DEF Init, NewInv
<1>. QED
    BY <1>1, <1>3, <1>4, <1>5, <1>6 DEF Init, TxInv, LoopInv, GoneInv, UndoInv,
       RestoredUnlessRefused

\* Steps that only move from one loop to the next.
LEMMA PhaseStep ==
    ASSUME TxInv, UNCHANGED <<files, params, backups, created, installed, dirModes, refused>>,
           StageChanges \/ StagingFails \/ EndBackup \/ EndMkdir \/ EndInstall \/ Commit \/ CommitFails
    PROVE  TxInv'
<1>0. /\ TypeOK /\ BackupInv /\ EarlyInv /\ LoopInv /\ KeptInv /\ NewInv /\ GoneInv
      /\ UNCHANGED params
      /\ UNCHANGED <<files, backups, created, installed, dirModes, refused>>
      /\ stored' = stored \/ (stored' = NoFiles /\ phase' = "done")
    BY DEF TxInv, StageChanges, StagingFails, EndBackup, EndMkdir, EndInstall, Commit,
       CommitFails, record
<1>1. /\ origin' = origin /\ base' = base /\ target' = target
      /\ entries' = entries /\ deleted' = deleted /\ touched' = touched
      /\ DirEntries' = DirEntries /\ FileEntries' = FileEntries /\ moved' = moved
    BY <1>0, SameDifference, SameMoved
<1>2. /\ entries = DirEntries \cup FileEntries /\ touched \subseteq Paths
      /\ \A p \in DirEntries \cup FileEntries : p \in Paths /\ target[p] # Absent
      /\ \A p \in deleted : target[p] = Absent
      /\ touched = entries \cup deleted
    BY <1>0, EntryFacts DEF touched
<1>3. TypeOK'
    BY <1>0, <1>1, <1>2 DEF TypeOK, StageChanges, StagingFails, EndBackup, EndMkdir, EndInstall,
       Commit, CommitFails, RollBack, touched, NoFiles, Nodes
<1>4. BackupInv'
    BY <1>0, <1>1 DEF BackupInv, Committing, StageChanges, StagingFails, EndBackup, EndMkdir,
       EndInstall, Commit, CommitFails, RollBack
<1>5. EarlyInv'
    BY <1>0, <1>1 DEF EarlyInv, StageChanges, StagingFails, EndBackup, EndMkdir, EndInstall,
       Commit, CommitFails, RollBack
<1>6. KeptInv'
    BY <1>0, <1>1 DEF KeptInv, StageChanges, StagingFails, EndBackup, EndMkdir, EndInstall,
       Commit, CommitFails, RollBack
<1>7. NewInv'
    BY <1>0, <1>1 DEF NewInv, StageChanges, StagingFails, EndBackup, EndMkdir, EndInstall,
       Commit, CommitFails, RollBack, Committing
<1>8. (StageChanges \/ StagingFails) =>
          /\ phase = "stage" /\ backups = {} /\ moved = {}
          /\ \A p \in Paths : files[p] = origin[p]
    BY <1>0 DEF StageChanges, StagingFails, EarlyInv, moved, coveredByChangeBackup
<1>9. EndBackup => \A p \in touched : Settled(p)
    BY <1>0 DEF EndBackup, LoopInv
<1>10. GoneInv'
    <2>1. CASE StageChanges
        BY <1>1, <1>2, <1>8, <2>1 DEF GoneInv, StageChanges
    <2>2. CASE EndBackup
        BY <1>0, <1>1, <1>2, <1>9, <2>2 DEF GoneInv, EndBackup, Settled, EarlyInv
    <2>3. CASE EndMkdir \/ EndInstall \/ Commit
        BY <1>0, <1>1, <2>3 DEF GoneInv, EndMkdir, EndInstall, Commit
    <2>4. CASE StagingFails \/ CommitFails
        BY <2>4 DEF GoneInv, StagingFails, CommitFails, RollBack
    <2>. QED
        BY <2>1, <2>2, <2>3, <2>4
<1>11. LoopInv'
    <2>1. CASE StageChanges
        BY <1>1, <1>2, <1>8, <2>1 DEF LoopInv, StageChanges
    <2>2. CASE EndBackup
        BY <1>0, <1>1, <1>2, <1>9, <2>2 DEF LoopInv, EndBackup, Settled, EarlyInv
    <2>3. CASE EndMkdir
        BY <1>0, <1>1, <2>3 DEF LoopInv, EndMkdir, Settled, ModeKept
    <2>4. CASE EndInstall
        BY <1>0, <1>1, <2>4 DEF LoopInv, EndInstall, Settled, ModeKept
    <2>5. CASE Commit
        BY <1>0, <1>1, <1>2, <2>5 DEF LoopInv, Commit, NewInv, Committing
    <2>6. CASE StagingFails \/ CommitFails
        BY <2>6 DEF LoopInv, StagingFails, CommitFails, RollBack
    <2>. QED
        BY <2>1, <2>2, <2>3, <2>4, <2>5, <2>6
<1>12. RestoredUnlessRefused'
    <2>1. CASE StagingFails
        BY <1>1, <1>8, <2>1 DEF RestoredUnlessRefused
    <2>2. CASE ~StagingFails
        BY <2>2 DEF RestoredUnlessRefused, StageChanges, EndBackup, EndMkdir, EndInstall,
           Commit, CommitFails, RollBack
    <2>. QED
        BY <2>1, <2>2
<1>13. UndoInv'
    BY <1>0, <1>1 DEF UndoInv, StageChanges, StagingFails, EndBackup, EndMkdir, EndInstall,
       Commit, CommitFails, RollBack
<1>. QED
    BY <1>3, <1>4, <1>5, <1>6, <1>7, <1>10, <1>11, <1>12, <1>13 DEF TxInv

\* Nothing is moved.
LEMMA StutterStep ==
    ASSUME TxInv, UNCHANGED vars
    PROVE  TxInv'
<1>. USE DEF record
<1>0. /\ TypeOK /\ BackupInv /\ EarlyInv /\ LoopInv /\ KeptInv /\ NewInv /\ GoneInv
      /\ UndoInv /\ RestoredUnlessRefused
      /\ UNCHANGED params /\ UNCHANGED <<files, phase, todo, record>>
    BY DEF TxInv, vars
<1>1. /\ origin' = origin /\ base' = base /\ target' = target
      /\ entries' = entries /\ deleted' = deleted /\ touched' = touched
      /\ DirEntries' = DirEntries /\ FileEntries' = FileEntries /\ moved' = moved
    BY <1>0, SameDifference, SameMoved
<1>2. TypeOK' /\ BackupInv' /\ EarlyInv'
    BY <1>0, <1>1 DEF TypeOK, BackupInv, EarlyInv
<1>3. KeptInv' /\ NewInv' /\ GoneInv'
    BY <1>0, <1>1 DEF KeptInv, NewInv, GoneInv
<1>4. LoopInv'
    BY <1>0, <1>1 DEF LoopInv, Settled, ModeKept
<1>5. RestoredUnlessRefused'
    BY <1>0, <1>1 DEF RestoredUnlessRefused, Refused, coveredByChangeBackup
<1>6. UndoInv'
    BY <1>0, <1>1 DEF UndoInv, Refused, Waiting, Returned, ModesToRestore
<1>. QED
    BY <1>2, <1>3, <1>4, <1>5, <1>6 DEF TxInv
\* A path that is in nobody's way stays.
LEMMA SkipStep ==
    ASSUME TxInv, NEW p \in Paths, SkipPath(p)
    PROVE  TxInv'
<1>. USE DEF record
<1>0. /\ TypeOK /\ BackupInv /\ EarlyInv /\ LoopInv /\ KeptInv /\ NewInv
      /\ phase = "backup" /\ phase' = "backup" /\ todo' = todo \ {p} /\ p \in todo
      /\ UNCHANGED params /\ UNCHANGED <<files, record>>
    BY DEF TxInv, SkipPath, InOrder
<1>1. /\ origin' = origin /\ base' = base /\ target' = target
      /\ entries' = entries /\ deleted' = deleted /\ touched' = touched
      /\ DirEntries' = DirEntries /\ FileEntries' = FileEntries /\ moved' = moved
    BY <1>0, SameDifference, SameMoved
<1>2. Settled(p)
    BY <1>0 DEF SkipPath, KeepInPlace, EarlyInv, Settled, moved
<1>3. TypeOK' /\ BackupInv' /\ EarlyInv'
    BY <1>0, <1>1 DEF TypeOK, BackupInv, EarlyInv
<1>4. KeptInv' /\ NewInv'
    BY <1>0, <1>1 DEF KeptInv, NewInv
<1>5. LoopInv'
    BY <1>0, <1>1, <1>2 DEF LoopInv, Settled
<1>. QED
    BY <1>0, <1>3, <1>4, <1>5 DEF TxInv, GoneInv, UndoInv, RestoredUnlessRefused

\* What is in the way is moved aside with all that is below it, none of which was
\* moved before: a backup below p would have been made after p.
LEMMA BackupStep ==
    ASSUME TxInv, NEW p \in Paths, BackupPath(p)
    PROVE  TxInv'
<1>0. /\ TypeOK /\ BackupInv /\ EarlyInv /\ LoopInv /\ KeptInv /\ NewInv
      /\ phase = "backup" /\ phase' = "backup" /\ todo' = todo \ {p}
      /\ p \in todo /\ \A q \in todo : Depth(p) <= Depth(q)
      /\ UNCHANGED params /\ UNCHANGED <<created, installed, dirModes, refused>>
      /\ backups' = backups \cup {p}
      /\ files' = [q \in Paths |-> IF q \in Subtree(p) THEN Absent ELSE files[q]]
      /\ stored' = [q \in Paths |-> IF q \in Subtree(p) THEN files[q] ELSE stored[q]]
    BY DEF TxInv, BackupPath, InOrder
<1>1. /\ origin' = origin /\ base' = base /\ target' = target
      /\ entries' = entries /\ deleted' = deleted /\ touched' = touched
      /\ DirEntries' = DirEntries /\ FileEntries' = FileEntries
    BY <1>0, SameDifference
<1>2. moved' = moved \cup Subtree(p)
    BY <1>0, SubtreeFacts DEF moved, coveredByChangeBackup
<1>3. /\ p \notin moved /\ p \in touched
      /\ files[p] = origin[p] /\ ~(p \in DirEntries /\ origin[p] \in Modes)
    BY <1>0 DEF BackupPath, KeepInPlace, EarlyInv, LoopInv, moved
<1>4. ASSUME NEW q \in Subtree(p)
      PROVE  q \in Paths /\ q \notin moved
    <2>0. q \in Paths
        BY SubtreeFacts
    <2>. SUFFICES ASSUME NEW b \in backups, q \in Subtree(b)
                  PROVE  FALSE
        BY <2>0 DEF moved, coveredByChangeBackup
    <2>1. b \in Paths /\ Depth(b) <= Depth(p)
        BY <1>0 DEF TypeOK, LoopInv
    <2>2. p \notin Subtree(b)
        BY <1>3 DEF moved, coveredByChangeBackup
    <2>3. p \in Above[b]
        BY <2>1, <2>2, Comparable
    <2>. QED
        BY <2>1, <2>3, DepthGrows
<1>5. /\ files \in [Paths -> Nodes] /\ Absent \in Nodes
      /\ \A q \in Paths : files[q] # Absent => \A r \in Above[q] : r \in Paths /\ files[r] \in Modes
    BY <1>0, TreeFacts DEF TypeOK, Nodes
<1>6. files' \in FileTrees
    <2>1. \A q \in Paths : \A r \in Above[q] : r \in Subtree(p) => q \in Subtree(p)
        BY PathAssumption DEF Subtree
    <2>2. files' \in [Paths -> Nodes]
        BY <1>0, <1>5
    <2>3. ASSUME NEW q \in Paths, files'[q] # Absent, NEW r \in Above[q]
          PROVE  files'[r] \in Modes
        BY <1>0, <1>5, <2>1, <2>3
    <2>. QED
        BY <2>2, <2>3 DEF FileTrees
<1>7. TypeOK'
    <2>1. stored' \in [Paths -> Nodes]
        BY <1>0, <1>5 DEF TypeOK
    <2>. QED
        BY <1>0, <1>1, <1>6, <2>1 DEF TypeOK
<1>8. BackupInv'
    <2>1. backups' \subseteq touched'
        BY <1>0, <1>1, <1>3 DEF BackupInv
    <2>2. \A b \in backups' : ~(b \in DirEntries /\ origin[b] \in Modes)
        BY <1>0, <1>3 DEF BackupInv
    <2>3. \A q \in Paths : q \in moved' => stored'[q] = origin[q] /\ dirModes'[q] = Absent
        BY <1>0, <1>2, <1>4 DEF BackupInv, EarlyInv, Committing
    <2>4. ASSUME NEW b \in backups', NEW c \in backups', b \in Subtree(c)
          PROVE  b = c
        <3>1. backups \subseteq Paths /\ \A d \in backups : d \in Subtree(d) /\ Subtree(d) \subseteq moved
            BY <1>0 DEF TypeOK, moved, coveredByChangeBackup, Subtree
        <3>. QED
            BY <1>0, <1>3, <1>4, <2>4, <3>1 DEF BackupInv
    <2>. QED
        BY <1>1, <2>1, <2>2, <2>3, <2>4 DEF BackupInv
<1>9. EarlyInv'
    BY <1>0, <1>1, <1>2 DEF EarlyInv
<1>10. KeptInv' /\ NewInv'
    <2>1. \A q \in Paths : q \notin moved' => q \notin moved /\ files'[q] = files[q]
        BY <1>0, <1>2
    <2>2. installed' = {}
        BY <1>0 DEF EarlyInv
    <2>. QED
        BY <1>0, <1>1, <2>1, <2>2 DEF KeptInv, NewInv
<1>11. LoopInv'
    <2>1. \A b \in backups', q \in todo' : Depth(b) <= Depth(q)
        BY <1>0 DEF LoopInv
    <2>2. \A q \in touched \ todo' : q \in moved' \/ Settled(q)
        BY <1>0, <1>2, SubtreeFacts DEF LoopInv
    <2>3. \A q \in touched' \ todo' : Settled(q)'
        BY <1>1, <1>2, <2>2 DEF Settled
    <2>. QED
        BY <1>0, <1>1, <2>1, <2>3 DEF LoopInv
<1>. QED
    BY <1>0, <1>7, <1>8, <1>9, <1>10, <1>11 DEF TxInv, GoneInv, UndoInv, RestoredUnlessRefused

\* What MkdirAll may leave at a directory of the difference, whether it succeeds or
\* fails: the directories it makes on the way are not entries, or an earlier step had made
\* them, so the base has them.
LEMMA MkdirRecords ==
    ASSUME TxInv, NEW p \in Paths,
           phase = "mkdir", InOrder(p), ~NotDir(p), RecordDir(p),
           files' \in {files, WithDirs(files, Above[p]), WithDirs(files, Above[p] \cup {p})},
           phase' \in {"mkdir", "remove"}, UNCHANGED <<params, backups, stored, installed>>
    PROVE  /\ files' \in FileTrees /\ created' \subseteq Paths
           /\ dirModes' \in [Paths -> Modes \cup {Absent}]
           /\ BackupInv' /\ EarlyInv' /\ KeptInv' /\ NewInv'
           /\ p \in DirEntries /\ files[p] \in Modes \cup {Absent}
           /\ p \in moved => files[p] = Absent
           /\ ModeKept(p)'
           /\ \A q \in Paths : files'[q] = files[q]
                 \/ (files[q] = Absent /\ files'[q] = DefaultMode /\ q \in Above[p] \cup {p})
           /\ \A q \in Above[p] : q \notin todo
           /\ \A q \in Paths : q # p => dirModes'[q] = dirModes[q]
<1>0. /\ TypeOK /\ BackupInv /\ EarlyInv /\ LoopInv /\ KeptInv /\ NewInv
      /\ p \in todo /\ \A q \in todo : Depth(p) <= Depth(q)
      /\ UNCHANGED params /\ UNCHANGED <<backups, stored, installed>>
    BY DEF TxInv, InOrder
<1>1. /\ origin' = origin /\ base' = base /\ target' = target
      /\ entries' = entries /\ deleted' = deleted /\ touched' = touched
      /\ DirEntries' = DirEntries /\ FileEntries' = FileEntries /\ moved' = moved
    BY <1>0, SameDifference, SameMoved
<1>2. /\ p \in DirEntries /\ p \in touched /\ target[p] \in Modes /\ target[p] # Absent
      /\ entries = DirEntries \cup FileEntries /\ DirEntries \cap FileEntries = {}
      /\ \A q \in FileEntries : q \in Paths /\ target[q] \in Hashes
      /\ \A q \in Paths : q \notin entries => target[q] = Absent \/ base[q] = target[q]
    <2>1. p \in DirEntries
        BY <1>0 DEF LoopInv
    <2>. QED
        BY <1>0, <2>1, EntryFacts DEF touched
<1>3. /\ files \in [Paths -> Nodes] /\ Above[p] \subseteq Paths
      /\ \A q \in Above[p] : q \in Paths /\ target[q] \in Modes
    BY <1>0, <1>2, TreeFacts, PathAssumption DEF TypeOK
<1>4. /\ installed = {} /\ installed' = {}
      /\ p \in moved => files[p] = Absent
      /\ p \notin moved /\ origin[p] # Absent => files[p] = origin[p] /\ files[p] \in Modes
      /\ files[p] \in Modes \cup {Absent}
    <2>1. installed = {} /\ installed' = {}
        BY <1>0 DEF EarlyInv
    <2>2. p \in moved => files[p] = Absent
        BY <1>0 DEF LoopInv
    <2>3. Settled(p)
        BY <1>0, <1>2 DEF LoopInv
    <2>4. p \notin moved /\ origin[p] # Absent => files[p] = origin[p] /\ files[p] \in Modes
        BY <1>0, <2>3 DEF KeptInv, Settled
    <2>5. p \notin moved /\ origin[p] = Absent => files[p] \in Modes \cup {Absent}
        BY <1>0, <2>1 DEF NewInv
    <2>. QED
        BY <2>1, <2>2, <2>4, <2>5
<1>5. \A q \in Paths : files'[q] = files[q]
          \/ (files[q] = Absent /\ files'[q] = DefaultMode /\ q \in Above[p] \cup {p})
    <2>1. Above[p] \in SUBSET Paths /\ Above[p] \cup {p} \in SUBSET Paths
        BY <1>3
    <2>2. CASE files' = files
        BY <2>2
    <2>3. CASE files' = WithDirs(files, Above[p])
        BY <1>3, <2>1, <2>3, DirsFacts
    <2>4. CASE files' = WithDirs(files, Above[p] \cup {p})
        BY <1>3, <2>1, <2>4, DirsFacts
    <2>. QED
        BY <2>2, <2>3, <2>4
<1>6. files' \in FileTrees
    BY <1>0, DirsTree DEF TypeOK
<1>7. \A q \in Above[p] : q \notin todo
    BY <1>0, DepthGrows
<1>8. /\ created' = IF files[p] = Absent THEN created \cup {p} ELSE created
      /\ dirModes' = IF files[p] = Absent THEN dirModes ELSE [dirModes EXCEPT ![p] = files[p]]
      /\ dirModes \in [Paths -> Modes \cup {Absent}] /\ created \subseteq Paths
    BY <1>0 DEF RecordDir, TypeOK
<1>9. created' \subseteq Paths /\ dirModes' \in [Paths -> Modes \cup {Absent}]
    BY <1>4, <1>8
<1>10. /\ \A q \in Paths : q # p => dirModes'[q] = dirModes[q]
       /\ files[p] = Absent => dirModes' = dirModes
       /\ files[p] # Absent => dirModes'[p] = files[p] /\ created' = created
       /\ \A q \in Paths : q # p => (q \in created' <=> q \in created)
    BY <1>8
<1>11. BackupInv'
    <2>1. \A q \in Paths : q \in moved => stored'[q] = origin[q] /\ dirModes'[q] = Absent
        BY <1>0, <1>4, <1>10 DEF BackupInv, Committing
    <2>. QED
        BY <1>0, <1>1, <2>1 DEF BackupInv
<1>12. EarlyInv'
    BY <1>4 DEF EarlyInv
<1>13. KeptInv'
    <2>1. ASSUME NEW q \in Paths, q \notin moved, origin[q] # Absent
          PROVE  /\ files'[q] = origin[q] /\ q \notin created' /\ q \notin installed'
                 /\ dirModes'[q] \in {Absent, origin[q]}
        <3>1. /\ files[q] = origin[q] /\ q \notin created
              /\ dirModes[q] \in {Absent, origin[q]}
            BY <1>0, <2>1 DEF KeptInv
        <3>2. files'[q] = origin[q]
            BY <1>5, <2>1, <3>1
        <3>. QED
            BY <1>4, <1>10, <2>1, <3>1, <3>2
    <2>. QED
        BY <1>1, <2>1 DEF KeptInv
<1>14. NewInv'
    <2>1. ASSUME NEW q \in Paths, q \notin moved, origin[q] = Absent, files'[q] # Absent
          PROVE  files'[q] \in Modes /\ (q \in created' \/ base[q] \in Modes)
        <3>1. CASE files'[q] = files[q]
            BY <1>0, <1>4, <1>8, <2>1, <3>1 DEF NewInv
        <3>2. CASE files[q] = Absent /\ files'[q] = DefaultMode /\ q = p
            BY <1>8, <3>2, NodeAssumption
        <3>3. CASE files[q] = Absent /\ files'[q] = DefaultMode /\ q \in Above[p]
            <4>1. target[q] \in Modes /\ q \notin todo
                BY <1>3, <1>7, <3>3
            <4>2. q \notin DirEntries
                BY <1>0, <4>1, <3>3, NodeAssumption DEF LoopInv
            <4>3. q \notin FileEntries
                BY <1>2, <4>1, NodeAssumption
            <4>. QED
                BY <1>2, <3>3, <4>1, <4>2, <4>3, NodeAssumption
        <3>. QED
            BY <1>5, <3>1, <3>2, <3>3
    <2>. QED
        BY <1>1, <1>4, <2>1 DEF NewInv
<1>15. ModeKept(p)'
    BY <1>1, <1>4, <1>10, NodeAssumption DEF ModeKept
<1>. QED
    BY <1>2, <1>4, <1>5, <1>6, <1>7, <1>9, <1>10, <1>11, <1>12, <1>13, <1>14, <1>15

\* A directory is made, or was there.
LEMMA MakeDirStep ==
    ASSUME TxInv, NEW p \in Paths, MakeDir(p)
    PROVE  TxInv'
<1>0. /\ TypeOK /\ LoopInv /\ GoneInv
      /\ phase = "mkdir" /\ phase' = "mkdir" /\ todo' = todo \ {p}
      /\ InOrder(p) /\ ~NotDir(p) /\ RecordDir(p) /\ p \in todo
      /\ files' = WithDirs(files, Above[p] \cup {p})
      /\ UNCHANGED params /\ UNCHANGED <<backups, stored, installed, refused>>
    BY DEF TxInv, MakeDir, InOrder
<1>1. /\ origin' = origin /\ base' = base /\ target' = target
      /\ entries' = entries /\ deleted' = deleted /\ touched' = touched
      /\ DirEntries' = DirEntries /\ FileEntries' = FileEntries /\ moved' = moved
    BY <1>0, SameDifference, SameMoved
<1>2. /\ files' \in FileTrees /\ created' \subseteq Paths
      /\ dirModes' \in [Paths -> Modes \cup {Absent}]
      /\ BackupInv' /\ EarlyInv' /\ KeptInv' /\ NewInv'
    BY <1>0, MkdirRecords
<1>3. /\ p \in DirEntries /\ files[p] \in Modes \cup {Absent} /\ ModeKept(p)'
      /\ p \in moved => files[p] = Absent
      /\ \A q \in Paths : files'[q] = files[q]
            \/ (files[q] = Absent /\ files'[q] = DefaultMode /\ q \in Above[p] \cup {p})
      /\ \A q \in Above[p] : q \notin todo
      /\ \A q \in Paths : q # p => dirModes'[q] = dirModes[q]
    BY <1>0, MkdirRecords
<1>4. TypeOK'
    BY <1>0, <1>1, <1>2 DEF TypeOK
<1>5. files \in [Paths -> Nodes] /\ Above[p] \cup {p} \in SUBSET Paths /\ DirEntries \subseteq Paths
    BY <1>0, TreeFacts, PathAssumption, EntryFacts DEF TypeOK
<1>6. files'[p] \in Modes
    BY <1>0, <1>3, <1>5, DirsFacts, NodeAssumption
<1>7. LoopInv'
    <2>1. todo \subseteq DirEntries /\ todo' \subseteq DirEntries
        BY <1>0 DEF LoopInv
    <2>2. ASSUME NEW q \in todo', q \in moved
          PROVE  files'[q] = Absent
        BY <1>0, <1>3, <1>5, <2>1, <2>2 DEF LoopInv
    <2>3. ASSUME NEW q \in DirEntries \ todo'
          PROVE  files'[q] \in Modes /\ ModeKept(q)'
        <3>1. CASE q = p
            BY <1>3, <1>6, <3>1
        <3>2. CASE q # p
            <4>1. q \in Paths /\ files[q] \in Modes /\ ModeKept(q)
                BY <1>0, <1>5, <3>2 DEF LoopInv
            <4>2. files'[q] = files[q] /\ dirModes'[q] = dirModes[q]
                BY <1>3, <3>2, <4>1, NodeAssumption
            <4>. QED
                BY <1>1, <4>1, <4>2 DEF ModeKept
        <3>. QED
            BY <3>1, <3>2
    <2>4. \A q \in touched' : Settled(q)'
        BY <1>0, <1>1 DEF LoopInv, Settled
    <2>. QED
        BY <1>0, <1>1, <2>1, <2>2, <2>3, <2>4 DEF LoopInv
<1>8. GoneInv'
    <2>1. \A q \in Above[p] \cup {p} : target[q] # Absent
        BY <1>0, <1>3, EntryFacts, TreeFacts, NodeAssumption DEF TypeOK
    <2>. QED
        BY <1>0, <1>1, <1>3, <2>1 DEF GoneInv
<1>. QED
    BY <1>0, <1>2, <1>4, <1>7, <1>8 DEF TxInv, UndoInv, RestoredUnlessRefused

\* A directory cannot be made.
LEMMA MakeDirFailsStep ==
    ASSUME TxInv, NEW p \in Paths, MakeDirFails(p)
    PROVE  TxInv'
<1>0. /\ TypeOK /\ phase = "mkdir" /\ phase' = "remove" /\ todo' = installed
      /\ InOrder(p) /\ ~NotDir(p) /\ RecordDir(p)
      /\ files' \in {files, WithDirs(files, Above[p])}
      /\ UNCHANGED params /\ UNCHANGED <<backups, stored, installed, refused>>
    BY DEF TxInv, MakeDirFails, RollBack
<1>1. origin' = origin /\ base' = base /\ target' = target
    BY <1>0, SameDifference
<1>2. /\ files' \in FileTrees /\ created' \subseteq Paths
      /\ dirModes' \in [Paths -> Modes \cup {Absent}]
      /\ BackupInv' /\ EarlyInv' /\ KeptInv' /\ NewInv'
    BY <1>0, MkdirRecords
<1>3. TypeOK'
    BY <1>0, <1>1, <1>2 DEF TypeOK
<1>. QED
    BY <1>0, <1>2, <1>3 DEF TxInv, LoopInv, GoneInv, UndoInv, RestoredUnlessRefused
\* What the installation of a file may leave, whether it succeeds or fails: a file of the
\* difference is where nothing is, and the directories made on the way are recorded.
LEMMA InstallRecords ==
    ASSUME TxInv, NEW p \in Paths,
           phase = "install", p \in todo, RecordParents(p),
           \/ files' = files /\ installed' = installed
           \/ ~NotDir(p) /\ files' = WithDirs(files, Above[p]) /\ installed' = installed
           \/ /\ ~NotDir(p) /\ files' = [WithDirs(files, Above[p]) EXCEPT ![p] = target[p]]
              /\ files[p] \notin Modes /\ installed' = installed \cup {p},
           phase' \in {"install", "remove"}, UNCHANGED <<params, backups, stored, dirModes>>
    PROVE  /\ files' \in FileTrees /\ created' \subseteq Paths /\ installed' \subseteq Paths
           /\ BackupInv' /\ EarlyInv' /\ KeptInv' /\ NewInv'
           /\ p \in FileEntries
           /\ \A q \in Paths : q # p =>
                 \/ files'[q] = files[q]
                 \/ files[q] = Absent /\ files'[q] = DefaultMode /\ q \in Above[p]
           /\ files'[p] \in {files[p], target[p]}
<1>0. /\ TypeOK /\ BackupInv /\ EarlyInv /\ LoopInv /\ KeptInv /\ NewInv
      /\ UNCHANGED params /\ UNCHANGED <<backups, stored, dirModes>>
    BY DEF TxInv
<1>1. /\ origin' = origin /\ base' = base /\ target' = target
      /\ entries' = entries /\ deleted' = deleted /\ touched' = touched
      /\ DirEntries' = DirEntries /\ FileEntries' = FileEntries /\ moved' = moved
    BY <1>0, SameDifference, SameMoved
<1>2. /\ p \in FileEntries /\ p \in touched /\ target[p] \in Hashes /\ target[p] # Absent
      /\ DirEntries \cap FileEntries = {}
      /\ \A q \in FileEntries : q \in Paths /\ target[q] \in Hashes /\ target[q] # Absent
    <2>1. p \in FileEntries
        BY <1>0 DEF LoopInv
    <2>. QED
        BY <1>0, <2>1, EntryFacts DEF touched
<1>3. p \in moved \/ origin[p] = Absent
    BY <1>0, <1>2 DEF LoopInv, Settled
<1>4. /\ files \in [Paths -> Nodes] /\ Above[p] \in SUBSET Paths /\ p \notin Above[p]
      /\ \A q \in Paths : \A r \in Above[q] : files[r] \notin Modes => files[q] = Absent
    BY <1>0, TreeFacts, PathAssumption DEF TypeOK
<1>. DEFINE W == WithDirs(files, Above[p])
<1>5. /\ W \in [Paths -> Nodes]
      /\ \A q \in Paths : W[q] = IF q \in Above[p] /\ files[q] = Absent THEN DefaultMode ELSE files[q]
    BY <1>4, DirsFacts
<1>6. ~NotDir(p) => W \in FileTrees
    BY <1>0, DirsTree
<1>. HIDE DEF W
<1>7. \/ files' = files /\ installed' = installed
      \/ ~NotDir(p) /\ files' = W /\ installed' = installed
      \/ /\ ~NotDir(p) /\ files' = [W EXCEPT ![p] = target[p]]
         /\ files[p] \notin Modes /\ installed' = installed \cup {p}
    BY DEF W
<1>8. \A q \in Paths : q # p =>
          \/ files'[q] = files[q]
          \/ files[q] = Absent /\ files'[q] = DefaultMode /\ q \in Above[p]
    BY <1>4, <1>5, <1>7
<1>9. /\ files'[p] \in {files[p], target[p]}
      /\ installed' # installed => files'[p] = target[p]
      /\ files'[p] # files[p] => p \in installed'
      /\ installed' \subseteq installed \cup {p} /\ installed \subseteq installed'
    BY <1>4, <1>5, <1>7
<1>10. files' \in FileTrees
    <2>1. CASE files' = files \/ (~NotDir(p) /\ files' = W)
        BY <1>0, <1>6, <2>1 DEF TypeOK
    <2>2. CASE /\ ~NotDir(p) /\ files' = [W EXCEPT ![p] = target[p]]
               /\ files[p] \notin Modes
        <3>1. W \in FileTrees /\ target[p] \in Nodes
            BY <1>2, <1>6, <2>2 DEF Nodes
        <3>2. files' \in [Paths -> Nodes]
            BY <1>5, <2>2, <3>1
        <3>3. \A q \in Paths : p \in Above[q] => W[q] = Absent
            <4>1. \A q \in Paths : p \in Above[q] => q \notin Above[p]
                BY PathAssumption
            <4>. QED
                BY <1>4, <1>5, <2>2, <4>1
        <3>4. ASSUME NEW q \in Paths, files'[q] # Absent, NEW r \in Above[q]
              PROVE  files'[r] \in Modes
            <4>0. r \in Paths
                BY PathAssumption
            <4>1. CASE q = p
                <5>1. r # p /\ W[r] \in Modes
                    BY <1>0, <1>4, <2>2, <4>1, DirsTree DEF W
                <5>. QED
                    BY <1>5, <2>2, <4>0, <5>1
            <4>2. CASE q # p
                <5>1. W[q] # Absent
                    BY <1>5, <2>2, <3>4, <4>2
                <5>2. r # p /\ W[r] \in Modes
                    BY <3>1, <3>3, <5>1, TreeFacts
                <5>. QED
                    BY <1>5, <2>2, <4>0, <5>2
            <4>. QED
                BY <4>1, <4>2
        <3>. QED
            BY <3>2, <3>4 DEF FileTrees
    <2>. QED
        BY <1>7, <2>1, <2>2
<1>11. /\ created' \subseteq Paths /\ created \subseteq created'
       /\ \A q \in Paths : q \in created' => q \in created \/ files[q] = Absent
       /\ \A q \in Above[p] : files[q] = Absent => q \in created'
       /\ installed' \subseteq Paths
    BY <1>0, <1>4, <1>9 DEF RecordParents, TypeOK
<1>12. BackupInv'
    BY <1>0, <1>1 DEF BackupInv, Committing
<1>13. EarlyInv'
    BY DEF EarlyInv
<1>14. KeptInv'
    <2>1. ASSUME NEW q \in Paths, q \notin moved, origin[q] # Absent
          PROVE  /\ files'[q] = origin[q] /\ q \notin created' /\ q \notin installed'
                 /\ dirModes'[q] \in {Absent, origin[q]}
        <3>1. /\ files[q] = origin[q] /\ q \notin created /\ q \notin installed
              /\ dirModes[q] \in {Absent, origin[q]} /\ q # p
            BY <1>0, <1>3, <2>1 DEF KeptInv
        <3>2. files'[q] = origin[q]
            BY <1>8, <2>1, <3>1
        <3>. QED
            BY <1>0, <1>9, <1>11, <2>1, <3>1, <3>2
    <2>. QED
        BY <1>1, <2>1 DEF KeptInv
<1>15. NewInv'
    <2>1. ASSUME NEW q \in Paths, q \notin moved, origin[q] = Absent, files'[q] # Absent,
                 q \notin installed'
          PROVE  files'[q] \in Modes /\ (q \in created' \/ base[q] \in Modes)
        <3>1. CASE files'[q] = files[q]
            BY <1>0, <1>9, <1>11, <2>1, <3>1 DEF NewInv
        <3>2. CASE files'[q] # files[q]
            BY <1>8, <1>9, <1>11, <2>1, <3>2, NodeAssumption
        <3>. QED
            BY <3>1, <3>2
    <2>2. installed' \subseteq FileEntries
        BY <1>0, <1>2, <1>9 DEF NewInv
    <2>3. ASSUME NEW q \in installed'
          PROVE  files'[q] = target[q]
        <3>1. CASE q \in installed
            <4>1. q \in Paths /\ files[q] = target[q] /\ files[q] # Absent
                BY <1>0, <1>2, <3>1 DEF NewInv, Committing
            <4>. QED
                BY <1>8, <1>9, <4>1
        <3>2. CASE q \notin installed
            BY <1>9, <3>2
        <3>. QED
            BY <3>1, <3>2
    <2>. QED
        BY <1>1, <2>1, <2>2, <2>3 DEF NewInv
<1>. QED
    BY <1>2, <1>8, <1>9, <1>10, <1>11, <1>12, <1>13, <1>14, <1>15

\* A file is installed.
LEMMA InstallStep ==
    ASSUME TxInv, NEW p \in Paths, InstallFile(p)
    PROVE  TxInv'
<1>0. /\ TypeOK /\ LoopInv /\ GoneInv
      /\ phase = "install" /\ phase' = "install" /\ todo' = todo \ {p}
      /\ RecordParents(p) /\ p \in todo /\ ~NotDir(p) /\ files[p] \notin Modes
      /\ files' = [WithDirs(files, Above[p]) EXCEPT ![p] = target[p]]
      /\ installed' = installed \cup {p}
      /\ UNCHANGED params /\ UNCHANGED <<backups, stored, dirModes, refused>>
    BY DEF TxInv, InstallFile
<1>1. /\ origin' = origin /\ base' = base /\ target' = target
      /\ entries' = entries /\ deleted' = deleted /\ touched' = touched
      /\ DirEntries' = DirEntries /\ FileEntries' = FileEntries /\ moved' = moved
    BY <1>0, SameDifference, SameMoved
<1>2. /\ files' \in FileTrees /\ created' \subseteq Paths /\ installed' \subseteq Paths
      /\ BackupInv' /\ EarlyInv' /\ KeptInv' /\ NewInv'
    BY <1>0, InstallRecords
<1>3. /\ p \in FileEntries
      /\ \A q \in Paths : q # p =>
            \/ files'[q] = files[q]
            \/ files[q] = Absent /\ files'[q] = DefaultMode /\ q \in Above[p]
    BY <1>0, InstallRecords
<1>4. TypeOK'
    BY <1>0, <1>1, <1>2 DEF TypeOK
<1>5. LoopInv'
    <2>1. ASSUME NEW q \in DirEntries
          PROVE  files'[q] \in Modes /\ ModeKept(q)'
        <3>1. q \in Paths /\ q # p /\ files[q] \in Modes /\ ModeKept(q)
            BY <1>0, EntryFacts DEF LoopInv
        <3>2. files'[q] = files[q]
            BY <1>3, <3>1, NodeAssumption
        <3>. QED
            BY <1>0, <1>1, <3>1, <3>2 DEF ModeKept
    <2>2. \A q \in touched' : Settled(q)'
        BY <1>0, <1>1 DEF LoopInv, Settled
    <2>3. todo' \subseteq FileEntries /\ FileEntries \ todo' \subseteq installed'
        BY <1>0 DEF LoopInv
    <2>. QED
        BY <1>0, <1>1, <2>1, <2>2, <2>3 DEF LoopInv
<1>6. GoneInv'
    <2>1. \A q \in Above[p] \cup {p} : target[q] # Absent
        BY <1>0, <1>3, EntryFacts, TreeFacts, NodeAssumption DEF TypeOK
    <2>. QED
        BY <1>0, <1>1, <1>3, <2>1 DEF GoneInv
<1>. QED
    BY <1>0, <1>2, <1>4, <1>5, <1>6 DEF TxInv, UndoInv, RestoredUnlessRefused

\* A file cannot be installed.
LEMMA InstallFailsStep ==
    ASSUME TxInv, NEW p \in Paths, InstallFails(p)
    PROVE  TxInv'
<1>0. /\ TypeOK /\ phase = "install" /\ phase' = "remove" /\ p \in todo
      /\ todo' = installed
      /\ RecordParents(p) /\ installed' = installed
      /\ files' = files \/ (~NotDir(p) /\ files' = WithDirs(files, Above[p]))
      /\ UNCHANGED params /\ UNCHANGED <<backups, stored, dirModes, refused>>
    BY DEF TxInv, InstallFails, RollBack
<1>1. origin' = origin /\ base' = base /\ target' = target
    BY <1>0, SameDifference
<1>2. /\ files' \in FileTrees /\ created' \subseteq Paths /\ installed' \subseteq Paths
      /\ BackupInv' /\ EarlyInv' /\ KeptInv' /\ NewInv'
    BY <1>0, InstallRecords
<1>3. TypeOK'
    BY <1>0, <1>1, <1>2 DEF TypeOK
<1>. QED
    BY <1>0, <1>2, <1>3 DEF TxInv, LoopInv, GoneInv, UndoInv, RestoredUnlessRefused

\* The mode of a directory is set: the mode it had is recorded.
LEMMA ChmodStep ==
    ASSUME TxInv, NEW p \in Paths, ChmodDir(p)
    PROVE  TxInv'
<1>. USE DEF record
<1>0. /\ TypeOK /\ BackupInv /\ LoopInv /\ KeptInv /\ NewInv /\ GoneInv
      /\ phase = "chmod" /\ phase' = "chmod" /\ p \in todo /\ todo' = todo \ {p}
      /\ files' = [files EXCEPT ![p] = target[p]]
      /\ UNCHANGED params /\ UNCHANGED record
    BY DEF TxInv, ChmodDir
<1>1. /\ origin' = origin /\ base' = base /\ target' = target
      /\ entries' = entries /\ deleted' = deleted /\ touched' = touched
      /\ DirEntries' = DirEntries /\ FileEntries' = FileEntries /\ moved' = moved
    BY <1>0, SameDifference, SameMoved
<1>2. p \in DirEntries /\ files[p] \in Modes /\ ModeKept(p)
    BY <1>0 DEF LoopInv
<1>3. /\ target[p] \in Modes /\ target[p] # Absent /\ DirEntries \cap FileEntries = {}
      /\ DirEntries \subseteq Paths /\ FileEntries \subseteq Paths
    BY <1>0, <1>2, EntryFacts
<1>4. /\ files \in [Paths -> Nodes]
      /\ \A q \in Paths : files[q] # Absent => \A r \in Above[q] : r \in Paths /\ files[r] \in Modes
    BY <1>0, TreeFacts DEF TypeOK
<1>5. /\ files'[p] = target[p] /\ files'[p] \in Modes
      /\ \A q \in Paths : q # p => files'[q] = files[q]
      /\ \A q \in Paths : files[q] \in Modes => files'[q] \in Modes
      /\ \A q \in Paths : files'[q] # Absent => files[q] # Absent
    BY <1>0, <1>2, <1>3, <1>4, NodeAssumption
<1>6. files' \in FileTrees
    <2>1. files' \in [Paths -> Nodes]
        BY <1>0, <1>3, <1>4 DEF Nodes
    <2>. QED
        BY <1>4, <1>5, <2>1 DEF FileTrees
<1>7. TypeOK'
    BY <1>0, <1>1, <1>6 DEF TypeOK
<1>8. BackupInv' /\ EarlyInv'
    BY <1>0, <1>1 DEF BackupInv, EarlyInv
<1>9. KeptInv'
    BY <1>0, <1>1, <1>2, <1>5 DEF KeptInv, ModeKept
<1>10. NewInv'
    <2>1. p \notin installed
        BY <1>0, <1>2, <1>3 DEF NewInv
    <2>2. \A q \in installed : files'[q] = target[q]
        BY <1>0, <1>3, <1>5, <2>1 DEF NewInv, Committing
    <2>3. ASSUME NEW q \in Paths, q \notin moved, origin[q] = Absent
          PROVE  \/ files'[q] = Absent
                 \/ q \in installed
                 \/ files'[q] \in Modes /\ (q \in created \/ base[q] \in Modes)
        BY <1>0, <1>2, <1>5, <2>1, <2>3, NodeAssumption DEF NewInv
    <2>. QED
        BY <1>0, <1>1, <2>2, <2>3 DEF NewInv
<1>11. GoneInv'
    BY <1>0, <1>1, <1>3, <1>5 DEF GoneInv
<1>12. LoopInv'
    <2>1. \A q \in DirEntries : files'[q] \in Modes /\ ModeKept(q)'
        BY <1>0, <1>1, <1>3, <1>5 DEF LoopInv, ModeKept
    <2>2. \A q \in DirEntries \ todo' : files'[q] = target[q]
        BY <1>0, <1>3, <1>5 DEF LoopInv
    <2>3. \A q \in touched' : Settled(q)'
        BY <1>0, <1>1 DEF LoopInv, Settled
    <2>4. todo' \subseteq DirEntries /\ FileEntries \subseteq installed
        BY <1>0 DEF LoopInv
    <2>. QED
        BY <1>0, <1>1, <2>1, <2>2, <2>3, <2>4 DEF LoopInv
<1>. QED
    BY <1>0, <1>7, <1>8, <1>9, <1>10, <1>11, <1>12 DEF TxInv, UndoInv, RestoredUnlessRefused

-----------------------------------------------------------------------------
(* The steps of the rollback *)

UndoPhases == {"remove", "return", "modes", "unmake"}

\* What no step of the rollback touches.
LEMMA UndoFrame ==
    ASSUME TxInv, phase \in UndoPhases, phase' \in UndoPhases \cup {"failed"},
           UNCHANGED <<params, backups, created, installed, dirModes>>,
           phase' = "remove" => phase = "remove" /\ stored' = stored
    PROVE  /\ origin' = origin /\ base' = base /\ target' = target /\ moved' = moved
           /\ DirEntries' = DirEntries /\ FileEntries' = FileEntries
           /\ BackupInv' /\ EarlyInv' /\ LoopInv' /\ GoneInv'
<1>1. /\ TypeOK /\ BackupInv /\ UNCHANGED params /\ backups' = backups
    BY DEF TxInv
<1>2. /\ origin' = origin /\ base' = base /\ target' = target /\ touched' = touched
      /\ DirEntries' = DirEntries /\ FileEntries' = FileEntries /\ moved' = moved
    BY <1>1, SameDifference, SameMoved
<1>3. BackupInv'
    BY <1>1, <1>2 DEF BackupInv, Committing, UndoPhases
<1>. QED
    BY <1>2, <1>3 DEF EarlyInv, LoopInv, GoneInv, UndoPhases

\* The loops of the rollback follow each other, and the temporary directory goes.
LEMMA UndoPhaseStep ==
    ASSUME TxInv, EndRemove \/ EndReturn \/ EndModes \/ DiscardBackups
    PROVE  TxInv'
<1>. USE DEF record
<1>0. /\ TypeOK /\ BackupInv /\ KeptInv /\ NewInv /\ UndoInv
      /\ phase \in UndoPhases /\ phase' \in UndoPhases \cup {"failed"} /\ phase' # "remove"
      /\ UNCHANGED <<files, params, backups, created, installed, dirModes, refused>>
      /\ todo = {}
    BY DEF TxInv, EndRemove, EndReturn, EndModes, DiscardBackups, UndoPhases
<1>1. /\ origin' = origin /\ base' = base /\ target' = target /\ moved' = moved
      /\ BackupInv' /\ EarlyInv' /\ LoopInv' /\ GoneInv' /\ DirEntries' = DirEntries
      /\ FileEntries' = FileEntries
    BY <1>0, UndoFrame
<1>2. TypeOK'
    BY <1>0, <1>1 DEF TypeOK, EndRemove, EndReturn, EndModes, DiscardBackups, ModesToRestore,
       NoFiles, Nodes
<1>3. KeptInv'
    BY <1>0, <1>1 DEF KeptInv, UndoPhases
<1>4. NewInv'
    BY <1>0, <1>1 DEF NewInv, UndoPhases, Committing
<1>5. UndoInv' /\ RestoredUnlessRefused'
    <2>1. CASE EndRemove
        <3>1. \A p \in moved : p \in Paths /\ Waiting(p)' /\ stored'[p] = origin[p]
            BY <1>0, <2>1 DEF EndRemove, Waiting, moved, coveredByChangeBackup, BackupInv
        <3>. QED
            BY <1>0, <1>1, <2>1, <3>1
               DEF EndRemove, UndoInv, Refused, RestoredUnlessRefused
    <2>2. CASE EndReturn
        <3>1. \A p \in Paths \ moved : origin[p] # Absent =>
                  files[p] = origin[p] \/ p \in ModesToRestore
            BY <1>0, <2>2 DEF EndReturn, KeptInv, ModesToRestore
        <3>. QED
            BY <1>0, <1>1, <2>2, <3>1
               DEF EndReturn, UndoInv, Refused, Returned, Waiting, ModesToRestore,
                   RestoredUnlessRefused
    <2>3. CASE EndModes
        BY <1>0, <1>1, <2>3
           DEF EndModes, UndoInv, Refused, Returned, RestoredUnlessRefused
    <2>4. CASE DiscardBackups
        <3>. SUFFICES ASSUME NEW p \in Paths
                      PROVE  \/ files[p] = origin[p]
                             \/ Refused(p)
                             \/ p \in created /\ coveredByChangeBackup(p)
                             \/ origin[p] = Absent /\ {base[p], files[p]} \subseteq Modes
            BY <1>0, <1>1, <2>4
               DEF DiscardBackups, UndoInv, RestoredUnlessRefused, Refused, coveredByChangeBackup
        <3>0. phase = "unmake"
            BY <2>4 DEF DiscardBackups
        <3>1. CASE p \in moved
            BY <1>0, <3>0, <3>1 DEF UndoInv, Returned, moved
        <3>2. CASE p \notin moved /\ origin[p] # Absent
            BY <1>0, <3>0, <3>2 DEF UndoInv
        <3>3. CASE p \notin moved /\ origin[p] = Absent
            BY <1>0, <3>0, <3>3 DEF UndoInv, NewInv
        <3>. QED
            BY <3>1, <3>2, <3>3
    <2>. QED
        BY <2>1, <2>2, <2>3, <2>4
<1>. QED
    BY <1>1, <1>2, <1>3, <1>4, <1>5 DEF TxInv

\* A file that was installed goes, or cannot be removed.
LEMMA RemoveInstalledStep ==
    ASSUME TxInv, NEW p \in Paths, RemoveInstalled(p)
    PROVE  TxInv'
<1>0. /\ TypeOK /\ KeptInv /\ NewInv /\ UndoInv
      /\ phase = "remove" /\ phase' = "remove" /\ p \in todo /\ todo' = todo \ {p}
      /\ UNCHANGED <<params, backups, created, installed, dirModes>> /\ stored' = stored
      /\ \/ files' = [files EXCEPT ![p] = Absent] /\ refused' = refused
         \/ refused' = refused \cup {p} /\ files' = files
    BY DEF TxInv, RemoveInstalled, Undone, Refuse
<1>1. /\ origin' = origin /\ base' = base /\ target' = target /\ moved' = moved
      /\ BackupInv' /\ EarlyInv' /\ LoopInv' /\ GoneInv' /\ DirEntries' = DirEntries
      /\ FileEntries' = FileEntries
    BY <1>0, UndoFrame DEF UndoPhases
<1>2. /\ p \in installed /\ files[p] \in Hashes /\ files[p] \notin Modes
      /\ \A q \in todo : q \in installed
    BY <1>0, EntryFacts, NodeAssumption DEF NewInv, UndoInv
<1>3. /\ files \in [Paths -> Nodes] /\ Absent \in Nodes
      /\ \A q \in Paths : files[q] # Absent => \A r \in Above[q] : r \in Paths /\ files[r] \in Modes
    BY <1>0, TreeFacts DEF TypeOK, Nodes
<1>4. /\ files' \in FileTrees
      /\ \A q \in Paths : q # p => files'[q] = files[q]
      /\ files'[p] = Absent \/ (files'[p] = files[p] /\ p \in refused')
    BY <1>0, <1>2, <1>3 DEF FileTrees
<1>5. TypeOK'
    BY <1>0, <1>1, <1>4 DEF TypeOK
<1>6. KeptInv'
    BY <1>0, <1>1, <1>2, <1>4 DEF KeptInv
<1>7. NewInv'
    BY <1>0, <1>1, <1>2, <1>4 DEF NewInv, Committing, TypeOK
<1>8. UndoInv'
    <2>1. /\ p \in refused' => Refused(p)'
          /\ \A q \in Paths : Refused(q) => Refused(q)'
        BY <1>0, SubtreeFacts DEF Refused
    <2>2. ASSUME NEW q \in installed \ moved
          PROVE  q \in todo' \/ files'[q] = Absent \/ Refused(q)'
        <3>1. q \in Paths
            BY <1>0 DEF TypeOK
        <3>. QED
            BY <1>0, <1>4, <2>1, <2>2, <3>1 DEF UndoInv
    <2>. QED
        BY <1>0, <1>1, <2>2 DEF UndoInv
<1>. QED
    BY <1>0, <1>1, <1>5, <1>6, <1>7, <1>8 DEF TxInv, RestoredUnlessRefused

\* What no step on the backup of p touches: the other backups and all that was not moved.
LEMMA ReturnFrame ==
    ASSUME TxInv, NEW p \in Paths, phase = "return", phase' = "return", p \in todo,
           todo' = todo \ {p}, UNCHANGED <<params, backups, created, installed, dirModes>>,
           refused \subseteq refused', refused' \subseteq refused \cup {p}, files' \in FileTrees,
           stored' \in [Paths -> Nodes],
           \A q \in Paths : q \notin Subtree(p) => files'[q] = files[q] /\ stored'[q] = stored[q],
           \A q \in Subtree(p) :
              files'[q] = stored[q] \/ (p \in refused' /\ stored'[q] = stored[q])
    PROVE  TxInv'
<1>0. TypeOK /\ BackupInv /\ KeptInv /\ NewInv /\ UndoInv
    BY DEF TxInv
<1>1. /\ origin' = origin /\ base' = base /\ target' = target /\ moved' = moved
      /\ BackupInv' /\ EarlyInv' /\ LoopInv' /\ GoneInv' /\ DirEntries' = DirEntries
      /\ FileEntries' = FileEntries
    BY UndoFrame DEF UndoPhases
<1>2. /\ todo \subseteq backups /\ p \in backups /\ backups \subseteq Paths
      /\ Subtree(p) \subseteq moved
    BY <1>0 DEF UndoInv, TypeOK, moved, coveredByChangeBackup, Subtree
<1>3. ASSUME NEW q \in Subtree(p), NEW b \in backups, q \in Subtree(b)
      PROVE  b = p
    <2>1. p \in Subtree(b) \/ p \in Above[b]
        BY <1>2, <1>3, Comparable
    <2>2. p \in Subtree(b) \/ b \in Subtree(p)
        BY <1>2, <2>1, SubtreeFacts
    <2>. QED
        BY <1>0, <1>2, <2>2 DEF BackupInv
<1>4. TypeOK'
    BY <1>0, <1>1 DEF TypeOK
<1>5. KeptInv'
    BY <1>0, <1>1, <1>2 DEF KeptInv
<1>6. NewInv'
    BY <1>0, <1>1, <1>2 DEF NewInv, Committing
<1>7. \A q \in Paths : Refused(q) => Refused(q)'
    BY DEF Refused
<1>8. ASSUME NEW q \in moved
      PROVE  IF Waiting(q)' THEN stored'[q] = origin[q] ELSE Returned(q)'
    <2>0. q \in Paths
        BY DEF moved
    <2>1. CASE q \in Subtree(p)
        <3>1. Waiting(q) /\ ~Waiting(q)'
            BY <1>2, <1>3, <2>1 DEF Waiting
        <3>2. stored[q] = origin[q]
            BY <1>0, <3>1 DEF UndoInv
        <3>3. p \in refused' => Refused(q)'
            BY <2>1 DEF Refused
        <3>. QED
            BY <1>1, <2>1, <3>1, <3>2, <3>3 DEF Returned
    <2>2. CASE q \notin Subtree(p)
        <3>1. Waiting(q)' <=> Waiting(q)
            BY <2>2 DEF Waiting
        <3>. QED
            BY <1>0, <1>1, <1>7, <2>0, <2>2, <3>1 DEF UndoInv, Returned
    <2>. QED
        BY <2>1, <2>2
<1>9. ASSUME NEW q \in installed \ moved
      PROVE  files'[q] = Absent \/ Refused(q)'
    <2>1. q \in Paths
        BY <1>0 DEF TypeOK
    <2>. QED
        BY <1>0, <1>2, <1>7, <2>1 DEF UndoInv
<1>10. UndoInv'
    BY <1>1, <1>2, <1>8, <1>9 DEF UndoInv
<1>. QED
    BY <1>1, <1>4, <1>5, <1>6, <1>10 DEF TxInv, RestoredUnlessRefused

\* A backup is moved back: the directories on the way to it are still there.
LEMMA ReturnBackupStep ==
    ASSUME TxInv, NEW p \in Paths, ReturnBackup(p)
    PROVE  TxInv'
<1>0. /\ TypeOK /\ BackupInv /\ KeptInv /\ UndoInv
      /\ phase = "return" /\ phase' = "return" /\ p \in todo /\ todo' = todo \ {p}
      /\ UNCHANGED <<params, backups, created, installed, dirModes>>
      /\ files' = [q \in Paths |-> IF q \in Subtree(p) THEN stored[q] ELSE files[q]]
      /\ stored' = [q \in Paths |-> IF q \in Subtree(p) THEN Absent ELSE stored[q]]
      /\ refused' = refused \/ refused' = refused \cup {p}
    BY DEF TxInv, ReturnBackup, Undone, Refuse
<1>1. /\ p \in backups /\ backups \subseteq Paths /\ Subtree(p) \subseteq moved
      /\ \A q \in Subtree(p) : q \in Paths /\ stored[q] = origin[q]
    BY <1>0 DEF UndoInv, TypeOK, moved, coveredByChangeBackup, Subtree, Waiting
<1>2. /\ files \in [Paths -> Nodes] /\ stored \in [Paths -> Nodes] /\ Absent \in Nodes
      /\ \A q \in Paths : files[q] # Absent => \A r \in Above[q] : r \in Paths /\ files[r] \in Modes
      /\ \A q \in Paths : origin[q] # Absent =>
            \A r \in Above[q] : r \in Paths /\ origin[r] \in Modes /\ origin[r] # Absent
    BY <1>0, TreeFacts, NodeAssumption DEF TypeOK, Nodes
<1>3. ASSUME NEW q \in Paths, files'[q] # Absent, NEW r \in Above[q]
      PROVE  files'[r] \in Modes
    <2>0. r \in Paths
        BY PathAssumption
    <2>1. CASE q \in Subtree(p) /\ r \in Subtree(p)
        BY <1>0, <1>1, <1>2, <1>3, <2>0, <2>1
    <2>2. CASE q \in Subtree(p) /\ r \notin Subtree(p)
        <3>1. origin[r] \in Modes /\ origin[r] # Absent
            BY <1>0, <1>1, <1>2, <1>3, <2>2
        <3>2. q \in Subtree(r)
            BY <2>0, SubtreeFacts
        <3>3. r \in Above[p]
            BY <2>0, <2>2, <3>2, Comparable
        <3>4. r \notin moved
            <4>. SUFFICES ASSUME NEW b \in backups, r \in Subtree(b)
                          PROVE  FALSE
                BY <2>0 DEF moved, coveredByChangeBackup
            <4>1. p \in Subtree(r) /\ b \in Paths
                BY <1>1, <2>0, <3>3, SubtreeFacts
            <4>2. p \in Subtree(b)
                BY <4>1, SubtreeFacts
            <4>3. p = b
                BY <1>0, <1>1, <4>2 DEF BackupInv
            <4>. QED
                BY <2>2, <4>3
        <3>5. files[r] \in Modes
            BY <1>0, <2>0, <3>1, <3>4 DEF KeptInv
        <3>. QED
            BY <1>0, <2>0, <2>2, <3>5
    <2>3. CASE q \notin Subtree(p)
        <3>1. r \notin Subtree(p)
            BY <2>3, PathAssumption DEF Subtree
        <3>. QED
            BY <1>0, <1>2, <1>3, <2>0, <2>3, <3>1
    <2>. QED
        BY <2>1, <2>2, <2>3
<1>4. files' \in FileTrees
    BY <1>0, <1>2, <1>3 DEF FileTrees
<1>5. stored' \in [Paths -> Nodes]
    BY <1>0, <1>2
<1>6. /\ \A q \in Paths : q \notin Subtree(p) => files'[q] = files[q] /\ stored'[q] = stored[q]
      /\ \A q \in Subtree(p) : files'[q] = stored[q]
    BY <1>0, <1>1
<1>. QED
    BY <1>0, <1>4, <1>5, <1>6, ReturnFrame

\* A backup cannot be moved back.
LEMMA ReturnFailsStep ==
    ASSUME TxInv, NEW p \in Paths, ReturnFails(p)
    PROVE  TxInv'
<1>0. /\ TypeOK /\ phase = "return" /\ phase' = "return" /\ p \in todo /\ todo' = todo \ {p}
      /\ UNCHANGED <<params, backups, created, installed, dirModes>>
      /\ files' \in FileTrees /\ stored' = stored /\ refused' = refused \cup {p}
      /\ \A q \in Paths : q \notin Subtree(p) => files'[q] = files[q]
    BY DEF TxInv, ReturnFails, Undone, Refuse
<1>1. stored' \in [Paths -> Nodes] /\ p \in refused'
    BY <1>0 DEF TypeOK
<1>2. /\ \A q \in Paths : q \notin Subtree(p) => files'[q] = files[q] /\ stored'[q] = stored[q]
      /\ \A q \in Subtree(p) : p \in refused' /\ stored'[q] = stored[q]
    BY <1>0, <1>1
<1>. QED
    BY <1>0, <1>1, <1>2, ReturnFrame

\* The mode that a directory had is restored, or cannot be.
LEMMA RestoreModeStep ==
    ASSUME TxInv, NEW p \in Paths, RestoreMode(p)
    PROVE  TxInv'
<1>0. /\ TypeOK /\ BackupInv /\ KeptInv /\ NewInv /\ UndoInv
      /\ phase = "modes" /\ phase' = "modes" /\ p \in todo /\ todo' = todo \ {p}
      /\ UNCHANGED <<params, backups, created, installed, dirModes>> /\ stored' = stored
      /\ \/ files[p] \in Modes /\ files' = [files EXCEPT ![p] = dirModes[p]] /\ refused' = refused
         \/ refused' = refused \cup {p} /\ files' = files
    BY DEF TxInv, RestoreMode, Undone, Refuse
<1>1. /\ origin' = origin /\ base' = base /\ target' = target /\ moved' = moved
      /\ BackupInv' /\ EarlyInv' /\ LoopInv' /\ GoneInv' /\ DirEntries' = DirEntries
      /\ FileEntries' = FileEntries
    BY <1>0, UndoFrame DEF UndoPhases
<1>2. dirModes[p] \in Modes /\ dirModes[p] # Absent /\ p \notin moved
    BY <1>0, NodeAssumption DEF UndoInv, ModesToRestore, TypeOK, BackupInv
<1>3. /\ files \in [Paths -> Nodes]
      /\ \A q \in Paths : files[q] # Absent => \A r \in Above[q] : r \in Paths /\ files[r] \in Modes
    BY <1>0, TreeFacts DEF TypeOK
<1>4. /\ \A q \in Paths : q # p => files'[q] = files[q]
      /\ \/ files'[p] = dirModes[p] /\ files[p] \in Modes
         \/ files'[p] = files[p] /\ p \in refused'
      /\ files[p] # Absent => files'[p] # Absent
      /\ files[p] = Absent => files'[p] = Absent
      /\ \A q \in Paths : files[q] \in Modes => files'[q] \in Modes
    BY <1>0, <1>2, <1>3, NodeAssumption
<1>5. files' \in FileTrees
    <2>1. files' \in [Paths -> Nodes]
        BY <1>0, <1>2, <1>3 DEF Nodes
    <2>. QED
        BY <1>3, <1>4, <2>1 DEF FileTrees
<1>6. TypeOK'
    BY <1>0, <1>1, <1>5 DEF TypeOK
<1>7. KeptInv'
    BY <1>0, <1>1, <1>2, <1>4 DEF KeptInv
<1>8. NewInv'
    BY <1>0, <1>1, <1>2, <1>4 DEF NewInv, Committing
<1>9. UndoInv'
    <2>1. /\ p \in refused' => Refused(p)'
          /\ \A q \in Paths : Refused(q) => Refused(q)'
        BY <1>0, SubtreeFacts DEF Refused
    <2>2. ASSUME NEW q \in moved
          PROVE  Returned(q)'
        <3>1. q \in Paths /\ q # p /\ Returned(q)
            BY <1>0, <1>2 DEF moved, UndoInv
        <3>. QED
            BY <1>0, <1>1, <1>4, <2>1, <3>1 DEF Returned
    <2>3. ASSUME NEW q \in Paths \ moved, origin[q] # Absent
          PROVE  files'[q] = origin[q] \/ q \in todo' \/ Refused(q)'
        <3>1. CASE q = p
            <4>1. dirModes[p] = origin[p]
                BY <1>0, <1>2, <2>3, <3>1 DEF KeptInv
            <4>. QED
                BY <1>4, <2>1, <3>1, <4>1
        <3>2. CASE q # p
            BY <1>0, <1>4, <2>1, <2>3, <3>2 DEF UndoInv
        <3>. QED
            BY <3>1, <3>2
    <2>4. ASSUME NEW q \in installed \ moved
          PROVE  files'[q] = Absent \/ Refused(q)'
        <3>1. q \in Paths
            BY <1>0 DEF TypeOK
        <3>. QED
            BY <1>0, <1>4, <2>1, <3>1 DEF UndoInv
    <2>5. todo' \subseteq ModesToRestore'
        BY <1>0 DEF UndoInv, ModesToRestore
    <2>. QED
        BY <1>0, <1>1, <2>2, <2>3, <2>4, <2>5 DEF UndoInv
<1>. QED
    BY <1>0, <1>1, <1>6, <1>7, <1>8, <1>9 DEF TxInv, RestoredUnlessRefused

\* A directory that commit made goes, or cannot: it is not empty, or is not reached.
LEMMA RemoveMadeStep ==
    ASSUME TxInv, NEW p \in Paths, RemoveMade(p)
    PROVE  TxInv'
<1>0. /\ TypeOK /\ KeptInv /\ NewInv /\ UndoInv
      /\ phase = "unmake" /\ phase' = "unmake" /\ p \in todo /\ todo' = todo \ {p}
      /\ UNCHANGED <<params, backups, created, installed, dirModes>> /\ stored' = stored
      /\ \/ Empty(p) /\ files' = [files EXCEPT ![p] = Absent] /\ refused' = refused
         \/ refused' = refused \cup {p} /\ files' = files
    BY DEF TxInv, RemoveMade, DeepestFirst, Undone, Refuse
<1>1. /\ origin' = origin /\ base' = base /\ target' = target /\ moved' = moved
      /\ BackupInv' /\ EarlyInv' /\ LoopInv' /\ GoneInv' /\ DirEntries' = DirEntries
      /\ FileEntries' = FileEntries
    BY <1>0, UndoFrame DEF UndoPhases
<1>2. p \in created /\ created \subseteq Paths /\ installed \subseteq Paths
    BY <1>0 DEF UndoInv, TypeOK
<1>3. /\ files \in [Paths -> Nodes] /\ Absent \in Nodes
      /\ \A q \in Paths : files[q] # Absent => \A r \in Above[q] : r \in Paths /\ files[r] \in Modes
    BY <1>0, TreeFacts DEF TypeOK, Nodes
<1>4. /\ \A q \in Paths : q # p => files'[q] = files[q]
      /\ files'[p] = Absent \/ (files'[p] = files[p] /\ p \in refused')
    BY <1>0, <1>3
<1>5. files' \in FileTrees
    <2>1. CASE files' = files
        BY <1>0, <2>1 DEF TypeOK
    <2>2. CASE Empty(p) /\ files' = [files EXCEPT ![p] = Absent]
        <3>1. \A q \in Paths : p \in Above[q] => files[q] = Absent
            BY <2>2, PathAssumption DEF Empty, Subtree
        <3>. QED
            BY <1>3, <2>2, <3>1 DEF FileTrees
    <2>. QED
        BY <1>0, <2>1, <2>2
<1>6. TypeOK'
    BY <1>0, <1>1, <1>5 DEF TypeOK
<1>7. KeptInv'
    BY <1>0, <1>1, <1>2, <1>4 DEF KeptInv
<1>8. NewInv'
    BY <1>0, <1>1, <1>2, <1>4 DEF NewInv, Committing
<1>9. UndoInv'
    <2>1. /\ p \in refused' => Refused(p)'
          /\ \A q \in Paths : Refused(q) => Refused(q)'
        BY <1>0, SubtreeFacts DEF Refused
    <2>2. ASSUME NEW q \in moved
          PROVE  Returned(q)' \/ q \in created
        <3>1. q \in Paths /\ (Returned(q) \/ q \in created)
            BY <1>0 DEF moved, UndoInv
        <3>. QED
            BY <1>0, <1>1, <1>2, <1>4, <2>1, <3>1 DEF Returned
    <2>3. ASSUME NEW q \in Paths \ moved, origin[q] # Absent
          PROVE  files'[q] = origin[q] \/ Refused(q)'
        <3>1. q # p
            BY <1>0, <1>2, <2>3 DEF KeptInv
        <3>. QED
            BY <1>0, <1>4, <2>1, <2>3, <3>1 DEF UndoInv
    <2>4. ASSUME NEW q \in installed \ moved
          PROVE  files'[q] = Absent \/ Refused(q)'
        BY <1>0, <1>2, <1>4, <2>1 DEF UndoInv
    <2>5. ASSUME NEW q \in created \ todo'
          PROVE  files'[q] = Absent \/ Refused(q)'
        BY <1>0, <1>2, <1>4, <2>1 DEF UndoInv
    <2>. QED
        BY <1>0, <1>1, <2>2, <2>3, <2>4, <2>5 DEF UndoInv
<1>. QED
    BY <1>0, <1>1, <1>6, <1>7, <1>8, <1>9 DEF TxInv, RestoredUnlessRefused

\* Every step keeps the invariant.
LEMMA TxNext == TxInv /\ [Next]_vars => TxInv'
<1>. SUFFICES ASSUME TxInv, [Next]_vars PROVE TxInv'
    OBVIOUS
<1>1. CASE UNCHANGED vars
    BY <1>1, StutterStep
<1>2. CASE StageChanges \/ StagingFails \/ EndBackup \/ EndMkdir \/ EndInstall \/ Commit \/ CommitFails
    <2>1. UNCHANGED <<files, params, backups, created, installed, dirModes, refused>>
        BY <1>2 DEF StageChanges, StagingFails, EndBackup, EndMkdir, EndInstall, Commit,
           CommitFails, record
    <2>. QED
        BY <1>2, <2>1, PhaseStep
<1>3. ASSUME NEW p \in Paths, SkipPath(p) PROVE TxInv'
    BY <1>3, SkipStep
<1>4. ASSUME NEW p \in Paths, BackupPath(p) PROVE TxInv'
    BY <1>4, BackupStep
<1>5. ASSUME NEW p \in Paths, MakeDir(p) PROVE TxInv'
    BY <1>5, MakeDirStep
<1>6. ASSUME NEW p \in Paths, MakeDirFails(p) PROVE TxInv'
    BY <1>6, MakeDirFailsStep
<1>7. ASSUME NEW p \in Paths, InstallFile(p) PROVE TxInv'
    BY <1>7, InstallStep
<1>8. ASSUME NEW p \in Paths, InstallFails(p) PROVE TxInv'
    BY <1>8, InstallFailsStep
<1>9. ASSUME NEW p \in Paths, ChmodDir(p) PROVE TxInv'
    BY <1>9, ChmodStep
<1>10. CASE EndRemove \/ EndReturn \/ EndModes \/ DiscardBackups
    BY <1>10, UndoPhaseStep
<1>11. ASSUME NEW p \in Paths, RemoveInstalled(p) PROVE TxInv'
    BY <1>11, RemoveInstalledStep
<1>12. ASSUME NEW p \in Paths, ReturnBackup(p) PROVE TxInv'
    BY <1>12, ReturnBackupStep
<1>13. ASSUME NEW p \in Paths, ReturnFails(p) PROVE TxInv'
    BY <1>13, ReturnFailsStep
<1>14. ASSUME NEW p \in Paths, RestoreMode(p) PROVE TxInv'
    BY <1>14, RestoreModeStep
<1>15. ASSUME NEW p \in Paths, RemoveMade(p) PROVE TxInv'
    BY <1>15, RemoveMadeStep
<1>16. CASE Finished
    BY <1>1, <1>16 DEF Finished
<1>. QED
    BY <1>1, <1>2, <1>3, <1>4, <1>5, <1>6, <1>7, <1>8, <1>9, <1>10, <1>11, <1>12, <1>13,
       <1>14, <1>15, <1>16 DEF Next

\* The invariant holds in every state.
LEMMA TxInvariant == Spec => []TxInv
BY TxInit, TxNext, PTL DEF Spec

-----------------------------------------------------------------------------
(* What the invariant says *)

\* ApplyChanges on a directory of any size: the directory is always a tree, a commit that
\* succeeds leaves the entries of the difference and nothing of what it deletes, and a
\* directory that was as the base manifest says is then as the target manifest says.
THEOREM CommitGivesTargetAlways == Spec => []CommitGivesTarget
<1>1. TxInv => CommitGivesTarget
    <2>. SUFFICES ASSUME TxInv PROVE CommitGivesTarget
        OBVIOUS
    <2>0. TypeOK /\ BackupInv /\ LoopInv /\ KeptInv /\ GoneInv
        BY DEF TxInv
    <2>. SUFFICES ASSUME phase = "done"
                  PROVE  /\ \A p \in entries : files[p] = target[p]
                         /\ \A p \in deleted : files[p] = Absent
                         /\ origin = base => files = M!Patch(origin, base, target)
        BY <2>0 DEF CommitGivesTarget
    <2>1. /\ entries = {p \in Paths : target[p] # Absent /\ base[p] # target[p]}
          /\ deleted = {p \in Paths : base[p] # Absent /\ target[p] = Absent}
          /\ entries = DirEntries \cup FileEntries /\ touched \subseteq Paths
          /\ \A p \in FileEntries : target[p] \in Hashes
          /\ touched = entries \cup deleted
        BY <2>0, EntryFacts DEF touched
    <2>2. \A p \in entries : files[p] = target[p]
        BY <2>0 DEF LoopInv
    <2>3. \A p \in deleted : files[p] = Absent
        BY <2>0, <2>1 DEF GoneInv
    <2>4. ASSUME origin = base, NEW p \in Paths, p \notin touched
          PROVE  files[p] = origin[p]
        <3>1. origin[p] = target[p]
            BY <2>1, <2>4
        <3>2. CASE origin[p] = Absent
            BY <2>0, <3>1, <3>2 DEF GoneInv
        <3>3. CASE origin[p] # Absent
            <4>1. p \notin moved
                <5>. SUFFICES ASSUME NEW b \in backups, p \in Subtree(b)
                              PROVE  FALSE
                    BY DEF moved, coveredByChangeBackup
                <5>1. b \in touched /\ b \in Paths /\ b # p
                    BY <2>0, <2>1, <2>4 DEF BackupInv
                <5>2. b \in Above[p]
                    BY <5>1, SubtreeFacts
                <5>3. origin[b] \in Modes /\ target[b] \in Modes
                    BY <2>0, <3>1, <3>3, <5>2, TreeFacts DEF TypeOK
                <5>4. b \in entries /\ b \notin FileEntries
                    BY <2>1, <5>1, <5>3, NodeAssumption
                <5>. QED
                    BY <2>0, <2>1, <5>3, <5>4 DEF BackupInv
            <4>2. p \notin DirEntries
                BY <2>1, <2>4
            <4>. QED
                BY <2>0, <3>3, <4>1, <4>2 DEF KeptInv
        <3>. QED
            BY <3>2, <3>3
    <2>5. origin = base => files = M!Patch(origin, base, target)
        <3>1. files \in [Paths -> Nodes]
            BY <2>0, TreeFacts DEF TypeOK
        <3>2. M!Patch(origin, base, target) =
                 [p \in Paths |-> IF p \in entries THEN target[p]
                                  ELSE IF p \in deleted THEN Absent ELSE origin[p]]
            BY DEF M!Patch, entries, deleted
        <3>. QED
            BY <2>1, <2>2, <2>3, <2>4, <3>1, <3>2
    <2>. QED
        BY <2>2, <2>3, <2>5
<1>. QED
    BY <1>1, TxInvariant, PTL

\* Until the commit is complete, or the temporary directory goes after a rollback, everything
\* that was in the directory is in its place, in the backup directory, or a directory whose
\* mode is recorded, or rollback took it for a directory of its own: also when operations of
\* the rollback fail.
THEOREM NothingLostAlways == Spec => []NothingLost
<1>1. TxInv => NothingLost
    <2>. SUFFICES ASSUME TxInv, phase \notin {"done", "failed"}, NEW p \in Paths
                  PROVE  \/ origin[p] = Absent
                         \/ files[p] = origin[p]
                         \/ stored[p] = origin[p] /\ coveredByChangeBackup(p)
                         \/ dirModes[p] = origin[p]
                         \/ phase = "unmake" /\ p \in created /\ coveredByChangeBackup(p)
        BY DEF NothingLost
    <2>1. TypeOK /\ BackupInv /\ KeptInv /\ UndoInv
        BY DEF TxInv
    <2>2. CASE p \in moved
        <3>1. \/ files[p] = origin[p]
              \/ stored[p] = origin[p]
              \/ phase = "unmake" /\ p \in created
            BY <2>1, <2>2 DEF BackupInv, UndoInv, Returned, Committing, TypeOK
        <3>. QED
            BY <2>2, <3>1 DEF moved
    <2>3. CASE p \notin moved
        BY <2>1, <2>3 DEF KeptInv
    <2>. QED
        BY <2>2, <2>3
<1>. QED
    BY <1>1, TxInvariant, PTL

\* A commit that fails at any step is rolled back, and any operation of the rollback may fail:
\* everything is as it was, but what an operation failed for, which the error tells, a
\* directory that commit made where a path was moved aside, and a directory that the base
\* manifest wrongly lists.
THEOREM RestoredUnlessRefusedAlways == Spec => []RestoredUnlessRefused
<1>1. TxInv => RestoredUnlessRefused
    BY DEF TxInv
<1>. QED
    BY <1>1, TxInvariant, PTL
=============================================================================
