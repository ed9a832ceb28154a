------------------------------ MODULE Manifest ------------------------------
(***************************************************************************)
(* Manifests and what synchronisation does with them (internal/syncfs).    *)
(*                                                                         *)
(* A manifest lists the entries of a tree: a path and what is there.  The  *)
(* content of a file is named by its hash, so a manifest, and the tree it  *)
(* describes, is a function from paths to hashes, NoFile marking a path    *)
(* without an entry.  Modes, times and links are left out: sameEntry       *)
(* compares them the way it compares hashes.                               *)
(***************************************************************************)
CONSTANTS Paths,    \* the paths manifests may mention
          Hashes,   \* the contents a file may have
          NoFile    \* the value of a path that has no entry

ASSUME NoFileAssumption == NoFile \notin Hashes

Trees == [Paths -> Hashes \cup {NoFile}]

EmptyTree == [p \in Paths |-> NoFile]

FileHashes(tree) == {tree[p] : p \in Paths} \ {NoFile}

(***************************************************************************)
(* Diff: the entries of after that before does not have as they are, and   *)
(* the paths of before that after does not have.                           *)
(***************************************************************************)
Changed(before, after) ==
    {p \in Paths : after[p] # NoFile /\ before[p] # after[p]}

Deleted(before, after) ==
    {p \in Paths : before[p] # NoFile /\ after[p] = NoFile}

(***************************************************************************)
(* ApplyChanges on a tree that may differ from the manifest the difference *)
(* was computed against: only the paths of the difference are touched.     *)
(***************************************************************************)
Patch(tree, before, after) ==
    [p \in Paths |-> IF p \in Changed(before, after) THEN after[p]
                     ELSE IF p \in Deleted(before, after) THEN NoFile
                     ELSE tree[p]]

(***************************************************************************)
(* What an interrupted commit may leave: it moves every path of the        *)
(* difference aside before it installs the new files one by one.           *)
(***************************************************************************)
PartialPatches(tree, before, after) ==
    {t \in Trees : \A p \in Paths :
        t[p] \in IF p \in Changed(before, after) \cup Deleted(before, after)
                 THEN {tree[p], NoFile, after[p]}
                 ELSE {tree[p]}}
=============================================================================
