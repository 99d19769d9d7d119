------------------------------ MODULE CursorFile ------------------------------
(***************************************************************************)
(* Cursor::save and Cursor::load (grpc_ingester/src/cursor.rs) at the level  *)
(* of the file system: directory entries, inodes, page cache and disk.      *)
(* The reporter task saves on every tick; Ingest::run saves once more on    *)
(* shutdown, while the reporter is still running.  Both use the same name   *)
(* for the temporary file.                                                  *)
(***************************************************************************)
EXTENDS Integers, FiniteSets

CONSTANTS
    Savers,       \* subset of {"reporter", "main"}
    Inodes,       \* enough for every entry and descriptor in use
    MaxSlot,      \* bound on the watermark
    Nil,          \* no file, no descriptor, no value
    Truncated         \* content of a file created and not yet written

ASSUME SaverAssumption ==
    /\ Savers \subseteq {"reporter", "main"}
    /\ IsFiniteSet(Inodes) /\ Cardinality(Inodes) >= 4
    /\ MaxSlot \in Nat /\ Nil \notin Inodes \cup (0..MaxSlot)
    /\ Truncated \notin 0..MaxSlot

VARIABLES
    tmp, entry,      \* inodes named "cursor.tmp" and "cursor" now
    onDisk,          \* inode that "cursor" names on disk
    data, synced,    \* content of each inode: page cache, and disk
    watermark,       \* in memory; Nil when unset
    pc, fd, value,   \* each save in progress
    phase            \* "up", "exiting", "down" or "corrupt"

files == <<tmp, entry, onDisk, data, synced>>
fileVars == <<files, watermark, pc, fd, value, phase>>

Steps == {"idle", "create", "write", "sync", "rename"}

InUse == {tmp, entry, onDisk} \cup {fd[p] : p \in Savers}

Fresh == Inodes \ InUse

-----------------------------------------------------------------------------
Advance ==
    /\ phase \in {"up", "exiting"}
    /\ watermark' \in {w \in 0..MaxSlot : watermark = Nil \/ w > watermark}
    /\ UNCHANGED <<files, pc, fd, value, phase>>

\* The watermark is read under the lock; the rest runs without it.
BeginSave(p) ==
    /\ pc[p] = "idle" /\ watermark # Nil
    /\ phase = "up" \/ (phase = "exiting" /\ p = "reporter")
    /\ pc' = [pc EXCEPT ![p] = "create"]
    /\ value' = [value EXCEPT ![p] = watermark]
    /\ phase' = IF p = "main" THEN "exiting" ELSE phase
    /\ UNCHANGED <<files, watermark, fd>>

\* Mutant: the final name is opened instead of the temporary one.
CreateInPlace(p) ==
    /\ pc[p] = "create"
    /\ \E i \in IF entry # Nil THEN {entry} ELSE Fresh :
          /\ tmp' = i
          /\ fd' = [fd EXCEPT ![p] = i]
          /\ data' = [data EXCEPT ![i] = Truncated]
          /\ UNCHANGED synced
    /\ pc' = [pc EXCEPT ![p] = "write"]
    /\ UNCHANGED <<entry, onDisk, watermark, value, phase>>

\* File::create: an existing file is truncated in place.
Create(p) ==
    /\ pc[p] = "create"
    /\ \E i \in IF tmp # Nil THEN {tmp} ELSE Fresh :
          /\ tmp' = i
          /\ fd' = [fd EXCEPT ![p] = i]
          /\ data' = [data EXCEPT ![i] = Truncated]
          /\ synced' = [synced EXCEPT ![i] = IF tmp = Nil THEN Truncated ELSE @]
    /\ pc' = [pc EXCEPT ![p] = "write"]
    /\ UNCHANGED <<entry, onDisk, watermark, value, phase>>

Write(p) ==
    /\ pc[p] = "write"
    /\ data' = [data EXCEPT ![fd[p]] = value[p]]
    /\ pc' = [pc EXCEPT ![p] = "sync"]
    /\ UNCHANGED <<tmp, entry, onDisk, synced, watermark, fd, value, phase>>

\* Mutant: the file is renamed without having been synced.
SkipSync(p) ==
    /\ pc[p] = "sync"
    /\ pc' = [pc EXCEPT ![p] = "rename"]
    /\ UNCHANGED <<files, watermark, fd, value, phase>>

Sync(p) ==
    /\ pc[p] = "sync"
    /\ synced' = [synced EXCEPT ![fd[p]] = data[fd[p]]]
    /\ pc' = [pc EXCEPT ![p] = "rename"]
    /\ UNCHANGED <<tmp, entry, onDisk, data, watermark, fd, value, phase>>

\* Without a file of that name rename fails, and save returns the error.
Rename(p) ==
    /\ pc[p] = "rename"
    /\ IF tmp = Nil
       THEN UNCHANGED <<tmp, entry>>
       ELSE entry' = tmp /\ tmp' = Nil
    /\ pc' = [pc EXCEPT ![p] = "idle"]
    /\ fd' = [fd EXCEPT ![p] = Nil]
    /\ value' = [value EXCEPT ![p] = Nil]
    /\ UNCHANGED <<onDisk, data, synced, watermark, phase>>

\* The kernel writes dirty pages and the directory back when it likes.
WriteBack ==
    /\ \/ onDisk' = entry /\ UNCHANGED synced
       \/ \E i \in Inodes : synced' = [synced EXCEPT ![i] = data[i]] /\ UNCHANGED onDisk
    /\ UNCHANGED <<tmp, entry, data, watermark, pc, fd, value, phase>>

\* The process returns from main or dies; the page cache survives.
Stop ==
    /\ phase \in {"up", "exiting"}
    /\ phase' = "down"
    /\ UNCHANGED <<files, watermark, pc, fd, value>>

\* The machine dies; what was not synced is lost.
PowerLoss ==
    /\ phase' = IF phase = "corrupt" THEN phase ELSE "down"
    /\ entry' = onDisk
    /\ data' = synced
    /\ tmp' \in {tmp, Nil}
    /\ UNCHANGED <<onDisk, synced, watermark, pc, fd, value>>

\* Cursor::load: a missing file starts at the live tip, anything that is not
\* a number is an error and the process does not start.
Load ==
    /\ phase = "down"
    /\ IF entry # Nil /\ data[entry] = Truncated
       THEN phase' = "corrupt" /\ watermark' = Nil
       ELSE phase' = "up" /\ watermark' = IF entry = Nil THEN Nil ELSE data[entry]
    /\ pc' = [p \in Savers |-> "idle"]
    /\ fd' = [p \in Savers |-> Nil] /\ value' = [p \in Savers |-> Nil]
    /\ UNCHANGED files

FileInit ==
    /\ tmp = Nil /\ entry = Nil /\ onDisk = Nil
    /\ data = [i \in Inodes |-> Truncated] /\ synced = [i \in Inodes |-> Truncated]
    /\ watermark = Nil
    /\ pc = [p \in Savers |-> "idle"]
    /\ fd = [p \in Savers |-> Nil] /\ value = [p \in Savers |-> Nil]
    /\ phase = "up"

SaveStep(p) == BeginSave(p) \/ Create(p) \/ Write(p) \/ Sync(p) \/ Rename(p)

FileNext ==
    \/ Advance
    \/ \E p \in Savers : phase \in {"up", "exiting"} /\ SaveStep(p)
    \/ WriteBack \/ Stop \/ PowerLoss \/ Load

FileSpec == FileInit /\ [][FileNext]_fileVars

-----------------------------------------------------------------------------
FileTypeOK ==
    /\ {tmp, entry, onDisk} \subseteq Inodes \cup {Nil}
    /\ data \in [Inodes -> 0..MaxSlot \cup {Truncated}]
    /\ synced \in [Inodes -> 0..MaxSlot \cup {Truncated}]
    /\ watermark \in 0..MaxSlot \cup {Nil}
    /\ pc \in [Savers -> Steps]
    /\ fd \in [Savers -> Inodes \cup {Nil}]
    /\ value \in [Savers -> 0..MaxSlot \cup {Nil}]
    /\ phase \in {"up", "exiting", "down", "corrupt"}

\* Whenever the process or the machine stops, the next start finds a complete
\* cursor or none: Cursor::load never meets a half-written one (cursor.rs,
\* save: "Persist atomically: write, fsync, rename").
PersistsAtomically == phase # "corrupt"

\* As long as the machine keeps running and no --start-slot is given, a reader
\* of the file sees the slot only move forward: the value in "cursor" never
\* drops and never disappears, across restarts too (save, load).
VisibleNeverBack ==
    [][~PowerLoss /\ entry # Nil =>
          entry' # Nil /\ data'[entry'] # Truncated /\ data'[entry'] >= data[entry]]_fileVars
=============================================================================
