----------------------------- MODULE LogRotation -----------------------------
(***************************************************************************)
(* rotatingFileWriter (pkg/logging/logger.go): Write, which rotates the    *)
(* log file when the next entry would exceed maxSize, and the files it     *)
(* leaves on disk.  Write holds w.mu, so its steps interleave with nothing *)
(* but a crash of the process, after which newRotatingFileWriter starts    *)
(* from the files it finds.                                                *)
(*                                                                         *)
(* A file is the sequence of the entries in it and its length in bytes; an *)
(* entry has a number and a size.  from is history: how many entries had   *)
(* been written when the file was created.  Closing, renaming and opening  *)
(* may fail as the file system pleases (Faults); a write to an open file   *)
(* succeeds.                                                               *)
(***************************************************************************)
EXTENDS Naturals, Sequences

CONSTANTS
    MaxEntries,   \* bound: entries written
    Sizes,        \* bytes an entry may take
    MaxSize,      \* LoggerConfig.MaxFileSize, 0 = no rotation
    MaxBackups,   \* LoggerConfig.MaxBackups
    Faults,       \* the file system may fail
    MaxCrashes    \* bound: crashes of the process

ASSUME SizeAssumption == Sizes \subseteq Nat \ {0}
ASSUME RotationAssumption ==
    MaxEntries \in Nat /\ MaxSize \in Nat /\ MaxBackups \in Nat /\ MaxCrashes \in Nat

VARIABLES
    disk,     \* the log file, at 0, and the backups path.1, path.2, ...
    handle,   \* w.file is open
    size,     \* w.currentSize
    wpc,      \* where Write is
    i,        \* loop variable of rotate
    entry,    \* the last entry that was given to Write
    history,  \* the entries that Write reported as written
    skipped,  \* a rename of a backup failed and was ignored
    crashes

vars == <<disk, handle, size, wpc, i, entry, history, skipped, crashes>>

\* The last backup rotate may create: path.1 even when MaxBackups is 0.
Oldest == IF MaxBackups = 0 THEN 1 ELSE MaxBackups

Numbers == 0..Oldest

Absent == [exists |-> FALSE, entries |-> << >>, bytes |-> 0, from |-> 0]

Created == [exists |-> TRUE, entries |-> << >>, bytes |-> 0, from |-> Len(history)]

WithEntry(f, e) == [f EXCEPT !.entries = Append(@, e), !.bytes = @ + e.bytes]

\* os.Rename to the next number; a file of that name is lost.
Renamed(k) == [disk EXCEPT ![k + 1] = disk[k], ![k] = Absent]

-----------------------------------------------------------------------------
(* newRotatingFileWriter: open or create the file, take its size.          *)

\* Mutant: the file is truncated instead of appended to.
OpenedTruncates == [disk EXCEPT ![0] = Created]

Opened == IF disk[0].exists THEN disk ELSE [disk EXCEPT ![0] = Created]

Open ==
    /\ wpc = "down"
    /\ disk' = Opened
    /\ size' = disk'[0].bytes
    /\ handle' = TRUE
    /\ wpc' = "idle"
    /\ UNCHANGED <<i, entry, history, skipped, crashes>>

-----------------------------------------------------------------------------
(* Write                                                                   *)

NeedsRotation(e) == MaxSize > 0 /\ size + e.bytes > MaxSize

NextEntry(b) == [id |-> entry.id + 1, bytes |-> b]

\* A closed file refuses the entry.
WritePlain(b) ==
    /\ wpc = "idle" /\ entry.id < MaxEntries /\ ~NeedsRotation(NextEntry(b))
    /\ entry' = NextEntry(b)
    /\ IF handle
       THEN /\ disk' = [disk EXCEPT ![0] = WithEntry(@, entry')]
            /\ size' = size + b
            /\ history' = Append(history, entry')
       ELSE UNCHANGED <<disk, size, history>>
    /\ UNCHANGED <<handle, wpc, i, skipped, crashes>>

\* rotate closes the file first.  Closing a closed file is an error, and closing an open one may be one too;
\* then rotate ends here, and the file is closed all the same.
WriteRotates(b) ==
    /\ wpc = "idle" /\ entry.id < MaxEntries /\ NeedsRotation(NextEntry(b))
    /\ entry' = NextEntry(b)
    /\ handle' = FALSE
    /\ \/ handle /\ wpc' = "shift" /\ i' = MaxBackups
       \/ (~handle \/ Faults) /\ UNCHANGED <<wpc, i>>
    /\ UNCHANGED <<disk, size, history, skipped, crashes>>

\* One turn of the loop: path.(i-1) becomes path.i; an error is ignored.
Shift ==
    /\ wpc = "shift" /\ i > 1
    /\ i' = i - 1
    /\ \/ /\ disk[i - 1].exists
          /\ disk' = Renamed(i - 1)
          /\ UNCHANGED skipped
       \/ /\ ~disk[i - 1].exists
          /\ UNCHANGED <<disk, skipped>>
       \/ /\ disk[i - 1].exists /\ Faults
          /\ skipped' = TRUE
          /\ UNCHANGED disk
    /\ UNCHANGED <<handle, size, wpc, entry, history, crashes>>

\* Mutant: the loop ends before path.1 is moved.
RenameCurrentEarly ==
    /\ wpc = "shift" /\ i <= 2
    /\ disk' = Renamed(0)
    /\ wpc' = "create"
    /\ UNCHANGED <<handle, size, i, entry, history, skipped, crashes>>

\* Rename the log file to path.1.
RenameCurrent ==
    /\ wpc = "shift" /\ i <= 1
    /\ disk' = Renamed(0)
    /\ wpc' = "create"
    /\ UNCHANGED <<handle, size, i, entry, history, skipped, crashes>>

\* Mutant: the new file is created without resetting currentSize.
CreateStaleSize ==
    /\ wpc = "create"
    /\ handle' = TRUE
    /\ disk' = [disk EXCEPT ![0] = WithEntry(Created, entry)]
    /\ size' = size + entry.bytes
    /\ history' = Append(history, entry)
    /\ wpc' = "idle"
    /\ UNCHANGED <<i, entry, skipped, crashes>>

\* Create the new file, reset currentSize, and write the entry.
Create ==
    /\ wpc = "create"
    /\ handle' = TRUE
    /\ disk' = [disk EXCEPT ![0] = WithEntry(Created, entry)]
    /\ size' = entry.bytes
    /\ history' = Append(history, entry)
    /\ wpc' = "idle"
    /\ UNCHANGED <<i, entry, skipped, crashes>>

\* The rename or the create fails: Write returns the error.  w.file stays
\* closed and w.currentSize as it was.
RotateFails ==
    /\ Faults
    /\ (wpc = "shift" /\ i <= 1) \/ wpc = "create"
    /\ wpc' = "idle"
    /\ UNCHANGED <<disk, handle, size, i, entry, history, skipped, crashes>>

\* The process ends anywhere in Write; the files stay.
Crash ==
    /\ wpc # "down" /\ crashes < MaxCrashes
    /\ crashes' = crashes + 1
    /\ handle' = FALSE
    /\ wpc' = "down"
    /\ UNCHANGED <<disk, size, i, entry, history, skipped>>

-----------------------------------------------------------------------------
Init ==
    /\ disk = [k \in Numbers |-> Absent]
    /\ handle = FALSE /\ size = 0 /\ wpc = "down" /\ i = 0
    /\ entry = [id |-> 0, bytes |-> 0] /\ history = << >> /\ skipped = FALSE /\ crashes = 0

Next ==
    \/ \E b \in Sizes : WritePlain(b) \/ WriteRotates(b)
    \/ Open \/ Shift \/ RenameCurrent \/ Create
    \/ RotateFails \/ Crash

Spec == Init /\ [][Next]_vars

-----------------------------------------------------------------------------
(* Properties.                                                             *)

Entries == [id : 1..MaxEntries, bytes : Sizes]

Files == [exists : BOOLEAN, entries : Seq(Entries), bytes : Nat, from : Nat]

\* Every variable keeps its type.
TypeOK ==
    /\ disk \in [Numbers -> Files]
    /\ handle \in BOOLEAN /\ size \in Nat /\ i \in 0..MaxBackups
    /\ wpc \in {"down", "idle", "shift", "create"}
    /\ entry \in [id : 0..MaxEntries, bytes : Nat] /\ history \in Seq(Entries)
    /\ skipped \in BOOLEAN /\ crashes \in 0..MaxCrashes

\* A file holds the entries written from its creation up to End.
End(f) == f.from + Len(f.entries)

InOrder(f) == End(f) <= Len(history) /\ \A m \in 1..Len(f.entries) : f.entries[m] = history[f.from + m]

\* The file that is newer than the k-th was created when that one ended; the newest goes up to the last entry.
Follows(k) ==
    IF \A j \in 0..(k - 1) : ~disk[j].exists THEN End(disk[k]) = Len(history)
    ELSE \E j \in 0..(k - 1) :
           /\ disk[j].exists /\ disk[j].from = End(disk[k])
           /\ \A m \in (j + 1)..(k - 1) : ~disk[m].exists

(***************************************************************************)
(* The files on disk are, oldest backup first, the most recent entries     *)
(* that Write reported as written, with no gap, no repetition and in       *)
(* order: also after a failed rotation and a crash anywhere inside rotate, *)
(* as long as no ignored rename failed.                                    *)
(***************************************************************************)
NoGap == ~skipped => \A k \in Numbers : disk[k].exists => InOrder(disk[k]) /\ Follows(k)

(***************************************************************************)
(* currentSize is the size of the open file, also after a restart on old   *)
(* files, so a file exceeds maxSize only by holding one larger entry.      *)
(***************************************************************************)
SizeKept ==
    /\ handle => size = disk[0].bytes
    /\ MaxSize > 0 => \A k \in Numbers : disk[k].bytes <= MaxSize \/ Len(disk[k].entries) = 1

\* The file f is still there, with all it had.
Survives(f) ==
    \E k \in Numbers :
       /\ disk'[k].exists /\ disk'[k].from = f.from /\ Len(f.entries) <= Len(disk'[k].entries)
       /\ \A m \in 1..Len(f.entries) : disk'[k].entries[m] = f.entries[m]

(***************************************************************************)
(* Writing never gives up more than the oldest backup: whatever step is    *)
(* taken, every other file survives, under its name or the next one.       *)
(***************************************************************************)
OnlyOldestDropped ==
    [][~skipped' => \A k \in Numbers \ {Oldest} : disk[k].exists => Survives(disk[k])]_vars
=============================================================================
