-------------------------- MODULE LogRotationProofs --------------------------
(***************************************************************************)
(* Proofs about LogRotation, for any number of entries, sizes, backups,    *)
(* faults and crashes.                                                     *)
(***************************************************************************)
EXTENDS LogRotation, TLAPS

-----------------------------------------------------------------------------
(* The inductive invariant.                                                *)

\* The log file is there while it is open and until rotate has renamed it.
LogFile ==
    /\ handle \/ wpc = "shift" => disk[0].exists
    /\ wpc = "create" => ~disk[0].exists
    /\ handle => wpc = "idle"
    /\ wpc = "create" => entry \in Entries
    /\ wpc = "shift" => entry \in Entries

\* The loop of rotate goes down and leaves a free name behind it.
Shifting ==
    wpc = "shift" =>
      /\ i = 0 => MaxBackups = 0
      /\ ~skipped /\ i \in 1..(MaxBackups - 1) => ~disk[i].exists

IInv == TypeOK /\ LogFile /\ Shifting /\ NoGap /\ SizeKept

-----------------------------------------------------------------------------
(* Types.                                                                  *)

LEMMA NumbersType == Oldest \in Nat \ {0} /\ 0 \in Numbers /\ 1 \in Numbers /\ Numbers \subseteq Nat
  BY RotationAssumption DEF Oldest, Numbers

LEMMA NextEntryType ==
  ASSUME TypeOK, NEW b \in Sizes, entry.id < MaxEntries
  PROVE  NextEntry(b) \in Entries
  BY SizeAssumption, RotationAssumption DEF TypeOK, NextEntry, Entries

LEMMA EntryBytes == \A e \in Entries : e.bytes \in Nat /\ e \in [id : 0..MaxEntries, bytes : Nat]
<1> SUFFICES ASSUME NEW e \in Entries
             PROVE  e.bytes \in Nat /\ e \in [id : 0..MaxEntries, bytes : Nat]
  OBVIOUS
<1>1. e = [id |-> e.id, bytes |-> e.bytes] /\ e.id \in 1..MaxEntries /\ e.bytes \in Sizes
  BY DEF Entries
<1>2. e.id \in 0..MaxEntries /\ e.bytes \in Nat
  BY <1>1, SizeAssumption, RotationAssumption
<1> QED
  BY <1>1, <1>2

LEMMA FileFields ==
  \A f \in Files :
    f.from \in Nat /\ f.entries \in Seq(Entries) /\ Len(f.entries) \in Nat /\ f.exists \in BOOLEAN /\ f.bytes \in Nat
<1> SUFFICES ASSUME NEW f \in Files
             PROVE  f.from \in Nat /\ f.entries \in Seq(Entries) /\ Len(f.entries) \in Nat /\ f.exists \in BOOLEAN /\ f.bytes \in Nat
  OBVIOUS
<1>1. f.from \in Nat /\ f.entries \in Seq(Entries) /\ f.exists \in BOOLEAN /\ f.bytes \in Nat
  BY DEF Files
<1> QED
  BY <1>1

\* A file with one more entry, and a new one.
LEMMA FileTypes ==
  ASSUME TypeOK
  PROVE  /\ Absent \in Files
         /\ Created \in Files
         /\ \A f \in Files, e \in Entries : WithEntry(f, e) \in Files
<1>1. Absent \in Files /\ Created \in Files
  BY DEF Absent, Created, Files, TypeOK
<1>2. ASSUME NEW f \in Files, NEW e \in Entries
      PROVE  WithEntry(f, e) \in Files
  <2>1. Append(f.entries, e) \in Seq(Entries) /\ f.bytes + e.bytes \in Nat
    BY EntryBytes DEF Files
  <2> QED
    BY <2>1 DEF Files, WithEntry
<1> QED
  BY <1>1, <1>2

LEMMA RenamedType ==
  ASSUME TypeOK, NEW k \in Numbers, k + 1 \in Numbers
  PROVE  Renamed(k) \in [Numbers -> Files]
  BY FileTypes DEF TypeOK, Renamed

LEMMA TypeStep == IInv /\ [Next]_vars => TypeOK'
<1> SUFFICES ASSUME IInv, [Next]_vars
             PROVE  TypeOK'
  OBVIOUS
<1> USE RotationAssumption, NumbersType DEF TypeOK, IInv
<1>1. ASSUME NEW b \in Sizes, WritePlain(b)
      PROVE  TypeOK'
  <2>1. entry' \in Entries /\ entry' \in [id : 0..MaxEntries, bytes : Nat] /\ b \in Nat
    BY <1>1, NextEntryType, EntryBytes, SizeAssumption DEF WritePlain, Entries
  <2>2. CASE handle
    <3>1. disk' \in [Numbers -> Files]
      BY <1>1, <2>1, <2>2, FileTypes DEF WritePlain
    <3>2. history' \in Seq(Entries)
      BY <1>1, <2>1, <2>2 DEF WritePlain
    <3>3. size' \in Nat
      BY <1>1, <2>1, <2>2 DEF WritePlain
    <3> QED
      BY <1>1, <2>1, <3>1, <3>2, <3>3 DEF WritePlain
  <2>3. CASE ~handle
    BY <1>1, <2>1, <2>3 DEF WritePlain
  <2> QED
    BY <2>2, <2>3
<1>2. ASSUME NEW b \in Sizes, WriteRotates(b)
      PROVE  TypeOK'
  <2>1. entry' \in [id : 0..MaxEntries, bytes : Nat]
    <3>1. entry' = NextEntry(b) /\ entry.id < MaxEntries
      BY <1>2 DEF WriteRotates
    <3> QED
      BY <3>1, NextEntryType, EntryBytes
  <2>2. UNCHANGED <<disk, size, history, skipped, crashes>>
    BY <1>2 DEF WriteRotates
  <2>3. handle' \in BOOLEAN /\ wpc' \in {"down", "idle", "shift", "create"}
    BY <1>2 DEF WriteRotates
  <2>4. i' \in 0..MaxBackups
    <3>1. i' = i \/ i' = MaxBackups
      BY <1>2 DEF WriteRotates
    <3> QED
      BY <3>1
  <2> QED
    BY <2>1, <2>2, <2>3, <2>4
<1>3. CASE Open
  <2>1. disk' \in [Numbers -> Files]
    BY <1>3, FileTypes DEF Open, Opened
  <2>2. disk'[0].bytes \in Nat
    <3>1. disk'[0] \in Files
      BY <2>1
    <3> QED
      BY <3>1, FileFields, Zenon
  <2> QED
    BY <1>3, <2>1, <2>2 DEF Open
<1>4. CASE Shift
  <2>1. i \in Nat /\ i - 1 \in Numbers /\ (i - 1) + 1 \in Numbers /\ i - 1 \in 0..MaxBackups
    BY <1>4 DEF Shift, Numbers, Oldest
  <2>2. Renamed(i - 1) \in [Numbers -> Files]
    BY <2>1, RenamedType
  <2>3. disk' \in [Numbers -> Files] /\ skipped' \in BOOLEAN
    BY <1>4, <2>2 DEF Shift
  <2> QED
    BY <1>4, <2>1, <2>3 DEF Shift
<1>5. CASE RenameCurrent
  <2>1. Renamed(0) \in [Numbers -> Files]
    BY RenamedType
  <2> QED
    BY <1>5, <2>1 DEF RenameCurrent
<1>6. CASE Create
  <2>1. entry \in Entries /\ entry.bytes \in Nat
    BY <1>6, EntryBytes DEF Create, LogFile
  <2>2. WithEntry(Created, entry) \in Files
    BY <2>1, FileTypes
  <2>3. disk' \in [Numbers -> Files]
    BY <1>6, <2>2 DEF Create
  <2> QED
    BY <1>6, <2>1, <2>3 DEF Create
<1>7. CASE RotateFails
  BY <1>7 DEF RotateFails
<1>8. CASE Crash
  BY <1>8 DEF Crash
<1>9. CASE UNCHANGED vars
  BY <1>9 DEF vars
<1> QED
  BY <1>1, <1>2, <1>3, <1>4, <1>5, <1>6, <1>7, <1>8, <1>9 DEF Next

-----------------------------------------------------------------------------
(* Where Write is.                                                         *)

LEMMA PlaceStep == IInv /\ [Next]_vars => LogFile' /\ Shifting'
<1> SUFFICES ASSUME IInv, [Next]_vars
             PROVE  LogFile' /\ Shifting'
  OBVIOUS
<1> USE RotationAssumption, NumbersType DEF TypeOK, IInv, LogFile, Shifting
<1>1. ASSUME NEW b \in Sizes, WritePlain(b)
      PROVE  LogFile' /\ Shifting'
  <2>1. disk'[0].exists = disk[0].exists
    <3>1. CASE handle
      <4>1. disk' = [disk EXCEPT ![0] = WithEntry(disk[0], entry')] /\ disk[0] \in Files
        BY <1>1, <3>1 DEF WritePlain
      <4>2. WithEntry(disk[0], entry').exists = disk[0].exists
        BY <4>1 DEF WithEntry, Files
      <4> QED
        BY <4>1, <4>2
    <3>2. CASE ~handle
      BY <1>1, <3>2 DEF WritePlain
    <3> QED
      BY <3>1, <3>2
  <2> QED
    BY <1>1, <2>1 DEF WritePlain
<1>2. ASSUME NEW b \in Sizes, WriteRotates(b)
      PROVE  LogFile' /\ Shifting'
  BY <1>2, NextEntryType DEF WriteRotates
<1>3. CASE Open
  BY <1>3 DEF Open, Opened, Created
<1>4. CASE Shift
  <2>1. i \in Nat /\ i - 1 \in Numbers /\ i \in Numbers /\ i - 1 # 0 /\ i - 1 + 1 = i /\ i # 0
    BY <1>4 DEF Shift, Numbers, Oldest
  <2>2. disk'[0] = disk[0]
    BY <1>4, <2>1 DEF Shift, Renamed
  <2>3. ~skipped' => ~skipped /\ ~disk'[i - 1].exists
    BY <1>4, <2>1 DEF Shift, Renamed, Absent
  <2> QED
    BY <1>4, <2>1, <2>2, <2>3 DEF Shift
<1>5. CASE RenameCurrent
  BY <1>5 DEF RenameCurrent, Renamed, Absent
<1>6. CASE Create
  BY <1>6, FileTypes DEF Create, WithEntry, Created
<1>7. CASE RotateFails
  BY <1>7 DEF RotateFails
<1>8. CASE Crash
  BY <1>8 DEF Crash
<1>9. CASE UNCHANGED vars
  BY <1>9 DEF vars
<1> QED
  BY <1>1, <1>2, <1>3, <1>4, <1>5, <1>6, <1>7, <1>8, <1>9 DEF Next

-----------------------------------------------------------------------------
(* Sizes.                                                                  *)

LEMMA SizeStep == IInv /\ [Next]_vars => SizeKept'
<1> SUFFICES ASSUME IInv, [Next]_vars
             PROVE  SizeKept'
  OBVIOUS
<1> USE RotationAssumption, SizeAssumption, NumbersType DEF TypeOK, IInv, LogFile, SizeKept
<1>1. ASSUME NEW b \in Sizes, WritePlain(b)
      PROVE  SizeKept'
  <2>1. CASE handle
    <3>1. entry'.bytes = b /\ b \in Nat
      BY <1>1 DEF WritePlain, NextEntry
    <3>2. disk' = [disk EXCEPT ![0] = WithEntry(disk[0], entry')] /\ size' = size + b /\ handle' = handle
      BY <1>1, <2>1 DEF WritePlain
    <3>3. disk'[0].bytes = disk[0].bytes + b
      BY <3>1, <3>2 DEF WithEntry, Files
    <3>4. MaxSize > 0 => size + b <= MaxSize
      BY <1>1, <3>1 DEF WritePlain, NeedsRotation, NextEntry
    <3>5. \A k \in Numbers \ {0} : disk'[k] = disk[k]
      BY <3>2
    <3> QED
      BY <2>1, <3>2, <3>3, <3>4, <3>5
  <2>2. CASE ~handle
    BY <1>1, <2>2 DEF WritePlain
  <2> QED
    BY <2>1, <2>2
<1>2. ASSUME NEW b \in Sizes, WriteRotates(b)
      PROVE  SizeKept'
  BY <1>2 DEF WriteRotates
<1>3. CASE Open
  BY <1>3 DEF Open, Opened, Created
<1>4. CASE Shift
  <2>1. i - 1 \in Numbers /\ i \in Numbers /\ i - 1 # 0 /\ i - 1 + 1 = i /\ i # 0
    BY <1>4 DEF Shift, Numbers, Oldest
  <2>2. \A k \in Numbers : disk'[k] = Absent \/ \E j \in Numbers : disk'[k] = disk[j]
    BY <1>4, <2>1 DEF Shift, Renamed
  <2>3. ~handle'
    BY <1>4 DEF Shift
  <2> QED
    BY <2>2, <2>3 DEF Absent
<1>5. CASE RenameCurrent
  BY <1>5 DEF RenameCurrent, Renamed, Absent
<1>6. CASE Create
  <2>1. disk'[0].bytes = entry.bytes /\ Len(disk'[0].entries) = 1
    BY <1>6, EntryBytes DEF Create, WithEntry, Created
  <2> QED
    BY <1>6, <2>1 DEF Create
<1>7. CASE RotateFails
  BY <1>7 DEF RotateFails
<1>8. CASE Crash
  BY <1>8 DEF Crash
<1>9. CASE UNCHANGED vars
  BY <1>9 DEF vars
<1> QED
  BY <1>1, <1>2, <1>3, <1>4, <1>5, <1>6, <1>7, <1>8, <1>9 DEF Next

-----------------------------------------------------------------------------
(* The order of the files.                                                 *)

InPlace(k) == disk[k].exists => InOrder(disk[k]) /\ Follows(k)

\* The log file f is the old one, or a new one, up to the end of the history.
LEMMA LogFileOrder ==
  ASSUME TypeOK, \A k \in Numbers : InPlace(k), NEW f \in Files, f.exists,
         f.from = IF disk[0].exists THEN disk[0].from ELSE Len(history),
         history' \in Seq(Entries), Len(history) <= Len(history'),
         \A m \in 1..Len(history) : history'[m] = history[m],
         f.from + Len(f.entries) = Len(history'),
         \A m \in 1..Len(f.entries) : f.entries[m] = history'[f.from + m],
         disk' = [disk EXCEPT ![0] = f]
  PROVE  \A k \in Numbers : InPlace(k)'
<1> USE NumbersType DEF TypeOK
<1> SUFFICES ASSUME NEW k \in Numbers, disk'[k].exists
             PROVE  InOrder(disk[k])' /\ Follows(k)'
  BY DEF InPlace
<1>1. disk'[0] = f /\ \A j \in Numbers : j # 0 => disk'[j] = disk[j]
  OBVIOUS
<1>2. CASE k = 0
  <2>1. InOrder(disk[0])'
    BY <1>1 DEF InOrder, End
  <2>2. Follows(0)'
    BY <1>1 DEF Follows, End
  <2> QED
    BY <1>2, <2>1, <2>2
<1>3. CASE k # 0
  <2>1. disk'[k] = disk[k] /\ InOrder(disk[k]) /\ Follows(k) /\ k \in Nat /\ disk[k] \in Files
    BY <1>1, <1>3 DEF InPlace
  <2>2. InOrder(disk[k])'
    <3>1. disk[k].from \in Nat /\ Len(disk[k].entries) \in Nat /\ Len(history) \in Nat /\ Len(history') \in Nat
      <4>1. disk[k].from \in Nat /\ Len(disk[k].entries) \in Nat
        BY <2>1, FileFields, Zenon
      <4>2. Len(history) \in Nat /\ Len(history') \in Nat
        OBVIOUS
      <4> QED
        BY <4>1, <4>2
    <3>2. \A m \in 1..Len(disk[k].entries) : disk[k].from + m \in 1..Len(history)
      <4>1. disk[k].from + Len(disk[k].entries) <= Len(history)
        BY <2>1 DEF InOrder, End
      <4>2. \A a, l, h \in Nat : a + l <= h => \A m \in 1..l : a + m \in 1..h
        OBVIOUS
      <4> QED
        BY <3>1, <4>1, <4>2, Zenon
    <3>3. End(disk'[k]) <= Len(history')
      BY <2>1, <3>1 DEF InOrder, End
    <3>4. \A m \in 1..Len(disk'[k].entries) : disk'[k].entries[m] = history'[disk'[k].from + m]
      BY <2>1, <3>2 DEF InOrder
    <3> QED
      BY <3>3, <3>4 DEF InOrder
  <2>3. 0 \in 0..(k - 1) /\ \A j \in 0..(k - 1) : j \in Numbers
    BY <1>3, <2>1 DEF Numbers
  <2>4. End(disk'[k]) = End(disk[k])
    BY <2>1
  <2>5. CASE \A j \in 0..(k - 1) : ~disk[j].exists
    <3>1. f.from = End(disk[k])
      BY <2>1, <2>3, <2>5 DEF Follows
    <3>2. \A m \in (0 + 1)..(k - 1) : ~disk'[m].exists
      <4>1. \A m \in (0 + 1)..(k - 1) : m \in 0..(k - 1) /\ m # 0
        BY <2>1
      <4> QED
        BY <1>1, <2>3, <2>5, <4>1
    <3> QED
      BY <1>1, <2>2, <2>3, <2>4, <3>1, <3>2 DEF Follows
  <2>6. CASE ~ \A j \in 0..(k - 1) : ~disk[j].exists
    <3>1. PICK j \in 0..(k - 1) : /\ disk[j].exists /\ disk[j].from = End(disk[k])
                                 /\ \A m \in (j + 1)..(k - 1) : ~disk[m].exists
      BY <2>1, <2>6 DEF Follows
    <3>2. disk'[j].exists /\ disk'[j].from = End(disk'[k])
      BY <1>1, <2>3, <2>4, <3>1
    <3>3. \A m \in (j + 1)..(k - 1) : ~disk'[m].exists
      <4>1. \A m \in (j + 1)..(k - 1) : m \in 0..(k - 1) /\ m # 0
        BY <2>1
      <4> QED
        BY <1>1, <2>3, <3>1, <4>1
    <3> QED
      BY <2>2, <3>1, <3>2, <3>3 DEF Follows
  <2> QED
    BY <2>5, <2>6
<1> QED
  BY <1>2, <1>3

\* One more entry for a file that ends where the history does.
LEMMA AppendOrder ==
  ASSUME NEW f \in Files, NEW e \in Entries, history \in Seq(Entries), history' = Append(history, e),
         f.from + Len(f.entries) = Len(history), \A m \in 1..Len(f.entries) : f.entries[m] = history[f.from + m]
  PROVE  LET g == WithEntry(f, e) IN
         /\ history' \in Seq(Entries) /\ Len(history) <= Len(history')
         /\ \A m \in 1..Len(history) : history'[m] = history[m]
         /\ g.exists = f.exists /\ g.from = f.from
         /\ g.from + Len(g.entries) = Len(history')
         /\ \A m \in 1..Len(g.entries) : g.entries[m] = history'[g.from + m]
<1> DEFINE g == WithEntry(f, e)
<1>1. g.exists = f.exists /\ g.from = f.from /\ g.entries = Append(f.entries, e)
  BY DEF WithEntry, Files
<1>2. f.from \in Nat /\ f.entries \in Seq(Entries) /\ Len(f.entries) \in Nat /\ Len(history) \in Nat
  BY DEF Files
<1>3. Len(history') = Len(history) + 1 /\ history'[Len(history) + 1] = e /\ history' \in Seq(Entries)
  OBVIOUS
<1>4. \A m \in 1..Len(history) : history'[m] = history[m]
  OBVIOUS
<1>5. Len(g.entries) = Len(f.entries) + 1 /\ g.entries[Len(f.entries) + 1] = e
  BY <1>1, <1>2
<1>6. \A m \in 1..Len(f.entries) : g.entries[m] = f.entries[m]
  BY <1>1, <1>2
<1>7. ASSUME NEW m \in 1..Len(g.entries)
      PROVE  g.entries[m] = history'[f.from + m]
  <2>1. CASE m = Len(f.entries) + 1
    <3>1. f.from + m = Len(history) + 1
      BY <1>2, <2>1
    <3> QED
      BY <1>3, <1>5, <2>1, <3>1
  <2>2. CASE m # Len(f.entries) + 1
    <3>1. m \in Nat /\ 1 <= m /\ m <= Len(f.entries) + 1
      BY <1>2, <1>5
    <3>2. m \in 1..Len(f.entries)
      BY <1>2, <2>2, <3>1
    <3>3. f.from + m \in 1..Len(history)
      BY <1>2, <3>2
    <3> QED
      BY <1>4, <1>6, <3>2, <3>3
  <2> QED
    BY <2>1, <2>2
<1>8. g.from + Len(g.entries) = Len(history')
  BY <1>1, <1>2, <1>3, <1>5
<1> QED
  BY <1>1, <1>2, <1>3, <1>4, <1>7, <1>8

\* A file gets the next number, which is free or that of the oldest backup.
LEMMA RenameOrder ==
  ASSUME TypeOK, \A x \in Numbers : InPlace(x), NEW k \in Numbers, k + 1 \in Numbers, disk[k].exists,
         k + 1 = Oldest \/ ~disk[k + 1].exists, disk' = Renamed(k), history' = history
  PROVE  \A x \in Numbers : InPlace(x)'
<1> USE NumbersType DEF TypeOK
<1> SUFFICES ASSUME NEW x \in Numbers, disk'[x].exists
             PROVE  InOrder(disk[x])' /\ Follows(x)'
  BY DEF InPlace
<1>1. disk'[k + 1] = disk[k] /\ disk'[k] = Absent /\ \A j \in Numbers \ {k, k + 1} : disk'[j] = disk[j]
  BY DEF Renamed
<1>2. k \in Nat /\ x \in Nat /\ x # k
  BY <1>1 DEF Absent
<1>3. CASE x = k + 1
  <2>1. InOrder(disk[k]) /\ Follows(k)
    BY DEF InPlace
  <2>2. InOrder(disk[x])'
    BY <1>1, <1>3, <2>1 DEF InOrder, End
  <2>3. \A j \in 0..(k - 1) : disk'[j] = disk[j]
    BY <1>1, <1>2 DEF Numbers
  <2>4. CASE \A j \in 0..(k - 1) : ~disk[j].exists
    <3>1. \A j \in 0..(x - 1) : ~disk'[j].exists
      BY <1>1, <1>2, <1>3, <2>3, <2>4 DEF Absent
    <3> QED
      BY <1>1, <1>3, <2>1, <2>2, <2>4, <3>1 DEF Follows, End
  <2>5. CASE ~ \A j \in 0..(k - 1) : ~disk[j].exists
    <3>1. PICK j \in 0..(k - 1) : /\ disk[j].exists /\ disk[j].from = End(disk[k])
                                 /\ \A m \in (j + 1)..(k - 1) : ~disk[m].exists
      BY <2>1, <2>5 DEF Follows
    <3>2. j \in 0..(x - 1) /\ disk'[j].exists /\ disk'[j].from = End(disk[x])'
      BY <1>1, <1>2, <1>3, <2>3, <3>1 DEF End
    <3>3. \A m \in (j + 1)..(x - 1) : ~disk'[m].exists
      BY <1>1, <1>2, <1>3, <2>3, <3>1 DEF Absent
    <3> QED
      BY <2>2, <3>2, <3>3 DEF Follows
  <2> QED
    BY <2>4, <2>5
<1>4. CASE x < k
  <2>1. disk'[x] = disk[x] /\ InOrder(disk[x]) /\ Follows(x)
    BY <1>1, <1>2, <1>4 DEF InPlace
  <2>2. \A j \in 0..(x - 1) : disk'[j] = disk[j]
    BY <1>1, <1>2, <1>4 DEF Numbers
  <2>3. InOrder(disk[x])'
    BY <1>2, <2>1 DEF InOrder, End
  <2>4. End(disk[x])' = End(disk[x]) /\ disk'[x].from = disk[x].from
    BY <2>1 DEF End
  <2>5. Follows(x)'
    BY <1>2, <2>1, <2>2, <2>4 DEF Follows
  <2> QED
    BY <2>3, <2>5
<1>5. CASE x > k + 1
  <2>1. disk'[x] = disk[x] /\ InOrder(disk[x]) /\ Follows(x) /\ ~disk[k + 1].exists
    BY <1>1, <1>2, <1>5 DEF InPlace, Numbers
  <2>2. InOrder(disk[x])'
    BY <2>1 DEF InOrder, End
  <2>3. PICK j \in 0..(x - 1) : /\ disk[j].exists /\ disk[j].from = End(disk[x])
                               /\ \A m \in (j + 1)..(x - 1) : ~disk[m].exists
    BY <1>2, <1>5, <2>1 DEF Follows
  <2>4. j >= k /\ j # k + 1
    BY <1>2, <1>5, <2>1, <2>3
  <2>5. \A m \in (k + 2)..(x - 1) : disk'[m] = disk[m]
    BY <1>1, <1>2 DEF Numbers
  <2>6. CASE j = k
    <3>1. k + 1 \in 0..(x - 1) /\ disk'[k + 1].exists /\ disk'[k + 1].from = End(disk[x])'
      BY <1>1, <1>2, <1>5, <2>1, <2>3, <2>6 DEF End
    <3>2. \A m \in (k + 1 + 1)..(x - 1) : ~disk'[m].exists
      BY <1>2, <2>3, <2>5, <2>6
    <3> QED
      BY <2>2, <3>1, <3>2 DEF Follows
  <2>7. CASE j # k
    <3>1. j \in (k + 2)..(x - 1)
      BY <1>2, <2>3, <2>4, <2>7
    <3>2. disk'[j].exists /\ disk'[j].from = End(disk[x])'
      BY <2>1, <2>3, <2>5, <3>1 DEF End
    <3>3. \A m \in (j + 1)..(x - 1) : ~disk'[m].exists
      BY <1>2, <2>3, <2>5, <3>1
    <3> QED
      BY <2>2, <2>3, <3>2, <3>3 DEF Follows
  <2> QED
    BY <2>6, <2>7
<1> QED
  BY <1>2, <1>3, <1>4, <1>5

LEMMA OrderStep == IInv /\ [Next]_vars => NoGap'
<1> SUFFICES ASSUME IInv, [Next]_vars, ~skipped'
             PROVE  \A k \in Numbers : InPlace(k)'
  BY DEF NoGap, InPlace
<1> USE NumbersType DEF IInv
<1> DEFINE Kept == disk' = disk /\ history' = history
<1>0. ~skipped /\ \A k \in Numbers : InPlace(k)
  BY DEF NoGap, InPlace, Next, vars, WritePlain, WriteRotates, Open, Shift, RenameCurrent, Create, RotateFails, Crash
<1>1. CASE Kept
  BY <1>0, <1>1 DEF InPlace, InOrder, Follows, End
<1>2. ASSUME NEW b \in Sizes, WritePlain(b)
      PROVE  Kept \/ \A k \in Numbers : InPlace(k)'
  <2>1. NextEntry(b) \in Entries /\ entry' = NextEntry(b)
    BY <1>2, NextEntryType DEF WritePlain
  <2>2. CASE handle
    <3>1. disk' = [disk EXCEPT ![0] = WithEntry(disk[0], NextEntry(b))] /\ history' = Append(history, NextEntry(b))
      BY <1>2, <2>1, <2>2 DEF WritePlain
    <3>2. disk[0].exists /\ disk[0] \in Files /\ history \in Seq(Entries)
      BY <2>2 DEF LogFile, TypeOK
    <3>3. disk[0].from + Len(disk[0].entries) = Len(history)
      BY <1>0, <3>2 DEF InPlace, Follows, End
    <3>4. \A m \in 1..Len(disk[0].entries) : disk[0].entries[m] = history[disk[0].from + m]
      BY <1>0, <3>2 DEF InPlace, InOrder
    <3>5. WithEntry(disk[0], NextEntry(b)) \in Files
      BY <2>1, <3>2, FileTypes
    <3> QED
      BY <1>0, <2>1, <3>1, <3>2, <3>3, <3>4, <3>5, AppendOrder, LogFileOrder
  <2>3. CASE ~handle
    BY <1>2, <2>3 DEF WritePlain
  <2> QED
    BY <2>2, <2>3
<1>3. ASSUME NEW b \in Sizes, WriteRotates(b)
      PROVE  Kept
  BY <1>3 DEF WriteRotates
<1>4. CASE Open
  <2>1. CASE disk[0].exists
    BY <1>1, <1>4, <2>1 DEF Open, Opened
  <2>2. CASE ~disk[0].exists
    <3>1. disk' = [disk EXCEPT ![0] = Created] /\ history' = history /\ Created \in Files
      BY <1>4, <2>2, FileTypes DEF Open, Opened
    <3>2. Created.exists /\ Created.from = Len(history) /\ Created.entries = << >>
      BY DEF Created
    <3>3. history' \in Seq(Entries) /\ Len(history') \in Nat /\ Len(history) = Len(history')
      BY <3>1 DEF TypeOK
    <3>4. Created.from + Len(Created.entries) = Len(history')
      BY <3>2, <3>3
    <3>5. \A m \in 1..Len(Created.entries) : Created.entries[m] = history'[Created.from + m]
      BY <3>2
    <3>6. Len(history) <= Len(history') /\ \A m \in 1..Len(history) : history'[m] = history[m]
      BY <3>1, <3>3
    <3>7. Created.from = IF disk[0].exists THEN disk[0].from ELSE Len(history)
      BY <2>2, <3>2
    <3> QED
      BY <1>0, <3>1, <3>2, <3>3, <3>4, <3>5, <3>6, <3>7, LogFileOrder
  <2> QED
    BY <2>1, <2>2
<1>5. CASE Shift
  <2>1. CASE ~disk[i - 1].exists
    BY <1>1, <1>5, <2>1 DEF Shift
  <2>2. CASE disk[i - 1].exists
    <3>1. i - 1 \in Numbers /\ (i - 1) + 1 \in Numbers /\ (i - 1) + 1 = i
      BY <1>5, RotationAssumption DEF Shift, Numbers, Oldest, TypeOK
    <3>2. disk' = Renamed(i - 1) /\ history' = history
      BY <1>0, <1>5, <2>2 DEF Shift
    <3>3. (i - 1) + 1 = Oldest \/ ~disk[(i - 1) + 1].exists
      BY <1>0, <1>5, <3>1, RotationAssumption DEF Shift, Shifting, Oldest, TypeOK
    <3> QED
      BY <1>0, <2>2, <3>1, <3>2, <3>3, RenameOrder
  <2> QED
    BY <2>1, <2>2
<1>6. CASE RenameCurrent
  <2>1. disk' = Renamed(0) /\ history' = history /\ disk[0].exists
    BY <1>6 DEF RenameCurrent, LogFile
  <2>2. 0 + 1 \in Numbers /\ (0 + 1 = Oldest \/ ~disk[0 + 1].exists)
    BY <1>0, <1>6, RotationAssumption DEF RenameCurrent, Shifting, Oldest, TypeOK
  <2> QED
    BY <1>0, <2>1, <2>2, RenameOrder
<1>7. CASE Create
  <2>1. ~disk[0].exists /\ entry \in Entries /\ history \in Seq(Entries) /\ Created \in Files
    BY <1>7, FileTypes DEF Create, LogFile, TypeOK
  <2>2. disk' = [disk EXCEPT ![0] = WithEntry(Created, entry)] /\ history' = Append(history, entry)
    BY <1>7 DEF Create
  <2>3. Created.from + Len(Created.entries) = Len(history) /\ Created.exists /\ Created.from = Len(history)
    BY <2>1 DEF Created
  <2>4. \A m \in 1..Len(Created.entries) : Created.entries[m] = history[Created.from + m]
    BY DEF Created
  <2>5. WithEntry(Created, entry) \in Files
    BY <2>1, FileTypes
  <2>6. LET g == WithEntry(Created, entry) IN
        /\ history' \in Seq(Entries) /\ Len(history) <= Len(history')
        /\ \A m \in 1..Len(history) : history'[m] = history[m]
        /\ g.exists = Created.exists /\ g.from = Created.from
        /\ g.from + Len(g.entries) = Len(history')
        /\ \A m \in 1..Len(g.entries) : g.entries[m] = history'[g.from + m]
    BY <2>1, <2>2, <2>3, <2>4, AppendOrder
  <2>7. WithEntry(Created, entry).from = IF disk[0].exists THEN disk[0].from ELSE Len(history)
    BY <2>1, <2>3, <2>6
  <2>8. WithEntry(Created, entry).exists
    BY <2>3, <2>6
  <2> HIDE DEF Kept
  <2> QED
    BY <1>0, <2>2, <2>5, <2>6, <2>7, <2>8, LogFileOrder
<1>8. CASE RotateFails \/ Crash \/ UNCHANGED vars
  BY <1>1, <1>8 DEF RotateFails, Crash, vars
<1> QED
  BY <1>1, <1>2, <1>3, <1>4, <1>5, <1>6, <1>7, <1>8 DEF Next

-----------------------------------------------------------------------------
(* The theorems.                                                           *)

LEMMA InitInv == Init => IInv
<1> SUFFICES ASSUME Init
             PROVE  IInv
  OBVIOUS
<1>1. Absent \in Files /\ ~Absent.exists /\ Absent.bytes = 0
  BY DEF Absent, Files
<1>2. disk \in [Numbers -> Files] /\ \A k \in Numbers : disk[k] = Absent
  BY <1>1 DEF Init
<1>3. entry \in [id : 0..MaxEntries, bytes : Nat] /\ history \in Seq(Entries) /\ i \in 0..MaxBackups /\ crashes \in 0..MaxCrashes
  BY RotationAssumption DEF Init
<1>4. TypeOK
  BY <1>2, <1>3 DEF Init, TypeOK
<1>5. LogFile /\ Shifting
  BY DEF Init, LogFile, Shifting
<1>6. NoGap /\ SizeKept
  BY <1>1, <1>2, RotationAssumption DEF Init, NoGap, SizeKept
<1> QED
  BY <1>4, <1>5, <1>6 DEF IInv

LEMMA StepInv == IInv /\ [Next]_vars => IInv'
  BY TypeStep, PlaceStep, SizeStep, OrderStep DEF IInv

\* The invariant holds in every state that writing, rotating and restarting reach.
THEOREM Invariance == Spec => []IInv
  BY InitInv, StepInv, PTL DEF Spec

\* Rotation, failed or interrupted by a crash, leaves the newest entries on disk in order: what rotate
\* renames and what newRotatingFileWriter finds fit together for any number of backups.
THEOREM NoGapHolds == Spec => []NoGap
  BY Invariance, PTL DEF IInv

\* currentSize is the length of the open file, so no file exceeds maxSize but by one entry.
THEOREM SizeHolds == Spec => []SizeKept
  BY Invariance, PTL DEF IInv

\* No step gives up a file but the oldest.
LEMMA StepKeeps == IInv /\ [Next]_vars =>
   [~skipped' => \A k \in Numbers \ {Oldest} : disk[k].exists => Survives(disk[k])]_vars
<1> SUFFICES ASSUME IInv, [Next]_vars, ~skipped', NEW k \in Numbers \ {Oldest}, disk[k].exists
             PROVE  Survives(disk[k])
  OBVIOUS
<1> USE NumbersType DEF IInv, TypeOK
<1>0. k \in Nat /\ k + 1 \in Numbers /\ disk[k] \in Files
  BY DEF Numbers
<1>1. ASSUME NEW j \in Numbers, disk'[j] = disk[k]
      PROVE  Survives(disk[k])
  <2>1. Len(disk[k].entries) \in Nat /\ disk'[j].exists
    BY <1>0, <1>1 DEF Files
  <2> QED
    BY <1>1, <2>1 DEF Survives
<1>2. ASSUME NEW b \in Sizes, WritePlain(b)
      PROVE  Survives(disk[k])
  <2>1. CASE handle /\ k = 0
    <3>1. disk'[0] = WithEntry(disk[0], NextEntry(b)) /\ NextEntry(b) \in Entries
      BY <1>2, <2>1, NextEntryType DEF WritePlain
    <3>2. /\ disk'[0].exists = disk[0].exists /\ disk'[0].from = disk[0].from
          /\ disk'[0].entries = Append(disk[0].entries, NextEntry(b))
      BY <1>0, <2>1, <3>1 DEF WithEntry, Files
    <3>3. disk[0].entries \in Seq(Entries)
      BY <1>0, <2>1 DEF Files
    <3>4. /\ Len(disk[0].entries) <= Len(disk'[0].entries)
          /\ \A m \in 1..Len(disk[0].entries) : disk'[0].entries[m] = disk[0].entries[m]
      BY <3>1, <3>2, <3>3
    <3> QED
      BY <2>1, <3>2, <3>4 DEF Survives
  <2>2. CASE ~(handle /\ k = 0)
    BY <1>1, <1>2, <2>2 DEF WritePlain
  <2> QED
    BY <2>1, <2>2
<1>3. ASSUME NEW b \in Sizes, WriteRotates(b)
      PROVE  Survives(disk[k])
  BY <1>1, <1>3 DEF WriteRotates
<1>4. CASE Open
  BY <1>1, <1>4 DEF Open, Opened
<1>5. ASSUME NEW n \in Numbers, n + 1 \in Numbers, n + 1 = Oldest \/ ~disk[n + 1].exists, disk' = Renamed(n)
      PROVE  Survives(disk[k])
  <2>1. CASE k = n
    BY <1>0, <1>1, <1>5, <2>1 DEF Renamed
  <2>2. CASE k # n
    <3>1. k # n + 1
      BY <1>5
    <3> QED
      BY <1>1, <1>5, <2>2, <3>1 DEF Renamed
  <2> QED
    BY <2>1, <2>2
<1>6. CASE Shift
  <2>1. CASE disk' = disk
    BY <1>1, <2>1
  <2>2. CASE disk' # disk
    <3>1. i - 1 \in Numbers /\ (i - 1) + 1 \in Numbers /\ (i - 1) + 1 = i
      BY <1>6, RotationAssumption DEF Shift, Numbers, Oldest
    <3>2. disk' = Renamed(i - 1)
      BY <1>6, <2>2 DEF Shift
    <3>3. (i - 1) + 1 = Oldest \/ ~disk[(i - 1) + 1].exists
      BY <1>6, <3>1, RotationAssumption DEF Shift, Shifting, Oldest
    <3> QED
      BY <1>5, <3>1, <3>2, <3>3
  <2> QED
    BY <2>1, <2>2
<1>7. CASE RenameCurrent
  <2>1. disk' = Renamed(0)
    BY <1>7 DEF RenameCurrent
  <2>2. 0 + 1 \in Numbers /\ (0 + 1 = Oldest \/ ~disk[0 + 1].exists)
    BY <1>7, RotationAssumption DEF RenameCurrent, Shifting, Oldest
  <2> QED
    BY <1>5, <2>1, <2>2
<1>8. CASE Create
  BY <1>1, <1>8 DEF Create, LogFile
<1>9. CASE RotateFails \/ Crash \/ UNCHANGED vars
  BY <1>1, <1>9 DEF RotateFails, Crash, vars
<1> QED
  BY <1>2, <1>3, <1>4, <1>6, <1>7, <1>8, <1>9 DEF Next

\* Rotating never gives up more than the oldest backup, whatever fails.
THEOREM OldestDroppedHolds == Spec => OnlyOldestDropped
  BY Invariance, StepKeeps, PTL DEF Spec, OnlyOldestDropped
=============================================================================
