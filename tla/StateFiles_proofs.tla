-------------------------- MODULE StateFiles_proofs -------------------------
(***************************************************************************)
(* Proofs about StateFiles, for any number of processes, watchlists and    *)
(* saves.  A rename is right only because of what memory and directory     *)
(* have to do with each other at that point, so the invariant says, for    *)
(* each place in Save, which list lies on disk and which saves the         *)
(* directories of the past belong to.  Only one process runs, so a step    *)
(* has to be right for that one.                                           *)
(***************************************************************************)
EXTENDS StateFiles, TLAPS

(* Places before the cursor of the save under way is renamed, and places   *)
(* where nothing is under way or the cursor is in place.                   *)
Saving == {"writeWatch", "fsyncWatch", "renameWatch", "syncWatch",
           "writeCursor", "fsyncCursor", "renameCursor"}
Settled == {"idle", "syncCursor"}

(* Places where the watchlist file is that of the save under way.          *)
ListWritten == {"syncWatch", "writeCursor", "fsyncCursor", "renameCursor"}

(* At most the holder of the lock runs.                                    *)
LockInv == \A p \in Procs : pc[p] # "off" => lock = p

(* The directory is one of the past, and no save of the past is later.     *)
PastInv == dir \in past /\ \A d \in past : SaveOf(d) <= SaveOf(dir)

(* The cursor of the directory, seen from the process that runs.           *)
CursorOf(p) ==
  /\ pc[p] \in Settled => SaveOf(dir) = mem[p].save
  /\ pc[p] \in Saving => /\ mem[p].save = SaveOf(dir) + 1
                         /\ mem[p].list \in at[SaveOf(dir)]
                         /\ mem[p].list \in at[mem[p].save]

(* The watchlist of the directory, seen from the process that runs.        *)
WatchOf(p) ==
  /\ pc[p] \in ListWritten => dir.watch = mem[p].list
  /\ pc[p] \in (Saving \cup Settled) \ {"syncWatch"} =>
       cached[p] = Nothing \/ dir.watch = cached[p]

(* What is renamed was synced.                                             *)
TmpOf(p) == pc[p] \in {"renameWatch", "renameCursor"} => tmp = "synced"

Running(p) == CursorOf(p) /\ WatchOf(p) /\ TmpOf(p)

DiskInv == Recoverable /\ SavedStays /\ PastInv

IInv == TypeOK /\ DiskInv /\ LockInv /\ \A p \in Procs : Running(p)

-----------------------------------------------------------------------------
(* Operators                                                               *)

LEMMA SaveOfType == ASSUME NEW d \in Directory, Parses(d) PROVE SaveOf(d) \in Saves
  <1>1. CASE d.cursor = Absent
    BY <1>1, FilesAssumption DEF SaveOf, FilesAssumption, Saves
  <1>2. CASE d.cursor # Absent
    <2>1. d.cursor \in Cursor
      BY <1>2 DEF Directory, Parses
    <2>2. QED
      BY <1>2, <2>1 DEF SaveOf, Cursor
  <1>3. QED
    BY <1>1, <1>2

(* Replacing the watchlist file keeps the cursor, and gives the list.      *)
LEMMA NewWatch ==
  ASSUME NEW d \in Directory, Parses(d), NEW l \in Lists,
         NEW e, e = [d EXCEPT !.watch = l]
  PROVE  /\ e \in Directory /\ Parses(e)
         /\ SaveOf(e) = SaveOf(d) /\ ListOf(e) = l /\ e.watch = l
  <1>1. l # Absent /\ l # Torn
    BY FilesAssumption DEF FilesAssumption
  <1>2. e \in Directory /\ e.watch = l /\ e.cursor = d.cursor
    BY DEF Directory
  <1>3. QED
    BY <1>1, <1>2 DEF Parses, SaveOf, ListOf

(* Replacing the cursor file beside a watchlist file keeps the list.       *)
LEMMA NewCursor ==
  ASSUME NEW d \in Directory, Parses(d), d.watch # Absent, NEW k \in Saves,
         NEW e, e = [d EXCEPT !.cursor = [save |-> k, fields |-> NoFields]]
  PROVE  /\ e \in Directory /\ Parses(e)
         /\ SaveOf(e) = k /\ ListOf(e) = d.watch /\ e.watch = d.watch
  <1> DEFINE c == [save |-> k, fields |-> NoFields]
  <1>1. c \in Cursor
    BY DEF Cursor
  <1>2. c # Absent /\ c # Torn
    BY <1>1, FilesAssumption DEF FilesAssumption
  <1>3. e \in Directory /\ e.cursor = c /\ e.watch = d.watch
    BY <1>1 DEF Directory
  <1>4. SaveOf(e) = k
    BY <1>2, <1>3 DEF SaveOf
  <1>5. ListOf(e) = d.watch /\ Parses(e)
    BY <1>2, <1>3 DEF Parses, ListOf
  <1>6. QED
    BY <1>3, <1>4, <1>5

(* What a reader takes from a file that parses.                            *)
LEMMA ListOfType == ASSUME NEW d \in Directory, Parses(d) PROVE ListOf(d) \in Lists
  <1>1. CASE d.watch # Absent
    BY <1>1 DEF Directory, Parses, ListOf
  <1>2. CASE d.watch = Absent /\ d.cursor = Absent
    BY <1>2, FilesAssumption DEF ListOf, FilesAssumption
  <1>3. CASE d.watch = Absent /\ d.cursor # Absent
    <2>1. d.cursor \in Cursor
      BY <1>3 DEF Directory, Parses
    <2>2. QED
      BY <1>3, <2>1, FilesAssumption DEF ListOf, Cursor, FilesAssumption
  <1>4. QED
    BY <1>1, <1>2, <1>3

(* What a save does to the watchlists a restart may find.                  *)
LEMMA NewAt ==
  ASSUME NEW a \in [Saves -> SUBSET Lists], NEW l \in Lists,
         NEW k \in Saves, k + 1 \in Saves,
         NEW b, b = [a EXCEPT ![k] = @ \cup {l}, ![k + 1] = {l}]
  PROVE  /\ b \in [Saves -> SUBSET Lists]
         /\ l \in b[k] /\ l \in b[k + 1]
         /\ \A j \in Saves : j <= k => a[j] \subseteq b[j]
  <1> DEFINE n == k + 1
  <1>1. n \in Saves /\ k # n /\ \A j \in Saves : j <= k => j # n
    BY DEF Saves
  <1> HIDE DEF n
  <1>2. b = [a EXCEPT ![k] = @ \cup {l}, ![n] = {l}]
    BY DEF n
  <1>3. b \in [Saves -> SUBSET Lists]
    BY <1>1, <1>2
  <1>4. b[n] = {l} /\ b[k] = a[k] \cup {l}
    BY <1>1, <1>2
  <1>5. \A j \in Saves \ {n} : a[j] \subseteq b[j]
    BY <1>1, <1>2
  <1>6. QED
    BY <1>1, <1>3, <1>4, <1>5 DEF n

-----------------------------------------------------------------------------
(* One process at a time                                                   *)

LEMMA OneRuns ==
  ASSUME LockInv, pc \in [Procs -> Places], NEW p \in Procs, NEW s \in Places,
         pc' = [pc EXCEPT ![p] = s],
         \/ pc[p] # "off" /\ (lock' = lock \/ s = "off")
         \/ lock = Nobody /\ lock' = p
  PROVE  /\ LockInv' /\ pc' \in [Procs -> Places] /\ pc'[p] = s
         /\ \A q \in Procs \ {p} : pc'[q] = "off"
  BY FilesAssumption DEF LockInv, FilesAssumption

LEMMA OffRuns == ASSUME NEW q, pc[q] = "off" PROVE Running(q)
  BY DEF Running, CursorOf, WatchOf, TmpOf, Saving, Settled, ListWritten

(* A step of one process needs to be right for that process.               *)
LEMMA Assemble ==
  ASSUME TypeOK', DiskInv', LockInv', NEW p \in Procs, Running(p)',
         \A q \in Procs \ {p} : pc'[q] = "off"
  PROVE  IInv'
  <1>1. ASSUME NEW q \in Procs PROVE Running(q)'
    <2>1. CASE q = p
      BY <2>1
    <2>2. CASE q # p
      <3>1. (pc[q] = "off")'
        BY <2>2
      <3>2. QED
        BY <3>1 DEF Running, CursorOf, WatchOf, TmpOf, Saving, Settled, ListWritten
    <2>3. QED
      BY <2>1, <2>2
  <1>2. QED
    BY <1>1 DEF IInv

(* A step that leaves the directory, its past and the histories alone.     *)
LEMMA SameDisk ==
  ASSUME DiskInv, UNCHANGED <<dir, past, at, safe>>
  PROVE  DiskInv'
  BY DEF DiskInv, Recoverable, SavedStays, PastInv

-----------------------------------------------------------------------------
(* Starting and stopping                                                   *)

LEMMA OpenStep == ASSUME IInv, NEW p \in Procs, Open(p) PROVE IInv'
  <1>1. "open" \in Places
    BY DEF Places
  <1>2. /\ LockInv' /\ pc' \in [Procs -> Places] /\ pc'[p] = "open"
        /\ \A q \in Procs \ {p} : pc'[q] = "off"
    BY <1>1, OneRuns DEF IInv, TypeOK, Open
  <1>3. TypeOK'
    BY <1>2 DEF IInv, TypeOK, Open
  <1>4. DiskInv'
    BY SameDisk DEF IInv, Open
  <1>5. Running(p)'
    BY <1>2 DEF Running, CursorOf, WatchOf, TmpOf, Saving, Settled, ListWritten
  <1>6. QED
    BY <1>2, <1>3, <1>4, <1>5, Assemble

LEMMA LoadStep == ASSUME IInv, NEW p \in Procs, Load(p) PROVE IInv'
  <1>1. "idle" \in Places
    BY DEF Places
  <1>2. /\ LockInv' /\ pc' \in [Procs -> Places] /\ pc'[p] = "idle"
        /\ \A q \in Procs \ {p} : pc'[q] = "off"
    BY <1>1, OneRuns DEF IInv, TypeOK, Load
  <1>3. SaveOf(dir) \in Saves /\ ListOf(dir) \in Lists
    BY SaveOfType, ListOfType DEF IInv, TypeOK, Load
  <1>4. dir.watch = Absent \/ dir.watch \in Lists
    BY DEF IInv, TypeOK, Load, Directory, Parses
  <1>5. /\ mem' \in [Procs -> [save : Saves, list : Lists]]
        /\ mem'[p].save = SaveOf(dir)
    BY <1>3 DEF IInv, TypeOK, Load
  <1>6. /\ cached' \in [Procs -> Lists \cup {Nothing}]
        /\ cached'[p] = Nothing \/ dir.watch = cached'[p]
    BY <1>4 DEF IInv, TypeOK, Load
  <1>7. TypeOK'
    BY <1>2, <1>5, <1>6 DEF IInv, TypeOK, Load
  <1>8. DiskInv'
    BY SameDisk DEF IInv, Load
  <1>9. Running(p)'
    BY <1>2, <1>5, <1>6
    DEF Running, CursorOf, WatchOf, TmpOf, Saving, Settled, ListWritten, Load
  <1>10. QED
    BY <1>2, <1>7, <1>8, <1>9, Assemble

LEMMA StartType == Start \in [save : Saves, list : Lists]
  BY FilesAssumption DEF Start, Saves, FilesAssumption

(* What Close, a death and a failed write have in common.                  *)
LEMMA ExitStep ==
  ASSUME IInv, NEW p \in Procs, pc[p] # "off", Exit(p),
         tmp' \in {"none", "written", "synced"},
         UNCHANGED <<dir, past, at, safe>>
  PROVE  IInv'
  <1>1. "off" \in Places
    BY DEF Places
  <1>2. /\ LockInv' /\ pc' \in [Procs -> Places] /\ pc'[p] = "off"
        /\ \A q \in Procs \ {p} : pc'[q] = "off"
    BY <1>1, OneRuns DEF IInv, TypeOK, Exit
  <1>3. TypeOK'
    BY <1>2, StartType DEF IInv, TypeOK, Exit
  <1>4. DiskInv'
    BY SameDisk DEF IInv
  <1>5. Running(p)'
    BY <1>2 DEF Running, CursorOf, WatchOf, TmpOf, Saving, Settled, ListWritten
  <1>6. QED
    BY <1>2, <1>3, <1>4, <1>5, Assemble

LEMMA FailStep == ASSUME IInv, NEW p \in Procs, SaveFails(p) PROVE IInv'
  BY ExitStep DEF SaveFails

LEMMA DieStep == ASSUME IInv, NEW p \in Procs, Die(p) PROVE IInv'
  BY ExitStep DEF Die, IInv, TypeOK

LEMMA PowerStep == ASSUME IInv, PowerFails PROVE IInv'
  <1>1. PICK d \in past : dir' = d /\ past' = {d}
    BY DEF PowerFails
  <1>2. d \in Directory /\ Parses(d)
    BY DEF IInv, TypeOK, DiskInv, Recoverable
  <1>3. SaveOf(d) \in Saves
    BY <1>2, SaveOfType
  <1>4. pc' = [q \in Procs |-> "off"] /\ "off" \in Places
    BY DEF PowerFails, Places
  <1>5. TypeOK'
    BY <1>1, <1>2, <1>4, StartType DEF PowerFails, IInv, TypeOK
  <1>6. DiskInv'
    BY <1>1, <1>2, <1>3
    DEF PowerFails, IInv, DiskInv, Recoverable, SavedStays, PastInv, Saves
  <1>7. LockInv'
    BY <1>4 DEF LockInv
  <1>8. ASSUME NEW q \in Procs PROVE Running(q)'
    BY <1>4 DEF Running, CursorOf, WatchOf, TmpOf, Saving, Settled, ListWritten
  <1>9. QED
    BY <1>5, <1>6, <1>7, <1>8 DEF IInv

-----------------------------------------------------------------------------
(* Saving                                                                  *)

(* The steps that concern the temporary file only.                         *)
LEMMA TmpStep ==
  ASSUME IInv, NEW p \in Procs,
         NEW from \in {"writeWatch", "fsyncWatch", "writeCursor", "fsyncCursor"},
         NEW to, NEW content \in {"written", "synced"},
         Temporary(p, from, to, content),
         \/ from = "writeWatch" /\ to = "fsyncWatch"
         \/ from = "fsyncWatch" /\ to = "renameWatch" /\ content = "synced"
         \/ from = "writeCursor" /\ to = "fsyncCursor"
         \/ from = "fsyncCursor" /\ to = "renameCursor" /\ content = "synced"
  PROVE  IInv'
  <1>1. to \in Places /\ from # "off"
    BY DEF Places
  <1>2. /\ LockInv' /\ pc' \in [Procs -> Places] /\ pc'[p] = to
        /\ \A q \in Procs \ {p} : pc'[q] = "off"
    BY <1>1, OneRuns DEF IInv, TypeOK, Temporary
  <1>3. TypeOK'
    BY <1>2 DEF IInv, TypeOK, Temporary
  <1>4. DiskInv'
    BY SameDisk DEF IInv, Temporary
  <1>5. Running(p)'
    <2>1. Running(p) /\ pc[p] = from
      BY DEF IInv, Temporary
    <2>2. CursorOf(p)'
      BY <1>2, <2>1 DEF Running, CursorOf, Saving, Settled, Temporary
    <2>3. WatchOf(p)'
      BY <1>2, <2>1 DEF Running, WatchOf, Saving, Settled, ListWritten, Temporary
    <2>4. TmpOf(p)'
      BY <1>2 DEF TmpOf, Temporary
    <2>5. QED
      BY <2>2, <2>3, <2>4 DEF Running
  <1>6. QED
    BY <1>2, <1>3, <1>4, <1>5, Assemble

LEMMA BeginStep ==
  ASSUME IInv, NEW p \in Procs, NEW l \in Lists, BeginSave(p, l)
  PROVE  IInv'
  <1> DEFINE k == mem[p].save
             to == IF l = cached[p] THEN "writeCursor" ELSE "writeWatch"
  <1>1. to \in Places
    BY DEF Places
  <1>2. /\ LockInv' /\ pc' \in [Procs -> Places] /\ pc'[p] = to
        /\ \A q \in Procs \ {p} : pc'[q] = "off"
    BY <1>1, OneRuns DEF IInv, TypeOK, BeginSave
  <1>3. k \in Saves /\ k + 1 \in Saves /\ k = SaveOf(dir)
    <2>1. k \in Saves /\ k < MaxSaves
      BY DEF IInv, TypeOK, BeginSave
    <2>2. k + 1 \in Saves
      BY <2>1, FilesAssumption DEF Saves, FilesAssumption
    <2>3. QED
      BY <2>1, <2>2 DEF IInv, Running, CursorOf, Settled, BeginSave
  <1>4. mem'[p] = [save |-> k + 1, list |-> l]
    BY DEF IInv, TypeOK, BeginSave
  <1>5. /\ at' \in [Saves -> SUBSET Lists]
        /\ l \in at'[k] /\ l \in at'[k + 1]
        /\ \A j \in Saves : j <= k => at[j] \subseteq at'[j]
    <2>1. at \in [Saves -> SUBSET Lists]
      BY DEF IInv, TypeOK
    <2>2. at' = [at EXCEPT ![k] = @ \cup {l}, ![k + 1] = {l}]
      BY DEF BeginSave
    <2> HIDE DEF k
    <2>3. QED
      BY <1>3, <2>1, <2>2, NewAt
  <1>6. TypeOK'
    <2>1. mem' \in [Procs -> [save : Saves, list : Lists]]
      BY <1>3 DEF IInv, TypeOK, BeginSave
    <2>2. QED
      BY <1>2, <1>5, <2>1 DEF IInv, TypeOK, BeginSave
  <1>7. DiskInv'
    <2>1. ASSUME NEW d \in past
          PROVE  Parses(d) /\ ListOf(d) \in at'[SaveOf(d)]
      <3>1. d \in Directory /\ Parses(d) /\ ListOf(d) \in at[SaveOf(d)]
        BY DEF IInv, TypeOK, DiskInv, Recoverable
      <3>2. SaveOf(d) \in Saves /\ SaveOf(d) <= k
        BY <1>3, <3>1, SaveOfType DEF IInv, DiskInv, PastInv
      <3>3. QED
        BY <1>5, <3>1, <3>2
    <2>2. dir \in past /\ UNCHANGED <<dir, past, safe>>
      BY DEF IInv, DiskInv, PastInv, BeginSave
    <2>3. Recoverable'
      BY <2>1, <2>2 DEF Recoverable
    <2>4. QED
      BY <2>2, <2>3 DEF IInv, DiskInv, SavedStays, PastInv
  <1>8. Running(p)'
    <2>1. cached[p] = Nothing \/ dir.watch = cached[p]
      BY DEF IInv, Running, WatchOf, Settled, BeginSave
    <2>2. CursorOf(p)'
      BY <1>2, <1>3, <1>4, <1>5 DEF CursorOf, Settled, BeginSave
    <2>3. l # Nothing
      BY FilesAssumption DEF FilesAssumption
    <2>4. WatchOf(p)'
      BY <1>2, <1>4, <2>1, <2>3 DEF WatchOf, ListWritten, BeginSave
    <2>5. TmpOf(p)'
      BY <1>2 DEF TmpOf
    <2>6. QED
      BY <2>2, <2>4, <2>5 DEF Running
  <1>9. QED
    BY <1>2, <1>6, <1>7, <1>8, Assemble

LEMMA RenameWatchStep ==
  ASSUME IInv, NEW p \in Procs, RenameWatch(p) PROVE IInv'
  <1> DEFINE l == mem[p].list
  <1>1. Running(p) /\ pc[p] = "renameWatch"
    BY DEF IInv, RenameWatch
  <1>2. dir \in Directory /\ Parses(dir) /\ l \in Lists
    BY DEF IInv, TypeOK, DiskInv, Recoverable
  <1>3. /\ dir' \in Directory /\ Parses(dir')
        /\ SaveOf(dir') = SaveOf(dir) /\ ListOf(dir') = l /\ dir'.watch = l
    BY <1>2, NewWatch DEF RenameWatch, Rename
  <1>4. past' = past \cup {dir'}
    BY <1>1 DEF Running, TmpOf, RenameWatch, Rename
  <1>5. "syncWatch" \in Places
    BY DEF Places
  <1>6. /\ LockInv' /\ pc' \in [Procs -> Places] /\ pc'[p] = "syncWatch"
        /\ \A q \in Procs \ {p} : pc'[q] = "off"
    BY <1>5, OneRuns DEF IInv, TypeOK, RenameWatch, Rename
  <1>7. TypeOK'
    BY <1>3, <1>4, <1>6 DEF IInv, TypeOK, RenameWatch, Rename
  <1>8. /\ mem[p].save = SaveOf(dir) + 1
        /\ l \in at[SaveOf(dir)] /\ l \in at[mem[p].save]
    BY <1>1 DEF Running, CursorOf, Saving
  <1>9. SaveOf(dir) \in Saves
    BY <1>2, SaveOfType
  <1>10. DiskInv'
    <2>1. Recoverable'
      BY <1>3, <1>4, <1>8 DEF IInv, DiskInv, Recoverable, RenameWatch, Rename
    <2>2. SavedStays'
      BY <1>3, <1>4 DEF IInv, DiskInv, SavedStays, RenameWatch, Rename
    <2>3. PastInv'
      BY <1>3, <1>4, <1>9 DEF IInv, DiskInv, PastInv, Saves
    <2>4. QED
      BY <2>1, <2>2, <2>3 DEF DiskInv
  <1>11. Running(p)'
    <2>1. mem' = mem /\ at' = at
      BY DEF RenameWatch, Rename
    <2>2. CursorOf(p)'
      BY <1>3, <1>6, <1>8, <2>1 DEF CursorOf, Settled
    <2>3. WatchOf(p)'
      BY <1>3, <1>6, <2>1 DEF WatchOf, Saving, Settled
    <2>4. TmpOf(p)'
      BY <1>6 DEF TmpOf
    <2>5. QED
      BY <2>2, <2>3, <2>4 DEF Running
  <1>12. QED
    BY <1>6, <1>7, <1>10, <1>11, Assemble

LEMMA SyncWatchStep ==
  ASSUME IInv, NEW p \in Procs, SyncWatch(p) PROVE IInv'
  <1>1. Running(p) /\ pc[p] = "syncWatch"
    BY DEF IInv, SyncWatch
  <1>2. "writeCursor" \in Places
    BY DEF Places
  <1>3. /\ LockInv' /\ pc' \in [Procs -> Places] /\ pc'[p] = "writeCursor"
        /\ \A q \in Procs \ {p} : pc'[q] = "off"
    BY <1>2, OneRuns DEF IInv, TypeOK, SyncWatch
  <1>4. dir \in past /\ past' \subseteq past /\ dir \in past'
    BY DEF IInv, DiskInv, PastInv, SyncWatch
  <1>5. TypeOK'
    BY <1>3, <1>4 DEF IInv, TypeOK, SyncWatch
  <1>6. DiskInv'
    BY <1>4 DEF IInv, DiskInv, Recoverable, SavedStays, PastInv, SyncWatch
  <1>7. Running(p)'
    <2>1. /\ dir' = dir /\ mem' = mem /\ at' = at
          /\ cached'[p] = mem[p].list
      BY DEF IInv, TypeOK, SyncWatch
    <2>2. CursorOf(p)'
      BY <1>1, <1>3, <2>1 DEF Running, CursorOf, Saving, Settled
    <2>3. WatchOf(p)'
      BY <1>1, <1>3, <2>1 DEF Running, WatchOf, ListWritten
    <2>4. TmpOf(p)'
      BY <1>3 DEF TmpOf
    <2>5. QED
      BY <2>2, <2>3, <2>4 DEF Running
  <1>8. QED
    BY <1>3, <1>5, <1>6, <1>7, Assemble

LEMMA RenameCursorStep ==
  ASSUME IInv, NEW p \in Procs, RenameCursor(p)
  PROVE  IInv' /\ SaveOf(dir') = SaveOf(dir) + 1
  <1> DEFINE k == mem[p].save
  <1>1. Running(p) /\ pc[p] = "renameCursor"
    BY DEF IInv, RenameCursor
  <1>2. /\ dir \in Directory /\ Parses(dir) /\ k \in Saves
        /\ mem[p].list \in Lists
    BY DEF IInv, TypeOK, DiskInv, Recoverable
  <1>3. dir.watch = mem[p].list
    BY <1>1 DEF Running, WatchOf, ListWritten
  <1>4. dir.watch # Absent
    BY <1>2, <1>3, FilesAssumption DEF FilesAssumption
  <1>5. /\ dir' \in Directory /\ Parses(dir')
        /\ SaveOf(dir') = k /\ ListOf(dir') = dir.watch
        /\ dir'.watch = dir.watch
    BY <1>2, <1>4, NewCursor DEF RenameCursor, Rename
  <1>6. past' = past \cup {dir'}
    BY <1>1 DEF Running, TmpOf, RenameCursor, Rename
  <1>7. "syncCursor" \in Places
    BY DEF Places
  <1>8. /\ LockInv' /\ pc' \in [Procs -> Places] /\ pc'[p] = "syncCursor"
        /\ \A q \in Procs \ {p} : pc'[q] = "off"
    BY <1>7, OneRuns DEF IInv, TypeOK, RenameCursor, Rename
  <1>9. TypeOK'
    BY <1>5, <1>6, <1>8 DEF IInv, TypeOK, RenameCursor, Rename
  <1>10. k = SaveOf(dir) + 1 /\ mem[p].list \in at[k]
    BY <1>1 DEF Running, CursorOf, Saving
  <1>11. \A d \in past : SaveOf(d) \in Saves
    BY SaveOfType DEF IInv, TypeOK, DiskInv, Recoverable
  <1>12. /\ SaveOf(dir) \in Saves /\ safe \in Saves /\ safe <= SaveOf(dir)
         /\ \A d \in past : SaveOf(d) <= SaveOf(dir)
    BY <1>2, SaveOfType DEF IInv, TypeOK, DiskInv, SavedStays, PastInv
  <1>13. DiskInv'
    <2>1. Recoverable'
      BY <1>3, <1>5, <1>6, <1>10
      DEF IInv, DiskInv, Recoverable, RenameCursor, Rename
    <2>2. safe <= k
      BY <1>10, <1>12 DEF Saves
    <2>3. SavedStays'
      BY <1>5, <1>6, <2>2
      DEF IInv, DiskInv, SavedStays, RenameCursor, Rename
    <2>4. \A d \in past : SaveOf(d) <= k
      BY <1>10, <1>11, <1>12 DEF Saves
    <2>5. PastInv'
      BY <1>2, <1>5, <1>6, <2>4 DEF PastInv, Saves
    <2>6. QED
      BY <2>1, <2>3, <2>5 DEF DiskInv
  <1>14. Running(p)'
    <2>1. /\ mem' = mem /\ at' = at /\ cached' = cached
          /\ cached[p] = Nothing \/ dir.watch = cached[p]
      BY <1>1 DEF Running, WatchOf, Saving, RenameCursor, Rename
    <2>2. CursorOf(p)'
      BY <1>5, <1>8, <2>1 DEF CursorOf, Saving
    <2>3. WatchOf(p)'
      BY <1>5, <1>8, <2>1 DEF WatchOf, ListWritten
    <2>4. TmpOf(p)'
      BY <1>8 DEF TmpOf
    <2>5. QED
      BY <2>2, <2>3, <2>4 DEF Running
  <1>15. IInv'
    BY <1>8, <1>9, <1>13, <1>14, Assemble
  <1>16. QED
    BY <1>5, <1>10, <1>15

LEMMA SyncCursorStep ==
  ASSUME IInv, NEW p \in Procs, SyncCursor(p) PROVE IInv'
  <1>1. Running(p) /\ pc[p] = "syncCursor"
    BY DEF IInv, SyncCursor
  <1>2. "idle" \in Places
    BY DEF Places
  <1>3. /\ LockInv' /\ pc' \in [Procs -> Places] /\ pc'[p] = "idle"
        /\ \A q \in Procs \ {p} : pc'[q] = "off"
    BY <1>2, OneRuns DEF IInv, TypeOK, SyncCursor
  <1>4. dir \in past /\ SaveOf(dir) = mem[p].save /\ mem[p].save \in Saves
    BY <1>1 DEF IInv, TypeOK, DiskInv, PastInv, Running, CursorOf, Settled
  <1>5. TypeOK'
    BY <1>3, <1>4 DEF IInv, TypeOK, SyncCursor
  <1>6. DiskInv'
    <2>1. CASE past' = {dir} /\ safe' = mem[p].save
      BY <1>4, <2>1
      DEF IInv, DiskInv, Recoverable, SavedStays, PastInv, SyncCursor, Saves
    <2>2. CASE UNCHANGED <<past, safe>>
      BY <2>2, SameDisk DEF IInv, SyncCursor
    <2>3. QED
      BY <2>1, <2>2 DEF SyncCursor
  <1>7. Running(p)'
    <2>1. dir' = dir /\ mem' = mem /\ at' = at /\ cached' = cached
      BY DEF SyncCursor
    <2>2. CursorOf(p)'
      BY <1>3, <1>4, <2>1 DEF CursorOf, Saving
    <2>3. WatchOf(p)'
      BY <1>1, <1>3, <2>1 DEF Running, WatchOf, ListWritten, Settled
    <2>4. TmpOf(p)'
      BY <1>3 DEF TmpOf
    <2>5. QED
      BY <2>2, <2>3, <2>4 DEF Running
  <1>8. QED
    BY <1>3, <1>5, <1>6, <1>7, Assemble

-----------------------------------------------------------------------------
(* The invariant and what follows from it                                  *)

LEMMA InitHolds == Init => IInv
  <1> SUFFICES ASSUME Init PROVE IInv
    OBVIOUS
  <1>1. PICK layout \in Layouts, l \in Lists :
          /\ dir = Left(layout, l)
          /\ at = [k \in Saves |-> IF k = 0 THEN {Meant(layout, l)} ELSE {}]
    BY DEF Init
  <1>2. 0 \in Saves /\ layout \in {"fresh", "split", "combined"}
    BY FilesAssumption DEF FilesAssumption, Saves
  <1>3. dir \in Directory /\ Parses(dir) /\ SaveOf(dir) = 0
    <2>1. CASE layout = "fresh"
      BY <1>1, <2>1, FilesAssumption
      DEF Left, Directory, Parses, SaveOf, FilesAssumption
    <2>2. ASSUME NEW f \in Lists \cup {NoFields}, NEW w \in Lists \cup {Absent},
                 dir = [cursor |-> [save |-> 0, fields |-> f], watch |-> w]
          PROVE  dir \in Directory /\ Parses(dir) /\ SaveOf(dir) = 0
      <3>1. [save |-> 0, fields |-> f] \in Cursor
        BY <1>2 DEF Cursor
      <3>2. dir.cursor # Absent /\ dir.cursor # Torn
        BY <2>2, <3>1, FilesAssumption DEF FilesAssumption
      <3>3. dir.watch # Torn
        BY <2>2, FilesAssumption DEF FilesAssumption
      <3>4. dir \in Directory
        BY <2>2, <3>1 DEF Directory
      <3>5. dir.cursor.save = 0
        BY <2>2
      <3>6. QED
        BY <3>2, <3>3, <3>4, <3>5 DEF Parses, SaveOf
    <2>3. CASE layout = "split"
      BY <1>1, <2>2, <2>3 DEF Left
    <2>4. CASE layout = "combined"
      BY <1>1, <2>2, <2>4 DEF Left
    <2>5. QED
      BY <1>2, <2>1, <2>3, <2>4
  <1>4. ListOf(dir) = Meant(layout, l)
    <2>1. CASE layout = "fresh"
      BY <1>1, <2>1 DEF Left, ListOf, Meant
    <2>2. CASE layout = "split"
      <3>1. dir.watch = l /\ l # Absent
        BY <1>1, <2>2, FilesAssumption DEF Left, FilesAssumption
      <3>2. QED
        BY <2>2, <3>1 DEF ListOf, Meant
    <2>3. CASE layout = "combined"
      <3>1. dir.watch = Absent /\ dir.cursor = [save |-> 0, fields |-> l]
        BY <1>1, <2>3 DEF Left
      <3>2. dir.cursor \in Cursor /\ dir.cursor.fields = l
        BY <1>2, <3>1 DEF Cursor
      <3>3. dir.cursor # Absent /\ l # NoFields
        BY <3>2, FilesAssumption DEF FilesAssumption
      <3>4. QED
        BY <2>3, <3>1, <3>2, <3>3 DEF ListOf, Meant
    <2>4. QED
      BY <1>2, <2>1, <2>2, <2>3
  <1>5. Meant(layout, l) \in Lists
    BY FilesAssumption DEF Meant, FilesAssumption
  <1>6. at \in [Saves -> SUBSET Lists] /\ at[0] = {ListOf(dir)}
    BY <1>1, <1>2, <1>4, <1>5
  <1>7. TypeOK
    BY <1>2, <1>3, <1>6, StartType DEF Init, TypeOK, Places
  <1>8. DiskInv
    BY <1>3, <1>6 DEF Init, DiskInv, Recoverable, SavedStays, PastInv
  <1>9. LockInv /\ \A q \in Procs : Running(q)
    BY OffRuns DEF Init, LockInv
  <1>10. QED
    BY <1>7, <1>8, <1>9 DEF IInv

LEMMA StutterKeeps == IInv /\ UNCHANGED vars => IInv'
  BY DEF vars, IInv, TypeOK, DiskInv, Recoverable, SavedStays, PastInv,
         LockInv, Running, CursorOf, WatchOf, TmpOf

(* Every step keeps the invariant, and only a power failure takes the      *)
(* cursor back.                                                            *)
LEMMA NextHolds ==
  ASSUME IInv, Next PROVE IInv' /\ (dir' # dir => PowerFails \/ SaveOf(dir') >= SaveOf(dir))
  <1>1. SaveOf(dir) \in Saves /\ dir \in Directory /\ Parses(dir)
    BY SaveOfType DEF IInv, TypeOK, DiskInv, Recoverable
  <1>2. SaveOf(dir) >= SaveOf(dir) /\ SaveOf(dir) + 1 >= SaveOf(dir)
    BY <1>1 DEF Saves
  <1>3. CASE PowerFails
    BY <1>3, PowerStep
  <1>4. ASSUME NEW p \in Procs, Proc(p)
        PROVE  IInv' /\ SaveOf(dir') >= SaveOf(dir)
    <2>1. CASE Open(p)
      BY <1>2, <2>1, OpenStep DEF Open
    <2>2. CASE Load(p)
      BY <1>2, <2>2, LoadStep DEF Load
    <2>3. ASSUME NEW l \in Lists, BeginSave(p, l)
          PROVE  IInv' /\ SaveOf(dir') >= SaveOf(dir)
      BY <1>2, <2>3, BeginStep DEF BeginSave
    <2>4. CASE WriteWatch(p)
      BY <1>2, <2>4, TmpStep DEF WriteWatch, Temporary
    <2>5. CASE FsyncWatch(p)
      BY <1>2, <2>5, TmpStep DEF FsyncWatch, Temporary
    <2>6. CASE RenameWatch(p)
      <3>1. SaveOf(dir') = SaveOf(dir)
        <4>1. mem[p].list \in Lists
          BY DEF IInv, TypeOK
        <4>2. QED
          BY <1>1, <2>6, <4>1, NewWatch DEF RenameWatch, Rename
      <3>2. QED
        BY <1>2, <2>6, <3>1, RenameWatchStep
    <2>7. CASE SyncWatch(p)
      BY <1>2, <2>7, SyncWatchStep DEF SyncWatch
    <2>8. CASE WriteCursor(p)
      BY <1>2, <2>8, TmpStep DEF WriteCursor, Temporary
    <2>9. CASE FsyncCursor(p)
      BY <1>2, <2>9, TmpStep DEF FsyncCursor, Temporary
    <2>10. CASE RenameCursor(p)
      BY <1>2, <2>10, RenameCursorStep
    <2>11. CASE SyncCursor(p)
      BY <1>2, <2>11, SyncCursorStep DEF SyncCursor
    <2>12. CASE SaveFails(p)
      BY <1>2, <2>12, FailStep DEF SaveFails
    <2>13. CASE Die(p)
      BY <1>2, <2>13, DieStep DEF Die
    <2>14. QED
      BY <1>4, <2>1, <2>2, <2>3, <2>4, <2>5, <2>6, <2>7, <2>8, <2>9, <2>10,
         <2>11, <2>12, <2>13 DEF Proc
  <1>5. QED
    BY <1>3, <1>4 DEF Next

LEMMA Invariant == Spec => []IInv
  <1>1. IInv /\ [Next]_vars => IInv'
    BY NextHolds, StutterKeeps
  <1>2. QED
    BY InitHolds, <1>1, PTL DEF Spec

(* Every variable keeps its type, for any number of processes and saves.   *)
THEOREM TypeCorrect == Spec => []TypeOK
  <1>1. IInv => TypeOK
    BY DEF IInv
  <1>2. QED
    BY Invariant, <1>1, PTL

(* Whatever fails and when, a restart finds files that parse and a         *)
(* watchlist no older than the cursor.                                     *)
THEOREM AlwaysRecoverable == Spec => []Recoverable
  <1>1. IInv => Recoverable
    BY DEF IInv, DiskInv
  <1>2. QED
    BY Invariant, <1>1, PTL

(* A save whose directory was synced is never lost.                        *)
THEOREM NothingSavedIsLost == Spec => []SavedStays
  <1>1. IInv => SavedStays
    BY DEF IInv, DiskInv
  <1>2. QED
    BY Invariant, <1>1, PTL

(* Of two processes started against one path, none takes the cursor back.  *)
THEOREM NoneOverwrites == Spec => OneWriter
  <1>1. IInv /\ [Next]_vars
          => [dir' # dir => PowerFails \/ SaveOf(dir') >= SaveOf(dir)]_vars
    BY NextHolds
  <1>2. QED
    BY Invariant, <1>1, PTL DEF Spec, OneWriter

(* What a restart reads, one save ahead or one list ahead.                 *)
ListMoves(p)   == /\ SaveOf(dir') = SaveOf(dir)
                  /\ ListOf(dir') = mem[p].list
CursorMoves(p) == /\ SaveOf(dir') = SaveOf(dir) + 1
                  /\ ListOf(dir) = mem[p].list /\ ListOf(dir') = mem[p].list

LEMMA RenameWatchMoves ==
  ASSUME IInv, NEW p \in Procs, RenameWatch(p) PROVE ListMoves(p)
  <1>1. dir \in Directory /\ Parses(dir) /\ mem[p].list \in Lists
    BY DEF IInv, TypeOK, DiskInv, Recoverable
  <1>2. dir' = [dir EXCEPT !.watch = mem[p].list]
    BY DEF RenameWatch, Rename
  <1>3. QED
    BY <1>1, <1>2, NewWatch DEF ListMoves

LEMMA RenameCursorMoves ==
  ASSUME IInv, NEW p \in Procs, RenameCursor(p) PROVE CursorMoves(p)
  <1>1. /\ dir \in Directory /\ Parses(dir) /\ mem[p].list \in Lists
        /\ mem[p].save \in Saves
    BY DEF IInv, TypeOK, DiskInv, Recoverable
  <1>2. dir.watch = mem[p].list
    BY DEF IInv, Running, WatchOf, ListWritten, RenameCursor
  <1>3. dir.watch # Absent
    BY <1>1, <1>2, FilesAssumption DEF FilesAssumption
  <1>4. ListOf(dir) = mem[p].list
    BY <1>2, <1>3 DEF ListOf
  <1>5. ListOf(dir') = dir.watch
    BY <1>1, <1>3, NewCursor DEF RenameCursor, Rename
  <1>6. QED
    BY <1>2, <1>4, <1>5, RenameCursorStep DEF CursorMoves

(* A save is what the loop and the control plane take it to be: of all     *)
(* that Save does, with the migration, failures and other processes around *)
(* it, two steps change what a restart reads.  First the watchlist becomes *)
(* the one saved, under the old cursor; then the cursor moves on by one    *)
(* save, over that watchlist.  Only a power failure does anything else.    *)
SavesInTwoSteps ==
  [][dir' # dir => \/ PowerFails
                   \/ \E p \in Procs : ListMoves(p) \/ CursorMoves(p)]_vars

THEOREM TwoStepSave == Spec => SavesInTwoSteps
  <1> DEFINE Moves == dir' # dir => \/ PowerFails
                                   \/ \E p \in Procs : ListMoves(p) \/ CursorMoves(p)
  <1>1. ASSUME IInv, Next, dir' # dir, ~PowerFails
        PROVE  \E p \in Procs : ListMoves(p) \/ CursorMoves(p)
    <2>1. PICK p \in Procs : Proc(p)
      BY <1>1 DEF Next
    <2>2. RenameWatch(p) \/ RenameCursor(p)
      BY <1>1, <2>1
      DEF Proc, Open, Load, BeginSave, WriteWatch, FsyncWatch, SyncWatch,
          WriteCursor, FsyncCursor, SyncCursor, Temporary, SaveFails, Die
    <2>3. QED
      BY <1>1, <2>2, RenameWatchMoves, RenameCursorMoves
  <1>2. IInv /\ [Next]_vars => [Moves]_vars
    BY <1>1
  <1>3. QED
    BY Invariant, <1>2, PTL DEF Spec, SavesInTwoSteps
=============================================================================
