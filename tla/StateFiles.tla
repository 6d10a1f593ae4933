----------------------------- MODULE StateFiles -----------------------------
(***************************************************************************)
(* The state store at the grain of system calls                            *)
(* (src/internal/state/file_store.go): two files, each replaced by a       *)
(* temporary file, fsync, rename and a directory fsync; an advisory lock;  *)
(* the bytes last written, which spare an unchanged watchlist a write; and *)
(* the migration from the single file of older versions.                   *)
(*                                                                         *)
(* Several processes may be started against the same path, as a deploy     *)
(* does.  Each may die between any two calls, and the power may fail: then *)
(* the directory is one of those it went through since it was last synced, *)
(* since a journaling file system loses renames from the end.  The         *)
(* content of a file survives when it was synced before its rename.        *)
(*                                                                         *)
(* Abstractions.  A watchlist (escrows, tombstones and gaps) is a member   *)
(* of Lists.  A cursor is named by the number of the save that wrote it.   *)
(* Marshaling is faithful, so equal bytes are equal lists.  A file that is *)
(* read is the one its name stood for when it was opened.                  *)
(*                                                                         *)
(* A definition commented "Mutated" is a wrong form of the one that        *)
(* follows it, used only to show that a property would notice.             *)
(***************************************************************************)
EXTENDS Integers

CONSTANTS
  Procs,     \* processes started against the path
  Lists,     \* watchlists
  EmptyList, \* the watchlist of a deployment that tracks nothing
  Layouts,   \* what may lie on disk at first
  MaxSaves   \* bound: saves

(* What is not a watchlist: no file, no escrow fields in a cursor file,    *)
(* content that was never written out, nothing written yet.                *)
CONSTANTS Absent, NoFields, Torn, Nothing, Nobody

Saves  == 0 .. MaxSaves
Cursor == [save : Saves, fields : Lists \cup {NoFields}]

ASSUME FilesAssumption ==
  /\ EmptyList \in Lists
  /\ Lists \cap {Absent, NoFields, Torn, Nothing} = {}
  /\ Absent \notin {NoFields, Torn} /\ NoFields # Torn
  /\ {Absent, Torn} \cap Cursor = {}
  /\ Nobody \notin Procs
  /\ Layouts \subseteq {"fresh", "split", "combined"}
  /\ MaxSaves \in Nat \ {0}

VARIABLES
  dir,     \* what the two names stand for: a cursor file, a watchlist file
  past,    \* the directories a power failure may leave
  lock,    \* the holder of the flock
  pc,      \* where each process is
  mem,     \* what each process saves, or has saved or loaded last
  cached,  \* FileStore.lastWatchlist
  tmp,     \* the temporary file of the write under way
  at,      \* history: at[k], the watchlists a restart may find with save k
  safe     \* history: the last save whose directory is synced

vars == <<dir, past, lock, pc, mem, cached, tmp, at, safe>>

Directory == [cursor : Cursor \cup {Absent, Torn},
              watch  : Lists \cup {Absent, Torn}]

-----------------------------------------------------------------------------
(* Reading                                                                 *)

Parses(d) == d.cursor # Torn /\ d.watch # Torn

SaveOf(d) == IF d.cursor = Absent THEN 0 ELSE d.cursor.save

(* The watchlist of the watchlist file, also when the cursor is missing    *)
(* (loadOrphanWatchlist), else that of a combined file, else none.         *)
ListOf(d) ==
  IF d.watch # Absent THEN d.watch
  ELSE IF d.cursor # Absent /\ d.cursor.fields # NoFields THEN d.cursor.fields
  ELSE EmptyList

(* Mutated: the lock is not taken.                                         *)
OpenAnyway(p) ==
  /\ pc[p] = "off"
  /\ lock' = p
  /\ pc' = [pc EXCEPT ![p] = "open"]
  /\ UNCHANGED <<dir, past, mem, cached, tmp, at, safe>>

(* NewFileStore.  A process that finds the lock held exits.                *)
Open(p) ==
  /\ pc[p] = "off" /\ lock = Nobody
  /\ lock' = p
  /\ pc' = [pc EXCEPT ![p] = "open"]
  /\ UNCHANGED <<dir, past, mem, cached, tmp, at, safe>>

(* Mutated: the missing file is remembered as the last one written.        *)
LoadCachesMissing(p) ==
  /\ pc[p] = "open" /\ Parses(dir)
  /\ mem' = [mem EXCEPT ![p] = [save |-> SaveOf(dir), list |-> ListOf(dir)]]
  /\ cached' = [cached EXCEPT ![p] = dir.watch]
  /\ pc' = [pc EXCEPT ![p] = "idle"]
  /\ UNCHANGED <<dir, past, lock, tmp, at, safe>>

(* Mutated: the watchlist of a combined file counts as written already.    *)
LoadCachesFields(p) ==
  /\ pc[p] = "open" /\ Parses(dir)
  /\ mem' = [mem EXCEPT ![p] = [save |-> SaveOf(dir), list |-> ListOf(dir)]]
  /\ cached' = [cached EXCEPT ![p] = ListOf(dir)]
  /\ pc' = [pc EXCEPT ![p] = "idle"]
  /\ UNCHANGED <<dir, past, lock, tmp, at, safe>>

(* Load.  The watchlist of a combined file is not the content of a         *)
(* watchlist file, so the next save writes one.  A file that does not      *)
(* parse ends the process instead.                                         *)
Load(p) ==
  /\ pc[p] = "open" /\ Parses(dir)
  /\ mem' = [mem EXCEPT ![p] = [save |-> SaveOf(dir), list |-> ListOf(dir)]]
  /\ cached' = [cached EXCEPT ![p] =
                  IF dir.watch = Absent THEN Nothing ELSE dir.watch]
  /\ pc' = [pc EXCEPT ![p] = "idle"]
  /\ UNCHANGED <<dir, past, lock, tmp, at, safe>>

-----------------------------------------------------------------------------
(* Writing                                                                 *)

(* Save is called with watchlist l.  From here on a restart may find l     *)
(* beside the cursor of the save before.                                   *)
BeginSave(p, l) ==
  /\ pc[p] = "idle" /\ mem[p].save < MaxSaves
  /\ LET k == mem[p].save
     IN  /\ mem' = [mem EXCEPT ![p] = [save |-> k + 1, list |-> l]]
         /\ at' = [at EXCEPT ![k] = @ \cup {l}, ![k + 1] = {l}]
  /\ pc' = [pc EXCEPT ![p] = IF l = cached[p] THEN "writeCursor"
                                              ELSE "writeWatch"]
  /\ UNCHANGED <<dir, past, lock, cached, tmp, safe>>

(* A step that concerns the temporary file only.                           *)
Temporary(p, from, to, content) ==
  /\ pc[p] = from /\ tmp' = content
  /\ pc' = [pc EXCEPT ![p] = to]
  /\ UNCHANGED <<dir, past, lock, mem, cached, at, safe>>

(* writeFileSync, in its two calls.                                        *)
WriteWatch(p)  == Temporary(p, "writeWatch", "fsyncWatch", "written")
WriteCursor(p) == Temporary(p, "writeCursor", "fsyncCursor", "written")

(* Mutated: the temporary file is renamed without being synced.            *)
FsyncWatchNot(p) == Temporary(p, "fsyncWatch", "renameWatch", tmp)

FsyncWatch(p)  == Temporary(p, "fsyncWatch", "renameWatch", "synced")
FsyncCursor(p) == Temporary(p, "fsyncCursor", "renameCursor", "synced")

(* The directory becomes d; whether the file renamed is whole after a      *)
(* power failure depends on its having been synced.                        *)
Rename(p, d, torn, to) ==
  /\ dir' = d
  /\ past' = past \cup IF tmp = "synced" THEN {d} ELSE {d, torn}
  /\ tmp' = "none"
  /\ pc' = [pc EXCEPT ![p] = to]
  /\ UNCHANGED <<lock, mem, cached, at, safe>>

RenameWatch(p) ==
  /\ pc[p] = "renameWatch"
  /\ Rename(p, [dir EXCEPT !.watch = mem[p].list],
               [dir EXCEPT !.watch = Torn], "syncWatch")

(* The new cursor file has no escrow fields.                               *)
RenameCursor(p) ==
  /\ pc[p] = "renameCursor"
  /\ LET c == [save |-> mem[p].save, fields |-> NoFields]
     IN  Rename(p, [dir EXCEPT !.cursor = c],
                   [dir EXCEPT !.cursor = Torn], "syncCursor")

(* The directory is synced, or the error of that is ignored.               *)
SyncWatch(p) ==
  /\ pc[p] = "syncWatch"
  /\ past' \in {{dir}, past}
  /\ cached' = [cached EXCEPT ![p] = mem[p].list]
  /\ pc' = [pc EXCEPT ![p] = "writeCursor"]
  /\ UNCHANGED <<dir, lock, mem, tmp, at, safe>>

(* Mutated: the directory is never synced.                                 *)
SyncCursorNever(p) ==
  /\ pc[p] = "syncCursor"
  /\ past' = past /\ safe' = mem[p].save
  /\ pc' = [pc EXCEPT ![p] = "idle"]
  /\ UNCHANGED <<dir, lock, mem, cached, tmp, at>>

(* The same after the cursor; Save returns.                                *)
SyncCursor(p) ==
  /\ pc[p] = "syncCursor"
  /\ \/ past' = {dir} /\ safe' = mem[p].save
     \/ UNCHANGED <<past, safe>>
  /\ pc' = [pc EXCEPT ![p] = "idle"]
  /\ UNCHANGED <<dir, lock, mem, cached, tmp, at>>

-----------------------------------------------------------------------------
(* Failures                                                                *)

Start == [save |-> 0, list |-> EmptyList]

Exit(p) ==
  /\ pc' = [pc EXCEPT ![p] = "off"]
  /\ lock' = IF lock = p THEN Nobody ELSE lock
  /\ mem' = [mem EXCEPT ![p] = Start]
  /\ cached' = [cached EXCEPT ![p] = Nothing]

(* A write, fsync or rename fails: the temporary file is removed, Save   *)
(* returns an error, and every caller exits on it.                         *)
SaveFails(p) ==
  /\ pc[p] \in {"writeWatch", "fsyncWatch", "renameWatch",
               "writeCursor", "fsyncCursor", "renameCursor"}
  /\ Exit(p) /\ tmp' = "none"
  /\ UNCHANGED <<dir, past, at, safe>>

(* The process ends, by Close or by dying: the lock is released, a         *)
(* temporary file may remain, and the next write truncates it.             *)
Die(p) ==
  /\ pc[p] # "off"
  /\ Exit(p)
  /\ UNCHANGED <<dir, past, tmp, at, safe>>

PowerFails ==
  /\ \E d \in past : dir' = d /\ past' = {d}
  /\ lock' = Nobody
  /\ pc' = [p \in Procs |-> "off"]
  /\ mem' = [p \in Procs |-> Start]
  /\ cached' = [p \in Procs |-> Nothing]
  /\ tmp' = "none"
  /\ UNCHANGED <<at, safe>>

-----------------------------------------------------------------------------
(* What nobody, this version or an older one has left on disk, and the     *)
(* watchlist it means.                                                     *)
Left(layout, l) ==
  CASE layout = "fresh"    -> [cursor |-> Absent, watch |-> Absent]
    [] layout = "split"    -> [cursor |-> [save |-> 0, fields |-> NoFields],
                               watch |-> l]
    [] layout = "combined" -> [cursor |-> [save |-> 0, fields |-> l],
                               watch |-> Absent]

Meant(layout, l) == IF layout = "fresh" THEN EmptyList ELSE l

Init ==
  /\ \E layout \in Layouts, l \in Lists :
       /\ dir = Left(layout, l)
       /\ at = [k \in Saves |-> IF k = 0 THEN {Meant(layout, l)} ELSE {}]
  /\ past = {dir} /\ lock = Nobody
  /\ pc = [p \in Procs |-> "off"]
  /\ mem = [p \in Procs |-> Start]
  /\ cached = [p \in Procs |-> Nothing]
  /\ tmp = "none"
  /\ safe = 0

Proc(p) ==
  \/ Open(p) \/ Load(p)
  \/ \E l \in Lists : BeginSave(p, l)
  \/ WriteWatch(p) \/ FsyncWatch(p) \/ RenameWatch(p) \/ SyncWatch(p)
  \/ WriteCursor(p) \/ FsyncCursor(p) \/ RenameCursor(p) \/ SyncCursor(p)
  \/ SaveFails(p) \/ Die(p)

Next == PowerFails \/ \E p \in Procs : Proc(p)

Spec == Init /\ [][Next]_vars

-----------------------------------------------------------------------------
(* Properties                                                              *)

Places == {"off", "open", "idle",
           "writeWatch", "fsyncWatch", "renameWatch", "syncWatch",
           "writeCursor", "fsyncCursor", "renameCursor", "syncCursor"}

TypeOK ==
  /\ dir \in Directory /\ past \subseteq Directory
  /\ lock \in Procs \cup {Nobody}
  /\ pc \in [Procs -> Places]
  /\ mem \in [Procs -> [save : Saves, list : Lists]]
  /\ cached \in [Procs -> Lists \cup {Nothing}]
  /\ tmp \in {"none", "written", "synced"}
  /\ at \in [Saves -> SUBSET Lists]
  /\ safe \in Saves

(* A restart finds files that parse, and with the cursor a watchlist no    *)
(* older than it (file_store.go: "a crash between the two leaves a newer   *)
(* watchlist with an older cursor"; "the reverse order could advance the   *)
(* cursor past a just-tracked escrow and forget it"): the list of the save *)
(* the cursor belongs to, or of one begun after it; whether a process dies *)
(* or the power fails, through the migration, and with the write of an     *)
(* unchanged watchlist left out.                                           *)
Recoverable ==
  \A d \in past \cup {dir} : Parses(d) /\ ListOf(d) \in at[SaveOf(d)]

(* A save that returned survives (file_store.go: "fsync the parent         *)
(* directory so the rename survives an OS crash"), once its directory was  *)
(* synced: no failure of a process, of the power or of a later save brings *)
(* an older one back.                                                      *)
SavedStays == \A d \in past \cup {dir} : safe <= SaveOf(d)

(* Only a power failure takes the cursor back (store.go: "another process  *)
(* already holds the single-writer lock"): no process writes over a save   *)
(* it has not seen.                                                        *)
OneWriter ==
  [][dir' # dir => PowerFails \/ SaveOf(dir') >= SaveOf(dir)]_vars
=============================================================================
