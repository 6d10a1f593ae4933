---------------------------- MODULE ControlPlane ----------------------------
(***************************************************************************)
(* The control plane: operator commands accepted over HTTP, queued, and    *)
(* executed by the ingest loop between ledgers                             *)
(* (src/internal/ingest/control.go, src/internal/commands,                 *)
(* src/internal/indexer/registry), what they change in the facts that are  *)
(* detected (Detection) and delivered, and the replays operators run next  *)
(* to the live process.                                                    *)
(*                                                                         *)
(* The HTTP handlers only append to a bounded queue, concurrently with     *)
(* everything else; the loop executes commands after each ledger, and      *)
(* while a pause holds it.  The registry has two sets, the tracked escrows *)
(* and the tombstones of removed ones; both are saved with the cursor.  A  *)
(* crash loses the queue and the pause, and the ledgers after the cursor   *)
(* are processed again, their deployments included.  A replay borrows the  *)
(* registry on disk and publishes old ledgers again.                       *)
(*                                                                         *)
(* Abstractions.  Whether a ledger's checkpoint is due is a free choice    *)
(* (IngestLoop models the rule).  A pause is the time it has left.  State  *)
(* snapshots, and the sweep the reconcile command restarts, are another    *)
(* module's (Reconcile); the outcome texts of the audit log are left out.  *)
(*                                                                         *)
(* A definition commented "Mutated" is a wrong form of the one that        *)
(* follows it, used only to show that a property would notice.             *)
(***************************************************************************)
EXTENDS Detection

CONSTANTS
  Escrows,      \* the contracts that are ever tracked
  Chain,        \* Chain[n]: the transactions of ledger n
  SeedFile,     \* escrows of the seed file
  Commands,     \* the commands operators may send
  QueueSize,    \* commandQueueSize
  MaxPauseTTL,  \* the longest pause one command can ask for
  MaxLedger,    \* bound: every later ledger counts as this one
  MaxCommands,  \* bound: commands accepted
  MaxCrashes,   \* bound: how often the process dies
  MaxReplays    \* bound: replays run

Ledgers == 1 .. MaxLedger
Kinds   == {"track", "refresh", "reseed", "remove", "pause", "resume"}
Command == [kind : Kinds, ids : SUBSET Escrows, ttl : 0 .. MaxPauseTTL]
Words   == {"none", "track", "remove"}

ASSUME ControlAssumption ==
  /\ MaxLedger \in Nat \ {0}
  /\ Escrows \subseteq Contracts /\ NotASymbol \notin Symbols
  /\ Chain \in [Ledgers -> Seq(Transaction)]
  /\ \A n \in Ledgers : Discovered(Chain[n]) \subseteq Escrows
  /\ SeedFile \subseteq Escrows
  /\ MaxPauseTTL \in Nat
  /\ Commands \subseteq Command
  /\ QueueSize \in Nat /\ MaxCommands \in Nat /\ MaxCrashes \in Nat
  /\ MaxReplays \in Nat

VARIABLES
  queue,     \* cmdCh
  known,     \* Registry.escrows
  removed,   \* Registry.removed
  disk,      \* the state files: both sets and the cursor
  pc,        \* where the loop is
  cur,       \* currentLedger
  left,      \* time until pausedUntil
  dirty,     \* drainCommands: a command mutated the registry
  replay,    \* a replay: its next ledger, 0 if none runs, and its registry
  sent,      \* history: the messages published, each with its event
  said,      \* history: the last word of the operators on each escrow
  kept,      \* history: said as of the last save
  exit,      \* why the process last exited
  accepted,  \* history: commands accepted
  crashes,   \* history: crashes so far
  replays    \* history: replays so far

registry == <<known, removed>>
history  == <<kept, accepted, crashes>>
public   == <<replay, sent, replays>>
vars == <<queue, known, removed, disk, pc, cur, left, dirty, public, said,
          kept, exit, accepted, crashes>>

(* Of what is published, the id and the event it stands for.               *)
Messages(facts) == {[msg |-> f.msg, at |-> f.at] : f \in facts}

(* What discovery and detection find in each ledger, for each registry.    *)
Deploys == [n \in Ledgers |-> Discovered(Chain[n])]
FactsOf == [n \in Ledgers |-> [tracked \in SUBSET Escrows |->
                                 Facts(n, Chain[n], tracked)]]

-----------------------------------------------------------------------------
(* The registry                                                            *)

EmptyDisk == [escrows |-> {}, removed |-> {}, cursor |-> 0]

(* Mutated: discovery does not look at the tombstones.                     *)
RegisterAlways(ids) == known \cup ids

(* Register: discovery does not re-add a tombstoned contract.              *)
Register(ids) == known \cup (ids \ removed)

(* Track, Seed and Remove, on the tracked set.                             *)
TrackedAfter(c) ==
  CASE c.kind = "track"  -> known \cup c.ids
    [] c.kind = "reseed" -> known \cup (c.ids \ removed)
    [] c.kind = "remove" -> known \ c.ids
    [] OTHER             -> known

(* Track, Seed and Remove, on the tombstones.                              *)
TombstonesAfter(c) ==
  CASE c.kind = "track"  -> removed \ c.ids
    [] c.kind = "remove" -> removed \cup c.ids
    [] OTHER             -> removed

(* What execute reports as a mutation, the ground for a save.              *)
Mutates(c) == c.kind = "remove" \/ TrackedAfter(c) # known

(* The escrows whose state a command fetches and publishes.                *)
Fetched(c) ==
  CASE c.kind = "track"              -> c.ids
    [] c.kind \in {"refresh", "reseed"} -> c.ids \cap TrackedAfter(c)
    [] OTHER                         -> {}

(* History: what the operators last said of e.  A reseed does not outrank  *)
(* a removal.                                                              *)
Word(c, e) ==
  IF e \notin c.ids THEN said[e]
  ELSE CASE c.kind \in {"track", "remove"}           -> c.kind
         [] c.kind = "reseed" /\ said[e] # "remove"  -> "track"
         [] OTHER                                    -> said[e]

-----------------------------------------------------------------------------
(* The process and its files                                               *)

Save ==
  /\ disk' = [escrows |-> known, removed |-> removed, cursor |-> cur]
  /\ kept' = said

(* The next iteration of the loop.                                         *)
NextLedger ==
  /\ pc' = "ledger"
  /\ cur' = IF cur < MaxLedger THEN cur + 1 ELSE cur

Exit(why) ==
  /\ pc' = "down" /\ exit' = why
  /\ crashes' = IF crashes < MaxCrashes THEN crashes + 1 ELSE crashes
  /\ queue' = <<>> /\ known' = {} /\ removed' = {} /\ left' = 0
  /\ cur' = 0 /\ dirty' = FALSE /\ said' = [e \in Escrows |-> "none"]

(* The process starts: tombstones are restored first, then the escrows;    *)
(* the seed file serves a first start only.                                *)
Boot ==
  /\ pc = "down" /\ pc' = "ledger"
  /\ removed' = disk.removed
  /\ known' = IF disk = EmptyDisk THEN SeedFile
                                  ELSE disk.escrows \ disk.removed
  /\ cur' = IF disk.cursor < MaxLedger THEN disk.cursor + 1 ELSE MaxLedger
  /\ said' = kept
  /\ UNCHANGED <<queue, disk, left, dirty, public, exit, history>>

(* The process dies; a save under way may have replaced the watchlist      *)
(* file, with the registry in it, and not yet the cursor file.             *)
Crash ==
  /\ pc # "down" /\ crashes < MaxCrashes
  /\ Exit("crash")
  /\ \/ UNCHANGED <<disk, kept>>
     \/ /\ pc \in {"save", "persist", "holdSave"}
        /\ disk' = [escrows |-> known, removed |-> removed,
                    cursor |-> disk.cursor]
        /\ kept' = said
  /\ UNCHANGED <<public, accepted>>

-----------------------------------------------------------------------------
(* HTTP                                                                    *)

(* Mutated: a full queue is not reported.                                  *)
AcceptAlways(c) ==
  /\ pc # "down" /\ accepted < MaxCommands
  /\ queue' = Append(queue, c) /\ accepted' = accepted + 1
  /\ UNCHANGED <<registry, disk, pc, cur, left, dirty, public, said, kept, exit,
                 crashes>>

(* An operator's command passes validation and finds room in the queue.    *)
Accept(c) ==
  /\ pc # "down"
  /\ Len(queue) < QueueSize /\ accepted < MaxCommands
  /\ queue' = Append(queue, c) /\ accepted' = accepted + 1
  /\ UNCHANGED <<registry, disk, pc, cur, left, dirty, public, said, kept, exit,
                 crashes>>

-----------------------------------------------------------------------------
(* The loop                                                                *)

(* Mutated: detection does not wait for discovery.                         *)
LedgerFactsFirst == FactsOf[cur][known]

(* Discovery completes for the whole ledger before detection.              *)
LedgerFacts == FactsOf[cur][Register(Deploys[cur])]

(* A ledger is fetched, its deployments registered, its facts published.   *)
ProcessLedger ==
  /\ pc = "ledger" /\ \A f \in LedgerFacts : Valid(f)
  /\ pc' = "save"
  /\ known' = Register(Deploys[cur])
  /\ sent' = sent \cup Messages(LedgerFacts)
  /\ UNCHANGED <<queue, removed, disk, cur, left, dirty, replay, said, exit,
                 history, replays>>

(* A fact is not accepted: the facts before it are out, and the error ends *)
(* the process.                                                            *)
LedgerFails(f) ==
  /\ pc = "ledger" /\ f \in LedgerFacts
  /\ \A g \in Earlier(f, LedgerFacts) : Valid(g)
  /\ sent' = sent \cup Messages(Earlier(f, LedgerFacts))
  /\ Exit("error")
  /\ UNCHANGED <<disk, kept, accepted, replay, replays>>

(* The first fact whose envelope is invalid never is.                      *)
FactRefused ==
  pc = "ledger" /\ \E f \in LedgerFacts : ~Valid(f) /\ LedgerFails(f)

(* A valid one may not be, for the sink or the broker.                     *)
PublishFails ==
  /\ pc = "ledger" /\ crashes < MaxCrashes
  /\ \E f \in LedgerFacts : Valid(f) /\ LedgerFails(f)

Checkpoint ==
  /\ pc = "save" /\ pc' = "drain"
  /\ Save
  /\ UNCHANGED <<queue, registry, cur, left, dirty, public, said, exit, accepted,
                 crashes>>

SkipCheckpoint ==
  /\ pc = "save" /\ pc' = "drain"
  /\ UNCHANGED <<queue, registry, disk, cur, left, dirty, public, said, exit,
                 history>>

(* commandExecutor.execute, on the oldest command of the queue.            *)
Execute(c) ==
  /\ queue # <<>> /\ c = Head(queue) /\ queue' = Tail(queue)
  /\ known' = TrackedAfter(c) /\ removed' = TombstonesAfter(c)
  /\ left' = CASE c.kind = "pause"  -> c.ttl
               [] c.kind = "resume" -> 0
               [] OTHER             -> left
  /\ said' = [e \in Escrows |-> Word(c, e)]
  /\ UNCHANGED <<disk, cur, public, exit, history>>

(* Mutated: only the last command drained decides about the save.          *)
DrainCommandLast(c) ==
  /\ pc = "drain" /\ Execute(c)
  /\ dirty' = Mutates(c)
  /\ UNCHANGED pc

(* drainCommands, one command of it.                                       *)
DrainCommand(c) ==
  /\ pc = "drain" /\ Execute(c)
  /\ dirty' = (dirty \/ Mutates(c))
  /\ UNCHANGED pc

(* A publish of the command's snapshots fails: an error return, all the    *)
(* way out of Ingest.                                                      *)
CommandFails(c) ==
  /\ pc \in {"drain", "hold"} /\ crashes < MaxCrashes
  /\ queue # <<>> /\ c = Head(queue) /\ Fetched(c) # {}
  /\ Exit("error")
  /\ UNCHANGED <<disk, kept, public, accepted>>

(* After the commands: hold while a pause is in effect, else the next      *)
(* ledger.                                                                 *)
Gate == IF left > 0 THEN pc' = "hold" /\ UNCHANGED cur ELSE NextLedger

(* The queue is empty: save if a command asked for it.                     *)
DrainEnds ==
  /\ pc = "drain" /\ queue = <<>>
  /\ IF dirty THEN pc' = "persist" /\ UNCHANGED cur ELSE Gate
  /\ UNCHANGED <<queue, registry, disk, left, dirty, public, said, exit, history>>

Persist ==
  /\ pc = "persist" /\ Save /\ dirty' = FALSE /\ Gate
  /\ UNCHANGED <<queue, registry, left, public, said, exit, accepted, crashes>>

-----------------------------------------------------------------------------
(* The pause: holdWhilePaused                                              *)


(* One command, executed inside the hold.                                  *)
HoldCommand(c) ==
  /\ pc = "hold" /\ Execute(c)
  /\ pc' = IF Mutates(c) THEN "holdSave" ELSE "held"
  /\ UNCHANGED dirty

(* onMutation.                                                             *)
HoldSave ==
  /\ pc = "holdSave" /\ pc' = "held"
  /\ Save
  /\ UNCHANGED <<queue, registry, cur, left, dirty, public, said, exit, accepted,
                 crashes>>

(* The condition of the loop, after a command.                             *)
HoldCheck ==
  /\ pc = "held" /\ Gate
  /\ UNCHANGED <<queue, registry, disk, left, dirty, public, said, exit, history>>

(* The one-second timer finds the pause expired: auto-resume.              *)
HoldExpires ==
  /\ pc = "hold" /\ left = 0 /\ NextLedger
  /\ UNCHANGED <<queue, registry, disk, left, dirty, public, said, exit, history>>

(* Time passes.                                                            *)
Tick ==
  /\ left > 0 /\ left' = left - 1
  /\ UNCHANGED <<queue, registry, disk, pc, cur, dirty, public, said, exit,
                 history>>

-----------------------------------------------------------------------------
(* A replay: a process of its own, without state, queue or lock            *)

Off == [at |-> 0, known |-> {}, removed |-> {}]

(* It has the seed file, the watchlist on disk and its tombstones.         *)
ReplayStarts(n) ==
  /\ replay.at = 0 /\ replays < MaxReplays /\ replays' = replays + 1
  /\ replay' = [at |-> n, removed |-> disk.removed,
                known |-> (SeedFile \cup disk.escrows) \ disk.removed]
  /\ UNCHANGED <<queue, registry, disk, pc, cur, left, dirty, sent, said, exit,
                 history>>

ReplayKnown == replay.known \cup (Deploys[replay.at] \ replay.removed)
ReplayFacts == FactsOf[replay.at][ReplayKnown]

ReplayLedger ==
  /\ replay.at # 0 /\ \A f \in ReplayFacts : Valid(f)
  /\ sent' = sent \cup Messages(ReplayFacts)
  /\ replay' = IF replay.at = MaxLedger THEN Off
               ELSE [at |-> replay.at + 1, known |-> ReplayKnown,
                     removed |-> replay.removed]
  /\ UNCHANGED <<queue, registry, disk, pc, cur, left, dirty, said, exit,
                 history, replays>>

(* It is done, or fails.                                                   *)
ReplayEnds ==
  /\ replay.at # 0 /\ replay' = Off
  /\ UNCHANGED <<queue, registry, disk, pc, cur, left, dirty, sent, said, exit,
                 history, replays>>

-----------------------------------------------------------------------------
Init ==
  /\ queue = <<>> /\ known = {} /\ removed = {} /\ disk = EmptyDisk
  /\ pc = "down" /\ cur = 0 /\ left = 0 /\ dirty = FALSE
  /\ replay = Off /\ sent = {} /\ replays = 0
  /\ said = [e \in Escrows |-> "none"] /\ kept = said
  /\ exit = "none" /\ accepted = 0 /\ crashes = 0

Loop ==
  \/ ProcessLedger \/ FactRefused \/ Checkpoint \/ SkipCheckpoint
  \/ \E c \in Commands : DrainCommand(c)
  \/ DrainEnds \/ Persist
  \/ \E c \in Commands : HoldCommand(c)
  \/ HoldSave \/ HoldCheck \/ HoldExpires

Next ==
  \/ Boot
  \/ Loop
  \/ \E c \in Commands : Accept(c)
  \/ \E c \in Commands : CommandFails(c)
  \/ PublishFails \/ Crash
  \/ \E n \in Ledgers : ReplayStarts(n)
  \/ ReplayLedger \/ ReplayEnds
  \/ Tick

Spec == Init /\ [][Next]_vars

(* The process is restarted and keeps running; operators need do nothing.  *)
(* That time passes is assumed only where a property says so.              *)
FairSpec == Spec /\ WF_vars(Boot) /\ WF_vars(Loop)

-----------------------------------------------------------------------------
(* Properties                                                              *)

TypeOK ==
  /\ queue \in Seq(Commands) /\ Len(queue) <= QueueSize
  /\ known \subseteq Escrows /\ removed \subseteq Escrows
  /\ disk \in [escrows : SUBSET Escrows, removed : SUBSET Escrows,
               cursor : 0 .. MaxLedger]
  /\ pc \in {"down", "ledger", "save", "drain", "persist", "hold", "holdSave",
             "held"}
  /\ cur \in 0 .. MaxLedger /\ (pc # "down" => cur # 0)
  /\ left \in 0 .. MaxPauseTTL
  /\ dirty \in BOOLEAN
  /\ replay \in [at : 0 .. MaxLedger, known : SUBSET Escrows,
                 removed : SUBSET Escrows]
  /\ said \in [Escrows -> Words] /\ kept \in [Escrows -> Words]
  /\ exit \in {"none", "crash", "error"}
  /\ accepted \in Nat /\ crashes \in Nat /\ replays \in Nat

Obeys(tracked, words) ==
  \A e \in Escrows : /\ words[e] = "remove" => e \notin tracked
                     /\ words[e] = "track"  => e \in tracked

(* The last word of the operators on an escrow stands (registry.go: "a     *)
(* catch-up replaying the creation ledger cannot resurrect an escrow an    *)
(* operator removed"; "an explicit request to watch an escrow outranks a   *)
(* past removal"): in memory, and on disk for what was saved, through      *)
(* rediscovery, stale seeds, crashes and restarts.                         *)
OperatorWins ==
  /\ pc # "down" => Obeys(known, said)
  /\ Obeys(disk.escrows, kept)

(* A restart knows of the escrow: from disk, or from the seed file of a    *)
(* first start, or by processing its deployment again.                     *)
Recoverable(e) ==
  \/ e \in disk.escrows
  \/ disk = EmptyDisk /\ e \in SeedFile
  \/ \E n \in Ledgers : disk.cursor < n /\ n <= cur /\ e \in Deploys[n]

Durable == \A e \in Escrows : /\ said[e] = "remove" => e \in disk.removed
                              /\ said[e] = "track"  => Recoverable(e)

(* A command executed is durable before the next ledger is worked on       *)
(* (ingest.go: "A mutation persists immediately: commands were acked at    *)
(* enqueue, so durability is on us").  A track of an escrow discovered but *)
(* not yet saved saves nothing ("already tracked"): a restart goes back    *)
(* before its deployment and discovers it again.                           *)
DurableBeforeWork == pc \in {"ledger", "save"} => Durable

(* A message id names one physical event, and an event has one id          *)
(* (event-schema.md: "Unique per physical event"; replay: "Downstream      *)
(* dedupe absorbs the duplicates"), whoever published it, with whatever    *)
(* registry: before and after a crash, a command, or in a replay.          *)
OneIdPerEvent == \A f, g \in sent : f.msg = g.msg <=> f.at = g.at

(* The facts about an escrow that no operator removes are out before the   *)
(* cursor passes their ledger for good (indexer.go: "escrows deployed in   *)
(* the same ledger they first receive events are already known"), whether  *)
(* deployed before, in the same ledger, or seeded, through every crash.    *)
Removable == UNION {c.ids : c \in {c \in Commands : c.kind = "remove"}}
Since(n)  == SeedFile \cup UNION {Deploys[m] : m \in 1 .. n}
Owed      == [n \in Ledgers |-> FactsOf[n][Since(n) \ Removable]]

FactsDelivered ==
  \A n \in 1 .. disk.cursor : \A f \in Owed[n] : \E g \in sent : g.at = f.at

(* A hold ends: a resume lifts it without waiting for the pause to run out *)
(* (control.go: "still draining commands so resume (and everything else)   *)
(* keeps working"), and as time passes it ends by itself, whatever the     *)
(* operators forget (command.go: "MaxPauseTTL caps how long a single pause *)
(* command can halt the pipeline").                                        *)
Resuming == \E i \in 1 .. Len(queue) : queue[i].kind = "resume"


(* ingest.go: "A mutation persists immediately": a command that was        *)
(* executed survives the process's own exit, even on an error.             *)
MutationSurvivesError ==
  [][exit' = "error" /\ pc' = "down" /\ pc # "down" => Durable]_vars

(* escrow_events.go: "any event emitted by a registered escrow (forwarded  *)
(* regardless of topic ...)", "may be empty; still forwarded": whatever a  *)
(* tracked escrow emits, the loop gets past the ledger.                    *)
LedgersPass ==
  WF_vars(Tick) =>
    \A n \in Ledgers :
      (pc = "ledger" /\ cur = n) ~> (pc = "save" /\ cur = n)
=============================================================================
