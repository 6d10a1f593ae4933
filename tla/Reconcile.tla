----------------------------- MODULE Reconcile ------------------------------
(***************************************************************************)
(* How the consumer's picture of each escrow's state is kept right: the    *)
(* snapshots fetched after activity, deferred while catching up, the       *)
(* rotating reconciliation sweep, and the snapshots operators ask for      *)
(* (processors/escrow_state.go, processors/escrow_sweep.go, and their use  *)
(* in ingest/ingest.go, ingest/catchup.go and ingest/control.go).          *)
(*                                                                         *)
(* The chain moves on its own: a ledger may write the entry that carries   *)
(* an escrow's state, with a contract event or without one, or delete it.  *)
(* A fetch reads the chain at its tip while the loop is at an earlier      *)
(* ledger, and takes up to two requests, between which the chain may move. *)
(* The consumer keeps, per escrow, the snapshot of the highest ledger_seq, *)
(* the first one received for that ledger.                                 *)
(*                                                                         *)
(* Abstractions.  An escrow's contents are the ledger that last modified   *)
(* them; the three encodings of a dedicated data entry are one, beside the *)
(* contract instance.  Escrows are numbered in the order of their ids.     *)
(* Ages are counted in ledgers.  The registry survives a crash             *)
(* (ControlPlane), commands arrive whenever the loop drains them, the      *)
(* snapshots of one fetch are published in one step, and a publish that    *)
(* fails is a Crash.                                                       *)
(*                                                                         *)
(* A definition commented "Mutated" is a wrong form of the one that        *)
(* follows it, used only to show that a property would notice.             *)
(***************************************************************************)
EXTENDS Integers, FiniteSets

CONSTANTS
  E,             \* number of escrows
  Shape,         \* Shape[e]: the entries e has at the start
  Watched,       \* escrows tracked at the start
  Moves,         \* what the chain may do to an escrow
  Faults,        \* which fetches may fail
  Operations,    \* the commands operators send
  SweepEnabled,  \* INDEXER_SWEEP_ENABLED
  CandidateKeys, \* candidateKeysPerEscrow
  KeyBudget,     \* MaxLedgerEntryKeys
  GuardMin,      \* removalGuardMinBatch
  CatchUpLag,    \* ledgers behind the tip that count as catching up
  SweepLag,      \* ledgers behind the tip at which the sweep still runs
  MaxLedger,     \* bound: the last ledger that closes
  MaxMoves,      \* bound: how often the chain touches an escrow
  LastChange,    \* bound: no escrow changes, no command runs, and nothing
                 \* fails or dies beyond this ledger
  MaxCommands,   \* bound: commands executed
  MaxCrashes     \* bound: how often the process dies

Escrows == 1 .. E
Ledgers == 1 .. MaxLedger
Keys    == {"data", "inst"}

ASSUME ReconcileAssumption ==
  /\ E \in Nat \ {0} /\ MaxLedger \in Nat \ {0}
  /\ Shape \in [Escrows -> SUBSET Keys]
  /\ Watched \subseteq Escrows
  /\ Moves \subseteq {"write", "drift", "vanish", "expire", "migrate"}
  /\ Faults \subseteq {"sweepFetch", "commandFetch"}
  /\ Operations \subseteq {"track", "refresh", "remove", "reconcile"}
  /\ SweepEnabled \in BOOLEAN
  /\ CandidateKeys \in Nat \ {0} /\ KeyBudget \in Nat /\ GuardMin \in Nat
  /\ SweepLag \in Nat /\ CatchUpLag \in Nat /\ SweepLag < CatchUpLag
  /\ MaxMoves \in Nat /\ LastChange \in Nat /\ MaxCommands \in Nat /\ MaxCrashes \in Nat

VARIABLES
  tip,        \* the chain's latest ledger
  entry,      \* entry[e][k]: ledger that last modified it, 0 when absent
  changed,    \* changed[e]: ledger in which e's state last changed
  active,     \* active[n]: escrows with contract events in ledger n
  moves,      \* history: changes so far
  pc,         \* where the loop is
  cur,        \* currentLedger
  known,      \* the registry
  pending,    \* pendingStates
  learned,    \* EscrowStateDetector.learned
  pos,        \* Sweeper.pos
  passStart,  \* Sweeper.passStart
  prevPass,   \* Sweeper.prevPassStart
  job,        \* what the fetch under way is for
  asked,      \* the ids it asked about
  again,      \* the ids it asks about again, with every key
  found,      \* the entries it was answered with
  view,       \* the consumer: the snapshot it keeps of each escrow
  saved,      \* the durable cursor
  commands,   \* history: commands executed
  crashes,    \* history: crashes so far
  first,      \* history: where this process began
  missed      \* history: escrows that a report was due for and not made

network == <<tip, entry, changed, active, moves>>
sweeper == <<pos, passStart, prevPass>>
fetch   == <<job, asked, again, found>>
bounds  == <<commands, crashes, first, missed>>
vars == <<network, pc, cur, known, pending, learned, sweeper, fetch, view,
          saved, bounds>>

-----------------------------------------------------------------------------
(* The chain                                                               *)

Live(e, k) == entry[e][k] # 0

(* What the chain holds for e: the entry that carries its state.           *)
Gone == [key |-> "removed", mod |-> 0]
Truth(e) ==
  CASE Live(e, "data")                     -> [key |-> "data", mod |-> entry[e]["data"]]
    [] ~Live(e, "data") /\ Live(e, "inst") -> [key |-> "inst", mod |-> entry[e]["inst"]]
    [] OTHER                               -> Gone

(* The entries of e after move m in ledger n.                              *)
Moved(e, m, n) ==
  CASE m \in {"write", "drift"} -> [entry[e] EXCEPT ![Truth(e).key] = n]
    [] m = "migrate"            -> [entry[e] EXCEPT !["data"] = n]
    [] m = "expire"             -> [entry[e] EXCEPT !["data"] = 0]
    [] m = "vanish"             -> [k \in Keys |-> 0]

Possible(e, m) ==
  CASE m \in {"write", "drift", "vanish"} -> Truth(e) # Gone
    [] m = "migrate" -> Live(e, "inst") /\ ~Live(e, "data")
    [] m = "expire"  -> Live(e, "inst") /\ Live(e, "data")

(* A ledger closes without touching any escrow ...                         *)
LedgerCloses ==
  /\ tip < MaxLedger /\ tip' = tip + 1
  /\ UNCHANGED <<entry, changed, active, moves, pc, cur, known, pending,
                 learned, sweeper, fetch, view, saved, bounds>>

(* ... or with a change to one of them.  Only a write and a migration emit *)
(* contract events.                                                        *)
EscrowMoves(e, m) ==
  /\ tip < MaxLedger /\ tip < LastChange /\ tip' = tip + 1
  /\ moves < MaxMoves /\ moves' = moves + 1
  /\ Possible(e, m)
  /\ entry' = [entry EXCEPT ![e] = Moved(e, m, tip')]
  /\ changed' = [changed EXCEPT ![e] = tip']
  /\ active' = IF m \in {"write", "migrate"}
                 THEN [active EXCEPT ![tip'] = {e}] ELSE active
  /\ UNCHANGED <<pc, cur, known, pending, learned, sweeper, fetch, view, saved,
                 bounds>>

-----------------------------------------------------------------------------
(* The process                                                             *)

CatchingUp == tip - cur >= CatchUpLag

NoKeys == [e \in Escrows |-> "none"]

(* Pending states, learned keys and the rotation are in memory only.       *)
Crash ==
  /\ pc # "down" /\ cur <= LastChange /\ crashes < MaxCrashes
  /\ pc' = "down" /\ cur' = 0 /\ first' = 0 /\ crashes' = crashes + 1
  /\ pending' = {} /\ learned' = NoKeys /\ missed' = {}
  /\ pos' = 0 /\ passStart' = 0 /\ prevPass' = 0
  /\ job' = "none" /\ asked' = {} /\ again' = {} /\ found' = {}
  /\ UNCHANGED <<network, known, view, saved, commands>>

Boot ==
  /\ pc = "down" /\ pc' = "ledger" /\ cur' = saved + 1 /\ first' = cur'
  /\ UNCHANGED <<network, known, pending, learned, sweeper, fetch, view, saved,
                 commands, crashes, missed>>

Ask(why, ids) ==
  /\ job' = why /\ asked' = ids /\ again' = {} /\ found' = {}
  /\ pc' = "query"

(* Mutated: the deferred escrows are cleared and not asked about.          *)
DrainPendingLost(ids) == ids

(* drainPending: the deferred escrows join the active ones.                *)
DrainPending(ids) == pending \cup ids

ActiveEscrows == active[cur] \cap known

(* A ledger is processed.  While catching up its active escrows are        *)
(* remembered, and the sweep is not due, since SweepLag < CatchUpLag.      *)
DeferLedger ==
  /\ pc = "ledger" /\ cur <= tip /\ CatchingUp
  /\ pending' = pending \cup ActiveEscrows /\ pc' = "deferred"
  /\ UNCHANGED <<network, cur, known, learned, sweeper, fetch, view, saved,
                 bounds>>

(* At the tip they are asked about, with all the remembered ones.          *)
ProcessLedger ==
  /\ pc = "ledger" /\ cur <= tip /\ ~CatchingUp
  /\ pending' = {}
  /\ IF DrainPending(ActiveEscrows) = {}
       THEN pc' = "sweep" /\ UNCHANGED fetch
       ELSE Ask("activity", DrainPending(ActiveEscrows))
  /\ UNCHANGED <<network, cur, known, learned, sweeper, view, saved, bounds>>

(* The ledger is not closed yet: the fetch polls.                          *)
AwaitLedger ==
  /\ pc = "ledger" /\ cur > tip
  /\ UNCHANGED vars

-----------------------------------------------------------------------------
(* The sweep                                                               *)

Rank(e)  == Cardinality({x \in known : x < e})
Ahead(p) == {e \in known : Rank(e) >= p}

(* KeyCost, summed: a learned key costs one, else every candidate.         *)
KeyCost(ids) ==
  LET short == {e \in ids : learned[e] # "none"}
  IN  Cardinality(short) + CandidateKeys * Cardinality(ids \ short)

(* Mutated: an escrow that exceeds the budget alone is never returned.     *)
BatchWithinBudget(p) ==
  {e \in Ahead(p) : KeyCost({x \in Ahead(p) : x <= e}) <= KeyBudget}

(* The next ids in rotation that fit the budget, and at least one.         *)
Batch(p) ==
  {e \in Ahead(p) : LET upTo == {x \in Ahead(p) : x <= e}
                    IN  upTo = {e} \/ KeyCost(upTo) <= KeyBudget}

(* Mutated: the anchor is the pass that begins, and a pass that is over    *)
(* does not turn round.                                                    *)
BeginPassNow(p) ==
  IF p = 0 THEN prevPass' = cur /\ passStart' = cur
           ELSE UNCHANGED <<prevPass, passStart>>
AdvanceOnly(p, n) == pos' = p + n

(* The anchor of the filter is where the previous pass began.              *)
BeginPass(p) ==
  IF p = 0 THEN prevPass' = passStart /\ passStart' = cur
           ELSE UNCHANGED <<prevPass, passStart>>

Advance(p, n) == pos' = IF p + n >= Cardinality(known) THEN 0 ELSE p + n

SweepDue == SweepEnabled /\ tip - cur <= SweepLag /\ known # {}

(* NextBatch, and the fetch of what it returns.                            *)
NextBatch ==
  /\ pc = "sweep" /\ SweepDue
  /\ LET p == IF pos >= Cardinality(known) THEN 0 ELSE pos
     IN  /\ BeginPass(p)
         /\ Advance(p, Cardinality(Batch(p)))
         /\ Ask("sweep", Batch(p))
  /\ UNCHANGED <<network, cur, known, pending, learned, view, saved, bounds>>

NoSweep ==
  /\ pc = "sweep" /\ ~SweepDue /\ pc' = "save"
  /\ UNCHANGED <<network, cur, known, pending, learned, sweeper, fetch, view,
                 saved, bounds>>

-----------------------------------------------------------------------------
(* A fetch                                                                 *)

Ids(changes) == {c.id : c \in changes}

(* buildStateChanges over the answer for keys: one change per tracked      *)
(* escrow, from its data entry if that was answered, else its instance.    *)
Build(keys) ==
  {[id |-> q[1], key |-> q[2], mod |-> entry[q[1]][q[2]]] :
     q \in {q \in keys : /\ Live(q[1], q[2]) /\ q[1] \in known
                         /\ q[2] = "inst" =>
                              <<q[1], "data">> \notin keys \/ ~Live(q[1], "data")}}

(* The learned key of an escrow, or every candidate.                       *)
KeysOf(ids) == {q \in ids \X Keys : learned[q[1]] \in {"none", q[2]}}

Learn(changes, before) ==
  [e \in Escrows |-> IF \E c \in changes : c.id = e
                       THEN (CHOOSE c \in changes : c.id = e).key
                       ELSE before[e]]

Forget(ids) == [e \in Escrows |-> IF e \in ids THEN "none" ELSE learned[e]]

(* The escrows asked for by a learned key that answered nothing.           *)
MissingLearned(ids) == {e \in ids : learned[e] # "none"}

(* queryEntries and buildStateChanges.  A learned key that found nothing   *)
(* is forgotten, and the escrow asked about again.                         *)
Query ==
  /\ pc = "query"
  /\ LET changes == Build(KeysOf(asked))
         lost    == MissingLearned(asked \ Ids(changes))
     IN  /\ found' = changes /\ again' = lost
         /\ learned' = Learn(changes, Forget(lost))
         /\ pc' = IF lost = {} THEN "publish" ELSE "relearn"
  /\ UNCHANGED <<network, cur, known, pending, sweeper, job, asked, view,
                 saved, bounds>>

Relearn ==
  /\ pc = "relearn" /\ pc' = "publish"
  /\ LET changes == Build(again \X Keys)
     IN  found' = found \cup changes /\ learned' = Learn(changes, learned)
  /\ UNCHANGED <<network, cur, known, pending, sweeper, job, asked, again,
                 view, saved, bounds>>

AfterFetch ==
  /\ pc' = CASE job = "activity" -> "sweep"
             [] job = "sweep"    -> "save"
             [] job = "command"  -> "drain"
  /\ job' = "none" /\ asked' = {} /\ again' = {} /\ found' = {}

(* A failed fetch is skipped for the sweep and for a command; after        *)
(* activity it is fatal, a Crash.                                          *)
FetchFails ==
  /\ pc \in {"query", "relearn"} /\ cur <= LastChange
  /\ \/ job = "sweep" /\ "sweepFetch" \in Faults
     \/ job = "command" /\ "commandFetch" \in Faults
  /\ AfterFetch /\ missed' = missed \cup asked
  /\ UNCHANGED <<network, cur, known, pending, learned, sweeper, view, saved,
                 commands, crashes, first>>

(* filterUnchanged: the sweep leaves out what its previous pass reported.  *)
Updates ==
  {c \in found : job # "sweep" \/ prevPass = 0 \/ c.mod >= prevPass}

(* Mutated: absence is judged over what the filter lets through.           *)
MissingFiltered == asked \ Ids(Updates)

(* The escrows asked about that answered with no entry at all.             *)
Missing == asked \ Ids(found)

(* isImplausibleRemovalBatch.                                              *)
Implausible ==
  /\ Cardinality(asked) >= GuardMin
  /\ 2 * Cardinality(Missing) > Cardinality(asked)

(* appendRemoved, behind the guard.                                        *)
Removals == IF Implausible THEN {} ELSE Missing

(* The consumer keeps the row with the highest ledger_seq, and ignores a   *)
(* message_id it has seen.                                                 *)
Received(e) ==
  CASE view[e].seq >= cur  -> view[e]
    [] view[e].seq < cur /\ \E c \in Updates : c.id = e ->
         LET c == CHOOSE c \in Updates : c.id = e
         IN  [seq |-> cur, key |-> c.key, mod |-> c.mod]
    [] view[e].seq < cur /\ e \in Removals ->
         [seq |-> cur, key |-> "removed", mod |-> 0]
    [] OTHER -> view[e]

Publish ==
  /\ pc = "publish" /\ AfterFetch
  /\ view' = [e \in Escrows |-> Received(e)]
  /\ missed' = (missed \cup Missing) \ (Ids(Updates) \cup Removals)
  /\ UNCHANGED <<network, cur, known, pending, learned, sweeper, saved,
                 commands, crashes, first>>

-----------------------------------------------------------------------------
(* The end of an iteration                                                 *)

(* The cursor is saved at the tip, and now and then while catching up.     *)
Checkpoint ==
  /\ pc \in {"save", "deferred"} /\ pc' = "drain" /\ saved' = cur
  /\ UNCHANGED <<network, cur, known, pending, learned, sweeper, fetch, view,
                 bounds>>

SkipCheckpoint ==
  /\ pc = "deferred" /\ pc' = "drain"
  /\ UNCHANGED <<network, cur, known, pending, learned, sweeper, fetch, view,
                 saved, bounds>>

Command(op) ==
  /\ pc = "drain" /\ op \in Operations /\ cur <= LastChange
  /\ commands < MaxCommands /\ commands' = commands + 1

TrackEscrow(e) ==
  /\ Command("track") /\ known' = known \cup {e} /\ Ask("command", {e})
  /\ UNCHANGED <<network, cur, pending, learned, sweeper, view, saved, crashes,
                 first, missed>>

RefreshEscrow(e) ==
  /\ Command("refresh") /\ e \in known /\ Ask("command", {e})
  /\ UNCHANGED <<network, cur, known, pending, learned, sweeper, view, saved,
                 crashes, first, missed>>

(* The ids behind it move down, and the next one under the sweep's         *)
(* position.                                                               *)
RemoveEscrow(e) ==
  /\ Command("remove") /\ known' = known \ {e}
  /\ missed' = missed \cup (IF e \in known /\ Rank(e) < pos
                            THEN {x \in known : Rank(x) = pos} ELSE {})
  /\ UNCHANGED <<network, pc, cur, pending, learned, sweeper, fetch, view,
                 saved, crashes, first>>

(* Sweeper.Reset.                                                          *)
ReconcileAll ==
  /\ Command("reconcile") /\ pos' = 0 /\ passStart' = 0 /\ prevPass' = 0
  /\ UNCHANGED <<network, pc, cur, known, pending, learned, fetch, view, saved,
                 crashes, first, missed>>

NextLedger ==
  /\ pc = "drain" /\ pc' = "ledger" /\ cur' = cur + 1
  /\ UNCHANGED <<network, known, pending, learned, sweeper, fetch, view, saved,
                 bounds>>

-----------------------------------------------------------------------------
Init ==
  /\ tip = 1 /\ moves = 0
  /\ entry = [e \in Escrows |-> [k \in Keys |-> IF k \in Shape[e] THEN 1 ELSE 0]]
  /\ changed = [e \in Escrows |-> 1]
  /\ active = [n \in Ledgers |-> {}]
  /\ pc = "down" /\ cur = 0 /\ saved = 0
  /\ known = Watched /\ pending = {} /\ learned = NoKeys
  /\ pos = 0 /\ passStart = 0 /\ prevPass = 0
  /\ job = "none" /\ asked = {} /\ again = {} /\ found = {}
  /\ view = [e \in Escrows |-> [seq |-> 0, key |-> "none", mod |-> 0]]
  /\ commands = 0 /\ crashes = 0 /\ first = 0 /\ missed = {}

Loop ==
  \/ Boot \/ DeferLedger \/ ProcessLedger \/ AwaitLedger
  \/ NextBatch \/ NoSweep
  \/ Query \/ Relearn \/ Publish
  \/ Checkpoint \/ SkipCheckpoint \/ NextLedger

Operator ==
  \/ \E e \in Escrows : TrackEscrow(e) \/ RefreshEscrow(e) \/ RemoveEscrow(e)
  \/ ReconcileAll

Chain == LedgerCloses \/ \E e \in Escrows, m \in Moves : EscrowMoves(e, m)

Next == Loop \/ Operator \/ Chain \/ FetchFails \/ Crash

Spec == Init /\ [][Next]_vars

(* The process runs and is restarted, and the chain goes on closing        *)
(* ledgers; it need not touch an escrow, nor the operators do anything.    *)
FairSpec == Spec /\ WF_vars(Loop) /\ WF_vars(Chain)

-----------------------------------------------------------------------------
(* Properties                                                              *)

TypeOK ==
  /\ tip \in Ledgers /\ moves \in 0 .. MaxMoves
  /\ entry \in [Escrows -> [Keys -> 0 .. MaxLedger]]
  /\ changed \in [Escrows -> Ledgers]
  /\ active \in [Ledgers -> SUBSET Escrows]
  /\ pc \in {"down", "ledger", "deferred", "sweep", "query", "relearn", "publish",
             "save", "drain"}
  /\ cur \in 0 .. MaxLedger + 1 /\ first \in 0 .. cur /\ saved \in 0 .. MaxLedger
  /\ known \subseteq Escrows /\ pending \subseteq Escrows
  /\ learned \in [Escrows -> Keys \cup {"none"}]
  /\ pos \in 0 .. E - 1
  /\ passStart \in 0 .. MaxLedger /\ prevPass \in 0 .. passStart
  /\ missed \subseteq Escrows
  /\ job \in {"none", "activity", "sweep", "command"}
  /\ asked \subseteq Escrows /\ again \subseteq asked
  /\ found \subseteq [id : asked, key : Keys, mod : Ledgers]
  /\ view \in [Escrows -> [seq : 0 .. MaxLedger,
                           key : Keys \cup {"none", "removed"},
                           mod : 0 .. MaxLedger]]

Accurate(e) == [key |-> view[e].key, mod |-> view[e].mod] = Truth(e)

(* Told that a live escrow is gone, which happens to one that was not      *)
(* tracked when it was asked about (NoFalseRemoval, and RemovalsTrue), the *)
(* consumer keeps that over what it is told of it later in that ledger.    *)
Misled(e) == view[e].key = "removed" /\ Truth(e) # Gone

(* What the filter leaves out, the consumer has: but for the fetch under   *)
(* way, it is right about every tracked escrow whose state has not changed *)
(* since the previous pass began, unless a fetch that was skipped, a       *)
(* removal that was suppressed or one that moved the rotation passed it    *)
(* over, or it was misled.                                                 *)
FilterSound ==
  \A e \in known \ (asked \cup missed) :
    changed[e] < prevPass => Accurate(e) \/ Misled(e)

(* No tracked escrow that is live is reported removed, whatever storage it *)
(* has, keys were learned for it, or moves the chain makes between the two *)
(* requests (escrow_state.go: "removal may only ever be declared from full *)
(* candidate coverage").                                                   *)
RemovalsTrue ==
  pc = "publish" => \A e \in Removals \cap known : Truth(e) = Gone

(* Activity is followed by a snapshot (ingest.go: "Deferred escrows flush  *)
(* in one correctly-stamped batch upon reaching the tip"): of the ledgers  *)
(* this process has worked on, each active escrow has a snapshot stamped   *)
(* with that ledger or a later one, or is deferred, or is being asked      *)
(* about, or was passed over.                                              *)
ActivityCovered ==
  \A n \in Ledgers : first <= n /\ n < cur /\ pc # "down" =>
    \A e \in active[n] \cap known :
      view[e].seq >= n \/ e \in pending \cup asked \cup missed

(* With the chain at rest the consumer's picture becomes right and stays   *)
(* right (escrow_sweep.go: "reconcile every tracked escrow against the     *)
(* chain WITHOUT depending on the escrow having activity"), of all that    *)
(* were not passed over, or was misled about.                              *)
Converges == <>[](\A e \in known \ missed : Accurate(e) \/ Misled(e))

-----------------------------------------------------------------------------
(* Claims of the documentation that the code does not keep                 *)

(* escrow_sweep.go: "everything modified before the PREVIOUS pass began    *)
(* was already reported by it".                                            *)
FilterAlwaysSound ==
  \A e \in known \ asked : changed[e] < prevPass => Accurate(e)

(* No live escrow is reported removed (escrow_state.go: "a false 'removed' *)
(* is the one mistake this detector must never make").                     *)
NoFalseRemoval == pc = "publish" => \A e \in Removals : Truth(e) = Gone
=============================================================================
