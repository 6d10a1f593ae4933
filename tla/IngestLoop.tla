----------------------------- MODULE IngestLoop -----------------------------
(***************************************************************************)
(* The ingestion loop (src/internal/ingest/ingest.go, Ingest) with what it *)
(* drives: the RPC endpoint pool, the two state files, the escrow registry *)
(* and the delivery of detected facts and of gap evidence to the broker.   *)
(*                                                                         *)
(* One process runs the loop, fetching ledgers one at a time from the      *)
(* endpoint that is active.  Around it, every endpoint's window of         *)
(* retained ledgers slides forward on its own, any RPC call may fail, and  *)
(* the process may die between any two of its steps and be restarted.      *)
(*                                                                         *)
(* Abstractions.  A ledger is its sequence number; its header hash is the  *)
(* pair of a chain and that number, so that two chains carry different     *)
(* hashes at the same height.  A ledger's contents are the escrows it      *)
(* deploys and the escrows it has facts about.  The age of a ledger is     *)
(* counted in the ledgers closed after it.  Every fatal return other than  *)
(* a chain divergence or an exhausted pool (a publish that fails, a save   *)
(* that fails, a panic while decoding, a state fetch that fails) is a      *)
(* Crash: it loses the memory and keeps the disk, as a kill does.  State   *)
(* snapshots, the reconciliation sweep, operator commands and replay runs  *)
(* are not part of this module.                                            *)
(*                                                                         *)
(* A definition commented "Mutated" is a wrong form of the one that        *)
(* follows it, used only to show that a property would notice.             *)
(***************************************************************************)
EXTENDS Integers

CONSTANTS
  N,                   \* number of endpoints: RPC_URL, then RPC_FALLBACK_URLS
  Chains, NoChain,     \* chains that share the configured passphrase; none
  ChainOf,             \* ChainOf[i]: the chain endpoint i serves
  Retention,           \* Retention[i]: how many ledgers endpoint i keeps
  WrongNetwork,        \* endpoints whose passphrase is not the configured one
  MaxLedger,           \* bound: the last ledger that closes
  Escrows,             \* contracts with an approved code hash
  Deploys,             \* Deploys[n]: escrows created in ledger n
  Events,              \* Events[n]: escrows ledger n has a fact about
  Seed,                \* escrows of the seed file
  StartLedger,         \* START_LEDGER, 0 for "from the tip"
  EndLedger,           \* END_LEDGER, 0 for an unbounded run
  CheckpointInterval,  \* ledgers between two cursor saves while catching up
  CatchUpLag,          \* ledgers behind the newest that count as catching up
  ResetSlack,          \* ledgers above the tip a start may lie
  MaxCrashes           \* bound: how often the process dies unexpectedly

Endpoints == 0 .. N - 1
Ledgers   == 1 .. MaxLedger

ASSUME ConstantsAssumption ==
  /\ N \in Nat \ {0}
  /\ MaxLedger \in Nat \ {0}
  /\ NoChain \notin Chains
  /\ ChainOf \in [Endpoints -> Chains]
  /\ Retention \in [Endpoints -> Nat \ {0}]
  /\ WrongNetwork \subseteq Endpoints
  /\ Deploys \in [Ledgers -> SUBSET Escrows]
  /\ Events \in [Ledgers -> SUBSET Escrows]
  /\ Seed \subseteq Escrows
  /\ StartLedger \in Nat /\ EndLedger \in Nat
  /\ CheckpointInterval \in Nat \ {0}
  /\ CatchUpLag \in Nat \ {0}
  /\ ResetSlack \in Nat
  /\ MaxCrashes \in Nat

VARIABLES
  head,       \* head[i]: the latest ledger of endpoint i
  cursor,     \* cursor file: last ledger persisted and its hash
  watch,      \* watchlist file: tracked escrows and recorded gaps
  sent,       \* facts the broker has confirmed
  announced,  \* gaps the broker has confirmed
  pc,         \* where the process is
  exit,       \* why it last exited
  cur,        \* currentLedger; while connecting, the start asked for
  gaps,       \* gap records in memory
  known,      \* the registry's escrows
  idx,        \* the active endpoint; while connecting, the one being tried
  tries,      \* endpoints rejected in this connect cycle
  anchor,     \* expectedPrevHash
  last,       \* lastLedgerHash
  ckpt,       \* lastCheckpoint
  todo,       \* messages still to be published before the next step
  origin,     \* history: the ledger this state file started from
  crashes     \* history: crashes so far

disk   == <<cursor, watch>>
broker == <<sent, announced>>
conn   == <<idx, tries>>
chain  == <<anchor, last>>
vars   == <<head, cursor, watch, sent, announced, pc, exit, cur, gaps, known,
            idx, tries, anchor, last, ckpt, todo, origin, crashes>>

-----------------------------------------------------------------------------
(* Values                                                                  *)

Hash   == [chain : Chains \cup {NoChain}, seq : Nat]
NoHash == [chain |-> NoChain, seq |-> 0]
Gap    == [from : Nat, to : Nat]
Fact   == [chain : Chains, ledger : Ledgers, escrow : Escrows]

(* A missing cursor file.  A missing watchlist file needs no value of its  *)
(* own: the loop treats it exactly like an empty one.                      *)
NoCursor   == [seq |-> 0, hash |-> NoHash]
EmptyWatch == [escrows |-> {}, gaps |-> {}]

(* The window [Oldest(i), head[i]] of ledgers endpoint i can serve.        *)
Oldest(i) == IF head[i] > Retention[i] THEN head[i] - Retention[i] + 1 ELSE 1

GapLedgers(G) == {n \in Ledgers : \E g \in G : g.from <= n /\ n <= g.to}

(* The header hash of ledger n as the active endpoint serves it.           *)
LedgerHash(n) == [chain |-> ChainOf[idx], seq |-> n]

(* Mutated: detection runs before the ledger's own deployments are known.  *)
DetectedBeforeDiscovery(n, escrows) ==
  {[chain |-> ChainOf[idx], ledger |-> n, escrow |-> e] :
     e \in Events[n] \cap (escrows \ Deploys[n])}

(* Pass 2 of ProcessLedger: facts about registered escrows only.           *)
DetectedFacts(n, escrows) ==
  {[chain |-> ChainOf[idx], ledger |-> n, escrow |-> e] :
     e \in Events[n] \cap escrows}

(* Mutated: a save that writes the watchlist as it was loaded.             *)
SnapshotAsLoaded == [escrows |-> watch.escrows, gaps |-> gaps]

(* The record a Save must carry, assembled from the live pieces.           *)
SnapshotWatch == [escrows |-> known, gaps |-> gaps]

CatchingUp(n) == \E i \in Endpoints : head[i] - n >= CatchUpLag

(* Mutated: an interval off by one; the interval alone.                    *)
CheckpointLate(n) ==
  \/ ~CatchingUp(n)
  \/ EndLedger # 0 /\ n = EndLedger
  \/ n - ckpt > CheckpointInterval
CheckpointNoTip(n) == n - ckpt >= CheckpointInterval

(* When to save: at the tip, at a bounded run's end, and every interval.   *)
ShouldCheckpoint(n) ==
  \/ ~CatchingUp(n)
  \/ EndLedger # 0 /\ n = EndLedger
  \/ n - ckpt >= CheckpointInterval

(* The loop's condition, evaluated for the ledger it is about to fetch.    *)
LoopHead(n) == IF EndLedger = 0 \/ n <= EndLedger THEN "fetch" ELSE "done"

(* Mutated: no wrap around.                                                *)
NextEndpointNoWrap(i) == i + 1

(* Pool order wraps around: (i + 1) % N.                                   *)
NextEndpoint(i) == IF i + 1 = N THEN 0 ELSE i + 1

-----------------------------------------------------------------------------
(* Exits                                                                   *)

(* The process is gone: its memory is lost, the files stay.                *)
Exit(why) ==
  /\ pc' = "down" /\ exit' = why
  /\ cur' = 0 /\ ckpt' = 0 /\ gaps' = {} /\ known' = {} /\ todo' = {}
  /\ idx' = 0 /\ tries' = 0 /\ anchor' = NoHash /\ last' = NoHash

(* A kill, a power loss, or a fatal return, at any point.                  *)
Crash ==
  /\ pc \notin {"down", "done"}
  /\ crashes < MaxCrashes
  /\ crashes' = crashes + 1
  /\ Exit("crash")
  /\ UNCHANGED <<head, disk, broker, origin>>

-----------------------------------------------------------------------------
(* Boot                                                                    *)

(* Mutated: the watchlist on disk is not restored.                         *)
SeedOnly == Seed

(* The registry a boot starts with.  The seed file is read only when       *)
(* neither state file has anything.                                        *)
RestoredRegistry ==
  IF cursor = NoCursor /\ watch = EmptyWatch THEN Seed ELSE watch.escrows

(* The supervisor restarts the process, which loads the state: a cursor    *)
(* resumes after it; without one the loop starts from the configured       *)
(* ledger, keeping what an orphaned watchlist still records.               *)
Boot ==
  /\ pc \in {"down", "done"}
  /\ cur' = IF cursor = NoCursor THEN StartLedger ELSE cursor.seq + 1
  /\ known' = RestoredRegistry
  /\ gaps' = watch.gaps
  /\ last' = cursor.hash
  /\ pc' = "connect" /\ exit' = "none"
  /\ idx' = 0 /\ tries' = 0 /\ anchor' = NoHash /\ ckpt' = 0 /\ todo' = {}
  /\ UNCHANGED <<head, disk, broker, origin, crashes>>

-----------------------------------------------------------------------------
(* The endpoint pool                                                       *)

Connecting == pc \in {"connect", "rotate"}

(* The start ledger asked of the endpoint being tried: 0 means its tip.    *)
From == IF cur = 0 THEN head[idx] ELSE cur

(* Any call of the adoption sequence fails, or the endpoint serves another *)
(* network or a window that cannot serve the range: try the next one in    *)
(* pool order, and exit once each was tried.                               *)
RejectEndpoint ==
  /\ Connecting
  /\ IF tries + 1 < N
       THEN /\ idx' = NextEndpoint(idx) /\ tries' = tries + 1
            /\ UNCHANGED <<pc, exit, cur, gaps, known, chain, ckpt, todo>>
       ELSE Exit("exhausted")
  /\ UNCHANGED <<head, disk, broker, origin, crashes>>

(* The checks an endpoint passes before it is adopted at ledger start.     *)
Acceptable(start) ==
  /\ Connecting
  /\ idx \notin WrongNetwork
  /\ From <= head[idx] + ResetSlack
  /\ EndLedger = 0 \/ start <= EndLedger

(* What adopting an endpoint at ledger start leaves in memory, shared by   *)
(* the two ways of adopting one.  At boot the checkpoint counter starts    *)
(* there.                                                                  *)
StartAt(start) ==
  /\ cur' = start
  /\ ckpt' = IF pc = "connect" THEN start - 1 ELSE ckpt
  /\ origin' = IF pc = "connect" /\ cursor = NoCursor THEN From ELSE origin
  /\ tries' = 0

(* Mutated: adopting an endpoint publishes no gap.                         *)
AdoptSilently ==
  /\ Acceptable(From)
  /\ From >= Oldest(idx)
  /\ StartAt(From)
  /\ anchor' = last
  /\ pc' = "gaps" /\ todo' = {}
  /\ UNCHANGED <<head, disk, broker, exit, gaps, known, idx, last, crashes>>

(* The endpoint covers the start: adopt it, check that its first ledger    *)
(* descends from the last one processed, and republish every gap.          *)
AdoptEndpoint ==
  /\ Acceptable(From)
  /\ From >= Oldest(idx)
  /\ StartAt(From)
  /\ anchor' = last
  /\ pc' = "gaps" /\ todo' = gaps
  /\ UNCHANGED <<head, disk, broker, exit, gaps, known, idx, last, crashes>>

(* The start fell below the endpoint's retention: skip to its oldest       *)
(* ledger and record the skipped range.  The hash of the last ledger       *)
(* processed is forgotten at boot only.                                    *)
ClampToEndpoint ==
  /\ Acceptable(Oldest(idx))
  /\ From < Oldest(idx)
  /\ StartAt(Oldest(idx))
  /\ gaps' = gaps \cup {[from |-> From, to |-> Oldest(idx) - 1]}
  /\ anchor' = NoHash
  /\ last' = IF pc = "connect" THEN NoHash ELSE last
  /\ pc' = "clampWatch"
  /\ UNCHANGED <<head, disk, broker, exit, known, idx, todo, crashes>>

(* Mutated: the new gap is not written before the cursor moves past it.    *)
ClampCursorOnly ==
  /\ pc = "clampWatch" /\ pc' = "clampCursor"
  /\ UNCHANGED <<head, disk, broker, exit, cur, gaps, known, conn, chain,
                 ckpt, todo, origin, crashes>>

(* onGap's Save: the watchlist file, with the new gap, then the cursor.    *)
SaveClampWatch ==
  /\ pc = "clampWatch"
  /\ watch' = SnapshotWatch
  /\ pc' = "clampCursor"
  /\ UNCHANGED <<head, cursor, broker, exit, cur, gaps, known, conn, chain,
                 ckpt, todo, origin, crashes>>

(* Mutated: the cursor names the first ledger kept, not the last skipped.  *)
ClampCursorPast ==
  /\ pc = "clampCursor"
  /\ cursor' = [seq |-> cur, hash |-> NoHash]
  /\ pc' = "gaps" /\ todo' = gaps
  /\ UNCHANGED <<head, watch, broker, exit, cur, gaps, known, conn, chain,
                 ckpt, origin, crashes>>

SaveClampCursor ==
  /\ pc = "clampCursor"
  /\ cursor' = [seq |-> cur - 1, hash |-> NoHash]
  /\ pc' = "gaps" /\ todo' = gaps
  /\ UNCHANGED <<head, watch, broker, exit, cur, gaps, known, conn, chain,
                 ckpt, origin, crashes>>

-----------------------------------------------------------------------------
(* Gap evidence                                                            *)

PublishGap ==
  /\ pc = "gaps"
  /\ \E g \in todo : announced' = announced \cup {g} /\ todo' = todo \ {g}
  /\ UNCHANGED <<head, disk, sent, pc, exit, cur, gaps, known, conn, chain,
                 ckpt, origin, crashes>>

GapsPublished ==
  /\ pc = "gaps" /\ todo = {}
  /\ pc' = "fetch"
  /\ UNCHANGED <<head, disk, broker, exit, cur, gaps, known, conn, chain,
                 ckpt, todo, origin, crashes>>

-----------------------------------------------------------------------------
(* One ledger                                                              *)

Served == Oldest(idx) <= cur /\ cur <= head[idx]

(* Mutated: only the height is compared.                                   *)
DescendsByHeight == anchor = NoHash \/ anchor.seq = cur - 1

(* verifyChainContinuity, on the first ledger after an adoption.           *)
Descends == anchor = NoHash \/ anchor = LedgerHash(cur - 1)

(* The retries on this endpoint are spent, it stalled at its tip, or the   *)
(* ledger fell below its window: give it up and go round the pool.         *)
GiveUpEndpoint ==
  /\ pc = "fetch"
  /\ pc' = "rotate" /\ idx' = NextEndpoint(idx) /\ tries' = 0
  /\ UNCHANGED <<head, disk, broker, exit, cur, gaps, known, chain, ckpt,
                 todo, origin, crashes>>

(* The ledger arrives, links back to the anchor, and is processed: the     *)
(* discovery pass first, for the whole ledger, then the detection pass.    *)
ProcessLedger ==
  /\ pc = "fetch" /\ Served /\ Descends
  /\ anchor' = NoHash
  /\ known' = known \cup Deploys[cur]
  /\ todo' = DetectedFacts(cur, known \cup Deploys[cur])
  /\ pc' = "facts"
  /\ UNCHANGED <<head, disk, broker, exit, cur, gaps, conn, last, ckpt,
                 origin, crashes>>

(* The ledger arrives and does not link back: fatal.                       *)
Diverge ==
  /\ pc = "fetch" /\ Served /\ ~Descends
  /\ Exit("diverged")
  /\ UNCHANGED <<head, disk, broker, origin, crashes>>

PublishFact ==
  /\ pc = "facts"
  /\ \E f \in todo : sent' = sent \cup {f} /\ todo' = todo \ {f}
  /\ UNCHANGED <<head, disk, announced, pc, exit, cur, gaps, known, conn,
                 chain, ckpt, origin, crashes>>

(* The end of an iteration: remember the hash, go on to the next ledger.   *)
NextLedger ==
  /\ last' = LedgerHash(cur)
  /\ cur' = cur + 1
  /\ pc' = LoopHead(cur + 1)

(* Every fact is published.  Save when a checkpoint is due.                *)
SkipCheckpoint ==
  /\ pc = "facts" /\ todo = {} /\ ~ShouldCheckpoint(cur)
  /\ NextLedger
  /\ UNCHANGED <<head, disk, broker, exit, gaps, known, conn, anchor, ckpt,
                 todo, origin, crashes>>

SaveWatch ==
  /\ pc = "facts" /\ todo = {} /\ ShouldCheckpoint(cur)
  /\ watch' = SnapshotWatch
  /\ pc' = "saveCursor"
  /\ UNCHANGED <<head, cursor, broker, exit, cur, gaps, known, conn, chain,
                 ckpt, todo, origin, crashes>>

SaveCursor ==
  /\ pc = "saveCursor"
  /\ cursor' = [seq |-> cur, hash |-> LedgerHash(cur)]
  /\ ckpt' = cur
  /\ NextLedger
  /\ UNCHANGED <<head, watch, broker, exit, gaps, known, conn, anchor, todo,
                 origin, crashes>>

-----------------------------------------------------------------------------
(* The network closes a ledger; endpoint i serves it and drops an old one. *)
LedgerCloses(i) ==
  /\ head[i] < MaxLedger
  /\ head' = [head EXCEPT ![i] = @ + 1]
  /\ UNCHANGED <<disk, broker, pc, exit, cur, gaps, known, conn, chain, ckpt,
                 todo, origin, crashes>>

Init ==
  /\ head \in [Endpoints -> Ledgers]
  /\ cursor = NoCursor /\ watch = EmptyWatch
  /\ sent = {} /\ announced = {}
  /\ pc = "down" /\ exit = "none"
  /\ cur = 0 /\ ckpt = 0 /\ gaps = {} /\ known = {} /\ todo = {}
  /\ idx = 0 /\ tries = 0 /\ anchor = NoHash /\ last = NoHash
  /\ origin = 0 /\ crashes = 0

Next ==
  \/ Boot
  \/ RejectEndpoint
  \/ AdoptEndpoint
  \/ ClampToEndpoint
  \/ SaveClampWatch
  \/ SaveClampCursor
  \/ PublishGap
  \/ GapsPublished
  \/ GiveUpEndpoint
  \/ ProcessLedger
  \/ Diverge
  \/ PublishFact
  \/ SkipCheckpoint
  \/ SaveWatch
  \/ SaveCursor
  \/ Crash
  \/ \E i \in Endpoints : LedgerCloses(i)

Spec == Init /\ [][Next]_vars

(* Fairness.  The process runs: each of its own steps is taken once it     *)
(* stays possible, the supervisor restarts it, and the network keeps       *)
(* closing ledgers.  An endpoint may fail any number of times, but not     *)
(* every time: a start ledger asked for again and again is granted at      *)
(* last, and so is a ledger fetched again and again where it is served.    *)
Fairness ==
  /\ WF_vars(Boot)
  /\ WF_vars(SaveClampWatch) /\ WF_vars(SaveClampCursor)
  /\ WF_vars(PublishGap) /\ WF_vars(GapsPublished)
  /\ WF_vars(GiveUpEndpoint) /\ WF_vars(RejectEndpoint)
  /\ WF_vars(PublishFact) /\ WF_vars(SkipCheckpoint)
  /\ WF_vars(SaveWatch) /\ WF_vars(SaveCursor)
  /\ \A n \in 0 .. MaxLedger :
       /\ SF_vars(cur = n /\ (AdoptEndpoint \/ ClampToEndpoint))
       /\ SF_vars(cur = n /\ (ProcessLedger \/ Diverge))
  /\ \A i \in Endpoints : WF_vars(LedgerCloses(i))

FairSpec == Spec /\ Fairness

-----------------------------------------------------------------------------
(* Type correctness                                                        *)

Running == {"gaps", "fetch", "facts", "saveCursor"}

TypeOK ==
  /\ head \in [Endpoints -> Ledgers]
  /\ cursor \in [seq : Nat, hash : Hash]
  /\ watch \in [escrows : SUBSET Escrows, gaps : SUBSET Gap]
  /\ sent \subseteq Fact
  /\ announced \subseteq Gap
  /\ pc \in Running \cup {"down", "done", "connect", "rotate",
                          "clampWatch", "clampCursor"}
  /\ exit \in {"none", "crash", "exhausted", "diverged"}
  /\ cur \in Nat /\ ckpt \in Nat /\ origin \in Nat /\ crashes \in Nat
  /\ pc \in {"clampWatch", "clampCursor"} => cur # 0
  /\ gaps \subseteq Gap
  /\ known \subseteq Escrows
  /\ idx \in Endpoints /\ tries \in Endpoints
  /\ anchor \in Hash /\ last \in Hash
  /\ todo \subseteq IF pc = "facts" THEN Fact ELSE Gap

-----------------------------------------------------------------------------
(* Safety                                                                  *)

(* The escrows whose facts in ledger n the indexer owes its consumer when  *)
(* G is the recorded evidence of loss: those of the seed file, and those   *)
(* deployed since the start in a ledger the evidence does not cover.       *)
Owed(n, G) ==
  {e \in Events[n] : \/ e \in Seed
                     \/ \E d \in Ledgers : /\ origin <= d /\ d <= n
                                           /\ d \notin GapLedgers(G)
                                           /\ e \in Deploys[d]}

Delivered(n, G) ==
  \A e \in Owed(n, G) : \E f \in sent : f.ledger = n /\ f.escrow = e

(* Every ledger from the start up to b was delivered whole or is named in  *)
(* the gap evidence G.                                                     *)
Accounted(b, G) ==
  \A n \in Ledgers : origin <= n /\ n <= b => \/ n \in GapLedgers(G)
                                              \/ Delivered(n, G)

(* No silent loss (ingest.go: "Persist the cursor only after every fact in *)
(* this ledger was published"; onGap).  Whatever crashes, restarts,        *)
(* rotations and retention do, the durable cursor never stands past a      *)
(* ledger whose owed facts the broker has not confirmed, unless the        *)
(* durable gap evidence names that ledger.                                 *)
NoSilentLoss == cursor # NoCursor => Accounted(cursor.seq, watch.gaps)

(* The registry on disk is never behind the cursor on disk (file_store.go: *)
(* "The reverse order could advance the cursor past a just-tracked escrow  *)
(* and forget it"): a restart knows every escrow it cannot discover again. *)
RegistryCoversCursor ==
  cursor # NoCursor =>
    /\ Seed \subseteq watch.escrows
    /\ \A d \in Ledgers : origin <= d /\ d <= cursor.seq =>
         d \in GapLedgers(watch.gaps) \/ Deploys[d] \subseteq watch.escrows

(* The loop never works past a hole (ingest.go: "the skipped range is      *)
(* recorded as a Gap and persisted BEFORE any ledger is processed"): once  *)
(* connected, each ledger behind the current one was delivered, or the     *)
(* watchlist file already names it as skipped.                             *)
NoHoleBehind == pc \in Running => Accounted(cur - 1, watch.gaps)

(* Gap evidence is signalled before ledgers are processed (ingest.go:      *)
(* "a crash between recording a gap and publishing it must not lose the    *)
(* signal"): while a ledger is worked on, every gap on disk, recorded in   *)
(* this life or an earlier one, has been confirmed by the broker.          *)
GapsSignalled == pc \in Running \ {"gaps"} => watch.gaps \subseteq announced

(* A crash reprocesses at most the checkpoint window (catchup.go: "A crash *)
(* reprocesses at most this window"): the facts being published never run  *)
(* further than the interval ahead of the durable cursor.                  *)
ReplayWindow ==
  pc \in {"facts", "saveCursor"} /\ cursor # NoCursor
    => cur - cursor.seq <= CheckpointInterval

(* A bounded run that reports completion has made its end durable          *)
(* (catchup.go: "plus the final ledger of a bounded backfill so the run's  *)
(* end is durable").                                                       *)
RunEndDurable == pc = "done" => cursor.seq = EndLedger

(* What is on disk never regresses: the cursor does not move back, and no  *)
(* save drops a recorded gap or a tracked escrow (ingest.go: "every Save   *)
(* below must carry them forward or the record is lost").                  *)
NeverRegresses ==
  [][/\ cursor.seq <= cursor'.seq
     /\ watch.gaps \subseteq watch'.gaps
     /\ watch.escrows \subseteq watch'.escrows]_disk

(* The durable lineage stays on one chain (ingest.go: "a fallback serving  *)
(* a different chain cannot poison the read-model"): the cursor passes     *)
(* from a ledger of one chain to a ledger of another only through a cursor *)
(* without a hash, which a recorded gap leaves.                            *)
OneChain ==
  [][cursor.hash # NoHash /\ cursor'.hash # NoHash
       => cursor.hash.chain = cursor'.hash.chain]_disk

(* The claims of the documentation that the code does not keep.            *)

(* catchup.go: "A mismatch means the RPC serves a different chain than the *)
(* state was built on".                                                    *)
DivergenceIsReal ==
  [][exit # "diverged" /\ exit' = "diverged"
       => ChainOf[idx] # anchor.chain]_vars

-----------------------------------------------------------------------------
(* Liveness                                                                *)

(* With finitely many crashes the cursor reaches the last ledger that      *)
(* closes and stays there: neither rotation, clamps nor spurious exits     *)
(* stop the feed for good.                                                 *)
CatchesUp == <>[](cursor.seq = MaxLedger)

(* Recorded evidence of loss is published sooner or later, however often   *)
(* the process dies between recording and publishing it.                   *)
EvidenceReachesBroker == []<>(watch.gaps \subseteq announced)
=============================================================================
