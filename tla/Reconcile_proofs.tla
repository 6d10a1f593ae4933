-------------------------- MODULE Reconcile_proofs --------------------------
(***************************************************************************)
(* Proofs about Reconcile, for every number of escrows, every storage      *)
(* shape, everything the chain may do to it and every failure.             *)
(***************************************************************************)
EXTENDS Reconcile, FiniteSetTheorems, WellFoundedInduction, TLAPS

-----------------------------------------------------------------------------
(* Types                                                                   *)

Fetching == pc \in {"query", "relearn", "publish"}

(* How far the loop may be, and that only a fetch has ids and answers.     *)
PlaceInv ==
  /\ passStart <= cur /\ saved <= tip
  /\ IF pc = "down" THEN cur = 0 ELSE 1 <= cur /\ cur <= tip + 1
  /\ pc \notin {"down", "ledger"} => cur <= tip
  /\ Fetching => job # "none"
  /\ ~Fetching => job = "none" /\ asked = {} /\ again = {} /\ found = {}

TypeInv == TypeOK /\ PlaceInv

NetworkType ==
  /\ tip \in Ledgers /\ moves \in 0 .. MaxMoves
  /\ entry \in [Escrows -> [Keys -> 0 .. MaxLedger]]
  /\ changed \in [Escrows -> Ledgers]
  /\ active \in [Ledgers -> SUBSET Escrows]

Snapshots == [seq : 0 .. MaxLedger, key : Keys \cup {"none", "removed"},
              mod : 0 .. MaxLedger]
Answers   == [id : Escrows, key : Keys, mod : Ledgers]

LEMMA KnownFinite ==
  ASSUME TypeInv, NEW S \in SUBSET known
  PROVE  IsFiniteSet(S) /\ Cardinality(S) \in 0 .. E
  <1>1. IsFiniteSet(1 .. E) /\ Cardinality(1 .. E) = E
    BY ReconcileAssumption, FS_Interval DEF ReconcileAssumption
  <1>2. S \in SUBSET (1 .. E)
    BY DEF TypeInv, TypeOK, Escrows
  <1>3. IsFiniteSet(S) /\ Cardinality(S) <= E
    BY <1>1, <1>2, FS_Subset
  <1>4. QED
    BY <1>3, FS_CardinalityType, ReconcileAssumption DEF ReconcileAssumption

LEMMA TruthCases ==
  ASSUME TypeInv, NEW e \in Escrows
  PROVE  /\ Truth(e) = Gone <=> entry[e]["data"] = 0 /\ entry[e]["inst"] = 0
         /\ Truth(e) # Gone => Truth(e).key \in Keys
  BY DEF Truth, Gone, Live, Keys

LEMMA MovedType ==
  ASSUME TypeInv, NEW e \in Escrows, NEW m \in Moves, NEW n \in Ledgers,
         Possible(e, m)
  PROVE  Moved(e, m, n) \in [Keys -> 0 .. MaxLedger]
  <1>1. entry[e] \in [Keys -> 0 .. MaxLedger] /\ n \in 0 .. MaxLedger
    BY ReconcileAssumption DEF ReconcileAssumption, TypeInv, TypeOK, Ledgers
  <1>2. m \in {"write", "drift", "vanish", "expire", "migrate"}
    BY ReconcileAssumption DEF ReconcileAssumption
  <1>3. CASE m \in {"write", "drift"}
    BY <1>1, <1>3, TruthCases DEF Moved, Possible
  <1>4. CASE m = "migrate"
    BY <1>1, <1>4 DEF Moved, Keys
  <1>5. CASE m = "expire"
    BY <1>1, <1>5, ReconcileAssumption
    DEF ReconcileAssumption, Moved, Keys, TypeInv, TypeOK
  <1>6. CASE m = "vanish"
    BY <1>1, <1>6, ReconcileAssumption
    DEF ReconcileAssumption, Moved, Keys, TypeInv, TypeOK
  <1>7. QED
    BY <1>2, <1>3, <1>4, <1>5, <1>6

LEMMA BuildType ==
  ASSUME TypeInv, NEW S \in SUBSET Escrows, NEW keys \in SUBSET (S \X Keys)
  PROVE  Build(keys) \subseteq [id : S, key : Keys, mod : Ledgers]
  <1>1. ASSUME NEW q \in keys, Live(q[1], q[2])
        PROVE  [id |-> q[1], key |-> q[2], mod |-> entry[q[1]][q[2]]]
                 \in [id : S, key : Keys, mod : Ledgers]
    <2>1. q[1] \in S /\ q[2] \in Keys
      OBVIOUS
    <2>2. entry[q[1]][q[2]] \in Ledgers
      BY <1>1, <2>1, ReconcileAssumption
      DEF ReconcileAssumption, Live, TypeInv, TypeOK, Ledgers
    <2>3. QED
      BY <2>1, <2>2
  <1>2. QED
    BY <1>1 DEF Build

LEMMA LearnType ==
  ASSUME NEW changes \in SUBSET [id : Escrows, key : Keys, mod : Ledgers],
         NEW before \in [Escrows -> Keys \cup {"none"}]
  PROVE  Learn(changes, before) \in [Escrows -> Keys \cup {"none"}]
  <1>1. ASSUME NEW e \in Escrows, \E c \in changes : c.id = e
        PROVE  (CHOOSE c \in changes : c.id = e).key \in Keys
    <2>1. (CHOOSE c \in changes : c.id = e) \in changes
      BY <1>1
    <2>2. QED
      BY <2>1
  <1>2. QED
    BY <1>1 DEF Learn

LEMMA ReceivedType ==
  ASSUME TypeInv, NEW e \in Escrows, pc = "publish"
  PROVE  Received(e) \in Snapshots /\ Received(e).seq >= view[e].seq
  <1>1. view[e] \in Snapshots /\ cur \in 0 .. MaxLedger /\ view[e].seq \in Nat
    BY ReconcileAssumption
    DEF ReconcileAssumption, TypeInv, TypeOK, PlaceInv, Snapshots, Ledgers
  <1>2. CASE view[e].seq >= cur
    <2>1. Received(e) = view[e]
      BY <1>1, <1>2 DEF Received
    <2>2. QED
      BY <1>1, <2>1
  <1>3. CASE view[e].seq < cur /\ \E c \in Updates : c.id = e
    <2> DEFINE c == CHOOSE c \in Updates : c.id = e
    <2>1. c \in Updates
      BY <1>3
    <2>2. c.key \in Keys /\ c.mod \in 0 .. MaxLedger
      BY <2>1, ReconcileAssumption
      DEF ReconcileAssumption, Updates, TypeInv, TypeOK, Ledgers
    <2>3. e \notin Removals
      BY <1>3 DEF Removals, Missing, Ids, Updates
    <2>4. Received(e) = [seq |-> cur, key |-> c.key, mod |-> c.mod]
      BY <1>1, <1>3, <2>3 DEF Received
    <2> HIDE DEF c
    <2>5. QED
      BY <1>1, <1>3, <2>2, <2>4 DEF Snapshots
  <1>4. CASE view[e].seq < cur /\ ~(\E c \in Updates : c.id = e) /\ e \in Removals
    <2>1. Received(e) = [seq |-> cur, key |-> "removed", mod |-> 0]
      BY <1>1, <1>4 DEF Received
    <2>2. QED
      BY <1>1, <1>4, <2>1, ReconcileAssumption
      DEF ReconcileAssumption, Snapshots
  <1>5. CASE view[e].seq < cur /\ ~(\E c \in Updates : c.id = e) /\ e \notin Removals
    <2>1. Received(e) = view[e]
      BY <1>1, <1>5 DEF Received
    <2>2. QED
      BY <1>1, <2>1
  <1>6. QED
    BY <1>1, <1>2, <1>3, <1>4, <1>5

LEMMA TypeStarts == Init => TypeInv
  <1> SUFFICES ASSUME Init PROVE TypeInv
    OBVIOUS
  <1> USE ReconcileAssumption DEF ReconcileAssumption, Init
  <1>1. entry \in [Escrows -> [Keys -> 0 .. MaxLedger]]
    <2>1. ASSUME NEW e \in Escrows, NEW k \in Keys
          PROVE  (IF k \in Shape[e] THEN 1 ELSE 0) \in 0 .. MaxLedger
      OBVIOUS
    <2>2. QED
      BY <2>1
  <1>2. pos \in 0 .. E - 1 /\ tip \in Ledgers
    BY DEF Ledgers
  <1>3. learned \in [Escrows -> Keys \cup {"none"}]
    BY DEF NoKeys
  <1>4. PlaceInv
    BY DEF PlaceInv, Fetching
  <1>5. QED
    BY <1>1, <1>2, <1>3, <1>4 DEF TypeInv, TypeOK, Ledgers

(* What the ends of a fetch and of a process leave, and what an order for  *)
(* a fetch asks about.                                                     *)
LEMMA AskType ==
  ASSUME TypeInv, NEW why \in {"activity", "sweep", "command"},
         NEW ids \in SUBSET Escrows, Ask(why, ids)
  PROVE  /\ job' \in {"none", "activity", "sweep", "command"} /\ job' # "none"
         /\ pc' = "query" /\ Fetching'
         /\ asked' \subseteq Escrows /\ again' \subseteq asked'
         /\ found' \subseteq [id : asked', key : Keys, mod : Ledgers]
  BY DEF Ask, Fetching

LEMMA AfterFetchType ==
  ASSUME TypeInv, Fetching, AfterFetch
  PROVE  /\ job' = "none" /\ asked' = {} /\ again' = {} /\ found' = {}
         /\ pc' \in {"sweep", "save", "drain"} /\ ~Fetching'
  BY DEF AfterFetch, Fetching, TypeInv, TypeOK, PlaceInv

LEMMA ChainType ==
  ASSUME TypeInv, Chain
  PROVE  NetworkType' /\ tip' = tip + 1
  <1> USE ReconcileAssumption DEF ReconcileAssumption, TypeInv, TypeOK
  <1>1. CASE LedgerCloses
    BY <1>1 DEF LedgerCloses, NetworkType, Ledgers
  <1>2. ASSUME NEW e \in Escrows, NEW m \in Moves, EscrowMoves(e, m)
        PROVE  NetworkType' /\ tip' = tip + 1
    <2>1. tip' \in Ledgers /\ moves' \in 0 .. MaxMoves /\ tip' = tip + 1
      BY <1>2 DEF EscrowMoves, Ledgers
    <2>2. entry' \in [Escrows -> [Keys -> 0 .. MaxLedger]]
      BY <1>2, <2>1, MovedType DEF EscrowMoves
    <2>3. changed' \in [Escrows -> Ledgers]
      BY <1>2, <2>1 DEF EscrowMoves
    <2>4. active' \in [Ledgers -> SUBSET Escrows]
      BY <1>2, <2>1 DEF EscrowMoves
    <2>5. QED
      BY <2>1, <2>2, <2>3, <2>4 DEF NetworkType
  <1>3. QED
    BY <1>1, <1>2 DEF Chain

SweeperType ==
  pos \in 0 .. E - 1 /\ passStart \in 0 .. MaxLedger /\ prevPass \in 0 .. passStart

LEMMA NextBatchType ==
  ASSUME TypeInv, NextBatch
  PROVE  SweeperType' /\ passStart' <= cur /\ asked' \subseteq Escrows
  <1> DEFINE p == IF pos >= Cardinality(known) THEN 0 ELSE pos
             n == Cardinality(Batch(p))
  <1>1. p \in 0 .. E - 1 /\ cur \in 0 .. MaxLedger
    BY ReconcileAssumption
    DEF ReconcileAssumption, TypeInv, TypeOK, PlaceInv, NextBatch, Ledgers
  <1>2. Batch(p) \subseteq known
    BY DEF Batch, Ahead
  <1>3. n \in Nat /\ Cardinality(known) \in 0 .. E
    BY <1>2, KnownFinite
  <1>4. BeginPass(p) /\ Advance(p, n) /\ Ask("sweep", Batch(p))
    BY DEF NextBatch
  <1> HIDE DEF p, n
  <1>5. pos' \in 0 .. E - 1
    BY <1>1, <1>3, <1>4, ReconcileAssumption DEF ReconcileAssumption, Advance
  <1>6. passStart' \in 0 .. MaxLedger /\ prevPass' \in 0 .. passStart' /\ passStart' <= cur
    BY <1>1, <1>4 DEF BeginPass, TypeInv, TypeOK, PlaceInv
  <1>7. QED
    BY <1>2, <1>4, <1>5, <1>6 DEF SweeperType, Ask, TypeInv, TypeOK

LEMMA QueryType ==
  ASSUME TypeInv, Query
  PROVE  /\ learned' \in [Escrows -> Keys \cup {"none"}] /\ again' \subseteq asked
         /\ found' \subseteq [id : asked, key : Keys, mod : Ledgers]
         /\ pc' \in {"relearn", "publish"}
  <1> DEFINE changes == Build(KeysOf(asked))
             lost    == MissingLearned(asked \ Ids(changes))
  <1>1. asked \subseteq Escrows
    BY DEF TypeInv, TypeOK
  <1>2. changes \subseteq [id : asked, key : Keys, mod : Ledgers]
    BY <1>1, BuildType DEF KeysOf
  <1>3. changes \subseteq Answers
    BY <1>1, <1>2 DEF Answers
  <1>4. Forget(lost) \in [Escrows -> Keys \cup {"none"}]
    BY DEF Forget, TypeInv, TypeOK
  <1>5. found' = changes /\ again' = lost /\ learned' = Learn(changes, Forget(lost))
    BY DEF Query
  <1>6. lost \subseteq asked /\ pc' \in {"relearn", "publish"}
    BY DEF MissingLearned, Query
  <1> HIDE DEF changes, lost
  <1>7. learned' \in [Escrows -> Keys \cup {"none"}]
    BY <1>3, <1>4, <1>5, LearnType DEF Answers
  <1>8. QED
    BY <1>2, <1>5, <1>6, <1>7

LEMMA RelearnType ==
  ASSUME TypeInv, Relearn
  PROVE  /\ learned' \in [Escrows -> Keys \cup {"none"}]
         /\ found' \subseteq [id : asked, key : Keys, mod : Ledgers]
  <1> DEFINE changes == Build(again \X Keys)
  <1>1. again \subseteq asked /\ asked \subseteq Escrows
    BY DEF TypeInv, TypeOK
  <1>2. changes \subseteq [id : asked, key : Keys, mod : Ledgers]
    BY <1>1, BuildType
  <1>3. changes \subseteq Answers
    BY <1>1, <1>2 DEF Answers
  <1>4. found' = found \cup changes /\ learned' = Learn(changes, learned)
    BY DEF Relearn
  <1> HIDE DEF changes
  <1>5. learned' \in [Escrows -> Keys \cup {"none"}]
    BY <1>3, <1>4, LearnType DEF Answers, TypeInv, TypeOK
  <1>6. QED
    BY <1>2, <1>4, <1>5 DEF TypeInv, TypeOK

LEMMA PublishType ==
  ASSUME TypeInv, Publish
  PROVE  /\ view' \in [Escrows -> Snapshots] /\ missed' \subseteq Escrows
         /\ \A e \in Escrows : view'[e] = Received(e) /\ view'[e].seq >= view[e].seq
  <1>1. view' = [e \in Escrows |-> Received(e)]
    BY DEF Publish
  <1>2. missed' \subseteq Escrows
    BY DEF Publish, Missing, TypeInv, TypeOK
  <1>3. \A e \in Escrows : Received(e) \in Snapshots /\ Received(e).seq >= view[e].seq
    BY ReceivedType DEF Publish
  <1>4. QED
    BY <1>1, <1>2, <1>3

LEMMA ViewType ==
  ASSUME view \in [Escrows -> Snapshots]
  PROVE  view \in [Escrows -> [seq : 0 .. MaxLedger,
                               key : Keys \cup {"none", "removed"},
                               mod : 0 .. MaxLedger]]
  BY DEF Snapshots

LEMMA TypeKept == TypeInv /\ [Next]_vars => TypeInv'
  <1> SUFFICES ASSUME TypeInv, [Next]_vars PROVE TypeInv'
    OBVIOUS
  <1>0. /\ tip \in 1 .. MaxLedger /\ cur \in 0 .. MaxLedger + 1
        /\ saved \in 0 .. MaxLedger /\ first \in 0 .. cur /\ MaxLedger \in Nat
        /\ NetworkType
    BY ReconcileAssumption
    DEF ReconcileAssumption, TypeInv, TypeOK, Ledgers, NetworkType
  <1>1. CASE Chain
    <2>1. /\ UNCHANGED <<pc, cur, known, pending, learned, sweeper, fetch, view,
                         saved, bounds>>
      BY <1>1 DEF Chain, LedgerCloses, EscrowMoves
    <2>2. PlaceInv'
      BY <1>0, <1>1, <2>1, ChainType
      DEF TypeInv, PlaceInv, Fetching, sweeper, fetch
    <2>3. QED
      BY <1>1, <2>1, <2>2, ChainType
      DEF NetworkType, TypeInv, TypeOK, sweeper, fetch, bounds
  <1>2. CASE Boot
    <2>1. passStart = 0 /\ ~Fetching /\ ~Fetching'
      BY <1>2 DEF Boot, TypeInv, TypeOK, PlaceInv, Fetching
    <2>2. cur' \in 1 .. MaxLedger + 1 /\ cur' <= tip + 1 /\ first' \in 0 .. cur'
      BY <1>0, <1>2 DEF Boot, TypeInv, PlaceInv
    <2>3. PlaceInv'
      BY <1>0, <1>2, <2>1, <2>2 DEF Boot, TypeInv, PlaceInv, network, sweeper, fetch
    <2>4. QED
      BY <1>0, <1>2, <2>2, <2>3
      DEF Boot, TypeInv, TypeOK, NetworkType, network, sweeper, fetch
  <1>3. CASE Crash
    <2>1. pos' \in 0 .. E - 1
      BY <1>3, ReconcileAssumption DEF ReconcileAssumption, Crash
    <2>2. learned' \in [Escrows -> Keys \cup {"none"}]
      BY <1>3 DEF Crash, NoKeys
    <2>3. PlaceInv'
      BY <1>3 DEF Crash, PlaceInv, Fetching, TypeInv, network
    <2>4. QED
      BY <1>0, <1>3, <2>1, <2>2, <2>3
      DEF Crash, TypeInv, TypeOK, NetworkType, network
  <1>4. ASSUME NEW why \in {"activity", "sweep", "command"},
               NEW ids \in SUBSET Escrows, Ask(why, ids), SweeperType',
               passStart' <= cur, known' \subseteq Escrows, pending' \subseteq Escrows,
               pc \notin {"down"}, cur <= tip,
               UNCHANGED <<network, cur, learned, view, saved, first, missed>>
        PROVE  TypeInv'
    <2>1. PlaceInv'
      BY <1>0, <1>4, AskType DEF PlaceInv, TypeInv, network
    <2>2. QED
      BY <1>0, <1>4, <2>1, AskType
      DEF TypeInv, TypeOK, NetworkType, network, SweeperType
  <1>5. ASSUME pc' \in {"ledger", "deferred", "sweep", "save", "drain"}, ~Fetching,
               pc # "down", SweeperType', passStart' <= cur,
               known' \subseteq Escrows, pending' \subseteq Escrows,
               missed' \subseteq Escrows, saved' \in 0 .. tip,
               \/ cur' = cur /\ cur <= tip
               \/ pc' = "ledger" /\ cur' = cur + 1 /\ cur <= tip,
               UNCHANGED <<network, learned, fetch, view, first>>
        PROVE  TypeInv'
    <2>1. ~Fetching'
      BY <1>5 DEF Fetching
    <2>2. PlaceInv'
      BY <1>0, <1>5, <2>1 DEF PlaceInv, TypeInv, SweeperType, network, fetch
    <2>3. cur' \in 0 .. MaxLedger + 1 /\ first' \in 0 .. cur'
      BY <1>0, <1>5
    <2>4. saved' \in 0 .. MaxLedger
      BY <1>0, <1>5
    <2>5. QED
      BY <1>0, <1>5, <2>2, <2>3, <2>4
      DEF TypeInv, TypeOK, NetworkType, network, fetch, SweeperType
  <1>6. SweeperType /\ passStart <= cur /\ saved \in 0 .. tip
    BY <1>0 DEF TypeInv, TypeOK, PlaceInv, SweeperType
  <1>7. CASE DeferLedger
    BY <1>5, <1>6, <1>7
    DEF DeferLedger, Fetching, ActiveEscrows, TypeInv, TypeOK, SweeperType,
        sweeper, bounds
  <1>8. CASE ProcessLedger
    <2>1. DrainPending(ActiveEscrows) \in SUBSET Escrows
      BY DEF DrainPending, ActiveEscrows, TypeInv, TypeOK
    <2>2. CASE DrainPending(ActiveEscrows) = {}
      BY <1>5, <1>6, <1>8, <2>2
      DEF ProcessLedger, Fetching, TypeInv, TypeOK, SweeperType, sweeper, bounds
    <2>3. CASE DrainPending(ActiveEscrows) # {}
      BY <1>4, <1>6, <1>8, <2>1, <2>3
      DEF ProcessLedger, TypeInv, TypeOK, SweeperType, sweeper, bounds
    <2>4. QED
      BY <2>2, <2>3
  <1>9. CASE NextBatch
    <2> DEFINE p == IF pos >= Cardinality(known) THEN 0 ELSE pos
    <2>1. Ask("sweep", Batch(p)) /\ Batch(p) \in SUBSET Escrows
      BY <1>9 DEF NextBatch, Batch, Ahead, TypeInv, TypeOK
    <2>2. SweeperType' /\ passStart' <= cur
      BY <1>9, NextBatchType
    <2>3. cur <= tip /\ pc # "down"
      BY <1>9 DEF NextBatch, TypeInv, PlaceInv
    <2> HIDE DEF p
    <2>4. QED
      BY <1>4, <1>9, <2>1, <2>2, <2>3 DEF NextBatch, TypeInv, TypeOK, bounds
  <1>10. CASE NoSweep \/ Checkpoint \/ SkipCheckpoint \/ NextLedger
    <2>1. cur <= tip /\ ~Fetching /\ pc # "down" /\ cur \in 0 .. tip
      BY <1>0, <1>10
      DEF NoSweep, Checkpoint, SkipCheckpoint, NextLedger, TypeInv, PlaceInv, Fetching
    <2>2. /\ pc' \in {"ledger", "deferred", "sweep", "save", "drain"}
          /\ \/ cur' = cur
             \/ pc' = "ledger" /\ cur' = cur + 1
          /\ saved' \in {saved, cur}
          /\ UNCHANGED <<network, known, pending, learned, sweeper, fetch, view,
                         first, missed>>
      BY <1>10 DEF NoSweep, Checkpoint, SkipCheckpoint, NextLedger, bounds
    <2>3. SweeperType' /\ passStart' <= cur /\ saved' \in 0 .. tip
      BY <1>6, <2>1, <2>2 DEF SweeperType, sweeper
    <2>4. QED
      BY <1>5, <2>1, <2>2, <2>3 DEF TypeInv, TypeOK
  <1>11. CASE AwaitLedger \/ UNCHANGED vars
    <2>1. UNCHANGED vars
      BY <1>11 DEF AwaitLedger
    <2>2. QED
      BY <2>1
      DEF TypeInv, TypeOK, PlaceInv, Fetching, vars, network, sweeper, fetch, bounds
  <1>12. CASE Query
    <2>1. PlaceInv'
      BY <1>0, <1>12, QueryType DEF Query, PlaceInv, Fetching, TypeInv, network, sweeper
    <2>2. QED
      BY <1>0, <1>12, <2>1, QueryType
      DEF Query, TypeInv, TypeOK, NetworkType, network, sweeper, bounds
  <1>13. CASE Relearn
    <2>1. PlaceInv'
      BY <1>0, <1>13, RelearnType
      DEF Relearn, PlaceInv, Fetching, TypeInv, network, sweeper
    <2>2. QED
      BY <1>0, <1>13, <2>1, RelearnType
      DEF Relearn, TypeInv, TypeOK, NetworkType, network, sweeper, bounds
  <1>14. ASSUME Fetching, AfterFetch, view' \in [Escrows -> Snapshots],
                missed' \subseteq Escrows,
                UNCHANGED <<network, cur, known, pending, learned, sweeper, saved,
                            first>>
         PROVE  TypeInv'
    <2>1. PlaceInv'
      BY <1>0, <1>14, AfterFetchType
      DEF PlaceInv, TypeInv, Fetching, network, sweeper
    <2>2. QED
      BY <1>0, <1>14, <2>1, AfterFetchType, ViewType
      DEF TypeInv, TypeOK, NetworkType, network, sweeper, Snapshots
  <1>15. CASE FetchFails
    <2>1. view' \in [Escrows -> Snapshots] /\ missed' \subseteq Escrows
      BY <1>15 DEF FetchFails, TypeInv, TypeOK, Snapshots
    <2>2. QED
      BY <1>14, <1>15, <2>1 DEF FetchFails, Fetching
  <1>16. CASE Publish
    BY <1>14, <1>16, PublishType DEF Publish, Fetching
  <1>17. ASSUME pc = "drain"
         PROVE  ~Fetching /\ cur <= tip /\ pc # "down"
    BY <1>17 DEF Fetching, TypeInv, PlaceInv
  <1>18. ASSUME NEW e \in Escrows, TrackEscrow(e) \/ RefreshEscrow(e) PROVE TypeInv'
    <2>1. Ask("command", {e}) /\ {e} \in SUBSET Escrows /\ known' \subseteq Escrows
      BY <1>18 DEF TrackEscrow, RefreshEscrow, TypeInv, TypeOK
    <2>2. /\ pc = "drain"
          /\ UNCHANGED <<network, cur, pending, learned, sweeper, view, saved,
                         first, missed>>
      BY <1>18 DEF TrackEscrow, RefreshEscrow, Command
    <2>3. SweeperType' /\ passStart' <= cur /\ pending' \subseteq Escrows
      BY <1>6, <2>2 DEF SweeperType, sweeper, TypeInv, TypeOK
    <2>4. QED
      BY <1>4, <1>17, <2>1, <2>2, <2>3
  <1>19. ASSUME NEW e \in Escrows, RemoveEscrow(e) PROVE TypeInv'
    <2>1. /\ pc = "drain" /\ pc' = pc
          /\ UNCHANGED <<network, cur, pending, learned, sweeper, fetch, view,
                         saved, first>>
      BY <1>19 DEF RemoveEscrow, Command
    <2>2. known' \subseteq Escrows /\ missed' \subseteq Escrows
      BY <1>19 DEF RemoveEscrow, TypeInv, TypeOK
    <2>3. SweeperType' /\ passStart' <= cur /\ pending' \subseteq Escrows
      BY <1>6, <2>1 DEF SweeperType, sweeper, TypeInv, TypeOK
    <2>4. QED
      BY <1>5, <1>6, <1>17, <2>1, <2>2, <2>3
  <1>20. CASE ReconcileAll
    <2>1. /\ pc = "drain" /\ pc' = pc
          /\ UNCHANGED <<network, cur, known, pending, learned, fetch, view,
                         saved, first, missed>>
      BY <1>20 DEF ReconcileAll, Command
    <2>2. SweeperType' /\ passStart' <= cur
      BY <1>0, <1>20, ReconcileAssumption
      DEF ReconcileAssumption, ReconcileAll, SweeperType
    <2>3. QED
      BY <1>5, <1>6, <1>17, <2>1, <2>2 DEF TypeInv, TypeOK
  <1>21. QED
    BY <1>1, <1>2, <1>3, <1>7, <1>8, <1>9, <1>10, <1>11, <1>12, <1>13, <1>15,
       <1>16, <1>18, <1>19, <1>20
    DEF Next, Loop, Operator

(* The sweep's position stays inside the rotation, its anchors in order    *)
(* and behind the loop, and every answer is about an escrow that was asked *)
(* about.                                                                  *)
THEOREM TypeCorrect == Spec => []TypeOK
  <1>1. TypeInv => TypeOK
    BY DEF TypeInv
  <1>2. QED
    BY <1>1, TypeStarts, TypeKept, PTL DEF Spec

-----------------------------------------------------------------------------
(* Removals                                                                *)

(* A tracked escrow whose absence is about to be judged: asked about with  *)
(* every candidate key, and not answered.                                  *)
Unanswered ==
  CASE pc = "publish" -> (asked \cap known) \ Ids(found)
    [] pc = "relearn" -> ((asked \cap known) \ Ids(found)) \ again
    [] OTHER          -> {}

AbsentInv == \A e \in Unanswered : Truth(e) = Gone

(* A request for every candidate key that is not answered for a tracked    *)
(* escrow finds it gone.                                                   *)
LEMMA FullCoverage ==
  ASSUME TypeInv, NEW e \in known, NEW keys,
         <<e, "data">> \in keys, <<e, "inst">> \in keys, e \notin Ids(Build(keys))
  PROVE  Truth(e) = Gone
  <1> DEFINE of(k) == [id |-> e, key |-> k, mod |-> entry[e][k]]
  <1>1. e \in Escrows
    BY DEF TypeInv, TypeOK
  <1>2. \A k \in Keys : of(k) \notin Build(keys)
    BY DEF Ids
  <1>3. ~Live(e, "data")
    <2>1. SUFFICES ASSUME Live(e, "data") PROVE FALSE
      OBVIOUS
    <2>2. of("data") \in Build(keys)
      <3> DEFINE q == <<e, "data">>
      <3>1. q \in keys /\ q[1] = e /\ q[2] = "data" /\ Live(q[1], q[2])
        BY <2>1
      <3>2. QED
        BY <3>1 DEF Build
    <2>3. QED
      BY <1>2, <2>2 DEF Keys
  <1>4. ~Live(e, "inst")
    <2>1. SUFFICES ASSUME Live(e, "inst") PROVE FALSE
      OBVIOUS
    <2>2. of("inst") \in Build(keys)
      <3> DEFINE q == <<e, "inst">>
      <3>1. q \in keys /\ q[1] = e /\ q[2] = "inst" /\ Live(q[1], q[2])
        BY <2>1
      <3>2. QED
        BY <1>3, <3>1 DEF Build
    <2>3. QED
      BY <1>2, <2>2 DEF Keys
  <1>5. QED
    BY <1>1, <1>3, <1>4, TruthCases DEF Live

(* What is gone stays gone.                                                *)
LEMMA GoneStays ==
  ASSUME TypeInv, Chain, NEW e \in Escrows, Truth(e) = Gone
  PROVE  Truth(e)' = Gone
  <1>1. CASE LedgerCloses
    BY <1>1 DEF LedgerCloses, Truth, Live, Gone
  <1>2. ASSUME NEW x \in Escrows, NEW m \in Moves, EscrowMoves(x, m)
        PROVE  Truth(e)' = Gone
    <2>1. m \in {"write", "drift", "vanish", "expire", "migrate"}
      BY ReconcileAssumption DEF ReconcileAssumption
    <2>2. entry[e]["data"] = 0 /\ entry[e]["inst"] = 0
      BY TruthCases
    <2>3. x # e
      BY <1>2, <2>1, <2>2 DEF EscrowMoves, Possible, Live
    <2>4. entry'[e] = entry[e]
      BY <1>2, <2>3 DEF EscrowMoves, TypeInv, TypeOK
    <2>5. QED
      BY <2>4 DEF Truth, Live, Gone
  <1>3. QED
    BY <1>1, <1>2 DEF Chain

LEMMA AbsentStarts == Init => AbsentInv
  BY DEF Init, AbsentInv, Unanswered

LEMMA AbsentKept == TypeInv /\ AbsentInv /\ [Next]_vars => AbsentInv'
  <1> SUFFICES ASSUME TypeInv, AbsentInv, [Next]_vars PROVE AbsentInv'
    OBVIOUS
  <1>1. asked \subseteq Escrows /\ known \subseteq Escrows
    BY DEF TypeInv, TypeOK
  <1>2. CASE Chain
    <2>1. UNCHANGED <<pc, known, fetch>>
      BY <1>2 DEF Chain, LedgerCloses, EscrowMoves
    <2>2. Unanswered' = Unanswered
      BY <2>1 DEF Unanswered, Ids, fetch
    <2>3. Unanswered \subseteq Escrows
      BY <1>1 DEF Unanswered
    <2>4. QED
      BY <1>2, <2>2, <2>3, GoneStays DEF AbsentInv
  <1>3. CASE Query
    <2> DEFINE changes == Build(KeysOf(asked))
               lost    == MissingLearned(asked \ Ids(changes))
    <2>1. /\ found' = changes /\ again' = lost /\ asked' = asked /\ known' = known
          /\ pc' = "publish" => lost = {}
          /\ entry' = entry
      BY <1>3 DEF Query, network
    <2>2. ASSUME NEW e \in Unanswered' PROVE e \in known /\ e \in asked \ Ids(changes) /\ e \notin lost
      BY <2>1, <2>2 DEF Unanswered, Ids
    <2>3. ASSUME NEW e \in known, e \in asked \ Ids(changes), e \notin lost
          PROVE  Truth(e) = Gone
      <3>1. learned[e] = "none"
        BY <2>3 DEF MissingLearned
      <3>2. <<e, "data">> \in KeysOf(asked) /\ <<e, "inst">> \in KeysOf(asked)
        BY <2>3, <3>1 DEF KeysOf, Keys
      <3>3. QED
        BY <2>3, <3>2, FullCoverage
    <2>4. \A e : Truth(e)' = Truth(e)
      BY <2>1 DEF Truth, Live, Gone
    <2> HIDE DEF changes, lost
    <2>5. QED
      BY <2>2, <2>3, <2>4 DEF AbsentInv, Gone
  <1>4. CASE Relearn
    <2> DEFINE changes == Build(again \X Keys)
    <2>1. /\ found' = found \cup changes /\ asked' = asked /\ known' = known
          /\ pc = "relearn" /\ pc' = "publish" /\ entry' = entry
      BY <1>4 DEF Relearn, network
    <2>2. \A e : Truth(e)' = Truth(e)
      BY <2>1 DEF Truth, Live, Gone
    <2>3. ASSUME NEW e \in Unanswered'
          PROVE  e \in known /\ e \in asked /\ e \notin Ids(found) /\ e \notin Ids(changes)
      BY <2>1, <2>3 DEF Unanswered, Ids
    <2>4. ASSUME NEW e \in Unanswered' PROVE Truth(e) = Gone
      <3>1. CASE e \in again
        <4>1. <<e, "data">> \in again \X Keys /\ <<e, "inst">> \in again \X Keys
          BY <3>1 DEF Keys
        <4>2. QED
          BY <2>3, <2>4, <4>1, FullCoverage
      <3>2. CASE e \notin again
        BY <2>1, <2>3, <2>4, <3>2 DEF AbsentInv, Unanswered
      <3>3. QED
        BY <3>1, <3>2
    <2>5. QED
      BY <2>2, <2>4 DEF AbsentInv, Gone
  <1>5. CASE pc' \notin {"publish", "relearn"}
    BY <1>5 DEF AbsentInv, Unanswered
  <1>6. CASE UNCHANGED <<pc, known, fetch, network>>
    <2>1. Unanswered' = Unanswered
      BY <1>6 DEF Unanswered, Ids, fetch
    <2>2. \A e : Truth(e)' = Truth(e)
      BY <1>6 DEF Truth, Live, Gone, network
    <2>3. QED
      BY <2>1, <2>2 DEF AbsentInv, Gone
  <1>7. ASSUME Fetching, AfterFetch PROVE pc' \notin {"publish", "relearn"}
    BY <1>7, AfterFetchType
  <1>8. QED
    BY <1>2, <1>3, <1>4, <1>5, <1>6, <1>7
    DEF Next, Loop, Operator, Boot, DeferLedger, ProcessLedger, AwaitLedger,
        NextBatch, NoSweep, Publish, Checkpoint, SkipCheckpoint, NextLedger,
        TrackEscrow, RefreshEscrow, RemoveEscrow, ReconcileAll, FetchFails,
        Crash, Ask, Command, Fetching, vars

(* Whatever storage an escrow has, whatever keys were learned for it and   *)
(* whatever the chain does between the two requests, a tracked escrow is   *)
(* reported removed only when nothing carries its state.                   *)
THEOREM RemovalsAreTrue == Spec => []RemovalsTrue
  <1>1. AbsentInv => RemovalsTrue
    BY DEF AbsentInv, Unanswered, RemovalsTrue, Removals, Missing
  <1>2. QED
    BY <1>1, TypeStarts, TypeKept, AbsentStarts, AbsentKept, PTL DEF Spec

-----------------------------------------------------------------------------
(* Activity                                                                *)

(* The ledgers this process has worked on, the one under work included     *)
(* once its active escrows are in hand.                                    *)
Worked(n) ==
  pc # "down" /\ first <= n /\ n <= cur /\ (pc = "ledger" => n < cur)

(* A sweep that asks about an escrow settles nothing: it may filter what   *)
(* it is answered.                                                         *)
Settled(e, n) ==
  view[e].seq >= n \/ e \in pending \cup missed \/ (e \in asked /\ job # "sweep")

ActivityInv ==
  \A n \in Ledgers : Worked(n) => \A e \in active[n] \cap known : Settled(e, n)

LEMMA ActivityStarts == Init => ActivityInv
  BY DEF Init, ActivityInv, Worked

(* A published fetch settles what it asked about, for every ledger so far. *)
LEMMA PublishSettles ==
  ASSUME TypeInv, Publish, NEW n \in Ledgers, n <= cur, NEW e \in Escrows,
         Settled(e, n)
  PROVE  Settled(e, n)'
  <1>1. /\ view' = [x \in Escrows |-> Received(x)] /\ view'[e] = Received(e)
        /\ view'[e].seq >= view[e].seq
        /\ missed' = (missed \cup Missing) \ (Ids(Updates) \cup Removals)
        /\ pending' = pending
    BY PublishType DEF Publish
  <1>2. view[e].seq \in Nat /\ view'[e].seq \in Nat /\ cur \in Nat /\ n \in Nat
    <2>1. view[e] \in Snapshots /\ Received(e) \in Snapshots
      BY ReceivedType DEF Publish, TypeInv, TypeOK, Snapshots
    <2>2. QED
      BY <1>1, <2>1, ReconcileAssumption
      DEF ReconcileAssumption, Snapshots, TypeInv, TypeOK, Ledgers
  <1>3. ASSUME e \in Ids(Updates) \cup Removals PROVE view'[e].seq >= cur
    <2>1. CASE view[e].seq >= cur
      BY <1>1, <1>2, <2>1
    <2>2. CASE view[e].seq < cur /\ e \in Ids(Updates)
      <3>1. e \notin Removals
        BY <2>2 DEF Removals, Missing, Ids, Updates
      <3>2. Received(e).seq = cur
        BY <1>2, <2>2, <3>1 DEF Received, Ids
      <3>3. QED
        BY <1>1, <1>2, <3>2
    <2>3. CASE view[e].seq < cur /\ e \in Removals
      <3>1. ~(\E c \in Updates : c.id = e)
        BY <2>3 DEF Removals, Missing, Ids, Updates
      <3>2. Received(e).seq = cur
        BY <1>2, <2>3, <3>1 DEF Received
      <3>3. QED
        BY <1>1, <1>2, <3>2
    <2>4. QED
      BY <1>2, <1>3, <2>1, <2>2, <2>3
  <1>4. CASE e \in Ids(Updates) \cup Removals
    BY <1>2, <1>3, <1>4 DEF Settled
  <1>5. CASE e \notin Ids(Updates) \cup Removals
    <2>1. CASE view[e].seq >= n
      BY <1>1, <1>2, <2>1 DEF Settled
    <2>2. CASE e \in pending \cup missed
      BY <1>1, <1>5, <2>2 DEF Settled
    <2>3. CASE e \in asked /\ job # "sweep"
      <3>1. Updates = found
        BY <2>3 DEF Updates
      <3>2. e \in Missing
        BY <1>5, <2>3, <3>1 DEF Missing
      <3>3. QED
        BY <1>1, <1>5, <3>2 DEF Settled
    <2>4. QED
      BY <2>1, <2>2, <2>3 DEF Settled
  <1>6. QED
    BY <1>4, <1>5

LEMMA ActivityKept == TypeInv /\ ActivityInv /\ [Next]_vars => ActivityInv'
  <1> SUFFICES ASSUME TypeInv, ActivityInv, [Next]_vars PROVE ActivityInv'
    OBVIOUS
  <1>0. /\ tip \in Nat /\ cur \in Nat /\ first \in Nat
        /\ pc # "down" => cur <= tip + 1
        /\ pc \notin {"down", "ledger"} => cur <= tip
        /\ ~Fetching => asked = {}
        /\ known \subseteq Escrows /\ active \in [Ledgers -> SUBSET Escrows]
    BY ReconcileAssumption
    DEF ReconcileAssumption, TypeInv, TypeOK, PlaceInv, Ledgers
  <1>1. CASE Chain
    <2>1. UNCHANGED <<pc, cur, known, pending, fetch, view, first, missed>>
      BY <1>1 DEF Chain, LedgerCloses, EscrowMoves, bounds
    <2>2. ASSUME NEW n \in Ledgers, Worked(n) PROVE active'[n] = active[n]
      <3>1. n # tip + 1
        BY <1>0, <2>2 DEF Worked, Ledgers
      <3>2. QED
        BY <1>0, <1>1, <3>1 DEF Chain, LedgerCloses, EscrowMoves
    <2>3. QED
      BY <2>1, <2>2 DEF ActivityInv, Worked, Settled, fetch
  <1>2. CASE pc' = "down" \/ Boot
    <2>1. ASSUME Boot, NEW n \in Ledgers PROVE ~Worked(n)'
      <3>1. pc' = "ledger" /\ first' = cur' /\ cur' = saved + 1 /\ saved \in Nat
        BY <2>1, ReconcileAssumption DEF ReconcileAssumption, Boot, TypeInv, TypeOK
      <3>2. QED
        BY <3>1 DEF Worked, Ledgers
    <2>2. ASSUME pc' = "down", NEW n \in Ledgers PROVE ~Worked(n)'
      BY <2>2 DEF Worked
    <2>3. QED
      BY <1>2, <2>1, <2>2 DEF ActivityInv
  <1>3. ASSUME active' = active, known' \subseteq known,
               \A n \in Ledgers : Worked(n)' => Worked(n),
               \A n \in Ledgers : \A e \in known : Worked(n) /\ Settled(e, n) => Settled(e, n)'
        PROVE  ActivityInv'
    BY <1>3 DEF ActivityInv
  <1>4. CASE DeferLedger
    <2>1. ASSUME NEW n \in Ledgers, Worked(n)', NEW e \in active[n] \cap known
          PROVE  Settled(e, n)'
      <3>1. CASE n = cur
        BY <1>4, <3>1, <2>1 DEF DeferLedger, ActiveEscrows, Settled
      <3>2. CASE n # cur
        <4>1. Worked(n)
          BY <1>0, <1>4, <2>1, <3>2 DEF DeferLedger, Worked, bounds, Ledgers
        <4>2. QED
          BY <1>4, <2>1, <4>1 DEF DeferLedger, ActivityInv, Settled, fetch, bounds
      <3>3. QED
        BY <3>1, <3>2
    <2>2. QED
      BY <1>4, <2>1 DEF ActivityInv, DeferLedger, network
  <1>5. CASE ProcessLedger
    <2>1. /\ pending' = {} /\ UNCHANGED <<view, missed, cur, first, active, known>>
          /\ pc = "ledger" /\ asked = {}
      BY <1>0, <1>5 DEF ProcessLedger, bounds, network, Fetching
    <2>2. \A e \in pending \cup ActiveEscrows : e \in asked' /\ job' # "sweep"
      BY <1>5 DEF ProcessLedger, DrainPending, Ask
    <2>3. ASSUME NEW n \in Ledgers, Worked(n)', NEW e \in active[n] \cap known
          PROVE  Settled(e, n)'
      <3>1. CASE n = cur
        BY <2>2, <2>3, <3>1 DEF ActiveEscrows, Settled
      <3>2. CASE n # cur
        <4>1. Worked(n)
          BY <1>0, <2>1, <2>3, <3>2 DEF Worked, Ledgers
        <4>2. Settled(e, n)
          BY <2>3, <4>1 DEF ActivityInv
        <4>3. QED
          BY <2>1, <2>2, <4>2 DEF Settled
      <3>3. QED
        BY <3>1, <3>2
    <2>4. QED
      BY <2>1, <2>3 DEF ActivityInv
  <1>6. CASE AwaitLedger \/ UNCHANGED vars
    <2>1. UNCHANGED vars
      BY <1>6 DEF AwaitLedger
    <2>2. QED
      BY <2>1 DEF ActivityInv, Worked, Settled, vars, network, fetch, bounds
  <1>7. CASE NextBatch
    BY <1>0, <1>3, <1>7
    DEF NextBatch, Ask, Worked, Settled, Fetching, network, bounds
  <1>8. CASE NoSweep \/ Checkpoint \/ SkipCheckpoint
    BY <1>3, <1>8
    DEF NoSweep, Checkpoint, SkipCheckpoint, Worked, Settled, network, fetch, bounds
  <1>9. CASE Query \/ Relearn
    BY <1>3, <1>9
    DEF Query, Relearn, Worked, Settled, network, bounds
  <1>10. CASE FetchFails
    <2>1. /\ UNCHANGED <<active, known, view, pending, cur, first>>
          /\ missed' = missed \cup asked /\ pc # "down" /\ pc # "ledger"
      BY <1>10 DEF FetchFails, network
    <2>2. QED
      BY <1>3, <2>1 DEF Worked, Settled
  <1>11. CASE Publish
    <2>1. UNCHANGED <<active, known, cur, first>> /\ pc = "publish"
      BY <1>11 DEF Publish, network
    <2>2. \A n \in Ledgers : \A e \in known : Worked(n) /\ Settled(e, n) => Settled(e, n)'
      BY <1>0, <1>11, PublishSettles DEF Worked
    <2>3. QED
      BY <1>3, <2>1, <2>2 DEF Worked
  <1>12. CASE NextLedger
    <2>1. \A n \in Ledgers : Worked(n)' => Worked(n)
      BY <1>0, <1>12 DEF NextLedger, Worked, Ledgers, bounds
    <2>2. \A n \in Ledgers : \A e \in known : Settled(e, n) => Settled(e, n)'
      BY <1>12 DEF NextLedger, Settled, fetch, bounds
    <2>3. QED
      BY <1>3, <1>12, <2>1, <2>2 DEF NextLedger, network
  <1>13. ASSUME NEW x \in Escrows, TrackEscrow(x) \/ RefreshEscrow(x)
         PROVE  ActivityInv'
    <2>1. /\ UNCHANGED <<active, view, pending, missed, cur, first>>
          /\ pc = "drain" /\ pc' = "query" /\ asked = {}
          /\ known' \subseteq known \cup {x} /\ asked' = {x} /\ job' = "command"
      BY <1>0, <1>13 DEF TrackEscrow, RefreshEscrow, Command, Ask, Fetching, network
    <2>2. ASSUME NEW n \in Ledgers, Worked(n)', NEW e \in active[n] \cap known'
          PROVE  Settled(e, n)'
      <3>1. CASE e = x
        BY <2>1, <3>1 DEF Settled
      <3>2. CASE e # x
        <4>1. Worked(n) /\ e \in known
          BY <2>1, <2>2, <3>2 DEF Worked
        <4>2. QED
          BY <2>1, <2>2, <4>1 DEF ActivityInv, Settled
      <3>3. QED
        BY <3>1, <3>2
    <2>3. QED
      BY <2>1, <2>2 DEF ActivityInv
  <1>14. ASSUME NEW x \in Escrows, RemoveEscrow(x) PROVE ActivityInv'
    BY <1>3, <1>14
    DEF RemoveEscrow, Command, Worked, Settled, network, fetch
  <1>15. CASE ReconcileAll
    BY <1>3, <1>15
    DEF ReconcileAll, Command, Worked, Settled, network, fetch
  <1>16. QED
    BY <1>1, <1>2, <1>4, <1>5, <1>6, <1>7, <1>8, <1>9, <1>10, <1>11, <1>12, <1>13,
       <1>14, <1>15
    DEF Next, Loop, Operator, Crash

LEMMA ActivityShown == TypeInv /\ ActivityInv => ActivityCovered
  BY ReconcileAssumption
  DEF ReconcileAssumption, ActivityInv, Worked, Settled, ActivityCovered, TypeInv,
      TypeOK, Ledgers

(* Of the ledgers this process has worked on, every active escrow has a    *)
(* snapshot stamped with that ledger or a later one, waits for one, or was *)
(* passed over by a fetch that failed or a removal that was suppressed.    *)
THEOREM ActivityReported == Spec => []ActivityCovered
  BY ActivityShown, TypeStarts, TypeKept, ActivityStarts, ActivityKept, PTL DEF Spec

-----------------------------------------------------------------------------
(* The rotation of the sweep                                               *)

LEMMA LeastElement ==
  ASSUME NEW T \in SUBSET Nat, T # {}
  PROVE  \E m \in T : \A x \in T : m <= x
  <1> DEFINE Below(x) == 0 .. x
             D == {Below(x) : x \in T}
             R == StrictSubsetOrdering(Nat)
             S == FiniteSubsetsOf(Nat)
  <1>1. D \subseteq S /\ D # {}
    <2>1. \A x \in T : Below(x) \in SUBSET Nat /\ IsFiniteSet(Below(x))
      BY FS_Interval
    <2>2. QED
      BY <2>1 DEF FiniteSubsetsOf
  <1>2. IsWellFoundedOn(R, S)
    BY FS_StrictSubsetOrderingWellFounded
  <1> HIDE DEF R, S
  <1>3. PICK X \in D : \A Y \in D : <<Y, X>> \notin R
    <2> HIDE DEF D
    <2>1. QED
      BY <1>1, <1>2, WFMin
  <1>4. PICK m \in T : X = Below(m)
    OBVIOUS
  <1>5. ASSUME NEW x \in T, x < m PROVE FALSE
    <2>1. Below(x) \subseteq Below(m) /\ m \in Below(m) /\ m \notin Below(x)
      BY <1>5
    <2>2. Below(x) \in SUBSET Nat /\ Below(m) \in SUBSET Nat
      OBVIOUS
    <2>3. <<Below(x), Below(m)>> \in R
      BY <2>1, <2>2 DEF R, StrictSubsetOrdering
    <2>4. QED
      BY <1>3, <1>4, <2>3
  <1>6. \A x \in T : m <= x
    BY <1>5
  <1>7. QED
    BY <1>6

LEMMA RankType ==
  ASSUME TypeInv, NEW e \in Escrows
  PROVE  Rank(e) \in Nat /\ IsFiniteSet({x \in known : x < e})
  BY KnownFinite DEF Rank

(* The ids behind a tracked one are of a higher rank.                      *)
LEMMA RankOrder ==
  ASSUME TypeInv, NEW a \in known, NEW e \in Escrows, a < e
  PROVE  Rank(e) >= Rank(a) + 1
  <1> DEFINE A == {x \in known : x < a}
             B == {x \in known : x < e}
  <1>1. a \in Nat /\ e \in Nat /\ known \subseteq Nat /\ a \in Escrows
    BY DEF TypeInv, TypeOK, Escrows
  <1>2. A \cup {a} \subseteq B /\ a \notin A
    <2>1. ASSUME NEW x \in known, x < a PROVE x < e
      <3>1. x \in Nat
        BY <1>1
      <3>2. QED
        BY <1>1, <2>1, <3>1
    <2>2. a \notin A
      BY <1>1
    <2>3. QED
      BY <2>1, <2>2
  <1>3. IsFiniteSet(A) /\ IsFiniteSet(B)
    BY <1>1, RankType
  <1>4. Cardinality(A \cup {a}) = Cardinality(A) + 1
    BY <1>2, <1>3, FS_AddElement
  <1>5. Cardinality(A \cup {a}) <= Cardinality(B)
    BY <1>2, <1>3, FS_Subset
  <1>6. QED
    BY <1>4, <1>5, RankType, <1>1 DEF Rank

LEMMA RankBelowSize ==
  ASSUME TypeInv, NEW e \in known
  PROVE  Rank(e) < Cardinality(known)
  <1> DEFINE A == {x \in known : x < e}
  <1>1. e \in Nat /\ known \subseteq Nat
    BY DEF TypeInv, TypeOK, Escrows
  <1>2. A \subseteq known /\ e \notin A
    BY <1>1
  <1>3. IsFiniteSet(known) /\ Cardinality(known) \in Nat
    BY KnownFinite
  <1>4. Cardinality(A) <= Cardinality(known) /\ Cardinality(A) # Cardinality(known)
    BY <1>2, <1>3, FS_Subset
  <1>5. Cardinality(A) \in Nat
    BY <1>2, KnownFinite
  <1>6. QED
    BY <1>3, <1>4, <1>5 DEF Rank

LEMMA KeyCostGrows ==
  ASSUME TypeInv, NEW T \in SUBSET known, NEW S \in SUBSET T
  PROVE  KeyCost(S) \in Nat /\ KeyCost(T) \in Nat /\ KeyCost(S) <= KeyCost(T)
  <1> DEFINE short(X) == {e \in X : learned[e] # "none"}
             rest(X)  == X \ short(X)
  <1>1. /\ short(S) \subseteq short(T) /\ rest(S) \subseteq rest(T)
        /\ short(T) \subseteq known /\ rest(T) \subseteq known
    OBVIOUS
  <1> HIDE DEF short, rest
  <1>2. /\ IsFiniteSet(short(T)) /\ Cardinality(short(T)) \in Nat
        /\ IsFiniteSet(rest(T)) /\ Cardinality(rest(T)) \in Nat
    BY <1>1, KnownFinite
  <1>3. /\ Cardinality(short(S)) \in Nat /\ Cardinality(rest(S)) \in Nat
        /\ Cardinality(short(S)) <= Cardinality(short(T))
        /\ Cardinality(rest(S)) <= Cardinality(rest(T))
    BY <1>1, <1>2, FS_Subset, FS_CardinalityType
  <1>4. CandidateKeys \in Nat
    BY ReconcileAssumption DEF ReconcileAssumption
  <1>5. ASSUME NEW x \in Nat, NEW y \in Nat, x <= y
        PROVE  /\ CandidateKeys * x \in Nat /\ CandidateKeys * y \in Nat
               /\ CandidateKeys * x <= CandidateKeys * y
    BY <1>4, <1>5
  <1>6. /\ CandidateKeys * Cardinality(rest(S)) \in Nat
        /\ CandidateKeys * Cardinality(rest(T)) \in Nat
        /\ CandidateKeys * Cardinality(rest(S)) <= CandidateKeys * Cardinality(rest(T))
    BY <1>2, <1>3, <1>5
  <1>7. /\ KeyCost(S) = Cardinality(short(S)) + CandidateKeys * Cardinality(rest(S))
        /\ KeyCost(T) = Cardinality(short(T)) + CandidateKeys * Cardinality(rest(T))
    BY DEF KeyCost, short, rest
  <1>8. QED
    BY <1>2, <1>3, <1>6, <1>7

(* A batch leaves no id out that is before one it takes, and it takes one  *)
(* when any is left.                                                       *)
LEMMA BatchInOrder ==
  ASSUME TypeInv, NEW p \in Nat, NEW e \in Batch(p), NEW x \in Ahead(p), x < e
  PROVE  x \in Batch(p)
  <1> DEFINE upTo(y) == {z \in Ahead(p) : z <= y}
  <1>1. e \in Ahead(p) /\ Ahead(p) \subseteq known /\ known \subseteq Nat
    BY DEF Batch, Ahead, TypeInv, TypeOK, Escrows
  <1>2. x \in upTo(e) /\ x # e /\ upTo(x) \subseteq upTo(e) /\ upTo(e) \subseteq known
    <2>0. x \in Nat /\ e \in Nat
      BY <1>1
    <2>1. x \in Nat /\ e \in Nat /\ x <= e /\ x # e
      BY <2>0
    <2>2. ASSUME NEW z \in Ahead(p), z <= x PROVE z <= e
      <3>1. z \in Nat
        BY <1>1
      <3>2. QED
        BY <2>1, <2>2, <3>1
    <2>3. QED
      BY <1>1, <2>1, <2>2
  <1>3. upTo(e) = {e} \/ KeyCost(upTo(e)) <= KeyBudget
    BY DEF Batch
  <1>4. KeyCost(upTo(e)) <= KeyBudget
    BY <1>2, <1>3
  <1> HIDE DEF upTo
  <1>5. KeyCost(upTo(x)) <= KeyBudget
    BY <1>2, <1>4, KeyCostGrows, ReconcileAssumption DEF ReconcileAssumption
  <1>6. QED
    BY <1>5 DEF Batch, upTo

LEMMA BatchTakesOne ==
  ASSUME TypeInv, NEW p \in Nat, Ahead(p) # {}
  PROVE  Batch(p) # {}
  <1>1. Ahead(p) \in SUBSET Nat
    <2>1. Ahead(p) \subseteq known /\ known \subseteq Nat
      BY DEF Ahead, TypeInv, TypeOK, Escrows
    <2>2. QED
      BY <2>1
  <1>2. PICK m \in Ahead(p) : \A x \in Ahead(p) : m <= x
    BY <1>1, LeastElement
  <1>3. {x \in Ahead(p) : x <= m} = {m}
    BY <1>1, <1>2
  <1>4. QED
    BY <1>2, <1>3 DEF Batch

(* The position moves past the batch and no further.                       *)
LEMMA BatchSize ==
  ASSUME TypeInv, NEW p \in Nat, NEW e \in known, Rank(e) >= p, e \notin Batch(p)
  PROVE  Rank(e) >= p + Cardinality(Batch(p))
  <1> DEFINE B == Batch(p)
             n == Cardinality(B)
  <1>0. /\ B \subseteq Ahead(p) /\ Ahead(p) \subseteq known /\ known \subseteq Nat
        /\ known \subseteq Escrows /\ e \in Ahead(p) /\ e \in Escrows
    BY DEF Batch, Ahead, TypeInv, TypeOK, Escrows
  <1>1. B \in SUBSET known
    BY <1>0
  <1>2. IsFiniteSet(B) /\ n \in Nat
    BY <1>1, KnownFinite
  <1>3. CASE B = {}
    BY <1>0, <1>3, FS_EmptySet, RankType
  <1>4. CASE B # {}
    <2>1. PICK m \in B : \A x \in B : m <= x
      BY <1>0, <1>4, LeastElement
    <2>2. m \in Escrows /\ Rank(m) >= p /\ m \in Nat
      BY <1>0, <2>1 DEF Ahead
    <2> DEFINE A == {x \in known : x < m}
               C == {x \in known : x < e}
    <2>3. ASSUME NEW x \in B PROVE x < e
      <3>1. x \in Nat /\ e \in Nat /\ x # e
        BY <1>0
      <3>2. ~(e < x)
        BY <1>0, BatchInOrder
      <3>3. QED
        BY <3>1, <3>2
    <2>4. A \cup B \subseteq C /\ A \cap B = {}
      <3>1. m < e /\ m \in Nat /\ e \in Nat
        BY <1>0, <2>2, <2>3
      <3>2. \A x \in known : x \in Nat /\ (x < m => x < e)
        BY <1>0, <3>1
      <3>3. \A x \in B : x \in known /\ ~(x < m)
        BY <1>0, <2>1, <3>1
      <3>4. QED
        BY <2>3, <3>2, <3>3
    <2>5. IsFiniteSet(A) /\ IsFiniteSet(C)
      BY <1>0, <2>2, RankType
    <2>6. Cardinality(A \cup B) = Cardinality(A) + n - Cardinality({})
      BY <1>2, <2>4, <2>5, FS_Union
    <2>7. Cardinality(A \cup B) <= Cardinality(C)
      BY <2>4, <2>5, FS_Subset
    <2>8. Cardinality(A) = Rank(m) /\ Cardinality(C) = Rank(e)
      BY DEF Rank
    <2>9. Cardinality({}) = 0 /\ Rank(m) \in Nat /\ Rank(e) \in Nat
      BY <1>0, <2>2, FS_EmptySet, RankType
    <2> HIDE DEF A, C, n
    <2>10. QED
      BY <1>2, <2>2, <2>6, <2>7, <2>8, <2>9 DEF n
  <1>5. QED
    BY <1>3, <1>4

-----------------------------------------------------------------------------
(* What the filter of the sweep rests on                                   *)

(* No escrow changes the kind of entry its state is in.                    *)
ShapesStay == Moves \cap {"migrate", "expire"} = {}

(* An entry tells when the state it carries changed, and no key learned    *)
(* hides a dedicated entry.                                                *)
EntryRight(e) ==
  /\ Truth(e) # Gone => Truth(e).mod = changed[e]
  /\ learned[e] = "inst" => ~Live(e, "data")

EntryInv == \A e \in Escrows : EntryRight(e)

Right(e) == Accurate(e) \/ Misled(e)

(* The consumer is right about a state that is not younger than the ledger *)
(* its snapshot is stamped with.                                           *)
ViewInv ==
  \A e \in Escrows :
    view[e].seq <= tip /\ (changed[e] <= view[e].seq => Right(e))

(* An answer is what the chain holds, until the chain moves on from the    *)
(* ledger under work.                                                      *)
FoundInv ==
  /\ \A c \in found : changed[c.id] <= cur
                        => Truth(c.id) = [key |-> c.key, mod |-> c.mod]
  /\ Ids(found) \subseteq known

LEMMA TruthIs ==
  ASSUME NEW e \in Escrows
  PROVE  /\ Live(e, "data") => Truth(e) = [key |-> "data", mod |-> entry[e]["data"]]
         /\ ~Live(e, "data") /\ Live(e, "inst")
              => Truth(e) = [key |-> "inst", mod |-> entry[e]["inst"]]
         /\ ~Live(e, "data") /\ ~Live(e, "inst") => Truth(e) = Gone
         /\ Gone.key = "removed" /\ Gone.mod = 0
  BY DEF Truth, Gone

LEMMA EntryTypes ==
  ASSUME TypeInv, NEW e \in Escrows
  PROVE  /\ changed[e] \in Nat /\ changed[e] >= 1 /\ view[e].seq \in Nat
         /\ tip \in Nat /\ cur \in Nat /\ prevPass \in Nat /\ passStart \in Nat
         /\ prevPass <= passStart /\ passStart <= cur /\ MaxLedger \in Nat
  BY ReconcileAssumption
  DEF ReconcileAssumption, TypeInv, TypeOK, PlaceInv, Ledgers

(* A state is the same after a step that leaves the chain alone.           *)
LEMMA SameTruth ==
  ASSUME UNCHANGED <<entry, changed>>, NEW e \in Escrows
  PROVE  Truth(e)' = Truth(e) /\ (view'[e] = view[e] => Right(e)' = Right(e))
  BY DEF Truth, Live, Gone, Right, Accurate, Misled

(* A step of the chain leaves an escrow as it is, or changes it in the     *)
(* ledger that closes.                                                     *)
LEMMA ChainTouches ==
  ASSUME TypeInv, EntryInv, ShapesStay, Chain, NEW e \in Escrows
  PROVE  /\ tip' = tip + 1
         /\ UNCHANGED <<pc, cur, known, pending, learned, sweeper, fetch, view,
                        saved, bounds>>
         /\ EntryRight(e)'
         /\ \/ changed'[e] = changed[e] /\ Right(e)' = Right(e) /\ Truth(e)' = Truth(e)
            \/ changed'[e] = tip + 1
  <1>0. UNCHANGED <<pc, cur, known, pending, learned, sweeper, fetch, view,
                    saved, bounds>>
    BY DEF Chain, LedgerCloses, EscrowMoves
  <1>1. ASSUME changed'[e] = changed[e], entry'[e] = entry[e]
        PROVE  EntryRight(e)' /\ Right(e)' = Right(e) /\ Truth(e)' = Truth(e)
    <2>1. Truth(e)' = Truth(e) /\ Live(e, "data")' = Live(e, "data") /\ Gone' = Gone
      BY <1>1 DEF Truth, Live, Gone
    <2>2. EntryRight(e)'
      BY <1>0, <1>1, <2>1 DEF EntryInv, EntryRight
    <2>3. QED
      BY <1>0, <2>1, <2>2 DEF Right, Accurate, Misled, Gone
  <1>2. CASE LedgerCloses
    BY <1>0, <1>1, <1>2 DEF LedgerCloses
  <1>3. ASSUME NEW x \in Escrows, NEW m \in Moves, EscrowMoves(x, m), x # e
        PROVE  changed'[e] = changed[e] /\ entry'[e] = entry[e]
    BY <1>3 DEF EscrowMoves, TypeInv, TypeOK
  <1>4. ASSUME NEW m \in Moves, EscrowMoves(e, m)
        PROVE  EntryRight(e)' /\ changed'[e] = tip + 1
    <2>1. m \in {"write", "drift", "vanish"}
      BY ReconcileAssumption DEF ReconcileAssumption, ShapesStay
    <2>2. /\ tip' = tip + 1 /\ changed'[e] = tip' /\ entry'[e] = Moved(e, m, tip')
          /\ tip' # 0
      BY <1>4, EntryTypes DEF EscrowMoves, TypeInv, TypeOK
    <2>3. entry[e] \in [Keys -> 0 .. MaxLedger] /\ "data" \in Keys /\ "inst" \in Keys
      BY DEF TypeInv, TypeOK, Keys
    <2>4. learned'[e] = "inst" => ~Live(e, "data")
      BY <1>0 DEF EntryInv, EntryRight
    <2>5. CASE m = "vanish"
      <3>1. entry'[e]["data"] = 0 /\ entry'[e]["inst"] = 0
        BY <2>2, <2>3, <2>5 DEF Moved
      <3>2. ~Live(e, "data")' /\ ~Live(e, "inst")'
        BY <3>1 DEF Live
      <3>3. Truth(e)' = Gone'
        BY <3>2 DEF Truth
      <3>4. QED
        BY <2>2, <3>2, <3>3 DEF EntryRight
    <2>6. CASE m # "vanish" /\ Live(e, "data")
      <3>1. Truth(e).key = "data"
        BY <2>6, TruthIs
      <3>2. entry'[e]["data"] = tip'
        BY <2>1, <2>2, <2>3, <2>6, <3>1 DEF Moved
      <3>3. Live(e, "data")'
        BY <2>2, <3>2 DEF Live
      <3>4. Truth(e)' = [key |-> "data", mod |-> tip']
        BY <3>2, <3>3 DEF Truth
      <3>5. QED
        BY <2>2, <2>4, <2>6, <3>4 DEF EntryRight
    <2>7. CASE m # "vanish" /\ ~Live(e, "data")
      <3>1. Truth(e) # Gone
        BY <1>4, <2>1, <2>7 DEF EscrowMoves, Possible
      <3>2. Truth(e).key = "inst"
        BY <2>7, <3>1, TruthIs
      <3>3. entry'[e]["inst"] = tip' /\ entry'[e]["data"] = entry[e]["data"]
        BY <2>1, <2>2, <2>3, <2>7, <3>2 DEF Moved
      <3>4. Live(e, "inst")' /\ ~Live(e, "data")'
        BY <2>2, <2>7, <3>3 DEF Live
      <3>5. Truth(e)' = [key |-> "inst", mod |-> tip']
        BY <3>3, <3>4 DEF Truth
      <3>6. QED
        BY <2>2, <3>4, <3>5 DEF EntryRight
    <2>8. QED
      BY <2>2, <2>5, <2>6, <2>7
  <1>5. QED
    BY <1>0, <1>1, <1>2, <1>3, <1>4, ChainType DEF Chain

(* An answer to a request that does not hide a dedicated entry is true.    *)
LEMMA AnswersTrue ==
  ASSUME TypeInv, NEW keys \in SUBSET (Escrows \X Keys),
         \A e \in Escrows : <<e, "inst">> \in keys /\ <<e, "data">> \notin keys
                              => ~Live(e, "data"),
         NEW c \in Build(keys)
  PROVE  /\ c.id \in known /\ c.id \in Escrows
         /\ Truth(c.id) = [key |-> c.key, mod |-> c.mod]
         /\ c.key = "inst" => ~Live(c.id, "data")
  <1>1. PICK q \in keys :
          /\ Live(q[1], q[2]) /\ q[1] \in known
          /\ q[2] = "inst" => <<q[1], "data">> \notin keys \/ ~Live(q[1], "data")
          /\ c = [id |-> q[1], key |-> q[2], mod |-> entry[q[1]][q[2]]]
    BY DEF Build
  <1>2. q[1] \in Escrows /\ q[2] \in Keys /\ q = <<q[1], q[2]>>
    OBVIOUS
  <1>3. CASE q[2] = "data"
    BY <1>1, <1>2, <1>3, TruthIs
  <1>4. CASE q[2] = "inst"
    <2>1. ~Live(q[1], "data")
      BY <1>1, <1>2, <1>4
    <2>2. QED
      BY <1>1, <1>2, <1>4, <2>1, TruthIs
  <1>5. QED
    BY <1>2, <1>3, <1>4 DEF Keys

LEMMA QueryAnswers ==
  ASSUME TypeInv, EntryInv, Query, NEW c \in found'
  PROVE  /\ c.id \in known /\ c.id \in Escrows
         /\ Truth(c.id) = [key |-> c.key, mod |-> c.mod]
         /\ c.key = "inst" => ~Live(c.id, "data")
  <1>1. found' = Build(KeysOf(asked))
    BY DEF Query
  <1>2. KeysOf(asked) \in SUBSET (Escrows \X Keys)
    BY DEF KeysOf, TypeInv, TypeOK
  <1>3. ASSUME NEW e \in Escrows, <<e, "inst">> \in KeysOf(asked),
               <<e, "data">> \notin KeysOf(asked)
        PROVE  ~Live(e, "data")
    <2>1. learned[e] = "inst"
      BY <1>3 DEF KeysOf, Keys, TypeInv, TypeOK
    <2>2. QED
      BY <2>1 DEF EntryInv, EntryRight
  <1>4. QED
    BY <1>1, <1>2, <1>3, AnswersTrue

LEMMA RelearnAnswers ==
  ASSUME TypeInv, NEW c \in Build(again \X Keys)
  PROVE  /\ c.id \in known /\ c.id \in Escrows
         /\ Truth(c.id) = [key |-> c.key, mod |-> c.mod]
         /\ c.key = "inst" => ~Live(c.id, "data")
  <1>1. again \X Keys \in SUBSET (Escrows \X Keys)
    BY DEF TypeInv, TypeOK
  <1>2. \A e \in Escrows : <<e, "inst">> \in again \X Keys => <<e, "data">> \in again \X Keys
    BY DEF Keys
  <1>3. QED
    BY <1>1, <1>2, AnswersTrue

LEMMA LearnTells ==
  ASSUME NEW changes, NEW before, NEW e \in Escrows,
         Learn(changes, before)[e] = "inst"
  PROVE  before[e] = "inst" \/ \E c \in changes : c.id = e /\ c.key = "inst"
  <1>1. CASE \E c \in changes : c.id = e
    <2> DEFINE c == CHOOSE c \in changes : c.id = e
    <2>1. c \in changes /\ c.id = e
      BY <1>1
    <2>2. Learn(changes, before)[e] = c.key
      BY <1>1 DEF Learn
    <2>3. QED
      BY <2>1, <2>2
  <1>2. CASE ~ \E c \in changes : c.id = e
    BY <1>2 DEF Learn
  <1>3. QED
    BY <1>1, <1>2

LEMMA EntryStarts == Init => EntryInv
  <1> SUFFICES ASSUME Init, NEW e \in Escrows PROVE EntryRight(e)
    BY DEF EntryInv
  <1>1. /\ entry[e]["data"] \in {0, 1} /\ entry[e]["inst"] \in {0, 1}
        /\ changed[e] = 1 /\ learned[e] = "none"
    BY DEF Init, Keys, NoKeys
  <1>2. QED
    BY <1>1, TruthIs DEF EntryRight, Live

LEMMA EntryKept ==
  ASSUME TypeInv, EntryInv, ShapesStay, [Next]_vars PROVE EntryInv'
  <1>1. CASE Chain
    BY <1>1, ChainTouches DEF EntryInv
  <1>2. ASSUME UNCHANGED <<entry, changed>>,
               \A e \in Escrows : learned'[e] = "inst" => ~Live(e, "data")
        PROVE  EntryInv'
    <2>1. ASSUME NEW e \in Escrows PROVE EntryRight(e)'
      <3>1. Truth(e)' = Truth(e) /\ Live(e, "data")' = Live(e, "data") /\ Gone' = Gone
        BY <1>2 DEF Truth, Live, Gone
      <3>2. QED
        BY <1>2, <3>1 DEF EntryInv, EntryRight
    <2>2. QED
      BY <2>1 DEF EntryInv
  <1>3. \A e \in Escrows : learned[e] = "inst" => ~Live(e, "data")
    BY DEF EntryInv, EntryRight
  <1>4. CASE Query
    <2> DEFINE lost == MissingLearned(asked \ Ids(found'))
    <2>1. learned' = Learn(found', Forget(lost)) /\ UNCHANGED <<entry, changed>>
      BY <1>4 DEF Query, network
    <2>2. ASSUME NEW e \in Escrows, learned'[e] = "inst" PROVE ~Live(e, "data")
      <3>1. CASE Forget(lost)[e] = "inst"
        BY <1>3, <3>1 DEF Forget
      <3>2. CASE \E c \in found' : c.id = e /\ c.key = "inst"
        BY <1>4, <3>2, QueryAnswers
      <3>3. QED
        BY <2>1, <2>2, <3>1, <3>2, LearnTells
    <2>3. QED
      BY <1>2, <2>1, <2>2
  <1>5. CASE Relearn
    <2> DEFINE changes == Build(again \X Keys)
    <2>1. learned' = Learn(changes, learned) /\ UNCHANGED <<entry, changed>>
      BY <1>5 DEF Relearn, network
    <2>2. ASSUME NEW e \in Escrows, learned'[e] = "inst" PROVE ~Live(e, "data")
      <3>1. CASE learned[e] = "inst"
        BY <1>3, <3>1
      <3>2. CASE \E c \in changes : c.id = e /\ c.key = "inst"
        BY <3>2, RelearnAnswers
      <3> HIDE DEF changes
      <3>3. QED
        BY <2>1, <2>2, <3>1, <3>2, LearnTells
    <2>3. QED
      BY <1>2, <2>1, <2>2
  <1>6. CASE Crash
    <2>1. UNCHANGED <<entry, changed>> /\ learned' = NoKeys
      BY <1>6 DEF Crash, network
    <2>2. QED
      BY <1>2, <2>1 DEF NoKeys
  <1>7. CASE UNCHANGED <<entry, changed, learned>>
    BY <1>2, <1>3, <1>7
  <1>8. QED
    BY <1>1, <1>4, <1>5, <1>6, <1>7
    DEF Next, Loop, Operator, Boot, DeferLedger, ProcessLedger, AwaitLedger,
        NextBatch, NoSweep, Publish, Checkpoint, SkipCheckpoint, NextLedger,
        TrackEscrow, RefreshEscrow, RemoveEscrow, ReconcileAll, FetchFails,
        network, vars

-----------------------------------------------------------------------------
(* What the consumer is told                                               *)

LEMMA FoundKept ==
  ASSUME TypeInv, EntryInv, FoundInv, ShapesStay, [Next]_vars PROVE FoundInv'
  <1>0. \A c \in found : c.id \in Escrows
    BY DEF TypeInv, TypeOK
  <1>1. CASE Chain
    <2>1. /\ tip' = tip + 1 /\ found' = found /\ cur' = cur /\ known' = known
      BY <1>1, ChainTouches DEF fetch, Chain, LedgerCloses, EscrowMoves
    <2>2. ASSUME NEW c \in found, changed'[c.id] <= cur
          PROVE  Truth(c.id)' = [key |-> c.key, mod |-> c.mod]
      <3>1. c.id \in Escrows /\ cur <= tip /\ cur \in Nat /\ tip \in Nat
        <4>1. pc \in {"query", "relearn", "publish"}
          BY <2>2 DEF TypeInv, PlaceInv, Fetching
        <4>2. QED
          BY <1>0, <4>1, EntryTypes DEF TypeInv, PlaceInv
      <3>2. changed'[c.id] = changed[c.id] /\ Truth(c.id)' = Truth(c.id)
        BY <1>1, <2>2, <3>1, ChainTouches
      <3>3. QED
        BY <2>2, <3>2 DEF FoundInv
    <2>3. QED
      BY <2>1, <2>2 DEF FoundInv, Ids
  <1>2. CASE Query
    <2>1. UNCHANGED <<entry, changed, cur, known>>
      BY <1>2 DEF Query, network
    <2>2. QED
      BY <1>2, <2>1, QueryAnswers, SameTruth DEF FoundInv, Ids
  <1>3. CASE Relearn
    <2> DEFINE changes == Build(again \X Keys)
    <2>1. UNCHANGED <<entry, changed, cur, known>> /\ found' = found \cup changes
      BY <1>3 DEF Relearn, network
    <2>2. ASSUME NEW c \in found'
          PROVE  c.id \in known /\
                 (changed[c.id] <= cur => Truth(c.id) = [key |-> c.key, mod |-> c.mod])
      <3>1. CASE c \in found
        BY <3>1 DEF FoundInv, Ids
      <3>2. CASE c \in changes
        BY <3>2, RelearnAnswers
      <3>3. QED
        BY <2>1, <3>1, <3>2
    <2>3. \A c \in found' : c.id \in Escrows
      BY <2>2 DEF TypeInv, TypeOK
    <2> HIDE DEF changes
    <2>4. QED
      BY <2>1, <2>2, <2>3, SameTruth DEF FoundInv, Ids
  <1>4. CASE found' = {}
    BY <1>4 DEF FoundInv, Ids
  <1>5. CASE UNCHANGED <<entry, changed, found, cur, known>>
    BY <1>0, <1>5, SameTruth DEF FoundInv, Ids
  <1>6. CASE ~Fetching /\ found' = found
    BY <1>4, <1>6 DEF TypeInv, PlaceInv
  <1>7. QED
    BY <1>1, <1>2, <1>3, <1>4, <1>5, <1>6
    DEF Next, Loop, Operator, Boot, DeferLedger, ProcessLedger, AwaitLedger,
        NextBatch, NoSweep, Publish, Checkpoint, SkipCheckpoint, NextLedger,
        TrackEscrow, RefreshEscrow, RemoveEscrow, ReconcileAll, FetchFails,
        Crash, Ask, AfterFetch, Command, Fetching, network, fetch, vars

LEMMA FoundStarts == Init => FoundInv
  BY DEF Init, FoundInv, Ids

(* What a publish leaves of an escrow.                                     *)
LEMMA ReceivedCases ==
  ASSUME TypeInv, pc = "publish", NEW e \in Escrows
  PROVE  \/ /\ Received(e) = view[e]
            /\ view[e].seq >= cur \/ e \notin Ids(Updates) \cup Removals
         \/ \E c \in Updates :
              c.id = e /\ Received(e) = [seq |-> cur, key |-> c.key, mod |-> c.mod]
         \/ /\ e \in Removals
            /\ Received(e) = [seq |-> cur, key |-> "removed", mod |-> 0]
  <1>1. view[e].seq \in Nat /\ cur \in Nat
    BY EntryTypes
  <1>2. CASE view[e].seq >= cur
    <2>1. Received(e) = view[e]
      BY <1>1, <1>2 DEF Received
    <2>2. QED
      BY <1>2, <2>1
  <1>3. CASE view[e].seq < cur /\ \E c \in Updates : c.id = e
    <2> DEFINE c == CHOOSE c \in Updates : c.id = e
    <2>1. c \in Updates /\ c.id = e
      BY <1>3
    <2>2. e \notin Removals
      BY <1>3 DEF Removals, Missing, Ids, Updates
    <2>3. Received(e) = [seq |-> cur, key |-> c.key, mod |-> c.mod]
      BY <1>1, <1>3, <2>2 DEF Received
    <2> HIDE DEF c
    <2>4. QED
      BY <2>1, <2>3
  <1>4. CASE view[e].seq < cur /\ e \notin Ids(Updates) /\ e \in Removals
    BY <1>1, <1>4 DEF Received, Ids
  <1>5. CASE view[e].seq < cur /\ e \notin Ids(Updates) /\ e \notin Removals
    BY <1>1, <1>5 DEF Received, Ids
  <1>6. QED
    BY <1>1, <1>2, <1>3, <1>4, <1>5 DEF Ids

(* After a publish the consumer is right about every escrow published that *)
(* has not changed since the ledger under work, and no less right than     *)
(* before about the others.                                                *)
LEMMA PublishRight ==
  ASSUME TypeInv, ViewInv, FoundInv, Publish, NEW e \in Escrows
  PROVE  /\ view'[e].seq <= tip
         /\ changed[e] <= view'[e].seq => Right(e)'
         /\ changed[e] <= cur /\ (Right(e) \/ e \in Ids(Updates) \cup Removals)
              => Right(e)'
  <1>1. /\ pc = "publish" /\ UNCHANGED <<entry, changed>> /\ view'[e] = Received(e)
    BY PublishType DEF Publish, network
  <1>2. Truth(e)' = Truth(e) /\ Gone' = Gone
    BY <1>1, SameTruth DEF Gone
  <1>3. /\ changed[e] \in Nat /\ view[e].seq \in Nat /\ cur \in Nat /\ tip \in Nat
        /\ cur <= tip
    BY <1>1, EntryTypes DEF TypeInv, PlaceInv
  <1>4. CASE /\ Received(e) = view[e]
             /\ view[e].seq >= cur \/ e \notin Ids(Updates) \cup Removals
    <2>1. Right(e)' = Right(e)
      BY <1>1, <1>4, SameTruth
    <2>2. QED
      BY <1>1, <1>3, <1>4, <2>1 DEF ViewInv
  <1>5. ASSUME NEW c \in Updates, c.id = e,
               Received(e) = [seq |-> cur, key |-> c.key, mod |-> c.mod]
        PROVE  view'[e].seq = cur /\ (changed[e] <= cur => Right(e)')
    <2>1. c \in found
      BY DEF Updates
    <2>2. ASSUME changed[e] <= cur PROVE Right(e)'
      <3>1. Truth(e)' = [key |-> c.key, mod |-> c.mod]
        BY <1>2, <1>5, <2>1, <2>2 DEF FoundInv
      <3>2. view'[e].key = c.key /\ view'[e].mod = c.mod
        BY <1>1, <1>5
      <3>3. QED
        BY <3>1, <3>2 DEF Right, Accurate
    <2>3. QED
      BY <1>1, <1>5, <2>2
  <1>6. ASSUME e \in Removals,
               Received(e) = [seq |-> cur, key |-> "removed", mod |-> 0]
        PROVE  view'[e].seq = cur /\ Right(e)'
    <2>1. view'[e].seq = cur /\ view'[e].key = "removed" /\ view'[e].mod = 0
      BY <1>1, <1>6
    <2>2. QED
      BY <2>1, <1>2 DEF Right, Accurate, Misled, Gone
  <1>7. QED
    BY <1>1, <1>3, <1>4, <1>5, <1>6, ReceivedCases

LEMMA ViewStarts == Init => ViewInv
  BY ReconcileAssumption DEF ReconcileAssumption, Init, ViewInv, Ledgers

LEMMA ViewKept ==
  ASSUME TypeInv, EntryInv, ViewInv, FoundInv, ShapesStay, [Next]_vars PROVE ViewInv'
  <1>1. CASE Chain
    <2>1. ASSUME NEW e \in Escrows
          PROVE  view'[e].seq <= tip' /\ (changed'[e] <= view'[e].seq => Right(e)')
      <3>1. tip' = tip + 1 /\ view' = view
        BY <1>1, ChainTouches
      <3>2. view[e].seq \in Nat /\ tip \in Nat /\ view[e].seq <= tip
        BY EntryTypes DEF ViewInv
      <3>3. QED
        BY <1>1, <3>1, <3>2, ChainTouches DEF ViewInv
    <2>2. QED
      BY <2>1 DEF ViewInv
  <1>2. CASE Publish
    <2>1. tip' = tip /\ changed' = changed
      BY <1>2 DEF Publish, network
    <2>2. QED
      BY <1>2, <2>1, PublishRight DEF ViewInv
  <1>3. CASE UNCHANGED <<tip, entry, changed, view>>
    BY <1>3, SameTruth DEF ViewInv
  <1>4. QED
    BY <1>1, <1>2, <1>3
    DEF Next, Loop, Operator, Boot, DeferLedger, ProcessLedger, AwaitLedger,
        NextBatch, NoSweep, Query, Relearn, Checkpoint, SkipCheckpoint, NextLedger,
        TrackEscrow, RefreshEscrow, RemoveEscrow, ReconcileAll, FetchFails,
        Crash, network, vars

-----------------------------------------------------------------------------
(* The filter of the sweep                                                 *)

(* Behind the position of the pass under way; when it is at the start the  *)
(* last one is over, or none has begun.                                    *)
Visited(e) == pos = 0 \/ Rank(e) < pos

(* Of what did not change since the previous pass began the consumer is    *)
(* right, unless it is asked about for a command, when it may be new ...   *)
FilterInv ==
  \A e \in known \ missed :
    changed[e] < prevPass /\ (e \in asked => job # "command") => Right(e)

(* ... and likewise of what the pass under way has visited and what did    *)
(* not change since it began, once the answer is published.                *)
VisitInv ==
  \A e \in known \ (missed \cup asked) :
    changed[e] < passStart /\ Visited(e) => Right(e)

SweepInv == FilterInv /\ VisitInv

LEMMA SweepStarts == Init => SweepInv
  BY ReconcileAssumption
  DEF ReconcileAssumption, Init, SweepInv, FilterInv, VisitInv, Ledgers

(* A step that leaves the chain, the registry, the rotation and the        *)
(* consumer alone may ask about more.                                      *)
LEMMA SweepUntouched ==
  ASSUME SweepInv, TypeInv,
         UNCHANGED <<entry, changed, known, pos, passStart, prevPass, view>>,
         missed \cup asked \subseteq missed' \cup asked', missed \subseteq missed',
         asked \subseteq missed' \/ (asked \subseteq asked' /\ job' = job)
  PROVE  SweepInv'
  <1>1. \A e \in known : Right(e)' = Right(e)
    BY SameTruth DEF TypeInv, TypeOK
  <1>2. \A e : Visited(e)' = Visited(e)
    BY DEF Visited, Rank
  <1>3. FilterInv'
    BY <1>1 DEF SweepInv, FilterInv
  <1>4. VisitInv'
    BY <1>1, <1>2 DEF SweepInv, VisitInv
  <1>5. QED
    BY <1>3, <1>4 DEF SweepInv

LEMMA SweepPublished ==
  ASSUME TypeInv, EntryInv, ViewInv, FoundInv, SweepInv, Publish
  PROVE  SweepInv'
  <1>0. /\ UNCHANGED <<entry, changed, known, pos, passStart, prevPass>>
        /\ asked' = {} /\ pc = "publish"
        /\ missed' = (missed \cup Missing) \ (Ids(Updates) \cup Removals)
    BY DEF Publish, AfterFetch, network, sweeper
  <1>1. ASSUME NEW e \in known, e \notin missed', changed[e] < passStart,
               \/ Right(e)
               \/ e \in Ids(Updates) \cup Removals
        PROVE  Right(e)'
    <2>1. e \in Escrows /\ changed[e] <= cur
      BY <1>1, EntryTypes DEF TypeInv, TypeOK
    <2>2. QED
      BY <1>1, <2>1, PublishRight
  (* What was asked about and is left out has been filtered, hence it has  *)
  (* not changed since the previous pass.                                  *)
  <1>2. ASSUME NEW e \in known \cap asked, e \notin missed',
               e \notin Ids(Updates) \cup Removals, changed[e] < passStart
        PROVE  changed[e] < prevPass /\ job = "sweep" /\ e \notin missed
    <2>1. e \in Ids(found) /\ e \notin missed
      BY <1>0, <1>2 DEF Missing
    <2>2. PICK c \in found : c.id = e
      BY <2>1 DEF Ids
    <2>3. c \notin Updates
      BY <1>2, <2>2 DEF Ids
    <2>4. job = "sweep" /\ ~(c.mod >= prevPass)
      BY <2>3 DEF Updates
    <2>5. e \in Escrows /\ changed[e] <= cur /\ changed[e] \in Nat
      BY <1>2, EntryTypes DEF TypeInv, TypeOK
    <2>6. Truth(e) = [key |-> c.key, mod |-> c.mod]
      BY <2>2, <2>5 DEF FoundInv
    <2>7. c.key \in Keys /\ "removed" \notin Keys
      BY DEF TypeInv, TypeOK, Keys
    <2>8. c.mod = changed[e]
      BY <2>5, <2>6, <2>7 DEF EntryInv, EntryRight, Gone
    <2>9. QED
      BY <2>1, <2>4, <2>5, <2>8, EntryTypes
  <1>3. ASSUME NEW e \in known, e \notin missed', e \notin Ids(Updates) \cup Removals,
               e \notin asked \/ job = "sweep", changed[e] < prevPass
        PROVE  Right(e)
    <2>1. e \notin missed
      BY <1>0, <1>3
    <2>2. QED
      BY <1>3, <2>1 DEF SweepInv, FilterInv
  <1>4. ASSUME NEW e \in known, changed[e] < prevPass
        PROVE  changed[e] < passStart
    BY <1>4, EntryTypes DEF TypeInv, TypeOK
  <1>5. FilterInv'
    <2>1. ASSUME NEW e \in known, e \notin missed', changed[e] < prevPass
          PROVE  Right(e)'
      BY <1>1, <1>2, <1>3, <1>4, <2>1
    <2>2. QED
      BY <1>0, <2>1 DEF FilterInv
  <1>6. VisitInv'
    <2>1. ASSUME NEW e \in known, e \notin missed', changed[e] < passStart, Visited(e)
          PROVE  Right(e)'
      <3>1. CASE e \in Ids(Updates) \cup Removals
        BY <1>1, <2>1, <3>1
      <3>2. CASE e \notin Ids(Updates) \cup Removals /\ e \in asked
        BY <1>1, <1>2, <1>3, <2>1, <3>2
      <3>3. CASE e \notin Ids(Updates) \cup Removals /\ e \notin asked
        <4>1. e \notin missed
          BY <1>0, <2>1, <3>3
        <4>2. Right(e)
          BY <2>1, <3>3, <4>1 DEF SweepInv, VisitInv
        <4>3. QED
          BY <1>1, <2>1, <4>2
      <3>4. QED
        BY <3>1, <3>2, <3>3
    <2>2. \A e : Visited(e)' = Visited(e)
      BY <1>0 DEF Visited, Rank
    <2>3. QED
      BY <1>0, <2>1, <2>2 DEF VisitInv
  <1>7. QED
    BY <1>5, <1>6 DEF SweepInv

(* A batch that begins a pass finds all visited by the one before, and     *)
(* one that goes on asks about all that it passes.                         *)
LEMMA SweepAdvances ==
  ASSUME TypeInv, SweepInv, NextBatch
  PROVE  SweepInv'
  <1> DEFINE p == IF pos >= Cardinality(known) THEN 0 ELSE pos
             n == Cardinality(Batch(p))
  <1>0. /\ UNCHANGED <<entry, changed, known, view, missed>> /\ asked = {}
        /\ asked' = Batch(p) /\ job' = "sweep"
        /\ BeginPass(p) /\ Advance(p, n)
    BY DEF NextBatch, Ask, network, bounds, TypeInv, PlaceInv, Fetching
  <1>1. \A e \in known : Right(e)' = Right(e) /\ e \in Escrows
    BY <1>0, SameTruth DEF TypeInv, TypeOK
  <1>2. /\ p \in Nat /\ pos \in Nat /\ Cardinality(known) \in Nat /\ n \in Nat
        /\ p # 0 => p = pos /\ pos < Cardinality(known)
    <2>1. Cardinality(known) \in Nat /\ pos \in Nat
      BY KnownFinite, ReconcileAssumption
      DEF ReconcileAssumption, TypeInv, TypeOK
    <2>2. Batch(p) \subseteq known
      BY DEF Batch, Ahead
    <2>3. n \in Nat
      BY <2>2, KnownFinite
    <2>4. QED
      BY <2>1, <2>3
  <1>3. ASSUME NEW e \in known, p = 0 PROVE Visited(e)
    <2>1. Rank(e) < Cardinality(known) /\ Rank(e) \in Nat
      BY <1>1, RankBelowSize, RankType
    <2>2. QED
      BY <1>2, <1>3, <2>1 DEF Visited
  <1>4. FilterInv'
    <2>1. CASE p = 0
      <3>1. prevPass' = passStart
        BY <1>0, <2>1 DEF BeginPass
      <3>2. QED
        BY <1>0, <1>1, <1>3, <2>1, <3>1 DEF SweepInv, VisitInv, FilterInv
    <2>2. CASE p # 0
      <3>1. prevPass' = prevPass
        BY <1>0, <2>2 DEF BeginPass
      <3>2. QED
        BY <1>0, <1>1, <3>1 DEF SweepInv, FilterInv
    <2>3. QED
      BY <2>1, <2>2
  <1>5. ASSUME NEW e \in known, e \notin Batch(p), Visited(e)'
        PROVE  p # 0 /\ Rank(e) < pos
    <2>1. Rank(e)' = Rank(e) /\ Rank(e) \in Nat /\ Rank(e) < Cardinality(known)
      <3>1. Rank(e)' = Rank(e)
        BY <1>0 DEF Rank
      <3>2. QED
        BY <1>1, <3>1, RankBelowSize, RankType
    <2>2. pos' = 0 \/ Rank(e) < pos'
      BY <1>5, <2>1 DEF Visited
    <2>3. pos' = IF p + n >= Cardinality(known) THEN 0 ELSE p + n
      BY <1>0 DEF Advance
    <2>4. SUFFICES ASSUME Rank(e) >= p PROVE FALSE
      BY <1>2, <2>1, <2>4
    <2>5. Rank(e) >= p + n
      BY <1>2, <1>5, <2>4, BatchSize
    <2>6. n # 0
      <3>1. e \in Ahead(p)
        BY <2>4 DEF Ahead
      <3>2. Batch(p) # {} /\ Batch(p) \subseteq known
        BY <1>2, <3>1, BatchTakesOne DEF Batch, Ahead
      <3>3. IsFiniteSet(Batch(p))
        BY <3>2, KnownFinite
      <3>4. QED
        BY <3>2, <3>3, FS_EmptySet
    <2> HIDE DEF p, n
    <2>7. QED
      BY <1>2, <2>1, <2>2, <2>3, <2>5, <2>6
  <1>6. VisitInv'
    <2>1. ASSUME NEW e \in known, e \notin missed, e \notin Batch(p),
                 changed[e] < passStart', Visited(e)'
          PROVE  Right(e)
      <3>1. p # 0 /\ Rank(e) < pos
        BY <1>5, <2>1
      <3>2. passStart' = passStart
        BY <1>0, <3>1 DEF BeginPass
      <3>3. Visited(e)
        BY <3>1 DEF Visited
      <3>4. QED
        BY <1>0, <2>1, <3>2, <3>3 DEF SweepInv, VisitInv
    <2> HIDE DEF p, n
    <2>2. QED
      BY <1>0, <1>1, <2>1 DEF VisitInv
  <1>7. QED
    BY <1>4, <1>6 DEF SweepInv

(* An id that joins the registry moves none behind the position.           *)
LEMMA SweepTracks ==
  ASSUME TypeInv, SweepInv, NEW a \in Escrows, TrackEscrow(a)
  PROVE  SweepInv'
  <1>0. /\ UNCHANGED <<entry, changed, view, missed, pos, passStart, prevPass>>
        /\ asked = {} /\ asked' = {a} /\ job' = "command" /\ known' = known \cup {a}
    BY DEF TrackEscrow, Command, Ask, network, sweeper, TypeInv, PlaceInv, Fetching
  <1>1. \A e \in known : Right(e)' = Right(e) /\ e \in Escrows
    BY <1>0, SameTruth DEF TypeInv, TypeOK
  <1>2. ASSUME NEW e \in known, Visited(e)' PROVE Visited(e)
    <2> DEFINE A == {x \in known : x < e}
               B == {x \in known' : x < e}
    <2>1. A \subseteq B /\ B \subseteq A \cup {a}
      BY <1>0
    <2>2. IsFiniteSet(A)
      BY <1>1, RankType
    <2>3. IsFiniteSet(A \cup {a})
      BY <2>2, FS_AddElement
    <2>4. IsFiniteSet(B) /\ Cardinality(B) \in Nat
      BY <2>1, <2>3, FS_Subset, FS_CardinalityType
    <2>5. Cardinality(A) <= Cardinality(B) /\ Cardinality(A) \in Nat
      BY <2>1, <2>2, <2>4, FS_Subset, FS_CardinalityType
    <2>6. Rank(e) = Cardinality(A) /\ Rank(e)' = Cardinality(B)
      BY DEF Rank
    <2>7. pos \in Nat
      BY ReconcileAssumption DEF ReconcileAssumption, TypeInv, TypeOK
    <2> HIDE DEF A, B
    <2>8. QED
      BY <1>0, <1>2, <2>4, <2>5, <2>6, <2>7 DEF Visited
  <1>3. FilterInv'
    BY <1>0, <1>1 DEF SweepInv, FilterInv
  <1>4. VisitInv'
    BY <1>0, <1>1, <1>2 DEF SweepInv, VisitInv
  <1>5. QED
    BY <1>3, <1>4 DEF SweepInv

(* An id that leaves it moves at most one behind the position.             *)
LEMMA SweepRemoves ==
  ASSUME TypeInv, SweepInv, NEW a \in Escrows, RemoveEscrow(a)
  PROVE  SweepInv'
  <1>0. /\ UNCHANGED <<entry, changed, view, pos, passStart, prevPass, asked, job>>
        /\ known' = known \ {a} /\ missed \subseteq missed'
        /\ a \in known /\ Rank(a) < pos => {x \in known : Rank(x) = pos} \subseteq missed'
    BY DEF RemoveEscrow, Command, network, sweeper, fetch
  <1>1. \A e \in known : Right(e)' = Right(e) /\ e \in Escrows
    BY <1>0, SameTruth DEF TypeInv, TypeOK
  <1>2. ASSUME NEW e \in known, e \notin missed', Visited(e)' PROVE Visited(e)
    <2> DEFINE A == {x \in known : x < e}
               B == {x \in known' : x < e}
    <2>1. Rank(e) = Cardinality(A) /\ Rank(e)' = Cardinality(B)
      BY DEF Rank
    <2>2. Rank(e) \in Nat /\ IsFiniteSet(A) /\ e \in Nat /\ a \in Nat
      BY <1>1, RankType DEF Escrows
    <2>3. B = A \ {a}
      BY <1>0
    <2>4. pos \in Nat
      BY ReconcileAssumption DEF ReconcileAssumption, TypeInv, TypeOK
    <2>5. CASE a \notin A
      <3>1. B = A
        BY <2>3, <2>5
      <3>2. QED
        BY <1>0, <1>2, <2>1, <3>1 DEF Visited
    <2>6. CASE a \in A
      <3>1. a \in known /\ a < e
        BY <2>6
      <3>2. Cardinality(B) = Cardinality(A) - 1
        BY <2>2, <2>3, <2>6, FS_RemoveElement
      <3>3. Rank(e) >= Rank(a) + 1 /\ Rank(a) \in Nat
        BY <1>1, <3>1, RankOrder, RankType
      <3> HIDE DEF A, B
      <3>4. pos = 0 \/ Rank(e) - 1 < pos
        BY <1>0, <1>2, <2>1, <3>2 DEF Visited
      <3>5. CASE pos # 0 /\ Rank(e) = pos
        BY <1>0, <1>2, <2>2, <3>1, <3>3, <3>5
      <3>6. QED
        BY <2>2, <2>4, <3>4, <3>5 DEF Visited
    <2>7. QED
      BY <2>5, <2>6
  <1>3. FilterInv'
    BY <1>0, <1>1 DEF SweepInv, FilterInv
  <1>4. VisitInv'
    BY <1>0, <1>1, <1>2 DEF SweepInv, VisitInv
  <1>5. QED
    BY <1>3, <1>4 DEF SweepInv

LEMMA SweepOnChain ==
  ASSUME TypeInv, EntryInv, ShapesStay, SweepInv, Chain
  PROVE  SweepInv'
  <1>0. UNCHANGED <<known, missed, asked, job, pos, passStart, prevPass>>
    BY DEF Chain, LedgerCloses, EscrowMoves, sweeper, fetch, bounds
  <1>1. ASSUME NEW e \in known, changed'[e] < passStart
        PROVE  changed'[e] = changed[e] /\ Right(e)' = Right(e)
    <2>1. e \in Escrows
      BY DEF TypeInv, TypeOK
    <2>2. passStart <= tip + 1 /\ passStart \in Nat /\ tip \in Nat
      BY <2>1, EntryTypes DEF TypeInv, PlaceInv
    <2>3. QED
      BY <1>1, <2>1, <2>2, ChainTouches
  <1>2. ASSUME NEW e \in known, changed'[e] < prevPass
        PROVE  changed'[e] < passStart
    <2>1. changed'[e] \in Nat
      BY ChainType, ReconcileAssumption
      DEF ReconcileAssumption, NetworkType, TypeInv, TypeOK, Ledgers
    <2>2. e \in Escrows
      BY DEF TypeInv, TypeOK
    <2>3. QED
      BY <1>2, <2>1, <2>2, EntryTypes
  <1>3. \A e : Visited(e)' = Visited(e)
    BY <1>0 DEF Visited, Rank
  <1>4. FilterInv'
    BY <1>0, <1>1, <1>2 DEF SweepInv, FilterInv
  <1>5. VisitInv'
    BY <1>0, <1>1, <1>3 DEF SweepInv, VisitInv
  <1>6. QED
    BY <1>4, <1>5 DEF SweepInv

LEMMA SweepKept ==
  ASSUME TypeInv, EntryInv, ViewInv, FoundInv, ShapesStay, SweepInv, [Next]_vars
  PROVE  SweepInv'
  <1>0. ~Fetching => asked = {}
    BY DEF TypeInv, PlaceInv
  <1>1. ASSUME prevPass' = 0, passStart' = 0, changed' = changed,
               known' \subseteq known
        PROVE  SweepInv'
    <2>1. \A e \in known' : ~(changed'[e] < 0)
      BY <1>1, EntryTypes DEF TypeInv, TypeOK
    <2>2. QED
      BY <1>1, <2>1 DEF SweepInv, FilterInv, VisitInv
  <1>2. CASE Crash \/ ReconcileAll
    BY <1>1, <1>2 DEF Crash, ReconcileAll, network
  <1>3. CASE FetchFails
    <2>1. /\ UNCHANGED <<entry, changed, known, pos, passStart, prevPass, view>>
          /\ missed' = missed \cup asked
      BY <1>3 DEF FetchFails, network, sweeper
    <2>2. QED
      BY <2>1, SweepUntouched
  <1>4. ASSUME UNCHANGED <<entry, changed, known, pos, passStart, prevPass, view,
                           missed>>,
               asked = {} \/ UNCHANGED <<asked, job>>
        PROVE  SweepInv'
    BY <1>4, SweepUntouched
  <1>5. CASE DeferLedger \/ ProcessLedger \/ NoSweep \/ Checkpoint \/ SkipCheckpoint
             \/ NextLedger \/ Boot
    <2>1. ~Fetching
      BY <1>5
      DEF DeferLedger, ProcessLedger, NoSweep, Checkpoint, SkipCheckpoint,
          NextLedger, Boot, Fetching
    <2>2. UNCHANGED <<entry, changed, known, pos, passStart, prevPass, view, missed>>
      BY <1>5
      DEF DeferLedger, ProcessLedger, NoSweep, Checkpoint, SkipCheckpoint,
          NextLedger, Boot, network, sweeper, bounds
    <2>3. QED
      BY <1>0, <1>4, <2>1, <2>2
  <1>6. CASE Query \/ Relearn
    BY <1>4, <1>6 DEF Query, Relearn, network, sweeper, bounds
  <1>7. CASE AwaitLedger \/ UNCHANGED vars
    BY <1>4, <1>7 DEF AwaitLedger, vars, network, sweeper, fetch, bounds
  <1>8. ASSUME NEW a \in Escrows, RefreshEscrow(a) PROVE SweepInv'
    BY <1>0, <1>4, <1>8
    DEF RefreshEscrow, Command, Fetching, network, sweeper
  <1>9. QED
    BY <1>2, <1>3, <1>5, <1>6, <1>7, <1>8, SweepAdvances, SweepPublished,
       SweepTracks, SweepRemoves, SweepOnChain
    DEF Next, Loop, Operator

(* What the filter rests on is right at every step.                        *)
SoundInv == EntryInv /\ ViewInv /\ FoundInv /\ SweepInv

LEMMA SoundAlways == ASSUME ShapesStay PROVE Spec => [](TypeInv /\ SoundInv)
  <1>1. Init => SoundInv
    BY EntryStarts, ViewStarts, FoundStarts, SweepStarts DEF SoundInv
  <1>2. TypeInv /\ SoundInv /\ [Next]_vars => SoundInv'
    BY EntryKept, ViewKept, FoundKept, SweepKept DEF SoundInv
  <1>3. QED
    BY <1>1, <1>2, TypeStarts, TypeKept, PTL DEF Spec

(* What the filter of the sweep leaves out the consumer has, for every     *)
(* number of escrows, batch size, failure, command and crash, as long as   *)
(* no escrow changes the kind of entry its state is in; with such a change *)
(* it is not so.                                                           *)
THEOREM FilterIsSound == ASSUME ShapesStay PROVE Spec => []FilterSound
  <1>1. SoundInv => FilterSound
    BY DEF SoundInv, SweepInv, FilterInv, FilterSound, Right
  <1>2. QED
    BY <1>1, SoundAlways, PTL

(* The rotation does its work: of what it has visited in the pass under    *)
(* way, or in the whole last pass when it is back at the start, the        *)
(* consumer is right about every escrow that has not changed since that    *)
(* pass began and was not passed over.  This is what Converges needs of    *)
(* each pass, beside the passes going on.                                  *)
THEOREM PassIsRight == ASSUME ShapesStay PROVE Spec => []VisitInv
  <1>1. SoundInv => VisitInv
    BY DEF SoundInv, SweepInv
  <1>2. QED
    BY <1>1, SoundAlways, PTL

-----------------------------------------------------------------------------
(* What the two refuted claims need                                        *)

(* Operators remove no escrow from the registry.                           *)
NoneRemoved == "remove" \notin Operations

(* Every id that is deferred or asked about is tracked, and none that is   *)
(* live was reported removed.                                              *)
TrackedInv == pending \cup asked \subseteq known
HonestInv  == \A e \in Escrows : ~Misled(e)

LEMMA TrackedKept ==
  ASSUME TypeInv, NoneRemoved, TrackedInv, [Next]_vars PROVE TrackedInv'
  <1>1. ASSUME NEW e \in Escrows PROVE ~RemoveEscrow(e)
    BY DEF RemoveEscrow, Command, NoneRemoved
  <1>2. CASE Chain
    BY <1>2 DEF Chain, LedgerCloses, EscrowMoves, fetch, TrackedInv
  <1>3. CASE ProcessLedger \/ DeferLedger
    BY <1>3
    DEF ProcessLedger, DeferLedger, Ask, DrainPending, ActiveEscrows, fetch, TrackedInv
  <1>4. CASE NextBatch
    BY <1>4 DEF NextBatch, Ask, Batch, Ahead, TrackedInv
  <1>5. ASSUME NEW e \in Escrows, TrackEscrow(e) \/ RefreshEscrow(e) PROVE TrackedInv'
    <2>1. known' = known \cup {e} \/ (e \in known /\ known' = known)
      BY <1>5 DEF TrackEscrow, RefreshEscrow
    <2>2. asked' = {e} /\ pending' = pending
      BY <1>5 DEF TrackEscrow, RefreshEscrow, Ask
    <2>3. QED
      BY <2>1, <2>2 DEF TrackedInv
  <1>6. CASE Crash \/ Publish \/ FetchFails
    BY <1>6 DEF Crash, Publish, FetchFails, AfterFetch, TrackedInv
  <1>7. CASE UNCHANGED <<known, pending, asked>>
    BY <1>7 DEF TrackedInv
  <1>8. QED
    BY <1>1, <1>2, <1>3, <1>4, <1>5, <1>6, <1>7
    DEF Next, Loop, Operator, Boot, AwaitLedger, NoSweep, Query, Relearn, Checkpoint,
        SkipCheckpoint, NextLedger, ReconcileAll, fetch, vars

LEMMA TrackedRemovals ==
  ASSUME AbsentInv, TrackedInv, pc = "publish", NEW e \in Removals
  PROVE  Truth(e) = Gone
  BY DEF AbsentInv, TrackedInv, Unanswered, Removals, Missing

LEMMA HonestKept ==
  ASSUME TypeInv, AbsentInv, TrackedInv, HonestInv, [Next]_vars PROVE HonestInv'
  <1>1. CASE Chain
    <2>1. view' = view
      BY <1>1 DEF Chain, LedgerCloses, EscrowMoves
    <2>2. QED
      BY <1>1, <2>1, GoneStays DEF HonestInv, Misled, Gone
  <1>2. CASE Publish
    <2> SUFFICES ASSUME NEW e \in Escrows, view'[e].key = "removed"
                 PROVE  Truth(e)' = Gone'
      BY DEF HonestInv, Misled
    <2>1. pc = "publish" /\ view'[e] = Received(e) /\ entry' = entry
      BY <1>2, PublishType DEF Publish, network
    <2>2. Truth(e)' = Truth(e) /\ Gone' = Gone
      BY <2>1 DEF Truth, Live, Gone
    <2>3. ASSUME NEW c \in Updates PROVE c.key # "removed"
      BY <2>3 DEF Updates, TypeInv, TypeOK, Keys
    <2>4. CASE Received(e) = view[e]
      BY <2>1, <2>2, <2>4 DEF HonestInv, Misled
    <2>5. CASE e \in Removals
      BY <2>1, <2>2, <2>5, TrackedRemovals
    <2>6. QED
      BY <2>1, <2>3, <2>4, <2>5, ReceivedCases
  <1>3. CASE UNCHANGED <<entry, view>>
    BY <1>3 DEF HonestInv, Misled, Truth, Live, Gone
  <1>4. QED
    BY <1>1, <1>2, <1>3
    DEF Next, Loop, Operator, Boot, DeferLedger, ProcessLedger, AwaitLedger,
        NextBatch, NoSweep, Query, Relearn, Checkpoint, SkipCheckpoint, NextLedger,
        TrackEscrow, RefreshEscrow, RemoveEscrow, ReconcileAll, FetchFails,
        Crash, network, vars

LEMMA HonestStarts == Init => TrackedInv /\ HonestInv
  BY DEF Init, TrackedInv, HonestInv, Misled

(* Where operators remove nothing, no live escrow is reported removed,     *)
(* with every move of the chain, failure, crash and other command: a false *)
(* removal takes an escrow that was removed while it was deferred.         *)
THEOREM OnlyRemovalsMislead == ASSUME NoneRemoved PROVE Spec => []NoFalseRemoval
  <1>1. AbsentInv /\ TrackedInv => NoFalseRemoval
    BY TrackedRemovals DEF NoFalseRemoval
  <1>2. TypeInv /\ TrackedInv /\ [Next]_vars => TrackedInv'
    BY TrackedKept
  <1>3. QED
    BY <1>1, <1>2, TypeStarts, TypeKept, AbsentStarts, AbsentKept, HonestStarts, PTL
    DEF Spec

(* No fetch fails, and no batch is large enough for the removal guard.     *)
NonePassedOver == Faults = {} /\ E < GuardMin

LEMMA MissedKept ==
  ASSUME TypeInv, NoneRemoved, NonePassedOver, missed = {}, [Next]_vars
  PROVE  missed' = {}
  <1>1. ASSUME NEW e \in Escrows PROVE ~RemoveEscrow(e)
    BY DEF RemoveEscrow, Command, NoneRemoved
  <1>2. ~FetchFails
    BY DEF FetchFails, NonePassedOver
  <1>3. ~Implausible
    <2>1. IsFiniteSet(1 .. E) /\ Cardinality(1 .. E) = E
      BY ReconcileAssumption, FS_Interval DEF ReconcileAssumption
    <2>2. asked \in SUBSET (1 .. E)
      BY DEF TypeInv, TypeOK, Escrows
    <2>3. Cardinality(asked) <= E /\ Cardinality(asked) \in Nat
      BY <2>1, <2>2, FS_Subset, FS_CardinalityType
    <2>4. QED
      BY <2>3, ReconcileAssumption DEF ReconcileAssumption, Implausible, NonePassedOver
  <1>4. CASE Publish
    <2>1. Removals = Missing
      BY <1>3 DEF Removals
    <2>2. QED
      BY <1>4, <2>1 DEF Publish
  <1>5. CASE Chain
    BY <1>5 DEF Chain, LedgerCloses, EscrowMoves, bounds
  <1>6. QED
    BY <1>1, <1>2, <1>4, <1>5
    DEF Next, Loop, Operator, Boot, DeferLedger, ProcessLedger, AwaitLedger,
        NextBatch, NoSweep, Query, Relearn, Checkpoint, SkipCheckpoint, NextLedger,
        TrackEscrow, RefreshEscrow, ReconcileAll, Crash, bounds, vars

(* Where moreover no fetch fails, no batch is large enough for the guard   *)
(* and no escrow changes its kind of entry, what was modified before the   *)
(* previous pass began was reported by it, for any number of crashes and   *)
(* with track, refresh and reconcile commands in between.                  *)
THEOREM FilterAlwaysRight ==
  ASSUME ShapesStay, NoneRemoved, NonePassedOver PROVE Spec => []FilterAlwaysSound
  <1> DEFINE ToldInv == AbsentInv /\ TrackedInv /\ HonestInv
  <1>1. TypeInv /\ SoundInv /\ ToldInv /\ missed = {} => FilterAlwaysSound
    BY DEF SoundInv, SweepInv, FilterInv, HonestInv, Right, FilterAlwaysSound,
           TypeInv, TypeOK
  <1>2. Init => ToldInv /\ missed = {}
    BY AbsentStarts, HonestStarts DEF Init
  <1>3. TypeInv /\ ToldInv /\ [Next]_vars => ToldInv'
    BY AbsentKept, TrackedKept, HonestKept
  <1>4. TypeInv /\ missed = {} /\ [Next]_vars => (missed = {})'
    BY MissedKept
  <1> HIDE DEF ToldInv
  <1>5. QED
    BY <1>1, <1>2, <1>3, <1>4, SoundAlways, PTL DEF Spec
=============================================================================
