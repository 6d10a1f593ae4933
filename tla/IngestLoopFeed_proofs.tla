------------------------ MODULE IngestLoopFeed_proofs ------------------------
(***************************************************************************)
(* The ingestion loop implements the ledger feed, for every instance.      *)
(***************************************************************************)
EXTENDS IngestLoopFeed, IngestLoop_proofs

(* The feed's view changes only with the files, the confirmed facts and    *)
(* the origin.                                                             *)
View == <<origin, cursor, watch, sent>>

LEMMA SameView == UNCHANGED View => UNCHANGED Feed!vars
<1> SUFFICES ASSUME UNCHANGED View PROVE UNCHANGED Feed!vars
  OBVIOUS
<1>1. UNCHANGED <<origin, cursor, watch, sent>>
  BY DEF View
<1>2. \A n \in Ledgers : Delivered(n, watch.gaps)' <=> Delivered(n, watch.gaps)
  BY <1>1 DEF Delivered, Owed
<1>3. DeliveredLedgers' = DeliveredLedgers
  BY <1>2 DEF DeliveredLedgers
<1>4. GapLedgers(watch.gaps)' = GapLedgers(watch.gaps)
  BY <1>1 DEF GapLedgers
<1>5. QED
  BY <1>1, <1>3, <1>4 DEF Feed!vars

(* More confirmed facts and more evidence are a report of the feed.        *)
LEMMA Reports ==
  ASSUME UNCHANGED <<origin, cursor>>, sent \subseteq sent',
         watch.gaps \subseteq watch'.gaps
  PROVE  Feed!Report
<1>1. GapLedgers(watch.gaps) \subseteq GapLedgers(watch'.gaps)
  BY GapLedgersMonotone
<1>2. \A n \in Ledgers : Owed(n, watch.gaps)' \subseteq Owed(n, watch.gaps)
  BY <1>1 DEF Owed
<1>3. \A n \in Ledgers : Delivered(n, watch.gaps) => Delivered(n, watch.gaps)'
  BY <1>2 DEF Delivered
<1>4. DeliveredLedgers \subseteq DeliveredLedgers'
  BY <1>3 DEF DeliveredLedgers
<1>5. /\ DeliveredLedgers' \in SUBSET Feed!Ledgers
      /\ GapLedgers(watch.gaps)' \in SUBSET Feed!Ledgers
  BY DEF DeliveredLedgers, GapLedgers, Feed!Ledgers, Ledgers
<1>6. QED
  BY <1>1, <1>4, <1>5 DEF Feed!Report, GapLedgers

(* A cursor save over accounted ledgers is a commit of the feed.           *)
LEMMA Commits ==
  ASSUME UNCHANGED <<origin, watch, sent>>, NoSilentLoss', cursor.seq \in Nat,
         cursor'.seq \in Nat, cursor.seq < cursor'.seq
  PROVE  Feed!Commit
<1>1. cursor'.seq # 0 /\ cursor' # NoCursor
  BY DEF NoCursor
<1>2. Accounted(cursor.seq, watch.gaps)'
  BY <1>1 DEF NoSilentLoss
<1>3. /\ \A n \in Ledgers : Delivered(n, watch.gaps)' <=> Delivered(n, watch.gaps)
      /\ GapLedgers(watch.gaps)' = GapLedgers(watch.gaps)
  BY DEF Delivered, Owed, GapLedgers
<1>4. Feed!Covered(cursor'.seq)
  BY <1>2, <1>3 DEF Accounted, Feed!Covered, DeliveredLedgers, Feed!Ledgers, Ledgers
<1>5. QED
  BY <1>3, <1>4 DEF Feed!Commit, DeliveredLedgers

(* Adopting an endpoint before the first save picks where the feed begins. *)
LEMMA Rebases ==
  ASSUME UNCHANGED <<cursor, watch, sent>>, cursor = NoCursor, origin' \in Nat
  PROVE  Feed!Rebase
<1>1. GapLedgers(watch.gaps)' = GapLedgers(watch.gaps)
  BY DEF GapLedgers
<1>2. DeliveredLedgers' \in SUBSET Feed!Ledgers
  BY DEF DeliveredLedgers, Feed!Ledgers, Ledgers
<1>3. QED
  BY <1>1, <1>2 DEF Feed!Rebase, NoCursor

(* The loop's durable cursor, its gap records and its confirmed messages   *)
(* behave, through every crash, restart and rotation, as a feed that is    *)
(* complete up to its position but for the ledgers it declares lost        *)
(* (ingest.go, Ingest).                                                    *)
THEOREM FeedImplemented == Spec => ImplementsFeed
<1>1. Init => Feed!Init
  BY DEF Init, Feed!Init, NoCursor, EmptyWatch, GapLedgers, DeliveredLedgers,
         Feed!Ledgers, Ledgers
<1>2. IInv /\ [Next]_vars => [Feed!Next]_Feed!vars
  <2> SUFFICES ASSUME IInv, [Next]_vars, ~UNCHANGED View PROVE Feed!Next
    BY SameView
  <2>a. TypeOK /\ TypeOK' /\ MemoryInv /\ DiskInv'
    BY TypeStep, DiskStep DEF IInv
  <2>b. cursor.seq \in Nat /\ cursor'.seq \in Nat /\ cur \in Nat /\ origin' \in Nat
    BY <2>a DEF TypeOK
  <2>1. CASE SaveClampWatch \/ SaveWatch
    <3>1. /\ UNCHANGED <<origin, cursor, sent>> /\ watch'.gaps = gaps
          /\ pc \in Alive
      BY <2>1 DEF SaveClampWatch, SaveWatch, broker, SnapshotWatch, Alive,
                  Placed, Running
    <3>2. watch.gaps \subseteq watch'.gaps
      BY <2>a, <3>1 DEF MemoryInv
    <3>3. QED
      BY <3>1, <3>2, Reports DEF Feed!Next
  <2>2. CASE PublishFact
    BY <2>2, Reports DEF PublishFact, disk, Feed!Next
  <2>3. CASE SaveClampCursor \/ SaveCursor
    <3>1. cursor.seq < cursor'.seq
      BY <2>3, <2>a, <2>b DEF SaveClampCursor, SaveCursor, MemoryInv, Placed, Running
    <3>2. UNCHANGED <<origin, watch, sent>>
      BY <2>3 DEF SaveClampCursor, SaveCursor, broker
    <3>3. QED
      BY <2>a, <2>b, <3>1, <3>2, Commits DEF DiskInv, Feed!Next
  <2>4. CASE AdoptEndpoint \/ ClampToEndpoint
    <3>1. /\ UNCHANGED <<cursor, watch, sent>>
          /\ origin' = origin \/ cursor = NoCursor
      BY <2>4 DEF AdoptEndpoint, ClampToEndpoint, StartAt, disk, broker
    <3>2. cursor = NoCursor
      BY <3>1 DEF View
    <3>3. QED
      BY <2>b, <3>1, <3>2, Rebases DEF Feed!Next
  <2>5. QED
    BY <2>1, <2>2, <2>3, <2>4
       DEF Next, vars, View, Boot, RejectEndpoint, PublishGap, GapsPublished,
           GiveUpEndpoint, ProcessLedger, Diverge, SkipCheckpoint, Crash,
           LedgerCloses, disk, broker
<1>3. QED
  BY <1>1, <1>2, Inductive, PTL DEF Spec, ImplementsFeed, Feed!Spec
=============================================================================
