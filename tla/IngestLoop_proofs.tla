-------------------------- MODULE IngestLoop_proofs --------------------------
(***************************************************************************)
(* Proofs about the ingestion loop, for every number of endpoints, every   *)
(* retention, every chain and every number of crashes.                     *)
(***************************************************************************)
EXTENDS IngestLoop, TLAPS

-----------------------------------------------------------------------------
(* The inductive invariant.  The disk invariants alone are not inductive:  *)
(* a save copies the memory to the disk, so they need what the memory of a *)
(* process holds at each of its steps.                                     *)

(* Connected, or reconnecting, with a start ledger that was resolved.      *)
Placed == {"rotate", "clampWatch", "clampCursor"} \cup Running
Alive  == Placed \cup {"connect"}

(* What a restart finds.                                                   *)
DiskInv ==
  /\ NoSilentLoss
  /\ RegistryCoversCursor
  /\ watch # EmptyWatch => Seed \subseteq watch.escrows
  /\ cursor.seq = 0 => cursor = NoCursor

(* What the memory of a live process knows about the disk.                 *)
MemoryInv ==
  /\ pc \in Alive =>
       /\ Seed \subseteq known /\ watch.escrows \subseteq known
       /\ watch.gaps \subseteq gaps
       /\ pc # "clampWatch" => gaps = watch.gaps
  /\ pc = "connect" =>
       /\ cursor # NoCursor => cur = cursor.seq + 1
       /\ last = cursor.hash
  /\ pc \in Placed =>
       /\ cur >= 1 /\ cursor.seq < cur
       /\ EndLedger = 0 \/ cur <= EndLedger
  /\ pc = "done" => EndLedger # 0 /\ cursor.seq = EndLedger
  /\ pc \in {"clampCursor", "saveCursor"} => watch = SnapshotWatch
  /\ pc \in {"clampWatch", "clampCursor"} => cursor.seq + 1 < cur
  /\ pc \in {"facts", "saveCursor"} => cur \in Ledgers

(* What it has done about the ledgers behind it, and about the current one.*)
LedgerInv ==
  /\ pc \in Placed =>
       /\ Accounted(cur - 1, gaps)
       /\ \A d \in Ledgers : origin <= d /\ d < cur =>
            d \in GapLedgers(gaps) \/ Deploys[d] \subseteq known
  /\ pc \in {"facts", "saveCursor"} => Deploys[cur] \subseteq known
  /\ pc = "facts" =>
       \A e \in Owed(cur, gaps) :
         \E f \in sent \cup todo : f.ledger = cur /\ f.escrow = e
  /\ pc = "saveCursor" => Delivered(cur, gaps)

(* What it has told the broker about the gaps.                             *)
SignalInv ==
  /\ pc = "gaps" => todo \subseteq gaps /\ gaps \ todo \subseteq announced
  /\ pc \in Running \ {"gaps"} => gaps \subseteq announced

(* Its hash anchors, while the durable cursor carries a hash.              *)
ChainInv ==
  cursor.hash # NoHash =>
    /\ cursor.hash.chain # NoChain
    /\ pc \in Placed \ {"clampWatch", "clampCursor", "facts", "saveCursor"}
         => last.chain = cursor.hash.chain
    /\ pc \in {"gaps", "fetch"}
         => anchor = last \/ ChainOf[idx] = cursor.hash.chain
    /\ pc \in {"facts", "saveCursor"} => ChainOf[idx] = cursor.hash.chain

(* Its checkpoint counter.                                                 *)
WindowInv ==
  /\ pc \in Placed => ckpt < cur
  /\ pc \in {"rotate"} \cup Running /\ cursor # NoCursor =>
       /\ ckpt <= cursor.seq
       /\ cur - ckpt <= CheckpointInterval \/ cur = cursor.seq + 1

IInv == TypeOK /\ DiskInv /\ MemoryInv /\ LedgerInv /\ SignalInv /\ ChainInv
               /\ WindowInv

-----------------------------------------------------------------------------
(* Type correctness                                                        *)

(* The window of the endpoint in use never starts below the first ledger,  *)
(* its oldest ledger has closed, and an unset start is resolved to a       *)
(* ledger (failover.go, "Resolved here, per endpoint").                    *)
LEMMA WindowRange ==
  TypeOK => /\ Oldest(idx) \in Ledgers /\ Oldest(idx) <= head[idx]
            /\ From \in Nat \ {0}
  BY ConstantsAssumption DEF Oldest, From, TypeOK, Ledgers

(* A ledger an endpoint serves is one that has closed.                     *)
LEMMA ServedRange == TypeOK /\ Served => cur \in Ledgers
<1> SUFFICES ASSUME TypeOK, Served PROVE cur \in Ledgers
  OBVIOUS
<1>1. head[idx] \in Ledgers /\ cur \in Nat
  BY DEF TypeOK
<1>2. QED
  BY <1>1, WindowRange, ConstantsAssumption DEF Served, Ledgers

(* The ring of endpoints is closed under its successor.                    *)
LEMMA RingRange ==
  \A i \in Endpoints : i + 1 \in Nat /\ NextEndpoint(i) \in Endpoints
  BY ConstantsAssumption DEF Endpoints, NextEndpoint

(* Every step keeps every variable's type.                                 *)
LEMMA TypeStep == TypeOK /\ [Next]_vars => TypeOK'
<1> SUFFICES ASSUME TypeOK, [Next]_vars PROVE TypeOK'
  OBVIOUS
<1>a. /\ Oldest(idx) \in Nat \ {0} /\ From \in Nat \ {0}
      /\ Served => cur \in Ledgers
  BY WindowRange, ServedRange, ConstantsAssumption DEF Ledgers
<1> USE ConstantsAssumption DEF TypeOK, Running, Exit, NoHash, Hash, disk, broker, conn, chain
<1>1. CASE Boot
  BY <1>1 DEF Boot, RestoredRegistry, Endpoints
<1>2. CASE RejectEndpoint
  <2>1. /\ pc \in {"connect", "rotate"} /\ N \in Nat \ {0} /\ tries \in Nat
        /\ NextEndpoint(idx) \in Endpoints /\ 0 \in Endpoints
    <3>1. N \in Nat \ {0} /\ tries \in Nat /\ 0 \in Endpoints
      BY DEF Endpoints
    <3>2. NextEndpoint(idx) \in Endpoints
      BY RingRange
    <3>3. pc \in {"connect", "rotate"}
      BY <1>2 DEF RejectEndpoint, Connecting
    <3>4. QED
      BY <3>1, <3>2, <3>3
  <2>2. CASE tries + 1 < N
    <3>1. tries' \in Endpoints /\ idx' \in Endpoints
      BY <1>2, <2>1, <2>2 DEF RejectEndpoint, Endpoints
    <3>2. UNCHANGED <<head, disk, broker, pc, exit, cur, gaps, known, chain,
                      ckpt, todo, origin, crashes>>
      BY <1>2, <2>2 DEF RejectEndpoint
    <3>3. QED
      BY <3>1, <3>2
  <2>3. CASE ~(tries + 1 < N)
    <3>1. Exit("exhausted") /\ UNCHANGED <<head, disk, broker, origin, crashes>>
      BY <1>2, <2>3 DEF RejectEndpoint
    <3>2. QED
      BY <3>1, <2>1
  <2>4. QED
    BY <2>2, <2>3
<1>3. CASE AdoptEndpoint
  BY <1>3, <1>a DEF AdoptEndpoint, Acceptable, Connecting, StartAt, Endpoints
<1>4. CASE ClampToEndpoint
  <2> DEFINE o == Oldest(idx)
  <2>1. o \in Nat \ {0} /\ From \in Nat
    BY <1>a
  <2>2. /\ cur' = o /\ tries' = 0 /\ anchor' = NoHash /\ pc' = "clampWatch"
        /\ ckpt' \in {o - 1, ckpt} /\ origin' \in {From, origin}
        /\ gaps' = gaps \cup {[from |-> From, to |-> o - 1]}
        /\ last' \in {NoHash, last}
        /\ pc # "facts"
    BY <1>4 DEF ClampToEndpoint, Acceptable, Connecting, StartAt
  <2>3. UNCHANGED <<head, disk, broker, exit, known, idx, todo, crashes>>
    BY <1>4 DEF ClampToEndpoint
  <2>4. gaps' \subseteq Gap
    BY <2>1, <2>2 DEF Gap
  <2> HIDE DEF o
  <2>5. cur' \in Nat \ {0} /\ ckpt' \in Nat /\ origin' \in Nat /\ tries' \in Endpoints
    BY <2>1, <2>2 DEF Endpoints
  <2>6. QED
    BY <2>2, <2>3, <2>4, <2>5
<1>5. CASE SaveClampWatch
  BY <1>5 DEF SaveClampWatch, SnapshotWatch
<1>6. CASE SaveClampCursor
  BY <1>6 DEF SaveClampCursor
<1>7. CASE PublishGap
  BY <1>7 DEF PublishGap
<1>8. CASE GapsPublished
  BY <1>8 DEF GapsPublished
<1>9. CASE GiveUpEndpoint
  <2>1. /\ pc' = "rotate" /\ pc # "facts"
        /\ idx' \in Endpoints /\ tries' \in Endpoints
    BY <1>9, RingRange DEF GiveUpEndpoint, Endpoints
  <2>2. UNCHANGED <<head, disk, broker, exit, cur, gaps, known, chain, ckpt,
                    todo, origin, crashes>>
    BY <1>9 DEF GiveUpEndpoint
  <2>3. QED
    BY <2>1, <2>2
<1>10. CASE ProcessLedger
  <2>1. Deploys[cur] \subseteq Escrows /\ Events[cur] \subseteq Escrows /\ cur \in Ledgers
    BY <1>10, <1>a DEF ProcessLedger
  <2>2. DetectedFacts(cur, known \cup Deploys[cur]) \subseteq Fact
    BY <2>1 DEF DetectedFacts, Fact
  <2>3. QED
    BY <1>10, <2>1, <2>2 DEF ProcessLedger
<1>11. CASE Diverge
  BY <1>11 DEF Diverge, Endpoints
<1>12. CASE PublishFact
  BY <1>12 DEF PublishFact
<1>13. CASE SkipCheckpoint
  BY <1>13 DEF SkipCheckpoint, NextLedger, LoopHead, LedgerHash
<1>14. CASE SaveWatch
  BY <1>14 DEF SaveWatch, SnapshotWatch
<1>15. CASE SaveCursor
  BY <1>15 DEF SaveCursor, NextLedger, LoopHead, LedgerHash
<1>16. CASE Crash
  BY <1>16 DEF Crash, Endpoints
<1>17. ASSUME NEW i \in Endpoints, LedgerCloses(i) PROVE TypeOK'
  BY <1>17 DEF LedgerCloses, Ledgers
<1>18. CASE UNCHANGED vars
  BY <1>18 DEF vars
<1>19. QED
  BY <1>1, <1>2, <1>3, <1>4, <1>5, <1>6, <1>7, <1>8, <1>9, <1>10, <1>11,
     <1>12, <1>13, <1>14, <1>15, <1>16, <1>17, <1>18 DEF Next

(* Every variable keeps its type (IngestLoop, whole state).                *)
THEOREM TypeCorrect == Spec => []TypeOK
<1>1. Init => TypeOK
  BY ConstantsAssumption
     DEF Init, TypeOK, NoCursor, EmptyWatch, NoHash, Hash, Endpoints, Running
<1>2. QED
  BY <1>1, TypeStep, PTL DEF Spec

-----------------------------------------------------------------------------
(* Monotonicity of the safety operators                                    *)

LEMMA GapLedgersMonotone ==
  ASSUME NEW G, NEW H, G \subseteq H
  PROVE  GapLedgers(G) \subseteq GapLedgers(H)
  BY DEF GapLedgers

(* More evidence of loss excuses more: it never turns an accounted prefix  *)
(* into one with a hole.                                                   *)
LEMMA AccountedMonotone ==
  ASSUME NEW b, NEW G, NEW H, G \subseteq H, Accounted(b, G)
  PROVE  Accounted(b, H)
<1>1. GapLedgers(G) \subseteq GapLedgers(H)
  BY GapLedgersMonotone
<1>2. \A n \in Ledgers : Owed(n, H) \subseteq Owed(n, G)
  BY <1>1 DEF Owed
<1>3. QED
  BY <1>1, <1>2 DEF Accounted, Delivered

(* A step that confirms facts and keeps the origin keeps what was          *)
(* accounted for.                                                          *)
LEMMA AccountedStable ==
  ASSUME sent \subseteq sent', origin' = origin, NEW b, NEW G, Accounted(b, G)
  PROVE  Accounted(b, G)'
<1>1. \A n \in Ledgers : Owed(n, G)' = Owed(n, G)
  BY DEF Owed
<1>2. \A n \in Ledgers : Delivered(n, G) => Delivered(n, G)'
  BY <1>1 DEF Delivered
<1>3. QED
  BY <1>2 DEF Accounted

-----------------------------------------------------------------------------
(* What a restart finds is preserved by every step.                        *)

LEMMA DiskStep == IInv /\ [Next]_vars => DiskInv'
<1> SUFFICES ASSUME IInv, [Next]_vars PROVE DiskInv'
  OBVIOUS
<1>a. TypeOK /\ DiskInv /\ MemoryInv /\ LedgerInv
  BY DEF IInv
<1>b. ASSUME UNCHANGED disk, sent \subseteq sent',
             cursor # NoCursor => origin' = origin
      PROVE  DiskInv'
  <2>1. cursor' = cursor /\ watch' = watch
    BY <1>b DEF disk
  <2>2. NoSilentLoss'
    BY <1>a, <1>b, <2>1, AccountedStable DEF DiskInv, NoSilentLoss
  <2>3. RegistryCoversCursor'
    BY <1>a, <1>b, <2>1 DEF DiskInv, RegistryCoversCursor
  <2>4. QED
    BY <1>a, <2>1, <2>2, <2>3 DEF DiskInv
<1>c. ASSUME watch' = SnapshotWatch, UNCHANGED <<cursor, sent, origin>>,
             pc \in Alive
      PROVE  DiskInv'
  <2>1. /\ watch'.escrows = known /\ watch'.gaps = gaps
        /\ watch.escrows \subseteq known /\ watch.gaps \subseteq gaps
        /\ Seed \subseteq known
    BY <1>a, <1>c DEF MemoryInv, SnapshotWatch
  <2>2. GapLedgers(watch.gaps) \subseteq GapLedgers(gaps)
    BY <2>1, GapLedgersMonotone
  <2>3. NoSilentLoss'
    <3>1. cursor # NoCursor => Accounted(cursor.seq, gaps)
      BY <1>a, <2>1, AccountedMonotone DEF DiskInv, NoSilentLoss
    <3>2. QED
      BY <1>c, <2>1, <3>1, AccountedStable DEF NoSilentLoss
  <2>4. RegistryCoversCursor'
    BY <1>a, <1>c, <2>1, <2>2 DEF DiskInv, RegistryCoversCursor
  <2>5. QED
    BY <1>a, <1>c, <2>1, <2>3, <2>4 DEF DiskInv
<1>1. CASE Boot
  BY <1>1, <1>b DEF Boot, broker
<1>2. CASE RejectEndpoint
  BY <1>2, <1>b DEF RejectEndpoint, broker
<1>3. CASE AdoptEndpoint
  BY <1>3, <1>b DEF AdoptEndpoint, StartAt, broker
<1>4. CASE ClampToEndpoint
  BY <1>4, <1>b DEF ClampToEndpoint, StartAt, broker
<1>5. CASE SaveClampWatch
  BY <1>5, <1>c DEF SaveClampWatch, broker, Alive, Placed
<1>6. CASE SaveClampCursor
  <2>1. /\ cursor'.seq = cur - 1 /\ cursor'.hash = NoHash
        /\ UNCHANGED <<watch, sent, origin>>
        /\ watch.escrows = known /\ watch.gaps = gaps
        /\ pc \in Placed
    BY <1>6, <1>a DEF SaveClampCursor, broker, MemoryInv, SnapshotWatch, Placed
  <2>2. cursor'.seq # 0 /\ Seed \subseteq watch.escrows
    BY <1>6, <1>a, <2>1 DEF SaveClampCursor, MemoryInv, Alive, TypeOK
  <2>3. NoSilentLoss'
    BY <1>a, <2>1, AccountedStable DEF LedgerInv, NoSilentLoss
  <2>4. RegistryCoversCursor'
    <3>1. cur \in Nat /\ \A d \in Ledgers : d <= cur - 1 => d < cur
      BY <1>a DEF TypeOK, Ledgers
    <3>2. QED
      BY <1>a, <2>1, <2>2, <3>1 DEF LedgerInv, RegistryCoversCursor
  <2>5. QED
    BY <2>1, <2>2, <2>3, <2>4 DEF DiskInv
<1>7. CASE PublishGap
  BY <1>7, <1>b DEF PublishGap
<1>8. CASE GapsPublished
  BY <1>8, <1>b DEF GapsPublished, broker
<1>9. CASE GiveUpEndpoint
  BY <1>9, <1>b DEF GiveUpEndpoint, broker
<1>10. CASE ProcessLedger
  BY <1>10, <1>b DEF ProcessLedger, broker
<1>11. CASE Diverge
  BY <1>11, <1>b DEF Diverge, broker
<1>12. CASE PublishFact
  BY <1>12, <1>b DEF PublishFact
<1>13. CASE SkipCheckpoint
  BY <1>13, <1>b DEF SkipCheckpoint, broker
<1>14. CASE SaveWatch
  BY <1>14, <1>c DEF SaveWatch, broker, Alive, Placed, Running
<1>15. CASE SaveCursor
  <2>1. /\ cursor'.seq = cur
        /\ UNCHANGED <<watch, sent, origin>>
        /\ watch.escrows = known /\ watch.gaps = gaps
        /\ pc \in Placed /\ pc = "saveCursor" /\ cur \in Ledgers
    BY <1>15, <1>a DEF SaveCursor, broker, MemoryInv, SnapshotWatch, Placed, Running
  <2>2. cursor'.seq # 0 /\ Seed \subseteq watch.escrows
    BY <1>a, <2>1 DEF MemoryInv, Alive, Ledgers
  <2>3. Accounted(cur, gaps)
    BY <1>a, <2>1 DEF LedgerInv, Accounted, Ledgers
  <2>4. NoSilentLoss'
    BY <2>1, <2>3, AccountedStable DEF NoSilentLoss
  <2>5. RegistryCoversCursor'
    BY <1>a, <2>1, <2>2 DEF LedgerInv, RegistryCoversCursor, Ledgers
  <2>6. QED
    BY <2>1, <2>2, <2>4, <2>5 DEF DiskInv
<1>16. CASE Crash
  BY <1>16, <1>b DEF Crash, broker
<1>17. ASSUME NEW i \in Endpoints, LedgerCloses(i) PROVE DiskInv'
  BY <1>17, <1>b DEF LedgerCloses, broker
<1>18. CASE UNCHANGED vars
  BY <1>18, <1>b DEF vars, disk
<1>19. QED
  BY <1>1, <1>2, <1>3, <1>4, <1>5, <1>6, <1>7, <1>8, <1>9, <1>10, <1>11,
     <1>12, <1>13, <1>14, <1>15, <1>16, <1>17, <1>18 DEF Next

-----------------------------------------------------------------------------
(* What the memory knows about the disk is preserved by every step.        *)

LEMMA MemoryStep == IInv /\ [Next]_vars => MemoryInv'
<1> SUFFICES ASSUME IInv, [Next]_vars PROVE MemoryInv'
  OBVIOUS
<1>a. TypeOK /\ DiskInv /\ MemoryInv
  BY DEF IInv
<1> USE DEF MemoryInv, Alive, Placed, Running
<1>0. ASSUME pc' = "down" PROVE MemoryInv'
  BY <1>0
<1>1. CASE Boot
  <2>1. /\ pc' = "connect" /\ UNCHANGED disk /\ gaps' = watch.gaps
        /\ last' = cursor.hash
        /\ cursor # NoCursor => cur' = cursor.seq + 1
    BY <1>1 DEF Boot
  <2>2. Seed \subseteq known' /\ watch.escrows \subseteq known'
    <3>1. CASE cursor = NoCursor /\ watch = EmptyWatch
      BY <1>1, <3>1 DEF Boot, RestoredRegistry, EmptyWatch
    <3>2. CASE ~(cursor = NoCursor /\ watch = EmptyWatch)
      BY <1>1, <3>2, <1>a
         DEF Boot, RestoredRegistry, DiskInv, RegistryCoversCursor
    <3>3. QED
      BY <3>1, <3>2
  <2>3. QED
    BY <2>1, <2>2 DEF disk
<1>2. CASE RejectEndpoint
  BY <1>2, <1>0, <1>a DEF RejectEndpoint, Connecting, Exit, disk, chain
<1>3. CASE AdoptEndpoint
  <2>1. /\ pc \in {"connect", "rotate"} /\ pc' = "gaps"
        /\ UNCHANGED <<cursor, watch, gaps, known>>
        /\ cur' = From /\ (EndLedger = 0 \/ cur' <= EndLedger)
    BY <1>3 DEF AdoptEndpoint, Acceptable, Connecting, StartAt, disk
  <2>2. From \in Nat \ {0} /\ (cur # 0 => From = cur) /\ cur \in Nat
    BY <1>a, WindowRange DEF From, TypeOK
  <2>3. cursor.seq \in Nat /\ (cursor = NoCursor => cursor.seq = 0)
    BY <1>a DEF TypeOK, NoCursor
  <2>4. cursor.seq < cur'
    BY <1>a, <2>1, <2>2, <2>3
  <2>5. QED
    BY <1>a, <2>1, <2>2, <2>4
<1>4. CASE ClampToEndpoint
  <2>1. /\ pc \in {"connect", "rotate"} /\ pc' = "clampWatch"
        /\ UNCHANGED <<cursor, watch, known>> /\ gaps \subseteq gaps'
        /\ cur' = Oldest(idx) /\ From < Oldest(idx)
        /\ (EndLedger = 0 \/ cur' <= EndLedger)
    BY <1>4 DEF ClampToEndpoint, Acceptable, Connecting, StartAt, disk
  <2>2. /\ From \in Nat \ {0} /\ (cur # 0 => From = cur) /\ cur \in Nat
        /\ Oldest(idx) \in Nat
    BY <1>a, WindowRange DEF From, TypeOK, Ledgers
  <2>3. cursor.seq \in Nat /\ (cursor = NoCursor => cursor.seq = 0)
    BY <1>a DEF TypeOK, NoCursor
  <2>4. cursor.seq < From
    BY <1>a, <2>1, <2>2, <2>3
  <2>5. cursor.seq + 1 < cur'
    BY <2>1, <2>2, <2>3, <2>4
  <2>6. QED
    BY <1>a, <2>1, <2>2, <2>3, <2>5
<1>5. CASE SaveClampWatch
  BY <1>5, <1>a DEF SaveClampWatch, SnapshotWatch
<1>6. CASE SaveClampCursor
  <2>1. cur \in Nat /\ cursor'.seq = cur - 1
    BY <1>6, <1>a DEF SaveClampCursor, TypeOK
  <2>2. QED
    BY <1>6, <1>a, <2>1 DEF SaveClampCursor
<1>7. CASE PublishGap
  BY <1>7, <1>a DEF PublishGap, disk
<1>8. CASE GapsPublished
  BY <1>8, <1>a DEF GapsPublished, disk
<1>9. CASE GiveUpEndpoint
  BY <1>9, <1>a DEF GiveUpEndpoint, disk
<1>10. CASE ProcessLedger
  BY <1>10, <1>a, ServedRange DEF ProcessLedger, disk
<1>11. CASE Diverge
  BY <1>11, <1>0 DEF Diverge, Exit
<1>12. CASE PublishFact
  BY <1>12, <1>a DEF PublishFact, disk, SnapshotWatch
<1>13. CASE SkipCheckpoint
  <2>1. cur \in Nat /\ cursor.seq \in Nat
    BY <1>a DEF TypeOK
  <2>2. EndLedger = 0 \/ cur # EndLedger
    BY <1>13 DEF SkipCheckpoint, ShouldCheckpoint
  <2>3. pc' = "fetch" /\ (EndLedger = 0 \/ cur + 1 <= EndLedger)
    BY <1>13, <1>a, <2>1, <2>2, ConstantsAssumption
       DEF SkipCheckpoint, NextLedger, LoopHead
  <2>4. QED
    BY <1>13, <1>a, <2>1, <2>3 DEF SkipCheckpoint, NextLedger, disk
<1>14. CASE SaveWatch
  BY <1>14, <1>a DEF SaveWatch, SnapshotWatch
<1>15. CASE SaveCursor
  <2>1. cur \in Nat /\ cursor'.seq = cur /\ cur' = cur + 1
    BY <1>15, <1>a DEF SaveCursor, NextLedger, TypeOK
  <2>2. /\ pc' \in {"fetch", "done"}
        /\ pc' = "fetch" => EndLedger = 0 \/ cur' <= EndLedger
        /\ pc' = "done" => EndLedger # 0 /\ cur = EndLedger
    BY <1>15, <1>a, <2>1, ConstantsAssumption DEF SaveCursor, NextLedger, LoopHead
  <2>3. QED
    BY <1>15, <1>a, <2>1, <2>2 DEF SaveCursor
<1>16. CASE Crash
  BY <1>16, <1>0 DEF Crash, Exit
<1>17. ASSUME NEW i \in Endpoints, LedgerCloses(i) PROVE MemoryInv'
  BY <1>17, <1>a DEF LedgerCloses, disk, conn, chain, SnapshotWatch
<1>18. CASE UNCHANGED vars
  BY <1>18, <1>a DEF vars, SnapshotWatch
<1>19. QED
  BY <1>1, <1>2, <1>3, <1>4, <1>5, <1>6, <1>7, <1>8, <1>9, <1>10, <1>11,
     <1>12, <1>13, <1>14, <1>15, <1>16, <1>17, <1>18 DEF Next

-----------------------------------------------------------------------------
(* What was done about the ledgers behind is preserved by every step.      *)

(* The two statements about the ledgers below b, for given evidence and    *)
(* registry.                                                               *)
Done(b, G, K) ==
  /\ Accounted(b - 1, G)
  /\ \A d \in Ledgers : origin <= d /\ d < b =>
       d \in GapLedgers(G) \/ Deploys[d] \subseteq K

LEMMA LedgerStep == IInv /\ [Next]_vars => LedgerInv'
<1> SUFFICES ASSUME IInv, [Next]_vars PROVE LedgerInv'
  OBVIOUS
<1>a. TypeOK /\ DiskInv /\ MemoryInv /\ LedgerInv
  BY DEF IInv
<1>0. cur \in Nat /\ cursor.seq \in Nat /\ From \in Nat \ {0}
      /\ Oldest(idx) \in Ledgers /\ (cur # 0 => From = cur)
  BY <1>a, WindowRange DEF TypeOK, From
<1>b. pc \in Placed => Done(cur, gaps, known)
  BY <1>a DEF LedgerInv, Done
<1>c. pc = "connect" /\ cursor # NoCursor => Done(cur, gaps, known)
  <2> HAVE pc = "connect" /\ cursor # NoCursor
  <2>1. cur - 1 = cursor.seq /\ gaps = watch.gaps /\ watch.escrows \subseteq known
    BY <1>a, <1>0 DEF MemoryInv, Alive
  <2>2. \A d \in Ledgers : d < cur => d <= cursor.seq
    BY <1>0, <2>1 DEF Ledgers
  <2>3. QED
    BY <1>a, <2>1, <2>2 DEF DiskInv, NoSilentLoss, RegistryCoversCursor, Done
<1>d. ASSUME UNCHANGED <<origin, cur, gaps, known>>, sent \subseteq sent',
             Done(cur, gaps, known)
      PROVE  Done(cur, gaps, known)'
  <2>1. Accounted(cur - 1, gaps)'
    BY <1>d, AccountedStable DEF Done
  <2>2. QED
    BY <1>d, <2>1 DEF Done
<1>e. ASSUME UNCHANGED origin, sent \subseteq sent', NEW b, NEW G,
             Delivered(b, G)
      PROVE  Delivered(b, G)'
  BY <1>e DEF Delivered, Owed
<1> USE DEF Placed, Running
<1>1. CASE Boot
  BY <1>1 DEF Boot, LedgerInv
<1>2. CASE RejectEndpoint
  <2>1. CASE pc' = pc
    <3>1. UNCHANGED <<origin, cur, gaps, known, sent>> /\ pc \in {"connect", "rotate"}
      BY <1>2, <2>1 DEF RejectEndpoint, Connecting, Exit, broker
    <3>2. QED
      BY <2>1, <3>1, <1>b, <1>d DEF LedgerInv, Done
  <2>2. CASE pc' = "down"
    BY <2>2 DEF LedgerInv
  <2>3. QED
    BY <1>2, <2>1, <2>2 DEF RejectEndpoint, Exit
<1>3. CASE AdoptEndpoint
  <2>1. /\ pc \in {"connect", "rotate"} /\ pc' = "gaps" /\ cur' = From
        /\ UNCHANGED <<sent, gaps, known>>
        /\ origin' = IF pc = "connect" /\ cursor = NoCursor THEN From ELSE origin
    BY <1>3 DEF AdoptEndpoint, Acceptable, Connecting, StartAt, broker
  <2>2. CASE pc = "connect" /\ cursor = NoCursor
    <3>1. /\ \A n \in Ledgers : ~(origin' <= n /\ n <= cur' - 1)
          /\ \A n \in Ledgers : ~(origin' <= n /\ n < cur')
      BY <1>0, <2>1, <2>2 DEF Ledgers
    <3>2. QED
      BY <2>1, <3>1 DEF LedgerInv, Accounted
  <2>3. CASE ~(pc = "connect" /\ cursor = NoCursor)
    <3>1. cur' = cur
      BY <1>0, <1>a, <2>1, <2>3 DEF MemoryInv
    <3>2. Done(cur, gaps, known)
      BY <1>b, <1>c, <2>1, <2>3
    <3>3. QED
      BY <1>d, <2>1, <2>3, <3>1, <3>2 DEF LedgerInv, Done
  <2>4. QED
    BY <2>2, <2>3
<1>4. CASE ClampToEndpoint
  <2>a. PICK H, o, f : H = gaps' /\ o = Oldest(idx) /\ f = From
    OBVIOUS
  <2>1. /\ pc \in {"connect", "rotate"} /\ pc' = "clampWatch" /\ cur' = o
        /\ UNCHANGED <<sent, known>> /\ f < o
        /\ H = gaps \cup {[from |-> f, to |-> o - 1]}
        /\ origin' = IF pc = "connect" /\ cursor = NoCursor THEN f ELSE origin
    BY <1>4, <2>a DEF ClampToEndpoint, Acceptable, Connecting, StartAt, broker
  <2>2. o \in Ledgers /\ f \in Nat \ {0} /\ (cur # 0 => f = cur)
    BY <1>0, <2>a
  <2>3. \A n \in Ledgers : f <= n /\ n < o => n \in GapLedgers(H)
    <3> DEFINE g == [from |-> f, to |-> o - 1]
    <3>1. g \in H /\ g.from = f /\ g.to = o - 1
      BY <2>1
    <3>2. \A n \in Ledgers : n < o => n <= o - 1
      BY <2>2 DEF Ledgers
    <3>3. QED
      BY <3>1, <3>2 DEF GapLedgers
  <2>4. /\ Accounted(f - 1, H)'
        /\ \A n \in Ledgers : origin' <= n /\ n < f =>
             n \in GapLedgers(H) \/ Deploys[n] \subseteq known
    <3>1. CASE pc = "connect" /\ cursor = NoCursor
      <4>1. \A n \in Ledgers : ~(origin' <= n /\ n <= f - 1) /\ ~(origin' <= n /\ n < f)
        BY <2>1, <2>2, <3>1 DEF Ledgers
      <4>2. QED
        BY <4>1 DEF Accounted
    <3>2. CASE ~(pc = "connect" /\ cursor = NoCursor)
      <4>1. f = cur /\ Done(cur, gaps, known) /\ origin' = origin
        BY <1>0, <1>a, <1>b, <1>c, <2>1, <2>2, <3>2 DEF MemoryInv
      <4>2. gaps \subseteq H /\ GapLedgers(gaps) \subseteq GapLedgers(H)
        BY <2>1, GapLedgersMonotone
      <4>3. Accounted(f - 1, H)
        BY <4>1, <4>2, AccountedMonotone DEF Done
      <4>4. Accounted(f - 1, H)'
        BY <2>1, <4>1, <4>3, AccountedStable
      <4>5. QED
        BY <2>1, <4>1, <4>2, <4>4 DEF Done
    <3>3. QED
      BY <3>1, <3>2
  <2>5. Accounted(o - 1, H)'
    <3>1. \A n \in Ledgers : n <= f - 1 \/ (f <= n /\ n < o) \/ ~(n <= o - 1)
      BY <2>2 DEF Ledgers
    <3>2. QED
      BY <2>3, <2>4, <3>1 DEF Accounted
  <2>6. \A n \in Ledgers : origin' <= n /\ n < o =>
          n \in GapLedgers(H) \/ Deploys[n] \subseteq known
    BY <2>2, <2>3, <2>4 DEF Ledgers
  <2>7. QED
    BY <2>a, <2>1, <2>5, <2>6 DEF LedgerInv
<1>5. CASE SaveClampWatch
  BY <1>5, <1>b, <1>d DEF SaveClampWatch, broker, LedgerInv, Done
<1>6. CASE SaveClampCursor
  BY <1>6, <1>b, <1>d DEF SaveClampCursor, broker, LedgerInv, Done
<1>7. CASE PublishGap
  BY <1>7, <1>b, <1>d DEF PublishGap, LedgerInv, Done
<1>8. CASE GapsPublished
  BY <1>8, <1>b, <1>d DEF GapsPublished, broker, LedgerInv, Done
<1>9. CASE GiveUpEndpoint
  BY <1>9, <1>b, <1>d DEF GiveUpEndpoint, broker, LedgerInv, Done
<1>10. CASE ProcessLedger
  <2>1. /\ pc' = "facts" /\ UNCHANGED <<sent, cur, gaps, origin>>
        /\ known' = known \cup Deploys[cur]
        /\ todo' = DetectedFacts(cur, known')
        /\ cur \in Ledgers /\ Done(cur, gaps, known)
    BY <1>10, <1>a, <1>b, ServedRange DEF ProcessLedger, broker
  <2>2. Accounted(cur - 1, gaps)'
    BY <2>1, AccountedStable DEF Done
  <2>3. \A e \in Owed(cur, gaps) : e \in Events[cur] \cap known'
    <3>1. Seed \subseteq known
      BY <1>a, <1>10 DEF MemoryInv, Alive, ProcessLedger
    <3>2. \A d \in Ledgers : origin <= d /\ d <= cur /\ d \notin GapLedgers(gaps)
            => Deploys[d] \subseteq known'
      BY <2>1 DEF Done, Ledgers
    <3>3. QED
      BY <2>1, <3>1, <3>2 DEF Owed
  <2>4. Owed(cur, gaps)' = Owed(cur, gaps)
    BY <2>1 DEF Owed
  <2>5. \A e \in Owed(cur, gaps) :
          \E f \in sent' \cup todo' : f.ledger = cur /\ f.escrow = e
    <3> TAKE e \in Owed(cur, gaps)
    <3> DEFINE f == [chain |-> ChainOf[idx], ledger |-> cur, escrow |-> e]
    <3>1. f \in todo' /\ f.ledger = cur /\ f.escrow = e
      BY <2>1, <2>3 DEF DetectedFacts
    <3>2. QED
      BY <3>1
  <2>6. QED
    BY <2>1, <2>2, <2>4, <2>5 DEF LedgerInv, Done
<1>11. CASE Diverge
  BY <1>11 DEF Diverge, Exit, LedgerInv
<1>12. CASE PublishFact
  <2>1. PICK f \in todo : sent' = sent \cup {f} /\ todo' = todo \ {f}
    BY <1>12 DEF PublishFact
  <2>2. pc = "facts" /\ UNCHANGED <<pc, cur, gaps, known, origin>>
    BY <1>12 DEF PublishFact
  <2>3. Done(cur, gaps, known)'
    BY <1>b, <1>d, <2>1, <2>2
  <2>4. Owed(cur, gaps)' = Owed(cur, gaps)
    BY <2>2 DEF Owed
  <2>5. QED
    BY <1>a, <2>1, <2>2, <2>3, <2>4 DEF LedgerInv, Done
<1>13. CASE SkipCheckpoint
  <2>1. /\ pc = "facts" /\ todo = {} /\ cur' = cur + 1 /\ cur \in Ledgers
        /\ UNCHANGED <<sent, gaps, known, origin>> /\ pc' \in {"fetch", "done"}
    BY <1>13, <1>a DEF SkipCheckpoint, NextLedger, LoopHead, broker, MemoryInv
  <2>2. Delivered(cur, gaps)
    BY <1>a, <2>1 DEF LedgerInv, Delivered
  <2>3. Done(cur + 1, gaps, known)
    BY <1>a, <1>b, <2>1, <2>2 DEF LedgerInv, Done, Accounted, Ledgers
  <2>4. Accounted(cur - 1, gaps)'
    BY <2>1, <2>3, AccountedStable DEF Done
  <2>5. QED
    BY <2>1, <2>3, <2>4 DEF LedgerInv, Done
<1>14. CASE SaveWatch
  <2>1. /\ pc = "facts" /\ todo = {} /\ pc' = "saveCursor"
        /\ UNCHANGED <<sent, cur, gaps, known, origin>>
    BY <1>14 DEF SaveWatch, broker
  <2>2. Delivered(cur, gaps)
    BY <1>a, <2>1 DEF LedgerInv, Delivered
  <2>3. QED
    BY <1>a, <1>b, <1>d, <1>e, <2>1, <2>2 DEF LedgerInv, Done
<1>15. CASE SaveCursor
  <2>1. /\ pc = "saveCursor" /\ cur' = cur + 1 /\ cur \in Ledgers
        /\ UNCHANGED <<sent, gaps, known, origin>> /\ pc' \in {"fetch", "done"}
    BY <1>15, <1>a DEF SaveCursor, NextLedger, LoopHead, broker, MemoryInv
  <2>2. Delivered(cur, gaps)
    BY <1>a, <2>1 DEF LedgerInv
  <2>3. Done(cur + 1, gaps, known)
    BY <1>a, <1>b, <2>1, <2>2 DEF LedgerInv, Done, Accounted, Ledgers
  <2>4. Accounted(cur - 1, gaps)'
    BY <2>1, <2>3, AccountedStable DEF Done
  <2>5. QED
    BY <2>1, <2>3, <2>4 DEF LedgerInv, Done
<1>16. CASE Crash
  BY <1>16 DEF Crash, Exit, LedgerInv
<1>17. ASSUME NEW i \in Endpoints, LedgerCloses(i) PROVE LedgerInv'
  BY <1>17, <1>a, <1>b, <1>d, <1>e DEF LedgerCloses, broker, LedgerInv, Done, Owed
<1>18. CASE UNCHANGED vars
  BY <1>18, <1>a, <1>b, <1>d, <1>e DEF vars, LedgerInv, Done, Owed
<1>19. QED
  BY <1>1, <1>2, <1>3, <1>4, <1>5, <1>6, <1>7, <1>8, <1>9, <1>10, <1>11,
     <1>12, <1>13, <1>14, <1>15, <1>16, <1>17, <1>18 DEF Next

-----------------------------------------------------------------------------
(* What the broker was told about the gaps is preserved by every step.     *)

LEMMA SignalStep == IInv /\ [Next]_vars => SignalInv'
<1> SUFFICES ASSUME IInv, [Next]_vars PROVE SignalInv'
  OBVIOUS
<1>a. SignalInv
  BY DEF IInv
<1> USE DEF SignalInv, Running
<1>1. CASE Boot
  BY <1>1 DEF Boot
<1>2. CASE RejectEndpoint
  BY <1>2 DEF RejectEndpoint, Connecting, Exit
<1>3. CASE AdoptEndpoint
  BY <1>3 DEF AdoptEndpoint
<1>4. CASE ClampToEndpoint
  BY <1>4 DEF ClampToEndpoint
<1>5. CASE SaveClampWatch
  BY <1>5 DEF SaveClampWatch
<1>6. CASE SaveClampCursor
  BY <1>6 DEF SaveClampCursor
<1>7. CASE PublishGap
  BY <1>7, <1>a DEF PublishGap
<1>8. CASE GapsPublished
  BY <1>8, <1>a DEF GapsPublished, broker
<1>9. CASE GiveUpEndpoint
  BY <1>9 DEF GiveUpEndpoint
<1>10. CASE ProcessLedger
  BY <1>10, <1>a DEF ProcessLedger, broker
<1>11. CASE Diverge
  BY <1>11 DEF Diverge, Exit
<1>12. CASE PublishFact
  BY <1>12, <1>a DEF PublishFact
<1>13. CASE SkipCheckpoint
  BY <1>13, <1>a DEF SkipCheckpoint, NextLedger, LoopHead, broker
<1>14. CASE SaveWatch
  BY <1>14, <1>a DEF SaveWatch, broker
<1>15. CASE SaveCursor
  BY <1>15, <1>a DEF SaveCursor, NextLedger, LoopHead, broker
<1>16. CASE Crash
  BY <1>16 DEF Crash, Exit
<1>17. ASSUME NEW i \in Endpoints, LedgerCloses(i) PROVE SignalInv'
  BY <1>17, <1>a DEF LedgerCloses, broker
<1>18. CASE UNCHANGED vars
  BY <1>18, <1>a DEF vars
<1>19. QED
  BY <1>1, <1>2, <1>3, <1>4, <1>5, <1>6, <1>7, <1>8, <1>9, <1>10, <1>11,
     <1>12, <1>13, <1>14, <1>15, <1>16, <1>17, <1>18 DEF Next

-----------------------------------------------------------------------------
(* The anchors are preserved by every step.  The one that matters is       *)
(* ProcessLedger: a ledger that links back to an anchor of the cursor's    *)
(* chain is of that chain.                                                 *)

LEMMA ChainStep == IInv /\ [Next]_vars => ChainInv'
<1> SUFFICES ASSUME IInv, [Next]_vars PROVE ChainInv'
  OBVIOUS
<1>a. TypeOK /\ MemoryInv /\ ChainInv
  BY DEF IInv
<1>b. \A n : LedgerHash(n).chain = ChainOf[idx] /\ ChainOf[idx] # NoChain
  BY <1>a, ConstantsAssumption DEF LedgerHash, TypeOK
<1> USE DEF ChainInv, Placed, Running
<1>1. CASE Boot
  BY <1>1, <1>a DEF Boot, disk
<1>2. CASE RejectEndpoint
  BY <1>2, <1>a DEF RejectEndpoint, Connecting, Exit, disk, chain
<1>3. CASE AdoptEndpoint
  <2>1. /\ pc \in {"connect", "rotate"} /\ pc' = "gaps"
        /\ UNCHANGED <<cursor, last>> /\ anchor' = last'
    BY <1>3 DEF AdoptEndpoint, Acceptable, Connecting, disk
  <2>2. QED
    BY <1>a, <2>1 DEF MemoryInv
<1>4. CASE ClampToEndpoint
  BY <1>4, <1>a DEF ClampToEndpoint, disk
<1>5. CASE SaveClampWatch
  BY <1>5, <1>a DEF SaveClampWatch
<1>6. CASE SaveClampCursor
  BY <1>6 DEF SaveClampCursor
<1>7. CASE PublishGap
  BY <1>7, <1>a DEF PublishGap, disk, conn, chain
<1>8. CASE GapsPublished
  BY <1>8, <1>a DEF GapsPublished, disk, conn, chain
<1>9. CASE GiveUpEndpoint
  BY <1>9, <1>a DEF GiveUpEndpoint, disk, chain
<1>10. CASE ProcessLedger
  <2>1. /\ pc = "fetch" /\ pc' = "facts" /\ Descends
        /\ UNCHANGED <<cursor, idx>>
    BY <1>10 DEF ProcessLedger, disk, conn
  <2>2. ASSUME cursor.hash # NoHash PROVE ChainOf[idx] = cursor.hash.chain
    <3>1. CASE ChainOf[idx] = cursor.hash.chain
      BY <3>1
    <3>2. CASE anchor = last
      <4>1. anchor.chain = cursor.hash.chain /\ anchor.chain # NoChain
        BY <1>a, <2>1, <2>2, <3>2
      <4>2. anchor = LedgerHash(cur - 1)
        BY <2>1, <4>1 DEF Descends, NoHash
      <4>3. QED
        BY <1>b, <4>1, <4>2
    <3>3. QED
      BY <1>a, <2>1, <2>2, <3>1, <3>2
  <2>3. QED
    BY <1>a, <2>1, <2>2
<1>11. CASE Diverge
  BY <1>11, <1>a DEF Diverge, Exit, disk
<1>12. CASE PublishFact
  BY <1>12, <1>a DEF PublishFact, disk, conn, chain
<1>13. CASE SkipCheckpoint
  <2>1. /\ pc = "facts" /\ pc' \in {"fetch", "done"} /\ last' = LedgerHash(cur)
        /\ UNCHANGED <<cursor, idx>>
    BY <1>13 DEF SkipCheckpoint, NextLedger, LoopHead, disk, conn
  <2>2. QED
    BY <1>a, <1>b, <2>1
<1>14. CASE SaveWatch
  BY <1>14, <1>a DEF SaveWatch, conn, chain
<1>15. CASE SaveCursor
  <2>1. /\ pc' \in {"fetch", "done"} /\ last' = LedgerHash(cur)
        /\ cursor'.hash = LedgerHash(cur) /\ UNCHANGED idx
    BY <1>15 DEF SaveCursor, NextLedger, LoopHead, conn
  <2>2. QED
    BY <1>b, <2>1
<1>16. CASE Crash
  BY <1>16, <1>a DEF Crash, Exit, disk
<1>17. ASSUME NEW i \in Endpoints, LedgerCloses(i) PROVE ChainInv'
  BY <1>17, <1>a DEF LedgerCloses, disk, conn, chain
<1>18. CASE UNCHANGED vars
  BY <1>18, <1>a DEF vars
<1>19. QED
  BY <1>1, <1>2, <1>3, <1>4, <1>5, <1>6, <1>7, <1>8, <1>9, <1>10, <1>11,
     <1>12, <1>13, <1>14, <1>15, <1>16, <1>17, <1>18 DEF Next

-----------------------------------------------------------------------------
(* The checkpoint counter is preserved by every step.                      *)

LEMMA WindowStep == IInv /\ [Next]_vars => WindowInv'
<1> SUFFICES ASSUME IInv, [Next]_vars PROVE WindowInv'
  OBVIOUS
<1>a. MemoryInv /\ WindowInv
  BY DEF IInv
<1>b. /\ cur \in Nat /\ ckpt \in Nat /\ cursor.seq \in Nat
      /\ From \in Nat \ {0} /\ Oldest(idx) \in Nat \ {0}
      /\ (cur # 0 => From = cur)
      /\ (cursor = NoCursor => cursor.seq = 0)
  BY WindowRange DEF IInv, TypeOK, From, NoCursor, Ledgers
<1> USE ConstantsAssumption DEF WindowInv, Placed, Running
<1>1. CASE Boot
  BY <1>1 DEF Boot
<1>2. CASE RejectEndpoint
  BY <1>2, <1>a DEF RejectEndpoint, Connecting, Exit, disk, chain
<1>3. CASE AdoptEndpoint
  <2>1. /\ pc \in {"connect", "rotate"} /\ pc' = "gaps" /\ UNCHANGED cursor
        /\ cur' = From /\ ckpt' = IF pc = "connect" THEN From - 1 ELSE ckpt
    BY <1>3 DEF AdoptEndpoint, Acceptable, Connecting, StartAt, disk
  <2>2. CASE pc = "connect"
    BY <1>a, <1>b, <2>1, <2>2 DEF MemoryInv, Alive
  <2>3. CASE pc = "rotate"
    BY <1>a, <1>b, <2>1, <2>3 DEF MemoryInv
  <2>4. QED
    BY <2>1, <2>2, <2>3
<1>4. CASE ClampToEndpoint
  <2>1. /\ pc \in {"connect", "rotate"} /\ pc' = "clampWatch"
        /\ cur' = Oldest(idx) /\ From < Oldest(idx)
        /\ ckpt' = IF pc = "connect" THEN Oldest(idx) - 1 ELSE ckpt
    BY <1>4 DEF ClampToEndpoint, Acceptable, Connecting, StartAt
  <2>2. QED
    BY <1>a, <1>b, <2>1 DEF MemoryInv
<1>5. CASE SaveClampWatch
  BY <1>5, <1>a DEF SaveClampWatch
<1>6. CASE SaveClampCursor
  <2>1. /\ pc = "clampCursor" /\ pc' = "gaps" /\ UNCHANGED <<cur, ckpt>>
        /\ cursor'.seq = cur - 1
    BY <1>6 DEF SaveClampCursor
  <2>2. QED
    BY <1>a, <1>b, <2>1
<1>7. CASE PublishGap
  BY <1>7, <1>a DEF PublishGap, disk
<1>8. CASE GapsPublished
  BY <1>8, <1>a DEF GapsPublished, disk
<1>9. CASE GiveUpEndpoint
  BY <1>9, <1>a DEF GiveUpEndpoint, disk
<1>10. CASE ProcessLedger
  BY <1>10, <1>a DEF ProcessLedger, disk
<1>11. CASE Diverge
  BY <1>11 DEF Diverge, Exit
<1>12. CASE PublishFact
  BY <1>12, <1>a DEF PublishFact, disk
<1>13. CASE SkipCheckpoint
  BY <1>13, <1>a, <1>b DEF SkipCheckpoint, ShouldCheckpoint, NextLedger, disk
<1>14. CASE SaveWatch
  BY <1>14, <1>a DEF SaveWatch
<1>15. CASE SaveCursor
  BY <1>15, <1>a, <1>b DEF SaveCursor, NextLedger
<1>16. CASE Crash
  BY <1>16 DEF Crash, Exit
<1>17. ASSUME NEW i \in Endpoints, LedgerCloses(i) PROVE WindowInv'
  BY <1>17, <1>a DEF LedgerCloses, disk
<1>18. CASE UNCHANGED vars
  BY <1>18, <1>a DEF vars
<1>19. QED
  BY <1>1, <1>2, <1>3, <1>4, <1>5, <1>6, <1>7, <1>8, <1>9, <1>10, <1>11,
     <1>12, <1>13, <1>14, <1>15, <1>16, <1>17, <1>18 DEF Next

-----------------------------------------------------------------------------
(* The theorems                                                            *)

(* The inductive invariant holds of every behaviour (IngestLoop, every     *)
(* step of the loop, its crashes and restarts).                            *)
THEOREM Inductive == Spec => []IInv
<1>1. Init => IInv
  <2> SUFFICES ASSUME Init PROVE IInv
    OBVIOUS
  <2>1. TypeOK
    BY ConstantsAssumption
       DEF Init, TypeOK, NoCursor, EmptyWatch, NoHash, Hash, Endpoints, Running
  <2>2. DiskInv
    BY DEF Init, DiskInv, NoSilentLoss, RegistryCoversCursor, NoCursor
  <2>3. MemoryInv /\ LedgerInv /\ SignalInv /\ WindowInv
    BY DEF Init, MemoryInv, LedgerInv, SignalInv, WindowInv, Alive, Placed, Running
  <2>4. ChainInv
    BY DEF Init, ChainInv, NoCursor
  <2>5. QED
    BY <2>1, <2>2, <2>3, <2>4 DEF IInv
<1>2. IInv /\ [Next]_vars => IInv'
  <2>1. ASSUME IInv, [Next]_vars PROVE TypeOK'
    BY <2>1, TypeStep DEF IInv
  <2>2. QED
    BY <2>1, DiskStep, MemoryStep, LedgerStep, SignalStep, ChainStep, WindowStep
       DEF IInv
<1>3. QED
  BY <1>1, <1>2, PTL DEF Spec

(* No crash, restart, rotation or retention window lets the durable cursor *)
(* pass a ledger whose facts were neither confirmed nor declared lost      *)
(* (ingest.go, the checkpoint at the end of an iteration).                 *)
THEOREM Lossless == Spec => []NoSilentLoss
<1>1. IInv => NoSilentLoss
  BY DEF IInv, DiskInv
<1>2. QED
  BY <1>1, Inductive, PTL

(* The registry on disk is never behind the cursor on disk (file_store.go, *)
(* Save: the watchlist file is written first).                             *)
THEOREM RegistryKept == Spec => []RegistryCoversCursor
<1>1. IInv => RegistryCoversCursor
  BY DEF IInv, DiskInv
<1>2. QED
  BY <1>1, Inductive, PTL

(* The ledgers behind the current one were delivered, or the watchlist     *)
(* file already names them as lost (ingest.go, onGap).                     *)
THEOREM HolesRecorded == Spec => []NoHoleBehind
<1>1. IInv => NoHoleBehind
  BY DEF IInv, MemoryInv, LedgerInv, NoHoleBehind, Alive, Placed, Running
<1>2. QED
  BY <1>1, Inductive, PTL

(* Every recorded gap was confirmed by the broker before a ledger is       *)
(* worked on (ingest.go, publishGaps at boot and after a rotation).        *)
THEOREM SignalBeforeWork == Spec => []GapsSignalled
<1>1. IInv => GapsSignalled
  BY DEF IInv, MemoryInv, SignalInv, GapsSignalled, Alive, Placed, Running
<1>2. QED
  BY <1>1, Inductive, PTL

(* A crash repeats at most a checkpoint window of facts (catchup.go,       *)
(* shouldCheckpoint).                                                      *)
THEOREM WindowBounded == Spec => []ReplayWindow
<1>1. IInv => ReplayWindow
  BY ConstantsAssumption
     DEF IInv, TypeOK, MemoryInv, WindowInv, ReplayWindow, Placed, Running
<1>2. QED
  BY <1>1, Inductive, PTL

(* A bounded run that completes has its last ledger on disk (catchup.go,   *)
(* shouldCheckpoint, the final ledger).                                    *)
THEOREM CompletionDurable == Spec => []RunEndDurable
<1>1. IInv => RunEndDurable
  BY DEF IInv, MemoryInv, RunEndDurable
<1>2. QED
  BY <1>1, Inductive, PTL

(* No save moves the cursor back, drops a recorded gap or forgets an       *)
(* escrow (ingest.go, snapshotState; file_store.go, Save).                 *)
THEOREM DiskMonotone == Spec => NeverRegresses
<1> DEFINE Kept == /\ cursor.seq <= cursor'.seq
                   /\ watch.gaps \subseteq watch'.gaps
                   /\ watch.escrows \subseteq watch'.escrows
<1>1. IInv /\ [Next]_vars => [Kept]_disk
  <2> SUFFICES ASSUME IInv, [Next]_vars, ~UNCHANGED disk PROVE Kept
    OBVIOUS
  <2>1. cursor.seq \in Nat /\ cur \in Nat
    BY DEF IInv, TypeOK
  <2>2. CASE SaveClampWatch \/ SaveWatch
    BY <2>1, <2>2 DEF IInv, MemoryInv, SaveClampWatch, SaveWatch, SnapshotWatch,
                      Alive, Placed, Running
  <2>3. CASE SaveClampCursor
    BY <2>1, <2>3 DEF IInv, MemoryInv, SaveClampCursor, Placed
  <2>4. CASE SaveCursor
    BY <2>1, <2>4 DEF IInv, MemoryInv, SaveCursor, Placed, Running
  <2>5. QED
    BY <2>2, <2>3, <2>4
       DEF Next, vars, Boot, RejectEndpoint, AdoptEndpoint, ClampToEndpoint,
           PublishGap, GapsPublished, GiveUpEndpoint, ProcessLedger, Diverge,
           PublishFact, SkipCheckpoint, Crash, LedgerCloses, disk
<1>2. QED
  BY <1>1, Inductive, PTL DEF Spec, NeverRegresses

(* The durable cursor never goes from one chain to another without a       *)
(* recorded gap between (catchup.go, verifyChainContinuity).               *)
THEOREM LineageKept == Spec => OneChain
<1> DEFINE Same == cursor.hash # NoHash /\ cursor'.hash # NoHash
                     => cursor.hash.chain = cursor'.hash.chain
<1>1. IInv /\ [Next]_vars => [Same]_disk
  <2> SUFFICES ASSUME IInv, [Next]_vars, ~UNCHANGED disk PROVE Same
    OBVIOUS
  <2>1. CASE SaveCursor
    BY <2>1 DEF IInv, ChainInv, SaveCursor, LedgerHash
  <2>2. CASE SaveClampCursor
    BY <2>2 DEF SaveClampCursor
  <2>3. CASE SaveClampWatch \/ SaveWatch
    BY <2>3 DEF SaveClampWatch, SaveWatch
  <2>4. QED
    BY <2>1, <2>2, <2>3
       DEF Next, vars, Boot, RejectEndpoint, AdoptEndpoint, ClampToEndpoint,
           PublishGap, GapsPublished, GiveUpEndpoint, ProcessLedger, Diverge,
           PublishFact, SkipCheckpoint, Crash, LedgerCloses, disk
<1>2. QED
  BY <1>1, Inductive, PTL DEF Spec, OneChain

-----------------------------------------------------------------------------
(* How far a false divergence reaches                                      *)

(* A hash the loop may compare with is the hash of the ledger before the   *)
(* current one, or that ledger was skipped and recorded.                   *)
Follows(h) == h # NoHash => h.seq = cur - 1 \/ cur - 1 \in GapLedgers(gaps)

HeightInv ==
  /\ cursor.hash # NoHash => cursor.hash.seq = cursor.seq
  /\ pc \in Placed \ {"facts", "saveCursor"} => Follows(last)
  /\ pc \in {"gaps", "fetch"} => Follows(anchor)
  /\ pc \in {"clampWatch", "clampCursor", "facts", "saveCursor"}
       => anchor = NoHash

LEMMA HeightStep == IInv /\ HeightInv /\ [Next]_vars => HeightInv'
<1> SUFFICES ASSUME IInv, HeightInv, [Next]_vars PROVE HeightInv'
  OBVIOUS
<1>a. /\ TypeOK /\ MemoryInv /\ cur \in Nat /\ From \in Nat \ {0}
      /\ (cur # 0 => From = cur) /\ Oldest(idx) \in Ledgers
      /\ (cursor = NoCursor => cursor.hash = NoHash) /\ NoHash' = NoHash
  BY WindowRange DEF IInv, TypeOK, From, NoCursor, NoHash
<1> USE DEF HeightInv, Placed, Running
<1>b. ASSUME UNCHANGED <<cur, gaps>>, NEW h, Follows(h) PROVE Follows(h)'
  BY <1>b, <1>a DEF Follows, GapLedgers
<1>1. CASE Boot
  BY <1>1 DEF Boot, disk
<1>2. CASE RejectEndpoint
  BY <1>2, <1>a DEF RejectEndpoint, Connecting, Exit, disk, chain, Follows, GapLedgers
<1>3. CASE AdoptEndpoint
  <2>1. /\ pc \in {"connect", "rotate"} /\ pc' = "gaps" /\ cur' = From
        /\ UNCHANGED <<cursor, gaps, last>> /\ anchor' = last'
    BY <1>3 DEF AdoptEndpoint, Acceptable, Connecting, StartAt, disk
  <2>2. CASE pc = "connect"
    <3>1. SUFFICES ASSUME last # NoHash PROVE last.seq = From - 1
      BY <1>a, <2>1 DEF Follows
    <3>2. last = cursor.hash /\ cur = cursor.seq + 1 /\ cursor.seq \in Nat
      BY <1>a, <2>2, <3>1 DEF MemoryInv, TypeOK
    <3>3. QED
      BY <1>a, <3>1, <3>2
  <2>3. CASE pc = "rotate"
    <3>1. cur' = cur /\ Follows(last)
      BY <1>a, <2>1, <2>3 DEF MemoryInv
    <3>2. QED
      BY <1>b, <2>1, <3>1
  <2>4. QED
    BY <2>1, <2>2, <2>3
<1>4. CASE ClampToEndpoint
  <2>1. /\ pc' = "clampWatch" /\ cur' = Oldest(idx) /\ From < Oldest(idx)
        /\ gaps' = gaps \cup {[from |-> From, to |-> Oldest(idx) - 1]}
        /\ cursor' = cursor /\ anchor' = NoHash
    BY <1>4 DEF ClampToEndpoint, StartAt, disk
  <2>2. cur' - 1 \in Ledgers /\ From <= cur' - 1 /\ cur' - 1 <= Oldest(idx) - 1
    BY <1>a, <2>1, ConstantsAssumption DEF Ledgers
  <2>3. cur' - 1 \in GapLedgers(gaps')
    <3>1. [from |-> From, to |-> Oldest(idx) - 1] \in gaps'
      BY <2>1
    <3>2. QED
      BY <2>2, <3>1 DEF GapLedgers
  <2>4. QED
    BY <1>a, <2>1, <2>3 DEF Follows, GapLedgers
<1>5. CASE SaveClampWatch
  BY <1>5, <1>b DEF SaveClampWatch, chain
<1>6. CASE SaveClampCursor
  <2>1. /\ pc = "clampCursor" /\ pc' = "gaps" /\ cursor'.hash = NoHash
        /\ UNCHANGED <<cur, gaps, last, anchor>>
    BY <1>6 DEF SaveClampCursor, chain
  <2>2. QED
    BY <1>a, <1>b, <2>1 DEF Follows
<1>7. CASE PublishGap
  BY <1>7, <1>b DEF PublishGap, disk, conn, chain
<1>8. CASE GapsPublished
  BY <1>8, <1>b DEF GapsPublished, disk, conn, chain
<1>9. CASE GiveUpEndpoint
  BY <1>9, <1>b DEF GiveUpEndpoint, disk, chain
<1>10. CASE ProcessLedger
  BY <1>10 DEF ProcessLedger, disk
<1>11. CASE Diverge
  BY <1>11 DEF Diverge, Exit, disk
<1>12. CASE PublishFact
  BY <1>12 DEF PublishFact, disk, chain
<1>13. CASE SkipCheckpoint
  <2>1. /\ pc = "facts" /\ pc' \in {"fetch", "done"} /\ cur' = cur + 1
        /\ last' = [chain |-> ChainOf[idx], seq |-> cur]
        /\ UNCHANGED <<cursor, anchor>>
    BY <1>13 DEF SkipCheckpoint, NextLedger, LoopHead, LedgerHash, disk
  <2>2. QED
    BY <1>a, <2>1 DEF Follows
<1>14. CASE SaveWatch
  BY <1>14 DEF SaveWatch, conn, chain
<1>15. CASE SaveCursor
  <2>1. /\ pc = "saveCursor" /\ pc' \in {"fetch", "done"} /\ cur' = cur + 1
        /\ last' = [chain |-> ChainOf[idx], seq |-> cur]
        /\ cursor' = [seq |-> cur, hash |-> last'] /\ UNCHANGED anchor
    BY <1>15 DEF SaveCursor, NextLedger, LoopHead, LedgerHash
  <2>2. QED
    BY <1>a, <2>1 DEF Follows
<1>16. CASE Crash
  BY <1>16 DEF Crash, Exit, disk
<1>17. ASSUME NEW i \in Endpoints, LedgerCloses(i) PROVE HeightInv'
  BY <1>17, <1>b DEF LedgerCloses, disk, conn, chain
<1>18. CASE UNCHANGED vars
  BY <1>18, <1>b DEF vars
<1>19. QED
  BY <1>1, <1>2, <1>3, <1>4, <1>5, <1>6, <1>7, <1>8, <1>9, <1>10, <1>11,
     <1>12, <1>13, <1>14, <1>15, <1>16, <1>17, <1>18 DEF Next

(* The loop stops for a divergence without the chain having changed only   *)
(* on the first ledger after a recorded gap: DivergenceIsReal fails there  *)
(* and nowhere else, for any endpoints, windows, rotations and crashes.    *)
FalseOnlyAfterGap ==
  [][exit # "diverged" /\ exit' = "diverged"
       => ChainOf[idx] # anchor.chain \/ cur - 1 \in GapLedgers(gaps)]_vars

THEOREM DivergenceDelimited == Spec => FalseOnlyAfterGap
<1> DEFINE Real == exit # "diverged" /\ exit' = "diverged"
                     => ChainOf[idx] # anchor.chain \/ cur - 1 \in GapLedgers(gaps)
<1>1. Init => HeightInv
  BY DEF Init, HeightInv, Placed, Running, NoCursor
<1>2. IInv /\ HeightInv /\ [Next]_vars => [Real]_vars
  <2> SUFFICES ASSUME IInv, HeightInv, Next, exit # "diverged",
                      exit' = "diverged"
               PROVE  ChainOf[idx] # anchor.chain \/ cur - 1 \in GapLedgers(gaps)
    OBVIOUS
  <2>1. Diverge
    BY DEF Next, Boot, RejectEndpoint, AdoptEndpoint, ClampToEndpoint, SaveClampWatch,
           SaveClampCursor, PublishGap, GapsPublished, GiveUpEndpoint,
           ProcessLedger, PublishFact, SkipCheckpoint, SaveWatch, SaveCursor,
           Crash, LedgerCloses, Exit
  <2>2. anchor # NoHash /\ anchor # LedgerHash(cur - 1) /\ Follows(anchor)
    BY <2>1 DEF Diverge, Descends, HeightInv
  <2>3. anchor \in Hash
    BY DEF IInv, TypeOK
  <2>4. QED
    BY <2>2, <2>3 DEF Follows, LedgerHash, Hash
<1>3. QED
  BY <1>1, <1>2, HeightStep, Inductive, PTL DEF Spec, FalseOnlyAfterGap
=============================================================================
