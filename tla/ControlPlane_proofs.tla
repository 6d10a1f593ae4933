------------------------- MODULE ControlPlane_proofs ------------------------
(***************************************************************************)
(* Proofs about ControlPlane and Detection, for every chain, every set of  *)
(* commands and every bound.                                               *)
(***************************************************************************)
EXTENDS ControlPlane, FiniteSetTheorems, TLAPS

-----------------------------------------------------------------------------
(* Message ids                                                             *)

LEMMA PlacesFinite ==
  ASSUME NEW ops \in Seq(Seq(Event)) PROVE IsFiniteSet(Places(ops))
  <1> DEFINE InOp(o) == {o} \X DOMAIN ops[o]
             F == [o \in DOMAIN ops |-> InOp(o)]
             Ops == {InOp(o) : o \in DOMAIN ops}
  <1>1. IsFiniteSet(DOMAIN ops)
    BY FS_Interval
  <1>2. IsFiniteSet(Ops)
    <2>1. F \in [DOMAIN ops -> Ops]
      OBVIOUS
    <2>2. \A y \in Ops : \E x \in DOMAIN ops : F[x] = y
      OBVIOUS
    <2>3. F \in Surjection(DOMAIN ops, Ops)
      BY <2>1, <2>2 DEF Surjection
    <2>4. QED
      BY <1>1, <2>3, FS_Surjection
  <1>3. \A T \in Ops : IsFiniteSet(T)
    <2> SUFFICES ASSUME NEW o \in DOMAIN ops PROVE IsFiniteSet(InOp(o))
      OBVIOUS
    <2>1. IsFiniteSet({o})
      BY FS_Singleton
    <2>2. IsFiniteSet(DOMAIN ops[o])
      BY FS_Interval
    <2>3. QED
      BY <2>1, <2>2, FS_Product
  <1>4. Places(ops) = UNION Ops
    BY DEF Places
  <1> HIDE DEF Ops
  <1>5. QED
    BY <1>2, <1>3, <1>4, FS_UNION

LEMMA PlacesArePairs ==
  ASSUME NEW ops \in Seq(Seq(Event)), NEW p \in Places(ops)
  PROVE  p[1] \in Nat /\ p[2] \in Nat /\ p = <<p[1], p[2]>>
  BY DEF Places

(* The running counter tells the events of a transaction apart.            *)
LEMMA IndexTellsApart ==
  ASSUME NEW ops \in Seq(Seq(Event)), NEW p \in Places(ops),
         NEW q \in Places(ops), Index(ops, p) = Index(ops, q)
  PROVE  p = q
  <1> DEFINE Upto(r) == {x \in Places(ops) : Before(x, r)}
  <1>1. ASSUME NEW a \in Places(ops), NEW b \in Places(ops), Before(a, b)
        PROVE  Index(ops, a) # Index(ops, b)
    <2>1. IsFiniteSet(Upto(b))
      <3>1. Upto(b) \in SUBSET Places(ops)
        OBVIOUS
      <3>2. QED
        BY <3>1, PlacesFinite, FS_Subset
    <2>2. Upto(a) \in SUBSET Upto(b)
      BY <1>1, PlacesArePairs DEF Before
    <2>3. a \in Upto(b) /\ a \notin Upto(a)
      BY <1>1, PlacesArePairs DEF Before
    <2>4. Cardinality(Upto(b)) # Cardinality(Upto(a))
      BY <2>1, <2>2, <2>3, FS_Subset
    <2>5. QED
      BY <2>4 DEF Index
  <1>2. p = q \/ Before(p, q) \/ Before(q, p)
    BY PlacesArePairs DEF Before
  <1>3. QED
    BY <1>1, <1>2

-----------------------------------------------------------------------------
(* Types                                                                   *)

(* Where the loop may have changes to save or a pause in effect, and that  *)
(* the cursor on disk is not ahead of it.                                  *)
PlaceInv ==
  /\ dirty => pc \in {"drain", "persist"}
  /\ pc \in {"down", "ledger", "save"} => left = 0
  /\ pc # "down" => disk.cursor <= cur

TypeInv == TypeOK /\ PlaceInv

Disks   == [escrows : SUBSET Escrows, removed : SUBSET Escrows,
            cursor : 0 .. MaxLedger]
Replays == [at : 0 .. MaxLedger, known : SUBSET Escrows,
            removed : SUBSET Escrows]

LEMMA CommandType ==
  ASSUME NEW c \in Commands
  PROVE  c.ids \subseteq Escrows /\ c.ttl \in 0 .. MaxPauseTTL
  BY ControlAssumption DEF ControlAssumption, Command

LEMMA DeploysType ==
  ASSUME NEW n \in Ledgers
  PROVE  Deploys[n] = Discovered(Chain[n]) /\ Deploys[n] \subseteq Escrows
  BY ControlAssumption DEF ControlAssumption, Deploys

LEMMA RegisterType ==
  ASSUME TypeInv, NEW n \in Ledgers
  PROVE  Register(Deploys[n]) \subseteq Escrows
  BY DeploysType DEF Register, TypeInv, TypeOK

LEMMA ExecuteType ==
  ASSUME TypeInv, NEW c \in Commands, Execute(c)
  PROVE  /\ queue' \in Seq(Commands) /\ Len(queue') <= QueueSize
         /\ known' \subseteq Escrows /\ removed' \subseteq Escrows
         /\ left' \in 0 .. MaxPauseTTL
         /\ said' \in [Escrows -> Words]
  <1> USE CommandType DEF TypeInv, TypeOK, Execute
  <1>1. queue' \in Seq(Commands) /\ Len(queue') <= QueueSize
    BY ControlAssumption DEF ControlAssumption
  <1>2. known' \subseteq Escrows
    BY DEF TrackedAfter
  <1>3. removed' \subseteq Escrows
    BY DEF TombstonesAfter
  <1>4. left' \in 0 .. MaxPauseTTL
    BY ControlAssumption DEF ControlAssumption
  <1>5. said' \in [Escrows -> Words]
    <2>1. \A e \in Escrows : Word(c, e) \in Words
      BY DEF Word, Words
    <2>2. QED
      BY <2>1
  <1>6. QED
    BY <1>1, <1>2, <1>3, <1>4, <1>5

LEMMA ExitKeepsType ==
  ASSUME TypeInv, NEW why \in {"crash", "error"}, Exit(why),
         disk' \in Disks, kept' \in [Escrows -> Words],
         UNCHANGED <<accepted, replay, replays>>
  PROVE  TypeInv'
  <1>1. /\ queue' = <<>> /\ known' = {} /\ removed' = {} /\ pc' = "down"
        /\ cur' = 0 /\ left' = 0 /\ dirty' = FALSE
        /\ exit' \in {"crash", "error"} /\ crashes' \in Nat
    BY ControlAssumption DEF ControlAssumption, Exit, TypeInv, TypeOK
  <1>2. said' \in [Escrows -> Words]
    BY DEF Exit, Words
  <1>3. queue' \in Seq(Commands) /\ Len(queue') <= QueueSize
    BY <1>1, ControlAssumption DEF ControlAssumption
  <1>4. TypeOK'
    <2>1. replay' \in Replays /\ accepted' \in Nat /\ replays' \in Nat
      BY DEF TypeInv, TypeOK, Replays
    <2>2. cur' \in 0 .. MaxLedger /\ left' \in 0 .. MaxPauseTTL
      BY <1>1, ControlAssumption DEF ControlAssumption
    <2>3. QED
      BY <1>1, <1>2, <1>3, <2>1, <2>2 DEF TypeOK, Disks, Replays
  <1>5. PlaceInv'
    BY <1>1 DEF PlaceInv
  <1>6. QED
    BY <1>4, <1>5 DEF TypeInv

LEMMA GateType ==
  ASSUME TypeInv, pc # "down", Gate
  PROVE  /\ pc' \in {"hold", "ledger"} /\ cur' \in 0 .. MaxLedger
         /\ cur' # 0 /\ cur <= cur' /\ (pc' = "ledger" => left = 0)
  BY ControlAssumption
  DEF ControlAssumption, Ledgers, Gate, NextLedger, TypeInv, TypeOK

LEMMA SaveType ==
  ASSUME TypeInv, Save
  PROVE  disk' \in Disks /\ kept' \in [Escrows -> Words] /\ disk'.cursor = cur
  BY DEF Save, TypeInv, TypeOK, Disks

LEMMA TypeKept == ASSUME TypeInv, [Next]_vars PROVE TypeInv'
  <1> USE ControlAssumption
      DEF ControlAssumption, TypeInv, TypeOK, PlaceInv, Ledgers, public, registry,
          history, Disks
  <1>1. CASE Boot
    BY <1>1 DEF Boot
  <1>2. CASE ProcessLedger
    BY <1>2, RegisterType DEF ProcessLedger
  <1>3. CASE Checkpoint
    BY <1>3, SaveType DEF Checkpoint
  <1>4. CASE SkipCheckpoint
    BY <1>4 DEF SkipCheckpoint
  <1>5. ASSUME NEW c \in Commands, DrainCommand(c) PROVE TypeInv'
    <2>1. Mutates(c) \in BOOLEAN
      BY DEF Mutates
    <2>2. QED
      BY <1>5, <2>1, ExecuteType DEF DrainCommand, Execute
  <1>6. CASE DrainEnds
    BY <1>6, GateType DEF DrainEnds
  <1>7. CASE Persist
    BY <1>7, GateType, SaveType DEF Persist
  <1>8. ASSUME NEW c \in Commands, HoldCommand(c) PROVE TypeInv'
    BY <1>8, ExecuteType DEF HoldCommand, Execute
  <1>9. CASE HoldSave
    BY <1>9, SaveType DEF HoldSave
  <1>10. CASE HoldCheck
    BY <1>10, GateType DEF HoldCheck
  <1>11. CASE HoldExpires
    BY <1>11 DEF HoldExpires, NextLedger
  <1>12. ASSUME NEW c \in Commands, Accept(c) PROVE TypeInv'
    BY <1>12 DEF Accept
  <1>13. ASSUME NEW c \in Commands, CommandFails(c) PROVE TypeInv'
    BY <1>13, ExitKeepsType DEF CommandFails
  <1>14. ASSUME NEW f, LedgerFails(f) PROVE TypeInv'
    BY <1>14, ExitKeepsType DEF LedgerFails
  <1>15. CASE Crash
    <2>1. disk' \in Disks /\ kept' \in [Escrows -> Words]
      BY <1>15 DEF Crash
    <2>2. QED
      BY <1>15, <2>1, ExitKeepsType DEF Crash
  <1>16. CASE Tick
    BY <1>16 DEF Tick
  <1>17. ASSUME NEW n \in Ledgers, ReplayStarts(n) PROVE TypeInv'
    BY <1>17 DEF ReplayStarts
  <1>18. CASE ReplayLedger
    <2>1. replay' \in Replays
      <3>1. CASE replay.at = MaxLedger
        BY <1>18, <3>1 DEF ReplayLedger, Off, Replays
      <3>2. CASE replay.at # MaxLedger
        <4>1. replay.at \in Ledgers /\ replay.at + 1 \in 0 .. MaxLedger
          BY <1>18, <3>2 DEF ReplayLedger
        <4>2. ReplayKnown \subseteq Escrows
          BY <4>1, DeploysType DEF ReplayKnown
        <4>3. QED
          BY <1>18, <3>2, <4>1, <4>2 DEF ReplayLedger, Replays
      <3>3. QED
        BY <3>1, <3>2
    <2>2. QED
      BY <1>18, <2>1 DEF ReplayLedger, Replays
  <1>19. CASE ReplayEnds
    BY <1>19 DEF ReplayEnds, Off
  <1>20. CASE UNCHANGED vars
    BY <1>20 DEF vars
  <1>21. QED
    BY <1>1, <1>2, <1>3, <1>4, <1>5, <1>6, <1>7, <1>8, <1>9, <1>10, <1>11,
       <1>12, <1>13, <1>14, <1>15, <1>16, <1>17, <1>18, <1>19, <1>20
    DEF Next, Loop, FactRefused, PublishFails

LEMMA TypeStarts == Init => TypeInv
  <1> SUFFICES ASSUME Init PROVE TypeInv
    OBVIOUS
  <1>1. queue \in Seq(Commands) /\ Len(queue) <= QueueSize
    BY ControlAssumption DEF ControlAssumption, Init
  <1>2. said \in [Escrows -> Words] /\ kept \in [Escrows -> Words]
    BY DEF Init, Words
  <1>3. disk \in Disks /\ replay \in Replays
    BY ControlAssumption
    DEF ControlAssumption, Init, EmptyDisk, Off, Disks, Replays
  <1>4. cur \in 0 .. MaxLedger /\ left \in 0 .. MaxPauseTTL
    BY ControlAssumption DEF ControlAssumption, Init
  <1>5. TypeOK
    BY <1>1, <1>2, <1>3, <1>4 DEF Init, TypeOK, Disks, Replays
  <1>6. PlaceInv
    BY DEF Init, PlaceInv
  <1>7. QED
    BY <1>5, <1>6 DEF TypeInv

(* Every variable keeps its type.                                          *)
THEOREM TypeCorrect == Spec => []TypeOK
  <1>1. TypeInv => TypeOK
    BY DEF TypeInv
  <1>2. QED
    BY <1>1, TypeStarts, TypeKept, PTL DEF Spec

-----------------------------------------------------------------------------
(* The operators' words                                                    *)

(* The tombstones are the escrows whose last word is a removal, none of    *)
(* them is tracked, and those with a last word to track them are.          *)
Agree(tracked, gone, words) ==
  /\ gone = {e \in Escrows : words[e] = "remove"}
  /\ tracked \cap gone = {}
  /\ \A e \in Escrows : words[e] = "track" => e \in tracked

WordsInv ==
  /\ Agree(known, removed, said)
  /\ Agree(disk.escrows, disk.removed, kept)

LEMMA AgreeingObeys ==
  ASSUME NEW tracked, NEW gone, NEW words, Agree(tracked, gone, words)
  PROVE  Obeys(tracked, words)
  BY DEF Agree, Obeys

(* Whatever discovery registers, the tombstones are respected.             *)
LEMMA RegisterAgrees ==
  ASSUME Agree(known, removed, said), NEW ids
  PROVE  Agree(Register(ids), removed, said)
  BY DEF Agree, Register

LEMMA AgreeFrom ==
  ASSUME NEW k, NEW r, NEW w,
         \A e \in Escrows : w[e] = "remove" <=> e \in r,
         r \subseteq Escrows, k \cap r = {},
         \A e \in Escrows : w[e] = "track" => e \in k
  PROVE  Agree(k, r, w)
  BY DEF Agree

LEMMA ExecuteAgrees ==
  ASSUME TypeInv, Agree(known, removed, said), NEW c \in Commands, Execute(c)
  PROVE  Agree(known', removed', said')
  <1> DEFINE Follows == /\ \A e \in Escrows : said'[e] = "remove" <=> e \in removed'
                        /\ removed' \subseteq Escrows /\ known' \cap removed' = {}
                        /\ \A e \in Escrows : said'[e] = "track" => e \in known'
  <1>0. /\ known' = TrackedAfter(c) /\ removed' = TombstonesAfter(c)
        /\ said' = [e \in Escrows |-> Word(c, e)]
        /\ c.ids \subseteq Escrows
    BY CommandType DEF Execute
  <1>1. /\ \A e \in Escrows : said[e] = "remove" <=> e \in removed
        /\ removed \subseteq Escrows /\ known \cap removed = {}
        /\ \A e \in Escrows : said[e] = "track" => e \in known
    BY DEF Agree
  <1>9. \A e \in Escrows : said'[e] = Word(c, e)
    BY <1>0
  <1>2. ASSUME c.kind = "track" PROVE Follows
    <2>1. known' = known \cup c.ids /\ removed' = removed \ c.ids
      BY <1>0, <1>2 DEF TrackedAfter, TombstonesAfter
    <2>2. \A e \in Escrows : said'[e] = IF e \in c.ids THEN "track" ELSE said[e]
      BY <1>9, <1>2 DEF Word
    <2>3. QED
      BY <1>1, <2>1, <2>2
  <1>3. ASSUME c.kind = "reseed" PROVE Follows
    <2>1. known' = known \cup (c.ids \ removed) /\ removed' = removed
      BY <1>0, <1>3 DEF TrackedAfter, TombstonesAfter
    <2>2. \A e \in Escrows :
            said'[e] = IF e \in c.ids /\ said[e] # "remove" THEN "track"
                                                          ELSE said[e]
      BY <1>9, <1>3 DEF Word
    <2>3. QED
      BY <1>1, <2>1, <2>2
  <1>4. ASSUME c.kind = "remove" PROVE Follows
    <2>1. known' = known \ c.ids /\ removed' = removed \cup c.ids
      BY <1>0, <1>4 DEF TrackedAfter, TombstonesAfter
    <2>2. \A e \in Escrows : said'[e] = IF e \in c.ids THEN "remove" ELSE said[e]
      BY <1>9, <1>4 DEF Word
    <2>3. QED
      BY <1>0, <1>1, <2>1, <2>2
  <1>5. ASSUME c.kind \notin {"track", "reseed", "remove"} PROVE Follows
    <2>1. known' = known /\ removed' = removed
      BY <1>0, <1>5 DEF TrackedAfter, TombstonesAfter
    <2>2. \A e \in Escrows : said'[e] = said[e]
      BY <1>9, <1>5 DEF Word
    <2>3. QED
      BY <1>1, <2>1, <2>2
  <1>6. Follows
    <2> HIDE DEF Follows
    <2>1. QED
      BY <1>2, <1>3, <1>4, <1>5
  <1>7. QED
    BY <1>6, AgreeFrom

LEMMA SaveAgrees ==
  ASSUME Agree(known, removed, said), Save
  PROVE  Agree(disk'.escrows, disk'.removed, kept')
  BY DEF Save, Agree

LEMMA ExitAgrees ==
  ASSUME NEW why, Exit(why) PROVE Agree(known', removed', said')
  BY DEF Exit, Agree

LEMMA WordsKept == ASSUME TypeInv, WordsInv, [Next]_vars PROVE WordsInv'
  <1> USE DEF WordsInv, public, registry, history
  <1>1. CASE Boot
    <2>1. CASE disk = EmptyDisk
      BY <1>1, <2>1 DEF Boot, Agree, EmptyDisk
    <2>2. CASE disk # EmptyDisk
      BY <1>1, <2>2 DEF Boot, Agree
    <2>3. QED
      BY <2>1, <2>2
  <1>2. CASE ProcessLedger
    BY <1>2, RegisterAgrees DEF ProcessLedger, Agree, Register
  <1>3. CASE Checkpoint \/ Persist \/ HoldSave
    BY <1>3, SaveAgrees DEF Checkpoint, Persist, HoldSave, Agree
  <1>4. ASSUME NEW c \in Commands, DrainCommand(c) \/ HoldCommand(c)
        PROVE  WordsInv'
    BY <1>4, ExecuteAgrees DEF DrainCommand, HoldCommand, Execute, Agree
  <1>5. ASSUME NEW c \in Commands, CommandFails(c) PROVE WordsInv'
    BY <1>5, ExitAgrees DEF CommandFails, Agree
  <1>6. ASSUME NEW f, LedgerFails(f) PROVE WordsInv'
    BY <1>6, ExitAgrees DEF LedgerFails, Agree
  <1>7. CASE Crash
    <2>1. CASE UNCHANGED <<disk, kept>>
      BY <1>7, <2>1, ExitAgrees DEF Crash, Agree
    <2>2. CASE ~UNCHANGED <<disk, kept>>
      BY <1>7, <2>2, ExitAgrees DEF Crash, Agree
    <2>3. QED
      BY <2>1, <2>2
  <1>8. ASSUME UNCHANGED <<registry, disk, said, kept>> PROVE WordsInv'
    BY <1>8 DEF Agree
  <1>9. ASSUME NEW c \in Commands, Accept(c) PROVE WordsInv'
    BY <1>8, <1>9 DEF Accept
  <1>10. ASSUME NEW n \in Ledgers, ReplayStarts(n) PROVE WordsInv'
    BY <1>8, <1>10 DEF ReplayStarts
  <1>11. CASE \/ SkipCheckpoint \/ DrainEnds \/ HoldCheck \/ HoldExpires
              \/ Tick \/ ReplayLedger \/ ReplayEnds \/ UNCHANGED vars
    BY <1>8, <1>11
    DEF SkipCheckpoint, DrainEnds, HoldCheck, HoldExpires, Tick, ReplayLedger,
        ReplayEnds, vars
  <1>12. QED
    BY <1>1, <1>2, <1>3, <1>4, <1>5, <1>6, <1>7, <1>9, <1>10, <1>11
    DEF Next, Loop, FactRefused, PublishFails

LEMMA WordsStart == Init => WordsInv
  BY DEF Init, WordsInv, Agree, EmptyDisk

(* The last word of the operators on an escrow stands, in memory and in    *)
(* what was saved, through rediscovery, seeds, crashes and restarts.       *)
THEOREM LastWordStands == Spec => []OperatorWins
  <1>1. WordsInv => OperatorWins
    BY AgreeingObeys DEF WordsInv, OperatorWins
  <1>2. QED
    BY <1>1, TypeStarts, TypeKept, WordsStart, WordsKept, PTL DEF Spec

-----------------------------------------------------------------------------
(* What the registry covers                                                *)

(* Ledger n is behind the process that runs.                               *)
Done(n) ==
  /\ pc # "down"
  /\ n < cur \/ (n = cur /\ pc # "ledger") \/ n <= disk.cursor

(* The escrows of the seed file and those deployed by the ledgers behind   *)
(* the process, or behind the cursor, are tracked or removed, and only     *)
(* commands remove.                                                        *)
CoverInv ==
  /\ pc # "down" => SeedFile \subseteq known \cup removed
  /\ disk # EmptyDisk => SeedFile \subseteq disk.escrows \cup disk.removed
  /\ removed \subseteq Removable
  /\ disk.removed \subseteq Removable
  /\ \A n \in Ledgers : Done(n) => Deploys[n] \subseteq known \cup removed
  /\ \A n \in Ledgers : n <= disk.cursor =>
                           Deploys[n] \subseteq disk.escrows \cup disk.removed

LEMMA ExecuteCovers ==
  ASSUME NEW c \in Commands, Execute(c), removed \subseteq Removable
  PROVE  /\ known \cup removed \subseteq known' \cup removed'
         /\ removed' \subseteq Removable
  <1>0. known' = TrackedAfter(c) /\ removed' = TombstonesAfter(c)
    BY DEF Execute
  <1>1. known \cup removed \subseteq known' \cup removed'
    <2>1. CASE c.kind = "track"
      BY <1>0, <2>1 DEF TrackedAfter, TombstonesAfter
    <2>2. CASE c.kind = "reseed"
      BY <1>0, <2>2 DEF TrackedAfter, TombstonesAfter
    <2>3. CASE c.kind = "remove"
      BY <1>0, <2>3 DEF TrackedAfter, TombstonesAfter
    <2>4. CASE c.kind \notin {"track", "reseed", "remove"}
      BY <1>0, <2>4 DEF TrackedAfter, TombstonesAfter
    <2>5. QED
      BY <2>1, <2>2, <2>3, <2>4
  <1>2. CASE c.kind = "remove"
    <2>1. c.ids \subseteq Removable
      BY <1>2 DEF Removable
    <2>2. removed' = removed \cup c.ids
      BY <1>0, <1>2 DEF TombstonesAfter
    <2>3. QED
      BY <1>1, <2>1, <2>2
  <1>3. CASE c.kind # "remove"
    <2>1. removed' \subseteq removed
      BY <1>0, <1>3 DEF TombstonesAfter
    <2>2. QED
      BY <1>1, <2>1
  <1>4. QED
    BY <1>2, <1>3

(* An action that only moves the loop leaves no ledger behind it anew.     *)
LEMMA GateDoes ==
  ASSUME TypeInv, pc \notin {"down", "ledger"}, Gate, NEW n \in Ledgers,
         disk'.cursor = disk.cursor \/ disk'.cursor = cur, Done(n)'
  PROVE  Done(n)
  BY ControlAssumption
  DEF ControlAssumption, Ledgers, Gate, NextLedger, Done, TypeInv, TypeOK

LEMMA CoverKept ==
  ASSUME TypeInv, CoverInv, [Next]_vars PROVE CoverInv'
  <1> USE DEF public, registry, history
  <1>0. disk.cursor \in Nat /\ cur \in Nat /\ \A n \in Ledgers : n \in Nat /\ n # 0
    BY ControlAssumption DEF ControlAssumption, Ledgers, TypeInv, TypeOK
  <1>1. CASE Boot
    <2>1. known' \cup removed' = IF disk = EmptyDisk THEN SeedFile
                                 ELSE disk.escrows \cup disk.removed
      BY <1>1 DEF Boot, EmptyDisk
    <2>2. \A n \in Ledgers : Done(n)' => n <= disk.cursor
      BY <1>0, <1>1, ControlAssumption
      DEF Boot, Done, ControlAssumption, Ledgers
    <2>3. disk = EmptyDisk => \A n \in Ledgers : ~(n <= disk.cursor)
      BY <1>0 DEF EmptyDisk
    <2>4. disk' = disk /\ removed' = disk.removed
      BY <1>1 DEF Boot
    <2>5. QED
      BY <2>1, <2>2, <2>3, <2>4 DEF CoverInv
  <1>2. CASE ProcessLedger
    <2>1. /\ known' = known \cup (Deploys[cur] \ removed)
          /\ removed' = removed /\ disk' = disk /\ pc # "down"
      BY <1>2 DEF ProcessLedger, Register
    <2>2. \A n \in Ledgers : Done(n)' => Done(n) \/ n = cur
      BY <1>0, <1>2 DEF ProcessLedger, Done
    <2>3. QED
      BY <2>1, <2>2 DEF CoverInv
  <1>3. CASE Checkpoint \/ Persist \/ HoldSave
    <2>1. /\ pc \notin {"down", "ledger"} /\ known' = known /\ removed' = removed
          /\ disk' = [escrows |-> known, removed |-> removed, cursor |-> cur]
      BY <1>3 DEF Checkpoint, Persist, HoldSave, Save
    <2>2. ASSUME NEW n \in Ledgers, Done(n)' PROVE Done(n)
      <3>1. CASE Persist
        BY <2>1, <2>2, <3>1, GateDoes DEF Persist
      <3>2. CASE Checkpoint \/ HoldSave
        BY <1>0, <2>1, <2>2, <3>2 DEF Checkpoint, HoldSave, Done
      <3>3. QED
        BY <1>3, <3>1, <3>2
    <2>3. \A n \in Ledgers : n <= cur => Done(n)
      BY <1>0, <2>1 DEF Done
    <2>4. disk'.escrows = known /\ disk'.removed = removed /\ disk'.cursor = cur
      BY <2>1
    <2>5. QED
      BY <2>1, <2>2, <2>3, <2>4 DEF CoverInv
  <1>4. ASSUME NEW c \in Commands, DrainCommand(c) \/ HoldCommand(c)
        PROVE  CoverInv'
    <2>1. Execute(c) /\ pc # "down" /\ disk' = disk /\ cur' = cur
      BY <1>4 DEF DrainCommand, HoldCommand, Execute
    <2>2. \A n \in Ledgers : Done(n)' => Done(n)
      BY <1>4, <2>1 DEF DrainCommand, HoldCommand, Done
    <2>3. /\ known \cup removed \subseteq known' \cup removed'
          /\ removed' \subseteq Removable
      BY <2>1, ExecuteCovers DEF CoverInv
    <2>4. QED
      BY <2>1, <2>2, <2>3 DEF CoverInv
  <1>5. ASSUME NEW why, Exit(why), UNCHANGED disk PROVE CoverInv'
    BY <1>5 DEF Exit, CoverInv, Done
  <1>6. CASE Crash
    <2>1. ASSUME disk' = [escrows |-> known, removed |-> removed,
                          cursor |-> disk.cursor], Exit("crash")
          PROVE  CoverInv'
      <3>1. /\ disk'.escrows = known /\ disk'.removed = removed
            /\ disk'.cursor = disk.cursor
        BY <2>1
      <3>2. \A n \in Ledgers : n <= disk.cursor => Done(n)
        BY <1>6 DEF Crash, Done
      <3>3. pc # "down" /\ pc' = "down" /\ removed' = {}
        BY <1>6, <2>1 DEF Crash, Exit
      <3>4. QED
        BY <3>1, <3>2, <3>3 DEF CoverInv, Done
    <2>2. QED
      BY <1>5, <1>6, <2>1 DEF Crash
  <1>7. ASSUME UNCHANGED <<known, removed, disk>>,
               pc # "down" \/ pc' = "down",
               \A n \in Ledgers : Done(n)' => Done(n)
        PROVE  CoverInv'
    BY <1>7 DEF CoverInv
  <1>8. ASSUME UNCHANGED <<known, removed, disk>>, pc \notin {"down", "ledger"},
               Gate \/ (cur' = cur /\ pc' # "down")
        PROVE  CoverInv'
    <2>1. ASSUME NEW n \in Ledgers, Done(n)' PROVE Done(n)
      <3>1. CASE Gate
        BY <1>8, <2>1, <3>1, GateDoes
      <3>2. CASE cur' = cur
        BY <1>8, <2>1, <3>2 DEF Done
      <3>3. QED
        BY <1>8, <3>1, <3>2
    <2>2. QED
      BY <1>7, <1>8, <2>1
  <1>9. CASE SkipCheckpoint
    BY <1>8, <1>9 DEF SkipCheckpoint
  <1>10. CASE DrainEnds \/ HoldCheck
    BY <1>8, <1>10 DEF DrainEnds, HoldCheck
  <1>11. CASE HoldExpires
    <2>1. Gate
      BY <1>11 DEF HoldExpires, Gate
    <2>2. QED
      BY <1>8, <1>11, <2>1 DEF HoldExpires
  <1>12. ASSUME UNCHANGED <<known, removed, disk, pc, cur>> PROVE CoverInv'
    BY <1>7, <1>12 DEF Done
  <1>13. ASSUME NEW c \in Commands, Accept(c) PROVE CoverInv'
    BY <1>12, <1>13 DEF Accept
  <1>14. ASSUME NEW n \in Ledgers, ReplayStarts(n) PROVE CoverInv'
    BY <1>12, <1>14 DEF ReplayStarts
  <1>15. CASE Tick \/ ReplayLedger \/ ReplayEnds \/ UNCHANGED vars
    BY <1>12, <1>15 DEF Tick, ReplayLedger, ReplayEnds, vars
  <1>16. ASSUME NEW c \in Commands, CommandFails(c) PROVE CoverInv'
    BY <1>5, <1>16 DEF CommandFails
  <1>17. ASSUME NEW f, LedgerFails(f) PROVE CoverInv'
    BY <1>5, <1>17 DEF LedgerFails
  <1>18. QED
    BY <1>1, <1>2, <1>3, <1>4, <1>6, <1>9, <1>10, <1>11, <1>13, <1>14, <1>15,
       <1>16, <1>17
    DEF Next, Loop, FactRefused, PublishFails

LEMMA CoverStarts == Init => CoverInv
  BY DEF Init, CoverInv, Done, EmptyDisk, Ledgers

-----------------------------------------------------------------------------
(* Durability                                                              *)

(* Nothing the commands changed waits for a save.                          *)
Clean == \/ pc \in {"ledger", "save", "hold", "held"}
         \/ pc = "drain" /\ ~dirty

CleanInv == Clean => /\ removed = disk.removed
                     /\ \A e \in known : Recoverable(e)

(* A command that does not count as a mutation changes nothing.            *)
LEMMA NoMutation ==
  ASSUME NEW c \in Commands, Execute(c), ~Mutates(c), known \cap removed = {}
  PROVE  known' = known /\ removed' = removed
  <1>0. known' = TrackedAfter(c) /\ removed' = TombstonesAfter(c)
    BY DEF Execute
  <1>1. c.kind # "remove" /\ TrackedAfter(c) = known
    BY DEF Mutates
  <1>2. CASE c.kind = "track"
    BY <1>0, <1>1, <1>2 DEF TrackedAfter, TombstonesAfter
  <1>3. CASE c.kind # "track"
    BY <1>0, <1>1, <1>3 DEF TombstonesAfter
  <1>4. QED
    BY <1>2, <1>3

LEMMA StaysRecoverable ==
  ASSUME TypeInv, UNCHANGED disk, cur <= cur', cur' \in Nat,
         NEW e, Recoverable(e)
  PROVE  Recoverable(e)'
  BY ControlAssumption
  DEF ControlAssumption, Ledgers, Recoverable, TypeInv, TypeOK

LEMMA GateGrows ==
  ASSUME TypeInv, pc # "down", Gate \/ cur' = cur
  PROVE  cur <= cur' /\ cur' \in Nat
  BY ControlAssumption
  DEF ControlAssumption, Gate, NextLedger, TypeInv, TypeOK

LEMMA CleanKept ==
  ASSUME TypeInv, WordsInv, CoverInv, CleanInv, [Next]_vars PROVE CleanInv'
  <1> USE DEF public, registry, history
  <1>0. disk.cursor \in Nat /\ cur \in Nat
    BY ControlAssumption DEF ControlAssumption, TypeInv, TypeOK
  <1>1. CASE Boot
    <2>1. removed' = disk'.removed /\ disk' = disk
      BY <1>1 DEF Boot
    <2>2. \A e \in known' : e \in disk.escrows \/ (disk = EmptyDisk /\ e \in SeedFile)
      BY <1>1 DEF Boot
    <2>3. QED
      BY <2>1, <2>2 DEF CleanInv, Recoverable
  <1>2. CASE ProcessLedger
    <2>1. /\ known' = known \cup (Deploys[cur] \ removed) /\ removed' = removed
          /\ disk' = disk /\ cur' = cur /\ Clean /\ cur \in Ledgers
      BY <1>2, ControlAssumption
      DEF ProcessLedger, Register, Clean, Ledgers, TypeInv, TypeOK,
          ControlAssumption
    <2>2. removed = disk.removed /\ \A e \in known : Recoverable(e)
      BY <2>1 DEF CleanInv
    <2>3. ASSUME NEW e \in Deploys[cur] \ removed PROVE Recoverable(e)
      <3>1. CASE disk.cursor < cur
        BY <1>0, <2>1, <2>3, <3>1 DEF Recoverable
      <3>2. CASE cur <= disk.cursor
        BY <2>1, <2>2, <2>3, <3>2 DEF CoverInv, Recoverable
      <3>3. QED
        BY <1>0, <3>1, <3>2
    <2>4. \A e : Recoverable(e) => Recoverable(e)'
      BY <2>1 DEF Recoverable
    <2>5. QED
      BY <2>1, <2>2, <2>3, <2>4 DEF CleanInv
  <1>3. CASE Checkpoint \/ Persist \/ HoldSave
    <2>1. /\ known' = known /\ removed' = removed
          /\ disk'.escrows = known /\ disk'.removed = removed
      BY <1>3 DEF Checkpoint, Persist, HoldSave, Save
    <2>2. QED
      BY <2>1 DEF CleanInv, Recoverable
  <1>4. ASSUME UNCHANGED <<known, removed, disk>>, Clean' => Clean,
               cur <= cur', cur' \in Nat
        PROVE  CleanInv'
    BY <1>4, StaysRecoverable DEF CleanInv
  <1>5. ASSUME NEW c \in Commands, DrainCommand(c) \/ HoldCommand(c)
        PROVE  CleanInv'
    <2>1. Execute(c) /\ disk' = disk /\ cur' = cur
      BY <1>5 DEF DrainCommand, HoldCommand, Execute
    <2>2. CASE Mutates(c)
      BY <1>5, <2>2 DEF DrainCommand, HoldCommand, CleanInv, Clean
    <2>3. CASE ~Mutates(c)
      <3>1. known' = known /\ removed' = removed
        BY <2>1, <2>3, NoMutation DEF WordsInv, Agree
      <3>2. Clean' => Clean
        BY <1>5, <2>3 DEF DrainCommand, HoldCommand, Clean
      <3>3. QED
        BY <1>0, <1>4, <2>1, <3>1, <3>2
    <2>4. QED
      BY <2>2, <2>3
  <1>6. ASSUME NEW why, Exit(why) PROVE CleanInv'
    BY <1>6 DEF Exit, CleanInv, Clean
  <1>7. CASE DrainEnds
    <2>1. CASE dirty
      BY <1>7, <2>1 DEF DrainEnds, CleanInv, Clean
    <2>2. CASE ~dirty
      <3>1. Clean /\ pc # "down" /\ Gate /\ UNCHANGED <<known, removed, disk>>
        BY <1>7, <2>2 DEF DrainEnds, Clean
      <3>2. QED
        BY <1>4, <3>1, GateGrows
    <2>3. QED
      BY <2>1, <2>2
  <1>8. CASE HoldCheck \/ HoldExpires
    <2>1. Clean /\ pc # "down" /\ Gate /\ UNCHANGED <<known, removed, disk>>
      BY <1>8 DEF HoldCheck, HoldExpires, Gate, Clean
    <2>2. QED
      BY <1>4, <2>1, GateGrows
  <1>9. CASE SkipCheckpoint
    <2>1. Clean /\ cur' = cur /\ UNCHANGED <<known, removed, disk>>
      BY <1>9 DEF SkipCheckpoint, Clean
    <2>2. QED
      BY <1>0, <1>4, <2>1
  <1>10. ASSUME UNCHANGED <<known, removed, disk, pc, dirty, cur>> PROVE CleanInv'
    BY <1>0, <1>4, <1>10 DEF Clean
  <1>11. ASSUME NEW c \in Commands, Accept(c) PROVE CleanInv'
    BY <1>10, <1>11 DEF Accept
  <1>12. ASSUME NEW n \in Ledgers, ReplayStarts(n) PROVE CleanInv'
    BY <1>10, <1>12 DEF ReplayStarts
  <1>13. CASE Tick \/ ReplayLedger \/ ReplayEnds \/ UNCHANGED vars
    BY <1>10, <1>13 DEF Tick, ReplayLedger, ReplayEnds, vars
  <1>14. ASSUME NEW c \in Commands, CommandFails(c) PROVE CleanInv'
    BY <1>6, <1>14 DEF CommandFails
  <1>15. ASSUME NEW f, LedgerFails(f) PROVE CleanInv'
    BY <1>6, <1>15 DEF LedgerFails
  <1>16. CASE Crash
    BY <1>6, <1>16 DEF Crash
  <1>17. QED
    BY <1>1, <1>2, <1>3, <1>5, <1>7, <1>8, <1>9, <1>11, <1>12, <1>13, <1>14,
       <1>15, <1>16
    DEF Next, Loop, FactRefused, PublishFails

LEMMA CleanStarts == Init => CleanInv
  BY DEF Init, CleanInv, Clean

(* A command executed is durable before the next ledger is worked on.      *)
THEOREM CommandsDurable == Spec => []DurableBeforeWork
  <1>1. ASSUME WordsInv, CleanInv PROVE DurableBeforeWork
    <2> SUFFICES ASSUME pc \in {"ledger", "save"}, NEW e \in Escrows
                 PROVE  /\ said[e] = "remove" => e \in disk.removed
                        /\ said[e] = "track"  => Recoverable(e)
      BY DEF DurableBeforeWork, Durable
    <2>1. removed = disk.removed /\ \A x \in known : Recoverable(x)
      BY <1>1 DEF CleanInv, Clean
    <2>2. QED
      BY <1>1, <2>1 DEF WordsInv, Agree
  <1>2. QED
    BY <1>1, TypeStarts, TypeKept, WordsStart, WordsKept, CoverStarts, CoverKept,
       CleanStarts, CleanKept, PTL DEF Spec

(* An error loses a mutation only between the commands of one drain: in a  *)
(* ledger and in a hold every mutation executed is already durable when    *)
(* the process ends.  There MutationSurvivesError holds.                   *)
OnlyDrainLoses ==
  [][exit' = "error" /\ pc' = "down" /\ pc # "down"
       => Durable \/ (pc = "drain" /\ dirty)]_vars

THEOREM MutationLossDelimited == Spec => OnlyDrainLoses
  <1> DEFINE Kept == exit' = "error" /\ pc' = "down" /\ pc # "down"
                       => Durable \/ (pc = "drain" /\ dirty)
  <1>1. WordsInv /\ CleanInv /\ [Next]_vars => [Kept]_vars
    <2> SUFFICES ASSUME WordsInv, CleanInv, Next, exit' = "error", pc' = "down",
                        pc # "down", ~(pc = "drain" /\ dirty)
                 PROVE  Durable
      OBVIOUS
    <2>1. ASSUME NEW c \in Commands, CommandFails(c)
          PROVE  pc \in {"drain", "hold"}
      BY <2>1 DEF CommandFails
    <2>2. ASSUME FactRefused \/ PublishFails
          PROVE  pc = "ledger"
      BY <2>2 DEF FactRefused, PublishFails, LedgerFails
    <2>3. ~Crash
      BY DEF Crash, Exit
    <2>4. ~(Boot \/ Checkpoint \/ SkipCheckpoint \/ DrainEnds \/ Persist
            \/ ProcessLedger \/ HoldSave \/ HoldCheck \/ HoldExpires)
      BY DEF Boot, Checkpoint, SkipCheckpoint, DrainEnds, Persist, ProcessLedger,
             HoldSave, HoldCheck, HoldExpires, Gate, NextLedger
    <2>5. ASSUME NEW c \in Commands
          PROVE  ~(DrainCommand(c) \/ HoldCommand(c) \/ Accept(c))
      BY DEF DrainCommand, HoldCommand, Accept
    <2>6. ASSUME NEW n \in Ledgers PROVE ~ReplayStarts(n)
      BY DEF ReplayStarts
    <2>7. ~(Tick \/ ReplayLedger \/ ReplayEnds)
      BY DEF Tick, ReplayLedger, ReplayEnds
    <2>8. Clean
      <3>1. pc \in {"ledger", "drain", "hold"}
        BY <2>1, <2>2, <2>3, <2>4, <2>5, <2>6, <2>7 DEF Next, Loop
      <3>2. QED
        BY <3>1, Zenon DEF Clean
    <2>9. removed = disk.removed /\ \A e \in known : Recoverable(e)
      BY <2>8 DEF CleanInv
    <2>10. QED
      BY <2>9 DEF WordsInv, Agree, Durable
  <1>2. QED
    BY <1>1, TypeStarts, TypeKept, WordsStart, WordsKept, CoverStarts, CoverKept,
       CleanStarts, CleanKept, PTL DEF Spec, OnlyDrainLoses

-----------------------------------------------------------------------------
(* Messages                                                                *)

(* A message is coded: its id is made from the place of its event.         *)
Code(n, s)   == MessageId(n, s[1], Index(Chain[n][s[1]].ops, s[2]))
Coded(f)     == \E n \in Ledgers : \E s \in Spots(Chain[n]) :
                  f.msg = Code(n, s) /\ f.at = <<n, s>>
SentInv      == \A f \in sent : Coded(f)

LEMMA FactsForm ==
  ASSUME NEW n \in Ledgers, NEW tracked \in SUBSET Escrows
  PROVE  FactsOf[n][tracked] =
           UNION {{[msg |-> Code(n, s), at |-> <<n, s>>, about |-> c] :
                     c \in Classify(EventAt(Chain[n], s), tracked)} :
                  s \in Spots(Chain[n])}
  BY DEF FactsOf, Facts, Code

LEMMA FactsCoded ==
  ASSUME NEW n \in Ledgers, NEW tracked \in SUBSET Escrows,
         NEW f \in FactsOf[n][tracked]
  PROVE  Coded(f)
  <1>1. PICK s \in Spots(Chain[n]) :
          \E c \in Classify(EventAt(Chain[n], s), tracked) :
            f = [msg |-> Code(n, s), at |-> <<n, s>>, about |-> c]
    BY FactsForm
  <1>2. f.msg = Code(n, s) /\ f.at = <<n, s>>
    BY <1>1
  <1>3. QED
    BY <1>2 DEF Coded

LEMMA MessagesCoded ==
  ASSUME NEW facts, \A f \in facts : Coded(f), NEW m \in Messages(facts)
  PROVE  Coded(m)
  <1>1. PICK f \in facts : m = [msg |-> f.msg, at |-> f.at]
    BY DEF Messages
  <1>2. m.msg = f.msg /\ m.at = f.at
    BY <1>1
  <1>3. QED
    BY <1>2 DEF Coded

LEMMA SpotsForm ==
  ASSUME NEW n \in Ledgers, NEW s \in Spots(Chain[n])
  PROVE  /\ Chain[n][s[1]].ops \in Seq(Seq(Event))
         /\ s[2] \in Places(Chain[n][s[1]].ops) /\ s = <<s[1], s[2]>>
  <1>1. Chain[n] \in Seq(Transaction)
    BY ControlAssumption DEF ControlAssumption
  <1>2. PICK t \in DOMAIN Chain[n] : s \in {t} \X Places(Chain[n][t].ops)
    BY DEF Spots
  <1>3. Chain[n][t] \in Transaction
    BY <1>1
  <1>4. Chain[n][t].ops \in Seq(Seq(Event))
    BY <1>3 DEF Transaction
  <1>5. QED
    BY <1>2, <1>4

(* The code is injective, and one of the place alone.                      *)
LEMMA CodesAgree ==
  ASSUME NEW f, NEW g, Coded(f), Coded(g) PROVE f.msg = g.msg <=> f.at = g.at
  <1>1. PICK n \in Ledgers : \E s \in Spots(Chain[n]) :
          f.msg = Code(n, s) /\ f.at = <<n, s>>
    BY DEF Coded
  <1>2. PICK s \in Spots(Chain[n]) :
          f.msg = Code(n, s) /\ f.at = <<n, s>>
    BY <1>1
  <1>3. PICK m \in Ledgers : \E r \in Spots(Chain[m]) :
          g.msg = Code(m, r) /\ g.at = <<m, r>>
    BY DEF Coded
  <1>4. PICK r \in Spots(Chain[m]) :
          g.msg = Code(m, r) /\ g.at = <<m, r>>
    BY <1>3
  <1>5. ASSUME f.msg = g.msg PROVE f.at = g.at
    <2>1. /\ n = m /\ s[1] = r[1]
          /\ Index(Chain[n][s[1]].ops, s[2]) = Index(Chain[m][r[1]].ops, r[2])
      BY <1>2, <1>4, <1>5 DEF Code, MessageId
    <2>2. s[2] = r[2]
      BY <2>1, SpotsForm, IndexTellsApart
    <2>3. s = r
      BY <2>1, <2>2, SpotsForm
    <2>4. QED
      BY <1>2, <1>4, <2>1, <2>3
  <1>6. ASSUME f.at = g.at PROVE f.msg = g.msg
    <2>1. n = m /\ s = r
      BY <1>2, <1>4, <1>6
    <2>2. QED
      BY <1>2, <1>4, <2>1
  <1>7. QED
    BY <1>5, <1>6

LEMMA LedgerIsType ==
  ASSUME TypeInv, pc = "ledger"
  PROVE  cur \in Ledgers /\ Register(Deploys[cur]) \in SUBSET Escrows
  BY RegisterType, ControlAssumption
  DEF ControlAssumption, Ledgers, TypeInv, TypeOK

LEMMA ReplayIsType ==
  ASSUME TypeInv, replay.at # 0
  PROVE  replay.at \in Ledgers /\ ReplayKnown \in SUBSET Escrows
  <1>1. replay.at \in Ledgers
    BY ControlAssumption DEF ControlAssumption, Ledgers, TypeInv, TypeOK
  <1>2. ReplayKnown \subseteq Escrows
    BY <1>1, DeploysType DEF ReplayKnown, TypeInv, TypeOK
  <1>3. QED
    BY <1>1, <1>2

LEMMA SentKept == ASSUME TypeInv, SentInv, [Next]_vars PROVE SentInv'
  <1> USE DEF public, registry, history
  <1>1. ASSUME NEW facts, \A f \in facts : Coded(f),
               sent' = sent \cup Messages(facts)
        PROVE  SentInv'
    BY <1>1, MessagesCoded DEF SentInv
  <1>2. CASE ProcessLedger
    <2>1. \A f \in LedgerFacts : Coded(f)
      BY <1>2, LedgerIsType, FactsCoded DEF ProcessLedger, LedgerFacts
    <2>2. QED
      BY <1>1, <1>2, <2>1 DEF ProcessLedger
  <1>3. ASSUME NEW f, LedgerFails(f) PROVE SentInv'
    <2>1. \A g \in Earlier(f, LedgerFacts) : Coded(g)
      BY <1>3, LedgerIsType, FactsCoded DEF LedgerFails, LedgerFacts, Earlier
    <2>2. QED
      BY <1>1, <1>3, <2>1 DEF LedgerFails
  <1>4. CASE ReplayLedger
    <2>1. \A f \in ReplayFacts : Coded(f)
      BY <1>4, ReplayIsType, FactsCoded DEF ReplayLedger, ReplayFacts
    <2>2. QED
      BY <1>1, <1>4, <2>1 DEF ReplayLedger
  <1>5. ASSUME UNCHANGED sent PROVE SentInv'
    BY <1>5 DEF SentInv
  <1>6. CASE \/ Boot \/ Checkpoint \/ SkipCheckpoint \/ DrainEnds \/ Persist
             \/ HoldSave \/ HoldCheck \/ HoldExpires \/ Crash \/ Tick
             \/ ReplayEnds \/ UNCHANGED vars
    BY <1>5, <1>6
    DEF Boot, Checkpoint, SkipCheckpoint, DrainEnds, Persist, HoldSave, HoldCheck,
        HoldExpires, Crash, Tick, ReplayEnds, vars
  <1>7. ASSUME NEW c \in Commands,
               \/ DrainCommand(c) \/ HoldCommand(c) \/ Accept(c) \/ CommandFails(c)
        PROVE  SentInv'
    BY <1>5, <1>7 DEF DrainCommand, HoldCommand, Execute, Accept, CommandFails
  <1>8. ASSUME NEW n \in Ledgers, ReplayStarts(n) PROVE SentInv'
    BY <1>5, <1>8 DEF ReplayStarts
  <1>9. QED
    BY <1>2, <1>3, <1>4, <1>6, <1>7, <1>8 DEF Next, Loop, FactRefused, PublishFails

LEMMA SentStarts == Init => SentInv
  BY DEF Init, SentInv

(* A message id names one physical event, and an event has one id, for     *)
(* every chain and whoever published it.                                   *)
THEOREM IdsNameEvents == Spec => []OneIdPerEvent
  <1>1. SentInv => OneIdPerEvent
    BY CodesAgree DEF SentInv, OneIdPerEvent
  <1>2. QED
    BY <1>1, TypeStarts, TypeKept, SentStarts, SentKept, PTL DEF Spec

-----------------------------------------------------------------------------
(* Delivery                                                                *)

Covered(n)   == \A f \in Owed[n] : \E g \in sent : g.at = f.at
DeliveredInv == \A n \in Ledgers : Done(n) \/ n <= disk.cursor => Covered(n)

LEMMA ClassifyGrows ==
  ASSUME NEW ev, NEW small, NEW large, small \subseteq large,
         Classify(ev, small) # {}
  PROVE  Classify(ev, large) # {}
  BY DEF Classify

(* A larger registry makes facts of all that a smaller one does.           *)
LEMMA FactsGrow ==
  ASSUME NEW n \in Ledgers, NEW large \in SUBSET Escrows,
         NEW small \in SUBSET large, NEW f \in FactsOf[n][small]
  PROVE  \E g \in FactsOf[n][large] : g.at = f.at
  <1>1. PICK s \in Spots(Chain[n]) :
          \E c \in Classify(EventAt(Chain[n], s), small) :
            f = [msg |-> Code(n, s), at |-> <<n, s>>, about |-> c]
    BY FactsForm
  <1>2. PICK c \in Classify(EventAt(Chain[n], s), large) : TRUE
    BY <1>1, ClassifyGrows
  <1>3. [msg |-> Code(n, s), at |-> <<n, s>>, about |-> c] \in FactsOf[n][large]
    BY FactsForm
  <1>4. QED
    BY <1>1, <1>3

LEMMA SinceType ==
  ASSUME NEW n \in Ledgers PROVE Since(n) \subseteq Escrows /\ n \in Nat
  <1>1. \A m \in 1 .. n : m \in Ledgers
    BY ControlAssumption DEF ControlAssumption, Ledgers
  <1>2. QED
    BY <1>1, DeploysType, ControlAssumption
    DEF ControlAssumption, Since, Ledgers

(* What discovery leaves tracked in a ledger includes all that is owed.    *)
LEMMA OwedTracked ==
  ASSUME TypeInv, CoverInv, pc = "ledger"
  PROVE  Since(cur) \ Removable \subseteq Register(Deploys[cur])
  <1>1. cur \in Ledgers /\ cur \in Nat
    BY LedgerIsType, SinceType
  <1>2. ASSUME NEW m \in 1 .. cur PROVE Deploys[m] \subseteq known \cup removed \cup Deploys[cur]
    <2>1. CASE m = cur
      BY <2>1
    <2>2. CASE m # cur
      <3>1. m \in Ledgers /\ Done(m)
        BY <1>1, <2>2, ControlAssumption DEF ControlAssumption, Ledgers, Done
      <3>2. QED
        BY <3>1 DEF CoverInv
    <2>3. QED
      BY <2>1, <2>2
  <1>3. SeedFile \subseteq known \cup removed /\ removed \subseteq Removable
    BY DEF CoverInv
  <1>4. Since(cur) \subseteq known \cup removed \cup Deploys[cur]
    BY <1>2, <1>3 DEF Since
  <1>5. QED
    BY <1>3, <1>4 DEF Register

LEMMA LedgerCovers ==
  ASSUME TypeInv, CoverInv, ProcessLedger
  PROVE  \A f \in Owed[cur] : \E g \in sent' : g.at = f.at
  <1>1. cur \in Ledgers /\ Register(Deploys[cur]) \in SUBSET Escrows
    BY LedgerIsType DEF ProcessLedger
  <1> SUFFICES ASSUME NEW f \in Owed[cur] PROVE \E g \in sent' : g.at = f.at
    OBVIOUS
  <1>2. f \in FactsOf[cur][Since(cur) \ Removable]
    BY <1>1 DEF Owed
  <1>3. PICK g \in LedgerFacts : g.at = f.at
    BY <1>1, <1>2, OwedTracked, FactsGrow DEF ProcessLedger, LedgerFacts
  <1>4. [msg |-> g.msg, at |-> g.at] \in sent'
    BY <1>3 DEF ProcessLedger, Messages
  <1>5. QED
    BY <1>3, <1>4

LEMMA DeliveredKept ==
  ASSUME TypeInv, CoverInv, DeliveredInv, [Next]_vars PROVE DeliveredInv'
  <1> USE DEF public, registry, history
  <1>0. disk.cursor \in Nat /\ cur \in Nat /\ \A n \in Ledgers : n \in Nat
    BY ControlAssumption DEF ControlAssumption, Ledgers, TypeInv, TypeOK
  <1>1. ASSUME sent \subseteq sent',
               \A n \in Ledgers : Done(n)' \/ n <= disk'.cursor =>
                                  Done(n) \/ n <= disk.cursor
        PROVE  DeliveredInv'
    BY <1>1 DEF DeliveredInv, Covered
  <1>2. CASE ProcessLedger
    <2>1. \A n \in Ledgers : Done(n)' => Done(n) \/ n = cur
      BY <1>0, <1>2 DEF ProcessLedger, Done
    <2>2. sent \subseteq sent' /\ disk' = disk
      BY <1>2 DEF ProcessLedger
    <2>3. QED
      BY <1>2, <2>1, <2>2, LedgerCovers DEF DeliveredInv, Covered
  <1>3. CASE Boot
    <2>1. \A n \in Ledgers : Done(n)' => n <= disk.cursor
      BY <1>0, <1>3, ControlAssumption
      DEF Boot, Done, ControlAssumption, Ledgers
    <2>2. sent' = sent /\ disk' = disk
      BY <1>3 DEF Boot
    <2>3. QED
      BY <1>1, <2>1, <2>2
  <1>4. CASE Checkpoint \/ Persist \/ HoldSave
    <2>1. /\ pc \notin {"down", "ledger"} /\ sent' = sent /\ disk'.cursor = cur
      BY <1>4 DEF Checkpoint, Persist, HoldSave, Save
    <2>2. ASSUME NEW n \in Ledgers, Done(n)' PROVE Done(n)
      <3>1. CASE Persist
        BY <2>1, <2>2, <3>1, GateDoes DEF Persist
      <3>2. CASE Checkpoint \/ HoldSave
        BY <1>0, <2>1, <2>2, <3>2 DEF Checkpoint, HoldSave, Done
      <3>3. QED
        BY <1>4, <3>1, <3>2
    <2>3. \A n \in Ledgers : n <= cur => Done(n)
      BY <1>0, <2>1 DEF Done
    <2>4. QED
      BY <1>1, <2>1, <2>2, <2>3
  <1>5. CASE SkipCheckpoint \/ DrainEnds \/ HoldCheck \/ HoldExpires
    <2>1. /\ pc \notin {"down", "ledger"} /\ sent' = sent /\ disk' = disk
          /\ Gate \/ (cur' = cur /\ pc' # "down")
      BY <1>5
      DEF SkipCheckpoint, DrainEnds, HoldCheck, HoldExpires, Gate
    <2>2. ASSUME NEW n \in Ledgers, Done(n)' PROVE Done(n)
      <3>1. CASE Gate
        BY <2>1, <2>2, <3>1, GateDoes
      <3>2. CASE cur' = cur
        BY <2>1, <2>2, <3>2 DEF Done
      <3>3. QED
        BY <2>1, <3>1, <3>2
    <2>3. QED
      BY <1>1, <2>1, <2>2
  <1>6. ASSUME NEW why, Exit(why), sent \subseteq sent', disk'.cursor = disk.cursor
        PROVE  DeliveredInv'
    <2>1. \A n \in Ledgers : ~Done(n)'
      BY <1>6 DEF Exit, Done
    <2>2. QED
      BY <1>1, <1>6, <2>1
  <1>7. CASE Crash
    BY <1>6, <1>7 DEF Crash
  <1>8. ASSUME NEW c \in Commands, CommandFails(c) PROVE DeliveredInv'
    BY <1>6, <1>8 DEF CommandFails
  <1>9. ASSUME NEW f, LedgerFails(f) PROVE DeliveredInv'
    BY <1>6, <1>9 DEF LedgerFails
  <1>10. ASSUME NEW c \in Commands, DrainCommand(c) \/ HoldCommand(c)
         PROVE  DeliveredInv'
    <2>1. pc \notin {"down", "ledger"} /\ disk' = disk /\ cur' = cur /\ sent' = sent
      BY <1>10 DEF DrainCommand, HoldCommand, Execute
    <2>2. \A n \in Ledgers : Done(n)' => Done(n)
      BY <2>1 DEF Done
    <2>3. QED
      BY <1>1, <2>1, <2>2
  <1>11. ASSUME UNCHANGED <<disk, pc, cur>>, sent \subseteq sent' PROVE DeliveredInv'
    BY <1>1, <1>11 DEF Done
  <1>12. ASSUME NEW c \in Commands, Accept(c) PROVE DeliveredInv'
    BY <1>11, <1>12 DEF Accept
  <1>13. ASSUME NEW n \in Ledgers, ReplayStarts(n) PROVE DeliveredInv'
    BY <1>11, <1>13 DEF ReplayStarts
  <1>14. CASE Tick \/ ReplayLedger \/ ReplayEnds \/ UNCHANGED vars
    BY <1>11, <1>14 DEF Tick, ReplayLedger, ReplayEnds, vars
  <1>15. QED
    BY <1>2, <1>3, <1>4, <1>5, <1>7, <1>8, <1>9, <1>10, <1>12, <1>13, <1>14
    DEF Next, Loop, FactRefused, PublishFails

LEMMA DeliveredStarts == Init => DeliveredInv
  BY DEF Init, DeliveredInv, Done, EmptyDisk, Ledgers

(* The facts about an escrow that no operator removes are out before the   *)
(* cursor passes their ledger.                                             *)
THEOREM DeliveredInTime == Spec => []FactsDelivered
  <1>1. ASSUME TypeInv, DeliveredInv PROVE FactsDelivered
    <2>1. \A n \in 1 .. disk.cursor : n \in Ledgers /\ n <= disk.cursor
      BY <1>1, ControlAssumption
      DEF ControlAssumption, Ledgers, TypeInv, TypeOK
    <2>2. QED
      BY <1>1, <2>1 DEF DeliveredInv, Covered, FactsDelivered
  <1>2. QED
    BY <1>1, TypeStarts, TypeKept, CoverStarts, CoverKept, DeliveredStarts,
       DeliveredKept, PTL DEF Spec
=============================================================================
