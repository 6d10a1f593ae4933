---------------------------- MODULE Vitals_proofs ---------------------------
(***************************************************************************)
(* Proofs about Vitals, for every length of the time limits.  The fetch is *)
(* a part of the whole that can be reasoned about alone: every step of     *)
(* Vitals is one of FetchNext or leaves the fetch as it is.                *)
(***************************************************************************)
EXTENDS Vitals, TLAPS

-----------------------------------------------------------------------------
(* The fetch of a ledger                                                   *)

(* The time a fetch has taken is at least what it has counted, and while   *)
(* it goes on an attempt is left.                                          *)
HeldInv ==
  /\ stage # "idle" => attempt <= MaxAttempts
  /\ stage = "call" => /\ timer <= StallBudget
                       /\ held >= tipWaited + (StallBudget - timer)
  /\ stage = "tipWait" => held >= tipWaited - timer
  /\ stage = "backoff" => held >= tipWaited

FetchInv == FetchTypeOK /\ HeldInv /\ NoFakeStall

LEMMA BudgetType ==
  /\ StallBudget \in Nat
  /\ StallBudget - TipWaitInterval > LedgerFetchTimeout
  BY FetchAssumption DEF FetchAssumption, StallBudget

LEMMA FetchStarts == FetchInit => FetchInv
  BY FetchAssumption
  DEF FetchAssumption, FetchInit, FetchInv, FetchTypeOK, HeldInv, NoFakeStall

LEMMA FetchKept == ASSUME FetchInv, [FetchNext]_fetchVars PROVE FetchInv'
  <1> USE FetchAssumption, BudgetType
      DEF FetchAssumption, FetchInv, FetchTypeOK, HeldInv, NoFakeStall
  <1>1. CASE BeginFetch
    BY <1>1 DEF BeginFetch, Call
  <1>2. CASE LedgerServed
    BY <1>2 DEF LedgerServed, Return
  <1>3. CASE CallStalls
    BY <1>3 DEF CallStalls, Return
  <1>4. CASE NotRetried
    BY <1>4 DEF NotRetried, Return
  <1>5. CASE BeyondTip
    BY <1>5 DEF BeyondTip, Return, Sleep
  <1>6. CASE TipWaitEnds
    BY <1>6 DEF TipWaitEnds, Call
  <1>7. CASE TransientError
    BY <1>7 DEF TransientError, Sleep
  <1>8. CASE BackoffEnds
    BY <1>8 DEF BackoffEnds, Doubled, Return, Call
  <1>9. CASE Forget
    BY <1>9 DEF Forget
  <1>10. CASE FetchElapses
    BY <1>10 DEF FetchElapses, fetchVars
  <1>11. CASE UNCHANGED fetchVars
    BY <1>11 DEF fetchVars
  <1>12. QED
    BY <1>1, <1>2, <1>3, <1>4, <1>5, <1>6, <1>7, <1>8, <1>9, <1>10, <1>11
    DEF FetchNext, FetchGoesOn

(* Whatever the loop does around it, the fetch follows its specification.  *)
THEOREM FetchIsPart == Spec => FetchSpec
  <1>1. Init => FetchInit
    BY DEF Init
  <1>2. [Next]_vars => [FetchNext]_fetchVars
    BY DEF Next, vars, fetchVars, FetchNext, Boot, Fetch, FetchStep, TakeLedger,
           LedgerDone, Pause, Resume, CommandsDone, HoldEnds, Die, Request, Elapse
  <1>3. QED
    BY <1>1, <1>2, PTL DEF Spec, FetchSpec

(* An endpoint is called stalled only after it has held the loop longer    *)
(* than a legal request may take, for every setting of the timeouts.       *)
THEOREM NoneFalselyStalled == Spec => []NoFakeStall
  <1>1. FetchInv => NoFakeStall
    BY DEF FetchInv
  <1>2. FetchSpec => []FetchInv
    BY FetchStarts, FetchKept, PTL DEF FetchSpec
  <1>3. QED
    BY <1>1, <1>2, FetchIsPart, PTL
-----------------------------------------------------------------------------
(* How long a fetch may hold the loop                                      *)

(* The most that a failed attempts and k rejections take, and the part of  *)
(* it that each of them adds.                                              *)
Used(a, k) == (a + k) * StallBudget + k * TipWaitInterval + a * MaxBackoff

LEMMA UsedGrows ==
  ASSUME NEW a \in Nat, NEW k \in Nat
  PROVE  /\ Used(a, k) \in Nat
         /\ Used(a, k + 1) = Used(a, k) + StallBudget + TipWaitInterval
         /\ a # 0 => Used(a, k) = Used(a - 1, k) + StallBudget + MaxBackoff
  BY FetchAssumption, BudgetType DEF FetchAssumption, Used

LEMMA ProductGrows ==
  ASSUME NEW x \in Nat, NEW y \in Nat, NEW c \in Nat, x <= y
  PROVE  x * c \in Nat /\ y * c \in Nat /\ x * c <= y * c
  OBVIOUS

LEMMA UsedMonotone ==
  ASSUME NEW a \in Nat, NEW k \in Nat, NEW b \in Nat, NEW l \in Nat,
         a <= b, k <= l
  PROVE  Used(a, k) <= Used(b, l)
  <1>1. StallBudget \in Nat /\ TipWaitInterval \in Nat /\ MaxBackoff \in Nat
    BY FetchAssumption, BudgetType DEF FetchAssumption
  <1>2. (a + k) * StallBudget <= (b + l) * StallBudget
    BY <1>1, ProductGrows
  <1>3. k * TipWaitInterval <= l * TipWaitInterval
    BY <1>1, ProductGrows
  <1>4. a * MaxBackoff <= b * MaxBackoff
    BY <1>1, ProductGrows
  <1>5. QED
    BY <1>1, <1>2, <1>3, <1>4, ProductGrows DEF Used

(* As many waits as Rejections says use the budget up, and fewer do not.   *)
LEMMA RejectionsEnough ==
  /\ Rejections \in Nat \ {0}
  /\ \A k \in Nat : k * TipWaitInterval < StallBudget => k < Rejections
  <1> DEFINE T == TipWaitInterval
             B == StallBudget
             R == (B + T - 1) \div T
  <1>1. T \in Nat \ {0} /\ B \in Nat \ {0}
    BY FetchAssumption, BudgetType DEF FetchAssumption
  <1>2. R = Rejections
    BY DEF Rejections
  <1> HIDE DEF T, B
  <1>3. B + T - 1 \in Nat /\ R \in Int /\ B + T - 1 < (R + 1) * T
    BY <1>1
  <1>4. ASSUME NEW k \in Nat, k * T < B PROVE k < R
    <2>1. (k + 1) * T <= B + T - 1
      BY <1>1, <1>4
    <2>2. (k + 1) * T < (R + 1) * T
      BY <1>1, <1>3, <2>1
    <2>3. SUFFICES ASSUME R <= k PROVE FALSE
      BY <1>3
    <2>4. (R + 1) * T <= (k + 1) * T
      BY <1>1, <1>3, <2>3
    <2>5. QED
      BY <1>1, <1>3, <2>2, <2>4
  <1>5. 0 * T < B
    BY <1>1
  <1>6. R > 0
    BY <1>4, <1>5
  <1>7. QED
    BY <1>2, <1>3, <1>4, <1>6 DEF T, B

(* HeldLimit in these terms: the last attempt fails after one rejection    *)
(* less than would have ended the fetch.                                   *)
LEMMA LimitIs ==
  HeldLimit = Used(MaxAttempts, Rejections - 1)
  BY RejectionsEnough, FetchAssumption, BudgetType
  DEF FetchAssumption, HeldLimit, Used

(* What a fetch under way has used, k being its rejections so far.         *)
Spent(k) ==
  CASE stage = "call"    -> Used(attempt - 1, k) + (StallBudget - timer)
    [] stage = "tipWait" -> Used(attempt - 1, k) - timer
    [] stage = "backoff" -> Used(attempt - 1, k) + StallBudget + MaxBackoff - timer

CostInv ==
  /\ stage # "idle" =>
       /\ tipWaited < StallBudget
       /\ \E k \in Nat : tipWaited = k * TipWaitInterval /\ held <= Spent(k)
  /\ HeldBounded

BoundInv == FetchInv /\ CostInv

LEMMA BoundStarts == FetchInit => BoundInv
  <1>1. Used(MaxAttempts, Rejections - 1) \in Nat
    BY UsedGrows, RejectionsEnough, FetchAssumption DEF FetchAssumption
  <1>2. QED
    BY <1>1, FetchStarts, LimitIs DEF FetchInit, BoundInv, CostInv, HeldBounded

(* Whatever a fetch under way may have used, with the time still left of   *)
(* its call or wait, is within the limit.                                  *)
LEMMA SpentBounded ==
  ASSUME BoundInv, stage # "idle", NEW k \in Nat,
         tipWaited = k * TipWaitInterval, held <= Spent(k)
  PROVE  /\ k <= Rejections - 1
         /\ stage = "call" => held + timer <= Used(attempt - 1, k) + StallBudget
         /\ stage = "tipWait" => held + timer <= Used(attempt - 1, k)
         /\ stage = "backoff" => held + timer <= Used(attempt, k)
         /\ Used(attempt, k) <= HeldLimit
         /\ Used(attempt - 1, k) + StallBudget <= HeldLimit
  <1>1. k < Rejections
    BY RejectionsEnough DEF BoundInv, CostInv
  <1>2. /\ attempt \in Nat \ {0} /\ attempt <= MaxAttempts /\ MaxAttempts \in Nat
        /\ Rejections \in Nat \ {0} /\ MaxBackoff \in Nat /\ StallBudget \in Nat
        /\ timer \in Nat /\ held \in Nat
    BY RejectionsEnough, BudgetType, FetchAssumption
    DEF FetchAssumption, BoundInv, CostInv, FetchInv, HeldInv, FetchTypeOK
  <1>3. /\ Used(attempt - 1, k) \in Nat
        /\ Used(attempt, k) = Used(attempt - 1, k) + StallBudget + MaxBackoff
    <2>1. attempt - 1 \in Nat /\ attempt # 0
      BY <1>2
    <2>2. QED
      BY <1>2, <2>1, UsedGrows
  <1>4. Used(attempt, k) <= HeldLimit
    BY <1>1, <1>2, UsedMonotone, LimitIs
  <1>5. HeldLimit \in Nat
    BY <1>2, UsedGrows, LimitIs
  <1>6. QED
    BY <1>1, <1>2, <1>3, <1>4, <1>5
    DEF Spent, BoundInv, CostInv, FetchInv, HeldInv, FetchTypeOK

LEMMA BoundKept == ASSUME BoundInv, [FetchNext]_fetchVars PROVE BoundInv'
  <1>0. FetchInv'
    BY FetchKept DEF BoundInv
  <1>1. CASE stage = "idle"
    <2>1. CASE BeginFetch
      <3>1. /\ stage' = "call" /\ timer' = StallBudget /\ attempt' = 1
            /\ tipWaited' = 0 /\ held' = 0
        BY <2>1 DEF BeginFetch, Call
      <3>2. 0 \in Nat /\ tipWaited' = 0 * TipWaitInterval /\ 0 < StallBudget
        BY <3>1, BudgetType, FetchAssumption DEF FetchAssumption
      <3>3. Used(0, 0) \in Nat
        BY UsedGrows
      <3>4. held' <= Spent(0)'
        BY <3>1, <3>3, BudgetType DEF Spent
      <3>5. HeldBounded'
        BY <3>1, LimitIs, UsedGrows, RejectionsEnough, FetchAssumption
        DEF FetchAssumption, HeldBounded
      <3>6. QED
        BY <1>0, <3>1, <3>2, <3>4, <3>5, BudgetType, FetchAssumption
        DEF FetchAssumption, BoundInv, CostInv
    <2>2. CASE Forget \/ FetchElapses \/ UNCHANGED fetchVars
      <3>1. stage' = "idle" /\ held' = held
        BY <1>1, <2>2 DEF Forget, FetchElapses, fetchVars
      <3>2. QED
        BY <1>0, <3>1 DEF BoundInv, CostInv, HeldBounded
    <2>3. QED
      BY <1>1, <2>1, <2>2
      DEF FetchNext, FetchGoesOn, LedgerServed, CallStalls, NotRetried, BeyondTip,
          TipWaitEnds, TransientError, BackoffEnds
  <1>2. CASE stage # "idle"
    <2>1. PICK k \in Nat : tipWaited = k * TipWaitInterval /\ held <= Spent(k)
      BY <1>2 DEF BoundInv, CostInv
    <2>2. /\ k <= Rejections - 1
          /\ stage = "call" => held + timer <= Used(attempt - 1, k) + StallBudget
          /\ stage = "tipWait" => held + timer <= Used(attempt - 1, k)
          /\ stage = "backoff" => held + timer <= Used(attempt, k)
          /\ Used(attempt, k) <= HeldLimit
          /\ Used(attempt - 1, k) + StallBudget <= HeldLimit
      BY <1>2, <2>1, SpentBounded
    <2>3. /\ attempt \in Nat \ {0} /\ attempt <= MaxAttempts /\ MaxAttempts \in Nat
          /\ Rejections \in Nat \ {0} /\ MaxBackoff \in Nat /\ StallBudget \in Nat
          /\ StallBudget > 0 /\ TipWaitInterval \in Nat
          /\ timer \in Nat /\ held \in Nat /\ tipWaited \in Nat
          /\ tipWaited < StallBudget /\ held <= HeldLimit
          /\ stage = "call" => timer <= StallBudget
          /\ backoff \in Nat /\ backoff <= MaxBackoff
      BY <1>2, RejectionsEnough, BudgetType, FetchAssumption
      DEF FetchAssumption, BoundInv, CostInv, FetchInv, HeldInv, FetchTypeOK, HeldBounded
    <2>4. /\ HeldLimit \in Nat
          /\ Used(attempt - 1, k) \in Nat /\ Used(attempt, k) \in Nat
          /\ Used(attempt, k) = Used(attempt - 1, k) + StallBudget + MaxBackoff
          /\ Used(attempt - 1, k + 1)
               = Used(attempt - 1, k) + StallBudget + TipWaitInterval
      <3>1. /\ attempt - 1 \in Nat /\ attempt # 0 /\ attempt \in Nat
            /\ Rejections - 1 \in Nat /\ MaxAttempts \in Nat
        BY <2>3
      <3>2. QED
        BY <3>1, UsedGrows, LimitIs
    (* A step that ends the fetch leaves what it has taken.                *)
    <2>5. ASSUME stage' = "idle", held' = held PROVE BoundInv'
      BY <1>0, <2>3, <2>5 DEF BoundInv, CostInv, HeldBounded
    (* One that goes on adds its own part.                                 *)
    <2>6. ASSUME stage' # "idle", held' \in Nat, held' <= HeldLimit,
                 tipWaited' < StallBudget,
                 NEW l \in Nat, tipWaited' = l * TipWaitInterval,
                 held' <= Spent(l)'
          PROVE  BoundInv'
      BY <1>0, <2>6 DEF BoundInv, CostInv, HeldBounded
    <2>7. CASE LedgerServed \/ CallStalls \/ NotRetried \/ Forget
      BY <2>5, <2>7 DEF LedgerServed, CallStalls, NotRetried, Forget, Return
    <2>8. CASE BeyondTip
      <3>1. /\ held' = held /\ attempt' = attempt /\ stage = "call"
            /\ tipWaited' = tipWaited + TipWaitInterval
        BY <2>8 DEF BeyondTip
      <3>2. CASE tipWaited' >= StallBudget
        BY <2>5, <2>8, <3>1, <3>2 DEF BeyondTip, Return
      <3>3. CASE ~(tipWaited' >= StallBudget)
        <4>1. stage' = "tipWait" /\ timer' = TipWaitInterval
          BY <2>8, <3>3 DEF BeyondTip, Sleep
        <4>2. k + 1 \in Nat /\ tipWaited' = (k + 1) * TipWaitInterval
          BY <2>1, <2>3, <3>1
        <4>3. Spent(k + 1)' = Used(attempt - 1, k + 1) - TipWaitInterval
          BY <3>1, <4>1 DEF Spent, Used
        <4>4. held' <= Spent(k + 1)'
          BY <2>2, <2>3, <2>4, <3>1, <4>3
        <4>5. tipWaited' < StallBudget
          BY <2>3, <3>1, <3>3
        <4>6. QED
          BY <2>3, <2>6, <3>1, <4>1, <4>2, <4>4, <4>5
      <3>4. QED
        BY <3>2, <3>3
    <2>9. CASE TipWaitEnds
      <3>1. /\ held' = held /\ attempt' = attempt /\ tipWaited' = tipWaited
            /\ stage = "tipWait" /\ timer = 0
            /\ stage' = "call" /\ timer' = StallBudget
        BY <2>9 DEF TipWaitEnds, Call
      <3>2. Spent(k)' = Used(attempt - 1, k)
        BY <2>3, <2>4, <3>1 DEF Spent, Used
      <3>3. QED
        BY <2>1, <2>2, <2>3, <2>4, <2>6, <3>1, <3>2
    <2>10. CASE TransientError
      <3>1. /\ held' = held /\ attempt' = attempt /\ tipWaited' = tipWaited
            /\ stage = "call" /\ stage' = "backoff" /\ timer' = backoff
        BY <2>10 DEF TransientError, Sleep
      <3>2. Spent(k)' = Used(attempt - 1, k) + StallBudget + MaxBackoff - backoff
        BY <3>1 DEF Spent, Used
      <3>3. QED
        BY <2>1, <2>2, <2>3, <2>4, <2>6, <3>1, <3>2
    <2>11. CASE BackoffEnds
      <3>1. /\ held' = held /\ attempt' = attempt + 1 /\ tipWaited' = tipWaited
            /\ stage = "backoff" /\ timer = 0
        BY <2>11 DEF BackoffEnds
      <3>2. CASE attempt < MaxAttempts
        <4>1. stage' = "call" /\ timer' = StallBudget
          BY <2>11, <3>2 DEF BackoffEnds, Call
        <4>2. Spent(k)' = Used(attempt, k)
          BY <2>3, <2>4, <3>1, <4>1 DEF Spent, Used
        <4>3. QED
          BY <2>1, <2>2, <2>3, <2>4, <2>6, <3>1, <3>2, <4>1, <4>2
      <3>3. CASE ~(attempt < MaxAttempts)
        BY <2>5, <2>11, <3>1, <3>3 DEF BackoffEnds, Return
      <3>4. QED
        BY <3>2, <3>3
    <2>12. CASE FetchElapses
      <3>1. /\ held' = held + 1 /\ timer > 0 /\ timer' = timer - 1
            /\ UNCHANGED <<stage, attempt, tipWaited>>
        BY <1>2, <2>12 DEF FetchElapses
      <3>2. Spent(k)' = Spent(k) + 1
        BY <1>2, <2>3, <2>4, <3>1 DEF Spent, Used, BoundInv, FetchInv, FetchTypeOK
      <3>3. Spent(k) \in Int
        BY <1>2, <2>3, <2>4 DEF Spent, BoundInv, FetchInv, FetchTypeOK
      <3>4. held' <= HeldLimit
        BY <1>2, <2>2, <2>3, <2>4, <3>1 DEF BoundInv, FetchInv, FetchTypeOK
      <3>5. QED
        BY <1>2, <2>1, <2>3, <2>6, <3>1, <3>2, <3>3, <3>4
    <2>13. CASE UNCHANGED fetchVars
      <3>1. UNCHANGED <<stage, attempt, tipWaited, timer, held>>
        BY <2>13 DEF fetchVars
      <3>2. Spent(k)' = Spent(k)
        BY <3>1 DEF Spent, Used
      <3>3. QED
        BY <1>2, <2>1, <2>3, <2>6, <3>1, <3>2
    <2>14. QED
      BY <1>2, <2>7, <2>8, <2>9, <2>10, <2>11, <2>12, <2>13
      DEF FetchNext, FetchGoesOn, BeginFetch
  <1>3. QED
    BY <1>1, <1>2

(* No fetch holds the loop longer than HeldLimit, for every setting of     *)
(* attempts, backoffs, waits and timeouts, whatever mixture of slow        *)
(* failures and slow rejections the endpoint answers with.                 *)
THEOREM NoneHoldsForEver == Spec => []HeldBounded
  <1>1. BoundInv => HeldBounded
    BY DEF BoundInv, CostInv
  <1>2. FetchSpec => []BoundInv
    BY BoundStarts, BoundKept, PTL DEF FetchSpec
  <1>3. QED
    BY <1>1, <1>2, FetchIsPart, PTL

-----------------------------------------------------------------------------
(* The operator's pause                                                    *)

(* The tracker and the loop agree on the pause, and none outlasts a hold.  *)
PauseInv ==
  /\ pc \in {"down", "fetch", "work", "commands", "hold"}
  /\ pausedFor \in 0 .. MaxPauseTTL
  /\ pauseShown = pausedFor
  /\ pc \in {"down", "fetch", "work"} => pausedFor = 0

LEMMA PauseKept == ASSUME PauseInv, [Next]_vars PROVE PauseInv'
  <1> USE VitalsAssumption DEF VitalsAssumption, PauseInv
  <1>1. CASE Boot
    BY <1>1 DEF Boot, HealthStarts
  <1>2. CASE Fetch \/ FetchStep
    BY <1>2 DEF Fetch, FetchStep, healthVars
  <1>3. CASE TakeLedger
    BY <1>3 DEF TakeLedger, healthVars
  <1>4. CASE LedgerDone
    BY <1>4 DEF LedgerDone
  <1>5. ASSUME NEW ttl \in 1 .. MaxPauseTTL, Pause(ttl) PROVE PauseInv'
    BY <1>5 DEF Pause, SetPaused
  <1>6. CASE Resume
    BY <1>6 DEF Resume, SetPaused
  <1>7. CASE CommandsDone
    BY <1>7 DEF CommandsDone, healthVars
  <1>8. CASE HoldEnds
    BY <1>8 DEF HoldEnds, SetPaused
  <1>9. CASE Die
    BY <1>9 DEF Die, HealthStarts
  <1>10. CASE Request
    BY <1>10 DEF Request, PingHeard, PingAnswered, PingFails
  <1>11. CASE Elapse
    BY <1>11 DEF Elapse, HealthElapses, Less
  <1>12. CASE UNCHANGED vars
    BY <1>12 DEF vars, healthVars
  <1>13. QED
    BY <1>1, <1>2, <1>3, <1>4, <1>5, <1>6, <1>7, <1>8, <1>9, <1>10, <1>11,
       <1>12 DEF Next

(* A pause is visible exactly while it holds the loop, for a pause of any  *)
(* length, renewed, lifted, expired or ended by a restart.                 *)
THEOREM PauseVisible == Spec => []PauseShown
  <1>1. Init => PauseInv
    BY VitalsAssumption DEF VitalsAssumption, Init, HealthInit, PauseInv
  <1>2. PauseInv => PauseShown
    BY DEF PauseInv, PauseShown, Ready
  <1>3. QED
    BY <1>1, <1>2, PauseKept, PTL DEF Spec

-----------------------------------------------------------------------------
(* The heartbeat                                                           *)

HealthInv ==
  /\ HealthTypeOK
  /\ ping = "none" => flight = 0
  /\ ping # "none" => since # Never /\ since + flight <= HeartbeatTimeout

LEMMA HealthKept == ASSUME HealthInv, PauseInv, [Next]_vars PROVE HealthInv'
  <1> USE HealthAssumption
      DEF HealthAssumption, HealthInv, HealthTypeOK, Silence, Oldest
  <1>0. HeartbeatInterval \in Nat /\ Silence \in Nat /\ Oldest \in Nat
    OBVIOUS
  <1>1. CASE Boot \/ Die
    BY <1>1 DEF Boot, Die, HealthStarts
  <1>2. CASE Fetch \/ FetchStep \/ TakeLedger \/ CommandsDone
    BY <1>2 DEF Fetch, FetchStep, TakeLedger, CommandsDone, healthVars
  <1>3. CASE LedgerDone
    BY <1>3 DEF LedgerDone, RecordLedger, Beat
  <1>4. ASSUME NEW ttl \in 1 .. MaxPauseTTL, Pause(ttl) PROVE HealthInv'
    BY <1>4 DEF Pause, SetPaused
  <1>5. CASE Resume \/ HoldEnds
    BY <1>5 DEF Resume, HoldEnds, SetPaused
  <1>6. CASE Request
    <2>1. CASE PingHeard
      BY <2>1 DEF PingHeard
    <2>2. CASE PingAnswered
      BY <2>2 DEF PingAnswered
    <2>3. CASE PingFails
      BY <2>3 DEF PingFails
    <2>4. QED
      BY <1>6, <2>1, <2>2, <2>3 DEF Request
  <1>7. CASE Elapse
    <2>1. HealthElapses
      BY <1>7 DEF Elapse
    <2>2. HealthTypeOK'
      BY <2>1 DEF HealthElapses, Until, Less
    <2>3. (ping = "none" => flight = 0)'
      BY <2>1 DEF HealthElapses, Less
    <2>4. (ping # "none" => since # Never /\ since + flight <= HeartbeatTimeout)'
      BY <2>1 DEF HealthElapses, Until, Less
    <2>5. QED
      BY <2>2, <2>3, <2>4
  <1>8. CASE UNCHANGED vars
    BY <1>8 DEF vars, healthVars
  <1>9. QED
    BY <1>1, <1>2, <1>3, <1>4, <1>5, <1>6, <1>7, <1>8 DEF Next

LEMMA HealthHolds == Spec => [](PauseInv /\ HealthInv)
  <1>1. Init => PauseInv /\ HealthInv
    BY VitalsAssumption, HealthAssumption
    DEF VitalsAssumption, HealthAssumption, Init, HealthInit, PauseInv,
        HealthInv, HealthTypeOK, Silence, Oldest
  <1>2. QED
    BY <1>1, PauseKept, HealthKept, PTL DEF Spec

(* What the monitor hears is never older than the timeout of a ping.       *)
THEOREM StuckIsSilent == Spec => PingMeansLedger
  <1>1. HealthInv /\ [Next]_vars
          => [PingHeard => since # Never /\ since <= HeartbeatTimeout]_vars
    BY HealthAssumption
    DEF HealthAssumption, HealthInv, HealthTypeOK, PingHeard
  <1>2. QED
    BY <1>1, HealthHolds, PTL DEF Spec, PingMeansLedger

(* The longest time, with steady ledgers and no failure, until the monitor *)
(* hears the next ping; p is the request in flight, f the time left of it, *)
(* b the age of the last beat and s that of the last ledger.               *)
Wait(p, f, b, s) ==
  IF p = "sent" THEN f
  ELSE IF p = "heard"
       THEN f + HeartbeatInterval + LedgerEvery + HeartbeatTimeout - 1
  ELSE IF b < HeartbeatInterval
       THEN HeartbeatInterval - b + LedgerEvery + HeartbeatTimeout - 1
  ELSE IF s # Never /\ s <= LedgerEvery
       THEN LedgerEvery - s + HeartbeatTimeout
  ELSE HeartbeatTimeout

Remaining == Wait(ping, flight, beatAge, since)

(* The next ping is heard in time, counted from the last one or from the   *)
(* last failure.                                                           *)
InTime(q, c, w) == q + w < Silence \/ c + w < Silence

AlarmInv == InTime(quiet, calm, Remaining)

LEMMA WaitType ==
  ASSUME NEW p \in {"none", "sent", "heard"}, NEW f \in 0 .. HeartbeatTimeout,
         NEW b \in 0 .. HeartbeatInterval, NEW s \in 0 .. Oldest \cup {Never}
  PROVE  Wait(p, f, b, s) \in Nat /\ Wait(p, f, b, s) < Silence
  BY HealthAssumption DEF HealthAssumption, Wait, Silence, Oldest

(* A unit of time that ends with the ledgers steady is a unit less to wait.*)
LEMMA WaitElapses ==
  ASSUME NEW p \in {"none", "sent", "heard"}, NEW f \in 0 .. HeartbeatTimeout,
         NEW b \in 0 .. HeartbeatInterval, NEW s \in Nat, s < LedgerEvery,
         p # "none" => f > 0
  PROVE  Wait(p, Less(f), Until(b, HeartbeatInterval), s + 1)
           <= Wait(p, f, b, s) - 1
  <1> USE HealthAssumption DEF HealthAssumption
  <1>1. s # Never /\ s + 1 # Never /\ s + 1 <= LedgerEvery /\ s <= LedgerEvery
    OBVIOUS
  <1>2. CASE p = "sent" \/ p = "heard"
    BY <1>2 DEF Wait, Less
  <1>3. CASE p = "none" /\ b < HeartbeatInterval
    BY <1>1, <1>3 DEF Wait, Until
  <1>4. CASE p = "none" /\ ~(b < HeartbeatInterval)
    BY <1>1, <1>4 DEF Wait, Until
  <1>5. QED
    BY <1>2, <1>3, <1>4

(* InTime survives a failure, a ping heard, less to wait, and a unit of    *)
(* time that is a unit less to wait.                                       *)
LEMMA InTimeStays ==
  ASSUME NEW q \in Nat, NEW c \in Nat, NEW w \in Nat,
         NEW q1 \in Nat, NEW c1 \in Nat, NEW w1 \in Nat,
         InTime(q, c, w), w1 < Silence,
         \/ c1 = 0
         \/ q1 = 0
         \/ q1 = q /\ c1 = c /\ w1 <= w
         \/ q1 <= q + 1 /\ c1 <= c + 1 /\ w1 <= w - 1
  PROVE  InTime(q1, c1, w1)
  <1>1. Silence \in Nat
    BY HealthAssumption DEF HealthAssumption, Silence
  <1>2. CASE c1 = 0 \/ q1 = 0
    BY <1>1, <1>2 DEF InTime
  <1>3. CASE q1 = q /\ c1 = c /\ w1 <= w
    BY <1>1, <1>3 DEF InTime
  <1>4. CASE q1 <= q + 1 /\ c1 <= c + 1 /\ w1 <= w - 1
    BY <1>1, <1>4 DEF InTime
  <1>5. QED
    BY <1>2, <1>3, <1>4

LEMMA AlarmKept ==
  ASSUME HealthInv, HealthInv', AlarmInv, [Next]_vars PROVE AlarmInv'
  <1> USE HealthAssumption DEF HealthAssumption
  <1>0. /\ Remaining \in Nat /\ Remaining' \in Nat /\ Remaining' < Silence
        /\ quiet \in Nat /\ calm \in Nat /\ quiet' \in Nat /\ calm' \in Nat
    <2>1. Remaining \in Nat
      BY WaitType DEF HealthInv, HealthTypeOK, Remaining
    <2>2. Remaining' \in Nat /\ Remaining' < Silence
      BY WaitType DEF HealthInv, HealthTypeOK, Remaining
    <2>3. QED
      BY <2>1, <2>2 DEF HealthInv, HealthTypeOK
  <1>a. SUFFICES InTime(quiet', calm', Remaining')
    BY DEF AlarmInv
  <1>b. InTime(quiet, calm, Remaining)
    BY DEF AlarmInv
  <1>1. ASSUME calm' = 0 PROVE InTime(quiet', calm', Remaining')
    BY <1>0, <1>b, <1>1, InTimeStays
  <1>2. ASSUME UNCHANGED <<quiet, calm>>, Remaining' <= Remaining
        PROVE  InTime(quiet', calm', Remaining')
    BY <1>0, <1>b, <1>2, InTimeStays
  <1>3. CASE Boot \/ Die
    BY <1>1, <1>3 DEF Boot, Die, HealthStarts
  <1>4. ASSUME UNCHANGED <<since, beatAge, ping, flight, quiet, calm>>
        PROVE  InTime(quiet', calm', Remaining')
    <2>1. Remaining' = Remaining
      BY <1>4 DEF Remaining
    <2>2. QED
      BY <1>0, <1>2, <1>4, <2>1
  <1>5. CASE Fetch \/ FetchStep \/ TakeLedger \/ CommandsDone \/ UNCHANGED vars
    BY <1>4, <1>5 DEF Fetch, FetchStep, TakeLedger, CommandsDone, vars, healthVars
  <1>6. ASSUME NEW ttl \in 1 .. MaxPauseTTL, Pause(ttl) PROVE InTime(quiet', calm', Remaining')
    BY <1>4, <1>6 DEF Pause
  <1>7. CASE Resume \/ HoldEnds
    BY <1>4, <1>7 DEF Resume, HoldEnds
  <1>8. CASE LedgerDone
    <2>1. UNCHANGED <<quiet, calm, beatAge>> /\ since' = 0
      BY <1>8 DEF LedgerDone, RecordLedger
    <2>2. CASE ping # "none" \/ beatAge < HeartbeatInterval
      <3>1. UNCHANGED <<ping, flight>>
        BY <1>8, <2>2 DEF LedgerDone, Beat
      <3>2. Remaining' = Remaining
        BY <2>1, <2>2, <3>1 DEF Remaining, Wait, HealthInv, HealthTypeOK
      <3>3. QED
        BY <1>0, <1>2, <2>1, <3>2
    <2>3. CASE ~(ping # "none" \/ beatAge < HeartbeatInterval)
      <3>1. ping' = "sent" /\ flight' = HeartbeatTimeout
        BY <1>8, <2>3 DEF LedgerDone, Beat
      <3>2. Remaining' = HeartbeatTimeout
        BY <3>1 DEF Remaining, Wait
      <3>3. Remaining >= HeartbeatTimeout
        BY <2>3 DEF Remaining, Wait, HealthInv, HealthTypeOK
      <3>4. QED
        BY <1>0, <1>2, <2>1, <3>2, <3>3
    <2>4. QED
      BY <2>2, <2>3
  <1>9. CASE Request
    <2>1. CASE PingHeard
      <3>1. quiet' = 0
        BY <2>1 DEF PingHeard
      <3>2. QED
        BY <1>0, <1>b, <3>1, InTimeStays
    <2>2. CASE PingAnswered
      <3>1. UNCHANGED <<quiet, calm>>
        BY <2>2 DEF PingAnswered
      <3>2. Remaining' <= Remaining
        BY <2>2 DEF PingAnswered, Remaining, Wait, HealthInv, HealthTypeOK
      <3>3. QED
        BY <1>2, <3>1, <3>2
    <2>3. CASE PingFails
      BY <1>1, <2>3 DEF PingFails
    <2>4. QED
      BY <1>9, <2>1, <2>2, <2>3 DEF Request
  <1>10. CASE Elapse
    <2>1. HealthElapses
      BY <1>10 DEF Elapse
    <2>2. CASE since # Never /\ since < LedgerEvery
      <3>1. since \in Nat /\ since' = since + 1
        BY <2>1, <2>2 DEF HealthElapses, Until, Oldest, HealthInv, HealthTypeOK
      <3>2. quiet' <= quiet + 1 /\ calm' <= calm + 1
        <4>1. /\ quiet \in 0 .. Silence + 1 /\ calm \in 0 .. Silence
              /\ Silence \in Nat
          BY DEF HealthInv, HealthTypeOK, Silence
        <4>2. /\ quiet' = Until(quiet, Silence + 1)
              /\ calm' = Until(calm, Silence)
          BY <2>1, <2>2 DEF HealthElapses
        <4>3. QED
          BY <4>1, <4>2 DEF Until
      <3>3. /\ ping' = ping /\ flight' = Less(flight)
            /\ beatAge' = Until(beatAge, HeartbeatInterval)
            /\ ping # "none" => flight > 0
        BY <2>1 DEF HealthElapses, HealthInv, HealthTypeOK
      <3>4. Remaining' = Wait(ping, Less(flight),
                              Until(beatAge, HeartbeatInterval), since + 1)
        BY <3>1, <3>3 DEF Remaining
      <3>5. Remaining' <= Remaining - 1
        BY <2>2, <3>1, <3>3, <3>4, WaitElapses
        DEF Remaining, HealthInv, HealthTypeOK
      <3>6. QED
        BY <1>0, <1>b, <3>2, <3>5, InTimeStays
    <2>3. CASE ~(since # Never /\ since < LedgerEvery)
      BY <1>1, <2>1, <2>3 DEF HealthElapses
    <2>4. QED
      BY <2>2, <2>3
  <1>11. QED
    BY <1>3, <1>5, <1>6, <1>7, <1>8, <1>9, <1>10 DEF Next

(* With steady ledgers and answered pings the monitor is never silent for  *)
(* longer than Silence, whatever went wrong before.                        *)
THEOREM MonitorBears == Spec => []NoFalseAlarm
  <1>1. Init => AlarmInv
    BY HealthAssumption
    DEF HealthAssumption, Init, HealthInit, AlarmInv, InTime, Remaining, Wait,
        Silence
  <1>2. HealthInv /\ AlarmInv => NoFalseAlarm
    <2> SUFFICES ASSUME HealthInv, AlarmInv PROVE NoFalseAlarm
      OBVIOUS
    <2>1. Remaining \in Nat
      BY WaitType DEF HealthInv, HealthTypeOK, Remaining
    <2>2. calm \in Nat /\ quiet \in Nat /\ Silence \in Nat
      BY HealthAssumption DEF HealthAssumption, HealthInv, HealthTypeOK, Silence
    <2>3. QED
      BY <2>1, <2>2 DEF AlarmInv, InTime, NoFalseAlarm
  <1>3. Spec => []AlarmInv
    BY <1>1, HealthHolds, AlarmKept, PTL DEF Spec
  <1>4. QED
    BY <1>2, <1>3, HealthHolds, PTL

(* Every variable keeps its type.                                          *)
THEOREM TypeCorrect == Spec => []TypeOK
  <1>1. PauseInv /\ HealthInv /\ FetchInv => TypeOK
    BY DEF PauseInv, HealthInv, FetchInv, TypeOK
  <1>2. FetchSpec => []FetchInv
    BY FetchStarts, FetchKept, PTL DEF FetchSpec
  <1>3. QED
    BY <1>1, <1>2, HealthHolds, FetchIsPart, PTL
=============================================================================
