----------------------------- MODULE LedgerFetch ----------------------------
(***************************************************************************)
(* The fetch of one ledger from one endpoint (fetchLedgerWithRetry in      *)
(* src/internal/ingest/ingest.go) as time passes: attempts with a deadline *)
(* each, a backoff after a transient error, a short wait when the endpoint *)
(* says that the ledger is beyond its tip, and the watchdog that calls an  *)
(* endpoint stalled so that the loop rotates away from it.                 *)
(*                                                                         *)
(* Time is counted in units.  An answer of the endpoint is its kind: a     *)
(* ledger, an error worth a retry, one that is not, or a window error.     *)
(* FetchElapses is joined with the passing of time of the other parts.     *)
(*                                                                         *)
(* A definition commented "Mutated" is a wrong form of the one that        *)
(* follows it, used only to show that a property would notice.             *)
(***************************************************************************)
EXTENDS Integers

CONSTANTS
  MaxAttempts,        \* maxLedgerFetchRetries
  InitialBackoff,     \* initialRetryBackoff
  MaxBackoff,         \* maxRetryBackoff
  TipWaitInterval,    \* tipWaitInterval
  TipStallAfter,      \* tipStallAfter
  TipStallSlack,      \* tipStallSlack
  LedgerFetchTimeout  \* cfg.RPC.LedgerFetchTimeout, of one HTTP request

ASSUME FetchAssumption ==
  /\ MaxAttempts \in Nat \ {0}
  /\ InitialBackoff \in Nat \ {0} /\ MaxBackoff \in Nat
  /\ InitialBackoff <= MaxBackoff
  /\ TipWaitInterval \in Nat \ {0}
  /\ TipStallAfter \in Nat \ {0}
  /\ TipStallSlack \in Nat /\ TipWaitInterval < TipStallSlack
  /\ LedgerFetchTimeout \in Nat

VARIABLES
  stage,      \* where fetchLedgerWithRetry is
  outcome,    \* what it returned last
  attempt,    \* attempts made that count
  backoff,    \* the next backoff
  tipWaited,  \* time waited for the tip
  timer,      \* time left of the call or the wait
  held        \* history: the time the last fetch has taken

fetchVars == <<stage, outcome, attempt, backoff, tipWaited, timer, held>>

(* Mutated: the deadline is the HTTP timeout itself.                       *)
StallBudgetTight ==
  IF LedgerFetchTimeout > TipStallAfter THEN LedgerFetchTimeout
                                        ELSE TipStallAfter

StallBudget ==
  IF LedgerFetchTimeout + TipStallSlack > TipStallAfter
  THEN LedgerFetchTimeout + TipStallSlack
  ELSE TipStallAfter

-----------------------------------------------------------------------------
(* The function returns o.                                                 *)
Return(o) ==
  /\ stage' = "idle" /\ outcome' = o /\ timer' = 0

(* GetLedger is called with a deadline of its own.                         *)
Call == stage' = "call" /\ timer' = StallBudget

Sleep(place, time) == stage' = place /\ timer' = time

BeginFetch ==
  /\ stage = "idle" /\ Call
  /\ outcome' = "none" /\ attempt' = 1 /\ backoff' = InitialBackoff
  /\ tipWaited' = 0 /\ held' = 0

(* The loop takes the result, or ctx ends the fetch.                       *)
Forget ==
  /\ stage' = "idle" /\ outcome' = "none" /\ timer' = 0
  /\ UNCHANGED <<attempt, backoff, tipWaited, held>>

(* A ledger is taken also when it comes with the deadline.                 *)
LedgerServed ==
  /\ stage = "call" /\ Return("ledger")
  /\ UNCHANGED <<attempt, backoff, tipWaited, held>>

(* The deadline ends the call; whatever the error, the endpoint stalled.   *)
CallStalls ==
  /\ stage = "call" /\ timer = 0 /\ Return("stalled")
  /\ UNCHANGED <<attempt, backoff, tipWaited, held>>

(* A deadline inside the SDK, or a ledger below the endpoint's retention.  *)
NotRetried ==
  /\ stage = "call" /\ timer > 0 /\ Return("failed")
  /\ UNCHANGED <<attempt, backoff, tipWaited, held>>

(* Mutated: waits for the tip are not added up.                            *)
BeyondTipForgets ==
  /\ stage = "call" /\ timer > 0
  /\ Sleep("tipWait", TipWaitInterval) /\ UNCHANGED <<outcome, tipWaited>>
  /\ UNCHANGED <<attempt, backoff, held>>

(* The endpoint has not closed the ledger yet: no attempt is spent, but    *)
(* the waits add up to the stall budget.                                   *)
BeyondTip ==
  /\ stage = "call" /\ timer > 0
  /\ tipWaited' = tipWaited + TipWaitInterval
  /\ IF tipWaited' >= StallBudget
     THEN Return("stalled")
     ELSE Sleep("tipWait", TipWaitInterval) /\ UNCHANGED outcome
  /\ UNCHANGED <<attempt, backoff, held>>

TipWaitEnds ==
  /\ stage = "tipWait" /\ timer = 0 /\ Call
  /\ UNCHANGED <<outcome, attempt, backoff, tipWaited, held>>

TransientError ==
  /\ stage = "call" /\ timer > 0 /\ Sleep("backoff", backoff)
  /\ UNCHANGED <<outcome, attempt, backoff, tipWaited, held>>

(* Mutated: the backoff is compared with its limit before it is doubled.   *)
DoubledPast == IF backoff < MaxBackoff THEN 2 * backoff ELSE backoff

Doubled == IF 2 * backoff > MaxBackoff THEN MaxBackoff ELSE 2 * backoff

(* Also the last attempt is followed by a backoff.                         *)
BackoffEnds ==
  /\ stage = "backoff" /\ timer = 0
  /\ backoff' = Doubled /\ attempt' = attempt + 1
  /\ IF attempt < MaxAttempts THEN Call /\ UNCHANGED outcome
                              ELSE Return("failed")
  /\ UNCHANGED <<tipWaited, held>>

(* A unit of time passes; the runtime is not late.                         *)
FetchElapses ==
  IF stage = "idle" THEN UNCHANGED fetchVars
  ELSE /\ timer > 0 /\ timer' = timer - 1 /\ held' = held + 1
       /\ UNCHANGED <<stage, outcome, attempt, backoff, tipWaited>>

-----------------------------------------------------------------------------
FetchInit ==
  /\ stage = "idle" /\ outcome = "none" /\ attempt = 1
  /\ backoff = InitialBackoff /\ tipWaited = 0 /\ timer = 0 /\ held = 0

(* What the endpoint and the timers do to a fetch under way.               *)
FetchGoesOn ==
  \/ LedgerServed \/ CallStalls \/ NotRetried \/ BeyondTip \/ TipWaitEnds
  \/ TransientError \/ BackoffEnds

FetchNext == BeginFetch \/ FetchGoesOn \/ Forget \/ FetchElapses

FetchSpec == FetchInit /\ [][FetchNext]_fetchVars

-----------------------------------------------------------------------------
(* Properties                                                              *)

FetchTypeOK ==
  /\ stage \in {"idle", "call", "tipWait", "backoff"}
  /\ outcome \in {"none", "ledger", "stalled", "failed"}
  /\ attempt \in 1 .. MaxAttempts + 1
  /\ backoff \in InitialBackoff .. MaxBackoff
  /\ tipWaited \in Nat /\ timer \in Nat /\ held \in Nat

(* A healthy endpoint is not called stalled (ingest.go: the budget "must   *)
(* exceed the ledger-fetch HTTP timeout, or a slow-but-legal catch-up      *)
(* batch would be misread as a stall"): before the verdict an endpoint has *)
(* held the loop longer than a legal request may take, whether in one call *)
(* or in rejections that add up.                                           *)
NoFakeStall == outcome = "stalled" => held > LedgerFetchTimeout

(* No endpoint holds the loop for ever (ingest.go: "bounds the two ways a  *)
(* stalled endpoint can hold the loop without ever failing"), also when    *)
(* slow rejections and slow failures alternate.  The limit is far above    *)
(* the stall budget: of a rejection only the wait after it counts.         *)
Rejections == (StallBudget + TipWaitInterval - 1) \div TipWaitInterval

HeldLimit ==
  (MaxAttempts + Rejections - 1) * StallBudget
    + (Rejections - 1) * TipWaitInterval + MaxAttempts * MaxBackoff

HeldBounded == held <= HeldLimit
=============================================================================
