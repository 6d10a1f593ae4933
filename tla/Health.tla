------------------------------- MODULE Health -------------------------------
(***************************************************************************)
(* What the process tells the world about itself as time passes            *)
(* (src/internal/health): readiness, which the tracker computes from the   *)
(* last processed ledger and the operator's pause, and the heartbeat, at   *)
(* most one request in flight, that an outside monitor listens to and      *)
(* misses when it stops.                                                   *)
(*                                                                         *)
(* A time stamp is its age, counted up to where it no longer matters.  The *)
(* monitor closes a request that its client has given up.                  *)
(*                                                                         *)
(* A definition commented "Mutated" is a wrong form of the one that        *)
(* follows it, used only to show that a property would notice.             *)
(***************************************************************************)
EXTENDS Integers

CONSTANTS
  ReadyStaleAfter,    \* readyStaleAfter
  HeartbeatInterval,  \* heartbeatInterval
  HeartbeatTimeout,   \* heartbeatTimeout
  LedgerEvery,        \* ledgers this far apart count as steady
  Never               \* the zero time

ASSUME HealthAssumption ==
  /\ ReadyStaleAfter \in Nat /\ HeartbeatInterval \in Nat \ {0}
  /\ HeartbeatTimeout \in Nat \ {0} /\ LedgerEvery \in Nat
  /\ Never \notin Nat

VARIABLES
  since,        \* age of Tracker.lastProcessedAt, or Never
  pauseShown,   \* time left of Tracker.pausedUntil
  beatAge,      \* age of Heartbeat.lastBeat
  ping,         \* the request in flight
  flight,       \* time left of its timeout
  quiet,        \* history: how long the monitor has heard nothing
  calm          \* history: how long nothing has gone wrong

healthVars == <<since, pauseShown, beatAge, ping, flight, quiet, calm>>

(* The longest silence the monitor must bear with while all is well: the   *)
(* ping before took its whole timeout to be answered, the interval counts  *)
(* from the answer, a ledger must end before the next ping, and that one   *)
(* takes its whole timeout to arrive.                                      *)
Silence == HeartbeatInterval + 2 * HeartbeatTimeout + LedgerEvery

(* Up to where an age of a ledger matters.                                 *)
Oldest == ReadyStaleAfter + HeartbeatTimeout + LedgerEvery + 1

Until(age, limit) == IF age < limit THEN age + 1 ELSE limit
Less(time) == IF time > 0 THEN time - 1 ELSE 0

-----------------------------------------------------------------------------
(* The tracker                                                             *)

(* readiness.                                                              *)
Ready == pauseShown = 0 /\ since # Never /\ since <= ReadyStaleAfter

SetPaused(time) == pauseShown' = time

(* RecordLedger, as far as time goes.                                      *)
RecordLedger == since' = 0

-----------------------------------------------------------------------------
(* The heartbeat                                                           *)

Beat ==
  IF ping # "none" \/ beatAge < HeartbeatInterval
  THEN UNCHANGED <<ping, flight>>
  ELSE ping' = "sent" /\ flight' = HeartbeatTimeout

(* The monitor hears the ping.                                             *)
PingHeard ==
  /\ ping = "sent" /\ ping' = "heard" /\ quiet' = 0
  /\ UNCHANGED <<since, pauseShown, beatAge, flight, calm>>

(* Its answer, a success, arrives.                                         *)
PingAnswered ==
  /\ ping = "heard" /\ ping' = "none" /\ flight' = 0 /\ beatAge' = 0
  /\ UNCHANGED <<since, pauseShown, quiet, calm>>

(* Mutated: only a success clears inFlight.                                *)
PingFailsInFlight ==
  /\ ping \in {"sent", "heard"} /\ ping' = "lost" /\ flight' = 0
  /\ calm' = 0
  /\ UNCHANGED <<since, pauseShown, beatAge, quiet>>

(* The request fails, is refused, or runs into the timeout of the client:  *)
(* the next ledger may beat again at once.                                 *)
PingFails ==
  /\ ping # "none" /\ ping' = "none" /\ flight' = 0
  /\ calm' = 0
  /\ UNCHANGED <<since, pauseShown, beatAge, quiet>>

HealthElapses ==
  /\ ping \in {"sent", "heard"} => flight > 0
  /\ flight' = Less(flight)
  /\ since' = IF since = Never THEN Never ELSE Until(since, Oldest)
  /\ pauseShown' = Less(pauseShown)
  /\ beatAge' = Until(beatAge, HeartbeatInterval)
  /\ quiet' = Until(quiet, Silence + 1)
  /\ calm' = IF since # Never /\ since < LedgerEvery
             THEN Until(calm, Silence) ELSE 0
  /\ UNCHANGED ping

(* NewTracker and NewHeartbeat, in a new process.                          *)
HealthStarts ==
  /\ since' = Never /\ pauseShown' = 0
  /\ beatAge' = HeartbeatInterval /\ ping' = "none" /\ flight' = 0
  /\ calm' = 0 /\ UNCHANGED quiet

HealthInit ==
  /\ since = Never /\ pauseShown = 0 /\ beatAge = HeartbeatInterval
  /\ ping = "none" /\ flight = 0 /\ quiet = 0 /\ calm = 0

-----------------------------------------------------------------------------
HealthTypeOK ==
  /\ since \in 0 .. Oldest \cup {Never}
  /\ pauseShown \in Nat
  /\ beatAge \in 0 .. HeartbeatInterval
  /\ ping \in {"none", "sent", "heard"}
  /\ flight \in 0 .. HeartbeatTimeout
  /\ quiet \in 0 .. Silence + 1 /\ calm \in 0 .. Silence
=============================================================================
