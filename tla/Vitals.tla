------------------------------- MODULE Vitals -------------------------------
(***************************************************************************)
(* The ingestion loop as a clock sees it: the fetch of a ledger            *)
(* (LedgerFetch), its processing, the report to tracker and heartbeat      *)
(* (Health), the commands between ledgers and the hold of a pause.  What   *)
(* it does with a ledger is in IngestLoop, what commands do otherwise in   *)
(* ControlPlane.                                                           *)
(*                                                                         *)
(* One clock drives all: a unit of time passes for every part at once, and *)
(* not while a timer that is due has not been served.  Processing and      *)
(* publishing may take any time, since a full queue is waited for.         *)
(*                                                                         *)
(* A definition commented "Mutated" is a wrong form of the one that        *)
(* follows it, used only to show that a property would notice.             *)
(***************************************************************************)
EXTENDS LedgerFetch, Health

CONSTANT MaxPauseTTL  \* the longest pause, capped by PauseTTL

ASSUME VitalsAssumption == MaxPauseTTL \in Nat \ {0}

VARIABLES
  pc,         \* where the loop is
  pausedFor   \* time left of commandExecutor.pausedUntil

vars == <<pc, pausedFor, fetchVars, healthVars>>

-----------------------------------------------------------------------------
Boot ==
  /\ pc = "down" /\ pc' = "fetch" /\ pausedFor' = 0
  /\ HealthStarts /\ UNCHANGED fetchVars

(* The loop asks for the next ledger, or after a rotation again for the    *)
(* one it could not get.                                                   *)
Fetch ==
  /\ pc = "fetch" /\ outcome # "ledger" /\ BeginFetch
  /\ UNCHANGED <<pc, pausedFor, healthVars>>

FetchStep ==
  /\ pc = "fetch" /\ FetchGoesOn
  /\ UNCHANGED <<pc, pausedFor, healthVars>>

(* Mutated: the heartbeat tells of a ledger fetched, not of one processed. *)
TakeLedgerBeats ==
  /\ pc = "fetch" /\ outcome = "ledger"
  /\ pc' = "work" /\ Forget /\ Beat
  /\ UNCHANGED <<pausedFor, since, pauseShown, beatAge, quiet, calm>>

TakeLedger ==
  /\ pc = "fetch" /\ outcome = "ledger"
  /\ pc' = "work" /\ Forget
  /\ UNCHANGED <<pausedFor, healthVars>>

(* The ledger is processed, published and, if due, saved.                  *)
LedgerDone ==
  /\ pc = "work" /\ pc' = "commands"
  /\ RecordLedger /\ Beat
  /\ UNCHANGED <<pausedFor, pauseShown, beatAge, quiet, calm, fetchVars>>

(* drainCommands and holdWhilePaused execute a pause or a resume.          *)
Pause(ttl) ==
  /\ pc \in {"commands", "hold"}
  /\ pausedFor' = ttl /\ SetPaused(ttl)
  /\ UNCHANGED <<pc, since, beatAge, ping, flight, quiet, calm, fetchVars>>

(* Mutated: a resume leaves the tracker to the expiry of the pause.        *)
ResumeUnshown ==
  /\ pc \in {"commands", "hold"} /\ pausedFor' = 0
  /\ UNCHANGED <<pc, fetchVars, healthVars>>

Resume ==
  /\ pc \in {"commands", "hold"}
  /\ pausedFor' = 0 /\ SetPaused(0)
  /\ UNCHANGED <<pc, since, beatAge, ping, flight, quiet, calm, fetchVars>>

(* The queue is empty.                                                     *)
CommandsDone ==
  /\ pc = "commands"
  /\ pc' = IF pausedFor > 0 THEN "hold" ELSE "fetch"
  /\ UNCHANGED <<pausedFor, fetchVars, healthVars>>

(* A pause is over, by its expiry or by a resume.                          *)
HoldEnds ==
  /\ pc = "hold" /\ pausedFor = 0
  /\ pc' = "fetch" /\ SetPaused(0)
  /\ UNCHANGED <<pausedFor, since, beatAge, ping, flight, quiet, calm,
                 fetchVars>>

(* The process ends: no endpoint is left, a publish fails, or it is        *)
(* stopped or killed.                                                      *)
Die ==
  /\ pc # "down" /\ pc' = "down" /\ pausedFor' = 0
  /\ HealthStarts /\ Forget

Request ==
  /\ PingHeard \/ PingAnswered \/ PingFails
  /\ UNCHANGED <<pc, pausedFor, fetchVars>>

Elapse ==
  /\ FetchElapses /\ HealthElapses
  /\ pausedFor' = Less(pausedFor) /\ UNCHANGED pc

-----------------------------------------------------------------------------
Init ==
  /\ pc = "down" /\ pausedFor = 0 /\ FetchInit /\ HealthInit

Next ==
  \/ Boot \/ Fetch \/ FetchStep \/ TakeLedger \/ LedgerDone
  \/ \E ttl \in 1 .. MaxPauseTTL : Pause(ttl)
  \/ Resume \/ CommandsDone \/ HoldEnds \/ Die \/ Request \/ Elapse

Spec == Init /\ [][Next]_vars

-----------------------------------------------------------------------------
(* Properties                                                              *)

TypeOK ==
  /\ pc \in {"down", "fetch", "work", "commands", "hold"}
  /\ pausedFor \in 0 .. MaxPauseTTL
  /\ FetchTypeOK /\ HealthTypeOK

(* The monitor is not alarmed while all is well (heartbeat.go: "if pings   *)
(* can't leave, the monitor alerts anyway"; only then): if for some time   *)
(* ledgers have been steady and no ping has failed, the monitor has heard  *)
(* a ping not long ago, whatever failed before, restarts included.  The    *)
(* silence it must bear with is longer than heartbeatInterval.             *)
NoFalseAlarm == calm = Silence => quiet < Silence

(* A loop that is stuck goes quiet (heartbeat.go: "the monitor alerts on   *)
(* SILENCE, so every failure mode that stops the ingest loop ... cuts the  *)
(* pings"; control.go: "the heartbeat is silent while this holds"): what   *)
(* the monitor hears is never older news than the timeout of a ping.       *)
PingMeansLedger ==
  [][PingHeard => since # Never /\ since <= HeartbeatTimeout]_vars

(* The operator's pause is visible exactly while the loop is held by it    *)
(* (health.go: "A paused indexer is deliberately NOT ready"; "a forgotten  *)
(* pause" must page): a resume racing the expiry, a renewed pause or a     *)
(* restart leave neither a held loop that is ready nor a running one that  *)
(* shows a pause.                                                          *)
PauseShown ==
  /\ pc = "hold" /\ pausedFor > 0 => ~Ready
  /\ pc \in {"fetch", "work"} => pauseShown = 0
=============================================================================
