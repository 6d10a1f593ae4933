---------------------------- MODULE MCIngestLoop ----------------------------
(***************************************************************************)
(* Instances of IngestLoop for TLC: two endpoints, a chain of a few        *)
(* ledgers, and an escrow whose deployment lies in an early ledger with    *)
(* facts in later ones.  The .cfg files choose among these values.         *)
(***************************************************************************)
EXTENDS IngestLoopFeed

CONSTANTS a, b    \* the two chains

Pool(x, y) == [i \in Endpoints |-> IF i = 0 THEN x ELSE y]

SameChain  == Pool(a, a)
TwoChains  == Pool(a, b)
ShortDeep  == Pool(2, 4)
ShortShort == Pool(2, 2)

(* e1 is deployed in ledger 1 and active in it (same-ledger discovery) and *)
(* in ledger 2, where e3, which comes from the seed file, is active too;   *)
(* e2 is deployed in ledger 3 and active from there on.                    *)
DeploysOf == [n \in Ledgers |-> CASE n = 1 -> {"e1"} [] n = 3 -> {"e2"}
                                  [] OTHER -> {}]
EventsOf  == [n \in Ledgers |-> CASE n = 1 -> {"e1"} [] n = 2 -> {"e1", "e3"}
                                  [] OTHER -> {"e2"}]
AllEscrows == {"e1", "e2", "e3"}
SeedOf     == {"e3"}
=============================================================================
