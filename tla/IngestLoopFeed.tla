--------------------------- MODULE IngestLoopFeed ---------------------------
(***************************************************************************)
(* The ingestion loop implements the ledger feed.  The feed's position is  *)
(* the durable cursor, the ledgers declared missing are those the          *)
(* watchlist file records as gaps, and a ledger is delivered when the      *)
(* broker has confirmed every fact the indexer owes about it.              *)
(***************************************************************************)
EXTENDS IngestLoop

DeliveredLedgers == {n \in Ledgers : Delivered(n, watch.gaps)}

Feed == INSTANCE LedgerFeed WITH
          base <- origin,
          position <- cursor.seq,
          delivered <- DeliveredLedgers,
          missing <- GapLedgers(watch.gaps)

(* Every step of the loop, crash, restart and rotation included, is a step *)
(* the feed allows or one it does not see (ingest.go, the cursor comment:  *)
(* at-least-once delivery with declared gaps).                             *)
ImplementsFeed == Feed!Spec
=============================================================================
