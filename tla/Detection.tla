----------------------------- MODULE Detection ------------------------------
(***************************************************************************)
(* What a ledger says about escrows: the contracts its transactions        *)
(* deploy, and the facts (events and deposits) that its contract events    *)
(* are to a registry (src/internal/indexer, src/internal/events), with the *)
(* message ids by which consumers drop repetitions.                        *)
(*                                                                         *)
(* Abstractions.  A transaction is whether it succeeded, the contract      *)
(* instances with their code that it leaves, and the contract events of    *)
(* each of its operations.  Of an event, its topics are read as far as the *)
(* code looks: the first one when it is a symbol, whether the second is an *)
(* address, and the third when it is one.  The hash of a transaction is    *)
(* its place in the chain, and raw XDR is left out.                        *)
(*                                                                         *)
(* A definition commented "Mutated" is a wrong form of the one that        *)
(* follows it, used only to show that a property would notice.             *)
(***************************************************************************)
EXTENDS Integers, Sequences, FiniteSets

CONSTANTS
  Contracts,  \* contract ids
  Codes,      \* hashes of contract code
  Approved,   \* registry.approved
  Symbols,    \* what a first topic may say, "transfer" among it
  NotASymbol, \* a first topic that is something else, or none
  NoAddress   \* a topic that is not an address

Event == [emitter : Contracts, topic : Symbols \cup {NotASymbol},
          from : BOOLEAN, to : Contracts \cup {NoAddress}]

Transaction == [ok : BOOLEAN, instances : SUBSET (Contracts \X Codes),
                ops : Seq(Seq(Event))]

-----------------------------------------------------------------------------
(* Discovery                                                               *)

(* The contracts with approved code that a ledger deploys or upgrades.     *)
Discovered(txs) ==
  {c \in Contracts : \E t \in DOMAIN txs, code \in Approved :
                       txs[t].ok /\ <<c, code>> \in txs[t].instances}

-----------------------------------------------------------------------------
(* Detection                                                               *)

(* classify: what an event is to a registry that tracks these contracts,   *)
(* a set of at most one.                                                   *)
Classify(ev, tracked) ==
  IF ev.emitter \in tracked
  THEN {[type |-> "event", escrow |-> ev.emitter, kind |-> ev.topic]}
  ELSE IF ev.topic = "transfer" /\ ev.from /\ ev.to \in tracked
       THEN {[type |-> "deposit", escrow |-> ev.to, kind |-> "token_transfer"]}
       ELSE {}

(* The places of the events of a transaction: operation and event.         *)
Places(ops) == UNION {{o} \X DOMAIN ops[o] : o \in DOMAIN ops}

Before(p, q) == p[1] < q[1] \/ (p[1] = q[1] /\ p[2] < q[2])

(* event_index: the events before it in all operations, ours or not.       *)
Index(ops, p) == Cardinality({q \in Places(ops) : Before(q, p)})

(* NewMessageID.                                                           *)
MessageId(n, t, index) == <<n, t, index>>

(* Where a ledger's events are, in the transactions that succeeded.        *)
Spots(txs) ==
  UNION {{t} \X Places(txs[t].ops) : t \in {t \in DOMAIN txs : txs[t].ok}}

EventAt(txs, s) == txs[s[1]].ops[s[2][1]][s[2][2]]

(* Mutated: only the events that are facts are counted.                    *)
FactsCounted(n, txs, tracked) ==
  UNION {{[msg |-> MessageId(n, s[1],
             Cardinality({q \in Places(txs[s[1]].ops) :
                            /\ Before(q, s[2])
                            /\ Classify(EventAt(txs, <<s[1], q>>), tracked) # {}})),
           at |-> <<n, s>>, about |-> c] :
             c \in Classify(EventAt(txs, s), tracked)} : s \in Spots(txs)}

(* DetectFromTransaction and FromEscrowEvent, for all of ledger n: the     *)
(* message ids, and what and which physical event each is about.           *)
Facts(n, txs, tracked) ==
  UNION {{[msg |-> MessageId(n, s[1], Index(txs[s[1]].ops, s[2])),
           at |-> <<n, s>>, about |-> c] :
             c \in Classify(EventAt(txs, s), tracked)} : s \in Spots(txs)}

(* The facts of f's ledger that come before it, by the total order key.    *)
Earlier(f, facts) ==
  {g \in facts : \/ g.msg[2] < f.msg[2]
                 \/ g.msg[2] = f.msg[2] /\ g.msg[3] < f.msg[3]}

(* Validate, as far as a fact can fail it: the kind must not be empty.     *)
Valid(f) == f.about.kind # NotASymbol
=============================================================================
