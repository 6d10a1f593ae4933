--------------------------- MODULE MCControlPlane ---------------------------
(***************************************************************************)
(* An instance of ControlPlane for TLC: e1 and e3 are deployed in the      *)
(* first ledger and so rediscovered after a crash, e2 comes from the seed  *)
(* file.  In the first ledger a transaction fails, e3 is paid before its   *)
(* deployment, and events of a decentralized exchange are among those of   *)
(* the escrows.  In the last one e2 emits an event whose first topic is    *)
(* not a symbol.                                                           *)
(***************************************************************************)
EXTENDS ControlPlane

Cmd(kind, ids)  == [kind |-> kind, ids |-> ids, ttl |-> 0]
Pause(ttl)      == [kind |-> "pause", ids |-> {}, ttl |-> ttl]

Escrow3   == {"e1", "e2", "e3"}
OneAndTwo == {"e1", "e2"}

Says(c, topic)  == [emitter |-> c, topic |-> topic, from |-> FALSE, to |-> "none"]
Pays(to, from)  == [emitter |-> "token", topic |-> "transfer", from |-> from,
                    to |-> to]
Succeeded(instances, ops) == [ok |-> TRUE, instances |-> instances, ops |-> ops]

ChainOf ==
  <<(* ledger 1 *)
    <<[ok |-> FALSE, instances |-> {<<"dex", "escrow">>},
       ops |-> <<<<Says("e2", "fund")>>>>],
      Succeeded({}, <<<<Pays("e3", TRUE), Pays("e2", FALSE)>>>>),
      Succeeded({<<"e1", "escrow">>, <<"e3", "escrow">>, <<"dex", "swap">>},
                <<<<Says("e2", "fund"), Says("dex", "swap"), Says("e1", "init")>>,
                  <<Says("e3", "init")>>>>)>>,
    (* ledger 2 *)
    <<Succeeded({}, <<<<Pays("e2", TRUE), Says("e1", "fund")>>>>),
      Succeeded({}, <<<<Says("e3", "fund")>>>>)>>,
    (* ledger 3 *)
    <<Succeeded({}, <<<<Says("e3", "release")>>, <<Says("e2", "none")>>>>)>>>>

AllCommands  == {Cmd("track", {"e1"}), Cmd("refresh", {"e1"}),
                 Cmd("reseed", OneAndTwo), Cmd("remove", {"e1"}),
                 Cmd("remove", {"e2"}), Pause(2), Cmd("resume", {})}
=============================================================================
