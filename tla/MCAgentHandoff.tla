--------------------------- MODULE MCAgentHandoff ---------------------------
(* A small instance of AgentHandoff: two wallet identities that share one  *)
(* account contract, and proposals of which p3 names another account and   *)
(* p4 asks for too many calls.                                             *)
EXTENDS AgentHandoff

MCContractId == [w \in Wallets |-> "c1"]
MCGrant ==
  [p \in Proposals |->
     [account |-> IF p = "p3" THEN "c2" ELSE "c1",
      delegate |-> "d1",
      max_calls |-> IF p = "p4" THEN MaxCalls + 1 ELSE 1, well_formed |-> TRUE]]
=============================================================================
