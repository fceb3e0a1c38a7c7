SPECIFICATION HandoffSpec
CONSTANTS
  Accounts = {"c1", "c2"}
  Wallets = {"w1", "w2"}
  Delegates = {"d1"}
  Proposals = {"p1", "p2", "p3", "p4"}
  ContractId <- MCContractId
  Grant <- MCGrant
  Slots = {1, 2}
  None = None
  PairTTL = 1
  ConnectionTTL = 2
  DraftTTL = 1
  MaxReceipts = 1
  MaxDelegates = 1
  MaxCalls = 5
  MaxNow = 3
  MaxIds = 4
INVARIANT ClaimsAuthentic
PROPERTIES OutcomeFinal AdmissionReleased
