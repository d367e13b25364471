CONSTANTS
  Orgs = {org1, org2}
  Admin = org1
  Services = {broker1, transfer}
  Broker = broker1
  Remotes <- MCRemotes
  ChainOf <- MCChainOf
  Thresholds <- MCThresholds
  MaxListed = 3
SPECIFICATION Spec
INVARIANTS TypeOK TablesAgree RemotesOnChains TrafficBacked
PROPERTIES AuditFinal ApprovalCounts
