CONSTANTS
  Orgs = {org1}
  Admin = org1
  Services = {broker1, transfer}
  Broker = broker1
  Remotes <- MCRemotes
  ChainOf <- MCChainOf
  Thresholds <- MCThresholds
  MaxListed = 1
SPECIFICATION RejectingSpec
PROPERTIES RejectionCounts
