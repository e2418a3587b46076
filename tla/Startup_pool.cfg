CONSTANTS
  MaxServers = 3
  MaxTools = 2
  NoName = ""
  Configs <- MCConfigs
SPECIFICATION FairSpec
INVARIANTS
  TypeOK
  OnlyGoodConfigConnects
  FaultsAreReported
  NoSessionLeft
  ServesWithEveryServer
PROPERTY SigtermClosesAll
