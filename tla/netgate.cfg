SPECIFICATION FairSpec
CONSTANTS
  Reqs = {r1, r2}
  Nets <- MCNets
  privateV4 <- MCPrivateV4
  fixedBlockV4 <- MCFixedBlockV4
  MaxRules = 2
  Ports = {80}
  Targets = {t1}
  Bandwidths = {bw}
  Defaults <- MCDefaults
  Overrides <- MCOverrides
  CutFiles = {Garbled}
  MaxFaults = 2
  NoBandwidth = NoBandwidth
  NoTarget = NoTarget
  NoFile = NoFile
  Empty = Empty
  Garbled = Garbled
  NoChain = NoChain
  Nobody = Nobody

  
PROPERTIES
  EditKept
  SettlesOnFile
  
