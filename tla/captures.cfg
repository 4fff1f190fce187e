SPECIFICATION Spec
CONSTANTS
  t1 = t1
  t2 = t2
  tcp = tcp
  udp = udp
  arp = arp
  part = part
  Fx = Fx
  NoThread = NoThread
  NoPacket = NoPacket
  Blank = Blank
  NoFile = NoFile
  Class <- MCClass
  Thread <- TwoThreads
  Packet <- MixedPackets
  FilterSets = {}
  SavedFiles = {}
  MaxInstances = 2
  MaxClicks = 1
INVARIANTS
  OneRunning
  ClearSparesRunning
  LateAtMostOne
  StatsAddUp
  SessionInv
SYMMETRY ThreadSymmetry
