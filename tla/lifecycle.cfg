SPECIFICATION FairSpec
CONSTANTS
  t1 = t1
  t2 = t2
  tcp = tcp
  udp = udp
  arp = arp
  part = part
  Fx = Fx
  NoThread = NoThread
  NoPacket = NoPacket
  Blank = Blank
  NoFile = NoFile
  Class <- MCClass
  Thread <- TwoThreads
  Packet <- OnePacket
  FilterSets = {}
  SavedFiles = {}
  MaxInstances = 2
  MaxClicks = 1
PROPERTIES
  LifecycleSpec
  StopTerminates
  StoredIsPrinted
