SPECIFICATION Spec
CONSTANTS
  t1 = t1
  t2 = t2
  tcp = tcp
  udp = udp
  arp = arp
  part = part
  Fx = Fx
  NoThread = NoThread
  NoPacket = NoPacket
  Blank = Blank
  NoFile = NoFile
  Class <- MCClass
  Thread <- OneThread
  Packet <- MixedPackets
  FilterSets <- TCPFilter
  SavedFiles <- SavedPart
  MaxInstances = 1
  MaxClicks = 2
INVARIANTS
  CountsMatchCapture
  DisplayCurrent
  LoadsFile
  ConsoleMirrorsCapture
