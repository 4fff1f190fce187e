SPECIFICATION Spec
CONSTANTS
  t1 = t1
  t2 = t2
  tcp = tcp
  udp = udp
  arp = arp
  part = part
  Fx = Fx
  NoThread = NoThread
  NoPacket = NoPacket
  Blank = Blank
  NoFile = NoFile
  Class <- MCClass
  Thread <- OneThread
  Packet <- OnePacket
  FilterSets = {}
  SavedFiles = {}
  MaxInstances = 1
  MaxClicks = 0
INVARIANT StopCanReenable
