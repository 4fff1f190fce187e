SPECIFICATION Spec
CONSTANTS
  request = request
  reply = reply
  stranger = stranger
  query = query
  arp = arp
  part = part
  a = a
  b = b
  c = c
  BadText = BadText
  Empty = Empty
  NoList = NoList
  NoAddress = NoAddress
  Nothing = Nothing
  Class <- MCClass
  Protocol <- MCProtocol
  SrcIP <- MCSrcIP
  DstIP <- MCDstIP
  SrcPort <- MCSrcPort
  DstPort <- MCDstPort
  Address <- Addresses
  Packet <- ViewPackets
  Files <- ViewFiles
  IPText <- OneOrBad
  PortText <- PortOrBad
  MaxCapture = 1
  MaxClicks = 6
  Number = {0, 1, 3}
  Data <- MCData
INVARIANTS
  FilterExclusive
  ClearedIsClear
  SteadyView
  FollowIsIP
PROPERTIES
  StreamKeepsDirection
  AppliesWanted
