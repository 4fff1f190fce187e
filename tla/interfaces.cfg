SPECIFICATION Spec
CONSTANTS
  Interface <- Hosts
  Addresses <- HostAddresses
  Attachments <- Orders
INVARIANTS
  OpensSelected
  ShowsAddresses
