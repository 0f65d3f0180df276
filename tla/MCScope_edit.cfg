SPECIFICATION DiscoverySpec
SYMMETRY Symmetry
CONSTANTS
  Hosts <- MCHosts
  Creds = {1, 2, 3, 4}
  Kind <- MCKind
  Weak = {1}
  Bindings = {2}
  Group = {3}
  Selections = {{}, {2}, {1, 3}}
  Scopes = {{}, {1}, {3}, {2, 4}}
  MaxFaults = 1
  MaxEdits = 1
  Switches = {s1, s2}
  Firewalls = {fw}
  Servers = {}
  Ports = {1}
  Fans = {64, 65}
  Rebuilders = {w1, w2}
  MaxRewire = 2
  Ids = {i1, i2, i3}
  Keys = {"extreme", "xiq", "shop"}
  Shipped = {"extreme", "xiq"}
  Packs = {1, 2, 3}
  Walkers = {w1, w2}
  Vendors = {"extreme", "ruckus"}
  Tables = {1}
  MaxMibFaults = 1
  MaxMibEdits = 1
INVARIANT
  AssignedSubnetNeverSprayed
CHECK_DEADLOCK FALSE
