CONSTANTS
  Byte = 4
  LittleEndian = TRUE
  VLAN_MAX_DEPTH = 2
  ICMP_ECHO = 2
  ICMP_ECHOREPLY = 0
  ICMPV6_ECHO_REQUEST = 1
  ICMPV6_ECHO_REPLY = 3
  Frames <- AddressedFrames
  Address = {"client", "server"}
  Redirections <- TwoDevices
  MaxBridged = 4
SPECIFICATION Spec
INVARIANT PortChecksums
CHECK_DEADLOCK FALSE
