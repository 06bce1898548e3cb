CONSTANT MaxPort = 3
SPECIFICATION UdpSpec
INVARIANTS  SecretPrinted
