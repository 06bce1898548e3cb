CONSTANT MaxPort = 2
SPECIFICATION UdpSpec
PROPERTY PrintedNotListed
