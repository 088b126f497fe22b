SPECIFICATION FairSpec
CONSTANTS
 BufferSize = 6
 PacketSize = 2
 Lengths = {1, 4}
 Endings <- LF
 Commands = {"move"}
 Keys = {}
 Hasty = {"long"}
PROPERTIES StallEnds
