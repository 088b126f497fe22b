SPECIFICATION FairSpec
CONSTANTS
 BufferSize = 6
 PacketSize = 2
 Lengths = {2, 4}
 Endings <- CRLF
 Commands = {"move", "$X", "upload"}
 Keys = {"?", "!", "^X"}
 Hasty = {}
INVARIANTS LinesAreWhole
PROPERTIES StallEnds InputIsTaken
