SPECIFICATION MCSpec
CONSTANTS
  Conn = {c1, c2}
  Device = {d1}
  Room = {r1, r2}
  Cap = 1
  MaxAccepts = 2
  MaxFrames = 3
  NoConn = NoConn
  NoRoom = NoRoom
  NoDevice = NoDevice
SYMMETRY Interchangeable
PROPERTY SlowViewerSparesDaemon
