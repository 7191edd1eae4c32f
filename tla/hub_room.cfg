SPECIFICATION MCSpec
CONSTANTS
  Conn = {c1, c2, c3}
  Device = {d1, d2}
  Room = {r1, r2}
  Cap = 2
  MaxAccepts = 3
  MaxFrames = 1
  NoConn = NoConn
  NoRoom = NoRoom
  NoDevice = NoDevice
SYMMETRY Interchangeable
VIEW Live
INVARIANTS TypeOK NoGhostSeat KickedIsOut PresenceInStep RoomIsolation
PROPERTY SeatLostOnlyByOwnerOrKick
