\* IDs come round after 2 (255 in the code), a datagram lives for the next one.
CONSTANTS
  w1 = w1
  temp = temp
  room = room
  odd = odd
  v1 = v1
  v2 = v2
  Workers = {w1}
  Reads <- MCReads
  Control = Control
  Nobody = Nobody
  Points = {temp, room, odd}
  Known = {temp, room}
  Values = {v1, v2}
  Foreign = {v2}
  Commands <- MCCommands
  MaxId = 2
  MaxAge = 1
SPECIFICATION Spec
INVARIANT OwnAnswers
PROPERTY CallsReturn
