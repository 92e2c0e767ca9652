\* A client that limits the number of results.
SPECIFICATION Spec
CONSTANTS
  phone = phone
  laptop = laptop
  b1 = b1
  b2 = b2
  Clients = {phone}
  Names <- MCNames
  Metadata <- MCMetadata
  Bodies = {b1}
  Absent = Absent
  NoToken = NoToken
  NoLimit = NoLimit
  Limits = {1, NoLimit}
  MaxWrites = 3
INVARIANT ReplicaIsSnapshot
