\* Two clients without a limit that keep asking, changes during the report.
SPECIFICATION FairSpec
CONSTANTS
  phone = phone
  laptop = laptop
  b1 = b1
  b2 = b2
  Clients = {phone, laptop}
  Names <- MCNames
  Metadata <- MCMetadata
  Bodies = {b1}
  Absent = Absent
  NoToken = NoToken
  NoLimit = NoLimit
  Limits = {NoLimit}
  MaxWrites = 3
INVARIANT ReplicaIsSnapshot
PROPERTY ReplicasConverge
