\* Five mails, two connections to the milter, three attempts in all.
SPECIFICATION Spec
CONSTANTS
  m1 = m1
  big = big
  own = own
  piped = piped
  letter = letter
  k1 = k1
  k2 = k2
  Mails = {m1, big, own, piped, letter}
  Itip = {m1, big, own, piped}
  Outgoing = {own}
  Route <- MCRoute
  Chunks <- MCChunks
  MaxChunks = 2
  Conns = {k1, k2}
  MaxAttempts = 3
  Nobody = Nobody
CHECK_DEADLOCK FALSE
INVARIANTS ForwardsWholeMails InboxIsHonest
PROPERTY MailGoesOn
