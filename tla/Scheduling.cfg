\* One organiser, two local attendees and a remote one, two requests at a time.
SPECIFICATION Spec
CONSTANTS
  c1 = c1
  c2 = c2
  boss = boss
  ann = ann
  bob = bob
  rem = rem
  Calls = {c1, c2}
  Organiser = boss
  Local = {ann, bob}
  Remote = {rem}
  Absent = Absent
  Imports <- MCImports
  MaxOps = 3
SYMMETRY MCSymmetry
CHECK_DEADLOCK FALSE
INVARIANTS CopiesAgree MeetingIsTheOrganisers StatusIsTrue
