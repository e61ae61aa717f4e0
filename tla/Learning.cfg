\* Two students, two calls at a time, two questions; attempts of one instant;
\* reminders one and two days before; two tries for a number.
CONSTANTS
  s1 = s1
  s2 = s2
  Students = {s1, s2}
  k1 = k1
  k2 = k2
  Calls = {k1, k2}
  Questions = {q1, q2}
  Uses <- MCUses
  MaxNow = 3
  Duration = 1
  Before = {1, 2}
  Tries = 2
  NoAttempt = NoAttempt
  NoRequest = NoRequest
  Templates = {t1, t2}
  Fees = {f1}
  Devices = {d1, d2}
  Changes = {r1, r2}
  Nothing = Nothing
  a1 = a1
  a2 = a2
  Addresses = {a1, a2}
  NoAddress = NoAddress
  Taken = {a2}
  MaxCode = 3
  Sheets <- MCSheets
SPECIFICATION Spec
INVARIANTS TypeOK RecordsAgree
PROPERTIES Settled
CHECK_DEADLOCK FALSE
