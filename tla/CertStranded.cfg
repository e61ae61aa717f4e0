\* One call at a time; two rows of the history may be made by hand.
CONSTANTS
  s1 = s1
  s2 = s2
  Students = {s1, s2}
  k1 = k1
  k2 = k2
  Calls = {k1, k2}
  Questions = {q1, q2}
  Uses <- MCStranded
  MaxNow = 3
  Duration = 1
  Before = {1, 2}
  Tries = 2
  NoAttempt = NoAttempt
  NoRequest = NoRequest
  Templates = {t1, t2}
  Fees = {f1}
  Devices = {d1, d2}
  Changes = {r1, r2}
  Nothing = Nothing
  a1 = a1
  a2 = a2
  Addresses = {a1, a2}
  NoAddress = NoAddress
  Taken = {a2}
  MaxCode = 3
  Sheets <- MCSheets
SPECIFICATION Spec
INVARIANT ApprovedIsIssued
CHECK_DEADLOCK FALSE
