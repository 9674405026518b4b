\* Two browsers behind one address, one email, one Discord id, one knowledge base;
\* two requests over one chat session, as long as Focus holds.
CONSTANTS
  None = None
  u1 = u1
  k1 = k1
  Browsers = {b1, b2}
  Emails = {e1}
  Discords = {x1}
  Users = {u1, u2, u3}
  AccessTtl = 2
  RefreshTtl = 3
  Capacity = 2
  TokenCost = 2
  MaxMoments = 3
  KBs = {k1}
  Owner <- MCOwner
  Sessions = {s1}
  Messages = {m1, m2, m3}
  Requests = {r1, r2}
  ChatTtl = 2
  MaxFaults = 1
SPECIFICATION Spec
CONSTRAINT Focus
SYMMETRY Alike
INVARIANTS TokensNameAccounts RateBounded AnsweredIsKept AuditComplete
