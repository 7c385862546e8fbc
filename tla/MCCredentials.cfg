SPECIFICATION Spec
CONSTANTS
  a = a  s1 = s1  s2 = s2  t1 = t1  k1 = k1  k2 = k2  r1 = r1  r2 = r2
  NoUser = NoUser  None = None
  User = {a}
  Session = {s1, s2}
  ApiToken = {t1}
  Mailed = {k1}
  Request = {r1, r2}
  MaxPassword = 2
  MailEnabled = TRUE
SYMMETRY Symmetries
INVARIANTS CredentialsInvariant VerifiedForAReason
