SPECIFICATION MCSpec
CONSTANTS
  u1 = u1  u2 = u2  u3 = u3  i1 = i1  i2 = i2  t1 = t1  t2 = t2  s1 = s1
  Nobody = Nobody
  Person = {u1, u2, u3}
  Request = {t1, t2}
  MappedRoles = {"user", "owner"}
  NoUser = NoUser  NoOne = NoOne  NoInvite = NoInvite  NoRole = NoRole
  User = {u1, u2, u3}
  Invite = {i1, i2}
  Registration = {t1, t2}
  Role = {"user", "moderator"}
  Identity = {s1}
  Callback = {t1, t2}
SYMMETRY Symmetries
CHECK_DEADLOCK FALSE
INVARIANTS AccountsInvariant IdentitiesInvariant AdmitsExactlyOne RevokedAdmitsNobody
PROPERTIES LastOwnerKept IdentityStays
