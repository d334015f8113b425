SPECIFICATION MCSpec
CONSTANTS
  acme = acme
  t1 = t1
  t2 = t2
  c1 = c1
  c2 = c2
  k1 = k1
  k2 = k2
  s1 = s1
  Clients = {r1, r2}
  Configured <- MCConfigured
  Issued = {k1, k2}
  KeyTenant <- MCKeyTenant
  Default = default
  NoKey = NoKey
  Callers = {c1, c2}
  Tenants = {t1, t2}
  NoTenant = NoTenant
  Jobs = {1, 2, 3}
  MaxRetries <- MCMaxRetries
  Times = {0, 1}
  IdemKeys = {i1}
  NoIdemKey = NoIdemKey
  Filters = {"", "DEAD"}
  Limits = {0, 1, 3}
  DefaultLimit = 2
  MaxLimit = 2
  BatchSize = 2
SYMMETRY MCSymmetry
PROPERTY DeletesOnlyFinished
