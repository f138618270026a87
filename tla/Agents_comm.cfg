SPECIFICATION Spec
CONSTANTS
  Convs = {c1, c2}
  Sessions = {s1, s2}
  Runs = {r1, r2}
  Names = {ellen}
  ConvOf <- TwoConvs
  NameOf <- SameAgent
  SessOf <- TwoRuns
  Permits = 2
  NoRun = NoRun
  Unasked = Unasked
  c1 = c1  c2 = c2  s1 = s1  s2 = s2  r1 = r1  r2 = r2  r3 = r3
  ellen = ellen
INVARIANT TextsReachOwner
CHECK_DEADLOCK FALSE
