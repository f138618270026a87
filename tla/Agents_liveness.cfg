SPECIFICATION FairSpec
CONSTANTS
  Convs = {c1}
  Sessions = {s1, s2}
  Runs = {r1, r2, r3}
  Names = {ellen}
  ConvOf <- OneConv
  NameOf <- SameAgent
  SessOf <- ThreeRuns
  Permits = 1
  NoRun = NoRun
  Unasked = Unasked
  c1 = c1  c2 = c2  s1 = s1  s2 = s2  r1 = r1  r2 = r2  r3 = r3
  ellen = ellen
PROPERTY RunsEnd
CHECK_DEADLOCK FALSE
