SPECIFICATION Spec
CONSTANTS
  Singles = {}
  Batches = {b1}
  Grants = {g1}
  Tools = {t1}
  FirstAsk = {g1}
  s1 = s1
  a1 = a1
  a2 = a2
  ls = ls
  df = df
  Sessions = {s1}
  Assets = {a1, a2}
  Commands = {ls, df}
  sessionOf <- OneSession
  assetOf <- AssetOf
  commandOf <- CommandOf
  None = None
CHECK_DEADLOCK FALSE
PROPERTIES StopCompletes WaitersReleased
