SPECIFICATION FairSpec
CONSTANTS
  DefaultKeys <- Keys
  Conns = {c1, c2}
  Envs <- AllEnvs
INVARIANTS BastionCredentials NoneLeftBehind
PROPERTIES ForwardingSpec TunnelEnds
CHECK_DEADLOCK FALSE
