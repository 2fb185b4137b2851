SPECIFICATION SessionSpec
CONSTANTS
  Second = 2
  SessionTTL = 6
  SessionLifetime = 7
  RefreshThreshold = 3
  MaxTime = 8
  MaxSecrets = 2
  MaxUnlocks = 2
  MaxInFlight = 2
  NoToken = NoToken
INVARIANTS SessionBounded IdleGuarantee
