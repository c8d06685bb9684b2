SPECIFICATION RecoveryFairSpec
CONSTANTS
  Tasks = {t1, t2}
  Sessions = {s1, s2, s3}
  NoTask = NoTask
  NoSession = NoSession
INVARIANTS
  ReauthOnlyByCollision
  ChannelUntouched
PROPERTIES
  SessionDiscipline
  LoginRestored
