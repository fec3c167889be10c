SPECIFICATION LiveSpec
CONSTANTS
  c1 = c1
  c2 = c2
  c3 = c3
  Contacts = {c1, c2, c3}
  MaxLinks = 2
  MaxRecoveries = 2
  LinkLife = 1
  Window = 2
  ChallengeLife = 1
  SessionLife = 2
  MaxAttempts = 2
  MaxGivenUp = 1
INVARIANTS ResetNeedsQuorumAndMail KeyMaterialOnlyWhileOpen
PROPERTIES ImplementsPromise FollowsReducers
