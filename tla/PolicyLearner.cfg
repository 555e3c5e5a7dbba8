CONSTANTS
  Workers = {w1, w2}
  Admins = {a1}
  NoOne = NoOne
  PolicyEngine = "httpx"
  EnablePremium = TRUE
  TierInputs = {0, 3}
  Detected <- MCDetected
  MaxActive = 3
  MaxOps = 3
SPECIFICATION LearnerSpec
CHECK_DEADLOCK FALSE
SYMMETRY Symmetry
INVARIANT TierHasEvidence
PROPERTY FreshOutcomeIsLearned
