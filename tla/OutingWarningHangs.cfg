\* A push that never ends.
SPECIFICATION WarnFairSpec
CONSTANTS
  Devices = {"phone", "laptop"}
  Installed = {"phone", "laptop"}
  Senders = {"w1"}
  MaxWarnAttempts = 2
  MaxSubscriptions <- MCMaxSubscriptions
  MaxCreates = 2
PROPERTY NoPushStopsTheOthers
CHECK_DEADLOCK FALSE
