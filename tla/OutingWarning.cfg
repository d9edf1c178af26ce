\* Two devices with two subscriptions each, two workers.
SPECIFICATION WarnFairSpec
CONSTANTS
  Devices = {"phone", "laptop"}
  Installed = {"phone", "laptop"}
  Senders = {"w1", "w2"}
  MaxWarnAttempts = 2
  MaxSubscriptions <- MCMaxSubscriptions
  MaxCreates = 2
INVARIANTS
  DoneIsWarned
PROPERTIES
  EveryDeviceIsWarned
  GoneIsCleared
CHECK_DEADLOCK FALSE
