CONSTANTS
  t1 = t1  f1 = f1  f2 = f2  l1 = l1  l2 = l2  anna = anna  pass1 = pass1  pass2 = pass2  pass3 = pass3
  None = None
  Gone = Gone
  Blank = Blank
  Tab <- OneTab
  Frame <- TwoFrames
  TabOf <- InOneTab
  Top <- TopFrame
  Login <- Logins
  Site <- Sites
  Name <- Names
  Pass <- Passwords
  Shown <- HomeInMail
  Typed <- Forms
  Edits <- Changes
  Start <- Starts
  MaxSubs = 2
  MaxLoads = 1
  Address <- Tenant
  MultiLabel <- Tenant
  Shared <- Tenant
SPECIFICATION Spec
CHECK_DEADLOCK FALSE
INVARIANTS TypeOK HeldUntilAnswered NoDuplicate
PROPERTIES AnswerSticks OverwritesMatch PromptComes
