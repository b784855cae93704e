CONSTANTS
  first = first
  reused = reused
  rival = rival
  successor = successor
  a1 = a1
  a2 = a2
  a3 = a3
  driver = driver
  NoCommand = NoCommand
  NoSession = NoSession
  Actions = {a1, a3}
  Drivers = {driver}
  Commands = {first, successor}
  Sessions = {s1, s2}
  ActionOf <- MCActionOf
  DriverOf <- MCDriverOf
  Expected <- MCExpected
  DependsOn <- MCDependsOn
  Integrated = {a1}
  MaxFaults = 3
SPECIFICATION FairKernelSpec
PROPERTY
  EventuallyAnswered
