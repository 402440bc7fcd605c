CONSTANTS
  idle = idle
  init = init
  a = a
  Task <- MCTask
  Idle = idle
  InitTask = init
  Quantum = 2
  Calls <- MCCalls
SPECIFICATION KSSpec
INVARIANTS KSTypeOK ChosenTaskExecutes OnePlace
PROPERTIES InterruptsInvisible CallsReturnToCaller ReadyTasksExecute
  NoOvertaking BoundedWaiting TurnHonoured
