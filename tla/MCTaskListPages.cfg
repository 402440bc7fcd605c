CONSTANTS
  head = head
  idle = idle
  init = init
  f1 = f1
  f2 = f2
  f3 = f3
  Node <- MCNode
  NULL = null
  ListTasks = head
  IdleFrame = idle
  InitFrame = init
SPECIFICATION TaskListSpec
PROPERTY PagesUntouched
