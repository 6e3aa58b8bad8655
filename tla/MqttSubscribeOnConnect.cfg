SPECIFICATION FairSpec
CONSTANTS
  Threads = {sketch}
  Topics <- TwoTopics
  OnEvent <- ExampleHandler
  MaxIds = 2
  NoCall = NoCall
  NoThread = NoThread
PROPERTY CallsReturn
CHECK_DEADLOCK FALSE
