SPECIFICATION FairUse
CONSTANTS
  Notifiers = {n1, n2}
  Task = task
  Width = 3
  MaxGives = 7
  Notices <- SomeNotices
  TaskCalls <- SomeCalls
  None = None
INVARIANTS NoMissedNotification GivesAreConserved
PROPERTIES PendingUntilDelivered CallsReturn EveryGiveIsTaken Mailbox
