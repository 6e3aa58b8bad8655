\* Three tasks of which one never ends; a ticker with two callbacks; two HTTP
\* clients, of which one makes two requests, and a backlog of one; two
\* cooperative tasks of up to two iterations; two publishers; an MQTT client of
\* two threads, whose handler answers messages.
SPECIFICATION PartsSpec
CONSTANTS
  Main = main
  TaskIds = {t1, t2, t3}
  Endless = {t3}
  Callbacks = {f, g}
  MaxFires = 3
  Clients = {c1, c2}
  Busy = c1
  Turns <- MCTurns
  Posts <- MCPosts
  Backlog = 1
  NoRequest = none
  Jobs = {j1, j2}
  MaxIterations = 2
  MaxListed = 2
  Publishers = {p, q}
  Topics <- MCTopics
  Filters <- MCFilters
  MaxSubscriptions = 2
  Nobody = nobody
  MqttHandler <- MCHandler
  Commands = {cmd}
  MaxIds = 1
  NoHandlerCall = nocall
INVARIANT DeletedIsOver NoTaskIsForgotten OldCallbacksAreSilent
INVARIANT WholeUnlessLate PeriodsAreWhole OncePerMatch
PROPERTY CallsReturn
\* A program may wait for an endless task, or have terminated.
CHECK_DEADLOCK FALSE
