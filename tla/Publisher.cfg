\* Requests that outlive connections, brokers, queues and Close.
CONSTANTS
    j1 = j1  j2 = j2  j3 = j3  push = push  score = score
    Jobs = {j1, j2, j3}
    Queues = {push, score}
    QueueOf <- TwoQueues
    MaxConnections = 3
    DeletesQueues = TRUE
SPECIFICATION FairSpec
CHECK_DEADLOCK FALSE
INVARIANTS NoConnectionLeaks PublishesOnAChannel
PROPERTIES KeepsThePromise EveryCallReturns
