\* Two alerts, a channel of one and batches of two: a tick can overfill the
\* channel while a batch is retried, and a push can fall between two try_recv.
CONSTANTS
    Keys = {a, b}
    DISPATCH_CHANNEL_CAPACITY = 1
    MAX_BATCH = 2
    RETRY_ATTEMPTS = 2
    MaxAlerts = 3
    MaxLate = 1
SPECIFICATION Spec
INVARIANTS TypeOK FifoAccounting LossIsCounted RetryDiscipline AlertmanagerAgrees
PROPERTIES EverySettled ShutdownCompletes
CHECK_DEADLOCK FALSE
