SPECIFICATION Spec
CONSTANTS
    Conns = {service, worker, controller}
    MaxRows = 2
    MaxCrashes = 1
    IoFaults = TRUE
INVARIANTS
    TypeOK
    TakenOnce
    IdleHoldsNoLock
PROPERTIES
    AtomicQueue
    CallsReturn
