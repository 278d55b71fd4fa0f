SPECIFICATION Spec
CONSTANTS
    Threads = {t1, t2, t3}
    Queues = {q1, q2}
    Fibers = {f1, f2}
    None = None
SYMMETRY Interchangeable
INVARIANTS
    QueueTypeOK
    NodesSound
PROPERTIES
    ImplementsFifo
