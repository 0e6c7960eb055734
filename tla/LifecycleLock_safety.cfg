\* Three threads nest locks on two sessions; no symmetry, for a temporal property.
SPECIFICATION Spec
CONSTANTS
    Threads = {t1, t2, t3}
    Sessions = {s1, s2}
    Mutexes = {m1, m2, m3, m4, m5}
    NoMutex = NoMutex
    MaxDepth = 2
INVARIANTS TypeOK RegistryCurrent
PROPERTIES ImplementsSessionLock
