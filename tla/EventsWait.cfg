\* Waits, signals, clears, broken connections and restarts; no window has to end.
SPECIFICATION FairSpec
CONSTANTS
    Waiters = {w1, w2}
    Notifiers = {s1, s2}
    MaxGen = 3
INVARIANTS TypeOK NoLostWakeup NoMissedSignal
PROPERTY SignalWakes
