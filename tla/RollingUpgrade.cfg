SPECIFICATION Spec
CONSTANTS
    m1 = m1
    m2 = m2
    w1 = w1
    Masters = {m1, m2}
    Workers = {w1}
    Unready = {{}, {m2}, {w1}}
    Limit = 2
    MaxRestarts = 1
INVARIANTS OneNodeDown
PROPERTIES MastersLast RecordedMeansRunning Ends
CHECK_DEADLOCK FALSE
