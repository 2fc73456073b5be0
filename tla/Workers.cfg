\* One delivery posted by two workers with three attempts; two calls with keys of their own or the
\* same, two documents and one worker that extracts.
SPECIFICATION WorkersSpec
CONSTANTS
    Deliveries = {e1}
    Workers = {w1, w2}
    MaxAttempts = 3
    None = None
    Docs = {d1, d2}
    FirstDoc = d1
    Jobs = {1, 2, 3}
    Calls = {c1, c2}
    Keys = {k1, k2}
    Extractors = {x1}
    c1 = c1
    c2 = c2
    k1 = k1
    k2 = k2
INVARIANTS PostsWithinLimit SucceededMeansTaken
PROPERTIES WorkersRest EveryExtractionEnds NoJobBlocks
CHECK_DEADLOCK FALSE
