SPECIFICATION IntentSpec
CONSTANTS
    Fetchers = {f1}
    Executors = {p1}
    Intents = {k1}
    BatchSize = 1
    IntentFaults = 0
INVARIANTS
    IntentsLand
