SPECIFICATION FairSpec
CONSTANTS
    Chat = {c1, c2}
    Slot = {s1, s2}
    None = None
    MaxIds = 2
    MaxFaults = 2
INVARIANTS PromptOnce SettledIsOwned
PROPERTIES SendAnswered
