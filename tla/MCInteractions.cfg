SPECIFICATION FairSpec
CONSTANTS
    Panel = {p1}
    Interaction = {i1}
    Reply = {accept, cancel}
    Cancel = cancel
    Slot = {s1, s2}
    None = None
    MaxIds = 2
    MaxFaults = 1
INVARIANTS AnswerIsClaimed TakenWasGiven CancelStopsRun
PROPERTIES CardUnlocks
