SPECIFICATION NotificationsSpec
CONSTANTS
    Hands = {h1}
    Buyers = {b1}
    MaxFacts = 2
    MaxMoods = 0
    MaxLost = 0
INVARIANTS
    OutageKeepsQueued
CHECK_DEADLOCK FALSE
