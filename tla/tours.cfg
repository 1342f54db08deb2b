SPECIFICATION ToursSpec
CONSTANTS
    Order <- MCOrder
INVARIANTS FailsOnlyByRace ShowsWhoItNames
