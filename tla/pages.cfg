SPECIFICATION Spec
CONSTANTS
    Answers <- SomeAnswers
    Limits = {0, 1}
    DefaultLimit = 2
    Ids = {1, 2, 3}
    Sent <- OneSentTwice
    Values = {0, 1}
    MaxStamp = 2
    MaxWrites = 2
INVARIANTS NothingSkipped
PROPERTIES RepeatsWerePushed
