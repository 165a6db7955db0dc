SPECIFICATION FairSpec
CONSTANTS
    thumb = thumb
    digit = digit
    MaxRevision = 3
    Of <- MCOf
    Answers = {thumb, digit}
    Reacts = {thumb}
    Target <- MCTarget
    Fits <- MCFits
    MaxAsked = 2
    MaxEpoch = 1
    MaxTroubles = 2
INVARIANTS QuestionsInv
PROPERTIES EveryAnswerSettles
