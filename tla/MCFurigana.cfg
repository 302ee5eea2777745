CONSTANTS
    NumCharacters = 3
    NumClasses = 5
    Steps = 3
    MaxBoxes = 2
    Kanji = {1}
    Spaces = {3}
    Lexicon <- MCLexicon
    Readings = {"r"}
SPECIFICATION Spec
INVARIANTS
    CtcGreedy
    ReadingsOverTheirWords
    ReadingLostOnlyBehindSpace
    TextMatchesRegions
    StatusHonest
