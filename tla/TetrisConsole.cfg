SPECIFICATION ConsoleSpec
INVARIANTS
    ShownBeforeNextFrame
PROPERTIES
    DrawnIsShown
