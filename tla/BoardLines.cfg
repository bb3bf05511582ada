SPECIFICATION BoardSpec
CONSTANTS
    BoardSize = 7
    Layouts <- MCLayouts
INVARIANTS WinIsRowOfFive
CHECK_DEADLOCK FALSE
