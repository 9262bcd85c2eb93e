\* Edits, conversions, inlinings, undo and redo, saving and opening.
SPECIFICATION Spec
CONSTANTS
    Documents <- MCDocuments
    HistoryLimit = 2
    FirstId = 9
    MaxId = 10
    MaxWork = 3
    MaxSelected = 1
INVARIANTS TypeOK EdgesConnect SubgraphsCoherent ViewIsShown
PROPERTY UndoIsATimeline
CHECK_DEADLOCK FALSE
