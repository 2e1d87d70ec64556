--------------------------- MODULE MCUndoJournal ---------------------------
EXTENDS UndoJournal

CONSTANTS i1, i2      \* the two rows

MCParent == [id \in Ids |-> 0]
=============================================================================
