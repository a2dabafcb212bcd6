SPECIFICATION Spec
CONSTANTS
    Inbox = inbox
    Drafts = drafts
    Trash = trash
    Folder = folder
    Sessions = {s1}
    Messages = {m1, m2}
    Old = {m1}
    Watched = {inbox}
    MaxWrites = 2
    MaxVal = 2
    NoBox = NoBox
INVARIANTS
    VanishedIsExact
SYMMETRY Symmetry
CHECK_DEADLOCK FALSE
