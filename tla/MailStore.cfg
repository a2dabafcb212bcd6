SPECIFICATION FairSpec
CONSTANTS
    Inbox = inbox
    Drafts = drafts
    Trash = trash
    Folder = folder
    Sessions = {s1}
    Messages = {m1, m2, m3, m4}
    Old = {m1}
    Watched = {inbox, folder}
    MaxWrites = 2
    MaxVal = 2
    NoBox = NoBox
INVARIANTS
    PictureIsTrue
    NoGhosts
    UidNamesOne
PROPERTIES
    ModseqGrows
    ToldInTheEnd
CHECK_DEADLOCK FALSE
