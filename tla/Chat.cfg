SPECIFICATION Spec
CONSTANTS
    s1 = s1
    s2 = s2
    ana = ana
    dot = dot
    marks = marks
    d1 = d1
    NoDir = NoDir
    Root = Root
    SafeName <- MCSafeName
    Names = {ana, dot, marks}
    Dirs = {d1, Root}
    Texts = {"x"}
    Sessions = {s1, s2}
    MaxTime = 1
    MaxPrompts = 2
    MaxCrashes = 1
SYMMETRY MCSymmetry
INVARIANTS
    ChatInv
    AnswersFollowPrompts
    TruncatedIsFilled
    OwnMessagesOnly
