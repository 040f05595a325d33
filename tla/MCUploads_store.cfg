\* Uploads of the same and of different content for one build, a damaged one and an invalid one.
CONSTANTS
    u1 = u1
    u2 = u2
    u3 = u3
    u4 = u4
    u5 = u5
    b1 = b1
    b2 = b2
    c1 = c1
    c2 = c2
    c3 = c3
    Upload = {u1, u2, u3, u4, u5}
    Build <- MCBuild
    Sent <- MCSent
    Declared <- MCDeclared
    Content = {c1, c2, c3}
    Invalid = {u5}
    NoContent = NoContent
SPECIFICATION UploadSpec
INVARIANTS RegisteredHasFile AnswersAreTrue
