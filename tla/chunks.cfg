SPECIFICATION XSpec
CONSTANTS
    Files <- AllFiles
    Name = {1, 2, 3, 4, 5, 8, 9}
    Languages = {"Python", "TypeScript", "Go"}
CHECK_DEADLOCK FALSE
INVARIANT XTypeOK
INVARIANT Laminar
INVARIANT ParentIsInnermost
INVARIANT MethodsAreOfClasses
INVARIANT LinesAgree
INVARIANT FallbackTiles
INVARIANT NothingSkipped
PROPERTY ChunksEnd
