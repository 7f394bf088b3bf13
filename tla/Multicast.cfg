SPECIFICATION Spec
CONSTANTS
    Width <- Widths
    Group <- Groups
    MaxRoutes = 3
    None = None
INVARIANTS OnlyRoutedGroups FailuresAreLocal
CHECK_DEADLOCK FALSE
