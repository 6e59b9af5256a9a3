\* Headers in the plain style but for comments after a declaration, on its
\* own line.
CONSTANTS
    Records = {A, B}
    Names = {m}
    Fields = {f}
    Plain = Plain
    Bad = Bad
    None = None
    Quirks = {"trailing comment"}
    MaxFaults = 0
SPECIFICATION Spec
CHECK_DEADLOCK FALSE
INVARIANT PublicMethodsArePublished
