SPECIFICATION Spec
CONSTANTS
    Words = {k1, blank, default}
    Blanks = {blank}
    Empty = empty
    Default = default
    MaxUsers = 3
INVARIANT
    DeduplicatedCredentialsValid
\* The constructor returns or panics.
CHECK_DEADLOCK FALSE
