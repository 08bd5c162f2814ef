\* A limit of zero, which is no limit.
SPECIFICATION Spec
CONSTANTS
    Sizes = {0, 1, 2, 3}
    Limits = {0}
INVARIANTS
    SeamlessPages
