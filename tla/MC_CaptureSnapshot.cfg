\* Windows shorter and longer than each other, and not configured.
CONSTANTS
    Services = {a, b, c}
    Windows = {0, 1, 90}
SPECIFICATION Spec
INVARIANTS
    ActivityIsObserved
\* The function returns.
CHECK_DEADLOCK FALSE
