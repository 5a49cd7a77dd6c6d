\* Three linkedids: the third connects two groups that are already apart.
SPECIFICATION Spec
CONSTANTS
    LinkedId = {1, 2, 3}
    UniqueId = {1, 2}
    CelRow <- MCCelRow
INVARIANT CorrelationIsTransitive
\* The loop ends.
CHECK_DEADLOCK FALSE
