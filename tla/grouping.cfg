\* Four linkedids over three channels: every way of sharing channels.
SPECIFICATION Spec
CONSTANTS
    LinkedId = {1, 2, 3, 4}
    UniqueId = {1, 2, 3}
    CelRow <- MCCelRow
INVARIANT TypeOK
INVARIANT NoUnrelatedCallsMerged
INVARIANT OverlapOnlyThroughSharedSequence
\* The loop ends.
CHECK_DEADLOCK FALSE
