CONSTANTS
    Mids = {0, 1, 65535}
    Totals = {2, 3, 17, 64}
SPECIFICATION Spec
INVARIANT HeldFragmentsAcked
\* the reassembler stops once it holds every candidate fragment
CHECK_DEADLOCK FALSE
