SPECIFICATION Spec
CONSTANTS
    large = large
    other = other
    small = small
    single = single
    Datagrams = {large, other, small, single}
    Header <- MCHeader
    Fragments <- MCFragments
    Copies <- TwiceLarge
INVARIANT
    ReceivedAsSent
\* Everything that was sent has arrived.
CHECK_DEADLOCK FALSE
