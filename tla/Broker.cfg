\* Energy monitor: the data objects and the subscription check over a
\* millis() of 3 bits, so that it rolls over within the 10 ms modelled.
CONSTANTS
    NaN = NaN
    ClockBits = 3
    MaxTime = 10
    Readings = {0, 1}
    Rates = {2}
    Maxes = {0, 3}
    SubObjs = {"E"}
SPECIFICATION Spec
INVARIANT EnergyTotalized
INVARIANT SubscriptionNotEarly
