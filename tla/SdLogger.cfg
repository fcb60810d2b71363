\* Two base-3 digits: a ring of nine log files, enough for a full ring,
\* a wrap past the last number and two low-space removals in one step.
CONSTANT Base = 3
SPECIFICATION Spec
INVARIANT TypeOK
PROPERTY ImplementsRing
