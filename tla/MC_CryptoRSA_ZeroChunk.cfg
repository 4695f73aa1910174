CONSTANTS
    KeySizes <- MCKeySizes
    PlainLens <- MCPlainLens
    Width = 16

SPECIFICATION CryptoSpec

PROPERTY CallsReturn

\* A caller's four calls end in Done or Failed, or a loop never ends: the
\* temporal property tells the two apart.
CHECK_DEADLOCK FALSE
