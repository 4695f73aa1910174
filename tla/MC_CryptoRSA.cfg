\* Arithmetic at 16 bits: an underflowing chunk size wraps to a value far
\* above every plaintext length, as it does at 32 bits.
CONSTANTS
    KeySizes <- MCKeySizes
    PlainLens <- MCPlainLens
    Width = 16

SPECIFICATION CryptoSpec

INVARIANT SizeQueryExact
INVARIANT NoBufferOverflow
INVARIANT RoundTrip
PROPERTY CallsReturn

\* A caller's four calls end in Done or Failed.
CHECK_DEADLOCK FALSE
