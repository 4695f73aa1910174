------------------------- MODULE MC_CryptoRSA_ZeroChunk -------------------------
(* Keys whose size equals the padding overhead: 11 bytes (PKCS1), 42 bytes *)
(* (OAEP), as a peer certificate with an 88- or 336-bit modulus has.        *)
EXTENDS CryptoRSA

MCKeySizes == {11, 42}
MCPlainLens == {1, 5}
=============================================================================
