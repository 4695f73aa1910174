------------------------------ MODULE MC_CryptoRSA ------------------------------
(* Key sizes below the PKCS1 overhead (5), between the overheads (20) and  *)
(* above both (43, 53: one and eleven OAEP bytes per chunk), plaintexts of  *)
(* zero, one, less than, equal to and several chunks.                       *)
EXTENDS CryptoRSA

MCKeySizes == {5, 20, 43, 53}
MCPlainLens == {0, 1, 9, 11, 20}
=============================================================================
