------------------------------ MODULE CryptoRSA ------------------------------
(***************************************************************************)
(* The chunked RSA encryption and decryption of                            *)
(* src/src/OpcUaStackCore/Certificate/CryptoRSA.cpp: publicEncrypt and     *)
(* privateDecrypt split their input into chunks that fit the key and the  *)
(* padding and loop over them.  Called with a null output buffer they     *)
(* only compute the output length; a caller asks for the length first,    *)
(* allocates that much and calls again.  The model follows one caller     *)
(* through the four calls (encrypt length, encrypt, decrypt length,        *)
(* decrypt), with the loops' unsigned 32-bit arithmetic kept at a reduced *)
(* width Width.  Byte contents are abstracted: a ciphertext is the         *)
(* sequence of the plaintext lengths of its chunks.  The key is a valid   *)
(* RSA key; OpenSSL's RSA_public_encrypt and RSA_private_decrypt are      *)
(* modelled by their documented length rules.                             *)
(***************************************************************************)
EXTENDS Naturals, Sequences

CONSTANTS
    KeySizes,    \* RSA key sizes in bytes (publicKey->keySize(), RSA_size)
    PlainLens,   \* plaintext lengths the caller encrypts
    Width        \* width of the uint32_t / int32_t arithmetic

ASSUME SizesAssumption ==
    /\ KeySizes \subseteq Nat \ {0}
    /\ PlainLens \subseteq Nat
    /\ Width \in Nat \ {0}

\* A word of Width bits holds 2^Width values.
ASSUME WordAssumption == 2 ^ Width \in Nat \ {0}

\* The padding argument: the three OpenSSL modes and any other value.
Paddings == {"PKCS1", "OAEP", "None", "Other"}

\* Unsigned (and wrapped signed) arithmetic at the modelled width.
UInt(x) == x % (2 ^ Width)

VARIABLES
    keySize, padding, plainLen,   \* the caller's key, padding and input
    call,        \* "EncQuery", "Enc", "DecQuery", "Dec", "Done", "Failed"
    loop,        \* inside the while loop of the current call
    dataSize,    \* encryptedDataSize / decryptedDataSize
    bytes,       \* bytesToEncrypt
    inPos,       \* plainTextPosition / encryptedTextPosition
    outPos,      \* encryptedTextPosition while encrypting
    outLen,      \* *encryptedTextLen / *plainTextLen
    querySize,   \* length returned by the encrypt length query
    encLen,      \* length of the ciphertext produced
    plainQuery,  \* length returned by the decrypt length query
    plainOut,    \* length of the decrypted plaintext
    cipher,      \* plaintext length of each chunk of the ciphertext
    overflow,    \* some call wrote past the buffer it was given
    truncated    \* the ciphertext reaches privateDecrypt one byte short

cryptoVars == <<keySize, padding, plainLen, call, loop, dataSize, bytes, inPos,
                outPos, outLen, querySize, encLen, plainQuery, plainOut, cipher,
                overflow, truncated>>

CryptoTypeOK ==
    /\ keySize \in KeySizes /\ padding \in Paddings /\ plainLen \in PlainLens
    /\ call \in {"EncQuery", "Enc", "DecQuery", "Dec", "Done", "Failed"}
    /\ loop \in BOOLEAN
    /\ {dataSize, bytes, inPos, outPos, outLen, querySize, encLen, plainQuery,
        plainOut} \subseteq 0 .. (2 ^ Width - 1)
    /\ cipher \in Seq(Nat)
    /\ overflow \in BOOLEAN
    /\ truncated \in BOOLEAN

CryptoInit ==
    /\ keySize \in KeySizes /\ padding \in Paddings /\ plainLen \in PlainLens
    /\ call = "EncQuery" /\ loop = FALSE
    /\ dataSize = 0 /\ bytes = 0 /\ inPos = 0 /\ outPos = 0 /\ outLen = 0
    /\ querySize = 0 /\ encLen = 0 /\ plainQuery = 0 /\ plainOut = 0
    /\ cipher = <<>>
    /\ overflow = FALSE
    /\ truncated \in BOOLEAN

-----------------------------------------------------------------------------
(* OpenSSL (not under src/): the largest input RSA_public_encrypt accepts, *)
(* which is also the most RSA_private_decrypt writes.                      *)

RsaEncryptAccepts(n) ==
    CASE padding = "PKCS1" -> n + 11 <= keySize
      [] padding = "OAEP"  -> n + 42 <= keySize
      [] padding = "None"  -> n = keySize

-----------------------------------------------------------------------------
(* publicEncrypt *)

\* Mutant of EncryptDataSize: the OAEP overhead is taken one byte too large.
EncryptDataSizeOAEP43 ==
    CASE padding = "PKCS1" -> UInt(keySize - 11)
      [] padding = "OAEP"  -> UInt(keySize - 43)
      [] padding = "None"  -> keySize

\* The chunk size of publicEncrypt's padding switch, in uint32_t.
EncryptDataSize ==
    CASE padding = "PKCS1" -> UInt(keySize - 11)
      [] padding = "OAEP"  -> UInt(keySize - 42)
      [] padding = "None"  -> keySize

\* An empty plaintext (BadInvalidArgument) or an unknown padding
\* (BadNotSupported) ends the call before the loop.
PublicEncryptRejected ==
    /\ call \in {"EncQuery", "Enc"} /\ ~loop
    /\ plainLen = 0 \/ padding = "Other"
    /\ call' = "Failed"
    /\ UNCHANGED <<keySize, padding, plainLen, loop, dataSize, bytes, inPos, outPos,
                   outLen, querySize, encLen, plainQuery, plainOut, cipher, overflow, truncated>>

\* *encryptedTextLen = 0; the chunk size; the first chunk's length; the loop.
PublicEncryptEnter ==
    /\ call \in {"EncQuery", "Enc"} /\ ~loop
    /\ plainLen # 0 /\ padding # "Other"
    /\ loop' = TRUE
    /\ dataSize' = EncryptDataSize
    /\ bytes' = IF plainLen < EncryptDataSize THEN plainLen ELSE EncryptDataSize
    /\ inPos' = 0 /\ outPos' = 0 /\ outLen' = 0
    /\ UNCHANGED <<keySize, padding, plainLen, call, querySize, encLen, plainQuery,
                   plainOut, cipher, overflow, truncated>>

\* The length of the chunk at plainTextPosition: the last part could be
\* smaller.
ChunkBytes ==
    IF plainLen >= dataSize /\ UInt(plainLen - inPos) < dataSize
      THEN UInt(plainLen - inPos) ELSE bytes

\* Mutant of EncryptChunk: the length query counts encryptedDataSize bytes
\* per chunk instead of the keySize bytes RSA produces.
EncryptChunkQueryDataSize ==
    /\ call \in {"EncQuery", "Enc"} /\ loop
    /\ inPos < plainLen
    /\ call = "Enc" => RsaEncryptAccepts(ChunkBytes)
    /\ bytes' = ChunkBytes
    /\ outLen' = UInt(outLen + IF call = "Enc" THEN keySize ELSE dataSize)
    /\ outPos' = UInt(outPos + keySize)
    /\ inPos' = UInt(inPos + ChunkBytes)
    /\ overflow' = (overflow \/ (call = "Enc" /\ outPos + keySize > querySize))
    /\ cipher' = IF call = "Enc" THEN Append(cipher, ChunkBytes) ELSE cipher
    /\ UNCHANGED <<keySize, padding, plainLen, call, loop, dataSize, querySize,
                   encLen, plainQuery, plainOut, truncated>>

\* Mutant of EncryptChunk: the loop runs while plainTextPosition <=
\* plainTextLen.
EncryptChunkOffByOne ==
    /\ call \in {"EncQuery", "Enc"} /\ loop
    /\ inPos <= plainLen
    /\ call = "Enc" => RsaEncryptAccepts(ChunkBytes)
    /\ bytes' = ChunkBytes
    /\ outLen' = UInt(outLen + keySize)
    /\ outPos' = UInt(outPos + keySize)
    /\ inPos' = UInt(inPos + ChunkBytes)
    /\ overflow' = (overflow \/ (call = "Enc" /\ outPos + keySize > querySize))
    /\ cipher' = IF call = "Enc" THEN Append(cipher, ChunkBytes) ELSE cipher
    /\ UNCHANGED <<keySize, padding, plainLen, call, loop, dataSize, querySize,
                   encLen, plainQuery, plainOut, truncated>>

\* Mutant of EncryptChunk: *encryptedTextLen counts bytesToEncrypt instead of
\* the bytes RSA_public_encrypt returned.
EncryptChunkCountsPlain ==
    /\ call \in {"EncQuery", "Enc"} /\ loop
    /\ inPos < plainLen
    /\ call = "Enc" => RsaEncryptAccepts(ChunkBytes)
    /\ bytes' = ChunkBytes
    /\ outLen' = UInt(outLen + IF call = "Enc" THEN ChunkBytes ELSE keySize)
    /\ outPos' = UInt(outPos + keySize)
    /\ inPos' = UInt(inPos + ChunkBytes)
    /\ overflow' = (overflow \/ (call = "Enc" /\ outPos + keySize > querySize))
    /\ cipher' = IF call = "Enc" THEN Append(cipher, ChunkBytes) ELSE cipher
    /\ UNCHANGED <<keySize, padding, plainLen, call, loop, dataSize, querySize,
                   encLen, plainQuery, plainOut, truncated>>

\* One iteration: with a buffer, RSA_public_encrypt writes keySize bytes at
\* encryptedTextPosition; without one, keySize is counted.  Both positions
\* and the length advance.
EncryptChunk ==
    /\ call \in {"EncQuery", "Enc"} /\ loop
    /\ inPos < plainLen
    /\ call = "Enc" => RsaEncryptAccepts(ChunkBytes)
    /\ bytes' = ChunkBytes
    /\ outLen' = UInt(outLen + keySize)
    /\ outPos' = UInt(outPos + keySize)
    /\ inPos' = UInt(inPos + ChunkBytes)
    /\ overflow' = (overflow \/ (call = "Enc" /\ outPos + keySize > querySize))
    /\ cipher' = IF call = "Enc" THEN Append(cipher, ChunkBytes) ELSE cipher
    /\ UNCHANGED <<keySize, padding, plainLen, call, loop, dataSize, querySize,
                   encLen, plainQuery, plainOut, truncated>>

\* RSA_public_encrypt refuses the chunk: BadUnexpectedError.
EncryptChunkFails ==
    /\ call = "Enc" /\ loop
    /\ inPos < plainLen
    /\ ~RsaEncryptAccepts(ChunkBytes)
    /\ call' = "Failed" /\ loop' = FALSE
    /\ UNCHANGED <<keySize, padding, plainLen, dataSize, bytes, inPos, outPos, outLen,
                   querySize, encLen, plainQuery, plainOut, cipher, overflow, truncated>>

\* The loop ends: Success with *encryptedTextLen.  The caller allocates the
\* queried length and encrypts, or goes on to decrypt.
EncryptDone ==
    /\ call \in {"EncQuery", "Enc"} /\ loop
    /\ inPos >= plainLen
    /\ loop' = FALSE
    /\ IF call = "EncQuery"
         THEN /\ querySize' = outLen /\ call' = "Enc" /\ encLen' = encLen
         ELSE /\ encLen' = outLen /\ call' = "DecQuery" /\ querySize' = querySize
    /\ UNCHANGED <<keySize, padding, plainLen, dataSize, bytes, inPos, outPos, outLen,
                   plainQuery, plainOut, cipher, overflow, truncated>>

-----------------------------------------------------------------------------
(* privateDecrypt *)

\* Mutant of DecryptDataSize: the PKCS1 and OAEP overheads are swapped.
DecryptDataSizeSwapped ==
    CASE padding = "PKCS1" -> UInt(keySize - 42)
      [] padding = "OAEP"  -> UInt(keySize - 11)
      [] padding = "None"  -> keySize

\* The chunk size of privateDecrypt's padding switch, in uint32_t.
DecryptDataSize ==
    CASE padding = "PKCS1" -> UInt(keySize - 11)
      [] padding = "OAEP"  -> UInt(keySize - 42)
      [] padding = "None"  -> keySize

\* encryptedTextLen: the ciphertext as privateDecrypt receives it.
DecInLen == IF truncated THEN UInt(encLen - 1) ELSE encLen

\* An empty ciphertext or one that is not a whole number of keySize
\* blocks (BadInvalidArgument), or an unknown padding (BadNotSupported).
PrivateDecryptRejected ==
    /\ call \in {"DecQuery", "Dec"} /\ ~loop
    /\ DecInLen = 0 \/ DecInLen % keySize # 0 \/ padding = "Other"
    /\ call' = "Failed"
    /\ UNCHANGED <<keySize, padding, plainLen, loop, dataSize, bytes, inPos, outPos,
                   outLen, querySize, encLen, plainQuery, plainOut, cipher, overflow, truncated>>

\* *plainTextLen = 0; the chunk size; the loop over keySize blocks.
PrivateDecryptEnter ==
    /\ call \in {"DecQuery", "Dec"} /\ ~loop
    /\ DecInLen # 0 /\ DecInLen % keySize = 0 /\ padding # "Other"
    /\ loop' = TRUE
    /\ dataSize' = DecryptDataSize
    /\ inPos' = 0 /\ outLen' = 0
    /\ UNCHANGED <<keySize, padding, plainLen, call, bytes, outPos, querySize, encLen,
                   plainQuery, plainOut, cipher, overflow, truncated>>

\* The plaintext bytes the block at encryptedTextPosition decrypts to.
BlockBytes == cipher[inPos \div keySize + 1]

\* Mutant of DecryptBlock: decryptedDataSize is counted also when a buffer
\* is given, instead of what RSA_private_decrypt returned.
DecryptBlockDataSize ==
    /\ call \in {"DecQuery", "Dec"} /\ loop
    /\ inPos < DecInLen
    /\ outLen' = UInt(outLen + dataSize)
    /\ overflow' = (overflow \/ (call = "Dec" /\ outLen + BlockBytes > plainQuery))
    /\ inPos' = UInt(inPos + keySize)
    /\ UNCHANGED <<keySize, padding, plainLen, call, loop, dataSize, bytes, outPos,
                   querySize, encLen, plainQuery, plainOut, cipher, truncated>>

\* One iteration: with a buffer, RSA_private_decrypt writes the block's
\* plaintext at plainTextBuf + *plainTextLen; without one,
\* decryptedDataSize is counted.
DecryptBlock ==
    /\ call \in {"DecQuery", "Dec"} /\ loop
    /\ inPos < DecInLen
    /\ outLen' = UInt(outLen + IF call = "Dec" THEN BlockBytes ELSE dataSize)
    /\ overflow' = (overflow \/ (call = "Dec" /\ outLen + BlockBytes > plainQuery))
    /\ inPos' = UInt(inPos + keySize)
    /\ UNCHANGED <<keySize, padding, plainLen, call, loop, dataSize, bytes, outPos,
                   querySize, encLen, plainQuery, plainOut, cipher, truncated>>

\* The loop ends: Success with *plainTextLen.  The caller allocates the
\* queried length and decrypts.
DecryptDone ==
    /\ call \in {"DecQuery", "Dec"} /\ loop
    /\ inPos >= DecInLen
    /\ loop' = FALSE
    /\ IF call = "DecQuery"
         THEN /\ plainQuery' = outLen /\ call' = "Dec" /\ plainOut' = plainOut
         ELSE /\ plainOut' = outLen /\ call' = "Done" /\ plainQuery' = plainQuery
    /\ UNCHANGED <<keySize, padding, plainLen, dataSize, bytes, inPos, outPos, outLen,
                   querySize, encLen, cipher, overflow, truncated>>

-----------------------------------------------------------------------------

CryptoNext ==
    \/ PublicEncryptRejected \/ PublicEncryptEnter
    \/ EncryptChunk \/ EncryptChunkFails \/ EncryptDone
    \/ PrivateDecryptRejected \/ PrivateDecryptEnter
    \/ DecryptBlock \/ DecryptDone

\* The calling thread runs the calls to the end.
CryptoSpec == CryptoInit /\ [][CryptoNext]_cryptoVars /\ WF_cryptoVars(CryptoNext)

-----------------------------------------------------------------------------
(* Reference definitions and properties *)

\* The number of chunks of at most d bytes that n bytes take.
Chunks(n, d) == (n + d - 1) \div d

\* The encrypt length query returns the length encryption then produces,
\* which is one keySize block per chunk of at most encryptedDataSize bytes.
SizeQueryExact ==
    call \in {"DecQuery", "Dec", "Done"} =>
        /\ encLen = querySize
        /\ querySize = Chunks(plainLen, EncryptDataSize) * keySize

\* No call writes past the buffer whose length the caller obtained from
\* the preceding length query.
NoBufferOverflow == ~overflow

\* Decrypting what was encrypted gives back as many bytes as were encrypted.
RoundTrip == call = "Done" => plainOut = plainLen

\* Every call returns: publicEncrypt and privateDecrypt terminate.
CallsReturn == <>(call \in {"Done", "Failed"})

=============================================================================
