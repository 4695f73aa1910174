--------------------------- MODULE CryptoRSAProofs ---------------------------
(***************************************************************************)
(* Proofs about the chunked RSA calls of CryptoRSA.tla: the encrypt       *)
(* length query is exact, no call writes past the buffer the caller       *)
(* allocated from the length query, and decryption gives back the whole   *)
(* plaintext, for every key size, plaintext length and padding whose      *)
(* ciphertext length fits the integer width (and, for the last, every key *)
(* of two bytes or more).                                                 *)
(***************************************************************************)
EXTENDS CryptoRSA, TLAPS

\* The lengths fit the modelled uint32_t: a ciphertext one key block longer
\* than one block per plaintext byte can still be counted without wrapping.
FitsWidth == \A k \in KeySizes, p \in PlainLens : (p + 1) * k < 2 ^ Width

\* The bytes each padding mode adds to a chunk.
Overhead == CASE padding = "PKCS1" -> 11 [] padding = "OAEP" -> 42 [] padding = "None" -> 0

\* The padding is known and the key is longer than its overhead: the chunk
\* size keySize - 11 (or - 42) is one byte or more.
ValidChunk ==
    /\ padding \in {"PKCS1", "OAEP", "None"}
    /\ keySize > Overhead

\* The key is shorter than the padding's overhead: keySize - 11 (or - 42)
\* wrapped.
Underflow ==
    /\ padding \in {"PKCS1", "OAEP"}
    /\ keySize < Overhead

\* Every chunk of the ciphertext holds at most a chunk size of plaintext.
ChunksFit == \A i \in 1 .. Len(cipher) : cipher[i] <= EncryptDataSize

\* The encryption loop after inPos plaintext bytes: the positions are chunk
\* boundaries, one key block was counted (and, with a buffer, written) per
\* chunk, and bytesToEncrypt is the full chunk size.
EncLoopInv ==
    /\ inPos <= plainLen
    /\ inPos < plainLen =>
          /\ inPos % dataSize = 0
          /\ bytes = IF plainLen < dataSize THEN plainLen ELSE dataSize
    /\ outPos = Chunks(inPos, dataSize) * keySize
    /\ outLen = outPos
    /\ call = "Enc" => Len(cipher) = Chunks(inPos, dataSize) /\ ChunksFit

\* The state of publicEncrypt's two calls: a zero chunk size never gets past
\* the first chunk, a wrapped one is refused by RSA_public_encrypt at the
\* first chunk, and a valid one follows EncLoopInv; the query's length is
\* the one the encrypting call then produces.
EncInv ==
    /\ call \in {"Enc", "DecQuery", "Dec", "Done"} =>
          padding # "Other" /\ EncryptDataSize # 0
    /\ call = "EncQuery" => cipher = <<>>
    /\ call = "Enc" /\ ~loop => cipher = <<>>
    /\ call = "Enc" /\ ValidChunk => querySize = Chunks(plainLen, EncryptDataSize) * keySize
    /\ call = "Enc" /\ Underflow /\ loop => inPos = 0
    /\ call \in {"EncQuery", "Enc"} /\ loop =>
          /\ padding # "Other"
          /\ dataSize = EncryptDataSize
          /\ plainLen > 0
          /\ dataSize = 0 => inPos = 0 /\ bytes = 0
          /\ ValidChunk => EncLoopInv

\* The ciphertext the decrypting calls receive: whole key blocks, each
\* holding at most a chunk size of plaintext.
CipherInv ==
    call \in {"DecQuery", "Dec", "Done"} =>
        /\ ValidChunk
        /\ plainLen > 0
        /\ encLen = Chunks(plainLen, EncryptDataSize) * keySize
        /\ querySize = encLen
        /\ Len(cipher) = Chunks(plainLen, EncryptDataSize)
        /\ ChunksFit

\* The decryption loop after inPos ciphertext bytes: the query counts a
\* chunk size per key block, and the decrypting call has written at most
\* that, into a buffer of the queried length.
DecInv ==
    /\ call \in {"DecQuery", "Dec"} /\ loop =>
          /\ dataSize = EncryptDataSize
          /\ DecInLen % keySize = 0
          /\ inPos % keySize = 0
          /\ inPos <= DecInLen
          /\ call = "DecQuery" => outLen = (inPos \div keySize) * dataSize
          /\ call = "Dec" => outLen <= (inPos \div keySize) * dataSize
    /\ call = "Dec" =>
          /\ DecInLen % keySize = 0
          /\ plainQuery = (DecInLen \div keySize) * EncryptDataSize

\* The inductive invariant NoBufferOverflow and SizeQueryExact follow from.
CInv ==
    /\ CryptoTypeOK
    /\ ~overflow
    /\ EncInv
    /\ CipherInv
    /\ DecInv

USE SizesAssumption, WordAssumption

-----------------------------------------------------------------------------
(* Arithmetic of the loops *)

\* Below the word size the unsigned arithmetic does not wrap.
LEMMA UIntId ==
    ASSUME NEW x \in 0 .. 2 ^ Width - 1
    PROVE  UInt(x) = x
BY DEF UInt

\* Integer division by d: q * d + r with 0 <= r < d has quotient q and
\* remainder r.
LEMMA DivChar ==
    ASSUME NEW d \in Nat \ {0}, NEW q \in Nat, NEW r \in 0 .. d - 1
    PROVE  (q * d + r) \div d = q /\ (q * d + r) % d = r
OBVIOUS

\* A multiple of d is its quotient times d.
LEMMA DivOf ==
    ASSUME NEW d \in Nat \ {0}, NEW i \in Nat, i % d = 0
    PROVE  i = (i \div d) * d /\ i \div d \in Nat
OBVIOUS

\* From a chunk boundary i, a full chunk or a shorter last part is one more
\* chunk, and a full chunk leads to the next boundary.
LEMMA ChunkStep ==
    ASSUME NEW d \in Nat \ {0}, NEW i \in Nat, i % d = 0
    PROVE  /\ Chunks(i, d) = i \div d
           /\ Chunks(i + d, d) = Chunks(i, d) + 1
           /\ (i + d) % d = 0
           /\ \A r \in 1 .. d - 1 : Chunks(i + r, d) = Chunks(i, d) + 1
<1> DEFINE q == i \div d
<1>1. i = q * d /\ q \in Nat
    BY DivOf
<1>2. Chunks(i, d) = q
    <2>1. i + d - 1 = q * d + (d - 1)
        BY <1>1
    <2>2. (q * d + (d - 1)) \div d = q
        BY <1>1, DivChar
    <2>3. QED
        BY <2>1, <2>2 DEF Chunks
<1>3. i + d = (q + 1) * d
    BY <1>1
<1>4. Chunks(i + d, d) = q + 1
    <2>1. i + d + d - 1 = (q + 1) * d + (d - 1)
        BY <1>3
    <2>2. ((q + 1) * d + (d - 1)) \div d = q + 1
        BY <1>1, DivChar
    <2>3. QED
        BY <2>1, <2>2 DEF Chunks
<1>5. (i + d) % d = 0
    <2>1. ((q + 1) * d + 0) % d = 0
        BY <1>1, DivChar
    <2>2. QED
        BY <2>1, <1>3
<1>6. ASSUME NEW r \in 1 .. d - 1 PROVE Chunks(i + r, d) = q + 1
    <2>1. i + r + d - 1 = (q + 1) * d + (r - 1)
        BY <1>3
    <2>2. ((q + 1) * d + (r - 1)) \div d = q + 1
        BY <1>1, DivChar
    <2>3. QED
        BY <2>1, <2>2 DEF Chunks
<1>7. QED
    BY <1>2, <1>4, <1>5, <1>6

\* Before the end of a p-byte input, a chunk boundary leaves at least one
\* more chunk.
LEMMA ChunkBefore ==
    ASSUME NEW d \in Nat \ {0}, NEW i \in Nat, NEW p \in Nat, i % d = 0, i < p
    PROVE  Chunks(i, d) + 1 <= Chunks(p, d)
<1> DEFINE q == i \div d
<1>1. i = q * d /\ q \in Nat /\ Chunks(i, d) = q
    BY DivOf, ChunkStep
<1>2. p + d - 1 >= (q + 1) * d
    BY <1>1
<1>3. (p + d - 1) \div d >= ((q + 1) * d) \div d
    BY <1>1, <1>2
<1>4. ((q + 1) * d) \div d = q + 1
    BY <1>1, DivChar
<1>5. QED
    BY <1>1, <1>3, <1>4 DEF Chunks

\* A non-empty input takes between one chunk and one chunk per byte.
LEMMA ChunkRange ==
    ASSUME NEW d \in Nat \ {0}, NEW p \in Nat \ {0}
    PROVE  Chunks(p, d) \in 1 .. p
BY DEF Chunks

\* Multiplying by a natural keeps the order.
LEMMA MulMono ==
    ASSUME NEW a \in Nat, NEW b \in Nat, NEW k \in Nat, a <= b
    PROVE  a * k <= b * k
OBVIOUS

\* Key blocks: from a block boundary a before the end b of a whole number
\* of blocks, the next boundary is one block on and not past b.
LEMMA BlockStep ==
    ASSUME NEW k \in Nat \ {0}, NEW a \in Nat, NEW b \in Nat,
           a % k = 0, b % k = 0, a < b
    PROVE  /\ (a + k) % k = 0
           /\ (a + k) \div k = a \div k + 1
           /\ a + k <= b
           /\ a \div k + 1 <= b \div k
<1> DEFINE q == a \div k
<1> DEFINE m == b \div k
<1>1. a = q * k /\ q \in Nat /\ b = m * k /\ m \in Nat
    BY DivOf
<1>2. a + k = (q + 1) * k + 0
    BY <1>1
<1>3. (a + k) % k = 0 /\ (a + k) \div k = q + 1
    <2>1. ((q + 1) * k + 0) % k = 0 /\ ((q + 1) * k + 0) \div k = q + 1
        BY <1>1, DivChar
    <2>2. QED
        BY <2>1, <1>2
<1>4. q < m
    BY <1>1
<1>5. (q + 1) * k <= m * k
    BY <1>1, <1>4, MulMono
<1>6. QED
    BY <1>1, <1>2, <1>3, <1>4, <1>5

\* The length of the chunk from boundary i of a p-byte input: the rest of
\* the input, or a full chunk of d bytes.
NextChunk(i, p, d) == IF p - i < d THEN p - i ELSE d

\* From a chunk boundary i before the end p, the next chunk is one more
\* chunk, and a boundary again if input is left.
LEMMA ChunkAdvance ==
    ASSUME NEW d \in Nat \ {0}, NEW i \in Nat, NEW p \in Nat, i % d = 0, i < p
    PROVE  /\ NextChunk(i, p, d) \in 1 .. d
           /\ i + NextChunk(i, p, d) <= p
           /\ i + NextChunk(i, p, d) < p =>
                 /\ NextChunk(i, p, d) = d /\ ~(p < d)
                 /\ (i + NextChunk(i, p, d)) % d = 0
           /\ Chunks(i + NextChunk(i, p, d), d) = Chunks(i, d) + 1
<1> DEFINE c == NextChunk(i, p, d)
<1>1. /\ c \in 1 .. d
      /\ i + c <= p
      /\ i + c < p => c = d /\ ~(p < d)
    BY DEF NextChunk
<1>2. CASE c = d
    <2>1. Chunks(i + d, d) = Chunks(i, d) + 1 /\ (i + d) % d = 0
        BY ChunkStep
    <2>2. QED
        BY <1>1, <1>2, <2>1
<1>3. CASE c # d
    <2>1. c \in 1 .. d - 1
        BY <1>1, <1>3
    <2>2. Chunks(i + c, d) = Chunks(i, d) + 1
        BY <2>1, ChunkStep
    <2>3. QED
        BY <1>1, <1>3, <2>2
<1>4. QED
    BY <1>2, <1>3

\* A multiple of k up to C blocks is at most C blocks.
LEMMA DivLe ==
    ASSUME NEW k \in Nat \ {0}, NEW b \in Nat, NEW n \in Nat, b % k = 0, b <= n * k
    PROVE  b \div k <= n
<1> DEFINE q == b \div k
<1>1. b = q * k /\ q \in Nat
    BY DivOf
<1>2. SUFFICES ASSUME q >= n + 1 PROVE FALSE
    BY <1>1
<1>3. (n + 1) * k <= q * k
    BY <1>1, <1>2, MulMono
<1>4. QED
    BY <1>1, <1>3

\* Under FitsWidth the key, the plaintext and one key block per chunk of
\* a plaintext, plus one, are below the word size.
LEMMA WidthFacts ==
    ASSUME FitsWidth, NEW k \in KeySizes, NEW p \in PlainLens
    PROVE  /\ k < 2 ^ Width
           /\ p < 2 ^ Width
           /\ \A c \in 0 .. p : c * k + k < 2 ^ Width
<1>1. (p + 1) * k < 2 ^ Width /\ k \in Nat \ {0} /\ p \in Nat
    BY DEF FitsWidth
<1>2. 1 * k <= (p + 1) * k /\ 1 * (p + 1) <= k * (p + 1)
    BY <1>1, MulMono
<1>3. ASSUME NEW c \in 0 .. p PROVE c * k + k < 2 ^ Width
    <2>1. c * k <= p * k
        BY <1>1, MulMono
    <2>2. QED
        BY <1>1, <2>1
<1>4. QED
    BY <1>1, <1>2, <1>3

\* Unsigned results lie in the word.
LEMMA UIntRange ==
    ASSUME NEW a \in Nat, NEW b \in Nat
    PROVE  UInt(a + b) \in 0 .. 2 ^ Width - 1 /\ UInt(a - b) \in 0 .. 2 ^ Width - 1
BY DEF UInt

\* The chunk size of the padding switch: keySize minus the overhead for a
\* valid chunk, zero for a key of exactly the overhead; a key shorter than
\* the overhead is refused by RSA_public_encrypt whatever the chunk.
LEMMA ChunkSize ==
    ASSUME CryptoTypeOK, FitsWidth
    PROVE  /\ ValidChunk => /\ EncryptDataSize = keySize - Overhead
                            /\ EncryptDataSize \in 1 .. keySize
           /\ Underflow => \A x \in Nat : ~RsaEncryptAccepts(x)
           /\ padding \in {"PKCS1", "OAEP", "None"} =>
                 ValidChunk \/ Underflow \/ EncryptDataSize = 0
           /\ padding \in {"PKCS1", "OAEP", "None"} =>
                 EncryptDataSize \in 0 .. 2 ^ Width - 1
           /\ DecryptDataSize = EncryptDataSize
<1>1. keySize \in Nat \ {0} /\ keySize < 2 ^ Width /\ plainLen \in PlainLens
    BY WidthFacts DEF CryptoTypeOK
<1>2. ValidChunk => /\ EncryptDataSize = keySize - Overhead
                    /\ EncryptDataSize \in 1 .. keySize
    BY <1>1, UIntId DEF ValidChunk, Overhead, EncryptDataSize
<1>3. Underflow => \A x \in Nat : ~RsaEncryptAccepts(x)
    <2> SUFFICES ASSUME Underflow, NEW x \in Nat PROVE ~RsaEncryptAccepts(x)
        OBVIOUS
    <2>1. CASE padding = "PKCS1"
        BY <2>1, <1>1 DEF Underflow, Overhead, RsaEncryptAccepts
    <2>2. CASE padding = "OAEP"
        BY <2>2, <1>1 DEF Underflow, Overhead, RsaEncryptAccepts
    <2>3. QED
        BY <2>1, <2>2 DEF Underflow
<1>4. padding \in {"PKCS1", "OAEP", "None"} => ValidChunk \/ Underflow \/ EncryptDataSize = 0
    BY <1>1 DEF ValidChunk, Underflow, Overhead, EncryptDataSize, UInt
<1>5. padding \in {"PKCS1", "OAEP", "None"} => EncryptDataSize \in 0 .. 2 ^ Width - 1
    BY <1>1, UIntRange DEF EncryptDataSize
<1>6. DecryptDataSize = EncryptDataSize
    BY DEF DecryptDataSize, EncryptDataSize
<1>7. QED
    BY <1>2, <1>3, <1>4, <1>5, <1>6

-----------------------------------------------------------------------------
(* The inductive invariant *)

\* CInv holds initially: no call has run.
LEMMA InitCInv == CryptoInit => CInv
<1> SUFFICES ASSUME CryptoInit PROVE CInv
    OBVIOUS
<1>1. 0 \in 0 .. 2 ^ Width - 1 /\ <<>> \in Seq(Nat)
    OBVIOUS
<1>2. CryptoTypeOK
    BY <1>1 DEF CryptoInit, CryptoTypeOK
<1>3. ~overflow /\ EncInv /\ CipherInv /\ DecInv
    BY DEF CryptoInit, EncInv, CipherInv, DecInv
<1>4. QED
    BY <1>2, <1>3 DEF CInv

\* A call that ends in an error keeps CInv: only call changes.
LEMMA FailStep ==
    ASSUME CInv, PublicEncryptRejected \/ PrivateDecryptRejected \/ EncryptChunkFails
    PROVE  CInv'
<1>1. call' = "Failed" /\ UNCHANGED <<keySize, padding, plainLen, dataSize, bytes,
          inPos, outPos, outLen, querySize, encLen, plainQuery, plainOut, cipher,
          overflow, truncated>> /\ loop' \in BOOLEAN
    BY DEF PublicEncryptRejected, PrivateDecryptRejected, EncryptChunkFails, CInv,
           CryptoTypeOK
<1>2. CryptoTypeOK'
    BY <1>1 DEF CInv, CryptoTypeOK
<1>3. (~overflow /\ EncInv /\ CipherInv /\ DecInv)'
    BY <1>1 DEF CInv, EncInv, CipherInv, DecInv
<1>4. QED
    BY <1>2, <1>3 DEF CInv

\* The chunk size and its classification depend on the key and the padding
\* only, which no call changes.
LEMMA SizesUnchanged ==
    ASSUME keySize' = keySize, padding' = padding
    PROVE  /\ EncryptDataSize' = EncryptDataSize
           /\ DecryptDataSize' = DecryptDataSize
           /\ ValidChunk' = ValidChunk
           /\ Underflow' = Underflow
BY DEF EncryptDataSize, DecryptDataSize, ValidChunk, Underflow, Overhead, UInt

\* No input is empty of chunks: zero bytes are zero chunks.
LEMMA ChunkZero ==
    ASSUME NEW d \in Nat \ {0}
    PROVE  Chunks(0, d) = 0 /\ 0 % d = 0
<1>1. (0 * d + (d - 1)) \div d = 0 /\ (0 * d + 0) % d = 0
    BY DivChar
<1>2. QED
    BY <1>1 DEF Chunks

\* publicEncrypt enters its loop at the start of the plaintext.
LEMMA EncryptEnterStep ==
    ASSUME CInv, FitsWidth, PublicEncryptEnter
    PROVE  CInv'
<1>1. /\ call \in {"EncQuery", "Enc"} /\ ~loop /\ loop' = TRUE
      /\ padding \in {"PKCS1", "OAEP", "None"} /\ plainLen \in Nat \ {0}
      /\ dataSize' = EncryptDataSize
      /\ bytes' = IF plainLen < EncryptDataSize THEN plainLen ELSE EncryptDataSize
      /\ inPos' = 0 /\ outPos' = 0 /\ outLen' = 0
      /\ UNCHANGED <<keySize, padding, plainLen, call, querySize, encLen, plainQuery,
                     plainOut, cipher, overflow, truncated>>
    BY DEF PublicEncryptEnter, CInv, CryptoTypeOK, Paddings
<1>2. /\ EncryptDataSize \in 0 .. 2 ^ Width - 1 /\ plainLen < 2 ^ Width
      /\ ValidChunk => EncryptDataSize \in 1 .. keySize
    BY <1>1, ChunkSize, WidthFacts DEF CInv, CryptoTypeOK
<1>3. ValidChunk => Chunks(0, EncryptDataSize) = 0 /\ 0 % EncryptDataSize = 0
    BY <1>2, ChunkZero
<1>4. /\ EncryptDataSize' = EncryptDataSize /\ ValidChunk' = ValidChunk
      /\ Underflow' = Underflow
    BY <1>1, SizesUnchanged
<1>5. CryptoTypeOK'
    BY <1>1, <1>2 DEF CInv, CryptoTypeOK
<1>6. call = "Enc" => cipher = <<>>
    BY <1>1 DEF CInv, EncInv
<1>7. keySize \in Nat \ {0} /\ cipher \in Seq(Nat)
    BY DEF CInv, CryptoTypeOK
<1>8. ValidChunk => EncLoopInv'
    <2> SUFFICES ASSUME ValidChunk PROVE EncLoopInv'
        OBVIOUS
    <2>1. Chunks(inPos', dataSize') = 0 /\ inPos' % dataSize' = 0
        BY <1>1, <1>3
    <2>2. outPos' = Chunks(inPos', dataSize') * keySize' /\ outLen' = outPos'
        BY <1>1, <1>7, <2>1
    <2>3. call' = "Enc" => Len(cipher') = Chunks(inPos', dataSize') /\ ChunksFit'
        BY <1>1, <1>6, <2>1 DEF ChunksFit
    <2>4. QED
        BY <1>1, <2>1, <2>2, <2>3 DEF EncLoopInv
<1>9. EncInv'
    BY <1>1, <1>4, <1>8 DEF CInv, EncInv
<1>10. (~overflow /\ CipherInv /\ DecInv)'
    BY <1>1 DEF CInv, CipherInv, DecInv
<1>11. QED
    BY <1>5, <1>9, <1>10 DEF CInv

\* privateDecrypt enters its loop at the first key block.
LEMMA DecryptEnterStep ==
    ASSUME CInv, FitsWidth, PrivateDecryptEnter
    PROVE  CInv'
<1>1. /\ call \in {"DecQuery", "Dec"} /\ loop' = TRUE
      /\ padding \in {"PKCS1", "OAEP", "None"}
      /\ DecInLen % keySize = 0
      /\ dataSize' = DecryptDataSize
      /\ inPos' = 0 /\ outLen' = 0
      /\ UNCHANGED <<keySize, padding, plainLen, call, bytes, outPos, querySize, encLen,
                     plainQuery, plainOut, cipher, overflow, truncated>>
    BY DEF PrivateDecryptEnter, CInv, CryptoTypeOK, Paddings
<1>2. DecryptDataSize = EncryptDataSize /\ EncryptDataSize \in 0 .. 2 ^ Width - 1
    BY <1>1, ChunkSize DEF CInv
<1>3. /\ EncryptDataSize' = EncryptDataSize /\ ValidChunk' = ValidChunk
      /\ Underflow' = Underflow
    BY <1>1, SizesUnchanged
<1>4. DecInLen' = DecInLen /\ keySize \in Nat \ {0} /\ DecInLen \in Nat
    <2>1. encLen \in Nat /\ keySize \in Nat \ {0}
        BY DEF CInv, CryptoTypeOK
    <2>2. UInt(encLen - 1) \in 0 .. 2 ^ Width - 1
        BY <2>1, UIntRange
    <2>3. UInt(encLen - 1) \in Nat
        BY <2>2, WordAssumption
    <2>4. QED
        BY <1>1, <2>1, <2>3 DEF DecInLen
<1>5. CryptoTypeOK'
    BY <1>1, <1>2 DEF CInv, CryptoTypeOK
<1>6. (~overflow /\ EncInv /\ CipherInv)'
    BY <1>1, <1>3 DEF CInv, EncInv, CipherInv, ChunksFit
<1>7. DecInv'
    BY <1>1, <1>2, <1>3, <1>4 DEF CInv, DecInv
<1>8. QED
    BY <1>5, <1>6, <1>7 DEF CInv

\* One chunk of publicEncrypt keeps the variables in their types.
LEMMA EncryptChunkType ==
    ASSUME CInv, EncryptChunk
    PROVE  CryptoTypeOK'
<1>1. /\ {inPos, outPos, outLen, keySize, plainLen} \subseteq Nat
      /\ bytes \in 0 .. 2 ^ Width - 1
      /\ cipher \in Seq(Nat)
    BY DEF CInv, CryptoTypeOK
<1>2. ChunkBytes \in 0 .. 2 ^ Width - 1
    <2>1. UInt(plainLen - inPos) \in 0 .. 2 ^ Width - 1
        BY <1>1, UIntRange
    <2>2. QED
        BY <1>1, <2>1 DEF ChunkBytes
<1>3. /\ UInt(outLen + keySize) \in 0 .. 2 ^ Width - 1
      /\ UInt(outPos + keySize) \in 0 .. 2 ^ Width - 1
      /\ UInt(inPos + ChunkBytes) \in 0 .. 2 ^ Width - 1
    <2>1. ChunkBytes \in Nat
        BY <1>2
    <2>2. QED
        BY <1>1, <2>1, UIntRange
<1>4. (IF call = "Enc" THEN Append(cipher, ChunkBytes) ELSE cipher) \in Seq(Nat)
    BY <1>1, <1>2
<1>5. QED
    BY <1>2, <1>3, <1>4 DEF EncryptChunk, CInv, CryptoTypeOK

\* With a valid chunk size, the chunk publicEncrypt's loop takes at a chunk
\* boundary is the rest of the plaintext or a full chunk.
LEMMA EncryptChunkBytes ==
    ASSUME CInv, FitsWidth, EncryptChunk, ValidChunk
    PROVE  /\ ChunkBytes = NextChunk(inPos, plainLen, EncryptDataSize)
           /\ EncryptDataSize \in 1 .. keySize
           /\ inPos % EncryptDataSize = 0 /\ inPos \in Nat /\ inPos < plainLen
           /\ call = "Enc" => Len(cipher) = Chunks(inPos, EncryptDataSize)
<1> DEFINE ds == EncryptDataSize
           ip == inPos
           pl == plainLen
<1>1. /\ call \in {"EncQuery", "Enc"} /\ loop /\ ip < pl
      /\ keySize \in KeySizes /\ pl \in PlainLens /\ ip \in Nat
      /\ dataSize = ds /\ EncLoopInv
    BY DEF EncryptChunk, CInv, CryptoTypeOK, EncInv
<1>2. /\ ds \in 1 .. keySize /\ pl < 2 ^ Width /\ pl \in Nat
    BY <1>1, ChunkSize, WidthFacts DEF CInv
<1>3. /\ ip % ds = 0
      /\ bytes = IF pl < ds THEN pl ELSE ds
      /\ call = "Enc" => Len(cipher) = Chunks(ip, ds)
    BY <1>1 DEF EncLoopInv
<1>4. /\ ds \in Nat \ {0} /\ ip \in Nat /\ pl \in Nat /\ ip < pl
      /\ pl < 2 ^ Width /\ keySize \in Nat \ {0}
    BY <1>1, <1>2
<1>5. UInt(pl - ip) = pl - ip
    BY <1>4, UIntId
<1>6. ChunkBytes = NextChunk(ip, pl, ds)
    <2>1. CASE pl >= ds
        <3>1. ChunkBytes = IF UInt(pl - ip) < ds THEN UInt(pl - ip) ELSE bytes
            BY <1>1, <2>1 DEF ChunkBytes
        <3>2. QED
            BY <1>3, <1>4, <1>5, <2>1, <3>1 DEF NextChunk
    <2>2. CASE pl < ds
        <3>1. ip = 0
            <4>1. ip \in 0 .. ds - 1
                BY <1>4, <2>2
            <4>2. (0 * ds + ip) % ds = ip
                BY <1>4, <4>1, DivChar
            <4>3. QED
                BY <1>3, <1>4, <4>1, <4>2
        <3>2. ChunkBytes = bytes
            BY <1>1, <1>4, <2>2 DEF ChunkBytes
        <3>3. QED
            BY <1>3, <1>4, <2>2, <3>1, <3>2 DEF NextChunk
    <2>3. QED
        BY <1>4, <2>1, <2>2
<1>7. QED
    BY <1>1, <1>2, <1>3, <1>4, <1>6

\* One chunk of publicEncrypt keeps CInv: a zero chunk size only counts in
\* the length query without moving, a wrapped one is refused before it
\* writes, and a valid one moves to the next chunk boundary with one more
\* key block counted and written within the queried length.
LEMMA EncryptChunkStep ==
    ASSUME CInv, FitsWidth, EncryptChunk
    PROVE  CInv'
<1>1. /\ call \in {"EncQuery", "Enc"} /\ loop /\ inPos < plainLen
      /\ call = "Enc" => RsaEncryptAccepts(ChunkBytes)
      /\ bytes' = ChunkBytes
      /\ outLen' = UInt(outLen + keySize) /\ outPos' = UInt(outPos + keySize)
      /\ inPos' = UInt(inPos + ChunkBytes)
      /\ overflow' = (call = "Enc" /\ outPos + keySize > querySize)
      /\ cipher' = IF call = "Enc" THEN Append(cipher, ChunkBytes) ELSE cipher
      /\ UNCHANGED <<keySize, padding, plainLen, call, loop, dataSize, querySize,
                     encLen, plainQuery, plainOut, truncated>>
    BY DEF EncryptChunk, CInv
<1>2. /\ keySize \in KeySizes /\ plainLen \in PlainLens
      /\ keySize \in Nat \ {0} /\ plainLen \in Nat
      /\ {inPos, outPos, outLen, querySize} \subseteq Nat
      /\ cipher \in Seq(Nat)
      /\ padding \in {"PKCS1", "OAEP", "None"}
      /\ dataSize = EncryptDataSize
      /\ dataSize = 0 => inPos = 0 /\ bytes = 0
      /\ ValidChunk => EncLoopInv
      /\ call = "Enc" => EncryptDataSize # 0
      /\ call = "EncQuery" => cipher = <<>>
      /\ call = "Enc" /\ ValidChunk =>
            querySize = Chunks(plainLen, EncryptDataSize) * keySize
    BY <1>1 DEF CInv, CryptoTypeOK, EncInv, Paddings
<1>3. /\ EncryptDataSize' = EncryptDataSize /\ ValidChunk' = ValidChunk
      /\ Underflow' = Underflow
    BY <1>1, SizesUnchanged
<1>4. CryptoTypeOK' /\ ChunkBytes \in Nat
    <2>1. CryptoTypeOK'
        BY EncryptChunkType
    <2>2. QED
        BY <1>1, <2>1 DEF CryptoTypeOK
<1>5. (CipherInv /\ DecInv)'
    BY <1>1 DEF CipherInv, DecInv
<1>6. /\ ValidChunk \/ Underflow \/ EncryptDataSize = 0
      /\ ValidChunk => EncryptDataSize \in 1 .. keySize
      /\ Underflow => ~RsaEncryptAccepts(ChunkBytes)
    BY <1>2, <1>4, ChunkSize DEF CInv
<1>7. CASE EncryptDataSize = 0
    <2>1. inPos = 0 /\ bytes = 0 /\ call = "EncQuery"
        BY <1>1, <1>2, <1>7
    <2>2. ChunkBytes = 0
        <3>1. UInt(plainLen - inPos) \in 0 .. 2 ^ Width - 1
            BY <1>2, UIntRange
        <3>2. QED
            BY <2>1, <1>2, <1>7, <3>1 DEF ChunkBytes
    <2>3. inPos' = 0 /\ bytes' = 0
        <3>1. UInt(0 + 0) = 0
            BY UIntId
        <3>2. QED
            BY <2>1, <2>2, <1>1, <3>1
    <2>6. cipher' = cipher /\ ~overflow'
        BY <2>1, <1>1
    <2>4. ~ValidChunk
        BY <1>6, <1>7
    <2>5. QED
        BY <1>1, <1>2, <1>3, <1>4, <1>5, <1>7, <2>1, <2>3, <2>4, <2>6 DEF CInv, EncInv
<1>8. CASE Underflow /\ EncryptDataSize # 0
    <2>1. call = "EncQuery"
        BY <1>1, <1>6, <1>8
    <2>2. cipher' = cipher /\ ~overflow'
        BY <2>1, <1>1
    <2>3. ~ValidChunk
        BY <1>2, <1>8 DEF Underflow, ValidChunk, Overhead
    <2>4. QED
        BY <1>1, <1>2, <1>3, <1>4, <1>5, <1>8, <2>1, <2>2, <2>3 DEF CInv, EncInv
<1>9. CASE ValidChunk
    <2> DEFINE ds == EncryptDataSize
               ip == inPos
               pl == plainLen
               ch == Chunks(inPos, EncryptDataSize)
    <2>1. ds \in 1 .. keySize /\ ~Underflow
        BY <1>2, <1>6, <1>9 DEF ValidChunk, Underflow, Overhead
    <2>2. /\ ip % ds = 0
          /\ bytes = IF pl < ds THEN pl ELSE ds
          /\ outPos = ch * keySize /\ outLen = outPos
          /\ call = "Enc" => Len(cipher) = ch /\ ChunksFit
        BY <1>1, <1>2, <1>9 DEF EncLoopInv
    <2>3. /\ ds \in Nat \ {0} /\ ip \in Nat /\ pl \in Nat \ {0} /\ ip < pl
          /\ keySize \in KeySizes /\ pl \in PlainLens /\ keySize \in Nat \ {0}
          /\ pl < 2 ^ Width /\ keySize < 2 ^ Width
          /\ outPos \in Nat /\ querySize \in Nat
        BY <1>1, <1>2, <2>1, WidthFacts
    <2>4. ChunkBytes = NextChunk(ip, pl, ds)
        BY <1>9, EncryptChunkBytes
    <2>5. /\ ChunkBytes \in 1 .. ds
          /\ ip + ChunkBytes <= pl
          /\ ip + ChunkBytes < pl =>
                ChunkBytes = ds /\ ~(pl < ds) /\ (ip + ChunkBytes) % ds = 0
          /\ Chunks(ip + ChunkBytes, ds) = ch + 1
        <3>1. /\ NextChunk(ip, pl, ds) \in 1 .. ds
              /\ ip + NextChunk(ip, pl, ds) <= pl
              /\ ip + NextChunk(ip, pl, ds) < pl =>
                    /\ NextChunk(ip, pl, ds) = ds /\ ~(pl < ds)
                    /\ (ip + NextChunk(ip, pl, ds)) % ds = 0
              /\ Chunks(ip + NextChunk(ip, pl, ds), ds) = ch + 1
            BY <2>2, <2>3, ChunkAdvance
        <3>2. QED
            BY <2>4, <3>1
    <2>6. inPos' = ip + ChunkBytes
        <3>1. ip + ChunkBytes \in 0 .. 2 ^ Width - 1
            BY <2>3, <2>5
        <3>2. QED
            BY <1>1, <3>1, UIntId
    <2>7. ch \in 0 .. pl /\ ch + 1 <= Chunks(pl, ds) /\ Chunks(pl, ds) \in Nat
        <3>1. ch = ip \div ds /\ ch \in Nat
            <4>1. Chunks(ip, ds) = ip \div ds /\ ip \div ds \in Nat
                BY <2>2, <2>3, ChunkStep, DivOf
            <4>2. QED
                BY <4>1
        <3>2. ch + 1 <= Chunks(pl, ds) /\ Chunks(pl, ds) \in 1 .. pl
            BY <2>2, <2>3, ChunkBefore, ChunkRange
        <3>3. QED
            BY <2>3, <3>1, <3>2
    <2>8. outPos' = (ch + 1) * keySize /\ outLen' = outPos'
        <3>1. ch * keySize + keySize < 2 ^ Width
            BY <2>3, <2>7, WidthFacts
        <3>2. outPos + keySize = (ch + 1) * keySize /\ outLen = outPos
            BY <2>2, <2>3, <2>7
        <3>3. outPos + keySize \in 0 .. 2 ^ Width - 1
            BY <2>3, <2>7, <3>1, <3>2
        <3>4. QED
            BY <1>1, <3>2, <3>3, UIntId
    <2>9. ~overflow'
        <3>1. CASE call = "Enc"
            <4>1. (ch + 1) * keySize <= Chunks(pl, ds) * keySize
                BY <2>3, <2>7, MulMono
            <4>2. querySize = Chunks(pl, ds) * keySize
                BY <1>2, <1>9, <3>1
            <4>3. outPos + keySize <= querySize
                BY <4>1, <4>2, <2>2, <2>3, <2>7
            <4>4. ~(outPos + keySize > querySize)
                BY <2>3, <4>3
            <4>5. QED
                BY <1>1, <4>4
        <3>2. QED
            BY <1>1, <3>1
    <2>10. call = "Enc" => Len(cipher') = ch + 1 /\ ChunksFit'
        <3> SUFFICES ASSUME call = "Enc" PROVE Len(cipher') = ch + 1 /\ ChunksFit'
            OBVIOUS
        <3>1. cipher' = Append(cipher, ChunkBytes) /\ Len(cipher) = ch /\ ChunksFit
            BY <1>1, <2>2
        <3>2. Len(cipher') = ch + 1
            BY <1>2, <3>1
        <3>3. ASSUME NEW j \in 1 .. Len(cipher') PROVE cipher'[j] <= EncryptDataSize
            <4>1. CASE j <= Len(cipher)
                <5>1. cipher'[j] = cipher[j]
                    BY <1>2, <3>1, <4>1
                <5>2. QED
                    BY <3>1, <4>1, <5>1 DEF ChunksFit
            <4>2. CASE j = Len(cipher) + 1
                BY <1>2, <2>5, <3>1, <4>2
            <4>3. QED
                BY <1>2, <3>1, <3>2, <4>1, <4>2
        <3>4. QED
            BY <1>3, <3>2, <3>3 DEF ChunksFit
    <2>11. EncLoopInv'
        <3>1. dataSize' = ds /\ plainLen' = pl /\ keySize' = keySize /\ call' = call
            BY <1>1, <1>2
        <3>2. Chunks(inPos', dataSize') = ch + 1
            BY <2>5, <2>6, <3>1
        <3>3. inPos' <= plainLen'
            BY <2>5, <2>6, <3>1
        <3>4. inPos' < plainLen' =>
                 /\ inPos' % dataSize' = 0
                 /\ bytes' = IF plainLen' < dataSize' THEN plainLen' ELSE dataSize'
            BY <1>1, <2>5, <2>6, <3>1
        <3>5. outPos' = Chunks(inPos', dataSize') * keySize' /\ outLen' = outPos'
            BY <2>8, <3>1, <3>2
        <3>6. call' = "Enc" => Len(cipher') = Chunks(inPos', dataSize') /\ ChunksFit'
            BY <2>10, <3>1, <3>2
        <3>7. QED
            BY <3>3, <3>4, <3>5, <3>6 DEF EncLoopInv
    <2>12. QED
        BY <1>1, <1>2, <1>3, <1>4, <1>5, <2>1, <2>9, <2>11 DEF CInv, EncInv
<1>10. QED
    BY <1>6, <1>7, <1>8, <1>9

\* The end of publicEncrypt's loop keeps CInv: at the end of the input the
\* length query returns one key block per chunk, and the encrypting call
\* returns that same length, with a ciphertext of valid chunks.
LEMMA EncryptDoneStep ==
    ASSUME CInv, FitsWidth, EncryptDone
    PROVE  CInv'
<1>1. /\ call \in {"EncQuery", "Enc"} /\ loop /\ inPos >= plainLen /\ loop' = FALSE
      /\ call = "EncQuery" => querySize' = outLen /\ call' = "Enc" /\ encLen' = encLen
      /\ call = "Enc" => encLen' = outLen /\ call' = "DecQuery" /\ querySize' = querySize
      /\ UNCHANGED <<keySize, padding, plainLen, dataSize, bytes, inPos, outPos, outLen,
                     plainQuery, plainOut, cipher, overflow, truncated>>
    BY DEF EncryptDone
<1>2. /\ keySize \in Nat \ {0} /\ plainLen \in Nat \ {0} /\ inPos \in Nat
      /\ padding \in {"PKCS1", "OAEP", "None"}
      /\ dataSize = EncryptDataSize
      /\ dataSize = 0 => inPos = 0
      /\ ValidChunk => EncLoopInv
      /\ call = "EncQuery" => cipher = <<>>
      /\ call = "Enc" => EncryptDataSize # 0
      /\ call = "Enc" /\ ValidChunk =>
            querySize = Chunks(plainLen, EncryptDataSize) * keySize
      /\ call = "Enc" /\ Underflow => inPos = 0
      /\ ~overflow
    BY <1>1 DEF CInv, CryptoTypeOK, EncInv, Paddings
<1>3. /\ EncryptDataSize' = EncryptDataSize /\ ValidChunk' = ValidChunk
      /\ Underflow' = Underflow
    BY <1>1, SizesUnchanged
<1>4. CryptoTypeOK'
    BY <1>1 DEF CInv, CryptoTypeOK
<1>5. EncryptDataSize # 0
    BY <1>1, <1>2
<1>6. ValidChunk =>
        /\ inPos = plainLen
        /\ outLen = Chunks(plainLen, EncryptDataSize) * keySize
        /\ call = "Enc" => /\ Len(cipher) = Chunks(plainLen, EncryptDataSize)
                           /\ ChunksFit
    <2> SUFFICES ASSUME ValidChunk PROVE inPos = plainLen /\ EncLoopInv
        BY <1>2 DEF EncLoopInv
    <2>1. EncLoopInv
        BY <1>2
    <2>2. QED
        BY <1>1, <1>2, <2>1 DEF EncLoopInv
<1>7. CASE call = "EncQuery"
    <2>1. call' = "Enc" /\ querySize' = outLen /\ cipher' = <<>>
        BY <1>1, <1>2, <1>7
    <2>2. EncInv'
        <3>1. padding' # "Other" /\ EncryptDataSize' # 0
            BY <1>1, <1>2, <1>3, <1>5
        <3>2. ValidChunk' => querySize' = Chunks(plainLen', EncryptDataSize') * keySize'
            <4> SUFFICES ASSUME ValidChunk
                         PROVE  querySize' = Chunks(plainLen', EncryptDataSize') * keySize'
                BY <1>3
            <4>1. outLen = Chunks(plainLen, EncryptDataSize) * keySize
                BY <1>6
            <4>2. QED
                BY <1>1, <1>3, <2>1, <4>1
        <3>3. QED
            BY <1>1, <2>1, <3>1, <3>2 DEF EncInv
    <2>3. (~overflow /\ CipherInv /\ DecInv)'
        BY <1>1, <1>2, <2>1 DEF CipherInv, DecInv
    <2>4. QED
        BY <1>4, <2>2, <2>3 DEF CInv
<1>8. CASE call = "Enc"
    <2>1. call' = "DecQuery" /\ encLen' = outLen /\ querySize' = querySize
        BY <1>1, <1>8
    <2>2. ValidChunk
        <3>1. ValidChunk \/ Underflow \/ EncryptDataSize = 0
            BY <1>2, ChunkSize DEF CInv
        <3>2. ~Underflow
            BY <1>1, <1>2, <1>8
        <3>3. QED
            BY <1>5, <3>1, <3>2
    <2>3. CipherInv'
        <3>0. /\ outLen = Chunks(plainLen, EncryptDataSize) * keySize
              /\ Len(cipher) = Chunks(plainLen, EncryptDataSize) /\ ChunksFit
              /\ querySize = Chunks(plainLen, EncryptDataSize) * keySize
            BY <1>2, <1>6, <1>8, <2>2
        <3>1. /\ encLen' = Chunks(plainLen', EncryptDataSize') * keySize'
              /\ querySize' = encLen'
            BY <1>1, <1>3, <2>1, <3>0
        <3>2. Len(cipher') = Chunks(plainLen', EncryptDataSize') /\ ChunksFit'
            BY <1>1, <1>3, <3>0 DEF ChunksFit
        <3>3. QED
            BY <1>1, <1>2, <1>3, <2>2, <3>1, <3>2 DEF CipherInv
    <2>4. (~overflow /\ EncInv /\ DecInv)'
        BY <1>1, <1>2, <1>3, <1>5, <2>1 DEF EncInv, DecInv
    <2>5. QED
        BY <1>4, <2>3, <2>4 DEF CInv
<1>9. QED
    BY <1>1, <1>7, <1>8

\* The arithmetic of privateDecrypt's loop: from block boundary a before the
\* end b of a ciphertext of at most n key blocks of k bytes, the next block
\* is block a \div k + 1 of the n, and a length of at most a chunk size ds
\* per block read, plus one more chunk, still fits the query for b and the
\* word.
LEMMA BlockArith ==
    ASSUME NEW ks \in Nat \ {0}, NEW dsz \in 1 .. ks, NEW nb \in Nat,
           NEW lo \in Nat, NEW hi \in Nat,
           lo % ks = 0, hi % ks = 0, lo < hi, hi <= nb * ks, nb * ks + ks < 2 ^ Width
    PROVE  /\ lo + ks \in 0 .. 2 ^ Width - 1
           /\ (lo + ks) % ks = 0
           /\ (lo + ks) \div ks = lo \div ks + 1
           /\ lo + ks <= hi
           /\ lo \div ks + 1 \in 1 .. nb
           /\ \A ol \in Nat, xb \in 0 .. dsz :
                 ol <= (lo \div ks) * dsz =>
                    /\ ol + xb <= (lo \div ks + 1) * dsz
                    /\ ol + xb <= (hi \div ks) * dsz
                    /\ ol + xb \in 0 .. 2 ^ Width - 1
           /\ (lo \div ks) * dsz + dsz = (lo \div ks + 1) * dsz
<1> DEFINE qlo == lo \div ks
           qhi == hi \div ks
<1>1. /\ (lo + ks) % ks = 0 /\ (lo + ks) \div ks = qlo + 1
      /\ lo + ks <= hi /\ qlo + 1 <= qhi
    BY BlockStep, Zenon
<1>2. qlo \in Nat /\ qhi \in Nat /\ qhi <= nb
    BY DivOf, DivLe
<1>3. lo + ks \in 0 .. 2 ^ Width - 1
    <2>1. hi < 2 ^ Width
        BY <1>2
    <2>2. QED
        BY <1>1, <2>1
<1>4. (qlo + 1) * dsz <= qhi * dsz /\ qhi * dsz <= nb * dsz /\ dsz * nb <= ks * nb
    BY <1>1, <1>2, MulMono
<1>5. qhi * dsz + dsz < 2 ^ Width
    BY <1>2, <1>4
<1>6. ASSUME NEW ol \in Nat, NEW xb \in 0 .. dsz, ol <= qlo * dsz
      PROVE  /\ ol + xb <= (qlo + 1) * dsz
             /\ ol + xb <= qhi * dsz
             /\ ol + xb \in 0 .. 2 ^ Width - 1
    <2>1. ol + xb <= (qlo + 1) * dsz
        BY <1>2, <1>6
    <2>2. QED
        BY <1>2, <1>4, <1>5, <2>1
<1>7. QED
    BY <1>1, <1>2, <1>3, <1>6

\* The ciphertext privateDecrypt receives: one key block per chunk, at
\* least one, within the word, and one byte short when truncated.
LEMMA CipherFacts ==
    ASSUME CInv, FitsWidth, call \in {"DecQuery", "Dec", "Done"}
    PROVE  LET C == Chunks(plainLen, EncryptDataSize) IN
           /\ C \in 1 .. plainLen
           /\ encLen = C * keySize
           /\ C * keySize + keySize < 2 ^ Width
           /\ DecInLen \in Nat /\ DecInLen <= encLen
           /\ Len(cipher) = C /\ ChunksFit
           /\ EncryptDataSize \in 1 .. keySize
           /\ keySize \in Nat \ {0} /\ plainLen \in Nat \ {0}
<1> DEFINE C == Chunks(plainLen, EncryptDataSize)
<1>1. /\ ValidChunk /\ plainLen > 0
      /\ encLen = C * keySize /\ Len(cipher) = C /\ ChunksFit
    BY DEF CInv, CipherInv
<1>2. /\ keySize \in KeySizes /\ plainLen \in PlainLens
      /\ keySize \in Nat \ {0} /\ plainLen \in Nat \ {0}
      /\ encLen \in Nat
    BY <1>1 DEF CInv, CryptoTypeOK
<1>3. EncryptDataSize \in 1 .. keySize
    BY <1>1, ChunkSize DEF CInv
<1>4. C \in 1 .. plainLen
    BY <1>2, <1>3, ChunkRange
<1>5. C * keySize + keySize < 2 ^ Width
    BY <1>2, <1>4, WidthFacts
<1>6. DecInLen \in Nat /\ DecInLen <= encLen
    <2>1. encLen >= 1 /\ encLen - 1 \in 0 .. 2 ^ Width - 1
        <3>1. 1 * keySize <= C * keySize
            BY <1>2, <1>4, MulMono
        <3>2. QED
            BY <1>1, <1>2, <1>5, <3>1
    <2>2. UInt(encLen - 1) = encLen - 1
        BY <2>1, UIntId
    <2>3. QED
        BY <1>2, <2>1, <2>2 DEF DecInLen
<1>7. QED
    BY <1>1, <1>2, <1>3, <1>4, <1>5, <1>6

\* One block of privateDecrypt keeps CInv: the next block boundary is within
\* the ciphertext, the block read is a chunk of it, the length query counts
\* a chunk size per block, and the decrypting call stays within the queried
\* length.
LEMMA DecryptBlockStep ==
    ASSUME CInv, FitsWidth, DecryptBlock
    PROVE  CInv'
<1> DEFINE NC == Chunks(plainLen, EncryptDataSize)
           ds == EncryptDataSize
           q0 == inPos \div keySize
           qend == DecInLen \div keySize
<1>1. /\ call \in {"DecQuery", "Dec"} /\ loop /\ inPos < DecInLen
      /\ outLen' = UInt(outLen + IF call = "Dec" THEN BlockBytes ELSE dataSize)
      /\ overflow' = (call = "Dec" /\ outLen + BlockBytes > plainQuery)
      /\ inPos' = UInt(inPos + keySize)
      /\ UNCHANGED <<keySize, padding, plainLen, call, loop, dataSize, bytes, outPos,
                     querySize, encLen, plainQuery, plainOut, cipher, truncated>>
    BY DEF DecryptBlock, CInv
<1>2. /\ dataSize = ds /\ DecInLen % keySize = 0 /\ inPos % keySize = 0
      /\ inPos <= DecInLen
      /\ call = "DecQuery" => outLen = q0 * dataSize
      /\ call = "Dec" => outLen <= q0 * dataSize
      /\ call = "Dec" => plainQuery = qend * ds
    BY <1>1 DEF CInv, DecInv
<1>3. /\ NC \in 1 .. plainLen
      /\ encLen = NC * keySize
      /\ NC * keySize + keySize < 2 ^ Width
      /\ DecInLen \in Nat /\ DecInLen <= encLen
      /\ Len(cipher) = NC /\ ChunksFit
      /\ ds \in 1 .. keySize
      /\ keySize \in Nat \ {0} /\ plainLen \in Nat \ {0}
    BY <1>1, CipherFacts
<1>4. /\ inPos \in Nat /\ outLen \in Nat /\ plainQuery \in Nat /\ cipher \in Seq(Nat)
    BY DEF CInv, CryptoTypeOK
<1>5. /\ inPos + keySize \in 0 .. 2 ^ Width - 1
      /\ (inPos + keySize) % keySize = 0
      /\ (inPos + keySize) \div keySize = q0 + 1
      /\ inPos + keySize <= DecInLen
      /\ q0 + 1 \in 1 .. NC
      /\ \A ol \in Nat, xb \in 0 .. ds :
            ol <= q0 * ds =>
               /\ ol + xb <= (q0 + 1) * ds
               /\ ol + xb <= qend * ds
               /\ ol + xb \in 0 .. 2 ^ Width - 1
      /\ q0 * ds + ds = (q0 + 1) * ds
    <2>1. /\ keySize \in Nat \ {0} /\ ds \in 1 .. keySize /\ NC \in Nat
          /\ inPos \in Nat /\ DecInLen \in Nat
          /\ inPos % keySize = 0 /\ DecInLen % keySize = 0 /\ inPos < DecInLen
          /\ DecInLen <= NC * keySize /\ NC * keySize + keySize < 2 ^ Width
        BY <1>1, <1>2, <1>3, <1>4
    <2>2. inPos + keySize \in 0 .. 2 ^ Width - 1
        BY <2>1, BlockArith, Zenon
    <2>3. (inPos + keySize) % keySize = 0
        BY <2>1, BlockArith, Zenon
    <2>4. (inPos + keySize) \div keySize = q0 + 1
        BY <2>1, BlockArith, Zenon
    <2>5. inPos + keySize <= DecInLen
        BY <2>1, BlockArith, Zenon
    <2>6. q0 + 1 \in 1 .. NC
        BY <2>1, BlockArith
    <2>7. \A ol \in Nat, xb \in 0 .. ds :
            ol <= q0 * ds =>
               /\ ol + xb <= (q0 + 1) * ds
               /\ ol + xb <= qend * ds
               /\ ol + xb \in 0 .. 2 ^ Width - 1
        BY <2>1, BlockArith, Zenon
    <2>8. q0 * ds + ds = (q0 + 1) * ds
        BY <2>1, <2>6
    <2>9. QED
        BY <2>2, <2>3, <2>4, <2>5, <2>6, <2>7, <2>8
<1>6. BlockBytes \in 0 .. ds
    <2>1. cipher[q0 + 1] <= ds /\ cipher[q0 + 1] \in Nat
        BY <1>3, <1>4, <1>5 DEF ChunksFit
    <2>2. QED
        BY <2>1 DEF BlockBytes
<1>10. inPos' = inPos + keySize
    BY <1>1, <1>5, UIntId
<1>11. ~overflow' /\ outLen' <= (q0 + 1) * ds /\ outLen' \in 0 .. 2 ^ Width - 1
       /\ (call = "DecQuery" => outLen' = (q0 + 1) * ds)
    <2>1. CASE call = "DecQuery"
        <3>1. outLen + ds \in 0 .. 2 ^ Width - 1 /\ outLen + ds = (q0 + 1) * ds
            <4>1. outLen = q0 * ds /\ ds \in 0 .. ds
                BY <1>2, <1>3, <2>1
            <4>2. QED
                BY <1>4, <1>5, <4>1
        <3>2. outLen' = outLen + ds
            BY <1>1, <1>2, <2>1, <3>1, UIntId
        <3>3. ~overflow'
            BY <1>1, <2>1
        <3>4. QED
            BY <2>1, <3>1, <3>2, <3>3
    <2>2. CASE call = "Dec"
        <3>1. outLen <= q0 * ds /\ plainQuery = qend * ds
            BY <1>2, <2>2
        <3>2. /\ outLen + BlockBytes <= (q0 + 1) * ds
              /\ outLen + BlockBytes <= plainQuery
              /\ outLen + BlockBytes \in 0 .. 2 ^ Width - 1
            BY <1>4, <1>5, <1>6, <3>1
        <3>3. outLen' = outLen + BlockBytes
            BY <1>1, <2>2, <3>2, UIntId
        <3>4. ~overflow'
            <4>1. ~(outLen + BlockBytes > plainQuery)
                BY <1>4, <1>6, <3>2
            <4>2. QED
                BY <1>1, <4>1
        <3>5. QED
            BY <2>2, <3>2, <3>3, <3>4
    <2>3. QED
        BY <1>1, <2>1, <2>2
<1>12. /\ DecInLen' = DecInLen
       /\ EncryptDataSize' = EncryptDataSize /\ ValidChunk' = ValidChunk
       /\ Underflow' = Underflow
    BY <1>1, SizesUnchanged DEF DecInLen
<1>13. CryptoTypeOK'
    <2>1. inPos' \in 0 .. 2 ^ Width - 1
        BY <1>5, <1>10
    <2>2. QED
        BY <1>1, <1>11, <2>1 DEF CInv, CryptoTypeOK
<1>14. DecInv'
    <2>1. /\ dataSize' = EncryptDataSize' /\ DecInLen' % keySize' = 0
          /\ inPos' % keySize' = 0 /\ inPos' <= DecInLen'
        BY <1>1, <1>2, <1>5, <1>10, <1>12
    <2>2. inPos' \div keySize' = q0 + 1
        BY <1>1, <1>5, <1>10
    <2>3. call' = "DecQuery" => outLen' = (inPos' \div keySize') * dataSize'
        BY <1>1, <1>2, <1>11, <2>2
    <2>4. call' = "Dec" => outLen' <= (inPos' \div keySize') * dataSize'
        BY <1>1, <1>2, <1>11, <2>2
    <2>5. call' = "Dec" =>
             /\ DecInLen' % keySize' = 0
             /\ plainQuery' = (DecInLen' \div keySize') * EncryptDataSize'
        BY <1>1, <1>2, <1>12
    <2>6. QED
        BY <1>1, <2>1, <2>3, <2>4, <2>5 DEF DecInv
<1>15. (EncInv /\ CipherInv)'
    BY <1>1, <1>12 DEF CInv, EncInv, CipherInv, ChunksFit
<1>16. QED
    BY <1>11, <1>13, <1>14, <1>15 DEF CInv

\* The end of privateDecrypt's loop keeps CInv: at the end of the ciphertext
\* the length query returns a chunk size per key block, which the decrypting
\* call then receives as its buffer length.
LEMMA DecryptDoneStep ==
    ASSUME CInv, FitsWidth, DecryptDone
    PROVE  CInv'
<1>1. /\ call \in {"DecQuery", "Dec"} /\ loop /\ inPos >= DecInLen /\ loop' = FALSE
      /\ call = "DecQuery" => plainQuery' = outLen /\ call' = "Dec"
      /\ call = "Dec" => call' = "Done" /\ plainQuery' = plainQuery
      /\ plainOut' \in {plainOut, outLen}
      /\ UNCHANGED <<keySize, padding, plainLen, dataSize, bytes, inPos, outPos, outLen,
                     querySize, encLen, cipher, overflow, truncated>>
    BY DEF DecryptDone
<1>2. /\ dataSize = EncryptDataSize /\ DecInLen % keySize = 0
      /\ inPos <= DecInLen
      /\ call = "DecQuery" => outLen = (inPos \div keySize) * dataSize
      /\ call = "Dec" => plainQuery = (DecInLen \div keySize) * EncryptDataSize
    BY <1>1 DEF CInv, DecInv
<1>3. inPos \in Nat /\ DecInLen \in Nat
    <2>1. inPos \in Nat
        BY DEF CInv, CryptoTypeOK
    <2>2. QED
        BY <1>1, <2>1, CipherFacts
<1>4. inPos = DecInLen
    BY <1>1, <1>2, <1>3
<1>5. /\ DecInLen' = DecInLen
      /\ EncryptDataSize' = EncryptDataSize /\ ValidChunk' = ValidChunk
      /\ Underflow' = Underflow
    BY <1>1, SizesUnchanged DEF DecInLen
<1>6. CryptoTypeOK'
    BY <1>1 DEF CInv, CryptoTypeOK
<1>7. DecInv'
    <2>1. call' = "Dec" =>
             /\ DecInLen' % keySize' = 0
             /\ plainQuery' = (DecInLen' \div keySize') * EncryptDataSize'
        BY <1>1, <1>2, <1>4, <1>5
    <2>2. QED
        BY <1>1, <2>1 DEF DecInv
<1>8. (~overflow /\ EncInv /\ CipherInv)'
    <2>1. call' \in {"Dec", "Done"} /\ call \in {"DecQuery", "Dec"}
        BY <1>1
    <2>2. QED
        BY <1>1, <1>5, <2>1 DEF CInv, EncInv, CipherInv, ChunksFit
<1>9. QED
    BY <1>6, <1>7, <1>8 DEF CInv

\* A step that changes no variable keeps CInv.
LEMMA StutterStep ==
    ASSUME CInv, UNCHANGED cryptoVars
    PROVE  CInv'
<1>1. UNCHANGED <<keySize, padding, plainLen, call, loop, dataSize, bytes, inPos,
                  outPos, outLen, querySize, encLen, plainQuery, plainOut, cipher,
                  overflow, truncated>>
    BY DEF cryptoVars
<1>2. /\ DecInLen' = DecInLen
      /\ EncryptDataSize' = EncryptDataSize /\ ValidChunk' = ValidChunk
      /\ Underflow' = Underflow
    BY <1>1, SizesUnchanged DEF DecInLen
<1>3. QED
    BY <1>1, <1>2 DEF CInv, CryptoTypeOK, EncInv, EncLoopInv, CipherInv, DecInv,
                      ChunksFit

\* Every step of the four calls keeps CInv, when the lengths fit the word.
LEMMA CInvStep ==
    ASSUME FitsWidth
    PROVE  CInv /\ [CryptoNext]_cryptoVars => CInv'
<1> SUFFICES ASSUME CInv, [CryptoNext]_cryptoVars PROVE CInv'
    OBVIOUS
<1>1. CASE PublicEncryptRejected \/ PrivateDecryptRejected \/ EncryptChunkFails
    BY <1>1, FailStep
<1>2. CASE PublicEncryptEnter
    BY <1>2, EncryptEnterStep
<1>3. CASE EncryptChunk
    BY <1>3, EncryptChunkStep
<1>4. CASE EncryptDone
    BY <1>4, EncryptDoneStep
<1>5. CASE PrivateDecryptEnter
    BY <1>5, DecryptEnterStep
<1>6. CASE DecryptBlock
    BY <1>6, DecryptBlockStep
<1>7. CASE DecryptDone
    BY <1>7, DecryptDoneStep
<1>8. CASE UNCHANGED cryptoVars
    BY <1>8, StutterStep
<1>9. QED
    BY <1>1, <1>2, <1>3, <1>4, <1>5, <1>6, <1>7, <1>8 DEF CryptoNext

\* CInv is an invariant of the four calls, for every key size, plaintext
\* length and width whose lengths fit the word.
THEOREM CInvHolds ==
    ASSUME FitsWidth
    PROVE  CryptoSpec => []CInv
BY InitCInv, CInvStep, PTL DEF CryptoSpec

\* The encrypt length query returns exactly the length encryption then
\* produces, one keySize block per chunk (SizeQueryExact, checked by
\* crypto_chunks): publicEncrypt's two calls count the same chunks.
THEOREM SizeQueryExactHolds ==
    ASSUME FitsWidth
    PROVE  CryptoSpec => []SizeQueryExact
<1>1. CInv => SizeQueryExact
    BY DEF CInv, CipherInv, SizeQueryExact
<1>2. QED
    BY <1>1, CInvHolds, PTL

\* No call of publicEncrypt or privateDecrypt writes past the buffer the
\* caller allocated from the preceding length query (NoBufferOverflow,
\* checked by crypto_chunks), for every valid key, padding and plaintext
\* whose ciphertext length fits in a uint32_t.
THEOREM NoBufferOverflowHolds ==
    ASSUME FitsWidth
    PROVE  CryptoSpec => []NoBufferOverflow
<1>1. CInv => NoBufferOverflow
    BY DEF CInv, NoBufferOverflow
<1>2. QED
    BY <1>1, CInvHolds, PTL

-----------------------------------------------------------------------------
(* RoundTrip *)

\* The key is at least two bytes, as every RSA key is: a ciphertext one
\* byte short of whole key blocks is then never a whole number of blocks.
LongKeys == \A k \in KeySizes : k >= 2

\* The plaintext bytes in the first j chunks of at most d bytes of a p-byte
\* input.
Decrypted(j, p, d) == IF j * d <= p THEN j * d ELSE p

\* Chunk i of the ciphertext holds the plaintext from byte (i - 1) * d on,
\* and the decrypting call has read back the plaintext of every block it
\* decrypted; when it returns, that is the whole plaintext.
ExactInv ==
    /\ ValidChunk =>
          \A i \in 1 .. Len(cipher) :
             cipher[i] = NextChunk((i - 1) * EncryptDataSize, plainLen, EncryptDataSize)
    /\ call = "Dec" /\ loop =>
          outLen = Decrypted(inPos \div keySize, plainLen, EncryptDataSize)
    /\ call = "Done" => plainOut = plainLen

\* The inductive invariant RoundTrip follows from.
RInv == CInv /\ ExactInv

\* The plaintext of the first j chunks and the next one is the plaintext of
\* the first j + 1, while chunk j + 1 starts before the end.
LEMMA DecryptedStep ==
    ASSUME NEW ds \in Nat \ {0}, NEW pl \in Nat, NEW j \in Nat, j * ds < pl
    PROVE  Decrypted(j, pl, ds) + NextChunk(j * ds, pl, ds) = Decrypted(j + 1, pl, ds)
<1>1. (j + 1) * ds = j * ds + ds
    OBVIOUS
<1>2. QED
    BY <1>1 DEF Decrypted, NextChunk

\* The chunks of a p-byte input cover it, and each of them starts before
\* its end.
LEMMA ChunksCover ==
    ASSUME NEW ds \in Nat \ {0}, NEW pl \in Nat
    PROVE  /\ Chunks(pl, ds) * ds >= pl
           /\ \A j \in 0 .. Chunks(pl, ds) - 1 : j * ds < pl
<1> DEFINE nc == Chunks(pl, ds)
           xs == pl + ds - 1
           rm == xs % ds
<1>1. xs \in Nat /\ nc = xs \div ds /\ nc \in Nat /\ rm \in 0 .. ds - 1
    BY DEF Chunks
<1>2. xs = nc * ds + rm
    BY <1>1
<1>3. nc * ds >= pl
    BY <1>1, <1>2
<1>4. ASSUME NEW j \in 0 .. nc - 1 PROVE j * ds < pl
    <2>1. nc - 1 \in Nat /\ j <= nc - 1
        BY <1>1
    <2>2. j * ds <= (nc - 1) * ds
        BY <2>1, MulMono
    <2>3. (nc - 1) * ds = nc * ds - ds
        BY <1>1
    <2>4. QED
        BY <1>1, <1>2, <2>2, <2>3
<1>5. QED
    BY <1>3, <1>4

\* A ciphertext of nb key blocks, one byte short, is not a whole number of
\* blocks of at least two bytes.
LEMMA TruncatedRejected ==
    ASSUME NEW ks \in Nat, ks >= 2, NEW nb \in Nat \ {0}
    PROVE  (nb * ks - 1) % ks # 0
<1>1. nb * ks - 1 = (nb - 1) * ks + (ks - 1)
    OBVIOUS
<1>2. ((nb - 1) * ks + (ks - 1)) % ks = ks - 1
    BY DivChar
<1>3. QED
    BY <1>1, <1>2

\* One chunk of publicEncrypt appends, when it writes, the chunk that starts
\* at plaintext position (Len(cipher)) * chunk size.
LEMMA ExactChunkStep ==
    ASSUME CInv, FitsWidth, ExactInv, EncryptChunk
    PROVE  ExactInv'
<1>1. /\ call \in {"EncQuery", "Enc"}
      /\ cipher' = IF call = "Enc" THEN Append(cipher, ChunkBytes) ELSE cipher
      /\ UNCHANGED <<keySize, padding, plainLen, call, loop>>
    BY DEF EncryptChunk
<1>2. EncryptDataSize' = EncryptDataSize /\ ValidChunk' = ValidChunk
    BY <1>1, SizesUnchanged
<1>3. (/\ call = "Dec" /\ loop => outLen = Decrypted(inPos \div keySize, plainLen, EncryptDataSize)
       /\ call = "Done" => plainOut = plainLen)'
    BY <1>1
<1>4. ValidChunk' =>
        \A ix \in 1 .. Len(cipher') :
           cipher'[ix] = NextChunk((ix - 1) * EncryptDataSize', plainLen', EncryptDataSize')
    <2> DEFINE ds == EncryptDataSize
               pl == plainLen
    <2> SUFFICES ASSUME ValidChunk
                 PROVE  \A ix \in 1 .. Len(cipher') :
                           cipher'[ix] = NextChunk((ix - 1) * ds, pl, ds)
        BY <1>1, <1>2
    <2>0. \A ix \in 1 .. Len(cipher) : cipher[ix] = NextChunk((ix - 1) * ds, pl, ds)
        BY DEF ExactInv
    <2>1. CASE call = "EncQuery"
        BY <1>1, <2>0, <2>1
    <2>2. CASE call = "Enc"
        <3> DEFINE ip == inPos
                   ch == Chunks(inPos, EncryptDataSize)
        <3>1. /\ ChunkBytes = NextChunk(ip, pl, ds)
              /\ ds \in 1 .. keySize
              /\ ip % ds = 0 /\ ip \in Nat
              /\ Len(cipher) = ch
            BY <2>2, EncryptChunkBytes
        <3>2. ds \in Nat \ {0}
            BY <3>1 DEF CInv, CryptoTypeOK
        <3>3. ch = ip \div ds /\ ip = (ip \div ds) * ds /\ ip \div ds \in Nat
            BY <3>1, <3>2, ChunkStep, DivOf
        <3>4. cipher' = Append(cipher, ChunkBytes) /\ cipher \in Seq(Nat)
            BY <1>1, <2>2 DEF CInv, CryptoTypeOK
        <3>5. Len(cipher') = ch + 1
            BY <3>1, <3>4
        <3>6. ASSUME NEW ix \in 1 .. Len(cipher')
              PROVE  cipher'[ix] = NextChunk((ix - 1) * ds, pl, ds)
            <4>1. CASE ix <= ch
                <5>1. cipher'[ix] = cipher[ix] /\ ix \in 1 .. Len(cipher)
                    BY <3>1, <3>3, <3>4, <3>5, <4>1
                <5>2. QED
                    BY <2>0, <5>1
            <4>2. CASE ix = ch + 1
                <5>1. cipher'[ix] = ChunkBytes
                    BY <3>1, <3>4, <4>2
                <5>2. (ix - 1) * ds = ip
                    BY <3>3, <4>2
                <5>3. QED
                    BY <3>1, <5>1, <5>2
            <4>3. QED
                BY <3>3, <3>5, <4>1, <4>2
        <3>7. QED
            BY <3>6
    <2>3. QED
        BY <1>1, <2>1, <2>2
<1>5. QED
    BY <1>3, <1>4 DEF ExactInv

\* privateDecrypt's decrypting call enters its loop having read nothing.
LEMMA ExactEnterStep ==
    ASSUME CInv, FitsWidth, ExactInv, PrivateDecryptEnter
    PROVE  ExactInv'
<1>1. /\ call \in {"DecQuery", "Dec"} /\ loop' = TRUE
      /\ inPos' = 0 /\ outLen' = 0
      /\ UNCHANGED <<keySize, padding, plainLen, call, plainOut, cipher>>
    BY DEF PrivateDecryptEnter
<1>2. EncryptDataSize' = EncryptDataSize /\ ValidChunk' = ValidChunk
    BY <1>1, SizesUnchanged
<1>3. call = "Dec" => Decrypted(0 \div keySize, plainLen, EncryptDataSize) = 0
    <2> SUFFICES ASSUME call = "Dec"
                 PROVE  Decrypted(0 \div keySize, plainLen, EncryptDataSize) = 0
        OBVIOUS
    <2>1. /\ EncryptDataSize \in 1 .. keySize
          /\ keySize \in Nat \ {0} /\ plainLen \in Nat \ {0}
        BY CipherFacts
    <2>2. QED
        BY <2>1 DEF Decrypted
<1>4. QED
    BY <1>1, <1>2, <1>3 DEF ExactInv

\* One block of the decrypting call reads back the next chunk of the
\* plaintext.
LEMMA ExactBlockStep ==
    ASSUME CInv, FitsWidth, ExactInv, DecryptBlock
    PROVE  ExactInv'
<1> DEFINE NC == Chunks(plainLen, EncryptDataSize)
           ds == EncryptDataSize
           pl == plainLen
           q0 == inPos \div keySize
<1>1. /\ call \in {"DecQuery", "Dec"} /\ loop /\ inPos < DecInLen
      /\ outLen' = UInt(outLen + IF call = "Dec" THEN BlockBytes ELSE dataSize)
      /\ inPos' = UInt(inPos + keySize)
      /\ UNCHANGED <<keySize, padding, plainLen, call, loop, plainOut, cipher>>
    BY DEF DecryptBlock
<1>2. EncryptDataSize' = EncryptDataSize /\ ValidChunk' = ValidChunk
    BY <1>1, SizesUnchanged
<1>3. CASE call = "DecQuery"
    BY <1>1, <1>2, <1>3 DEF ExactInv
<1>4. CASE call = "Dec"
    <2>1. /\ NC \in 1 .. pl
          /\ DecInLen \in Nat /\ DecInLen <= NC * keySize
          /\ NC * keySize + keySize < 2 ^ Width
          /\ Len(cipher) = NC
          /\ ds \in 1 .. keySize
          /\ keySize \in Nat \ {0} /\ pl \in Nat \ {0}
        BY <1>4, CipherFacts
    <2>2. /\ inPos % keySize = 0 /\ DecInLen % keySize = 0 /\ inPos \in Nat
          /\ ValidChunk /\ keySize \in KeySizes /\ pl \in PlainLens
        BY <1>1 DEF CInv, DecInv, CipherInv, CryptoTypeOK
    <2>3. /\ keySize \in Nat \ {0} /\ ds \in 1 .. keySize /\ NC \in Nat
          /\ inPos \in Nat /\ DecInLen \in Nat
          /\ inPos % keySize = 0 /\ DecInLen % keySize = 0 /\ inPos < DecInLen
          /\ DecInLen <= NC * keySize /\ NC * keySize + keySize < 2 ^ Width
        BY <1>1, <2>1, <2>2
    <2>4. inPos + keySize \in 0 .. 2 ^ Width - 1
        BY <2>3, BlockArith, Zenon
    <2>5. (inPos + keySize) \div keySize = q0 + 1
        BY <2>3, BlockArith, Zenon
    <2>6. q0 + 1 \in 1 .. NC
        BY <2>3, BlockArith
    <2>7. inPos' \div keySize' = q0 + 1
        BY <1>1, <2>4, <2>5, UIntId
    <2>8. q0 * ds < pl /\ q0 \in Nat
        <3>1. q0 \in 0 .. NC - 1
            BY <2>3, <2>6
        <3>2. QED
            BY <2>1, <3>1, ChunksCover
    <2>9. outLen = Decrypted(q0, pl, ds)
        BY <1>1, <1>4 DEF ExactInv
    <2>10. BlockBytes = NextChunk(q0 * ds, pl, ds)
        <3>1. cipher[q0 + 1] = NextChunk(((q0 + 1) - 1) * ds, pl, ds)
            BY <2>1, <2>2, <2>6 DEF ExactInv
        <3>2. QED
            BY <2>8, <3>1 DEF BlockBytes
    <2>11. outLen + BlockBytes = Decrypted(q0 + 1, pl, ds)
        <3>1. ds \in Nat \ {0} /\ pl \in Nat /\ q0 \in Nat /\ q0 * ds < pl
            BY <2>1, <2>8
        <3>2. Decrypted(q0, pl, ds) + NextChunk(q0 * ds, pl, ds) = Decrypted(q0 + 1, pl, ds)
            BY <3>1, DecryptedStep, Zenon
        <3>3. QED
            BY <2>9, <2>10, <3>2
    <2>12. Decrypted(q0 + 1, pl, ds) \in 0 .. 2 ^ Width - 1
        <3>1. pl < 2 ^ Width
            BY <2>2, WidthFacts
        <3>2. QED
            BY <2>1, <2>8, <3>1 DEF Decrypted
    <2>13. outLen' = Decrypted(inPos' \div keySize', pl, ds)
        BY <1>1, <1>4, <2>7, <2>11, <2>12, UIntId
    <2>14. QED
        BY <1>1, <1>2, <1>4, <2>13 DEF ExactInv
<1>5. QED
    BY <1>1, <1>3, <1>4

\* The decrypting call returns the whole plaintext: at the end of a
\* ciphertext that was not cut short it has read back every chunk.
LEMMA ExactDoneStep ==
    ASSUME CInv, FitsWidth, LongKeys, ExactInv, DecryptDone
    PROVE  ExactInv'
<1> DEFINE NC == Chunks(plainLen, EncryptDataSize)
           ds == EncryptDataSize
           pl == plainLen
<1>1. /\ call \in {"DecQuery", "Dec"} /\ loop /\ inPos >= DecInLen /\ loop' = FALSE
      /\ call = "DecQuery" => call' = "Dec"
      /\ call = "Dec" => call' = "Done" /\ plainOut' = outLen
      /\ UNCHANGED <<keySize, padding, plainLen, cipher>>
    BY DEF DecryptDone
<1>2. EncryptDataSize' = EncryptDataSize /\ ValidChunk' = ValidChunk
    BY <1>1, SizesUnchanged
<1>3. CASE call = "DecQuery"
    BY <1>1, <1>2, <1>3 DEF ExactInv
<1>4. CASE call = "Dec"
    <2>1. /\ NC \in 1 .. pl
          /\ encLen = NC * keySize
          /\ NC * keySize + keySize < 2 ^ Width
          /\ ds \in 1 .. keySize
          /\ keySize \in Nat \ {0} /\ pl \in Nat \ {0}
        BY <1>4, CipherFacts
    <2>2. /\ DecInLen % keySize = 0 /\ inPos <= DecInLen /\ inPos \in Nat
          /\ keySize \in KeySizes
        BY <1>1, <1>4 DEF CInv, DecInv, CryptoTypeOK
    <2>3. ~truncated
        <3> SUFFICES ASSUME truncated PROVE FALSE
            OBVIOUS
        <3>1. NC * keySize - 1 \in 0 .. 2 ^ Width - 1
            <4>1. 1 * keySize <= NC * keySize
                BY <2>1, MulMono
            <4>2. QED
                BY <2>1, <4>1
        <3>2. DecInLen = NC * keySize - 1
            BY <2>1, <3>1, UIntId DEF DecInLen
        <3>3. keySize >= 2
            BY <2>2 DEF LongKeys
        <3>4. (NC * keySize - 1) % keySize # 0
            BY <2>1, <3>3, TruncatedRejected
        <3>5. QED
            BY <2>2, <3>2, <3>4
    <2>4. inPos = NC * keySize
        BY <1>1, <2>1, <2>2, <2>3 DEF DecInLen
    <2>5. inPos \div keySize = NC
        <3>1. (NC * keySize + 0) \div keySize = NC
            BY <2>1, DivChar
        <3>2. QED
            BY <2>4, <3>1
    <2>6. outLen = Decrypted(NC, pl, ds)
        BY <1>1, <1>4, <2>5 DEF ExactInv
    <2>7. Decrypted(NC, pl, ds) = pl
        <3>1. NC * ds >= pl
            BY <2>1, ChunksCover
        <3>2. QED
            BY <2>1, <3>1 DEF Decrypted
    <2>8. QED
        BY <1>1, <1>2, <1>4, <2>6, <2>7 DEF ExactInv
<1>5. QED
    BY <1>1, <1>3, <1>4

\* The other steps leave the ciphertext alone and do not reach the
\* decrypting call's loop or its return.
LEMMA ExactOtherStep ==
    ASSUME ExactInv,
           \/ PublicEncryptRejected \/ PrivateDecryptRejected \/ EncryptChunkFails
           \/ PublicEncryptEnter \/ EncryptDone
           \/ UNCHANGED cryptoVars
    PROVE  ExactInv'
<1>1. UNCHANGED <<keySize, padding, plainLen, cipher>>
    BY DEF PublicEncryptRejected, PrivateDecryptRejected, EncryptChunkFails,
           PublicEncryptEnter, EncryptDone, cryptoVars
<1>2. EncryptDataSize' = EncryptDataSize /\ ValidChunk' = ValidChunk
    BY <1>1, SizesUnchanged
<1>3. CASE PublicEncryptRejected \/ PrivateDecryptRejected \/ EncryptChunkFails
    <2>1. call' = "Failed"
        BY <1>3 DEF PublicEncryptRejected, PrivateDecryptRejected, EncryptChunkFails
    <2>2. QED
        BY <1>1, <1>2, <2>1 DEF ExactInv
<1>4. CASE PublicEncryptEnter \/ EncryptDone
    <2>1. call' \in {"EncQuery", "Enc", "DecQuery"}
        BY <1>4 DEF PublicEncryptEnter, EncryptDone
    <2>2. QED
        BY <1>1, <1>2, <2>1 DEF ExactInv
<1>5. CASE UNCHANGED cryptoVars
    BY <1>2, <1>5 DEF cryptoVars, ExactInv
<1>6. QED
    BY <1>3, <1>4, <1>5

\* RInv holds initially: the ciphertext is empty and no call returned.
LEMMA InitRInv == CryptoInit => RInv
<1> SUFFICES ASSUME CryptoInit PROVE RInv
    OBVIOUS
<1>1. ExactInv
    BY DEF CryptoInit, ExactInv
<1>2. QED
    BY <1>1, InitCInv DEF RInv

\* Every step keeps RInv, when the lengths fit the word and the keys are
\* at least two bytes.
LEMMA RInvStep ==
    ASSUME FitsWidth, LongKeys
    PROVE  RInv /\ [CryptoNext]_cryptoVars => RInv'
<1> SUFFICES ASSUME RInv, [CryptoNext]_cryptoVars PROVE RInv'
    OBVIOUS
<1>1. CInv /\ ExactInv
    BY DEF RInv
<1>2. CInv'
    BY <1>1, CInvStep
<1>3. ExactInv'
    <2>1. CASE EncryptChunk
        BY <1>1, <2>1, ExactChunkStep
    <2>2. CASE PrivateDecryptEnter
        BY <1>1, <2>2, ExactEnterStep
    <2>3. CASE DecryptBlock
        BY <1>1, <2>3, ExactBlockStep
    <2>4. CASE DecryptDone
        BY <1>1, <2>4, ExactDoneStep
    <2>5. CASE \/ PublicEncryptRejected \/ PrivateDecryptRejected \/ EncryptChunkFails
               \/ PublicEncryptEnter \/ EncryptDone
               \/ UNCHANGED cryptoVars
        BY <1>1, <2>5, ExactOtherStep
    <2>6. QED
        BY <2>1, <2>2, <2>3, <2>4, <2>5 DEF CryptoNext
<1>4. QED
    BY <1>2, <1>3 DEF RInv

\* RInv is an invariant of the four calls, for every key of two bytes or
\* more and every plaintext length whose lengths fit the word.
THEOREM RInvHolds ==
    ASSUME FitsWidth, LongKeys
    PROVE  CryptoSpec => []RInv
BY InitRInv, RInvStep, PTL DEF CryptoSpec

\* Decrypting what publicEncrypt produced gives back as many bytes as were
\* encrypted (RoundTrip, checked by crypto_chunks): privateDecrypt reads
\* back every chunk publicEncrypt wrote, and a ciphertext cut short by a
\* byte is rejected rather than decrypted short, for every key of two
\* bytes or more whose ciphertext length fits in a uint32_t.
THEOREM RoundTripHolds ==
    ASSUME FitsWidth, LongKeys
    PROVE  CryptoSpec => []RoundTrip
<1>1. RInv => RoundTrip
    BY DEF RInv, ExactInv, RoundTrip
<1>2. QED
    BY <1>1, RInvHolds, PTL

=============================================================================
