# TLA+ models of the ASNeG OPC UA stack

This directory holds TLA+ models of four parts of the ASNeG OPC UA stack, checked with TLC and partly proved with TLAPS.
Each module is translated from the C++ under `src/src/`. `PROJECT.json` maps every modelled definition to the source lines it stands for. It also lists the runs, the mutants that show each property can fail, the findings and the hazards.

## The system and its parts

| Part | Source | Modules |
|------|--------|---------|
| Client session: the session state machine, request handles, the pending queue, routing of responses to service components | `OpcUaStackClient/ServiceSet/Session.cpp` | `Session`, `ServiceTransactions`, `SessionProofs` |
| Monitored-item service: `send` (async) and `sendSync` (blocking on a `ConditionBool`) over the session | `OpcUaStackClient/ServiceSet/MonitoredItemService.cpp` | `MonitoredItemService`, `MonitoredItemServiceProofs` |
| Client node-set builder: recursive Browse and Read of the server's address space | `OpcUaClient/ClientService/ClientServiceNodeSet.cpp` | `NodeSetBuilder`, `NodeSetBuilderProofs` |
| Chunked RSA encryption and decryption | `OpcUaStackCore/Certificate/CryptoRSA.cpp` | `CryptoRSA`, `CryptoRSAProofs` |

How the parts interact:
- An application component registers with the `Session` and sends requests through it.
- The session stamps each request with a request handle equal to its transaction id, parks it in the pending queue and writes it to the secure channel.
- A response is looked up by its handle in the pending queue and handed to the service component that sent it.
- `MonitoredItemService` is such a component. `MonitoredItemService.tla` EXTENDS `Session` and composes the two.
- The node-set builder drives the View and Attribute services from callbacks of the client's reactor (the io thread pool).
- `CryptoRSA` is a library used when opening a secure channel with encryption. It has no state shared with the rest.

The environment is modelled from `spec.md`, because that code is not under `src/`:
- the secure channel, which opens, drops and reconnects;
- the server, which answers, loses requests or answers late;
- the ViewService/AttributeService collaborators;
- OpenSSL's length rules.

These definitions are marked `spec_modelled` in the map.

## Modules, state and actions

### `Session.tla`

Variables:
- `sessionState` is one of the six states of `SessionState`: Close, ConnectingToSecureChannel, SendCreateSession, ReceiveCreateSession, SendActivateSession, ReceiveActivateSession.
- `requestHandle` is the counter, capped by `MaxHandle`.
- `authToken` is `authenticationToken_`.
- `serviceSetMap` holds the registered components.
- `pending` is the pending queue, a set of transaction ids.
- `inbox`, `posted`, `routed` and `completed` hold the component's view.
- The environment is `channel`, `toServer`, `toClient`, `serverToken`, `serverActive` and `drops`.

Each public method and handler is one action, with its guards and early returns:
- `createSession`, `activateSession` and `send`;
- `send` rejected outside ReceiveActivateSession;
- `handleSecureChannelConnect` and `handleSecureChannelDisconnect`;
- `receiveCreateSessionResponse` and `receiveActivateSessionResponse`;
- `receiveMessage` and a response whose transaction is no longer pending;
- `pendingQueueTimeout`.

Messages on the wire are records that carry the kind, handle, token and transaction. The server may answer, lose a request (`ServerLossy`), or let a request time out before answering (`ReplyWithinDeadline = FALSE`).

### `ServiceTransactions.tla`

This is the abstract specification of what the session promises a service component:
- a transaction is issued once at a time (`Issue`);
- it either gets exactly its own response (`Deliver`) or is abandoned (`Abandon`);
- it never gets a response after it was abandoned, and never a response of another transaction.

`Session.tla` implements it under the refinement mapping `outstanding <- pending`, `delivered <- routed` (`ImplementsServiceTransactions`):
- `send` maps to `Issue`;
- `pendingQueueTimeout` maps to `Abandon`;
- `receiveMessage` maps to `Deliver`, or to `Abandon` when the transaction is not registered with a component;
- every other step is a stutter.

### `MonitoredItemService.tla`

This module adds the application threads:
- `sync` is the transaction's `sync()` flag;
- `cond` is its `conditionBool()`;
- `waiting` holds callers blocked in `waitForCondition`;
- `busy` holds calls that have not returned;
- `uses` counts calls per transaction object (`MaxUses`);
- `answered` holds transactions whose response has arrived.

The actions are `send`, `sendSync` (with `conditionInit`), the woken caller and `receive`. The five request types share identical code, so `RespType` picks one receive case per transaction.

### `NodeSetBuilder.tla`

This module models `run()`:
- setup and the root node;
- `browseCompleted_.waitForCondition`;
- the recursive browse over a frontier of node ids (`browse`, `viewServiceBrowseResult`, `viewServiceBrowseDone`);
- the blocking `readNodeAttributes` inside the browse callback, and `attributeServiceNodeDone`.

The reactor has `ReactorThreads` threads. A callback that blocks occupies one of them: `BusyThreads`. The address space is the constant graph `Refs` with node classes `NodeClassOf`. Two history variables record the outcome of every attribute Read: `readFailed` holds the nodes whose Read failed, and `readOk` holds those whose Read succeeded. Properties use them to relate a Read to earlier ones.

### `CryptoRSA.tla`

This module follows one caller through four calls: the encrypt length query (null output buffer), encrypt, the decrypt length query, and decrypt.

Each call goes through:
- the argument and padding checks;
- the chunk-size switch (`keySize - 11`, `keySize - 42`, `keySize`);
- the `while` loop one iteration per step, with the unsigned arithmetic kept modulo `2^Width`.

Modelling choices:
- Byte contents are abstracted: a ciphertext is the sequence of the plaintext lengths of its chunks.
- OpenSSL is modelled by its documented limits (`RsaEncryptAccepts`).
- `truncated` lets the ciphertext reach `privateDecrypt` one byte short, as a received message can.

## Runs

Every passing run fires all of its module's actions.

| Run | Expect | What it shows |
|-----|--------|---------------|
| `session_safety` | pass | With reordered, lost and late responses, a channel drop with reconnect and a lossy server: every routed response belongs to the request of the component it goes to (`CorrelationCorrect`), and every service request carries the token of the server's active session (`TokenCurrent`). In ReceiveActivateSession the server holds `authToken` as its active session (`SessionActiveOnServer`). The session implements `ServiceTransactions` (`ImplementsServiceTransactions`). |
| `session_refused` | violation | `receiveActivateSessionResponse` never reads the response's status, so an ActivateSession the server refused still puts the session into ReceiveActivateSession (`SessionActiveOnServer`). The run uses `RefusingSpec`, which adds a refusing server. |
| `session_connect_state` | violation | `handleSecureChannelConnect` logs an invalid state but does not return, so a reconnect in ReceiveActivateSession restarts the handshake (`ConnectStateSafety`). |
| `service_sync` | pass | With a reliable server, every `sendSync` returns (`SyncCallReturns`), and only after its own response arrived, also when the object is reused (`SyncReturnsOwnResponse`). |
| `service_timeout` | violation | `pendingQueueTimeout` is empty (FIXME), so a lost request leaves its `sendSync` caller blocked forever. |
| `service_reconnect` | violation | After a reconnect, the session sits in SendCreateSession and is never re-activated. `send` rejects each transaction without completing it, so the caller blocks. |
| `service_reuse` | violation | The `sync` flag is never reset, so an async `send` after a `sendSync` on the same object never gets its callback (`AsyncCallReturns`). |
| `nodeset_build` | pass | With two reactor threads, a cycle, a shared child, an invalid node class and failing browses and reads, `run()` returns (`RunTerminates`), the model holds every node that was browsed and read (`BuildComplete`), and no node whose Read succeeded is read again, also when it is a shared child or closes a cycle (`ReadOnce`). |
| `nodeset_one_reactor` | violation | With one reactor thread, the browse callback blocks waiting for a read callback that only that thread can deliver. |
| `nodeset_references` | violation | The "add reference to node" branch is empty, so no browsed reference is recorded (`ReferencesRecorded`). |
| `crypto_chunks` | pass | The length query returns exactly what encryption writes (`SizeQueryExact`). No call writes past the queried buffer (`NoBufferOverflow`). Decryption restores the plaintext length (`RoundTrip`). Every call returns (`CallsReturn`). |
| `crypto_zero_chunk` | violation | A key of exactly 11 bytes (PKCS1) or 42 bytes (OAEP) gives chunk size 0, and `publicEncrypt` loops forever. |

Each property of a passing run has a mutant in `PROJECT.json`: a plausible bug in a mapped definition that TLC catches under the run's own configuration. Examples:
- `send` without the state check;
- `sendSync` without `conditionInit`;
- `receive` dispatching before the `sync` check;
- `run()` returning the browse status;
- `viewServiceBrowseDone` not signalling;
- the encrypt length counting `bytesToEncrypt`;
- an OAEP overhead of 43;
- `activateSession` sending token 0;
- `receiveMessage` routing a response whose transaction is no longer pending.

## Bounds and why they suffice

- **Session:**
  - Two transactions of two response types are enough for one response to be routed to the wrong component.
  - `MaxHandle` 4 leaves room for the CreateSession and ActivateSession handles of the first connection and of one reconnect. The counter is capped in the guards, not wrapped, and no transaction id is sent twice, so no handle is reused.
  - One drop gives one reconnect, which creates and activates a new session and leaves stale responses of the old connection on the wire.
  - A lossy, late server yields stale and missing responses.
- **MonitoredItemService:** `MaxUses` 2 allows a transaction object to be reused: sync then sync, and sync then async.
- **NodeSetBuilder:** five nodes cover every case:
  - a cycle (`a -> c -> a`);
  - a node reached twice (`c`);
  - a leaf;
  - a node of invalid class (`d`), which exercises each branch of `viewServiceBrowseResult`.
- **CryptoRSA:** keys of 5, 20, 43 and 53 bytes and plaintexts of 0, 1, 9, 11 and 20 bytes cover these cases:
  - underflow of the chunk size (5 and 20 bytes with OAEP);
  - one chunk, several chunks, and a short last chunk;
  - an empty input.

  `Width` is 16. The loop arithmetic only wraps on underflow, which 16 bits shows as well as 32.

## Fairness

Weak fairness is placed only on steps the code runs without being asked:
- the reactor thread delivering responses and callbacks;
- the channel connecting;
- the server answering;
- the pending-queue timer;
- a woken caller returning.

Application calls (`createSession`, `activateSession`, `send`, `sendSync`) are never forced, and neither are channel drops or lost requests. The reactor runs its handlers to completion, which justifies weak fairness on each handler.

`CryptoRSA` is sequential, so it takes weak fairness of its whole next-state relation: the calling thread keeps running.

The liveness runs use no symmetry sets, because symmetry is unsound with liveness properties.

## What is proved (TLAPS)

Four modules hold the proofs. Each extends the module it is about and `TLAPS`, and checks with `tlapm <module>.tla`. Every inductive invariant was also model-checked with TLC, as an invariant of a run.

### `SessionProofs.tla`

All proofs check with `tlapm SessionProofs.tla` and hold for every value of the constants under `TrxAssumption` and `BoundsAssumption`.

- `TypeCorrect`: `Spec => []TypeOK`. The lemma `TypeStep` proves it one action at a time.
- `IInvHolds`: `Spec => []IInv`, where `IInv == TypeOK /\ TokenInv /\ HandleInv /\ CorrelationCorrect /\ TrxInv`.
- `TokenCurrentHolds`, `CorrelationHolds` and `SessionActiveHolds`: three invariants of `session_safety`, for any number of transactions, handles and drops.
- `Refinement`: `Spec => ImplementsServiceTransactions`. It rests on two lemmas:
  - `InitRefines`: initial states map to `STInit`;
  - `StepRefines`: under `IInv`, every step maps to an `STNext` step or a stutter.

  The step lemma needs `TrxInv`: every pending or delivered transaction was posted, and none is both in the inbox and pending. It also needs `HandleInv`: a response's handle is its transaction. Together they make a routed response the `Deliver` of a transaction that is outstanding.

`TokenCurrent` is not inductive by itself. `TokenInv` makes it inductive by pinning down which handshake messages can exist in each session state:
- a closed session has a closed channel, and a channel that is not open has an empty wire;
- there is at most one CreateSession or ActivateSession message, and only in the state that sent it;
- a CreateSession request carries token 0, and its response carries the server's token, which is non-zero;
- an ActivateSession response implies the server activated exactly `authToken`;
- from ReceiveCreateSession on, `authToken` is the server's token;
- in ReceiveActivateSession the server's active token is `authToken`;
- every service request on the wire was sent in ReceiveActivateSession with `authToken`.

Without these conjuncts, a state with a stale CreateSession response on the wire would let `receiveCreateSessionResponse` install a token the server no longer holds. The same holds for a response to an earlier session, which TLC shows never happens.

`HandleInv` ties handles in pending, on the wire and in `routed` to their transaction. `CorrelationCorrect` then follows because the handle is the transaction id.

`IInv` was model-checked first, as an invariant of a run with two drops and six handles, before it was proved. `Init => IInv` and `IInv /\ [Next]_vars => IInv'` are proved one action at a time. Each case is split into one step per conjunct the action can disturb.

### `MonitoredItemServiceProofs.tla`

This module proves `SyncReturnsOwnResponseHolds`: `ServiceSpec => SyncReturnsOwnResponse`. It is the action property of `service_sync`. It holds for every set of transactions, number of uses, number of drops and server behaviour, and needs no assumption on the constants.

The property rests on the invariant `WaitInv` (`WaitInvHolds`), which says three things about a caller blocked in `waitForCondition`:
- it holds its transaction busy, so no other `send` or `sendSync` can reuse the object and clear its answer;
- it set the `sync()` flag, which nothing clears, so `receive` signals its condition instead of calling the callback;
- its condition is true only once `receive` has had the response of the current call, because `sendSync`'s `conditionInit()` reset the condition an earlier call left.

The lemma `ReleaseStep` shows that only `WaitForCondition` removes a caller from `waiting`, and only when its condition is true. The session's own steps leave the service's variables unchanged, so the proof needs no fact about the session. The mutant `SendSyncNoInit` drops `conditionInit()` and breaks the third conjunct.

### `NodeSetBuilderProofs.tla`

This module proves the type invariant and two properties of `nodeset_build` for every address space `Refs`, every `NodeClassOf` and every number of reactor threads:
- `NodeSetTypeCorrect`: `NodeSetSpec => []NodeSetTypeOK`.
- `BuildCompleteHolds`: `NodeSetSpec => []BuildComplete`.
- `ReadOnceHolds`: `NodeSetSpec => ReadOnce`.

`BuildComplete` is not inductive. It speaks only of the final state, while the build gets there through recursive browses, failing reads and callbacks on several threads. The inductive invariant `BInv` (`BInvHolds`) adds five parts:
- `PhaseInv` fits the phases of `run()`, the browse and the callback together. A callback runs only while a response is delivered, and a Read is outstanding only while a callback waits for it.
- `FrontierInv` bounds the unbrowsed nodes of the model in each phase of the browse:
  - while the frontier is requested, they are within the frontier;
  - while it is delivered, they are targets of its successfully browsed nodes;
  - once the browse has succeeded, there are none.
- `CallbackInv` says the callback in progress works on a delivered, successfully browsed node, and a completed Read either succeeded or is recorded as failed.
- `CoverageInv` says that every reference of a delivered node is either covered (in the model, read failed, or an invalid node class) or still in progress in the callback.

- `ReadOkInv` says that every node whose Read succeeded is in the model, except the node of a callback that is still waiting, whose Read then completed successfully. It also says that an outstanding Read is never for a node in `readOk`.

When `run()` returns true, the browse is done and no callback is left. `CoverageInv` then gives `BuildComplete`.

For `ReadOnce`, the lemma `ReadOnceStep` shows that only `ReadNodeAttributes` starts a Read. It does so only for a target that its existence check did not find in the model. Outside a waiting callback, `ReadOkInv` puts every successfully read node in the model. The mutant `ReadNodeAttributesNoExistsCheck` drops the existence check and reads the shared child twice.

### `CryptoRSAProofs.tla`

This module proves three invariants of `crypto_chunks` under the hypothesis `FitsWidth`. It says that for every key size `k` and plaintext length `p`, `(p + 1) * k < 2^Width`: a ciphertext one key block longer than one block per plaintext byte is still counted in the `uint32_t` without wrapping. `crypto_chunks` satisfies it (21 * 53 < 2^16), and at 32 bits so does a 4096-bit (512-byte) key with any plaintext under 8 MiB. `WordAssumption` (`2^Width` is a positive natural) is an assumption of `CryptoRSA.tla` that TLC checks on every run.

- `SizeQueryExactHolds` (`SizeQueryExact`): the encrypt length query returns exactly the length encryption produces, one key block per chunk.
- `NoBufferOverflowHolds` (`NoBufferOverflow`): no call writes past the buffer allocated from the preceding length query.
- `RoundTripHolds` (`RoundTrip`): decrypting gives back the whole plaintext length. This theorem also assumes `LongKeys`, which says every key is at least two bytes. TLC shows the hypothesis is needed: with a one-byte key and no padding, a ciphertext one byte short is still a whole number of blocks, and it decrypts one byte short without an error. Every RSA key is far longer than two bytes.

The first two follow from `CInv` (`CInvHolds`). It is the type invariant together with four parts:
- `EncInv`: what publicEncrypt's two calls leave. A zero chunk size never gets past the first chunk, and a wrapped one (a key shorter than the padding's overhead) is refused at the first chunk. Between the calls, the query's length is one key block per chunk.
- `EncLoopInv`: inside publicEncrypt's loop with a valid chunk size, the position is a chunk boundary and one key block has been counted and written per chunk.
- `CipherInv`: the ciphertext privateDecrypt receives consists of whole key blocks, each holding at most a chunk size of plaintext.
- `DecInv`: inside privateDecrypt's loop, the query counts a chunk size per block, and the decrypting call has written at most that much into the queried buffer.

`RoundTrip` follows from `RInv == CInv /\ ExactInv` (`RInvHolds`). `ExactInv` states the chunks in closed form, with no sum over the sequence:
- chunk `i` holds `NextChunk((i - 1) * d, p, d)` bytes, the rest of the plaintext or a full chunk;
- after `j` blocks, the decrypting call has read back `Decrypted(j, p, d) = min(j * d, p)` bytes.

The arithmetic is in lemmas over fresh variables:
- `ChunkStep`, `ChunkAdvance`, `BlockArith` and `DivLe` for the loop bounds;
- `DecryptedStep` and `ChunksCover` for the closed forms;
- `TruncatedRejected`: `(n * k - 1) % k # 0` for `k >= 2`, which rejects a truncated ciphertext.

## What is only model-checked

These results are only model-checked:
- **Liveness:** `SyncCallReturns`, `AsyncCallReturns`, `RunTerminates` and `CallsReturn`. TLAPS cannot reason about fairness and ENABLED here.
- **The crypto properties beyond `FitsWidth`:** that is, where the `uint32_t` arithmetic wraps. `crypto_chunks` checks them at width 16 for its instance only. `RoundTrip` with one-byte keys is false, as explained above.
- **The violation runs:** they show counterexamples and have nothing to prove.

## Not modelled

- **`CryptoRSA::privateSign` and `publicVerify`:** each is one OpenSSL call with no loop and no state.
- **`MonitoredItemService::monitoredItemServiceIf` and the null checks in `receive`:** the model assumes the application sets the interface before its first async `send`. Without the interface the callback is dropped, which `service_reuse` shows for the `sync` flag.
- **`SessionConfig`, `OpcUaExtensionObject`, `ApplicationCertificate`, `OpcUaNodeId`, `SimpleAttributeFilterNode` and `AuditUpdateEventType`:** these are parsing, encoding and data classes with no concurrency or protocol. A model would reduce to the identity on abstract values.
- **The secure channel's framing and the server side:** their code is not under `src/`. Only their observable behaviour from `spec.md` is modelled.
