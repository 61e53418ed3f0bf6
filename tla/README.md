# A formal model of mkey-rs

mkey-rs opens SALTO locks over Bluetooth LE with a mobile key. This directory
holds TLA+ modules that model it, the TLC configurations that check them on
small instances, and proofs checked by TLAPS.

## The system

| Component | State it keeps | Operations | Modelled in |
|---|---|---|---|
| Opening session, `mkey-session/src/session.rs` | which flow runs and how far it is, whether it finished, the latched verdict | `poll(event) -> actions` | `Session` |
| SSP layer, `mkey-core/src/security/ssp.rs` | handshake state, session key, IV, the two randoms | `process_packet`, `wrap_data` | `Ssp`; the frame inside the encryption: `Codec` |
| Justin layer, `mkey-core/src/command/justin.rs` | open or closed, the current key, last audit result, refused kN reads | `process_command`: OPEN, CLOSE, READ_TAG, WRITE_TAG | `Justin`; the key identifier: `Base62` |
| Stack, `mkey-core/src/stack.rs` | the two layers | `handle_packet` | `Stack` |
| Mobile key, `mkey-core/src/data/mobile_key.rs` | fixed tags, general-purpose tags with permissions | read and write a tag, `from_bytes`, `to_bytes` | `MobileKey`, `KeyCodec`, `Tlv` |
| Operation results, `mkey-core/src/op_result.rs` | none | group of a result byte | `OpResult` |
| Checksums, padding, base62, `mkey-core/src/crypto`, `data/base62.rs` | none | conversions | `Crc`, `Padding`, `Base62`; AES stays symbolic in `Ssp` |
| Native pump, `mkey-ble/src/pump.rs` | the pending event, the deadline, the rest of the action list | `run_session` | `Pump`, `Attempt` |
| SaltoLock, `mkey-ble/src/lock.rs` | connection state, the key, the connected lock | scan, connect, authenticate, open, disconnect, write a tag | `SaltoLock` |
| btleplug transport, `mkey-ble/src/btleplug_impl.rs` | peripheral, characteristics, notification stream | scan, connect, subscribe, write, receive, disconnect | `Btleplug`; `Pump` models the trait as it is used |
| Advertisements, `advertisement.rs` of `mkey-core` and `mkey-ble` | none | parse a record, recognise a lock | `Advertisement` |
| Browser shell, `mkey-wasm` | the session, a preset random source | constructor, one call per event | `WasmShell` |
| Virgil provisioning, `mkey-sdk-virgil` | objects of a vendored WebAssembly runtime | make a key pair, wrap it, decrypt an account blob into a key | `Virgil` |
| Examples, `examples/` | a keystore directory | `keystore_gen`, `keystore_check`, `mkey_decode`, `mkey_open` | `Keystore` |

How they interact. The shell (pump or browser) owns the transport and the
clock. It feeds the session one event at a time and applies the actions the
session returns in order, each an `await`. In the v0200 flow a notification
goes through `Stack`: control packets to SSP, sealed data through SSP to Justin
and back, plain data to Justin alone. The lock writes its verdict into the
audit tag; the session latches the first final one and ends when the lock sends
CLOSE, goes silent or drops the link. The v0100 flow is a nonce, a signed
answer and one result byte.

What is hard to test. One AES-CBC IV is chained through both directions, and
the key changes twice, once before and once after the reply. Audit results come
in any number and order and must survive every way the attempt can end. The
link can go, a packet can queue, or the deadline can pass between any two
awaits. An action list can fail in the middle after the session has already
decided that it is done. A browser page calls anything at any time. A keystore
is six files written one after the other by a program that may be stopped in
between, and a prefix of a stored mobile key reads as a mobile key.
`PROJECT.json` lists each hazard at its line.

## Modules

* `Bytes` - bytes, blocks, `Option::None`, error names, `rotate_right` and
  `derive_session_key`.
* `OpResult` - the result byte's group and the `Outcome`.
* `MobileKey`, `Justin`, `Ssp`, `Stack` - the layers as operators. A Rust method
  that takes `&mut self` becomes an operator that returns `[st, err, out]`: the
  state it leaves (also when it fails), its error, its value. These modules have
  no variables, so that `Session` and `SspLink` can both use them.
* `Session` - the state machine, one action per arm of `poll`. The fields of
  `Session`, `V0200` and `V0100` are its variables; `actions` is what the last
  `poll` returned and `reported` is a history variable: every audit result the
  lock recorded.
* `Attempt` - the abstract specification: what a caller of `run_session` is
  promised, in four variables.
* `Pump` - EXTENDS `Session` with the loop of `run_session`, one await per step,
  and with the lock, the link and the clock as environment.
* `SspLink` - the phone's `Stack` and an honest lock over an ordered link. The
  lock is not in the repository; it is modelled from what the phone requires.
* `Advertisement` - what a device broadcasts, read in the two ways of the code.
* `Btleplug` - the real transport: scanning, finding a lock, connecting,
  subscribing, receiving, disconnecting, one await per step. Every step gives its
  caller a result: Pending, or what the call returns; the caller acts on it in the
  same step, as a Rust future does. The operating system's queue of notifications
  is a bounded sequence.
* `SaltoLock` - EXTENDS `Btleplug` with the handle an application holds: any
  method at any time, any future dropped. The session inside `open` is any
  sequence of transport calls; `Session` and `Pump` say which.
* `WasmShell` - EXTENDS `Session` with the browser's object: the constructor and
  every way it refuses, the methods, and the replayed random source, which traps
  when its list is used up. After a trap the object throws on every call.
* `Tlv`, `KeyCodec` - a mobile key as bytes. `Tlv` has the encoder of the code and,
  as an external, the parser of the crate `iso7816-tlv`; `KeyCodec` has
  `from_bytes` and `to_bytes`, with the order of a HashMap as a parameter.
* `Padding`, `Crc`, `Base62`, `Codec` - the pure algorithms. `Codec` gives them an
  input that grows, and states what each of them is for against a reference
  written another way (bit by bit, by multiplying back, by parsing).
* `Virgil` - the provisioning functions. Each is a sequence of methods of the
  runtime, a step each, that can report a status or return early by `?` (a trap, a
  null pointer, memory that cannot be read or written). `live` holds what is
  allocated in the library's heap, also what this crate never releases (`Lasting`:
  keys, copies of data, the error context), which goes with the `Store`. Keys are
  symbolic.
* `Keystore` - EXTENDS `Virgil` with the four programs over a directory, any of
  which may stop at any step, and with the owner and the backend.
* `MCSession`, `MCPump`, `MCSspLink`, `MCSaltoLock`, `MCKeystore`, `MCCodec` - the
  small instances.
* `CoreProofs`, `SessionProofs`, `WasmProofs`, `PumpProofs`, `LinkProofs`,
  `SaltoLockProofs`, `KeystoreProofs`, `CodecProofs` - the proofs.

Definitions named in a "Mutant" comment are deliberate mistakes. They are used
nowhere in the specifications; each shows that some property notices it.

### Abstractions

* Encryption is symbolic: a sealed packet records the key and the IV it was
  encrypted under and opens only under both. A wrong key, a wrong IV, a damaged
  body, bad padding and a bad CRC are one outcome ("InvalidCrc"). As in the code
  the IV has already moved when that is found out. `LastBlock(key, iv, body)`
  is a constant operator; the proofs assume nothing about it. `Codec` models
  byte for byte what is encrypted: the payload, its checksum and the padding.
* What the Virgil library computes is symbolic too: an encoding is a kind and
  the pair it belongs to. The container around a key, and the key, are bytes.
  `process_decryption` may hand out any part of the plaintext; `finish` then fails
  unless the ciphertext is one that was sealed to this pair.
* A notification is given as the reading of the flow that will see it.
* Timers carry names and no durations; an armed deadline may pass at any moment.
* Log traces are left out, except the note about a refused kN read.
* A read of the protocol info that fails, times out or has an odd shape brings
  no version, as in the code.

## Runs

| Run | Configuration | Shows |
|---|---|---|
| `session` | `MCSession.cfg` | any call of a browser page in any state, with any options: the latched verdict is the first final result; success reports it, and no timeout or disconnect hides it; no session key without a handshake; kN leaves only sealed; nothing happens after Done; a session is never left; one preset random value is enough |
| `pump` | `MCPump.cfg` | what `run_session` returns is the lock's verdict; every packet is answered before the next wait; `Pump` implements `Attempt` |
| `pump_shell` | `MCPumpShell.cfg` | phase order; the shell never feeds a forbidden event and the session never leaves it waiting for nothing; v0100 noise never extends a deadline; every attempt returns |
| `ssp_link` | `MCSspLink.cfg` | both ends hold the same key and IV through both key switches, and neither makes the other fail |
| `ssp_link_live` | `MCSspLinkLive.cfg` | a handshake that has begun completes |
| `salto_lock` | `MCSaltoLock.cfg` | what is loaded follows the state; a session talks to one lock, the connected one, with the detection its advertisement asks for, and hears only what that lock sent to it; between calls a link is up only to the lock the handle holds or to one that was given up, by a connect or a disconnect that failed or a call that was dropped; no scan is left on unless `stop_scan` failed or the search was dropped |
| `keystore` | `MCKeystore.cfg` | a keystore is broken only while it is being written or after a stop there; an OK of `keystore_check` is true of the files it looks at; `decrypt_mobile_key` gives the whole issued key or an error; a key survives being stored; however a function ends, nothing is released twice or before it is made, and one that ends with a value or a status of the library has released all that this crate can release |
| `codec` | `MCCodec.cfg` | a frame gives its payload back and shows damage; both checksums are the bitwise CRC of polynomial 0x8408; the digits of an identifier multiply back to eight bytes of the key id and its checksum; a field of any length is read back |
| `finished_on_every_path`, `error_means_no_answer`, `disconnected_means_down`, `ok_means_registrable` | `MC<property>.cfg` | four statements of the documentation that the code does not keep |

The runs of `Session`, `Pump`, `SspLink` and `SaltoLock` also check the invariant that
the proofs go by (`SessionInv`, `PumpInv`, `LinkInv`, `LockInv`), the strongest statement
about the reachable states that is written down here; the last three have the types of
their component among their conjuncts. `KeystoreInv` and `DecodeInv` are only proved.

Bounds. `MCSession` has one key, one random, three reports and two refused
reads. Three reports are enough for a non-final result, a final one and a later
final one. `MCKey` has a readable tag that needs security, and the audit tags.
`MCLastBlock` cycles through three IVs, so that an old IV can come round again.
Five pages are accepted, with every detection, with no random list and with
lists of none, one and two values; four are refused, each for its own reason.
`MCPump` allows four packets: step 1, step 2, a result and a CLOSE, or any other
four. `MCPumpShell` allows two packets that can both be queued, under all six
detections. `MCSspLink` allows nine requests, which is the handshake, an
installed key, data before and after it, a key installed again, and plain
requests in between, with three in flight (five requests for the liveness run). There
`LastBlock` is free, so equal IVs mean equal histories. `MCSaltoLock` has four
devices: a lock with a manufacturer record, one whose record is too short and
that is known by its service, one whose record says version 0, and no lock at
all; two packets wait in a stream, and nothing else is bounded, the caller may
go on for ever. `MCKeystore` has three pairs, so that two generations can be
mixed while a third one is registered; containers and keys are cut at ten
places, at least one in every field; the buffer holds 25 bytes, less than the
plaintext of a key, so that both a refused and a split decryption happen.
Programs run for ever. `MCCodec` starts at the empty input, at a key id, before
the end of a block, and before the lengths 128, 256 and 65536 of a TLV, and adds three
bytes, each a zero, a one, a marker or 255; it stops there, so
deadlock is not checked.

Fairness. `FairPumpSpec` has weak fairness of the pump's own steps, because the
executor polls a ready task, and of `DeadlinePasses`, because the clock moves.
There is no fairness of the lock. `AttemptReturns` relies on a bounded number
of packets: every v0200 packet re-arms the timer and nothing in the code bounds
the whole attempt. `FairSpec` of `SspLink` has weak fairness of both ends'
answering and of the lock's next handshake message, over a reliable link.

### Disagreements with the documentation

* `FinishedOnEveryPath` (a defect): `run_session` skips `Phase::Finished` when
  the session is already finished. A session is finished as soon as `poll`
  returns, so when the write of the CLOSE reply fails, the phase action behind
  it in the list is lost and nobody reports it.
* `ErrorMeansNoAnswer`: after the verdict was latched, a failing write or a later
  bad packet makes the attempt return that error and drops the verdict.
* `DisconnectedMeansDown` (a defect): `disconnect` of the transport takes the
  handle before it awaits anything. When the call then fails, a second
  `disconnect` finds no handle and returns Ok while the link is up.
* `OkMeansRegistrable`: `keystore_check` never reads `virgil_public_key.b64`, the
  file that is registered. After a `--force` that stopped before that file it
  says OK, and the key that would be registered is that of the old pair.

These have no run of their own; the passing property named with each states what the
code does, and not what the comment says:

* A link is lost without any failing call (a defect; `LinksAccountedFor`). A device
  without the SALTO service is disconnected from before `connect` returns
  (`btleplug_impl.rs:90`). One that has the service and lacks a characteristic is not:
  `find_characteristic` returns through `?` at `:96` or `:97`, after the link is up and
  before the handle is stored, so `is_connected` says no and `disconnect` finds nothing
  to take down. The property says that such a lock is among the ones given up, as after
  a failed call, and that no link is lost in any other way.
* Version 0 (`DetectionFitsLock`): `lock.rs:46-48` and `:63-64` say that Auto announces
  to every lock that advertises a manufacturer record, and that version 0 means that
  there is none. A record may say version 0, as that of the third device in
  `MCSaltoLock` does, and its lock is then only read.
* The polynomial of `crc16_ssp` (`ChecksumsAreCrc`): `crc.rs:1` and `:4` name 0x1081. The
  code computes the reflected CRC of 0x8408, as `crc16_hasher` does; 0x1081 (4225) is
  its constant per nibble.
* The alphabet, which the model abstracts (a digit is a number): `base62.rs:6` says
  0-9A-Za-z, while `BASE62_CHARS` has the small letters first.

That the objects in `Lasting` stay until the `Store` goes is no disagreement: `lib.rs:237`
calls the deletes "hygiene rather than necessity".

## Proofs

Every theorem is proved for all values of the constants. The assumptions are the
named ASSUMEs of the modules, which TLC evaluates on the instances: the constants
have their types, and `None` is none of the values it stands beside. Those that
say more: `LinkAssumption` has the lock send only commands the phone knows;
`SaltoLockAssumption` closes `Keys` under the writes an application makes, and
`TransportAssumption` gives the queue of notifications room for one. Four theorems have
a hypothesis of their own, `KnIsUnique`, `KeysAreStorable` (two of them) and
`InputsStayShort` below, and a run checks each of them on its instance.

| Theorems | Invariant | Of |
|---|---|---|
| `SessionInvariant`, `TypeCorrect`, `VerdictLatched`, `HandshakeFirst`, `VerdictReachesCaller`, `KnLeavesSealed`; `SilentAfterDone`, `SessionIsKept` (actions) | `SessionInv` | `Session` |
| `ReplayNeedsOneValue` | `ShellInv` | `WasmShell` |
| `PumpInvariant`, `PumpTypes`, `PumpReturnsVerdict`, `PumpKeepsContract`, `PumpPhasesInOrder`, `PumpAnswersFirst`; `NoiseKeepsTimer` (action); `PumpImplementsAttempt` (refinement) | `PumpInv` | `Pump` |
| `LinkInvariant`, `LinkTypes`, `StaysInStep`, `AgreeWhenIdle`, `SessionKeyIsFresh` | `LinkInv` | `SspLink` |
| `LockInvariant`, `LockTypes`, `StateIsTruthful`, `TalksToOneLock`, `HearsFromTheStart`, `AnnouncesToTheRightLock`, `NoLinkIsLost`, `NoScanIsLeftOn` | `LockInv` | `SaltoLock` |
| `KeystoreInvariant`, `KeystoreTypes`, `KeystoreHeapBalanced`, `OnlyWritingBreaks`, `CheckIsTruthful`, `DecodeGivesTheIssuedKey`, `KeySurvives` | `KeystoreInv`, `DecodeInv`, `StorageInv` | `Keystore` |
| `InputIsBytes`, `InputChecksumsAreCrc`, `FrameReadsBack`, `FrameShowsDamage`, `FieldsComeBack`, `IdentifierComesBack` | `CodecInv` | `Codec` |
| `PaddingComesOff`, `LengthReadsBack` | none | `Padding`, `Tlv` |

`CoreProofs` has the lemmas about one packet: every handler of SSP and Justin
keeps the types, keeps an open session open, and moves the remembered audit
result exactly when it answers success to a write of the audit tag.
`HandlePacketGood` collects them.

**Session.** `LatchedIsFirstFinal` is not inductive: `poll` latches from what
Justin remembers, so one must know that this is the last result reported
(`AuditIsLastReported`); then either a packet recorded a result and the latch
sees exactly that one, or it recorded none and the latch has nothing new to see
(`LatchIdle`). `ExchangingIsAuthenticated` needs to know that no packet leaves
an open session. `NothingBeforeV0200` is needed because starting the flow
replaces the stack. `VerdictReachesCaller` follows the latch through every way a
poll can finish. `KnLeavesSealed` is about bytes and so needs `KnIsUnique`: the
sixteen bytes of kN are in no other tag, and the lock writes them into none. Its
invariant says that no tag that can be read without security ever holds them.

**Browser.** Besides `SessionInv`, `ShellInv` says that once a value of the list has
been used, the session is over or SSP has left `Ready` (`ChallengeSent`). That is not
true of SSP alone, where a failed proof goes back to `Ready`; it needs that a packet
answered with an error ends the session. So the lemmas follow one packet: only
step 1 draws, it draws in `Ready` alone and leaves it (`DrawIsFirst`,
`Step1Advances`), and no packet that is answered without an error comes back to
`Ready` (`ControlPacketAnswered`, `DataPacketStaysPut`).

**Pump.** The session is polled only when the action list is empty, and what it then
puts there is known: `ListFits` says which actions can be in the list and in which
order, `PhasesFit` that the phases still in it come after the ones reported. A
timer is armed or still ahead in the list wherever the pump can wait (`TimersFit`),
which is what `ContractKept` comes from. `WritesFit` counts: every notification
taken from the queue is a write made, a write in the list, or a poll to come. The
refinement maps every step of `Pump` to a step of `Attempt` or to a stutter: the
verdict it returns is the latched one because `SessionInv` holds inside.

**Link.** `EndsAgree` says nothing while packets are under way, so the invariant has
to say what is in them. `OneExchange`: at most one packet on either link is not an
aside (a plain request, which touches neither key nor IV), and it is the one the lock
waits on. If it is still a request, the phone can open it and will then hold
the IV the lock holds already; if it is a reply, the phone holds already what the
lock will hold. The key may change on either side of that packet, which is where
the two switches differ. Nothing is assumed of `LastBlock`.

**SaltoLock.** The transport's fields are at every await the ones of the method that
waits (`AwaitFitsCall`, `TargetFits`), and what it holds belongs to the lock the
handle names (`HandleFits`). That is not enough for `OneConversation`, as a dropped
`open` leaves its stream behind: `forsaken` says so, and `HeardInOrder` and
`NothingBetweenSessions` say what a queue holds otherwise. `LinksFit` and `ScanFits` say
at each await which link may be up and whether the adapter may scan. `stranded` are the
locks a call gave up: a connect that ended in an error or a timeout (but for a missing
service, where the link is taken down), a disconnect that failed, a dropped call. It is
no excuse for the links of other locks, nor for this one once it is connected to again.

**Keystore.** `HeapFits` knows, for every method of every function, exactly which of the
objects that can be released are held when it is called; a path that ends in a value or
a status then releases a subset of that, and all of it but what Drop releases. Of what
is never released (`Lasting`) it says nothing more, and after an early return by `?`
only that nothing was released which was not held. `GenFits` says that `keystore_gen` has all
six contents of one generation before it writes, and has written the files before
the next one; `CheckFits` that `keystore_check` derives from the key it unwrapped.
`DecodeInv` follows a container: it was sealed to the registered device, wherever it
was cut, so if `ParseContainer` answers, it has found that device's name
(`ParsedNames`: the first marker with 32 bytes after it is the sealed one, in each of
the three encodings of the length). The cipher starts only if that is the name of the
key in `sdk.txt`, `finish` authenticates the whole, and the two buffers join to it
(`Rejoined`).

What `from_bytes` makes of it is `KeyReadsBack`, for every key and every order of its
tags: `to_bytes` writes one field after the other, the parser finds them all, or those
that are whole before a cut (`FieldsReadBack`), and the loop of `from_bytes`, which is a
recursive function like the parser, has after each of them exactly the part of the key
that it has read (`TakeStored`, `StoredReadTo`); eight bits are the permissions they were
made of (`PermissionsReadBack`), and the order has every tag because it has each only
once (`OrdersAreComplete`). `StorageInv` adds to `DecodeInv` that what `mkey_decode`
printed is such an encoding of the issued key, which needs that the audit tags that were
added on loading are not stored again (`StoredAgain`). `DecodeGivesTheIssuedKey` and
`KeySurvives` have the hypothesis `KeysAreStorable`: the tags of an issued key are below
31, where one byte holds a tag number, none is one of the three that `to_bytes` leaves
out, kN has 16 bytes, and no length passes the three bytes a length has.

**Codec.** The state is only the input, so the invariant says that it is bytes, and the
theorems rest on lemmas about every sequence of bytes. The library's induction
theorems cannot be used, as they take an operator; `SetInduction` is induction about a
*set* of numbers, from the well-founded order of the naturals, and `FoldExists` derives
from it that a fold has the values its definition says (the community modules define
folds by CHOOSE, so that there is such a function has to be proved). `StepFold` and
`StatesOfSteps` turn a fold over a sequence into the list of its states, and a lemma
about a fold then follows those.

* `InputChecksumsAreCrc`: the register is linear in exclusive or (`HalfXor`, `ShiftXor`),
  and a nibble that is shifted through it leaves what the code's table of sixteen values,
  or its constant per nibble, says; so both short cuts are the CRC taken bit by bit, for
  every start value.
* `FrameReadsBack`: `PaddingComesOff` (where the last non-zero byte is) and the two bytes
  of the checksum.
* `FrameShowsDamage`: a step of the register is injective in the register and in the
  byte, so one changed byte of the payload changes the checksum, and a changed byte of
  the checksum is not the one computed. Damage to the padding moves the place where it
  comes off; but data followed by its checksum leaves the register empty
  (`ChecksumEmpties`), and a marker after that, with any zeros, leaves it not
  empty (`MarkerStays`), so that what is left never ends in its own checksum.
* `LengthReadsBack`: for every length below 2^24 `LengthAt` reads what `EncodeLength` wrote,
  whatever follows it. `FieldsComeBack`: the parser, which is a recursive function on the
  rest of its data, is the same wherever that rest stands (`ParseShift`); it takes
  one field off the front (`ParseFirst`) and nothing from a field that is cut
  (`ParseCut`). The hypothesis `InputsStayShort` keeps the input below 2^24 bytes,
  beyond which `encode_tlv` drops the upper part of the length.
* `IdentifierComesBack`: a round of `encode_base62` divides exactly (`DivideIs`: in each
  place the remainder before it and the byte are the quotient's byte and the remainder
  after it), so that multiplying the quotient by 62 and adding the remainder carries
  those same remainders from the last byte to the first (`TakeDigitBack`). What
  `SkipZeros` drops is zeros in front, which stay zeros (`SkipZerosIs`). After every round
  the digits so far lead from what is left to the value (`RoundKeeps`), and two rounds for
  a byte leave nothing: `Left` falls with each of them (`QuotientIsLess`), as a quotient
  is a byte shorter or begins with at most 4.

Only model-checked:

* Liveness (`AttemptReturns`, `HandshakeCompletes`) and what it needs of fairness and
  ENABLED: out of the prover's reach.
* The four violated statements: a proof cannot show a violation.

## Not modelled

* The vendored Virgil library, the stubs it imports (`setup_linker`), loading its
  exports (`Funcs`), and the names of its status codes beyond "it failed".
* AES, the operating system's random source, and the btleplug, wasmtime and RSA
  crates: libraries.
* How actions are laid out as JavaScript objects (`wire.rs`), how outcomes, errors
  and results are named and printed: presentation.
* The facade `src/sdk/mod.rs`: `decode` is `decrypt_mobile_key`, `open` is connect,
  authenticate and open in a row, which `SaltoLock` does among everything else.
* `SecureProtocolManager::reset`, `unwrap_data`, `JustinProtocolManager::reset` and
  `MobileKey::new`: nothing calls them.
* In `SaltoLock` the injected random source and the verdict of the session; in
  `Btleplug` the filter and the write type.
* In `Keystore` two programs at once on one directory: the examples do not lock
  it, and nothing says that they may be run that way.
* Tags above 30 in a mobile key: none comes out of `from_bytes`.

## Plan

1. Proofs: what a decoder does with a container or a key from anywhere, not only
   from the backend; an abstract "connection" specification of `SaltoLock` and its
   refinement.
2. `SaltoLock` composed with `Session`: the random source, and a session that
   starts with notifications left in the queue.
3. `Justin` with a real key store.
