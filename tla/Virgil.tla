------------------------------- MODULE Virgil -------------------------------
(***************************************************************************)
(* Provisioning (mkey-sdk-virgil/src/lib.rs): the functions that make a    *)
(* device's keys and that turn the mkey_data an account was issued into a  *)
(* mobile key. The cryptography runs in a vendored WebAssembly library     *)
(* (external); what is modelled is what this crate does around it: which   *)
(* call comes next, what each way of failing returns, and which of the     *)
(* library's objects are still held then.                                  *)
(*                                                                         *)
(* Each function is a sequence of runtime methods, and each method a step  *)
(* with two ways to fail: a call reports a status, or a `?` returns early  *)
(* (a trap, a null pointer, a failed read or write of its memory). Keys    *)
(* are symbolic: pair g belongs to the g-th key generation.                *)
(***************************************************************************)
EXTENDS KeyCodec

CONSTANTS
  Issued,     \* the mobile key the backend issues to pair g
  Capacity    \* what a decryption buffer holds at most (10000 in the code)

ASSUME VirgilAssumption == /\ \A g \in DOMAIN Issued : IsMobileKey(Issued[g])
                           /\ Capacity \in Nat \ {0}

Pairs == DOMAIN Issued

VARIABLES
  call,   \* the function that runs and the step it is at, or Idle
  regs,   \* its arguments and locals
  live,   \* what is allocated in the library's heap, or was when it went
  misuse, \* was an object released that was not held?
  ret     \* what the last function returned: [ok |-> ...] or [err |-> ...]

virgilVars == <<call, regs, live, misuse, ret>>

-----------------------------------------------------------------------------
\* Keys and files as the library and the RSA crate see them: what kind of
\* encoding it is, the pair it holds and, when it is wrapped, the RSA key.
Rsa(g)        == [kind |-> "rsa", of |-> g]
Sec1(g)       == [kind |-> "sec1", of |-> g]
Spki(g)       == [kind |-> "spki", of |-> g]
Wrapped(g, r) == [kind |-> "wrapped", of |-> g, to |-> r]
Torn          == [kind |-> "torn", of |-> 0]   \* cut short, empty included

Fails(err) == [err |-> err]
Gives(val) == [ok |-> val]

\* Mutant: the key is stored as it is.
StoreInTheClear(rsa, der) == Gives(der)

\* encrypt_virgil_private_key: any RSA key will do, its public half is used.
EncryptPrivateKey(rsa, der) ==
  IF rsa.kind = "rsa" THEN Gives(Wrapped(der.of, rsa.of)) ELSE Fails("RsaDecryption")

\* decrypt_virgil_private_key: the wrong key and a damaged blob look alike.
DecryptPrivateKey(rsa, blob) ==
  IF rsa.kind = "rsa" /\ blob.kind = "wrapped" /\ blob.to = rsa.of
  THEN Gives(Sec1(blob.of)) ELSE Fails("RsaDecryption")

-----------------------------------------------------------------------------
\* The container: a signature header and its marker, then a DER SEQUENCE that
\* names the recipient, then the ciphertext. Here it is whether the marker is
\* there, and the bytes after it.
Container(marker, bytes) == [marker |-> marker, bytes |-> bytes]

RecipientField(g) == <<160, 34, 4, 32>> \o [i \in 1..32 |-> g]

\* What the backend encrypts: the key, its tags in some order.
Encodings(g) ==
  {ToBytes(Issued[g], order) : order \in SetToSeqs(StoredTags(Issued[g]))}

\* Every way the backend may encode the length of the recipient information.
SealedTo(g) ==
  LET info == RecipientField(g)
      n    == Len(info)
      seal == {Append(b, 0) : b \in Encodings(g)}   \* it ends in an authentication tag
  IN  UNION {{<<48>> \o form \o info \o b : form \in {<<n>>, <<129, n>>, <<130, 0, n>>}} : b \in seal}

\* extract_recipient_id: the first A0 22 04 20 with 32 bytes after it.
RecipientId(info) ==
  LET starts == {i \in 1..Len(info) - 35 : SubSeq(info, i, i + 3) = <<160, 34, 4, 32>>}
  IN  IF starts = {} THEN None
      ELSE LET i == CHOOSE i \in starts : \A j \in starts : i <= j
           IN  SubSeq(info, i + 4, i + 35)

\* parse_virgil_container. Nothing bounds an index by the length of the data:
\* a container cut within the SEQUENCE panics.
ParseContainer(container) ==
  LET b == container.bytes
      n == Len(b)
      Split(header, length) ==
        LET end == header + length
            id  == RecipientId(SubSeq(b, 1, end))
        IN  IF end > n THEN Fails("panic")
            ELSE IF id = None THEN Fails("Container")
            ELSE Gives([info |-> SubSeq(b, 1, end), id |-> id,
                        content |-> SubSeq(b, end + 1, n)])
  IN  IF ~container.marker \/ n = 0 THEN Fails("Container")
      ELSE IF b[1] # 48 THEN Fails("Container")
      ELSE IF n = 1 THEN Fails("panic")
      ELSE IF b[2] < 128 THEN Split(2, b[2])
      ELSE IF b[2] \notin {129, 130} THEN Fails("Container")
      ELSE IF n < b[2] - 126 THEN Fails("panic")
      ELSE IF b[2] = 129 THEN Split(3, b[3])
      ELSE Split(4, b[3] * 256 + b[4])

-----------------------------------------------------------------------------
\* A function is the methods it calls, in order.
Methods == [
  generate  |-> <<"runtime", "generate_private_key", "export_private_key",
                  "extract_public_key", "export_public_key">>,
  derive    |-> <<"runtime", "import_private_key", "extract_public_key", "export_public_key">>,
  roundtrip |-> <<"runtime", "import_public_key", "export_public_key">>,
  decrypt   |-> <<"parse", "unwrap", "runtime", "import_private_key",
                  "cipher", "start", "process", "finish", "take">>]

NoCall == [fn |-> None, at |-> 0]
NoRegs == [arg |-> None, der |-> None, key |-> None, parts |-> None, out |-> <<>>, rest |-> <<>>]

VirgilInit ==
  /\ call = NoCall
  /\ regs = NoRegs
  /\ live = {}
  /\ misuse = FALSE
  /\ ret = None

Idle       == call.fn = None
At(method) == ~Idle /\ Methods[call.fn][call.at] = method

\* The caller enters a function: what the last one left went with its Store.
Enter(fn, arg) ==
  /\ Idle
  /\ call' = [fn |-> fn, at |-> 1]
  /\ regs' = [NoRegs EXCEPT !.arg = arg]
  /\ live' = {}
  /\ ret' = None
  /\ UNCHANGED misuse

\* A method returns: what it made is held, the next one runs.
Goes(r, made) ==
  /\ call' = [call EXCEPT !.at = @ + 1]
  /\ regs' = r
  /\ live' = live \cup made
  /\ UNCHANGED <<misuse, ret>>

Runtime == {"rng", "key_provider"}   \* what Drop of VirgilRuntime deletes

\* The function returns. It releases what it names, then Drop deletes the key
\* provider and the RNG if they were made.
Ends(result, made, released) ==
  LET held == live \cup made
  IN  /\ call' = NoCall
      /\ regs' = NoRegs
      /\ live' = (held \ released) \ Runtime
      /\ misuse' = (misuse \/ ~(released \subseteq held))
      /\ ret' = result

\* `?` on a call that trapped, a null pointer, a malloc that failed, or a read
\* or write outside the memory: the method had made the first n of what it
\* makes, and nothing is released. (Fails("status") and Fails("empty") are
\* Error::Wasm in the code as well.)
ReturnsEarly(order) ==
  \E n \in 0..Len(order) : Ends(Fails("wasm"), {order[i] : i \in 1..n}, {})

-----------------------------------------------------------------------------
\* VirgilRuntime::new.
NewRuntime ==
  /\ At("runtime")
  /\ \/ Goes(regs, {"error_ctx"} \cup Runtime)
     \/ \E made \in {{"error_ctx", "rng"}, {"error_ctx"} \cup Runtime} :
          Ends(Fails("status"), made, {})
     \/ ReturnsEarly(<<"error_ctx", "rng", "key_provider">>)

\* The status may come with a key as well as without.
GeneratePrivateKey ==
  /\ At("generate_private_key")
  /\ \/ Goes([regs EXCEPT !.key = regs.arg], {"private_key"})
     \/ \E made \in {{}, {"private_key"}} : Ends(Fails("status"), made, {})
     \/ ReturnsEarly(<<"private_key">>)

\* The DER a function imports: its argument, or what it just unwrapped.
Imported == IF call.fn = "decrypt" THEN regs.der ELSE regs.arg

\* import_private_key, import_public_key: a copy of the DER, then the key, of
\* only the encoding Virgil writes.
Import(kind, key) ==
  \/ /\ Imported.kind = kind
     /\ Goes([regs EXCEPT !.key = Imported.of], {"der", key})
  \/ \E made \in {{"der"}, {"der", key}} : Ends(Fails("status"), made, {})
  \/ ReturnsEarly(<<"der", key>>)

ImportPrivateKey == At("import_private_key") /\ Import("sec1", "private_key")
ImportPublicKey  == At("import_public_key")  /\ Import("spki", "public_key")

\* export_private_key: only generate calls it, and keeps the result.
ExportFails ==
  \/ Ends(Fails("status"), {"export_buffer"}, {"export_buffer"})
  \/ ReturnsEarly(<<"export_buffer">>)

ExportPrivateKey ==
  /\ At("export_private_key")
  /\ \/ Goes([regs EXCEPT !.der = Sec1(regs.key)], {})
     \/ ExportFails

ExtractPublicKey ==
  /\ At("extract_public_key")
  /\ Goes(regs, {"public_key"}) \/ ReturnsEarly(<<>>)

\* export_public_key ends every function that calls it.
ExportPublicKey ==
  /\ At("export_public_key")
  /\ \/ Ends(Gives(IF call.fn = "generate" THEN [private |-> regs.der, public |-> Spki(regs.key)]
                                           ELSE Spki(regs.key)), {}, {})
     \/ ExportFails

-----------------------------------------------------------------------------
\* decrypt_mobile_key: the container, then the private key, then the runtime.
Parse ==
  /\ At("parse")
  /\ LET c == ParseContainer(regs.arg.container)
     IN  IF "ok" \in DOMAIN c THEN Goes([regs EXCEPT !.parts = c.ok], {})
                              ELSE Ends(c, {}, {})

Unwrap ==
  /\ At("unwrap")
  /\ LET k == DecryptPrivateKey(regs.arg.rsa, regs.arg.blob)
     IN  IF "ok" \in DOMAIN k THEN Goes([regs EXCEPT !.der = k.ok], {})
                              ELSE Ends(k, {}, {})

NewCipher ==
  /\ At("cipher")
  /\ Goes(regs, {"cipher"}) \/ ReturnsEarly(<<"cipher">>)

\* start_decryption_with_key: the recipient must be the one whose key this is.
Start ==
  /\ At("start")
  /\ \/ /\ regs.parts.id = [i \in 1..32 |-> regs.key]
        /\ Goes(regs, {"recipient_id", "message_info"})
     \/ Ends(Fails("status"), {"recipient_id", "message_info"}, {"cipher"})
     \/ ReturnsEarly(<<"recipient_id", "message_info">>)

\* process_decryption: some of the plaintext comes out, not yet authentic.
Plaintext == SubSeq(regs.parts.content, 1, Len(regs.parts.content) - 1)

Process ==
  /\ At("process")
  /\ \/ \E n \in 0..Len(Plaintext) :
          /\ n <= Capacity
          /\ Goes([regs EXCEPT !.out = SubSeq(Plaintext, 1, n)], {"content", "process_buffer"})
     \/ Ends(Fails("status"), {"content", "process_buffer"}, {"process_buffer", "cipher"})
     \/ ReturnsEarly(<<"content", "process_buffer">>)

\* finish_decryption: the rest comes out and the tag is checked.
Remaining == SubSeq(Plaintext, Len(regs.out) + 1, Len(Plaintext))
Authentic == regs.parts.content \in {Append(b, 0) : b \in Encodings(regs.key)}

\* Mutants: the status of finish is not looked at; its error path forgets a
\* buffer.
FinishUnchecked ==
  Goes([regs EXCEPT !.rest = IF Authentic THEN Remaining ELSE <<>>], {"finish_buffer"})
FinishForgets ==
  Ends(Fails("status"), {"finish_buffer"}, {"finish_buffer", "cipher"})

FinishSucceeds ==
  /\ Authentic
  /\ Len(Remaining) <= Capacity
  /\ Goes([regs EXCEPT !.rest = Remaining], {"finish_buffer"})

FinishFails ==
  Ends(Fails("status"), {"finish_buffer"}, {"finish_buffer", "process_buffer", "cipher"})

Finish ==
  /\ At("finish")
  /\ \/ FinishSucceeds
     \/ FinishFails
     \/ ReturnsEarly(<<"finish_buffer">>)

\* take_buffer twice, then the bytes must be a mobile key.
Take ==
  /\ At("take")
  /\ LET decrypted == regs.out \o regs.rest
         key       == FromBytes(decrypted)
     IN  \/ Ends(IF decrypted = <<>> THEN Fails("empty")
                 ELSE IF "ok" \in DOMAIN key THEN key ELSE Fails("Key"),
                 {}, {"process_buffer", "finish_buffer", "cipher"})
         \/ \E released \in {{}, {"process_buffer"}} : Ends(Fails("wasm"), {}, released)

VirgilNext ==
  \/ NewRuntime \/ GeneratePrivateKey \/ ImportPrivateKey \/ ImportPublicKey
  \/ ExportPrivateKey \/ ExtractPublicKey \/ ExportPublicKey
  \/ Parse \/ Unwrap \/ NewCipher \/ Start \/ Process \/ Finish \/ Take

-----------------------------------------------------------------------------
\* What no path of this crate releases (Funcs has no delete for it): copies of
\* what the library reads, its keys and the error context.
Lasting == {"error_ctx", "private_key", "public_key",
            "der", "recipient_id", "message_info", "content"}

\* However a function ends, nothing is released twice or before it is made.
\* When it ends with a value or with a status of the library, all that can be
\* released is: the cipher, the buffers, the RNG and the key provider; what is
\* left goes with the Store. Three error paths of decrypt_mobile_key each name
\* a list of their own. An early return by `?` leaves more.
HeapBalanced ==
  /\ ~misuse
  /\ Idle /\ ret # Fails("wasm") => live \subseteq Lasting

-----------------------------------------------------------------------------
(* Why it is: the inductive invariant *)

Objects == Runtime \cup Lasting \cup {"cipher", "export_buffer", "process_buffer", "finish_buffer"}

\* What can be released when a method is called.
Held(method) ==
  CASE method \in {"parse", "unwrap", "runtime"} -> {}
    [] method \in {"start", "process"}           -> Runtime \cup {"cipher"}
    [] method = "finish" -> Runtime \cup {"cipher", "process_buffer"}
    [] method = "take"   -> Runtime \cup {"cipher", "process_buffer", "finish_buffer"}
    [] OTHER             -> Runtime

\* Function fn is running, and its first n methods have returned.
Past(fn, n) == call.fn = fn /\ call.at > n

\* What generate and derive have worked out so far.
KeysFit ==
  /\ Past("generate", 2) => regs.key = regs.arg
  /\ Past("generate", 3) => regs.der = Sec1(regs.arg)
  /\ Past("derive", 2)   => regs.arg.kind = "sec1" /\ regs.key = regs.arg.of

\* What is held, whichever method a function is at.
HeapFits ==
  /\ call = [fn |-> call.fn, at |-> call.at]
  /\ DOMAIN regs = DOMAIN NoRegs
  /\ ~misuse /\ live \subseteq Objects
  /\ IF Idle THEN live \subseteq Lasting \/ ret = Fails("wasm")
     ELSE /\ call.fn \in DOMAIN Methods /\ call.at \in DOMAIN Methods[call.fn]
          /\ live \ Lasting = Held(Methods[call.fn][call.at])

VirgilInv == HeapFits /\ KeysFit

\* What decrypt has worked out so far: the key of the blob, then that the
\* container is for that key, then as much of the plaintext as is there.
DecryptFits ==
  /\ Past("decrypt", 2) => DecryptPrivateKey(regs.arg.rsa, regs.arg.blob) = Gives(regs.der)
  /\ Past("decrypt", 4) => regs.key = regs.der.of
  /\ Past("decrypt", 6) => regs.parts.id = [i \in 1..32 |-> regs.key]
  /\ Past("decrypt", 7) => \E n \in 0..Len(Plaintext) : regs.out = SubSeq(Plaintext, 1, n)
  /\ Past("decrypt", 8) => Authentic /\ regs.rest = Remaining
=============================================================================
