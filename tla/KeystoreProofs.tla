--------------------------- MODULE KeystoreProofs ---------------------------
(***************************************************************************)
(* The keystore programs are correct for every number of key generations,  *)
(* every issued key and every place where one of them is stopped:          *)
(* KeystoreInv is inductive together with the properties it explains.      *)
(***************************************************************************)
EXTENDS Keystore, CoreProofs

-----------------------------------------------------------------------------
(* The tables *)

LEMMA MethodTable ==
  /\ DOMAIN Methods = {"generate", "derive", "roundtrip", "decrypt"}
  /\ Methods["generate"] = <<"runtime", "generate_private_key", "export_private_key",
                             "extract_public_key", "export_public_key">>
  /\ Methods["derive"] = <<"runtime", "import_private_key", "extract_public_key",
                           "export_public_key">>
  /\ Methods["roundtrip"] = <<"runtime", "import_public_key", "export_public_key">>
  /\ Methods["decrypt"] = <<"parse", "unwrap", "runtime", "import_private_key",
                            "cipher", "start", "process", "finish", "take">>
BY DEF Methods

\* Where a function is when a method is called.
LEMMA Places ==
  ASSUME NEW fn \in DOMAIN Methods, NEW at \in DOMAIN Methods[fn]
  PROVE  LET m == Methods[fn][at] IN
         \/ fn = "generate" /\ \/ at = 1 /\ m = "runtime"
                               \/ at = 2 /\ m = "generate_private_key"
                               \/ at = 3 /\ m = "export_private_key"
                               \/ at = 4 /\ m = "extract_public_key"
                               \/ at = 5 /\ m = "export_public_key"
         \/ fn = "derive" /\ \/ at = 1 /\ m = "runtime"
                             \/ at = 2 /\ m = "import_private_key"
                             \/ at = 3 /\ m = "extract_public_key"
                             \/ at = 4 /\ m = "export_public_key"
         \/ fn = "roundtrip" /\ \/ at = 1 /\ m = "runtime"
                                \/ at = 2 /\ m = "import_public_key"
                                \/ at = 3 /\ m = "export_public_key"
         \/ fn = "decrypt" /\ \/ at = 1 /\ m = "parse"
                              \/ at = 2 /\ m = "unwrap"
                              \/ at = 3 /\ m = "runtime"
                              \/ at = 4 /\ m = "import_private_key"
                              \/ at = 5 /\ m = "cipher"
                              \/ at = 6 /\ m = "start"
                              \/ at = 7 /\ m = "process"
                              \/ at = 8 /\ m = "finish"
                              \/ at = 9 /\ m = "take"
<1>1. CASE fn = "generate"
  BY <1>1, MethodTable
<1>2. CASE fn = "derive"
  BY <1>2, MethodTable
<1>3. CASE fn = "roundtrip"
  BY <1>3, MethodTable
<1>4. CASE fn = "decrypt"
  BY <1>4, MethodTable
<1> QED BY <1>1, <1>2, <1>3, <1>4, MethodTable

LEMMA FileTable ==
  /\ DOMAIN Files = 1..6 /\ Len(Files) = 6
  /\ FileNames = {"private_key.der", "sdk.txt", "virgil_private_sec1.der",
                  "virgil_public_spki.der", "virgil_public_key.b64", "virgil_public_key.pem"}
  /\ Files[1] = "private_key.der"
  /\ \A i, j \in 1..6 : i # j => Files[i] # Files[j]
<1>1. DOMAIN Files = 1..6 /\ Len(Files) = 6
  BY DEF Files
<1>2. /\ Files[1] = "private_key.der" /\ Files[2] = "sdk.txt"
      /\ Files[3] = "virgil_private_sec1.der" /\ Files[4] = "virgil_public_spki.der"
      /\ Files[5] = "virgil_public_key.b64" /\ Files[6] = "virgil_public_key.pem"
  BY DEF Files
<1>3. FileNames = {Files[1], Files[2], Files[3], Files[4], Files[5], Files[6]}
  BY <1>1 DEF FileNames
<1> QED BY <1>1, <1>2, <1>3

LEMMA ContentIs ==
  ASSUME NEW g
  PROVE  /\ DOMAIN Content(g) = FileNames
         /\ Content(g)["private_key.der"] = Rsa(g)
         /\ Content(g)["sdk.txt"] = Wrapped(g, g)
         /\ Content(g)["virgil_private_sec1.der"] = Sec1(g)
         /\ Content(g)["virgil_public_spki.der"] = Spki(g)
         /\ Content(g)["virgil_public_key.b64"] = Spki(g)
         /\ Content(g)["virgil_public_key.pem"] = Spki(g)
BY FileTable DEF Content

-----------------------------------------------------------------------------
(* The functions of the library *)

\* What can be released of what a method makes.
Made(m) ==
  CASE m = "runtime" -> Runtime
    [] m = "cipher"  -> {"cipher"}
    [] m = "process" -> {"process_buffer"}
    [] m = "finish"  -> {"finish_buffer"}
    [] OTHER         -> {}

\* A function that is running is at one of its methods.
LEMMA Running ==
  ASSUME HeapFits, NEW m, At(m)
  PROVE  /\ call.fn \in DOMAIN Methods /\ call.at \in DOMAIN Methods[call.fn]
         /\ m = Methods[call.fn][call.at] /\ ~Idle
         /\ live \ Lasting = Held(m) /\ live \subseteq Objects
BY DEF HeapFits, At

LEMMA NextMethod ==
  ASSUME HeapFits, NEW m, At(m), m \notin {"export_public_key", "take"}
  PROVE  /\ call.at + 1 \in DOMAIN Methods[call.fn]
         /\ Held(Methods[call.fn][call.at + 1]) = Held(m) \cup Made(m)
<1>1. PICK fn, at : fn = call.fn /\ at = call.at
  OBVIOUS
<1>2. fn \in DOMAIN Methods /\ at \in DOMAIN Methods[fn] /\ m = Methods[fn][at]
  BY <1>1, Running
<1>3. /\ at \in Nat /\ at + 1 \in DOMAIN Methods[fn]
      /\ LET n == Methods[fn][at + 1] IN
         \/ m = "runtime" /\ n \in {"generate_private_key", "import_private_key", "import_public_key"}
         \/ m \in {"generate_private_key", "export_private_key", "extract_public_key",
                    "import_public_key"}
            /\ n \in {"export_private_key", "extract_public_key", "export_public_key"}
         \/ m = "import_private_key" /\ n \in {"extract_public_key", "cipher"}
         \/ m = "parse" /\ n = "unwrap"
         \/ m = "unwrap" /\ n = "runtime"
         \/ m = "cipher" /\ n = "start"
         \/ m = "start" /\ n = "process"
         \/ m = "process" /\ n = "finish"
         \/ m = "finish" /\ n = "take"
  <2>1. CASE fn = "generate"
    BY <1>2, <2>1, Places, MethodTable
  <2>2. CASE fn = "derive"
    BY <1>2, <2>2, Places, MethodTable
  <2>3. CASE fn = "roundtrip"
    BY <1>2, <2>3, Places, MethodTable
  <2>4. CASE fn = "decrypt"
    BY <1>2, <2>4, Places, MethodTable
  <2> QED BY <1>2, <2>1, <2>2, <2>3, <2>4, MethodTable
<1>4. PICK n : n = Methods[fn][at + 1]
  OBVIOUS
<1>5. Held(n) = Held(m) \cup Made(m)
  BY <1>3, <1>4 DEF Held, Made, Runtime
<1> QED BY <1>1, <1>3, <1>4, <1>5

\* A method returns, and what it made is held.
LEMMA GoesKeeps ==
  ASSUME HeapFits, NEW m, At(m), m \notin {"export_public_key", "take"},
         NEW r, DOMAIN r = DOMAIN NoRegs,
         NEW made \in SUBSET Objects, made \ Lasting = Made(m), Goes(r, made)
  PROVE  /\ HeapFits' /\ ~Idle' /\ call'.fn = call.fn /\ call'.at = call.at + 1
         /\ regs' = r /\ UNCHANGED ret
<1>1. /\ call' = [call EXCEPT !.at = @ + 1] /\ regs' = r /\ live' = live \cup made
      /\ UNCHANGED <<misuse, ret>>
  BY DEF Goes
<1>2. call = [fn |-> call.fn, at |-> call.at] /\ ~misuse
  BY DEF HeapFits
<1>3. call' = [fn |-> call.fn, at |-> call.at + 1]
  BY <1>1, <1>2
<1>4. call'.fn = call.fn /\ call'.at = call.at + 1 /\ call' = [fn |-> call'.fn, at |-> call'.at]
  BY <1>3
<1>5. ~Idle'
  BY <1>4, Running DEF Idle
<1>6. /\ call'.fn \in DOMAIN Methods /\ call'.at \in DOMAIN Methods[call'.fn]
      /\ Held(Methods[call'.fn][call'.at]) = Held(m) \cup Made(m)
  BY <1>1, <1>4, Running, NextMethod
<1>7. live' \subseteq Objects /\ live' \ Lasting = Held(m) \cup Made(m)
  BY <1>1, Running
<1> QED BY <1>1, <1>2, <1>4, <1>5, <1>6, <1>7 DEF HeapFits

\* A function returns: it releases only what it holds, and all of it that can be
\* released unless a `?` returns early.
LEMMA EndsKeeps ==
  ASSUME HeapFits, NEW result, NEW made, NEW released, Ends(result, made, released),
         made \subseteq Objects, released \subseteq live \cup made,
         result = Fails("wasm") \/ (live \cup made) \ released \subseteq Runtime \cup Lasting
  PROVE  HeapFits' /\ KeysFit' /\ Idle' /\ ret' = result
<1>1. /\ call' = NoCall /\ regs' = NoRegs /\ ret' = result
      /\ live' = ((live \cup made) \ released) \ Runtime
      /\ misuse' = (misuse \/ ~(released \subseteq (live \cup made)))
  BY DEF Ends
<1>2. ~misuse'
  BY <1>1 DEF HeapFits
<1>3. Idle' /\ call' = [fn |-> call'.fn, at |-> call'.at] /\ DOMAIN regs' = DOMAIN NoRegs
  BY <1>1 DEF NoCall, Idle
<1>4. live' \subseteq Lasting \/ ret' = Fails("wasm")
  BY <1>1
<1>5. KeysFit'
  BY <1>3, KeystoreAssumption DEF KeysFit, Past, Idle
<1>6. live' \subseteq Objects
  BY <1>1 DEF HeapFits
<1> QED BY <1>1, <1>2, <1>3, <1>4, <1>5, <1>6 DEF HeapFits

\* What a step of the library is to the program that waits for it: the function
\* goes on, or it ends in an error or with what it is for.
GoesOn == ~Idle' /\ call'.fn = call.fn /\ call'.at = call.at + 1 /\ regs'.arg = regs.arg

Result ==
  \/ call.fn = "generate" /\ ret' = Gives([private |-> Sec1(regs.arg), public |-> Spki(regs.arg)])
  \/ call.fn = "derive" /\ regs.arg.kind = "sec1" /\ ret' = Gives(Spki(regs.arg.of))
  \/ call.fn \in {"roundtrip", "decrypt"}

Ended == Idle' /\ (Answer(ret') => Result)

Progress == VirgilInv' /\ ~Idle /\ (GoesOn \/ Ended)

LEMMA FailsIsNoAnswer == \A e : ~Answer(Fails(e))
BY DEF Answer, Fails

LEMMA Failing ==
  ASSUME VirgilInv, NEW m, At(m), NEW result, NEW made, NEW released,
         Ends(result, made, released), ~Answer(result), made \subseteq Objects, released \subseteq live \cup made,
         result = Fails("wasm") \/ (live \cup made) \ released \subseteq Runtime \cup Lasting
  PROVE  Progress
<1>1. HeapFits' /\ KeysFit' /\ Idle' /\ ret' = result
  BY EndsKeeps DEF VirgilInv
<1> QED BY <1>1, Running DEF Progress, Ended, VirgilInv

\* Every null pointer and every trap is passed on as it is.
LEMMA Returning ==
  ASSUME VirgilInv, NEW m, At(m), NEW order \in Seq(Objects), ReturnsEarly(order)
  PROVE  Progress
<1>1. PICK n \in 0..Len(order) : Ends(Fails("wasm"), {order[i] : i \in 1..n}, {})
  BY DEF ReturnsEarly
<1>2. {order[i] : i \in 1..n} \subseteq Objects
  BY <1>1
<1> QED BY <1>1, <1>2, Failing, FailsIsNoAnswer

\* A status that is an error, where nothing else is held or all is released.
LEMMA StatusFailing ==
  ASSUME VirgilInv, NEW m, At(m), NEW made \in SUBSET Objects, NEW released,
         Ends(Fails("status"), made, released), released \subseteq live \cup made,
         (live \cup made) \ released \subseteq Runtime \cup Lasting
  PROVE  Progress
BY Failing, FailsIsNoAnswer

LEMMA GoingOn ==
  ASSUME VirgilInv, NEW m, At(m), m \notin {"export_public_key", "take"},
         NEW r, DOMAIN r = DOMAIN NoRegs,
         NEW made \in SUBSET Objects, made \ Lasting = Made(m), Goes(r, made),
         r.arg = regs.arg,
         m = "generate_private_key" => r.key = regs.arg,
         m = "import_private_key" /\ call.fn = "derive" =>
           regs.arg.kind = "sec1" /\ r.key = regs.arg.of,
         m \notin {"generate_private_key", "import_private_key", "import_public_key"} =>
           r.key = regs.key,
         m = "export_private_key" => r.der = Sec1(regs.key),
         m \notin {"export_private_key", "unwrap"} => r.der = regs.der
  PROVE  Progress /\ GoesOn /\ regs' = r
<1>1. /\ HeapFits' /\ ~Idle' /\ call'.fn = call.fn /\ call'.at = call.at + 1 /\ regs' = r
  BY GoesKeeps DEF VirgilInv
<1>2. PICK fn, at : fn = call.fn /\ at = call.at
  OBVIOUS
<1>3. fn \in DOMAIN Methods /\ at \in DOMAIN Methods[fn] /\ m = Methods[fn][at] /\ ~Idle
  BY <1>2, Running DEF VirgilInv
<1>4. \/ fn = "generate" /\ \/ at = 1 /\ m = "runtime"
                            \/ at = 2 /\ m = "generate_private_key"
                            \/ at = 3 /\ m = "export_private_key"
                            \/ at = 4 /\ m = "extract_public_key"
      \/ fn = "derive" /\ \/ at = 1 /\ m = "runtime"
                          \/ at = 2 /\ m = "import_private_key"
                          \/ at = 3 /\ m = "extract_public_key"
      \/ fn \in {"roundtrip", "decrypt"}
  BY <1>3, Places
<1>5. KeysFit'
  BY <1>1, <1>2, <1>4 DEF VirgilInv, KeysFit, Past
<1>6. GoesOn
  BY <1>1 DEF GoesOn
<1> QED BY <1>1, <1>3, <1>5, <1>6 DEF Progress, VirgilInv

-----------------------------------------------------------------------------
(* One lemma per method *)

LEMMA RegsAre ==
  ASSUME VirgilInv
  PROVE  /\ DOMAIN regs = DOMAIN NoRegs
         /\ DOMAIN NoRegs = {"arg", "der", "key", "parts", "out", "rest"}
BY DEF VirgilInv, HeapFits, NoRegs

\* What the methods make, in the order they make it.
LEMMA EndsInOrder ==
  /\ <<"error_ctx", "rng", "key_provider">> \in Seq(Objects)
  /\ <<>> \in Seq(Objects) /\ <<"private_key">> \in Seq(Objects)
  /\ <<"der", "private_key">> \in Seq(Objects) /\ <<"der", "public_key">> \in Seq(Objects)
  /\ <<"export_buffer">> \in Seq(Objects) /\ <<"cipher">> \in Seq(Objects)
  /\ <<"recipient_id", "message_info">> \in Seq(Objects)
  /\ <<"content", "process_buffer">> \in Seq(Objects) /\ <<"finish_buffer">> \in Seq(Objects)
<1>1. {"error_ctx", "rng", "key_provider", "private_key", "public_key", "der", "export_buffer",
       "cipher", "recipient_id", "message_info", "content", "process_buffer", "finish_buffer"}
        \subseteq Objects
  BY DEF Objects, Lasting, Runtime
<1> QED BY <1>1

LEMMA NewRuntimeKeeps == ASSUME VirgilInv, NewRuntime PROVE Progress
<1>1. At("runtime") /\ live \ Lasting = {}
  BY Running DEF NewRuntime, Held, VirgilInv
<1>2. CASE Goes(regs, {"error_ctx"} \cup Runtime)
  BY <1>1, <1>2, GoingOn, RegsAre DEF Made, Objects, Lasting, Runtime
<1>3. CASE \E made \in {{"error_ctx", "rng"}, {"error_ctx"} \cup Runtime} :
             Ends(Fails("status"), made, {})
  BY <1>1, <1>3, StatusFailing DEF Objects, Lasting, Runtime
<1>4. CASE ReturnsEarly(<<"error_ctx", "rng", "key_provider">>)
  BY <1>1, <1>4, Returning, EndsInOrder
<1> QED BY <1>2, <1>3, <1>4 DEF NewRuntime

LEMMA GeneratePrivateKeyKeeps == ASSUME VirgilInv, GeneratePrivateKey PROVE Progress
<1>1. At("generate_private_key") /\ live \ Lasting = Runtime
  BY Running DEF GeneratePrivateKey, Held, VirgilInv
<1>2. CASE Goes([regs EXCEPT !.key = regs.arg], {"private_key"})
  BY <1>1, <1>2, GoingOn, RegsAre DEF Made, Objects, Lasting, Runtime
<1>3. CASE \E made \in {{}, {"private_key"}} : Ends(Fails("status"), made, {})
  BY <1>1, <1>3, StatusFailing DEF Objects, Lasting, Runtime
<1>4. CASE ReturnsEarly(<<"private_key">>)
  BY <1>1, <1>4, Returning, EndsInOrder
<1> QED BY <1>2, <1>3, <1>4 DEF GeneratePrivateKey

LEMMA ImportKeeps == ASSUME VirgilInv, ImportPrivateKey \/ ImportPublicKey PROVE Progress
<1>1. PICK m \in {"import_private_key", "import_public_key"},
           kind \in {"sec1", "spki"}, key \in {"private_key", "public_key"} :
        At(m) /\ Import(kind, key) /\ (m = "import_private_key" => kind = "sec1")
  BY DEF ImportPrivateKey, ImportPublicKey
<1>2. live \ Lasting = Runtime
  BY <1>1, Running DEF Held, VirgilInv
<1>3. CASE Imported.kind = kind /\ Goes([regs EXCEPT !.key = Imported.of], {"der", key})
  <2>1. call.fn = "derive" => Imported = regs.arg
    BY DEF Imported
  <2> QED BY <1>1, <1>3, <2>1, GoingOn, RegsAre DEF Made, Objects, Lasting, Runtime
<1>4. CASE \E made \in {{"der"}, {"der", key}} : Ends(Fails("status"), made, {})
  BY <1>1, <1>2, <1>4, StatusFailing DEF Objects, Lasting, Runtime
<1>5. CASE ReturnsEarly(<<"der", key>>)
  BY <1>1, <1>5, Returning, EndsInOrder
<1> QED BY <1>1, <1>3, <1>4, <1>5 DEF Import

LEMMA ExportFailsKeeps ==
  ASSUME VirgilInv, NEW m \in {"export_private_key", "export_public_key"}, At(m), ExportFails
  PROVE  Progress
<1>1. live \ Lasting = Runtime
  BY Running DEF Held, VirgilInv
<1>2. CASE Ends(Fails("status"), {"export_buffer"}, {"export_buffer"})
  BY <1>1, <1>2, StatusFailing DEF Objects, Lasting, Runtime
<1>3. CASE ReturnsEarly(<<"export_buffer">>)
  BY <1>3, Returning, EndsInOrder
<1> QED BY <1>2, <1>3 DEF ExportFails

LEMMA ExportPrivateKeyKeeps == ASSUME VirgilInv, ExportPrivateKey PROVE Progress
<1>1. At("export_private_key")
  BY DEF ExportPrivateKey
<1>2. CASE Goes([regs EXCEPT !.der = Sec1(regs.key)], {})
  BY <1>1, <1>2, GoingOn, RegsAre DEF Made, Objects, Lasting, Runtime
<1> QED BY <1>1, <1>2, ExportFailsKeeps DEF ExportPrivateKey

LEMMA ExtractPublicKeyKeeps == ASSUME VirgilInv, ExtractPublicKey PROVE Progress
<1>1. At("extract_public_key")
  BY DEF ExtractPublicKey
<1>2. CASE Goes(regs, {"public_key"})
  BY <1>1, <1>2, GoingOn, RegsAre DEF Made, Objects, Lasting, Runtime
<1>3. CASE ReturnsEarly(<<>>)
  BY <1>1, <1>3, Returning, EndsInOrder
<1> QED BY <1>2, <1>3 DEF ExtractPublicKey

LEMMA ExportPublicKeyKeeps == ASSUME VirgilInv, ExportPublicKey PROVE Progress
<1>1. At("export_public_key") /\ live \ Lasting = Runtime
  BY Running DEF ExportPublicKey, Held, VirgilInv
<1>2. PICK result : result = Gives(IF call.fn = "generate"
                                   THEN [private |-> regs.der, public |-> Spki(regs.key)]
                                   ELSE Spki(regs.key))
  OBVIOUS
<1>3. CASE Ends(result, {}, {})
  <2>1. HeapFits' /\ KeysFit' /\ Idle' /\ ret' = result
    BY <1>1, <1>3, EndsKeeps DEF VirgilInv, HeapFits
  <2>2. PICK fn, at : fn = call.fn /\ at = call.at
    OBVIOUS
  <2>3. ~Idle /\ ((fn = "generate" /\ at = 5) \/ (fn = "derive" /\ at = 4) \/ fn = "roundtrip")
    BY <1>1, <2>2, Running, Places DEF VirgilInv
  <2>4. Result
    BY <1>2, <2>1, <2>2, <2>3 DEF Result, VirgilInv, KeysFit, Past
  <2> QED BY <2>1, <2>3, <2>4 DEF Progress, Ended, VirgilInv
<1> QED BY <1>1, <1>2, <1>3, ExportFailsKeeps DEF ExportPublicKey

LEMMA ParseKeeps == ASSUME VirgilInv, Parse PROVE Progress
<1>1. At("parse") /\ live \ Lasting = {}
  BY Running DEF Parse, Held, VirgilInv
<1>2. PICK c : c = ParseContainer(regs.arg.container)
  OBVIOUS
<1>3. CASE "ok" \in DOMAIN c
  <2>1. Goes([regs EXCEPT !.parts = c.ok], {})
    BY <1>2, <1>3 DEF Parse
  <2> QED BY <1>1, <2>1, GoingOn, RegsAre DEF Made, Objects, Lasting, Runtime
<1>4. CASE "ok" \notin DOMAIN c
  <2>1. Ends(c, {}, {})
    BY <1>2, <1>4 DEF Parse
  <2> QED BY <1>1, <1>4, <2>1, Failing DEF Answer
<1> QED BY <1>3, <1>4

LEMMA UnwrapKeeps == ASSUME VirgilInv, Unwrap PROVE Progress
<1>1. At("unwrap") /\ live \ Lasting = {}
  BY Running DEF Unwrap, Held, VirgilInv
<1>2. PICK k : k = DecryptPrivateKey(regs.arg.rsa, regs.arg.blob)
  OBVIOUS
<1>3. CASE "ok" \in DOMAIN k
  <2>1. Goes([regs EXCEPT !.der = k.ok], {})
    BY <1>2, <1>3 DEF Unwrap
  <2> QED BY <1>1, <2>1, GoingOn, RegsAre DEF Made, Objects, Lasting, Runtime
<1>4. CASE "ok" \notin DOMAIN k
  <2>1. Ends(k, {}, {})
    BY <1>2, <1>4 DEF Unwrap
  <2> QED BY <1>1, <1>4, <2>1, Failing DEF Answer
<1> QED BY <1>3, <1>4

LEMMA NewCipherKeeps == ASSUME VirgilInv, NewCipher PROVE Progress
<1>1. At("cipher")
  BY DEF NewCipher
<1>2. CASE Goes(regs, {"cipher"})
  BY <1>1, <1>2, GoingOn, RegsAre DEF Made, Objects, Lasting, Runtime
<1>3. CASE ReturnsEarly(<<"cipher">>)
  BY <1>1, <1>3, Returning, EndsInOrder
<1> QED BY <1>2, <1>3 DEF NewCipher

LEMMA StartKeeps == ASSUME VirgilInv, Start PROVE Progress
<1>1. At("start") /\ live \ Lasting = Runtime \cup {"cipher"}
  BY Running DEF Start, Held, VirgilInv
<1>2. CASE Goes(regs, {"recipient_id", "message_info"})
  BY <1>1, <1>2, GoingOn, RegsAre DEF Made, Objects, Lasting, Runtime
<1>3. CASE Ends(Fails("status"), {"recipient_id", "message_info"}, {"cipher"})
  BY <1>1, <1>3, StatusFailing DEF Objects, Lasting, Runtime
<1>4. CASE ReturnsEarly(<<"recipient_id", "message_info">>)
  BY <1>1, <1>4, Returning, EndsInOrder
<1> QED BY <1>2, <1>3, <1>4 DEF Start

LEMMA ProcessKeeps == ASSUME VirgilInv, Process PROVE Progress
<1>1. At("process") /\ live \ Lasting = Runtime \cup {"cipher"}
  BY Running DEF Process, Held, VirgilInv
<1>2. CASE \E out : Goes([regs EXCEPT !.out = out], {"content", "process_buffer"})
  BY <1>1, <1>2, GoingOn, RegsAre DEF Made, Objects, Lasting, Runtime
<1>3. CASE Ends(Fails("status"), {"content", "process_buffer"}, {"process_buffer", "cipher"})
  BY <1>1, <1>3, StatusFailing DEF Objects, Lasting, Runtime
<1>4. CASE ReturnsEarly(<<"content", "process_buffer">>)
  BY <1>1, <1>4, Returning, EndsInOrder
<1> QED BY <1>2, <1>3, <1>4 DEF Process

LEMMA FinishKeeps == ASSUME VirgilInv, Finish PROVE Progress
<1>1. At("finish") /\ live \ Lasting = Runtime \cup {"cipher", "process_buffer"}
  BY Running DEF Finish, Held, VirgilInv
<1>2. CASE FinishSucceeds
  BY <1>1, <1>2, GoingOn, RegsAre DEF Made, Objects, Lasting, Runtime, FinishSucceeds
<1>3. CASE FinishFails
  BY <1>1, <1>3, StatusFailing DEF FinishFails, Objects, Lasting, Runtime
<1>4. CASE ReturnsEarly(<<"finish_buffer">>)
  BY <1>1, <1>4, Returning, EndsInOrder
<1> QED BY <1>2, <1>3, <1>4 DEF Finish

LEMMA TakeKeeps == ASSUME VirgilInv, Take PROVE Progress
<1>1. At("take") /\ live \ Lasting = Runtime \cup {"cipher", "process_buffer", "finish_buffer"}
  BY Running DEF Take, Held, VirgilInv
<1>2. ~Idle /\ call.fn = "decrypt"
  BY <1>1, Running, Places DEF VirgilInv
<1>3. CASE \E result : Ends(result, {}, {"process_buffer", "finish_buffer", "cipher"})
  <2>1. PICK result : Ends(result, {}, {"process_buffer", "finish_buffer", "cipher"})
    BY <1>3
  <2>2. HeapFits' /\ KeysFit' /\ Idle'
    BY <1>1, <2>1, EndsKeeps DEF VirgilInv, Runtime, Lasting, Objects
  <2> QED BY <1>2, <2>2 DEF Progress, Ended, Result, VirgilInv
<1>4. CASE \E released \in {{}, {"process_buffer"}} : Ends(Fails("wasm"), {}, released)
  BY <1>1, <1>4, Failing, FailsIsNoAnswer DEF Runtime, Lasting, Objects
<1> QED BY <1>3, <1>4 DEF Take

LEMMA LibraryKeeps == ASSUME VirgilInv, VirgilNext PROVE Progress
BY NewRuntimeKeeps, GeneratePrivateKeyKeeps, ImportKeeps, ExportPrivateKeyKeeps,
   ExtractPublicKeyKeeps, ExportPublicKeyKeeps, ParseKeeps, UnwrapKeeps, NewCipherKeeps,
   StartKeeps, ProcessKeeps, FinishKeeps, TakeKeeps DEF VirgilNext

\* A program enters a function, or leaves the library alone.
LEMMA EnterKeeps ==
  ASSUME VirgilInv, NEW fn \in DOMAIN Methods, NEW arg, Enter(fn, arg)
  PROVE  VirgilInv' /\ ~Idle' /\ call'.fn = fn /\ call'.at = 1 /\ regs'.arg = arg
<1>1. /\ call' = [fn |-> fn, at |-> 1] /\ regs' = [NoRegs EXCEPT !.arg = arg]
      /\ live' = {} /\ UNCHANGED misuse
  BY DEF Enter
<1>2. ~Idle' /\ call'.fn = fn /\ call'.at = 1
  BY <1>1, MethodTable, KeystoreAssumption DEF Idle
<1>3. regs'.arg = arg /\ DOMAIN regs' = DOMAIN NoRegs
  BY <1>1 DEF NoRegs
<1>4. 1 \in DOMAIN Methods[fn] /\ Held(Methods[fn][1]) = {}
  <2>1. Methods[fn][1] \in {"runtime", "parse"} /\ 1 \in DOMAIN Methods[fn]
    BY MethodTable
  <2> QED BY <2>1 DEF Held
<1>5. HeapFits'
  BY <1>1, <1>2, <1>3, <1>4 DEF VirgilInv, HeapFits
<1>6. KeysFit'
  BY <1>2 DEF KeysFit, Past
<1> QED BY <1>2, <1>3, <1>5, <1>6 DEF VirgilInv

LEMMA LibrarySame == ASSUME VirgilInv, UNCHANGED virgilVars PROVE VirgilInv' /\ Idle' = Idle
BY DEF virgilVars, VirgilInv, HeapFits, KeysFit, Past, Idle

\* The end of a process leaves no object behind.
LEMMA ProcessEnds ==
  ASSUME VirgilInv, call' = NoCall, regs' = NoRegs, live' = {}, UNCHANGED misuse
  PROVE  VirgilInv' /\ Idle'
<1>1. Idle' /\ call' = [fn |-> call'.fn, at |-> call'.at] /\ DOMAIN regs' = DOMAIN NoRegs
  BY DEF NoCall, Idle
<1>2. HeapFits'
  BY <1>1 DEF VirgilInv, HeapFits
<1>3. KeysFit'
  BY <1>1, KeystoreAssumption DEF KeysFit, Past, Idle
<1> QED BY <1>1, <1>2, <1>3 DEF VirgilInv

-----------------------------------------------------------------------------
(* What the steps of the programs have in common *)

Inductive == KeystoreTypeOK /\ KeystoreInv /\ BrokenOnlyWhileWriting /\ OkMeansUsable

LEMMA StepTable ==
  /\ DOMAIN Steps = {"gen", "check", "decode", "open"}
  /\ Steps["gen"] = {"rsa", "wrap", "write"}
  /\ Steps["check"] = {"unwrap", "derived", "roundtripped"}
  /\ Steps["decode"] = {"decrypted"} /\ Steps["open"] = {"loaded"}
  /\ DOMAIN Calls = {"wrap", "derived", "roundtripped", "decrypted"}
  /\ Calls["wrap"] = "generate" /\ Calls["derived"] = "derive"
  /\ Calls["roundtripped"] = "roundtrip" /\ Calls["decrypted"] = "decrypt"
BY DEF Steps, Calls

LEMMA NoWorkIs ==
  DOMAIN NoWork = {"rsa", "pair", "files", "next", "checked", "for", "key", "whole"}
BY DEF NoWork

\* What a file can hold.
LEMMA FilesHold ==
  ASSUME KeystoreTypeOK
  PROVE  /\ \A f \in FileNames : disk[f] \in {None, Torn} \/ \E g \in Pairs : disk[f] = Content(g)[f]
         /\ disk["private_key.der"] \in {None, Torn} \/ \E g \in Pairs : disk["private_key.der"] = Rsa(g)
         /\ disk["sdk.txt"] \in {None, Torn} \/ \E g \in Pairs : disk["sdk.txt"] = Wrapped(g, g)
         /\ disk["virgil_public_key.b64"] \in {None, Torn}
              \/ \E g \in Pairs : disk["virgil_public_key.b64"] = Spki(g)
<1>1. \A f \in FileNames : disk[f] \in {None, Torn} \/ \E g \in Pairs : disk[f] = Content(g)[f]
  BY DEF KeystoreTypeOK
<1>2. {"private_key.der", "sdk.txt", "virgil_public_key.b64"} \subseteq FileNames
  BY FileTable
<1> QED BY <1>1, <1>2, ContentIs

\* What opens is the private half of a pair.
LEMMA Unwrapped ==
  ASSUME KeystoreTypeOK, disk["private_key.der"] # None, disk["sdk.txt"] # None, NEW key,
         key = DecryptPrivateKey(disk["private_key.der"], disk["sdk.txt"]), Answer(key)
  PROVE  \E g \in Pairs : key = Gives(Sec1(g)) /\ OpensFor(g)
<1>1. PICK rsa, blob : rsa = disk["private_key.der"] /\ blob = disk["sdk.txt"]
  OBVIOUS
<1>2. key = IF rsa.kind = "rsa" /\ blob.kind = "wrapped" /\ blob.to = rsa.of
            THEN Gives(Sec1(blob.of)) ELSE Fails("RsaDecryption")
  BY <1>1 DEF DecryptPrivateKey
<1>3. blob.kind = "wrapped" /\ key = Gives(Sec1(blob.of))
  BY <1>2, FailsIsNoAnswer
<1>4. blob # Torn
  BY <1>3 DEF Torn
<1>5. PICK g \in Pairs : blob = Wrapped(g, g)
  BY <1>1, <1>4, FilesHold
<1>6. key = Gives(Sec1(g))
  BY <1>3, <1>5 DEF Wrapped
<1> QED BY <1>6 DEF OpensFor

LEMMA SameDisk ==
  ASSUME UNCHANGED disk
  PROVE  (Consistent <=> Consistent') /\ \A g : OpensFor(g) <=> OpensFor(g)'
BY DEF Consistent, OpensFor

\* The files are as they were, and so is what is said of them.
LEMMA DiskStays ==
  ASSUME BrokenOnlyWhileWriting, OkMeansUsable, UNCHANGED <<disk, verdict>>,
         cut => cut', Overwriting => cut' \/ Overwriting'
  PROVE  BrokenOnlyWhileWriting' /\ OkMeansUsable'
<1>1. BrokenOnlyWhileWriting'
  BY SameDisk DEF BrokenOnlyWhileWriting
<1>2. OkMeansUsable'
  BY SameDisk DEF OkMeansUsable
<1> QED BY <1>1, <1>2

LEMMA TypesStay ==
  ASSUME KeystoreTypeOK, UNCHANGED <<disk, device>>, cut' \in BOOLEAN,
         verdict' \in {None, "ok", "fail"}, program' \in {None, "gen", "check", "decode", "open"},
         HeapFits'
  PROVE  KeystoreTypeOK'
BY DEF KeystoreTypeOK, HeapFits

\* No program runs.
LEMMA Quiet ==
  ASSUME Inductive, program = None
  PROVE  Idle /\ step = "off" /\ ~Overwriting
<1>1. step = "off"
  BY DEF Inductive, KeystoreInv, ProgramFits
<1>2. Idle
  BY <1>1, StepTable DEF Inductive, KeystoreInv, ProgramFits
<1> QED BY <1>1, <1>2, KeystoreAssumption DEF Overwriting

\* No function runs while a program takes a step.
LEMMA AtStep ==
  ASSUME NEW p, NEW s, Runs(p, s)
  PROVE  program = p /\ step = s /\ Idle
BY DEF Runs

\* A step of the function a program waits for.
LEMMA LibraryStepKeeps == ASSUME Inductive, LibraryStep PROVE Inductive'
<1>1. UNCHANGED <<disk, cut, device, program, step, work, verdict, tlv>> /\ VirgilInv
  BY DEF LibraryStep, diskVars, toolVars, outVars, Inductive, KeystoreInv
<1>2. VirgilInv' /\ ~Idle /\ (GoesOn \/ Ended)
  BY <1>1, LibraryKeeps DEF LibraryStep, Progress
<1>3. step \in DOMAIN Calls /\ call.fn = Calls[step]
  BY <1>2 DEF Inductive, KeystoreInv, ProgramFits
<1>4. KeystoreTypeOK'
  BY <1>1, <1>2, TypesStay DEF Inductive, KeystoreTypeOK, VirgilInv
<1>5. ProgramFits'
  BY <1>1, <1>2, <1>3 DEF Inductive, KeystoreInv, ProgramFits, GoesOn, Ended
<1>6. GenFits'
  <2>1. ASSUME program = "gen", step = "wrap"
        PROVE  (IF Idle THEN Answer(ret) => ret = Gives([private |-> Sec1(work.pair),
                                                         public  |-> Spki(work.pair)])
                ELSE regs.arg = work.pair)'
    <3>1. regs.arg = work.pair /\ call.fn = "generate"
      BY <1>2, <1>3, <2>1, StepTable DEF Inductive, KeystoreInv, GenFits
    <3> QED BY <1>1, <1>2, <3>1 DEF GoesOn, Ended, Result
  <2> QED BY <1>1, <2>1 DEF Inductive, KeystoreInv, GenFits
<1>7. CheckFits'
  <2>1. ASSUME program = "check", step = "derived", NEW g \in Pairs, regs.arg = Sec1(g)
        PROVE  (IF Idle THEN Answer(ret) => ret = Gives(Spki(g)) ELSE regs.arg = Sec1(g))'
    <3>1. call.fn = "derive" /\ Sec1(g).of = g
      BY <1>3, <2>1, StepTable DEF Sec1
    <3> QED BY <1>1, <1>2, <2>1, <3>1 DEF GoesOn, Ended, Result
  <2> QED BY <1>1, <1>2, <2>1, SameDisk DEF Inductive, KeystoreInv, CheckFits
<1>8. BrokenOnlyWhileWriting' /\ OkMeansUsable'
  BY <1>1, DiskStays DEF Inductive, Overwriting
<1> QED BY <1>2, <1>4, <1>5, <1>6, <1>7, <1>8 DEF Inductive, KeystoreInv

\* A program is stopped wherever it is.
LEMMA StopsKeeps == ASSUME Inductive, Stops PROVE Inductive'
<1>1. /\ program' = None /\ step' = "off" /\ work' = NoWork /\ live' = {}
      /\ call' = NoCall /\ regs' = NoRegs
      /\ cut' = (cut \/ Overwriting) /\ UNCHANGED <<misuse, disk, device, verdict>>
  BY DEF Stops, Exits, outVars
<1>2. VirgilInv' /\ Idle'
  BY <1>1, ProcessEnds DEF Inductive, KeystoreInv
<1>3. cut' \in BOOLEAN /\ (cut => cut') /\ (Overwriting => cut')
  BY <1>1
<1>4. KeystoreTypeOK'
  BY <1>1, <1>2, <1>3, TypesStay DEF Inductive, KeystoreTypeOK, VirgilInv
<1>5. ProgramFits' /\ GenFits' /\ CheckFits'
  BY <1>1, <1>2, KeystoreAssumption DEF ProgramFits, GenFits, CheckFits
<1>6. BrokenOnlyWhileWriting' /\ OkMeansUsable'
  BY <1>1, <1>3, DiskStays DEF Inductive
<1> QED BY <1>2, <1>4, <1>5, <1>6 DEF Inductive, KeystoreInv

-----------------------------------------------------------------------------
(* keystore_gen *)

LEMMA StartGenKeeps == ASSUME Inductive, NEW force, StartGen(force) PROVE Inductive'
<1>1. PICK g \in Pairs : work' = [NoWork EXCEPT !.pair = g]
  BY DEF StartGen
<1>2. /\ program = None /\ program' = "gen" /\ step' = "rsa"
      /\ UNCHANGED <<virgilVars, disk, cut, device, verdict>>
  BY DEF StartGen, diskVars, outVars
<1>3. Idle /\ ~Overwriting
  BY <1>2, Quiet
<1>4. VirgilInv' /\ Idle'
  BY <1>2, <1>3, LibrarySame DEF Inductive, KeystoreInv, virgilVars
<1>5. work'.pair = g /\ work'.next = 1 /\ DOMAIN work' = DOMAIN NoWork
  BY <1>1 DEF NoWork
<1>6. ProgramFits' /\ GenFits' /\ CheckFits'
  BY <1>2, <1>4, <1>5, StepTable, KeystoreAssumption DEF ProgramFits, GenFits, CheckFits
<1>7. KeystoreTypeOK'
  BY <1>2, <1>4, TypesStay DEF Inductive, KeystoreTypeOK, VirgilInv
<1>8. BrokenOnlyWhileWriting' /\ OkMeansUsable'
  BY <1>2, <1>3, DiskStays DEF Inductive
<1> QED BY <1>4, <1>6, <1>7, <1>8 DEF Inductive, KeystoreInv

LEMMA GenerateRsaKeeps == ASSUME Inductive, GenerateRsa PROVE Inductive'
<1>1. /\ Runs("gen", "rsa") /\ Enter("generate", work.pair)
      /\ step' = "wrap" /\ work' = [work EXCEPT !.rsa = Rsa(work.pair)]
      /\ UNCHANGED <<program, disk, cut, device, verdict>>
  BY DEF GenerateRsa, Continues, diskVars, outVars
<1>2. program = "gen" /\ step = "rsa" /\ ~Overwriting
  BY <1>1, AtStep, StepTable DEF Overwriting
<1>3. VirgilInv' /\ ~Idle' /\ call'.fn = "generate" /\ regs'.arg = work.pair
  BY <1>1, <1>2, EnterKeeps, MethodTable DEF Inductive, KeystoreInv
<1>4. DOMAIN work = DOMAIN NoWork /\ work.pair \in Pairs /\ work.next = 1
  BY <1>2 DEF Inductive, KeystoreInv, ProgramFits, GenFits
<1>5. work'.pair = work.pair /\ work'.next = 1 /\ work'.rsa = Rsa(work.pair) /\ DOMAIN work' = DOMAIN NoWork
  BY <1>1, <1>4, NoWorkIs
<1>6. ProgramFits' /\ GenFits' /\ CheckFits'
  BY <1>1, <1>2, <1>3, <1>4, <1>5, StepTable, KeystoreAssumption
     DEF ProgramFits, GenFits, CheckFits
<1>7. KeystoreTypeOK'
  BY <1>1, <1>2, <1>3, TypesStay DEF Inductive, KeystoreTypeOK, VirgilInv
<1>8. BrokenOnlyWhileWriting' /\ OkMeansUsable'
  BY <1>1, <1>2, DiskStays DEF Inductive
<1> QED BY <1>3, <1>6, <1>7, <1>8 DEF Inductive, KeystoreInv

LEMMA WrapPairKeeps == ASSUME Inductive, WrapPair PROVE Inductive'
<1>1. PICK blob : blob = EncryptPrivateKey(work.rsa, ret.ok.private)
  OBVIOUS
<1>2. PICK files : files = [Content(work.pair) EXCEPT
                              !["private_key.der"]         = work.rsa,
                              !["sdk.txt"]                 = blob.ok,
                              !["virgil_private_sec1.der"] = ret.ok.private,
                              !["virgil_public_spki.der"]  = ret.ok.public]
  OBVIOUS
<1>3. /\ Runs("gen", "wrap") /\ Answer(ret) /\ Answer(blob)
      /\ step' = "write" /\ work' = [work EXCEPT !.files = files]
      /\ UNCHANGED <<program, virgilVars, disk, cut, device, verdict>>
  BY <1>1, <1>2 DEF WrapPair, Continues, diskVars, outVars
<1>4. program = "gen" /\ step = "wrap" /\ Idle /\ ~Overwriting
  BY <1>3, AtStep DEF Overwriting
<1>5. /\ DOMAIN work = DOMAIN NoWork /\ work.pair \in Pairs /\ work.rsa = Rsa(work.pair)
      /\ ret = Gives([private |-> Sec1(work.pair), public |-> Spki(work.pair)])
  BY <1>3, <1>4 DEF Inductive, KeystoreInv, ProgramFits, GenFits
<1>6. /\ ret.ok.private = Sec1(work.pair) /\ ret.ok.public = Spki(work.pair)
      /\ blob.ok = Wrapped(work.pair, work.pair)
  <2>1. ret.ok.private = Sec1(work.pair) /\ ret.ok.public = Spki(work.pair)
    BY <1>5 DEF Gives
  <2>2. blob = Gives(Wrapped(work.pair, work.pair))
    BY <1>1, <1>5, <2>1 DEF EncryptPrivateKey, Rsa, Sec1
  <2> QED BY <2>1, <2>2 DEF Gives
<1>7. \A f \in FileNames : files[f] = Content(work.pair)[f]
  BY <1>2, <1>5, <1>6, ContentIs, FileTable
<1>8. /\ work'.pair = work.pair /\ work'.files = files /\ work'.next = work.next
      /\ DOMAIN work' = DOMAIN NoWork
  BY <1>3, <1>5, NoWorkIs
<1>9. work.next = 1
  BY <1>4 DEF Inductive, KeystoreInv, GenFits
<1>10. VirgilInv' /\ Idle'
  BY <1>3, <1>4, LibrarySame DEF Inductive, KeystoreInv, virgilVars
<1>11. GenFits'
  BY <1>3, <1>4, <1>5, <1>7, <1>8, <1>9, FileTable DEF GenFits
<1>12. ProgramFits' /\ CheckFits'
  BY <1>3, <1>4, <1>8, <1>10, StepTable, KeystoreAssumption DEF ProgramFits, CheckFits
<1>13. KeystoreTypeOK'
  BY <1>3, <1>4, <1>10, TypesStay DEF Inductive, KeystoreTypeOK, VirgilInv
<1>14. BrokenOnlyWhileWriting' /\ OkMeansUsable'
  BY <1>3, <1>4, DiskStays DEF Inductive
<1> QED BY <1>10, <1>11, <1>12, <1>13, <1>14 DEF Inductive, KeystoreInv

\* A file is opened: it is empty until it is written.
LEMMA TruncateFileKeeps == ASSUME Inductive, TruncateFile PROVE Inductive'
<1>1. PICK n : n = work.next
  OBVIOUS
<1>2. /\ Runs("gen", "write") /\ disk' = [disk EXCEPT ![Files[n]] = Torn] /\ verdict' = None
      /\ UNCHANGED <<virgilVars, cut, device, program, step, work>>
  BY <1>1 DEF TruncateFile, toolVars
<1>3. program = "gen" /\ step = "write" /\ Idle
  BY <1>2, AtStep, StepTable
<1>4. /\ n \in 1..6 /\ Files[n] \in FileNames /\ DOMAIN disk = FileNames
      /\ \A i \in 1..6 : i < n => disk[Files[i]] = Content(work.pair)[Files[i]]
  BY <1>1, <1>3, FileTable DEF Inductive, KeystoreInv, KeystoreTypeOK, GenFits, FileNames
<1>5. VirgilInv' /\ Idle'
  BY <1>2, <1>3, LibrarySame DEF Inductive, KeystoreInv, virgilVars
<1>6. \A i \in 1..6 : i < n => disk'[Files[i]] = disk[Files[i]]
  BY <1>2, <1>4, FileTable
<1>7. GenFits'
  BY <1>1, <1>2, <1>3, <1>4, <1>6, FileTable DEF Inductive, KeystoreInv, GenFits
<1>8. ProgramFits' /\ CheckFits'
  BY <1>2, <1>3, <1>5 DEF Inductive, KeystoreInv, ProgramFits, CheckFits
<1>9. KeystoreTypeOK'
  <2>1. DOMAIN disk' = FileNames /\ \A f \in FileNames : disk'[f] \in {disk[f], Torn}
    BY <1>2, <1>4
  <2>2. Idle' /\ live' \subseteq Objects
    BY <1>5 DEF VirgilInv, HeapFits
  <2> QED BY <1>2, <2>1, <2>2 DEF Inductive, KeystoreTypeOK
<1>10. Overwriting'
  <2>1. n = 1 => disk'[Files[1]] = Torn
    BY <1>2, <1>4
  <2> QED BY <1>1, <1>2, <1>3, <1>4, <2>1 DEF Overwriting
<1>11. BrokenOnlyWhileWriting' /\ OkMeansUsable'
  BY <1>2, <1>10, KeystoreAssumption DEF BrokenOnlyWhileWriting, OkMeansUsable
<1> QED BY <1>5, <1>7, <1>8, <1>9, <1>11 DEF Inductive, KeystoreInv

LEMMA WriteFileKeeps == ASSUME Inductive, WriteFile PROVE Inductive'
<1>1. PICK n, g : n = work.next /\ g = work.pair
  OBVIOUS
<1>2. /\ Runs("gen", "write") /\ disk' = [disk EXCEPT ![Files[n]] = work.files[Files[n]]]
      /\ verdict' = None /\ UNCHANGED device
      /\ \/ /\ n = 6 /\ program' = None /\ step' = "off" /\ work' = NoWork /\ cut' = FALSE
            /\ call' = NoCall /\ regs' = NoRegs /\ live' = {} /\ UNCHANGED misuse
         \/ /\ n # 6 /\ step' = "write" /\ work' = [work EXCEPT !.next = n + 1]
            /\ UNCHANGED <<program, virgilVars, cut>>
  BY <1>1, FileTable DEF WriteFile, Exits, Continues
<1>3. program = "gen" /\ step = "write" /\ Idle
  BY <1>2, AtStep, StepTable
<1>4. /\ n \in 1..6 /\ Files[n] \in FileNames /\ DOMAIN disk = FileNames /\ g \in Pairs
      /\ \A i \in 1..6 : i < n => disk[Files[i]] = Content(g)[Files[i]]
      /\ work.files[Files[n]] = Content(g)[Files[n]] /\ DOMAIN work = DOMAIN NoWork
  BY <1>1, <1>3, FileTable
     DEF Inductive, KeystoreInv, ProgramFits, KeystoreTypeOK, GenFits, FileNames
<1>5. VirgilInv' /\ Idle'
  BY <1>2, <1>3, LibrarySame, ProcessEnds DEF Inductive, KeystoreInv
<1>6. \A i \in 1..6 : i <= n => disk'[Files[i]] = Content(g)[Files[i]]
  <2>1. \A i \in 1..6 : i < n => Files[i] # Files[n] /\ Files[i] \in FileNames
    BY <1>4, FileTable DEF FileNames
  <2>2. \A i \in 1..6 : i < n => disk'[Files[i]] = Content(g)[Files[i]]
    BY <1>2, <1>4, <2>1
  <2>3. disk'[Files[n]] = Content(g)[Files[n]]
    BY <1>2, <1>4
  <2> QED BY <1>4, <2>2, <2>3
<1>7. KeystoreTypeOK'
  <2>1. DOMAIN disk' = FileNames /\ \A f \in FileNames : disk'[f] \in {disk[f], Content(g)[f]}
    BY <1>2, <1>4
  <2>2. Idle' /\ live' \subseteq Objects /\ cut' \in BOOLEAN
    BY <1>2, <1>5 DEF VirgilInv, HeapFits, Inductive, KeystoreTypeOK
  <2> QED BY <1>2, <1>3, <1>4, <2>1, <2>2 DEF Inductive, KeystoreTypeOK
<1>8. CASE n = 6
  <2>1. program' = None /\ step' = "off" /\ work' = NoWork
    BY <1>2, <1>8
  <2>2. ProgramFits' /\ GenFits' /\ CheckFits'
    BY <1>5, <2>1, KeystoreAssumption DEF ProgramFits, GenFits, CheckFits
  <2>3. \A f \in FileNames : disk'[f] = Content(g)[f]
    BY <1>6, <1>8, FileTable DEF FileNames
  <2>4. Consistent'
    BY <1>4, <2>3 DEF Consistent
  <2> QED BY <1>2, <1>5, <1>7, <2>2, <2>4, KeystoreAssumption
          DEF Inductive, KeystoreInv, BrokenOnlyWhileWriting, OkMeansUsable
<1>9. CASE n # 6
  <2>1. /\ step' = "write" /\ program' = "gen" /\ work' = [work EXCEPT !.next = n + 1]
        /\ n + 1 \in 1..6 /\ n + 1 > 1
    BY <1>2, <1>3, <1>4, <1>9
  <2>2. /\ work'.next = n + 1 /\ work'.pair = g /\ work'.files = work.files
        /\ DOMAIN work' = DOMAIN NoWork
    BY <1>1, <1>4, <2>1, NoWorkIs
  <2>3. \A i \in 1..6 : i < n + 1 => disk'[Files[i]] = Content(g)[Files[i]]
    BY <1>4, <1>6
  <2>4. \A f \in FileNames : work'.files[f] = Content(g)[f]
    BY <1>1, <1>3, <2>2 DEF Inductive, KeystoreInv, GenFits
  <2>5. GenFits'
    BY <1>4, <2>1, <2>2, <2>3, <2>4, FileTable DEF GenFits
  <2>6. ProgramFits' /\ CheckFits'
    BY <1>5, <2>1, <2>2, StepTable, KeystoreAssumption DEF ProgramFits, CheckFits
  <2>7. Overwriting'
    BY <2>1, <2>2 DEF Overwriting
  <2> QED BY <1>2, <1>5, <1>7, <2>5, <2>6, <2>7, KeystoreAssumption
          DEF Inductive, KeystoreInv, BrokenOnlyWhileWriting, OkMeansUsable
<1> QED BY <1>8, <1>9

-----------------------------------------------------------------------------
(* keystore_check *)

LEMMA StartCheckKeeps == ASSUME Inductive, StartCheck PROVE Inductive'
<1>1. /\ program = None /\ program' = "check" /\ step' = "unwrap" /\ work' = NoWork
      /\ disk["private_key.der"] # None /\ disk["sdk.txt"] # None
      /\ UNCHANGED <<virgilVars, disk, cut, device, verdict>>
  BY DEF StartCheck, diskVars, outVars
<1>2. Idle /\ ~Overwriting
  BY <1>1, Quiet
<1>3. VirgilInv' /\ Idle'
  BY <1>1, <1>2, LibrarySame DEF Inductive, KeystoreInv, virgilVars
<1>4. ProgramFits' /\ GenFits' /\ CheckFits'
  BY <1>1, <1>3, StepTable, KeystoreAssumption DEF ProgramFits, GenFits, CheckFits
<1>5. KeystoreTypeOK'
  BY <1>1, <1>3, TypesStay DEF Inductive, KeystoreTypeOK, VirgilInv
<1>6. BrokenOnlyWhileWriting' /\ OkMeansUsable'
  BY <1>1, <1>2, DiskStays DEF Inductive
<1> QED BY <1>3, <1>4, <1>5, <1>6 DEF Inductive, KeystoreInv

LEMMA CheckUnwrapsKeeps == ASSUME Inductive, CheckUnwraps PROVE Inductive'
<1>1. PICK key : key = DecryptPrivateKey(disk["private_key.der"], disk["sdk.txt"])
  OBVIOUS
<1>2. /\ Runs("check", "unwrap") /\ Answer(key) /\ Enter("derive", key.ok)
      /\ step' = "derived" /\ work' = [work EXCEPT !.checked = CopyAgrees(key.ok)]
      /\ UNCHANGED <<program, disk, cut, device, verdict>>
  BY <1>1 DEF CheckUnwraps, Continues, diskVars, outVars
<1>3. program = "check" /\ step = "unwrap" /\ ~Overwriting
  BY <1>2, AtStep, StepTable DEF Overwriting
<1>4. /\ DOMAIN work = DOMAIN NoWork /\ KeystoreTypeOK
      /\ disk["private_key.der"] # None /\ disk["sdk.txt"] # None
  BY <1>3 DEF Inductive, KeystoreInv, ProgramFits, CheckFits
<1>5. PICK g \in Pairs : key = Gives(Sec1(g)) /\ OpensFor(g)
  BY <1>1, <1>2, <1>4, Unwrapped
<1>6. key.ok = Sec1(g) /\ OpensFor(g)'
  BY <1>2, <1>5, SameDisk DEF Gives
<1>7. VirgilInv' /\ ~Idle' /\ call'.fn = "derive" /\ regs'.arg = Sec1(g)
  BY <1>2, <1>3, <1>6, EnterKeeps, MethodTable DEF Inductive, KeystoreInv
<1>8. ProgramFits' /\ GenFits' /\ CheckFits'
  <2>1. DOMAIN work' = DOMAIN NoWork
    BY <1>2, <1>4
  <2>2. program' = "check" /\ step' \in {"derived", "roundtripped"}
    BY <1>2, <1>3
  <2>3. ProgramFits'
    BY <1>2, <1>6, <1>7, <2>1, <2>2, StepTable, KeystoreAssumption DEF ProgramFits
  <2>4. CheckFits'
    BY <1>2, <1>4, <1>5, <1>6, <1>7, <2>2 DEF CheckFits
  <2> QED BY <2>2, <2>3, <2>4 DEF GenFits
<1>9. KeystoreTypeOK'
  BY <1>2, <1>3, <1>7, TypesStay DEF Inductive, KeystoreTypeOK, VirgilInv
<1>10. BrokenOnlyWhileWriting' /\ OkMeansUsable'
  BY <1>2, <1>3, DiskStays DEF Inductive
<1> QED BY <1>7, <1>8, <1>9, <1>10 DEF Inductive, KeystoreInv

LEMMA CheckDerivesKeeps == ASSUME Inductive, CheckDerives PROVE Inductive'
<1>1. PICK arg : arg = disk["virgil_public_spki.der"]
  OBVIOUS
<1>2. /\ Runs("check", "derived") /\ Answer(ret) /\ Enter("roundtrip", arg)
      /\ step' = "roundtripped"
      /\ work' = [work EXCEPT !.checked = @ /\ PublicKeyAgrees(ret.ok)]
      /\ UNCHANGED <<program, disk, cut, device, verdict>>
  BY <1>1 DEF CheckDerives, Continues, diskVars, outVars
<1>3. program = "check" /\ step = "derived" /\ Idle /\ ~Overwriting
  BY <1>2, AtStep, StepTable DEF Overwriting
<1>4. /\ DOMAIN work = DOMAIN NoWork
      /\ disk["private_key.der"] # None /\ disk["sdk.txt"] # None
  BY <1>3 DEF Inductive, KeystoreInv, ProgramFits, CheckFits
<1>5. PICK g \in Pairs : OpensFor(g) /\ ret = Gives(Spki(g))
  BY <1>2, <1>3 DEF Inductive, KeystoreInv, CheckFits
<1>6. VirgilInv' /\ ~Idle' /\ call'.fn = "roundtrip"
  BY <1>2, <1>3, EnterKeeps, MethodTable DEF Inductive, KeystoreInv
<1>7. work'.checked => disk'["virgil_public_spki.der"] = Spki(g) /\ OpensFor(g)'
  <2>1. work'.checked = (work.checked /\ PublicKeyAgrees(ret.ok))
    BY <1>2, <1>4, NoWorkIs
  <2>2. work'.checked => disk["virgil_public_spki.der"] = Spki(g)
    BY <1>5, <2>1 DEF PublicKeyAgrees, Gives
  <2> QED BY <1>2, <1>5, <2>2, SameDisk
<1>8. ProgramFits' /\ GenFits' /\ CheckFits'
  <2>1. DOMAIN work' = DOMAIN NoWork
    BY <1>2, <1>4
  <2>2. program' = "check" /\ step' \in {"derived", "roundtripped"}
    BY <1>2, <1>3
  <2>3. ProgramFits'
    BY <1>2, <1>6, <1>7, <2>1, <2>2, StepTable, KeystoreAssumption DEF ProgramFits
  <2>4. CheckFits'
    BY <1>2, <1>4, <1>5, <1>6, <1>7, <2>2 DEF CheckFits
  <2> QED BY <2>2, <2>3, <2>4 DEF GenFits
<1>9. KeystoreTypeOK'
  BY <1>2, <1>3, <1>6, TypesStay DEF Inductive, KeystoreTypeOK, VirgilInv
<1>10. BrokenOnlyWhileWriting' /\ OkMeansUsable'
  BY <1>2, <1>3, DiskStays DEF Inductive
<1> QED BY <1>6, <1>8, <1>9, <1>10 DEF Inductive, KeystoreInv

LEMMA CheckConcludesKeeps == ASSUME Inductive, CheckConcludes PROVE Inductive'
<1>1. /\ Runs("check", "roundtripped") /\ Answer(ret)
      /\ verdict' = IF work.checked /\ PublicKeyAgrees(ret.ok) THEN "ok" ELSE "fail"
      /\ program' = None /\ step' = "off" /\ work' = NoWork
      /\ call' = NoCall /\ regs' = NoRegs /\ live' = {}
      /\ UNCHANGED <<misuse, disk, cut, device>>
  BY DEF CheckConcludes, Exits, diskVars
<1>2. program = "check" /\ step = "roundtripped" /\ Idle /\ ~Overwriting
  BY <1>1, AtStep DEF Overwriting
<1>3. VirgilInv' /\ Idle'
  BY <1>1, ProcessEnds DEF Inductive, KeystoreInv
<1>4. ProgramFits' /\ GenFits' /\ CheckFits'
  BY <1>1, <1>3, StepTable, KeystoreAssumption DEF ProgramFits, GenFits, CheckFits
<1>5. KeystoreTypeOK'
  BY <1>1, <1>3, TypesStay DEF Inductive, KeystoreTypeOK, VirgilInv
<1>6. OkMeansUsable'
  <2>1. verdict' = "ok" => work.checked
    BY <1>1
  <2>2. verdict' = "ok" =>
          \E g \in Pairs : disk["virgil_public_spki.der"] = Spki(g) /\ OpensFor(g)
    BY <1>2, <2>1 DEF Inductive, KeystoreInv, CheckFits
  <2> QED BY <1>1, <2>2, SameDisk DEF OkMeansUsable
<1>7. BrokenOnlyWhileWriting'
  BY <1>1, <1>2, SameDisk DEF Inductive, BrokenOnlyWhileWriting
<1> QED BY <1>3, <1>4, <1>5, <1>6, <1>7 DEF Inductive, KeystoreInv

-----------------------------------------------------------------------------
(* The owner, mkey_decode and mkey_open *)

LEMMA RegisterKeeps == ASSUME Inductive, Register PROVE Inductive'
<1>1. /\ program = None /\ UNCHANGED <<virgilVars, disk, cut, program, step, work, verdict>>
      /\ disk["virgil_public_key.b64"] \notin {None, Torn}
      /\ device' = disk["virgil_public_key.b64"].of
  BY DEF Register, toolVars, outVars
<1>2. PICK g \in Pairs : disk["virgil_public_key.b64"] = Spki(g)
  BY <1>1, FilesHold DEF Inductive
<1>3. Idle /\ ~Overwriting
  BY <1>1, Quiet
<1>4. VirgilInv' /\ Idle'
  BY <1>1, <1>3, LibrarySame DEF Inductive, KeystoreInv, virgilVars
<1>5. KeystoreTypeOK'
  <2>1. device' \in Pairs /\ live' \subseteq Objects
    BY <1>1, <1>2, <1>4 DEF Spki, VirgilInv, HeapFits
  <2> QED BY <1>1, <1>4, <2>1 DEF Inductive, KeystoreTypeOK
<1>6. ProgramFits' /\ GenFits' /\ CheckFits'
  BY <1>1, <1>4, KeystoreAssumption DEF Inductive, KeystoreInv, ProgramFits, GenFits, CheckFits
<1>7. BrokenOnlyWhileWriting' /\ OkMeansUsable'
  BY <1>1, <1>3, DiskStays DEF Inductive
<1> QED BY <1>4, <1>5, <1>6, <1>7 DEF Inductive, KeystoreInv

LEMMA RemovePlaintextCopyKeeps == ASSUME Inductive, RemovePlaintextCopy PROVE Inductive'
<1>1. /\ program = None /\ UNCHANGED <<virgilVars, cut, device, program, step, work, verdict>>
      /\ disk' = [disk EXCEPT !["virgil_private_sec1.der"] = None]
  BY DEF RemovePlaintextCopy, toolVars, outVars
<1>2. Idle /\ ~Overwriting
  BY <1>1, Quiet
<1>3. VirgilInv' /\ Idle'
  BY <1>1, <1>2, LibrarySame DEF Inductive, KeystoreInv, virgilVars
<1>4. /\ DOMAIN disk' = FileNames /\ disk'["virgil_private_sec1.der"] = None
      /\ \A f \in FileNames \ {"virgil_private_sec1.der"} : disk'[f] = disk[f]
  BY <1>1, FileTable DEF Inductive, KeystoreTypeOK
<1>5. KeystoreTypeOK'
  <2>1. live' \subseteq Objects /\ \A f \in FileNames : disk'[f] \in {disk[f], None}
    BY <1>3, <1>4 DEF VirgilInv, HeapFits
  <2> QED BY <1>1, <1>3, <1>4, <2>1 DEF Inductive, KeystoreTypeOK
<1>6. ProgramFits' /\ GenFits' /\ CheckFits'
  BY <1>1, <1>3, KeystoreAssumption DEF Inductive, KeystoreInv, ProgramFits, GenFits, CheckFits
<1>7. OkMeansUsable'
  <2>1. /\ disk'["private_key.der"] = disk["private_key.der"] /\ disk'["sdk.txt"] = disk["sdk.txt"]
        /\ disk'["virgil_public_spki.der"] = disk["virgil_public_spki.der"]
    BY <1>4, FileTable
  <2>2. \A g : OpensFor(g) <=> OpensFor(g)'
    BY <2>1 DEF OpensFor
  <2> QED BY <1>1, <2>1, <2>2 DEF Inductive, OkMeansUsable
<1>8. BrokenOnlyWhileWriting'
  <2>1. CASE Consistent
    BY <1>4, <2>1 DEF Consistent, BrokenOnlyWhileWriting
  <2>2. CASE cut
    BY <1>1, <2>2 DEF BrokenOnlyWhileWriting
  <2>3. CASE \A f \in FileNames : disk[f] = None
    BY <1>4, <2>3 DEF BrokenOnlyWhileWriting
  <2> QED BY <1>2, <2>1, <2>2, <2>3 DEF Inductive, BrokenOnlyWhileWriting
<1> QED BY <1>3, <1>5, <1>6, <1>7, <1>8 DEF Inductive, KeystoreInv

LEMMA DiscardKeeps == ASSUME Inductive, Discard PROVE Inductive'
<1>1. /\ program = None /\ UNCHANGED <<virgilVars, device, program, step, work>>
      /\ disk' = [f \in FileNames |-> None] /\ cut' = FALSE /\ verdict' = None
  BY DEF Discard, toolVars
<1>2. Idle
  BY <1>1, Quiet
<1>3. VirgilInv' /\ Idle'
  BY <1>1, <1>2, LibrarySame DEF Inductive, KeystoreInv, virgilVars
<1>4. KeystoreTypeOK'
  <2>1. live' \subseteq Objects
    BY <1>3 DEF VirgilInv, HeapFits
  <2> QED BY <1>1, <1>3, <2>1 DEF Inductive, KeystoreTypeOK
<1>5. ProgramFits' /\ GenFits' /\ CheckFits'
  BY <1>1, <1>3, KeystoreAssumption DEF Inductive, KeystoreInv, ProgramFits, GenFits, CheckFits
<1>6. BrokenOnlyWhileWriting' /\ OkMeansUsable'
  BY <1>1, KeystoreAssumption DEF BrokenOnlyWhileWriting, OkMeansUsable
<1> QED BY <1>3, <1>4, <1>5, <1>6 DEF Inductive, KeystoreInv

LEMMA StartDecodeKeeps == ASSUME Inductive, StartDecode PROVE Inductive'
<1>1. /\ program = None /\ program' = "decode" /\ step' = "decrypted"
      /\ work' = [NoWork EXCEPT !.for = device] /\ UNCHANGED <<disk, cut, device, verdict>>
  BY DEF StartDecode, diskVars, outVars
<1>2. PICK arg : Enter("decrypt", arg)
  BY DEF StartDecode
<1>3. ~Overwriting
  BY <1>1, Quiet
<1>4. VirgilInv' /\ ~Idle' /\ call'.fn = "decrypt"
  BY <1>2, <1>3, EnterKeeps, MethodTable DEF Inductive, KeystoreInv
<1>5. DOMAIN work' = DOMAIN NoWork
  BY <1>1
<1>6. ProgramFits' /\ GenFits' /\ CheckFits'
  BY <1>1, <1>4, <1>5, StepTable, KeystoreAssumption DEF ProgramFits, GenFits, CheckFits
<1>7. KeystoreTypeOK'
  BY <1>1, <1>4, TypesStay DEF Inductive, KeystoreTypeOK, VirgilInv
<1>8. BrokenOnlyWhileWriting' /\ OkMeansUsable'
  BY <1>1, <1>3, DiskStays DEF Inductive
<1> QED BY <1>4, <1>6, <1>7, <1>8 DEF Inductive, KeystoreInv

LEMMA DecodePrintsKeeps == ASSUME Inductive, DecodePrints PROVE Inductive'
<1>1. /\ Runs("decode", "decrypted") /\ Answer(ret)
      /\ program' = None /\ step' = "off" /\ work' = NoWork
      /\ call' = NoCall /\ regs' = NoRegs /\ live' = {}
      /\ UNCHANGED <<misuse, disk, cut, device, verdict>>
  BY DEF DecodePrints, Exits, diskVars
<1>2. program = "decode" /\ Idle /\ ~Overwriting
  BY <1>1, AtStep DEF Overwriting
<1>3. VirgilInv' /\ Idle'
  BY <1>1, ProcessEnds DEF Inductive, KeystoreInv
<1>4. ProgramFits' /\ GenFits' /\ CheckFits'
  BY <1>1, <1>3, StepTable, KeystoreAssumption DEF ProgramFits, GenFits, CheckFits
<1>5. KeystoreTypeOK'
  BY <1>1, <1>3, TypesStay DEF Inductive, KeystoreTypeOK, VirgilInv
<1>6. BrokenOnlyWhileWriting' /\ OkMeansUsable'
  BY <1>1, <1>2, DiskStays DEF Inductive
<1> QED BY <1>3, <1>4, <1>5, <1>6 DEF Inductive, KeystoreInv

LEMMA OpenLoadsKeeps == ASSUME Inductive, OpenLoads PROVE Inductive'
<1>1. PICK key, whole : work' = [NoWork EXCEPT !.for = tlv.for, !.key = key, !.whole = whole]
  BY DEF OpenLoads
<1>2. /\ program = None /\ program' = "open" /\ step' = "loaded"
      /\ UNCHANGED <<virgilVars, disk, cut, device, verdict>>
  BY DEF OpenLoads, diskVars, outVars
<1>3. Idle /\ ~Overwriting
  BY <1>2, Quiet
<1>4. VirgilInv' /\ Idle'
  BY <1>2, <1>3, LibrarySame DEF Inductive, KeystoreInv, virgilVars
<1>5. DOMAIN work' = DOMAIN NoWork
  BY <1>1
<1>6. ProgramFits' /\ GenFits' /\ CheckFits'
  BY <1>2, <1>4, <1>5, StepTable, KeystoreAssumption DEF ProgramFits, GenFits, CheckFits
<1>7. KeystoreTypeOK'
  BY <1>2, <1>4, TypesStay DEF Inductive, KeystoreTypeOK, VirgilInv
<1>8. BrokenOnlyWhileWriting' /\ OkMeansUsable'
  BY <1>2, <1>3, DiskStays DEF Inductive
<1> QED BY <1>4, <1>6, <1>7, <1>8 DEF Inductive, KeystoreInv

-----------------------------------------------------------------------------
(* The invariant *)

LEMMA InitKeeps == ASSUME Init PROVE Inductive
<1>1. /\ call = NoCall /\ regs = NoRegs /\ live = {} /\ misuse = FALSE /\ ret = None
      /\ disk = [f \in FileNames |-> None] /\ program = None /\ step = "off" /\ work = NoWork
      /\ cut = FALSE /\ verdict = None /\ device = None
  BY DEF Init, VirgilInit
<1>2. Idle /\ call = [fn |-> call.fn, at |-> call.at]
  BY <1>1 DEF Idle, NoCall
<1>3. VirgilInv
  BY <1>1, <1>2, KeystoreAssumption DEF VirgilInv, HeapFits, KeysFit, Past, Idle
<1>4. ProgramFits /\ GenFits /\ CheckFits
  BY <1>1, <1>2, KeystoreAssumption DEF ProgramFits, GenFits, CheckFits
<1>5. KeystoreTypeOK
  BY <1>1, <1>2 DEF KeystoreTypeOK
<1>6. BrokenOnlyWhileWriting /\ OkMeansUsable
  BY <1>1, KeystoreAssumption DEF BrokenOnlyWhileWriting, OkMeansUsable
<1> QED BY <1>3, <1>4, <1>5, <1>6 DEF Inductive, KeystoreInv

LEMMA StutterKeeps == ASSUME Inductive, UNCHANGED vars PROVE Inductive'
<1>1. UNCHANGED <<virgilVars, disk, cut, device, program, step, work, verdict>>
  BY DEF vars, diskVars, toolVars, outVars
<1>2. VirgilInv' /\ Idle' = Idle
  BY <1>1, LibrarySame DEF Inductive, KeystoreInv
<1>3. KeystoreTypeOK'
  BY <1>1, <1>2, TypesStay DEF Inductive, KeystoreTypeOK, VirgilInv
<1>4. ProgramFits' /\ GenFits' /\ CheckFits'
  BY <1>1, <1>2, SameDisk
     DEF virgilVars, Inductive, KeystoreInv, ProgramFits, GenFits, CheckFits
<1>5. BrokenOnlyWhileWriting' /\ OkMeansUsable'
  BY <1>1, DiskStays DEF Inductive, Overwriting
<1> QED BY <1>2, <1>3, <1>4, <1>5 DEF Inductive, KeystoreInv

LEMMA NextKeeps == ASSUME Inductive, [Next]_vars PROVE Inductive'
BY LibraryStepKeeps, StopsKeeps, StartGenKeeps, GenerateRsaKeeps, WrapPairKeeps,
   TruncateFileKeeps, WriteFileKeeps, StartCheckKeeps, CheckUnwrapsKeeps, CheckDerivesKeeps,
   CheckConcludesKeeps, RegisterKeeps, RemovePlaintextCopyKeeps, DiscardKeeps,
   StartDecodeKeeps, DecodePrintsKeeps, OpenLoadsKeeps, StutterKeeps DEF Next

\* The inductive invariant holds in every state of the keystore's life, for
\* every number of generations, every issued key and every cut (keystore_gen,
\* keystore_check, mkey_decode, mkey-sdk-virgil).
THEOREM KeystoreInvariant == Spec => []Inductive
<1>1. Init => Inductive
  BY InitKeeps
<1>2. Inductive /\ [Next]_vars => Inductive'
  BY NextKeeps
<1> QED BY <1>1, <1>2, PTL DEF Spec

\* Every file holds what it is for or is torn, and the library is at a step
\* its function has.
THEOREM KeystoreTypes == Spec => []KeystoreTypeOK
BY KeystoreInvariant, PTL DEF Inductive

\* However a function ends, no object of the library is released twice or before
\* it is made; when it ends with a value or a status of the library, all that
\* this crate can release is released (lib.rs, the error paths of
\* decrypt_mobile_key and export_private_key, Drop of VirgilRuntime).
THEOREM KeystoreHeapBalanced == Spec => []HeapBalanced
<1>1. Inductive => HeapBalanced
  BY DEF Inductive, KeystoreInv, VirgilInv, HeapFits, HeapBalanced
<1> QED BY <1>1, KeystoreInvariant, PTL

\* The files of a keystore disagree only while keystore_gen is writing them and
\* after it was stopped there, wherever any program fails or is killed.
THEOREM OnlyWritingBreaks == Spec => []BrokenOnlyWhileWriting
BY KeystoreInvariant, PTL DEF Inductive

\* When keystore_check says OK, what is sealed to virgil_public_spki.der opens
\* with private_key.der and sdk.txt, whatever an interrupted --force left.
THEOREM CheckIsTruthful == Spec => []OkMeansUsable
BY KeystoreInvariant, PTL DEF Inductive

-----------------------------------------------------------------------------
(* The stored form of a key *)

\* Eight bits make a byte, and are its bits.
LEMMA EightBits ==
  ASSUME NEW a \in {0, 1}, NEW b \in {0, 1}, NEW c \in {0, 1},
         NEW d \in {0, 1}, NEW e \in {0, 1}, NEW g \in {0, 1},
         NEW h \in {0, 1}, NEW k \in {0, 1}, NEW x,
         x = a + 2 * b + 4 * c + 8 * d + 16 * e + 32 * g + 64 * h + 128 * k
  PROVE  /\ x \in 0..255
         /\ (x \div 1) % 2 = a /\ (x \div 2) % 2 = b /\ (x \div 4) % 2 = c
         /\ (x \div 8) % 2 = d /\ (x \div 16) % 2 = e /\ (x \div 32) % 2 = g
         /\ (x \div 64) % 2 = h /\ (x \div 128) % 2 = k
<1>1. x \in Nat /\ x <= 255
  OBVIOUS
<1>2. x \div 1 = x /\ x % 2 = a
  OBVIOUS
<1>3. x \div 2 = b + 2 * c + 4 * d + 8 * e + 16 * g + 32 * h + 64 * k
  OBVIOUS
<1>4. x \div 4 = c + 2 * d + 4 * e + 8 * g + 16 * h + 32 * k
  OBVIOUS
<1>5. x \div 8 = d + 2 * e + 4 * g + 8 * h + 16 * k
  OBVIOUS
<1>6. x \div 16 = e + 2 * g + 4 * h + 8 * k
  OBVIOUS
<1>7. x \div 32 = g + 2 * h + 4 * k
  OBVIOUS
<1>8. x \div 64 = h + 2 * k /\ x \div 128 = k
  OBVIOUS
<1> QED
  BY <1>1, <1>2, <1>3, <1>4, <1>5, <1>6, <1>7, <1>8

\* A set of permissions is read back from the byte it is written as.
LEMMA PermissionsReadBack ==
  ASSUME NEW p \in SUBSET Flags
  PROVE  FlagsOf(p) \in Byte /\ PermissionsOf(FlagsOf(p)) = p
<1> DEFINE bit(f) == IF f \in p THEN 1 ELSE 0
           x == bit("OVERWRITE_IF_PRESENT") + 2 * bit("REMOVE_IF_ABSENT") + 4 * bit("READABLE")
                  + 8 * bit("WRITABLE") + 16 * bit("READ_WITHOUT_SECURITY")
                  + 32 * bit("WRITE_WITHOUT_SECURITY") + 64 * bit("BIT_6") + 128 * bit("BIT_7")
<1>1. /\ FlagBit["OVERWRITE_IF_PRESENT"] = 1 /\ FlagBit["REMOVE_IF_ABSENT"] = 2
      /\ FlagBit["READABLE"] = 4 /\ FlagBit["WRITABLE"] = 8
      /\ FlagBit["READ_WITHOUT_SECURITY"] = 16 /\ FlagBit["WRITE_WITHOUT_SECURITY"] = 32
      /\ FlagBit["BIT_6"] = 64 /\ FlagBit["BIT_7"] = 128
  BY DEF FlagBit, Flags
<1>2. \A f : bit(f) \in {0, 1}
  OBVIOUS
<1>3. /\ x \in 0..255
      /\ (x \div 1) % 2 = bit("OVERWRITE_IF_PRESENT") /\ (x \div 2) % 2 = bit("REMOVE_IF_ABSENT")
      /\ (x \div 4) % 2 = bit("READABLE") /\ (x \div 8) % 2 = bit("WRITABLE")
      /\ (x \div 16) % 2 = bit("READ_WITHOUT_SECURITY")
      /\ (x \div 32) % 2 = bit("WRITE_WITHOUT_SECURITY")
      /\ (x \div 64) % 2 = bit("BIT_6") /\ (x \div 128) % 2 = bit("BIT_7")
  <2> HIDE DEF bit
  <2> QED
    BY <1>2, EightBits
<1> HIDE DEF x
<1>4. \A f \in Flags : (x \div FlagBit[f]) % 2 = bit(f)
  BY <1>1, <1>3 DEF Flags
<1>5. PermissionsOf(x) = p
  <2>1. \A f \in Flags : (x \div FlagBit[f]) % 2 = 1 <=> f \in p
    BY <1>4
  <2> QED
    BY <2>1 DEF PermissionsOf
<1>6. FlagsOf(p) \in 0..255 /\ PermissionsOf(FlagsOf(p)) = p
  BY <1>3, <1>5 DEF FlagsOf
<1> QED
  BY <1>6, InByte

\* A container of one field sets one tag.
LEMMA InsertOneField ==
  ASSUME NEW key, NEW p, NEW f, ~f.constructed
  PROVE  InsertFields(key, p, <<f>>) = InsertTag(key, f.id, Tag(p, f.value))
<1> DEFINE fields == <<f>>
           put == InsertTag(key, f.id, Tag(p, f.value))
           Step(h, i) == IF i = 0 THEN key
                         ELSE IF fields[i].constructed THEN h[i - 1]
                         ELSE InsertTag(h[i - 1], fields[i].id, Tag(p, fields[i].value))
           IsRun(h) == h = [i \in 0..1 |-> Step(h, i)]
           F == [i \in 0..1 |-> IF i = 0 THEN key ELSE put]
           H == CHOOSE h : IsRun(h)
<1>1. Len(fields) = 1 /\ fields[1] = f
  OBVIOUS
<1>2. InsertFields(key, p, fields) = H[1]
  BY <1>1 DEF InsertFields
<1> HIDE DEF fields
<1>3. \A h : Step(h, 0) = key /\ Step(h, 1) = InsertTag(h[0], f.id, Tag(p, f.value))
  <2>1. 1 # 0 /\ 1 - 1 = 0
    OBVIOUS
  <2> QED
    BY <1>1, <2>1
<1> HIDE DEF Step
<1>4. \A i \in 0..1 : i = 0 \/ i = 1
  OBVIOUS
<1>5. IsRun(F)
  <2>1. F[0] = key /\ F[1] = put
    OBVIOUS
  <2>2. \A i \in 0..1 : F[i] = Step(F, i)
    <3> HIDE DEF F
    <3> QED
      BY <1>3, <1>4, <2>1
  <2>3. F = [i \in 0..1 |-> F[i]]
    OBVIOUS
  <2> HIDE DEF F
  <2> QED
    BY <2>2, <2>3
<1>6. IsRun(H)
  <2> HIDE DEF F, IsRun
  <2> QED
    BY <1>5
<1>7. H[0] = Step(H, 0) /\ H[1] = Step(H, 1)
  <2> HIDE DEF H
  <2>1. 0 \in 0..1 /\ 1 \in 0..1
    OBVIOUS
  <2> QED
    BY <1>6, <2>1
<1> HIDE DEF H
<1> QED
  BY <1>2, <1>3, <1>7 DEF fields

\* What to_bytes puts into a container comes out as the tag it was.
LEMMA ContainerReadsBack ==
  ASSUME NEW key, NEW p \in SUBSET Flags, NEW id \in Nat, OneByteTag(id),
         NEW v \in Seq(Byte), Fits(v)
  PROVE  /\ <<FlagsOf(p)>> \o EncodeTlv(id, v) \in Seq(Byte)
         /\ Len(<<FlagsOf(p)>> \o EncodeTlv(id, v)) = 1 + Len(EncodeTlv(id, v))
         /\ InsertContainer(key, <<FlagsOf(p)>> \o EncodeTlv(id, v)) = InsertTag(key, id % 32, Tag(p, v))
<1> DEFINE b == FlagsOf(p)
           e == EncodeTlv(id, v)
           value == <<b>> \o e
<1>1. b \in Byte /\ PermissionsOf(b) = p
  BY PermissionsReadBack
<1>2. e \in Seq(Byte) /\ Len(e) \in Nat
  <2>1. EncodeTlv(id, v) \in Seq(Byte)
    BY EncodeTlvShape
  <2> HIDE DEF e
  <2> QED
    BY <2>1 DEF e
<1>3. ParseAll(e) = <<Field(id, v)>>
  <2>1. <<>> \in Seq(Byte) /\ e \o <<>> = e
    BY <1>2, EmptySeq, ConcatEmptySeq
  <2>2. ParseAll(e \o <<>>) = <<Field(id, v)>> \o ParseAll(<<>>)
    BY <2>1, ParseFirst
  <2>3. <<Field(id, v)>> \o <<>> = <<Field(id, v)>>
    <3>1. \A x : <<x>> \in Seq({x})
      OBVIOUS
    <3> QED
      BY <3>1, ConcatEmptySeq
  <2> QED
    BY <2>1, <2>2, <2>3, ParseNothing
<1> HIDE DEF b, e
<1>4. <<b>> \in Seq(Byte) /\ Len(<<b>>) = 1 /\ <<b>>[1] = b
  BY <1>1
<1>5. /\ value \in Seq(Byte) /\ Len(value) = 1 + Len(e) /\ value[1] = b
      /\ \A i \in 1..Len(e) : value[i + 1] = e[i]
  <2>1. /\ value \in Seq(Byte) /\ Len(value) = 1 + Len(e)
        /\ \A i \in 1..1 + Len(e) : value[i] = IF i <= 1 THEN <<b>>[i] ELSE e[i - 1]
    BY <1>2, <1>4, ConcatProperties
  <2> HIDE DEF value
  <2>2. value[1] = b
    BY <1>2, <1>4, <2>1
  <2>3. ASSUME NEW i \in 1..Len(e) PROVE value[i + 1] = e[i]
    <3>1. i + 1 \in 1..1 + Len(e) /\ ~(i + 1 <= 1) /\ (i + 1) - 1 = i
      BY <1>2
    <3> QED
      BY <2>1, <3>1
  <2> QED
    BY <2>1, <2>2, <2>3
<1> HIDE DEF value
<1>6. value # <<>>
  <2>1. Len(value) # 0
    BY <1>2, <1>5
  <2> QED
    BY <2>1, EmptySeq
<1>7. Tail(value) = e
  <2>1. /\ Tail(value) \in Seq(Byte) /\ Len(Tail(value)) = Len(value) - 1
        /\ \A i \in 1..Len(Tail(value)) : Tail(value)[i] = value[i + 1]
    BY <1>5, <1>6, HeadTailProperties
  <2>2. Len(Tail(value)) = Len(e)
    BY <1>2, <1>5, <2>1
  <2>3. \A i \in 1..Len(Tail(value)) : Tail(value)[i] = e[i]
    BY <1>5, <2>1, <2>2
  <2> QED
    BY <1>2, <2>1, <2>2, <2>3, SeqEqual
<1>8. InsertContainer(key, value) = InsertFields(key, p, <<Field(id, v)>>)
  BY <1>1, <1>3, <1>5, <1>6, <1>7 DEF InsertContainer
<1>9. InsertFields(key, p, <<Field(id, v)>>) = InsertTag(key, Field(id, v).id, Tag(p, Field(id, v).value))
  <2>1. ~Field(id, v).constructed
    BY DEF Field
  <2> QED
    BY <2>1, InsertOneField
<1>10. Field(id, v).id = id % 32 /\ Field(id, v).value = v
  BY DEF Field
<1> QED
  BY <1>5, <1>8, <1>9, <1>10 DEF value, b, e

\* The loop of from_bytes, field by field.
ReadsTo(F, fields) ==
  /\ F[0] = Unread
  /\ \A i \in 1..Len(fields) : F[i] = TakeField(F[i - 1], fields[i])
  /\ ReadFields(fields) = F[Len(fields)]

\* There is such a function, and ReadFields is its last value.
LEMMA ReadStates ==
  ASSUME NEW fields, Len(fields) \in Nat
  PROVE  \E F : ReadsTo(F, fields)
<1> DEFINE n == Len(fields)
           Step(F, i) == IF i = 0 THEN Unread ELSE TakeField(F[i - 1], fields[i])
           IsRun(F, k) == F = [i \in 0..k |-> Step(F, i)]
           S == {k \in Nat : \E F : IsRun(F, k)}
<1>1. 0 \in S
  <2> DEFINE F == [i \in 0..0 |-> Unread]
  <2>1. IsRun(F, 0)
    OBVIOUS
  <2> HIDE DEF F, IsRun
  <2> QED
    BY <2>1
<1>2. ASSUME NEW k \in Nat, k \in S PROVE k + 1 \in S
  <2>1. PICK F : IsRun(F, k)
    BY <1>2
  <2> DEFINE G == [i \in 0..k + 1 |-> IF i = k + 1 THEN Step(F, k + 1) ELSE F[i]]
  <2>2. \A i \in 0..k + 1 : i = k + 1 \/ i \in 0..k
    OBVIOUS
  <2>3. \A i \in 0..k : i # k + 1 /\ i \in 0..k + 1
    OBVIOUS
  <2>4. ASSUME NEW i \in 0..k + 1 PROVE G[i] = Step(G, i)
    <3>1. i = 0 \/ i - 1 \in 0..k
      OBVIOUS
    <3>2. i # 0 => G[i - 1] = F[i - 1]
      BY <2>3, <3>1
    <3>3. Step(G, i) = Step(F, i)
      <4> HIDE DEF G
      <4> QED
        BY <3>2
    <3>4. CASE i = k + 1
      <4>1. G[i] = Step(F, k + 1)
        <5> HIDE DEF Step
        <5> QED
          BY <3>4
      <4> HIDE DEF G, Step
      <4> QED
        BY <3>3, <3>4, <4>1
    <3>5. CASE i \in 0..k
      <4>1. F[i] = Step(F, i)
        <5> HIDE DEF Step
        <5> QED
          BY <2>1, <3>5
      <4>2. G[i] = F[i]
        <5> HIDE DEF Step
        <5> QED
          BY <2>3, <3>5
      <4> HIDE DEF G, Step
      <4> QED
        BY <3>3, <4>1, <4>2
    <3> QED
      BY <2>2, <3>4, <3>5
  <2>5. IsRun(G, k + 1)
    <3>1. G = [i \in 0..k + 1 |-> G[i]]
      <4> HIDE DEF Step
      <4> QED
        OBVIOUS
    <3> HIDE DEF G, Step
    <3> QED
      BY <2>4, <3>1
  <2> HIDE DEF G, IsRun
  <2> QED
    BY <2>5
<1>3. \E F : IsRun(F, n)
  <2> HIDE DEF S
  <2>1. n \in S
    BY <1>1, <1>2, SetInduction
  <2> QED
    BY <2>1 DEF S
<1> DEFINE H == CHOOSE F : IsRun(F, n)
<1>4. IsRun(H, n)
  <2> HIDE DEF IsRun
  <2> QED
    BY <1>3
<1>5. ReadFields(fields) = H[n]
  BY DEF ReadFields
<1>6. \A i \in 0..n : H[i] = Step(H, i)
  <2> HIDE DEF H, Step
  <2> QED
    BY <1>4
<1> HIDE DEF H
<1>7. 0 \in 0..n /\ \A i \in 1..n : i \in 0..n /\ i # 0
  OBVIOUS
<1> QED
  BY <1>5, <1>6, <1>7 DEF ReadsTo

\* The fields of a stored key, in some order of its tags: number and value.
NumberIn(i) == IF i <= 3 THEN i - 1 ELSE TAG_CONTAINER
ValueIn(key, order, i) ==
  IF i <= 3 THEN key.fixed[i - 1]
  ELSE <<FlagsOf(key.tags[order[i - 3]].permissions)>>
         \o EncodeTlv(order[i - 3], key.tags[order[i - 3]].data)

\* What from_bytes has after so many of them.
ReadAfter(key, order, i) ==
  [fixed |-> [id \in 0..2 |-> IF id < i THEN key.fixed[id] ELSE None],
   tags  |-> [id \in {order[l] : l \in 1..i - 3} |-> key.tags[id]],
   wrong |-> FALSE]

\* A stored key and an order of its tags.
InOrder(key, order) == Len(order) \in Nat /\ \A l \in 1..Len(order) : order[l] \in DOMAIN key.tags

\* What Storable says of one tag.
LEMMA StorableTag ==
  ASSUME NEW key, Storable(key), NEW id \in DOMAIN key.tags
  PROVE  /\ id \in Nat /\ id % 32 = id /\ OneByteTag(id) /\ id \notin SystemTags
         /\ key.tags[id].data \in Seq(Byte) /\ Fits(key.tags[id].data)
         /\ key.tags[id].permissions \in SUBSET Flags
         /\ key.tags[id] = Tag(key.tags[id].permissions, key.tags[id].data)
         /\ Fits(<<FlagsOf(key.tags[id].permissions)>> \o EncodeTlv(id, key.tags[id].data))
         /\ <<FlagsOf(key.tags[id].permissions)>> \o EncodeTlv(id, key.tags[id].data) \in Seq(Byte)
<1> DEFINE v == key.tags[id].data
           p == key.tags[id].permissions
           max == K * K * K
<1>0. DOMAIN key.tags \subseteq 0..30 \ SystemTags
  BY DEF Storable
<1>1. id \in Nat /\ id <= 30 /\ id \notin SystemTags
  <2> HIDE DEF max
  <2> QED
    BY <1>0
<1>2. id % 32 = id /\ id # 31
  BY <1>1
<1>3. OneByteTag(id)
  BY <1>2 DEF OneByteTag
<1>4. key.tags[id] \in TagType
  BY DEF Storable, IsMobileKey
<1>5. v \in Seq(Byte) /\ p \in SUBSET Flags /\ key.tags[id] = Tag(p, v)
  BY <1>4 DEF TagType, Tag
<1>6. Len(v) + 6 < max /\ max \in Nat
  BY DEF Storable, K
<1> HIDE DEF max, v, p
<1>7. Fits(v)
  <2>1. Len(v) < max
    BY <1>5, <1>6
  <2> QED
    BY <2>1 DEF Fits, max
<1>8. /\ <<FlagsOf(p)>> \o EncodeTlv(id, v) \in Seq(Byte)
      /\ Len(<<FlagsOf(p)>> \o EncodeTlv(id, v)) = 1 + Len(EncodeTlv(id, v))
  BY <1>1, <1>3, <1>5, <1>7, ContainerReadsBack
<1>9. Len(EncodeTlv(id, v)) = 1 + Len(EncodeLength(Len(v))) + Len(v)
  BY <1>1, <1>3, <1>5, <1>7, EncodeTlvShape
<1>10. Len(EncodeLength(Len(v))) \in Nat /\ Len(EncodeLength(Len(v))) <= 4
  BY DEF EncodeLength
<1>11. Fits(<<FlagsOf(p)>> \o EncodeTlv(id, v))
  <2>1. Len(<<FlagsOf(p)>> \o EncodeTlv(id, v)) < max
    BY <1>5, <1>6, <1>8, <1>9, <1>10
  <2> QED
    BY <2>1 DEF Fits, max
<1> QED
  BY <1>1, <1>2, <1>3, <1>5, <1>7, <1>8, <1>11 DEF v, p

\* to_bytes writes fields that can be read.
LEMMA StoredFields ==
  ASSUME NEW key, Storable(key), NEW order, InOrder(key, order), NEW i \in 1..3 + Len(order)
  PROVE  /\ NumberIn(i) \in Nat /\ OneByteTag(NumberIn(i))
         /\ ValueIn(key, order, i) \in Seq(Byte) /\ Fits(ValueIn(key, order, i))
<1>0. Len(order) \in Nat /\ i \in Nat /\ i >= 1 /\ i <= 3 + Len(order)
  BY DEF InOrder
<1>1. CASE i <= 3
  <2>1. i - 1 \in 0..2 /\ NumberIn(i) = i - 1 /\ ValueIn(key, order, i) = key.fixed[i - 1]
    BY <1>0, <1>1 DEF NumberIn, ValueIn
  <2>2. key.fixed[i - 1] \in Seq(Byte) /\ Fits(key.fixed[i - 1])
    BY <2>1 DEF Storable, IsMobileKey, Fits
  <2>3. (i - 1) % 32 # 31
    BY <2>1
  <2> QED
    BY <2>1, <2>2, <2>3 DEF OneByteTag
<1>2. CASE i > 3
  <2>1. i - 3 \in 1..Len(order) /\ ~(i <= 3)
    BY <1>0, <1>2
  <2>2. order[i - 3] \in DOMAIN key.tags
    BY <2>1 DEF InOrder
  <2>3. ValueIn(key, order, i) \in Seq(Byte) /\ Fits(ValueIn(key, order, i))
    BY <2>1, <2>2, StorableTag DEF ValueIn
  <2>4. NumberIn(i) = 3 /\ 3 % 32 # 31
    BY <2>1 DEF NumberIn, TAG_CONTAINER
  <2> QED
    BY <2>3, <2>4 DEF OneByteTag
<1> QED
  BY <1>0, <1>1, <1>2

\* A half-read key with other fixed.
LEMMA WithFixed ==
  ASSUME NEW a, NEW b, NEW x, NEW key, key = [fixed |-> a, tags |-> b, wrong |-> FALSE]
  PROVE  [key EXCEPT !.fixed = x] = [fixed |-> x, tags |-> b, wrong |-> FALSE]
<1> DEFINE now == [key EXCEPT !.fixed = x]
           r == [fixed |-> x, tags |-> b, wrong |-> FALSE]
<1>1. DOMAIN now = {"fixed", "tags", "wrong"} /\ now = [i \in DOMAIN now |-> now[i]]
  OBVIOUS
<1>2. DOMAIN r = {"fixed", "tags", "wrong"} /\ r = [i \in DOMAIN r |-> r[i]]
  OBVIOUS
<1>3. now["fixed"] = r["fixed"] /\ now["tags"] = r["tags"] /\ now["wrong"] = r["wrong"]
  OBVIOUS
<1> HIDE DEF now, r
<1>4. now = r
  BY <1>1, <1>2, <1>3
<1> QED
  BY <1>4 DEF now, r

\* A half-read key with other tags.
LEMMA WithTags ==
  ASSUME NEW a, NEW b, NEW x, NEW key, key = [fixed |-> a, tags |-> b, wrong |-> FALSE]
  PROVE  [key EXCEPT !.tags = x] = [fixed |-> a, tags |-> x, wrong |-> FALSE]
<1> DEFINE now == [key EXCEPT !.tags = x]
           r == [fixed |-> a, tags |-> x, wrong |-> FALSE]
<1>1. DOMAIN now = {"fixed", "tags", "wrong"} /\ now = [i \in DOMAIN now |-> now[i]]
  OBVIOUS
<1>2. DOMAIN r = {"fixed", "tags", "wrong"} /\ r = [i \in DOMAIN r |-> r[i]]
  OBVIOUS
<1>3. now["fixed"] = r["fixed"] /\ now["tags"] = r["tags"] /\ now["wrong"] = r["wrong"]
  OBVIOUS
<1> HIDE DEF now, r
<1>4. now = r
  BY <1>1, <1>2, <1>3
<1> QED
  BY <1>4 DEF now, r

\* One of them is read.
LEMMA TakeStored ==
  ASSUME NEW key, Storable(key), NEW order, InOrder(key, order), NEW i \in 1..3 + Len(order)
  PROVE  TakeField(ReadAfter(key, order, i - 1), Field(NumberIn(i), ValueIn(key, order, i)))
           = ReadAfter(key, order, i)
<1> DEFINE was == ReadAfter(key, order, i - 1)
           f == Field(NumberIn(i), ValueIn(key, order, i))
<1>0. Len(order) \in Nat /\ i \in Nat /\ i >= 1 /\ i <= 3 + Len(order)
  BY DEF InOrder
<1>1. ~was.wrong /\ ~f.constructed
  BY DEF ReadAfter, Field
<1>2. CASE i <= 3
  <2>1. f.id = i - 1 /\ f.value = key.fixed[i - 1] /\ i - 1 \in 0..2
    <3>1. i - 1 \in 0..2 /\ NumberIn(i) = i - 1 /\ ValueIn(key, order, i) = key.fixed[i - 1]
      BY <1>0, <1>2 DEF NumberIn, ValueIn
    <3>2. (i - 1) % 32 = i - 1
      BY <3>1
    <3> QED
      BY <3>1, <3>2 DEF Field
  <2>2. ~(f.id = TAG_KN_KEY /\ Len(f.value) # 16)
    BY <2>1 DEF Storable, Kn, TAG_KN_KEY
  <2> HIDE DEF f
  <2>3. TakeField(was, f) = [was EXCEPT !.fixed = [was.fixed EXCEPT ![i - 1] = key.fixed[i - 1]]]
    BY <1>1, <2>1, <2>2 DEF TakeField
  <2>4. [was.fixed EXCEPT ![i - 1] = key.fixed[i - 1]] = ReadAfter(key, order, i).fixed
    <3>1. was.fixed = [id \in 0..2 |-> IF id < i - 1 THEN key.fixed[id] ELSE None]
      BY DEF ReadAfter
    <3>2. ReadAfter(key, order, i).fixed = [id \in 0..2 |-> IF id < i THEN key.fixed[id] ELSE None]
      BY DEF ReadAfter
    <3>3. \A id \in 0..2 : id < i <=> id < i - 1 \/ id = i - 1
      BY <1>0
    <3> QED
      BY <2>1, <3>1, <3>2, <3>3
  <2>5. was.tags = ReadAfter(key, order, i).tags
    <3>1. 1..(i - 1) - 3 = {} /\ 1..i - 3 = {}
      BY <1>0, <1>2
    <3> QED
      BY <3>1 DEF ReadAfter
  <2>6. was = [fixed |-> was.fixed, tags |-> was.tags, wrong |-> FALSE]
    BY DEF ReadAfter
  <2>7. ReadAfter(key, order, i) = [fixed |-> ReadAfter(key, order, i).fixed,
                                    tags |-> ReadAfter(key, order, i).tags, wrong |-> FALSE]
    BY DEF ReadAfter
  <2> HIDE DEF was
  <2> QED
    <3>1. TakeField(was, f) = ReadAfter(key, order, i)
      <4> DEFINE x == [was.fixed EXCEPT ![i - 1] = key.fixed[i - 1]]
      <4>1. TakeField(was, f) = [was EXCEPT !.fixed = x]
        BY <2>3
      <4>2. x = ReadAfter(key, order, i).fixed
        BY <2>4
      <4> HIDE DEF x
      <4>3. [was EXCEPT !.fixed = x] = [fixed |-> x, tags |-> was.tags, wrong |-> FALSE]
        BY <2>6, WithFixed
      <4> QED
        BY <2>5, <2>7, <4>1, <4>2, <4>3
    <3> QED
      BY <3>1 DEF was, f
<1>3. CASE i > 3
  <2> DEFINE id == order[i - 3]
             p == key.tags[id].permissions
             v == key.tags[id].data
             now == [j \in {order[l] : l \in 1..i - 3} |-> key.tags[j]]
  <2>1. i - 3 \in 1..Len(order) /\ ~(i <= 3) /\ (i - 1) - 3 = i - 4
    BY <1>0, <1>3
  <2>2. id \in DOMAIN key.tags
    BY <2>1 DEF InOrder
  <2>3. /\ id \in Nat /\ id % 32 = id /\ OneByteTag(id) /\ v \in Seq(Byte) /\ Fits(v)
        /\ p \in SUBSET Flags /\ key.tags[id] = Tag(p, v)
    BY <2>2, StorableTag
  <2>4. f.id = 3 /\ f.value = <<FlagsOf(p)>> \o EncodeTlv(id, v)
    BY SMTT(40), <2>1 DEF Field, NumberIn, ValueIn, TAG_CONTAINER
  <2> HIDE DEF f, id, p, v
  <2>5. TakeField(was, f) = InsertContainer(was, f.value)
    <3>1. f.id # TAG_KN_KEY /\ f.id \notin 0..2 /\ f.id = TAG_CONTAINER
      BY <2>4 DEF TAG_KN_KEY, TAG_CONTAINER
    <3> HIDE DEF was
    <3> QED
      BY <1>1, <3>1 DEF TakeField
  <2>6. InsertContainer(was, f.value) = InsertTag(was, id, key.tags[id])
    <3> HIDE DEF was
    <3> QED
      BY <2>3, <2>4, ContainerReadsBack
  <2>7. DOMAIN was.tags = {order[l] : l \in 1..i - 4} /\ \A j \in DOMAIN was.tags : was.tags[j] = key.tags[j]
    BY <2>1 DEF ReadAfter
  <2>8. {order[l] : l \in 1..i - 4} \cup {id} = {order[l] : l \in 1..i - 3}
    <3>1. \A l : l \in 1..i - 3 <=> l \in 1..i - 4 \/ l = i - 3
      BY <1>0, <1>3
    <3> QED
      BY <3>1 DEF id
  <2>9. [j \in DOMAIN was.tags \cup {id} |-> IF j = id THEN key.tags[id] ELSE was.tags[j]] = now
    <3> HIDE DEF was
    <3> QED
      BY <2>7, <2>8
  <2>10. was.fixed = ReadAfter(key, order, i).fixed
    <3>1. \A j \in 0..2 : j < i /\ j < i - 1
      BY <1>0, <1>3
    <3> QED
      BY <3>1 DEF ReadAfter
  <2>11. was = [fixed |-> was.fixed, tags |-> was.tags, wrong |-> FALSE]
    BY DEF ReadAfter
  <2>12. ReadAfter(key, order, i) = [fixed |-> ReadAfter(key, order, i).fixed, tags |-> now, wrong |-> FALSE]
    BY DEF ReadAfter
  <2> HIDE DEF was, now
  <2>13. InsertTag(was, id, key.tags[id]) = [was EXCEPT !.tags = now]
    BY <2>9 DEF InsertTag
  <2> QED
    <3>1. TakeField(was, f) = ReadAfter(key, order, i)
      BY <2>5, <2>6, <2>10, <2>11, <2>12, <2>13, WithTags
    <3> QED
      BY <3>1 DEF was, f
<1> QED
  BY <1>0, <1>2, <1>3

\* The loop of from_bytes, on the first so many fields of a stored key.
LEMMA StoredReadTo ==
  ASSUME NEW key, Storable(key), NEW order, InOrder(key, order), NEW n \in 0..3 + Len(order),
         NEW fields, Len(fields) = n,
         \A i \in 1..n : fields[i] = Field(NumberIn(i), ValueIn(key, order, i))
  PROVE  ReadFields(fields) = ReadAfter(key, order, n)
<1>0. Len(order) \in Nat /\ n \in Nat /\ n <= 3 + Len(order)
  BY DEF InOrder
<1>1. PICK F : ReadsTo(F, fields)
  BY <1>0, ReadStates
<1> DEFINE S == {m \in Nat : m <= n => F[m] = ReadAfter(key, order, m)}
<1>2. 0 \in S
  <2>1. ReadAfter(key, order, 0).fixed = Unread.fixed
    <3>1. \A id \in 0..2 : ~(id < 0)
      OBVIOUS
    <3> QED
      BY <3>1 DEF ReadAfter, Unread
  <2>2. ReadAfter(key, order, 0).tags = Unread.tags
    <3>1. 1..0 - 3 = {}
      OBVIOUS
    <3> QED
      BY <3>1 DEF ReadAfter, Unread
  <2>3. ReadAfter(key, order, 0) = [fixed |-> ReadAfter(key, order, 0).fixed,
                                    tags |-> ReadAfter(key, order, 0).tags, wrong |-> FALSE]
    BY DEF ReadAfter
  <2>4. Unread = [fixed |-> Unread.fixed, tags |-> Unread.tags, wrong |-> FALSE]
    BY DEF Unread
  <2>5. F[0] = ReadAfter(key, order, 0)
    BY <1>1, <2>1, <2>2, <2>3, <2>4 DEF ReadsTo
  <2> QED
    BY <2>5
<1>3. ASSUME NEW m \in Nat, m \in S PROVE m + 1 \in S
  <2> SUFFICES ASSUME m + 1 <= n PROVE F[m + 1] = ReadAfter(key, order, m + 1)
    OBVIOUS
  <2>1. m + 1 \in 1..n /\ m + 1 \in 1..3 + Len(order) /\ m <= n /\ (m + 1) - 1 = m
    BY <1>0
  <2>2. F[m] = ReadAfter(key, order, m)
    BY <1>3, <2>1
  <2> HIDE DEF S
  <2>3. F[m + 1] = TakeField(F[m], fields[m + 1])
    <3>1. \A i \in 1..Len(fields) : F[i] = TakeField(F[i - 1], fields[i])
      BY <1>1 DEF ReadsTo
    <3> QED
      BY <2>1, <3>1
  <2>4. fields[m + 1] = Field(NumberIn(m + 1), ValueIn(key, order, m + 1))
    BY <2>1
  <2>5. TakeField(ReadAfter(key, order, m), Field(NumberIn(m + 1), ValueIn(key, order, m + 1)))
          = ReadAfter(key, order, m + 1)
    <3>1. TakeField(ReadAfter(key, order, (m + 1) - 1), Field(NumberIn(m + 1), ValueIn(key, order, m + 1)))
            = ReadAfter(key, order, m + 1)
      BY <2>1, TakeStored
    <3> QED
      BY <2>1, <3>1
  <2> QED
    BY <2>2, <2>3, <2>4, <2>5
<1>4. n \in S
  <2> HIDE DEF S
  <2> QED
    BY <1>0, <1>2, <1>3, SetInduction
<1> QED
  BY <1>0, <1>1, <1>4 DEF ReadsTo

-----------------------------------------------------------------------------
\* The tags that are there on every load.
Audit == {TAG_DEPRECATED_AUDIT, TAG_AUDIT}

AuditTag == Tag({"WRITABLE", "WRITE_WITHOUT_SECURITY"}, <<>>)

\* The end of from_bytes, for a key that has neither.
LEMMA AuditAdded ==
  ASSUME NEW fixed, NEW tags, Audit \cap DOMAIN tags = {}
  PROVE  MaterialiseSystemTags([fixed |-> fixed, tags |-> tags]) =
           [fixed |-> fixed,
            tags  |-> [id \in DOMAIN tags \cup Audit |-> IF id \in Audit THEN AuditTag ELSE tags[id]]]
<1> DEFINE a == TAG_DEPRECATED_AUDIT
           b == TAG_AUDIT
           key == [fixed |-> fixed, tags |-> tags]
           one == [i \in DOMAIN tags \cup {a} |-> IF i = a THEN AuditTag ELSE tags[i]]
           two == [i \in DOMAIN one \cup {b} |-> IF i = b THEN AuditTag ELSE one[i]]
           all == [id \in DOMAIN tags \cup Audit |-> IF id \in Audit THEN AuditTag ELSE tags[id]]
<1>0. a # b /\ a \notin DOMAIN tags /\ b \notin DOMAIN tags /\ Audit = {a, b}
  BY DEF Audit, TAG_DEPRECATED_AUDIT, TAG_AUDIT
<1> HIDE DEF a, b
<1>1. InsertTag(key, a, AuditTag) = [fixed |-> fixed, tags |-> one]
  <2> HIDE DEF one
  <2>1. InsertTag(key, a, AuditTag) = [key EXCEPT !.tags = one]
    BY DEF InsertTag, one
  <2> QED
    BY <2>1
<1>2. InsertTag([fixed |-> fixed, tags |-> one], b, AuditTag) = [fixed |-> fixed, tags |-> two]
  <2>1. InsertTag([fixed |-> fixed, tags |-> one], b, AuditTag) =
          [[fixed |-> fixed, tags |-> one] EXCEPT !.tags = two]
    BY DEF InsertTag
  <2> HIDE DEF one, two
  <2> QED
    BY <2>1
<1>3. b \notin DOMAIN one
  BY <1>0
<1>4. MaterialiseSystemTags(key) = [fixed |-> fixed, tags |-> two]
  <2> HIDE DEF one, two
  <2> QED
    BY <1>0, <1>1, <1>2, <1>3 DEF MaterialiseSystemTags, AuditTag, a, b
<1>5. two = all
  BY <1>0
<1> QED
  BY <1>4, <1>5

\* What is read of a stored key: its fixed fields and the tags in D.
ReadWith(key, D) == MaterialiseSystemTags([fixed |-> key.fixed, tags |-> [id \in D |-> key.tags[id]]])

\* It is part of the key with the audit tags, and all of it when D is all.
LEMMA ReadIsPart ==
  ASSUME NEW key, Storable(key), NEW D \in SUBSET DOMAIN key.tags
  PROVE  IsPartOf(ReadWith(key, D), MaterialiseSystemTags(key))
<1> DEFINE part == [id \in D |-> key.tags[id]]
<1>1. Audit \cap DOMAIN key.tags = {}
  BY DEF Storable, SystemTags, Audit
<1>2. key = [fixed |-> key.fixed, tags |-> key.tags]
  BY DEF Storable, IsMobileKey
<1>3. DOMAIN part = D
  OBVIOUS
<1>4. Audit \cap DOMAIN part = {}
  BY <1>1, <1>3
<1>5. MaterialiseSystemTags(key) =
        [fixed |-> key.fixed,
         tags  |-> [id \in DOMAIN key.tags \cup Audit |-> IF id \in Audit THEN AuditTag ELSE key.tags[id]]]
  <2>1. MaterialiseSystemTags([fixed |-> key.fixed, tags |-> key.tags]) =
          [fixed |-> key.fixed,
           tags  |-> [id \in DOMAIN key.tags \cup Audit |-> IF id \in Audit THEN AuditTag ELSE key.tags[id]]]
    BY <1>1, AuditAdded
  <2> QED
    BY <1>2, <2>1
<1>6. ReadWith(key, D) =
        [fixed |-> key.fixed,
         tags  |-> [id \in D \cup Audit |-> IF id \in Audit THEN AuditTag ELSE part[id]]]
  <2>1. ReadWith(key, D) = MaterialiseSystemTags([fixed |-> key.fixed, tags |-> part])
    BY DEF ReadWith
  <2> HIDE DEF part
  <2> QED
    BY <1>3, <1>4, <2>1, AuditAdded
<1>7. \A id \in D : part[id] = key.tags[id]
  OBVIOUS
<1> HIDE DEF part
<1> QED
  BY <1>5, <1>6, <1>7 DEF IsPartOf

\* With all of its tags it is that key.
LEMMA ReadAll ==
  ASSUME NEW key, Storable(key)
  PROVE  ReadWith(key, DOMAIN key.tags) = MaterialiseSystemTags(key)
<1>1. key.tags = [id \in DOMAIN key.tags |-> key.tags[id]]
  BY DEF Storable, IsMobileKey
<1>2. key = [fixed |-> key.fixed, tags |-> key.tags]
  BY DEF Storable, IsMobileKey
<1> QED
  BY <1>1, <1>2 DEF ReadWith

\* An order of the stored tags has each of them.
LEMMA OrdersAreComplete ==
  ASSUME NEW key, Storable(key), NEW order \in SetToSeqs(StoredTags(key))
  PROVE  /\ InOrder(key, order)
         /\ {order[l] : l \in 1..Len(order)} = DOMAIN key.tags
<1> DEFINE T == DOMAIN key.tags
           D == 1..Cardinality(T)
<1>0. T \subseteq 0..30 \ SystemTags
  BY DEF Storable
<1>1. StoredTags(key) = T
  BY <1>0 DEF StoredTags
<1>2. IsFiniteSet(T) /\ Cardinality(T) \in Nat
  <2>1. IsFiniteSet(0..30)
    <3>1. 0 \in Int /\ 30 \in Int
      OBVIOUS
    <3> QED
      BY <3>1, FS_Interval
  <2>2. IsFiniteSet(T)
    BY <1>0, <2>1, FS_Subset
  <2> QED
    BY <2>2, FS_CardinalityType
<1>3. order \in [D -> T] /\ \A i, j \in D : i # j => order[i] # order[j]
  <2>1. order \in SetToSeqs(T)
    BY <1>1
  <2> HIDE DEF T
  <2> QED
    BY <2>1 DEF SetToSeqs
<1>4. IsFiniteSet(D) /\ Cardinality(D) = Cardinality(T)
  BY <1>2, FS_Interval
<1> HIDE DEF T
<1>5. Len(order) = Cardinality(T)
  BY <1>2, <1>3
<1>6. order \in Surjection(D, T)
  <2> HIDE DEF D
  <2>1. order \in Injection(D, T)
    BY <1>3 DEF Injection, IsInjective
  <2> QED
    BY <1>2, <1>4, <2>1, FS_Injection
<1>7. \A id \in T : \E l \in D : order[l] = id
  <2> HIDE DEF D
  <2> QED
    BY <1>6 DEF Surjection
<1> QED
  BY <1>2, <1>3, <1>5, <1>7 DEF InOrder, T

\* from_bytes on what the loop made of so many fields.
LEMMA StoredGives ==
  ASSUME NEW key, Storable(key), NEW order, InOrder(key, order), NEW j \in 0..3 + Len(order),
         NEW data, ReadFields(ParseAll(data)) = ReadAfter(key, order, j)
  PROVE  IF j < 3 THEN "ok" \notin DOMAIN FromBytes(data)
         ELSE FromBytes(data) = Loaded(ReadWith(key, {order[l] : l \in 1..j - 3}))
<1> DEFINE read == ReadAfter(key, order, j)
<1>0. j \in Nat
  BY DEF InOrder
<1>1. ~read.wrong /\ read.fixed = [id \in 0..2 |-> IF id < j THEN key.fixed[id] ELSE None]
      /\ read.tags = [id \in {order[l] : l \in 1..j - 3} |-> key.tags[id]]
  BY DEF ReadAfter
<1>2. FromBytes(data) =
        IF \E id \in 0..2 : read.fixed[id] = None THEN NotAKey("TlvError")
        ELSE Loaded(MaterialiseSystemTags([fixed |-> read.fixed, tags |-> read.tags]))
  BY <1>1 DEF FromBytes
<1> HIDE DEF read
<1>3. CASE j < 3
  <2>1. 2 \in 0..2 /\ ~(2 < j)
    BY <1>0, <1>3
  <2>2. read.fixed[2] = None
    BY <1>1, <2>1
  <2>3. FromBytes(data) = NotAKey("TlvError")
    BY <1>2, <2>1, <2>2
  <2> QED
    BY <1>3, <2>3 DEF NotAKey
<1>4. CASE ~(j < 3)
  <2>1. \A id \in 0..2 : id < j
    BY <1>0, <1>4
  <2>2. key.fixed \in [0..2 -> Seq(Byte)]
    BY DEF Storable, IsMobileKey
  <2>3. read.fixed = key.fixed
    <3>1. \A id \in 0..2 : read.fixed[id] = key.fixed[id]
      BY <1>1, <2>1
    <3> QED
      BY SMTT(40), <1>1, <2>2, <3>1
  <2>4. \A id \in 0..2 : key.fixed[id] # None
    BY <2>2, NoneAssumption
  <2> QED
    BY <1>1, <1>2, <1>4, <2>3, <2>4 DEF ReadWith
<1> QED
  BY <1>3, <1>4

\* to_bytes, field by field.
LEMMA StoredForm ==
  ASSUME NEW key, Storable(key), NEW order, InOrder(key, order), NEW n, n = 3 + Len(order)
  PROVE  ToBytes(key, order) = FlattenSeq([i \in 1..n |-> EncodeTlv(NumberIn(i), ValueIn(key, order, i))])
<1>1. \A i \in 1..n : (IF i <= 3 THEN EncodeTlv(i - 1, key.fixed[i - 1]) ELSE EncodeTag(key, order[i - 3]))
                        = EncodeTlv(NumberIn(i), ValueIn(key, order, i))
  BY DEF NumberIn, ValueIn, EncodeTag
<1>2. [i \in 1..n |-> IF i <= 3 THEN EncodeTlv(i - 1, key.fixed[i - 1]) ELSE EncodeTag(key, order[i - 3])]
        = [i \in 1..n |-> EncodeTlv(NumberIn(i), ValueIn(key, order, i))]
  BY <1>1
<1> QED
  BY <1>2 DEF ToBytes

\* A key that to_bytes stored is the key that from_bytes loads, in any order of
\* its tags, with the audit tags; a part of its bytes is part of the key, or no key.
LEMMA KeyReadsBack ==
  ASSUME NEW key, Storable(key), NEW order \in SetToSeqs(StoredTags(key))
  PROVE  /\ ToBytes(key, order) \in Seq(Byte)
         /\ FromBytes(ToBytes(key, order)) = Loaded(MaterialiseSystemTags(key))
         /\ \A k \in 0..Len(ToBytes(key, order)) :
              LET r == FromBytes(SubSeq(ToBytes(key, order), 1, k))
              IN  "ok" \in DOMAIN r => IsPartOf(r.ok, MaterialiseSystemTags(key))
<1> DEFINE n      == 3 + Len(order)
           ids    == [i \in 1..n |-> NumberIn(i)]
           vals   == [i \in 1..n |-> ValueIn(key, order, i)]
           fields == [i \in 1..n |-> Field(ids[i], vals[i])]
           bytes  == FlattenSeq([i \in 1..n |-> EncodeTlv(ids[i], vals[i])])
           some(j) == {order[l] : l \in 1..j - 3}
<1>1. InOrder(key, order) /\ {order[l] : l \in 1..Len(order)} = DOMAIN key.tags
  BY OrdersAreComplete
<1>2. n \in Nat /\ n >= 3 /\ Len(order) \in Nat
  BY <1>1 DEF InOrder
<1>3. ids = [i \in 1..n |-> NumberIn(i)] /\ vals = [i \in 1..n |-> ValueIn(key, order, i)]
  OBVIOUS
<1> HIDE DEF ids, vals
<1>4. \A i \in 1..n : ids[i] = NumberIn(i) /\ vals[i] = ValueIn(key, order, i)
  BY <1>3
<1>5. ToBytes(key, order) = bytes
  <2>1. ToBytes(key, order) = FlattenSeq([i \in 1..n |-> EncodeTlv(NumberIn(i), ValueIn(key, order, i))])
    BY <1>1, StoredForm
  <2>2. [i \in 1..n |-> EncodeTlv(NumberIn(i), ValueIn(key, order, i))] =
          [i \in 1..n |-> EncodeTlv(ids[i], vals[i])]
    BY <1>4
  <2> QED
    BY <2>1, <2>2
<1>6. Fields(n, ids, vals)
  <2>1. \A i \in 1..n : /\ NumberIn(i) \in Nat /\ OneByteTag(NumberIn(i))
                        /\ ValueIn(key, order, i) \in Seq(Byte) /\ Fits(ValueIn(key, order, i))
    BY <1>1, StoredFields
  <2> HIDE DEF n
  <2> QED
    BY <1>2, <1>4, <2>1 DEF Fields
<1>7. /\ bytes \in Seq(Byte) /\ ParseAll(bytes) = fields
      /\ \A k \in 0..Len(bytes) : \E j \in 0..n : ParseAll(SubSeq(bytes, 1, k)) = SubSeq(fields, 1, j)
  <2> HIDE DEF n
  <2>1. n # 0
    BY <1>2
  <2>2. ReadBack(n, ids, vals)
    BY <1>6, <2>1, FieldsReadBack
  <2> QED
    BY <2>2 DEF ReadBack
<1>8. /\ Len(fields) = n /\ fields = [i \in 1..n |-> fields[i]]
      /\ \A i \in 1..n : fields[i] = Field(NumberIn(i), ValueIn(key, order, i))
  BY <1>2, <1>4
<1> HIDE DEF fields, bytes
<1>9. ASSUME NEW j \in 0..n, NEW data, ParseAll(data) = SubSeq(fields, 1, j)
      PROVE  ReadFields(ParseAll(data)) = ReadAfter(key, order, j)
  <2> DEFINE first == SubSeq(fields, 1, j)
  <2>1. Len(first) = j /\ \A i \in 1..j : first[i] = fields[i]
    <3>1. /\ Len(first) = IF 1 <= j THEN j - 1 + 1 ELSE 0
          /\ \A i \in 1..j - 1 + 1 : first[i] = fields[1 + i - 1]
      <4>1. 1 \in Int /\ j \in Int /\ \A i \in 1..j : fields[i] \in {fields[l] : l \in 1..n}
        BY <1>2
      <4> QED
        BY <4>1, SubSeqProperties
    <3> HIDE DEF first
    <3>2. j - 1 + 1 = j /\ \A i \in 1..j : 1 + i - 1 = i
      BY <1>2
    <3> QED
      BY <1>2, <3>1, <3>2
  <2>2. \A i \in 1..j : first[i] = Field(NumberIn(i), ValueIn(key, order, i))
    <3>1. \A i \in 1..j : i \in 1..n
      BY <1>2
    <3> QED
      BY <1>8, <2>1, <3>1
  <2> HIDE DEF first
  <2>3. j \in 0..3 + Len(order)
    OBVIOUS
  <2>4. ReadFields(first) = ReadAfter(key, order, j)
    BY <1>1, <2>1, <2>2, <2>3, StoredReadTo
  <2> QED
    BY <1>9, <2>4 DEF first
<1>10. FromBytes(bytes) = Loaded(MaterialiseSystemTags(key))
  <2>1. n \in 0..n /\ n \in 0..3 + Len(order) /\ ~(n < 3) /\ n - 3 = Len(order)
    BY <1>2
  <2>2. fields = SubSeq(fields, 1, n)
    <3>1. fields \in Seq({fields[i] : i \in 1..n})
      BY <1>2, <1>8
    <3> QED
      BY <1>8, <3>1, SubSeqFull
  <2>3. ReadFields(ParseAll(bytes)) = ReadAfter(key, order, n)
    BY <1>7, <1>9, <2>1, <2>2
  <2> HIDE DEF n
  <2>4. FromBytes(bytes) = Loaded(ReadWith(key, {order[l] : l \in 1..n - 3}))
    BY <1>1, <2>1, <2>3, StoredGives
  <2> QED
    BY <1>1, <2>1, <2>4, ReadAll
<1>11. ASSUME NEW k \in 0..Len(bytes), NEW r, r = FromBytes(SubSeq(bytes, 1, k)), "ok" \in DOMAIN r
       PROVE  IsPartOf(r.ok, MaterialiseSystemTags(key))
  <2>1. PICK j \in 0..n : ParseAll(SubSeq(bytes, 1, k)) = SubSeq(fields, 1, j)
    BY <1>7
  <2>2. ReadFields(ParseAll(SubSeq(bytes, 1, k))) = ReadAfter(key, order, j)
    BY <1>9, <2>1
  <2>3. j \in 0..3 + Len(order)
    OBVIOUS
  <2>4. r = Loaded(ReadWith(key, some(j))) /\ ~(j < 3)
    BY <1>1, <1>11, <2>2, <2>3, StoredGives
  <2>5. some(j) \subseteq DOMAIN key.tags
    <3>1. \A l \in 1..j - 3 : l \in 1..Len(order)
      BY <1>2, <2>3, <2>4
    <3> QED
      BY <1>1, <3>1
  <2>6. r.ok = ReadWith(key, some(j))
    BY <2>4 DEF Loaded
  <2> QED
    BY <2>5, <2>6, ReadIsPart
<1> QED
  BY <1>5, <1>7, <1>10, <1>11

\* Every encoding of an issued key is bytes that read back as that key.
EncodingsReadBack ==
  \A g \in Pairs : \A b \in Encodings(g) :
    b \in Seq(Byte) /\ FromBytes(b) = Loaded(MaterialiseSystemTags(Issued[g]))

LEMMA StorableReadsBack == KeysAreStorable => EncodingsReadBack
BY KeyReadsBack DEF KeysAreStorable, EncodingsReadBack, Encodings

-----------------------------------------------------------------------------
(* The container. S holds what is in one: bytes and the recipient's name. *)

LEMMA Joined ==
  ASSUME NEW S, NEW s \in Seq(S), NEW t \in Seq(S)
  PROVE  /\ s \o t \in Seq(S) /\ Len(s \o t) = Len(s) + Len(t)
         /\ \A i \in 1..Len(s) : (s \o t)[i] = s[i]
         /\ \A i \in 1..Len(t) : (s \o t)[Len(s) + i] = t[i]
OBVIOUS

LEMMA Sliced ==
  ASSUME NEW S, NEW s \in Seq(S), NEW a \in Nat, NEW n \in Nat, a + n <= Len(s)
  PROVE  /\ SubSeq(s, a + 1, a + n) \in Seq(S) /\ Len(SubSeq(s, a + 1, a + n)) = n
         /\ \A i \in 1..n : SubSeq(s, a + 1, a + n)[i] = s[a + i]
<1>1. \A i \in a + 1..a + n : s[i] \in S
  <2>1. \A i \in a + 1..a + n : i \in 1..Len(s)
    OBVIOUS
  <2> QED BY <2>1, ElementOfSeq
<1>2. /\ SubSeq(s, a + 1, a + n) \in Seq(S)
      /\ Len(SubSeq(s, a + 1, a + n)) = IF a + 1 <= a + n THEN a + n - (a + 1) + 1 ELSE 0
      /\ \A i \in 1..a + n - (a + 1) + 1 : SubSeq(s, a + 1, a + n)[i] = s[a + 1 + i - 1]
  <2>1. a + 1 \in Int /\ a + n \in Int
    OBVIOUS
  <2> QED BY <1>1, <2>1, SubSeqProperties
<1>3. a + n - (a + 1) + 1 = n /\ \A i \in 1..n : a + 1 + i - 1 = a + i
  OBVIOUS
<1>4. Len(SubSeq(s, a + 1, a + n)) = n
  BY <1>2
<1> QED BY <1>2, <1>3, <1>4

\* How the recipient is called in it.
NameOf(g) == [i \in 1..32 |-> g]

\* A recipient field, and the three ways to begin a SEQUENCE that holds one.
LEMMA Marker ==
  ASSUME NEW S, Int \subseteq S
  PROVE  LET head == <<160, 34, 4, 32>> IN
         /\ head \in Seq(S) /\ Len(head) = 4
         /\ head[1] = 160 /\ head[2] = 34 /\ head[3] = 4 /\ head[4] = 32
<1>1. 160 \in S /\ 34 \in S /\ 4 \in S /\ 32 \in S
  OBVIOUS
<1>2. <<160, 34, 4, 32>> \in Seq(S)
  BY <1>1
<1> QED BY <1>2

IsField(info, g) == /\ info[1] = 160 /\ info[2] = 34 /\ info[3] = 4 /\ info[4] = 32
                    /\ \A i \in 1..32 : info[4 + i] = g

LEMMA RecipientFieldIs ==
  ASSUME NEW S, Int \subseteq S, NEW g \in S
  PROVE  /\ RecipientField(g) \in Seq(S) /\ Len(RecipientField(g)) = 36
         /\ IsField(RecipientField(g), g)
<1>1. PICK head, id : head = <<160, 34, 4, 32>> /\ id = [i \in 1..32 |-> g]
  OBVIOUS
<1>2. /\ head \in Seq(S) /\ Len(head) = 4
      /\ head[1] = 160 /\ head[2] = 34 /\ head[3] = 4 /\ head[4] = 32
  BY <1>1, Marker
<1>3. id \in Seq(S) /\ Len(id) = 32 /\ \A i \in 1..32 : id[i] = g
  BY <1>1
<1>4. /\ head \o id \in Seq(S) /\ Len(head \o id) = 4 + 32
      /\ \A i \in 1..4 : (head \o id)[i] = head[i]
      /\ \A i \in 1..32 : (head \o id)[4 + i] = id[i]
  <2>1. /\ head \o id \in Seq(S) /\ Len(head \o id) = Len(head) + Len(id)
        /\ \A i \in 1..Len(head) : (head \o id)[i] = head[i]
        /\ \A i \in 1..Len(id) : (head \o id)[Len(head) + i] = id[i]
    <3>1. head \in Seq(S) /\ id \in Seq(S)
      BY <1>2, <1>3
    <3> QED BY <3>1, Joined
  <2>2. Len(head) = 4 /\ Len(id) = 32
    BY <1>2, <1>3
  <2> QED BY <2>1, <2>2, Zenon
<1>5. PICK field : field = head \o id
  OBVIOUS
<1>6. /\ field \in Seq(S) /\ Len(field) = 36
      /\ field[1] = 160 /\ field[2] = 34 /\ field[3] = 4 /\ field[4] = 32
  <2>1. field \in Seq(S) /\ Len(field) = 4 + 32 /\ \A i \in 1..4 : field[i] = head[i]
    BY <1>4, <1>5, Zenon
  <2>2. 4 + 32 = 36 /\ 1 \in 1..4 /\ 2 \in 1..4 /\ 3 \in 1..4 /\ 4 \in 1..4
    OBVIOUS
  <2>3. field[1] = head[1] /\ field[2] = head[2] /\ field[3] = head[3] /\ field[4] = head[4]
    BY <2>1, <2>2, Zenon
  <2> QED BY <1>2, <2>1, <2>2, <2>3, Zenon
<1>7. \A i \in 1..32 : field[4 + i] = g
  BY <1>3, <1>4, <1>5
<1>8. RecipientField(g) = field
  BY <1>1, <1>5 DEF RecipientField
<1>9. IsField(field, g)
  BY <1>6, <1>7 DEF IsField
<1> QED BY <1>6, <1>8, <1>9

\* A SEQUENCE with a recipient field behind a header of h bytes.
Behind(s, h, g) ==
  /\ \A i \in 1..h : s[i] # 160
  /\ s[h + 1] = 160 /\ s[h + 2] = 34 /\ s[h + 3] = 4 /\ s[h + 4] = 32
  /\ \A i \in 1..32 : s[h + 4 + i] = g

Names(S, s, h, g) ==
  s \in Seq(S) /\ h \in 2..4 /\ Len(s) >= h + 36 /\ Behind(s, h, g)

LEMMA BehindStays ==
  ASSUME NEW s, NEW t, NEW g, NEW h \in 2..4, NEW m \in Nat, h + 36 <= m,
         \A i \in 1..m : t[i] = s[i], Behind(s, h, g)
  PROVE  Behind(t, h, g)
BY DEF Behind

\* t is what is left of s when it is cut after m values.
IsCut(t, s, m) == m <= Len(s) /\ t = SubSeq(s, 1, m)

LEMMA Prefixed ==
  ASSUME NEW S, NEW s \in Seq(S), NEW m \in Nat, NEW t, IsCut(t, s, m)
  PROVE  /\ t \in Seq(S) /\ Len(t) = m
         /\ \A i \in 1..m : t[i] = s[i]
<1>1. 0 + 1 = 1 /\ 0 + m = m /\ 0 \in Nat
  OBVIOUS
<1>2. t = SubSeq(s, 0 + 1, 0 + m) /\ 0 + m <= Len(s)
  BY <1>1, Zenon DEF IsCut
<1>3. /\ SubSeq(s, 0 + 1, 0 + m) \in Seq(S) /\ Len(SubSeq(s, 0 + 1, 0 + m)) = m
      /\ \A i \in 1..m : SubSeq(s, 0 + 1, 0 + m)[i] = s[0 + i]
  BY <1>2, Sliced
<1>4. \A i \in 1..m : 0 + i = i
  OBVIOUS
<1> QED BY <1>2, <1>3, <1>4, Zenon

\* Four values in a row.
LEMMA FourInARow ==
  ASSUME NEW S, NEW s \in Seq(S), NEW i \in Nat \ {0}, i + 3 <= Len(s)
  PROVE  LET t == SubSeq(s, i, i + 3) IN
         /\ t \in Seq(S) /\ Len(t) = 4
         /\ t[1] = s[i] /\ t[2] = s[i + 1] /\ t[3] = s[i + 2] /\ t[4] = s[i + 3]
<1>1. PICK a \in Nat : a + 1 = i /\ a + 4 = i + 3 /\ a + 2 = i + 1 /\ a + 3 = i + 2
  <2>1. i - 1 \in Nat /\ i - 1 + 1 = i /\ i - 1 + 4 = i + 3 /\ i - 1 + 2 = i + 1 /\ i - 1 + 3 = i + 2
    OBVIOUS
  <2> QED BY <2>1
<1>2. PICK t : t = SubSeq(s, a + 1, a + 4)
  OBVIOUS
<1>3. t \in Seq(S) /\ Len(t) = 4 /\ \A j \in 1..4 : t[j] = s[a + j]
  BY <1>1, <1>2, Sliced
<1>4. t[1] = s[a + 1] /\ t[2] = s[a + 2] /\ t[3] = s[a + 3] /\ t[4] = s[a + 4]
  BY <1>3
<1>5. t = SubSeq(s, i, i + 3)
  BY <1>1, <1>2
<1> QED BY <1>1, <1>3, <1>4, <1>5

\* extract_recipient_id finds that field, whatever the recipient is called.
LEMMA RecipientFound ==
  ASSUME NEW S, Int \subseteq S, NEW g, NEW s, NEW h, Names(S, s, h, g), Len(s) = h + 36
  PROVE  RecipientId(s) = NameOf(g)
<1> DEFINE starts == {i \in 1..Len(s) - 35 : SubSeq(s, i, i + 3) = <<160, 34, 4, 32>>}
<1>1. /\ s \in Seq(S) /\ h \in 2..4 /\ h \in Nat /\ Len(s) = h + 36
      /\ s[h + 1] = 160 /\ s[h + 2] = 34 /\ s[h + 3] = 4 /\ s[h + 4] = 32
  BY DEF Names, Behind
<1>2. \A i \in 1..h : s[i] # 160
  BY DEF Names, Behind
<1>3. \A i \in 1..32 : s[h + 4 + i] = g
  BY DEF Names, Behind
<1>4. PICK head : head = <<160, 34, 4, 32>>
  OBVIOUS
<1>5. /\ head \in Seq(S) /\ Len(head) = 4
      /\ head[1] = 160 /\ head[2] = 34 /\ head[3] = 4 /\ head[4] = 32
  BY <1>4, Marker
<1>6. Len(s) - 35 = h + 1 /\ h + 1 \in Nat \ {0} /\ h + 1 + 3 <= Len(s)
      /\ h + 1 + 1 = h + 2 /\ h + 1 + 2 = h + 3 /\ h + 1 + 3 = h + 4
  BY <1>1
<1>7. h + 1 \in starts
  <2>1. PICK t : t = SubSeq(s, h + 1, h + 1 + 3)
    OBVIOUS
  <2>2. /\ t \in Seq(S) /\ Len(t) = 4
        /\ t[1] = 160 /\ t[2] = 34 /\ t[3] = 4 /\ t[4] = 32
    BY <1>1, <1>6, <2>1, FourInARow
  <2>3. t = head
    <3>1. \A i \in 1..4 : t[i] = head[i]
      <4>1. 1..4 = {1, 2, 3, 4}
        OBVIOUS
      <4> QED BY <1>5, <2>2, <4>1
    <3> QED BY <1>5, <2>2, <3>1, SeqEqual
  <2>4. SubSeq(s, h + 1, h + 1 + 3) = <<160, 34, 4, 32>>
    BY <1>4, <2>1, <2>3, Zenon
  <2>5. h + 1 \in 1..Len(s) - 35
    BY <1>1
  <2> QED BY <2>4, <2>5, Zenon
<1>8. ASSUME NEW i \in starts PROVE i = h + 1
  <2>1. i \in 1..h + 1 /\ SubSeq(s, i, i + 3) = head
    BY <1>4, <1>6
  <2>2. i \in Nat \ {0} /\ i + 3 <= Len(s)
    BY <1>1, <2>1
  <2>3. PICK t : t = SubSeq(s, i, i + 3)
    OBVIOUS
  <2>4. t[1] = s[i]
    BY SMTT(40), <1>1, <2>2, <2>3, FourInARow
  <2>5. s[i] = 160
    BY <1>5, <2>1, <2>3, <2>4
  <2> QED BY <1>1, <1>2, <2>1, <2>5
<1>9. starts = {h + 1}
  BY <1>7, <1>8
<1>10. RecipientId(s) = IF starts = {} THEN None
                        ELSE LET i == CHOOSE i \in starts : \A j \in starts : i <= j
                             IN  SubSeq(s, i + 4, i + 35)
  BY DEF RecipientId
<1> HIDE DEF starts
<1>11. PICK t : t = SubSeq(s, h + 4 + 1, h + 4 + 32)
  OBVIOUS
<1>12. RecipientId(s) = t
  <2>1. PICK i : i = CHOOSE x \in starts : \A j \in starts : x <= j
    OBVIOUS
  <2>2. i = h + 1
    <3>1. \E x \in starts : \A j \in starts : x <= j
      <4>1. h + 1 <= h + 1
        BY <1>1
      <4> QED BY <1>9, <4>1
    <3>2. i \in starts
      BY <2>1, <3>1
    <3> QED BY <1>9, <3>2
  <2>3. i + 4 = h + 4 + 1 /\ i + 35 = h + 4 + 32
    BY <1>1, <2>2
  <2>4. starts # {}
    BY <1>9
  <2>5. RecipientId(s) = SubSeq(s, i + 4, i + 35)
    BY <1>10, <2>1, <2>4
  <2> QED BY <1>11, <2>3, <2>5
<1>13. t \in Seq(S) /\ Len(t) = 32 /\ \A i \in 1..32 : t[i] = g
  <2>1. h + 4 \in Nat /\ h + 4 + 32 <= Len(s)
    BY <1>1
  <2>2. t \in Seq(S) /\ Len(t) = 32 /\ \A i \in 1..32 : t[i] = s[h + 4 + i]
    BY <1>1, <1>11, <2>1, Sliced
  <2> QED BY <1>3, <2>2
<1>14. t = NameOf(g)
  BY <1>13 DEF NameOf
<1> QED BY <1>12, <1>14

\* What is left of it when it is cut behind the field still names the device.
LEMMA NamesCut ==
  ASSUME NEW S, NEW g, NEW s, NEW h, Names(S, s, h, g),
         NEW m \in Nat, h + 36 <= m, NEW t, IsCut(t, s, m)
  PROVE  Names(S, t, h, g) /\ Len(t) = m
<1>1. s \in Seq(S) /\ h \in 2..4 /\ Behind(s, h, g)
  BY DEF Names
<1>2. t \in Seq(S) /\ Len(t) = m /\ \A i \in 1..m : t[i] = s[i]
  BY <1>1, Prefixed
<1>3. Behind(t, h, g)
  BY <1>1, <1>2, BehindStays
<1>4. Len(t) >= h + 36
  BY <1>1, <1>2
<1> QED BY <1>1, <1>2, <1>3, <1>4, Zenon DEF Names

\* However much of it arrives behind the field.
LEMMA RecipientArrives ==
  ASSUME NEW S, Int \subseteq S, NEW g, NEW s, NEW h, Names(S, s, h, g),
         NEW m \in Nat, NEW t, IsCut(t, s, m), NEW n \in Nat, n = h + 36, n <= m
  PROVE  RecipientId(SubSeq(t, 1, n)) = NameOf(g)
<1>1. h \in 2..4
  BY DEF Names
<1>2. h + 36 <= m
  OBVIOUS
<1>3. Names(S, t, h, g) /\ Len(t) = m
  BY <1>2, NamesCut
<1>4. PICK u : u = SubSeq(t, 1, n)
  OBVIOUS
<1>5. IsCut(u, t, n)
  BY <1>3, <1>4 DEF IsCut
<1>6. Names(S, u, h, g) /\ Len(u) = n
  <2>1. h + 36 <= n
    BY <1>1
  <2> QED BY <1>3, <1>5, <2>1, NamesCut
<1>7. RecipientId(u) = NameOf(g)
  BY <1>6, RecipientFound
<1> QED BY <1>4, <1>7

\* What the SEQUENCE begins with, before its length.
LEMMA Headed ==
  ASSUME NEW S, Int \subseteq S, NEW form \in Seq(S)
  PROVE  LET head == << 48 >> \o form IN
         /\ head \in Seq(S) /\ Len(head) = 1 + Len(form) /\ head[1] = 48
         /\ \A i \in 1..Len(form) : head[1 + i] = form[i]
<1>1. PICK tag : tag = << 48 >>
  OBVIOUS
<1>2. 48 \in S
  OBVIOUS
<1>3. tag \in Seq(S)
  BY <1>1, <1>2
<1>4. Len(tag) = 1
  BY <1>1
<1>5. tag[1] = 48
  BY <1>1
<1>6. /\ tag \o form \in Seq(S) /\ Len(tag \o form) = Len(tag) + Len(form)
      /\ \A i \in 1..Len(tag) : (tag \o form)[i] = tag[i]
      /\ \A i \in 1..Len(form) : (tag \o form)[Len(tag) + i] = form[i]
  BY <1>3, Joined
<1>7. 1 \in 1..1
  OBVIOUS
<1>8. /\ tag \o form \in Seq(S) /\ Len(tag \o form) = 1 + Len(form) /\ (tag \o form)[1] = 48
      /\ \A i \in 1..Len(form) : (tag \o form)[1 + i] = form[i]
  BY <1>4, <1>5, <1>6, <1>7, Zenon
<1> QED BY <1>1, <1>8, Zenon

\* The three forms of that length.
LEMMA LengthInOne ==
  ASSUME NEW S, Int \subseteq S
  PROVE  <<36>> \in Seq(S) /\ Len(<<36>>) = 1 /\ <<36>>[1] = 36
<1>1. 36 \in S
  OBVIOUS
<1> QED BY <1>1

LEMMA LengthInTwo ==
  ASSUME NEW S, Int \subseteq S
  PROVE  <<129, 36>> \in Seq(S) /\ Len(<<129, 36>>) = 2 /\ <<129, 36>>[1] = 129 /\ <<129, 36>>[2] = 36
<1>1. 129 \in S /\ 36 \in S
  OBVIOUS
<1> QED BY <1>1

LEMMA LengthInThree ==
  ASSUME NEW S, Int \subseteq S
  PROVE  /\ <<130, 0, 36>> \in Seq(S) /\ Len(<<130, 0, 36>>) = 3
         /\ <<130, 0, 36>>[1] = 130 /\ <<130, 0, 36>>[2] = 0 /\ <<130, 0, 36>>[3] = 36
<1>1. 130 \in S /\ 0 \in S /\ 36 \in S
  OBVIOUS
<1> QED BY <1>1

LEMMA JoinedTwice ==
  ASSUME NEW S, NEW p \in Seq(S), NEW q \in Seq(S), NEW r \in Seq(S)
  PROVE  /\ p \o q \o r \in Seq(S) /\ Len(p \o q \o r) = Len(p) + Len(q) + Len(r)
         /\ \A i \in 1..Len(p) : (p \o q \o r)[i] = p[i]
         /\ \A i \in 1..Len(q) : (p \o q \o r)[Len(p) + i] = q[i]
<1>1. /\ p \o q \in Seq(S) /\ Len(p \o q) = Len(p) + Len(q)
      /\ \A i \in 1..Len(p) : (p \o q)[i] = p[i]
      /\ \A i \in 1..Len(q) : (p \o q)[Len(p) + i] = q[i]
  BY Joined
<1>2. PICK s : s = p \o q
  OBVIOUS
<1>3. s \in Seq(S)
  BY <1>1, <1>2
<1>4. /\ s \o r \in Seq(S) /\ Len(s \o r) = Len(s) + Len(r)
      /\ \A i \in 1..Len(s) : (s \o r)[i] = s[i]
  BY <1>3, Joined
<1>5. /\ \A i \in 1..Len(p) : i \in 1..Len(p) + Len(q)
      /\ \A i \in 1..Len(q) : Len(p) + i \in 1..Len(p) + Len(q)
  OBVIOUS
<1> QED BY <1>1, <1>2, <1>4, <1>5, Zenon

\* A header and a recipient field, with anything behind them.
Begins(s, h, head, info) == /\ \A i \in 1..h : s[i] = head[i]
                            /\ \A i \in 1..36 : s[h + i] = info[i]

LEMMA Assembled ==
  ASSUME NEW S, NEW head \in Seq(S), NEW info \in Seq(S), NEW rest \in Seq(S), NEW h \in 2..4
  PROVE  Len(head) = h /\ Len(info) = 36 =>
           /\ head \o info \o rest \in Seq(S) /\ Len(head \o info \o rest) >= h + 36
           /\ Begins(head \o info \o rest, h, head, info)
<1>1. PICK s : s = head \o info \o rest
  OBVIOUS
<1>2. /\ s \in Seq(S)
      /\ Len(s) = Len(head) + Len(info) + Len(rest)
      /\ \A i \in 1..Len(head) : s[i] = head[i]
      /\ \A i \in 1..Len(info) : s[Len(head) + i] = info[i]
  <2>1. /\ head \o info \o rest \in Seq(S)
        /\ Len(head \o info \o rest) = Len(head) + Len(info) + Len(rest)
        /\ \A i \in 1..Len(head) : (head \o info \o rest)[i] = head[i]
        /\ \A i \in 1..Len(info) : (head \o info \o rest)[Len(head) + i] = info[i]
    BY JoinedTwice
  <2> QED BY <1>1, <2>1, Zenon
<1>3. PICK n \in Nat : n = Len(rest)
  OBVIOUS
<1>4. h + 36 + n >= h + 36
  OBVIOUS
<1>5. ASSUME Len(head) = h, Len(info) = 36
      PROVE  Len(s) >= h + 36 /\ Begins(s, h, head, info)
  <2>1. Len(s) = h + 36 + n
    BY <1>2, <1>3, <1>5, Zenon
  <2>2. Len(s) >= h + 36
    BY <1>4, <2>1, Zenon
  <2>3. \A i \in 1..h : s[i] = head[i]
    BY <1>2, <1>5, Zenon
  <2>4. \A i \in 1..36 : s[h + i] = info[i]
    BY <1>2, <1>5, Zenon
  <2> QED BY <2>2, <2>3, <2>4, Zenon DEF Begins
<1> QED BY <1>1, <1>2, <1>5, Zenon

LEMMA AssembledReads ==
  ASSUME NEW s, NEW g, NEW h \in 2..4, NEW head, NEW info,
         Begins(s, h, head, info), IsField(info, g), \A i \in 1..h : head[i] # 160
  PROVE  Behind(s, h, g)
<1>1. /\ \A i \in 1..h : s[i] = head[i]
      /\ \A i \in 1..36 : s[h + i] = info[i]
  BY DEF Begins
<1>2. info[1] = 160 /\ info[2] = 34 /\ info[3] = 4 /\ info[4] = 32
  BY DEF IsField
<1>3. \A i \in 1..32 : info[4 + i] = g
  BY DEF IsField
<1>4. s[h + 1] = 160 /\ s[h + 2] = 34 /\ s[h + 3] = 4 /\ s[h + 4] = 32
  BY <1>1, <1>2
<1>5. ASSUME NEW i \in 1..32 PROVE s[h + 4 + i] = g
  <2>1. 4 + i \in 1..36 /\ h + 4 + i = h + (4 + i)
    OBVIOUS
  <2>2. info[4 + i] = g
    BY <1>3
  <2>3. s[h + (4 + i)] = info[4 + i]
    BY <1>1, <2>1
  <2> QED BY <2>1, <2>2, <2>3, Zenon
<1>6. \A i \in 1..h : s[i] # 160
  BY <1>1
<1> QED BY <1>4, <1>5, <1>6 DEF Behind

\* A length of n bytes, and a SEQUENCE that begins with it.
IsLength(form, n)     == Len(form) = n /\ \A i \in 1..n : form[i] # 160
HasLength(s, form, n) == s[1] = 48 /\ \A i \in 1..n : s[1 + i] = form[i]

LEMMA SealedNames ==
  ASSUME NEW S, Int \subseteq S, NEW g \in S, NEW form \in Seq(S), NEW rest \in Seq(S),
         NEW s, s = << 48 >> \o form \o RecipientField(g) \o rest,
         NEW n \in 1..3, NEW h \in 2..4, h = 1 + n, IsLength(form, n)
  PROVE  Names(S, s, h, g) /\ HasLength(s, form, n)
<1>1. PICK head, info : head = << 48 >> \o form /\ info = RecipientField(g)
  OBVIOUS
<1>2. /\ head \in Seq(S) /\ Len(head) = 1 + Len(form) /\ head[1] = 48
      /\ \A i \in 1..Len(form) : head[1 + i] = form[i]
  BY <1>1, Headed
<1>3. info \in Seq(S)
  BY <1>1, RecipientFieldIs
<1>4. Len(info) = 36 /\ IsField(info, g)
  BY <1>1, RecipientFieldIs
<1>5. s = head \o info \o rest
  BY <1>1
<1>6. Len(head) = h /\ Len(info) = 36 =>
        s \in Seq(S) /\ Len(s) >= h + 36 /\ Begins(s, h, head, info)
  <2>1. head \in Seq(S)
    BY <1>2
  <2>2. Len(head) = h /\ Len(info) = 36 =>
          /\ head \o info \o rest \in Seq(S) /\ Len(head \o info \o rest) >= h + 36
          /\ Begins(head \o info \o rest, h, head, info)
    BY <1>3, <2>1, Assembled, Zenon
  <2> QED BY <1>5, <2>2, Zenon
<1>7. Len(form) = n /\ \A i \in 1..n : form[i] # 160
  BY DEF IsLength
<1>8. 1 \in 1..h /\ \A i \in 1..n : 1 + i \in 1..h
  OBVIOUS
<1>9. s \in Seq(S) /\ Len(s) >= h + 36 /\ Begins(s, h, head, info)
  <2>1. Len(head) = h
    BY <1>2, <1>7, Zenon
  <2> QED BY <1>4, <1>6, <2>1, Zenon
<1>10. head[1] = 48 /\ \A i \in 1..n : head[1 + i] = form[i]
  BY <1>2, <1>7, Zenon
<1>11. s[1] = 48 /\ \A i \in 1..n : s[1 + i] = form[i]
  BY <1>8, <1>9, <1>10, Zenon DEF Begins
<1>12. \A i \in 1..h : head[i] # 160
  <2>1. ASSUME NEW i \in 1..h PROVE head[i] # 160
    <3>1. CASE i = 1
      <4>1. 48 # 160
        OBVIOUS
      <4> QED BY <1>10, <3>1, <4>1, Zenon
    <3>2. CASE i # 1
      <4>1. i - 1 \in 1..n /\ i = 1 + (i - 1)
        BY <3>2
      <4>2. PICK j \in 1..n : i = 1 + j
        BY <4>1, Zenon
      <4>3. form[j] # 160 /\ head[1 + j] = form[j]
        BY <1>7, <1>10, <4>2, ZenonT(60)
      <4> QED BY <4>2, <4>3, Zenon
    <3> QED BY <3>1, <3>2
  <2> QED BY <2>1
<1>13. Behind(s, h, g)
  BY <1>4, <1>9, <1>12, AssembledReads
<1> QED BY <1>9, <1>11, <1>13, Zenon DEF Names, HasLength

\* Every container the backend makes for device g reads as one that names it.
NamesDevice(S, s, g) ==
  \/ Names(S, s, 2, g) /\ s[1] = 48 /\ s[2] = 36
  \/ Names(S, s, 3, g) /\ s[1] = 48 /\ s[2] = 129 /\ s[3] = 36
  \/ Names(S, s, 4, g) /\ s[1] = 48 /\ s[2] = 130 /\ s[3] = 0 /\ s[4] = 36

LEMMA SealedToNames ==
  ASSUME EncodingsReadBack, NEW S, Int \subseteq S, NEW g \in Pairs, g \in S, NEW sent \in SealedTo(g)
  PROVE  NamesDevice(S, sent, g)
<1>1. Len(RecipientField(g)) = 36
  BY RecipientFieldIs
<1>2. PICK form \in {<<36>>, <<129, 36>>, <<130, 0, 36>>}, e \in Encodings(g) :
        sent = << 48 >> \o form \o RecipientField(g) \o Append(e, 0)
  <2>1. \E form \in {<<Len(RecipientField(g))>>, <<129, Len(RecipientField(g))>>,
                     <<130, 0, Len(RecipientField(g))>>}, b \in {Append(e, 0) : e \in Encodings(g)} :
          sent = << 48 >> \o form \o RecipientField(g) \o b
    BY DEF SealedTo
  <2>2. \E form \in {<<36>>, <<129, 36>>, <<130, 0, 36>>}, b \in {Append(e, 0) : e \in Encodings(g)} :
          sent = << 48 >> \o form \o RecipientField(g) \o b
    BY <1>1, <2>1, ZenonT(60)
  <2> QED BY <2>2, Zenon
<1>3. PICK rest : rest = Append(e, 0)
  OBVIOUS
<1>4. rest \in Seq(S)
  <2>1. e \in Seq(Byte)
    BY DEF EncodingsReadBack
  <2>2. Byte \subseteq S /\ 0 \in S
    BY DEF Byte
  <2>3. e \in Seq(S)
    BY <2>1, <2>2
  <2>4. Append(e, 0) \in Seq(S)
    BY <2>2, <2>3
  <2> QED BY <1>3, <2>4
<1>5. sent = << 48 >> \o form \o RecipientField(g) \o rest
  BY <1>2, <1>3
<1>6. CASE form = <<36>>
  <2>1. form \in Seq(S)
    BY <1>6, LengthInOne
  <2>2. Len(form) = 1 /\ form[1] = 36
    BY <1>6, LengthInOne
  <2>3. IsLength(form, 1)
    BY <2>2 DEF IsLength
  <2>4. 1 \in 1..3 /\ 2 \in 2..4 /\ 2 = 1 + 1
    OBVIOUS
  <2>5. Names(S, sent, 2, g) /\ HasLength(sent, form, 1)
    BY <1>4, <1>5, <2>1, <2>3, <2>4, SealedNames, Zenon
  <2>6. sent[1] = 48 /\ sent[2] = 36
    BY <2>2, <2>5 DEF HasLength
  <2> QED BY <2>5, <2>6, Zenon DEF NamesDevice
<1>7. CASE form = <<129, 36>>
  <2>1. form \in Seq(S)
    BY <1>7, LengthInTwo
  <2>2. Len(form) = 2 /\ form[1] = 129 /\ form[2] = 36
    BY <1>7, LengthInTwo
  <2>3. IsLength(form, 2)
    BY <2>2 DEF IsLength
  <2>4. 2 \in 1..3 /\ 3 \in 2..4 /\ 3 = 1 + 2
    OBVIOUS
  <2>5. Names(S, sent, 3, g) /\ HasLength(sent, form, 2)
    BY <1>4, <1>5, <2>1, <2>3, <2>4, SealedNames, Zenon
  <2>6. sent[1] = 48 /\ sent[2] = 129 /\ sent[3] = 36
    BY <2>2, <2>5 DEF HasLength
  <2> QED BY <2>5, <2>6, Zenon DEF NamesDevice
<1>8. CASE form = <<130, 0, 36>>
  <2>1. form \in Seq(S)
    BY <1>8, LengthInThree
  <2>2. Len(form) = 3 /\ form[1] = 130 /\ form[2] = 0 /\ form[3] = 36
    BY <1>8, LengthInThree
  <2>3. IsLength(form, 3)
    BY <2>2 DEF IsLength
  <2>4. 3 \in 1..3 /\ 4 \in 2..4 /\ 4 = 1 + 3
    OBVIOUS
  <2>5. Names(S, sent, 4, g) /\ HasLength(sent, form, 3)
    BY <1>4, <1>5, <2>1, <2>3, <2>4, SealedNames, Zenon
  <2>6. sent[1] = 48 /\ sent[2] = 130 /\ sent[3] = 0 /\ sent[4] = 36
    BY <2>2, <2>5 DEF HasLength
  <2> QED BY <2>5, <2>6, Zenon DEF NamesDevice
<1> QED BY <1>2, <1>6, <1>7, <1>8, Zenon

\* The split of parse_virgil_container, once the end of the SEQUENCE is known.
SplitAt(b, end) ==
  IF end > Len(b) THEN Fails("panic")
  ELSE IF RecipientId(SubSeq(b, 1, end)) = None THEN Fails("Container")
  ELSE Gives([info |-> SubSeq(b, 1, end), id |-> RecipientId(SubSeq(b, 1, end)),
              content |-> SubSeq(b, end + 1, Len(b))])

LEMMA AnswerIs ==
  ASSUME NEW x
  PROVE  ~Answer(Fails(x)) /\ Answer(Gives(x)) /\ Gives(x).ok = x
BY DEF Answer, Fails, Gives

LEMMA SplitAnswers ==
  ASSUME NEW b, NEW end, Answer(SplitAt(b, end))
  PROVE  ~(end > Len(b)) /\ SplitAt(b, end).ok.id = RecipientId(SubSeq(b, 1, end))
<1>1. ~(end > Len(b))
  BY AnswerIs, Zenon DEF SplitAt
<1>2. RecipientId(SubSeq(b, 1, end)) # None
  BY <1>1, AnswerIs, Zenon DEF SplitAt
<1>3. SplitAt(b, end) = Gives([info |-> SubSeq(b, 1, end), id |-> RecipientId(SubSeq(b, 1, end)),
                               content |-> SubSeq(b, end + 1, Len(b))])
  BY <1>1, <1>2, Zenon DEF SplitAt
<1> QED BY <1>1, <1>3, AnswerIs

\* parse_virgil_container on a SEQUENCE whose header takes h bytes.
IsParse(c, b, n) ==
  /\ n > 1
  /\ b[2] < 128 => ParseContainer(c) = SplitAt(b, 2 + b[2])
  /\ b[2] = 129 => n >= 3 /\ ParseContainer(c) = SplitAt(b, 3 + b[3])
  /\ b[2] = 130 => n >= 4 /\ ParseContainer(c) = SplitAt(b, 4 + (b[3] * 256 + b[4]))

LEMMA ParseIs ==
  ASSUME NEW c, NEW b, NEW n \in Nat, b = c.bytes, n = Len(b), Answer(ParseContainer(c))
  PROVE  IsParse(c, b, n)
<1>1. c.marker /\ n # 0
  <2>1. ~c.marker \/ n = 0 => ParseContainer(c) = Fails("Container")
    BY ZenonT(60) DEF ParseContainer
  <2> QED BY <2>1, AnswerIs
<1>2. b[1] = 48
  <2>1. b[1] # 48 => ParseContainer(c) = Fails("Container")
    BY <1>1, ZenonT(60) DEF ParseContainer
  <2> QED BY <2>1, AnswerIs
<1>3. n # 1
  <2>1. n = 1 => ParseContainer(c) = Fails("panic")
    BY <1>1, <1>2, ZenonT(60) DEF ParseContainer
  <2> QED BY <2>1, AnswerIs
<1>4. b[2] < 128 => ParseContainer(c) = SplitAt(b, 2 + b[2])
  BY <1>1, <1>2, <1>3, ZenonT(60) DEF ParseContainer, SplitAt
<1>5. ASSUME b[2] = 129
      PROVE  n >= 3 /\ ParseContainer(c) = SplitAt(b, 3 + b[3])
  <2>1. ~(b[2] < 128) /\ b[2] \in {129, 130} /\ b[2] - 126 = 3
    BY <1>5
  <2>2. n < 3 => ParseContainer(c) = Fails("panic")
    BY <1>1, <1>2, <1>3, <1>5, <2>1, ZenonT(60) DEF ParseContainer
  <2>3. ~(n < 3)
    BY <2>2, AnswerIs
  <2>4. n >= 3
    BY <2>3
  <2>5. ParseContainer(c) = SplitAt(b, 3 + b[3])
    BY <1>1, <1>2, <1>3, <1>5, <2>1, <2>3, ZenonT(60) DEF ParseContainer, SplitAt
  <2> QED BY <2>4, <2>5
<1>6. ASSUME b[2] = 130
      PROVE  n >= 4 /\ ParseContainer(c) = SplitAt(b, 4 + (b[3] * 256 + b[4]))
  <2>1. ~(b[2] < 128) /\ b[2] \in {129, 130} /\ b[2] - 126 = 4 /\ b[2] # 129
    BY <1>6
  <2>2. n < 4 => ParseContainer(c) = Fails("panic")
    BY <1>1, <1>2, <1>3, <1>6, <2>1, ZenonT(60) DEF ParseContainer
  <2>3. ~(n < 4)
    BY <2>2, AnswerIs
  <2>4. n >= 4
    BY <2>3
  <2>5. ParseContainer(c) = SplitAt(b, 4 + (b[3] * 256 + b[4]))
    BY <1>1, <1>2, <1>3, <2>1, <2>3, ZenonT(60) DEF ParseContainer, SplitAt
  <2> QED BY <2>4, <2>5
<1>7. n > 1
  <2>1. \A k \in Nat : k # 0 /\ k # 1 => k > 1
    OBVIOUS
  <2> QED BY <1>1, <1>3, <2>1, Zenon
<1> QED BY <1>4, <1>5, <1>6, <1>7, Zenon DEF IsParse

LEMMA SplitNames ==
  ASSUME NEW S, Int \subseteq S, NEW g, NEW s \in Seq(S), NEW h \in 2..4, Names(S, s, h, g),
         NEW m \in Nat, NEW b, IsCut(b, s, m), Answer(SplitAt(b, h + 36))
  PROVE  SplitAt(b, h + 36).ok.id = NameOf(g)
<1>1. Len(b) = m
  BY Prefixed
<1>2. PICK n \in Nat : n = h + 36
  OBVIOUS
<1>3. ~(n > Len(b)) /\ SplitAt(b, n).ok.id = RecipientId(SubSeq(b, 1, n))
  BY <1>2, SplitAnswers
<1>4. n <= m
  BY <1>1, <1>3
<1>5. RecipientId(SubSeq(b, 1, n)) = NameOf(g)
  BY <1>2, <1>4, RecipientArrives
<1> QED BY <1>2, <1>3, <1>5

\* Whatever arrives of a container that names device g, it names g or nothing.
LEMMA ArrivalNames ==
  ASSUME NEW S, Int \subseteq S, NEW g, NEW s, NamesDevice(S, s, g), NEW m \in Nat,
         NEW c, IsCut(c.bytes, s, m), Answer(ParseContainer(c))
  PROVE  ParseContainer(c).ok.id = NameOf(g)
<1>1. PICK b : b = c.bytes
  OBVIOUS
<1>2. s \in Seq(S) /\ IsCut(b, s, m)
  BY <1>1, Zenon DEF NamesDevice, Names
<1>3. Len(b) = m /\ \A i \in 1..m : b[i] = s[i]
  BY <1>2, Prefixed
<1>4. m = Len(b)
  BY <1>3
<1>5. /\ m > 1
      /\ b[2] < 128 => ParseContainer(c) = SplitAt(b, 2 + b[2])
      /\ b[2] = 129 => m >= 3 /\ ParseContainer(c) = SplitAt(b, 3 + b[3])
      /\ b[2] = 130 => m >= 4 /\ ParseContainer(c) = SplitAt(b, 4 + (b[3] * 256 + b[4]))
  <2>1. IsParse(c, b, m)
    BY <1>1, <1>4, ParseIs, Zenon
  <2> QED BY <2>1, Zenon DEF IsParse
<1>6. ASSUME NEW h \in 2..4, Names(S, s, h, g), ParseContainer(c) = SplitAt(b, h + 36)
      PROVE  ParseContainer(c).ok.id = NameOf(g)
  <2>1. Answer(SplitAt(b, h + 36))
    BY <1>6
  <2> QED BY <1>2, <1>6, <2>1, SplitNames
<1>7. CASE Names(S, s, 2, g) /\ s[1] = 48 /\ s[2] = 36
  <2>1. 2 \in 1..m
    BY <1>5
  <2>2. b[2] = 36
    BY <1>3, <1>7, <2>1, Zenon
  <2>3. 36 < 128 /\ 2 \in 2..4
    OBVIOUS
  <2>4. ParseContainer(c) = SplitAt(b, 2 + 36)
    BY <1>5, <2>2, <2>3, Zenon
  <2> QED BY <1>6, <1>7, <2>3, <2>4, Zenon
<1>8. CASE Names(S, s, 3, g) /\ s[1] = 48 /\ s[2] = 129 /\ s[3] = 36
  <2>1. 2 \in 1..m
    BY <1>5
  <2>2. b[2] = 129
    BY <1>3, <1>8, <2>1, Zenon
  <2>3. m >= 3 /\ ParseContainer(c) = SplitAt(b, 3 + b[3])
    BY <1>5, <2>2, Zenon
  <2>4. 3 \in 1..m
    BY <2>3
  <2>5. b[3] = 36
    BY <1>3, <1>8, <2>4, Zenon
  <2>6. 3 \in 2..4
    OBVIOUS
  <2>7. ParseContainer(c) = SplitAt(b, 3 + 36)
    BY <2>3, <2>5, Zenon
  <2> QED BY <1>6, <1>8, <2>6, <2>7, Zenon
<1>9. CASE Names(S, s, 4, g) /\ s[1] = 48 /\ s[2] = 130 /\ s[3] = 0 /\ s[4] = 36
  <2>1. 2 \in 1..m
    BY <1>5
  <2>2. b[2] = 130
    BY <1>3, <1>9, <2>1, Zenon
  <2>3. m >= 4 /\ ParseContainer(c) = SplitAt(b, 4 + (b[3] * 256 + b[4]))
    BY <1>5, <2>2, Zenon
  <2>4. 3 \in 1..m /\ 4 \in 1..m
    BY <2>3
  <2>5. b[3] = 0 /\ b[4] = 36
    BY <1>3, <1>9, <2>4, Zenon
  <2>6. 4 \in 2..4
    OBVIOUS
  <2>8. 4 + (0 * 256 + 36) = 4 + 36
    OBVIOUS
  <2>7. ParseContainer(c) = SplitAt(b, 4 + 36)
    BY <2>3, <2>5, <2>8, Zenon
  <2> QED BY <1>6, <1>9, <2>6, <2>7, Zenon
<1> QED BY <1>7, <1>8, <1>9, Zenon DEF NamesDevice

\* decrypt_mobile_key, after its first step: the recipient is the device the
\* container was sealed to.
LEMMA ParsedNames ==
  ASSUME EncodingsReadBack, NEW g \in Pairs, NEW sent \in SealedTo(g), NEW c \in Containers(sent),
         Answer(ParseContainer(c))
  PROVE  ParseContainer(c).ok.id = NameOf(g)
<1>1. PICK S : Int \subseteq S /\ g \in S
  <2>1. Int \subseteq Int \cup {g} /\ g \in Int \cup {g}
    OBVIOUS
  <2> QED BY <2>1
<1>2. NamesDevice(S, sent, g)
  BY <1>1, SealedToNames
<1>3. sent \in Seq(S)
  BY <1>2, Zenon DEF NamesDevice, Names
<1>4. c \in {Container(TRUE, b) : b \in Arrivals(sent)}
  <2>1. c = Container(FALSE, <<>>) => ParseContainer(c) = Fails("Container")
    <3> SUFFICES ASSUME c = Container(FALSE, <<>>) PROVE ParseContainer(c) = Fails("Container")
      OBVIOUS
    <3>1. ~c.marker
      BY DEF Container
    <3> QED BY <3>1, ZenonT(60) DEF ParseContainer
  <2>2. c # Container(FALSE, <<>>)
    BY <2>1, AnswerIs
  <2> QED BY <2>2 DEF Containers
<1>5. PICK b \in Arrivals(sent) : c = Container(TRUE, b)
  BY <1>4
<1>6. PICK m \in {n \in Cuts : n < Len(sent)} \cup {Len(sent)} : b = SubSeq(sent, 1, m)
  BY <1>5 DEF Arrivals
<1>7. m \in Nat /\ m <= Len(sent)
  <2>1. Len(sent) \in Nat
    BY <1>3
  <2>2. Cuts \subseteq Nat
    BY KeystoreAssumption
  <2> QED BY <2>1, <2>2
<1>8. IsCut(c.bytes, sent, m)
  BY <1>5, <1>6, <1>7 DEF Container, IsCut
<1> QED BY <1>1, <1>2, <1>7, <1>8, ArrivalNames


-----------------------------------------------------------------------------
(* decrypt_mobile_key: what each of its steps does *)

LEMMA DecryptPlaces ==
  ASSUME VirgilInv, call.fn = "decrypt", NEW m, At(m)
  PROVE  \/ call.at = 1 /\ m = "parse"
         \/ call.at = 2 /\ m = "unwrap"
         \/ call.at = 3 /\ m = "runtime"
         \/ call.at = 4 /\ m = "import_private_key"
         \/ call.at = 5 /\ m = "cipher"
         \/ call.at = 6 /\ m = "start"
         \/ call.at = 7 /\ m = "process"
         \/ call.at = 8 /\ m = "finish"
         \/ call.at = 9 /\ m = "take"
<1>1. PICK fn, at : fn = call.fn /\ at = call.at
  OBVIOUS
<1>2. fn = "decrypt" /\ fn \in DOMAIN Methods /\ at \in DOMAIN Methods[fn] /\ m = Methods[fn][at]
  BY <1>1, Running DEF VirgilInv
<1> QED BY <1>1, <1>2, Places

\* It ends, in an error or with the bytes that it took.
Stopped == Idle' /\ (Answer(ret') => call.at = 9 /\ ret' = FromBytes(regs.out \o regs.rest))

\* It goes on with these registers.
Moved(r) == call'.fn = "decrypt" /\ call'.at = call.at + 1 /\ regs' = r

\* Goes and Ends, as they are seen from outside.
LEMMA Moves ==
  ASSUME VirgilInv, call.fn = "decrypt", NEW r, NEW made, Goes(r, made) PROVE Moved(r)
BY DEF VirgilInv, HeapFits, Goes, Moved

LEMMA Refuses ==
  ASSUME NEW result, NEW made, NEW released, Ends(result, made, released), ~Answer(result)
  PROVE  Stopped
BY DEF Ends, Stopped, NoCall, Idle

LEMMA Returned == ASSUME NEW order, ReturnsEarly(order) PROVE Stopped
BY Refuses, FailsIsNoAnswer DEF ReturnsEarly

LEMMA DecryptParses ==
  ASSUME VirgilInv, call.fn = "decrypt", Parse
  PROVE  \/ Stopped
         \/ /\ call.at = 1 /\ Answer(ParseContainer(regs.arg.container))
            /\ Moved([regs EXCEPT !.parts = ParseContainer(regs.arg.container).ok])
<1>1. At("parse") /\ call.at = 1
  BY DecryptPlaces DEF Parse
<1>2. PICK c : c = ParseContainer(regs.arg.container)
  OBVIOUS
<1>3. CASE "ok" \in DOMAIN c
  <2>1. Goes([regs EXCEPT !.parts = c.ok], {})
    BY <1>2, <1>3 DEF Parse
  <2> QED BY <1>1, <1>2, <1>3, <2>1, Moves DEF Answer
<1>4. CASE "ok" \notin DOMAIN c
  <2>1. Ends(c, {}, {})
    BY <1>2, <1>4 DEF Parse
  <2> QED BY <1>4, <2>1, Refuses DEF Answer
<1> QED BY <1>3, <1>4

LEMMA DecryptUnwraps ==
  ASSUME VirgilInv, call.fn = "decrypt", Unwrap
  PROVE  \/ Stopped
         \/ /\ call.at = 2
            /\ \E der : /\ DecryptPrivateKey(regs.arg.rsa, regs.arg.blob) = Gives(der)
                        /\ Moved([regs EXCEPT !.der = der])
<1>1. At("unwrap") /\ call.at = 2
  BY DecryptPlaces DEF Unwrap
<1>2. PICK k : k = DecryptPrivateKey(regs.arg.rsa, regs.arg.blob)
  OBVIOUS
<1>3. CASE "ok" \in DOMAIN k
  <2>1. Goes([regs EXCEPT !.der = k.ok], {})
    BY <1>2, <1>3 DEF Unwrap
  <2>2. PICK der : k = Gives(der)
    BY <1>2, <1>3, FailsIsNoAnswer DEF DecryptPrivateKey, Answer
  <2>3. k.ok = der
    BY <2>2 DEF Gives
  <2>4. Moved([regs EXCEPT !.der = k.ok])
    BY <2>1, Moves
  <2> QED BY <1>1, <1>2, <2>2, <2>3, <2>4
<1>4. CASE "ok" \notin DOMAIN k
  <2>1. Ends(k, {}, {})
    BY <1>2, <1>4 DEF Unwrap
  <2> QED BY <1>4, <2>1, Refuses DEF Answer
<1> QED BY <1>3, <1>4

LEMMA DecryptPrepares ==
  ASSUME VirgilInv, call.fn = "decrypt", NewRuntime \/ NewCipher
  PROVE  Stopped \/ (call.at \in {3, 5} /\ Moved(regs))
<1>1. CASE NewRuntime
  <2>1. At("runtime") /\ call.at = 3
    BY <1>1, DecryptPlaces DEF NewRuntime
  <2> QED BY <1>1, <2>1, Moves, Refuses, Returned, FailsIsNoAnswer DEF NewRuntime
<1>2. CASE NewCipher
  <2>1. At("cipher") /\ call.at = 5
    BY <1>2, DecryptPlaces DEF NewCipher
  <2> QED BY <1>2, <2>1, Moves, Returned DEF NewCipher
<1> QED BY <1>1, <1>2

LEMMA DecryptImports ==
  ASSUME VirgilInv, call.fn = "decrypt", ImportPrivateKey
  PROVE  Stopped \/ (call.at = 4 /\ Moved([regs EXCEPT !.key = regs.der.of]))
<1>1. At("import_private_key") /\ call.at = 4 /\ Import("sec1", "private_key")
  BY DecryptPlaces DEF ImportPrivateKey
<1>2. Imported = regs.der
  BY DEF Imported
<1> QED BY <1>1, <1>2, Moves, Refuses, Returned, FailsIsNoAnswer DEF Import

LEMMA DecryptStarts ==
  ASSUME VirgilInv, call.fn = "decrypt", Start
  PROVE  Stopped \/ (call.at = 6 /\ regs.parts.id = NameOf(regs.key) /\ Moved(regs))
<1>1. At("start") /\ call.at = 6
  BY DecryptPlaces DEF Start
<1> QED BY <1>1, Moves, Refuses, Returned, FailsIsNoAnswer DEF Start, NameOf

LEMMA DecryptProcesses ==
  ASSUME VirgilInv, call.fn = "decrypt", Process
  PROVE  \/ Stopped
         \/ /\ call.at = 7
            /\ \E n \in 0..Len(Plaintext) : Moved([regs EXCEPT !.out = SubSeq(Plaintext, 1, n)])
<1>1. At("process") /\ call.at = 7
  BY DecryptPlaces DEF Process
<1> QED BY <1>1, Moves, Refuses, Returned, FailsIsNoAnswer DEF Process

LEMMA DecryptFinishes ==
  ASSUME VirgilInv, call.fn = "decrypt", Finish
  PROVE  Stopped \/ (call.at = 8 /\ Authentic /\ Moved([regs EXCEPT !.rest = Remaining]))
<1>1. At("finish") /\ call.at = 8
  BY DecryptPlaces DEF Finish
<1> QED BY <1>1, Moves, Refuses, Returned, FailsIsNoAnswer DEF Finish, FinishSucceeds, FinishFails

LEMMA DecryptTakes == ASSUME VirgilInv, call.fn = "decrypt", Take PROVE Stopped
<1>1. At("take") /\ call.at = 9
  BY DecryptPlaces DEF Take
<1>2. PICK decrypted, key : decrypted = regs.out \o regs.rest /\ key = FromBytes(decrypted)
  OBVIOUS
<1>3. \/ Ends(IF decrypted = <<>> THEN Fails("empty")
              ELSE IF "ok" \in DOMAIN key THEN key ELSE Fails("Key"),
              {}, {"process_buffer", "finish_buffer", "cipher"})
      \/ \E released \in {{}, {"process_buffer"}} : Ends(Fails("wasm"), {}, released)
  BY <1>2 DEF Take
<1>4. CASE Ends(key, {}, {"process_buffer", "finish_buffer", "cipher"})
  BY <1>1, <1>2, <1>4 DEF Ends, Stopped, NoCall, Idle
<1> QED BY <1>3, <1>4, Refuses, FailsIsNoAnswer

\* Each step of decrypt_mobile_key ends it, or adds one thing to what is known.
LEMMA DecryptStep ==
  ASSUME VirgilInv, call.fn = "decrypt", VirgilNext
  PROVE  \/ Stopped
         \/ /\ call.at = 1 /\ Answer(ParseContainer(regs.arg.container))
            /\ Moved([regs EXCEPT !.parts = ParseContainer(regs.arg.container).ok])
         \/ /\ call.at = 2
            /\ \E der : /\ DecryptPrivateKey(regs.arg.rsa, regs.arg.blob) = Gives(der)
                        /\ Moved([regs EXCEPT !.der = der])
         \/ call.at \in {3, 5} /\ Moved(regs)
         \/ call.at = 4 /\ Moved([regs EXCEPT !.key = regs.der.of])
         \/ call.at = 6 /\ regs.parts.id = NameOf(regs.key) /\ Moved(regs)
         \/ /\ call.at = 7
            /\ \E n \in 0..Len(Plaintext) : Moved([regs EXCEPT !.out = SubSeq(Plaintext, 1, n)])
         \/ call.at = 8 /\ Authentic /\ Moved([regs EXCEPT !.rest = Remaining])
<1>1. ~\E m \in {"generate_private_key", "export_private_key", "extract_public_key",
                 "import_public_key", "export_public_key"} : At(m)
  BY DecryptPlaces
<1>2. ~(GeneratePrivateKey \/ ImportPublicKey \/ ExportPrivateKey \/ ExtractPublicKey
        \/ ExportPublicKey)
  BY <1>1 DEF GeneratePrivateKey, ImportPublicKey, ExportPrivateKey, ExtractPublicKey,
              ExportPublicKey
<1> QED BY <1>2, DecryptParses, DecryptUnwraps, DecryptPrepares, DecryptImports, DecryptStarts,
           DecryptProcesses, DecryptFinishes, DecryptTakes DEF VirgilNext

LEMMA DecryptKnows ==
  ASSUME DecryptFits, call.fn = "decrypt"
  PROVE  /\ call.at > 2 => DecryptPrivateKey(regs.arg.rsa, regs.arg.blob) = Gives(regs.der)
         /\ call.at > 4 => regs.key = regs.der.of
         /\ call.at > 6 => regs.parts.id = NameOf(regs.key)
         /\ call.at > 7 => \E n \in 0..Len(Plaintext) : regs.out = SubSeq(Plaintext, 1, n)
         /\ call.at > 8 => Authentic /\ regs.rest = Remaining
<1>1. \A n : Past("decrypt", n) <=> call.at > n
  BY DEF Past
<1> QED BY <1>1, Zenon DEF DecryptFits, NameOf

\* What is known once a step has been left, whichever comes next.
LEMMA DecryptFitsKeeps ==
  ASSUME VirgilInv, DecryptFits, call.fn = "decrypt", VirgilNext
  PROVE  DecryptFits'
<1>1. CASE Stopped
  <2>1. call'.fn # "decrypt"
    BY <1>1, KeystoreAssumption DEF Stopped, Idle
  <2> QED BY <2>1 DEF DecryptFits, Past
<1>2. ASSUME call.at = 1, NEW r, Moved(r) PROVE DecryptFits'
  BY <1>2 DEF Moved, DecryptFits, Past
<1>3. ASSUME call.at = 2, NEW der, DecryptPrivateKey(regs.arg.rsa, regs.arg.blob) = Gives(der),
             Moved([regs EXCEPT !.der = der])
      PROVE  DecryptFits'
  <2>1. call'.at = 3 /\ regs'.arg = regs.arg /\ regs'.der = der
    BY <1>3, RegsAre DEF Moved
  <2> QED BY <1>3, <2>1 DEF DecryptFits, Past
<1>4. ASSUME call.at \in {3, 5}, Moved(regs) PROVE DecryptFits'
  <2>1. call'.fn = "decrypt" /\ call'.at \in {4, 6} /\ regs' = regs
    BY <1>4 DEF Moved
  <2>2. call.at = 5 => call'.at = 6
    BY <1>4 DEF Moved
  <2>3. DecryptPrivateKey(regs.arg.rsa, regs.arg.blob) = Gives(regs.der)
    BY <1>4, DecryptKnows
  <2>4. call'.at = 6 => regs.key = regs.der.of
    <3>1. call'.at = 6 => call.at > 4
      BY <1>4 DEF Moved
    <3> QED BY <3>1, DecryptKnows
  <2>5. ~(call'.at > 6) /\ ~(call'.at > 7) /\ ~(call'.at > 8) /\ (call'.at > 4 => call'.at = 6)
    BY <2>1
  <2> QED BY <2>1, <2>3, <2>4, <2>5, Zenon DEF DecryptFits, Past
<1>5. ASSUME call.at = 4, Moved([regs EXCEPT !.key = regs.der.of]) PROVE DecryptFits'
  <2>1. /\ call'.fn = "decrypt" /\ call'.at = 5
        /\ regs'.arg = regs.arg /\ regs'.der = regs.der /\ regs'.key = regs.der.of
    BY <1>5, RegsAre DEF Moved
  <2> QED BY <1>5, <2>1 DEF DecryptFits, Past
<1>6. ASSUME call.at = 6, regs.parts.id = NameOf(regs.key), Moved(regs) PROVE DecryptFits'
  BY <1>6 DEF Moved, DecryptFits, Past, NameOf
<1>7. ASSUME call.at = 7, NEW n \in 0..Len(Plaintext),
             Moved([regs EXCEPT !.out = SubSeq(Plaintext, 1, n)])
      PROVE  DecryptFits'
  <2>1. /\ call'.fn = "decrypt" /\ call'.at = 8 /\ regs'.out = SubSeq(Plaintext, 1, n)
        /\ regs'.arg = regs.arg /\ regs'.der = regs.der /\ regs'.key = regs.key
        /\ regs'.parts = regs.parts
    BY <1>7, RegsAre DEF Moved
  <2>2. Plaintext' = Plaintext
    BY <2>1 DEF Plaintext
  <2>3. /\ DecryptPrivateKey(regs.arg.rsa, regs.arg.blob) = Gives(regs.der)
        /\ regs.key = regs.der.of /\ regs.parts.id = NameOf(regs.key)
    BY <1>7, DecryptKnows
  <2>4. \E k \in 0..Len(Plaintext') : regs'.out = SubSeq(Plaintext', 1, k)
    BY <1>7, <2>1, <2>2
  <2>5. ~(call'.at > 8)
    BY <2>1
  <2> QED BY <2>1, <2>3, <2>4, <2>5, Zenon DEF DecryptFits, Past, NameOf
<1>8. ASSUME call.at = 8, Authentic, Moved([regs EXCEPT !.rest = Remaining]) PROVE DecryptFits'
  <2>1. /\ call'.fn = "decrypt" /\ call'.at = 9 /\ regs'.rest = Remaining
        /\ regs'.arg = regs.arg /\ regs'.der = regs.der /\ regs'.key = regs.key
        /\ regs'.parts = regs.parts /\ regs'.out = regs.out
    BY <1>8, RegsAre DEF Moved
  <2>2. Plaintext' = Plaintext /\ Authentic' /\ Remaining' = Remaining
    BY <1>8, <2>1 DEF Plaintext, Authentic, Remaining
  <2>3. /\ DecryptPrivateKey(regs.arg.rsa, regs.arg.blob) = Gives(regs.der)
        /\ regs.key = regs.der.of /\ regs.parts.id = NameOf(regs.key)
        /\ \E n \in 0..Len(Plaintext) : regs.out = SubSeq(Plaintext, 1, n)
    BY <1>8, DecryptKnows
  <2> QED BY <2>1, <2>2, <2>3, Zenon DEF DecryptFits, Past, NameOf
<1> QED BY <1>1, <1>2, <1>3, <1>4, <1>5, <1>6, <1>7, <1>8, DecryptStep

-----------------------------------------------------------------------------
(* mkey_decode: the key that comes out is the one that was issued *)

LEMMA Unappended ==
  ASSUME NEW b \in Seq(Byte)
  PROVE  SubSeq(Append(b, 0), 1, Len(Append(b, 0)) - 1) = b
<1>1. PICK a : a = Append(b, 0)
  OBVIOUS
<1>2. a \in Seq(Byte) /\ Len(a) = Len(b) + 1 /\ \A i \in 1..Len(b) : a[i] = b[i]
  <2>1. 0 \in Byte
    BY DEF Byte
  <2> QED BY <1>1, <2>1, AppendProperties
<1>3. SubSeq(a, 0 + 1, 0 + Len(b)) = b
  <2>1. Len(b) \in Nat /\ 0 + Len(b) <= Len(a)
    BY <1>2
  <2>2. /\ SubSeq(a, 0 + 1, 0 + Len(b)) \in Seq(Byte) /\ Len(SubSeq(a, 0 + 1, 0 + Len(b))) = Len(b)
        /\ \A i \in 1..Len(b) : SubSeq(a, 0 + 1, 0 + Len(b))[i] = a[0 + i]
    BY <1>2, <2>1, Sliced
  <2>3. \A i \in 1..Len(b) : SubSeq(a, 0 + 1, 0 + Len(b))[i] = b[i]
    BY <1>2, <2>2
  <2> QED BY <2>2, <2>3, SeqEqual
<1>4. 0 + 1 = 1 /\ 0 + Len(b) = Len(a) - 1
  BY <1>2
<1> QED BY <1>1, <1>3, <1>4

\* The two buffers that are taken make up what was encrypted.
LEMMA Rejoined ==
  ASSUME NEW b \in Seq(Byte), NEW n \in 0..Len(b)
  PROVE  SubSeq(b, 1, n) \o SubSeq(b, Len(SubSeq(b, 1, n)) + 1, Len(b)) = b
<1>1. Len(SubSeq(b, 0 + 1, 0 + n)) = n
  BY Sliced
<1>2. Len(SubSeq(b, 1, n)) = n
  <2>1. 0 + 1 = 1 /\ 0 + n = n
    OBVIOUS
  <2> QED BY <1>1, <2>1
<1>3. SubSeq(b, 1, n) \o SubSeq(b, n + 1, Len(b)) = SubSeq(b, 1, Len(b))
  <2>1. 1 \in 1..Len(b) + 1 /\ n \in 1 - 1..Len(b) /\ Len(b) \in n..Len(b)
    OBVIOUS
  <2> QED BY <2>1, ConcatAdjacentSubSeq
<1>4. SubSeq(b, 1, Len(b)) = b
  BY SubSeqFull
<1> QED BY <1>2, <1>3, <1>4

LEMMA Decrypted ==
  ASSUME EncodingsReadBack, regs.key \in Pairs, Authentic, regs.rest = Remaining,
         \E n \in 0..Len(Plaintext) : regs.out = SubSeq(Plaintext, 1, n)
  PROVE  regs.out \o regs.rest \in Encodings(regs.key)
<1>1. PICK b \in Encodings(regs.key) : regs.parts.content = Append(b, 0)
  BY DEF Authentic
<1>2. b \in Seq(Byte)
  BY <1>1 DEF EncodingsReadBack
<1>3. Plaintext = b
  BY <1>1, <1>2, Unappended DEF Plaintext
<1>4. PICK n \in 0..Len(b) : regs.out = SubSeq(b, 1, n)
  BY <1>3
<1>5. regs.rest = SubSeq(b, Len(regs.out) + 1, Len(b))
  BY <1>3 DEF Remaining
<1>6. regs.out \o regs.rest = b
  BY <1>2, <1>4, <1>5, Rejoined, Zenon
<1> QED BY <1>1, <1>6

\* Names of different devices are different.
LEMMA NamesDiffer == ASSUME NEW g, NEW h, NameOf(g) = NameOf(h) PROVE g = h
<1>1. NameOf(g)[1] = g /\ NameOf(h)[1] = h
  BY DEF NameOf
<1> QED BY <1>1

\* A step of decrypt_mobile_key is a step of mkey_decode.
LEMMA DecodeStep ==
  ASSUME Inductive, DecodeInv, EncodingsReadBack, LibraryStep, program = "decode"
  PROVE  DecodeInv'
<1>1. UNCHANGED <<disk, program, work>> /\ VirgilInv /\ VirgilNext /\ KeystoreTypeOK
  BY DEF LibraryStep, diskVars, toolVars, Inductive, KeystoreInv
<1>2. ~Idle
  BY <1>1, LibraryKeeps DEF Progress
<1>3. call.fn = "decrypt"
  BY <1>2, StepTable DEF Inductive, KeystoreInv, ProgramFits
<1>4. DecryptFits /\ DecryptFits'
  BY <1>1, <1>3, DecryptFitsKeeps DEF DecodeInv
<1>5. PICK g \in Pairs : g = work.for
  BY DEF DecodeInv
<1>6. /\ disk["private_key.der"] # None /\ disk["sdk.txt"] # None
      /\ regs.arg = [rsa |-> disk["private_key.der"], blob |-> disk["sdk.txt"],
                     container |-> regs.arg.container]
      /\ call.at = 1 => \E sent \in SealedTo(g) : regs.arg.container \in Containers(sent)
      /\ call.at > 1 => regs.parts.id = NameOf(g)
  BY <1>2, <1>5 DEF DecodeInv, NameOf
<1>7. call.at \in Nat /\ call.at >= 1
  <2>1. call.at \in DOMAIN Methods["decrypt"]
    BY <1>1, <1>2, <1>3 DEF VirgilInv, HeapFits
  <2> QED BY <2>1, MethodTable
<1>8. /\ work'.for = g /\ disk' = disk /\ program' = "decode"
      /\ work'.for \in Pairs /\ disk'["private_key.der"] # None /\ disk'["sdk.txt"] # None
  BY <1>1, <1>5, <1>6
<1>9. CASE Stopped
  <2>1. Idle'
    BY <1>9 DEF Stopped
  <2>2. ASSUME Answer(ret') PROVE OpensFor(g)' /\ \E b \in Encodings(g) : ret' = FromBytes(b)
    <3>1. call.at = 9 /\ ret' = FromBytes(regs.out \o regs.rest)
      BY <1>9, <2>2 DEF Stopped
    <3>2. /\ DecryptPrivateKey(regs.arg.rsa, regs.arg.blob) = Gives(regs.der)
          /\ regs.key = regs.der.of /\ regs.parts.id = NameOf(regs.key)
          /\ \E n \in 0..Len(Plaintext) : regs.out = SubSeq(Plaintext, 1, n)
          /\ Authentic /\ regs.rest = Remaining
      BY <1>3, <1>4, <3>1, DecryptKnows
    <3>3. regs.key = g
      BY <1>6, <3>1, <3>2, NamesDiffer
    <3>4. regs.arg.rsa = disk["private_key.der"] /\ regs.arg.blob = disk["sdk.txt"]
      BY <1>6
    <3>5. PICK h \in Pairs : Gives(regs.der) = Gives(Sec1(h)) /\ OpensFor(h)
      <4>1. Answer(Gives(regs.der))
        BY DEF Answer, Gives
      <4> QED BY <1>1, <1>6, <3>2, <3>4, <4>1, Unwrapped
    <3>6. h = g
      <4>1. Gives(regs.der).ok = regs.der /\ Gives(Sec1(h)).ok = Sec1(h) /\ Sec1(h).of = h
        BY DEF Gives, Sec1
      <4>2. regs.der = Sec1(h)
        BY <3>5, <4>1
      <4> QED BY <3>2, <3>3, <4>1, <4>2
    <3>7. OpensFor(g)'
      BY <1>1, <3>5, <3>6, SameDisk
    <3>8. regs.out \o regs.rest \in Encodings(g)
      BY <3>2, <3>3, Decrypted
    <3> QED BY <3>1, <3>7, <3>8
  <2> QED BY <1>4, <1>8, <2>1, <2>2 DEF DecodeInv
<1>10. ASSUME NEW r, Moved(r), r.arg = regs.arg, r.parts.id = NameOf(g) PROVE DecodeInv'
  <2>1. ~Idle' /\ call'.at > 1
    BY <1>7, <1>10, KeystoreAssumption DEF Moved, Idle
  <2>2. regs'.arg = regs.arg /\ regs'.parts.id = NameOf(g) /\ call'.at # 1
    BY <1>7, <1>10 DEF Moved
  <2>3. regs'.arg = [rsa |-> disk'["private_key.der"], blob |-> disk'["sdk.txt"],
                     container |-> regs'.arg.container]
    BY <1>6, <1>8, <2>2
  <2> QED BY <1>4, <1>8, <2>1, <2>2, <2>3, Zenon DEF DecodeInv, NameOf
<1>11. CASE /\ call.at = 1 /\ Answer(ParseContainer(regs.arg.container))
            /\ Moved([regs EXCEPT !.parts = ParseContainer(regs.arg.container).ok])
  <2>1. PICK sent \in SealedTo(g) : regs.arg.container \in Containers(sent)
    BY <1>6, <1>11
  <2>2. ParseContainer(regs.arg.container).ok.id = NameOf(g)
    BY <1>11, <2>1, ParsedNames
  <2>3. PICK r : r = [regs EXCEPT !.parts = ParseContainer(regs.arg.container).ok]
    OBVIOUS
  <2>4. r.arg = regs.arg /\ r.parts.id = NameOf(g)
    BY <1>1, <2>2, <2>3, RegsAre
  <2> QED BY <1>10, <1>11, <2>3, <2>4
<1>12. ASSUME call.at > 1, NEW r, Moved(r), r.arg = regs.arg, r.parts = regs.parts
       PROVE  DecodeInv'
  BY <1>6, <1>10, <1>12
<1>13. CASE \/ call.at \in {3, 5} /\ Moved(regs)
            \/ call.at = 6 /\ regs.parts.id = NameOf(regs.key) /\ Moved(regs)
  BY <1>12, <1>13
<1>14. ASSUME call.at > 1, NEW x,
              \/ Moved([regs EXCEPT !.der = x]) \/ Moved([regs EXCEPT !.key = x])
              \/ Moved([regs EXCEPT !.out = x]) \/ Moved([regs EXCEPT !.rest = x])
       PROVE  DecodeInv'
  <2>1. PICK r : /\ Moved(r)
                 /\ \/ r = [regs EXCEPT !.der = x] \/ r = [regs EXCEPT !.key = x]
                    \/ r = [regs EXCEPT !.out = x] \/ r = [regs EXCEPT !.rest = x]
    BY <1>14
  <2>2. r.arg = regs.arg /\ r.parts = regs.parts
    BY <1>1, <2>1, RegsAre
  <2> QED BY <1>12, <1>14, <2>1, <2>2
<1>15. CASE call.at \in {2, 4, 7, 8}
            /\ \E x : \/ Moved([regs EXCEPT !.der = x]) \/ Moved([regs EXCEPT !.key = x])
                      \/ Moved([regs EXCEPT !.out = x]) \/ Moved([regs EXCEPT !.rest = x])
  BY <1>14, <1>15
<1> QED BY <1>1, <1>3, <1>9, <1>11, <1>13, <1>15, DecryptStep, Zenon

\* No key is being decrypted, and mkey_decode does not run.
LEMMA NotDecoding == ASSUME call'.fn # "decrypt", program' # "decode" PROVE DecodeInv'
BY DEF DecodeInv, DecryptFits, Past

LEMMA LibraryDecodes ==
  ASSUME Inductive, DecodeInv, EncodingsReadBack, LibraryStep PROVE DecodeInv'
<1>1. CASE program = "decode"
  BY <1>1, DecodeStep
<1>2. CASE program # "decode"
  <2>1. program' # "decode" /\ VirgilInv /\ VirgilNext
    BY <1>2 DEF LibraryStep, toolVars, Inductive, KeystoreInv
  <2>2. ~Idle /\ (GoesOn \/ Ended)
    BY <2>1, LibraryKeeps DEF Progress
  <2>3. call.fn # "decrypt"
    BY <1>2, <2>2, StepTable, KeystoreAssumption DEF Inductive, KeystoreInv, ProgramFits
  <2>4. call'.fn # "decrypt"
    BY <2>2, <2>3, KeystoreAssumption DEF GoesOn, Ended, Idle
  <2> QED BY <2>1, <2>4, NotDecoding
<1> QED BY <1>1, <1>2

LEMMA StartsDecoding == ASSUME Inductive, DecodeInv, StartDecode PROVE DecodeInv'
<1>1. /\ program' = "decode" /\ work' = [NoWork EXCEPT !.for = device] /\ UNCHANGED disk
      /\ device # None /\ disk["private_key.der"] # None /\ disk["sdk.txt"] # None
  BY DEF StartDecode, diskVars
<1>2. PICK sent, container :
        /\ sent \in SealedTo(device) /\ container \in Containers(sent)
        /\ Enter("decrypt", [rsa  |-> disk["private_key.der"], blob |-> disk["sdk.txt"],
                             container |-> container])
  BY DEF StartDecode
<1>3. /\ call' = [fn |-> "decrypt", at |-> 1]
      /\ regs' = [NoRegs EXCEPT !.arg = [rsa  |-> disk["private_key.der"], blob |-> disk["sdk.txt"],
                                         container |-> container]]
  BY <1>2 DEF Enter
<1>4. work'.for = device /\ device \in Pairs
  BY <1>1 DEF NoWork, Inductive, KeystoreTypeOK
<1>5. call'.fn = "decrypt" /\ call'.at = 1 /\ ~(call'.at > 1) /\ ~Idle'
  BY <1>3, KeystoreAssumption DEF Idle
<1>6. DecryptFits'
  <2>1. \A n \in {2, 4, 6, 7, 8} : ~Past("decrypt", n)'
    BY <1>5 DEF Past
  <2> QED BY <2>1 DEF DecryptFits
<1>7. /\ regs'.arg = [rsa |-> disk["private_key.der"], blob |-> disk["sdk.txt"],
                      container |-> container]
      /\ regs'.arg.container = container
  BY <1>3 DEF NoRegs
<1>8. \E s \in SealedTo(work'.for) : regs'.arg.container \in Containers(s)
  BY <1>2, <1>4, <1>7
<1>9. regs'.arg = [rsa |-> disk'["private_key.der"], blob |-> disk'["sdk.txt"],
                   container |-> regs'.arg.container]
  BY <1>1, <1>7
<1> QED BY <1>1, <1>4, <1>5, <1>6, <1>8, <1>9 DEF DecodeInv

\* The programs that ask the library for something else, or for nothing.
LEMMA OthersDecodeNothing ==
  ASSUME Inductive, DecodeInv,
         \/ Stops \/ \E force \in BOOLEAN : StartGen(force)
         \/ GenerateRsa \/ WrapPair \/ TruncateFile \/ WriteFile
         \/ StartCheck \/ CheckUnwraps \/ CheckDerives \/ CheckConcludes
         \/ Register \/ RemovePlaintextCopy \/ Discard \/ DecodePrints \/ OpenLoads
  PROVE  DecodeInv'
<1>1. CASE Stops \/ DecodePrints
  BY <1>1, KeystoreAssumption, NotDecoding DEF Stops, DecodePrints, Exits, NoCall, Runs, Idle
<1>2. CASE GenerateRsa \/ CheckUnwraps \/ CheckDerives
  <2>1. PICK fn, arg : fn \in {"generate", "derive", "roundtrip"} /\ Enter(fn, arg)
    BY <1>2 DEF GenerateRsa, CheckUnwraps, CheckDerives
  <2>2. call'.fn # "decrypt"
    BY <2>1 DEF Enter
  <2>3. program' # "decode"
    BY <1>2 DEF GenerateRsa, CheckUnwraps, CheckDerives, Runs, Continues
  <2> QED BY <2>2, <2>3, NotDecoding
<1>3. CASE WrapPair \/ TruncateFile \/ WriteFile \/ CheckConcludes
  <2>1. call'.fn # "decrypt"
    BY <1>3, KeystoreAssumption
       DEF WrapPair, TruncateFile, WriteFile, CheckConcludes, Runs, Idle, Exits, NoCall,
           virgilVars
  <2>2. program' # "decode"
    BY <1>3, KeystoreAssumption
       DEF WrapPair, TruncateFile, WriteFile, CheckConcludes, Runs, Continues, Exits, toolVars
  <2> QED BY <2>1, <2>2, NotDecoding
<1>4. CASE \/ \E force \in BOOLEAN : StartGen(force)
           \/ StartCheck \/ Register \/ RemovePlaintextCopy \/ Discard \/ OpenLoads
  <2>1. program = None /\ UNCHANGED virgilVars /\ program' \in {None, "gen", "check", "open"}
    BY <1>4 DEF StartGen, StartCheck, Register, RemovePlaintextCopy, Discard, OpenLoads, toolVars
  <2>2. Idle
    BY <2>1, Quiet
  <2>3. call'.fn # "decrypt" /\ program' # "decode"
    BY <2>1, <2>2, KeystoreAssumption DEF virgilVars, Idle
  <2> QED BY <2>3, NotDecoding
<1> QED BY <1>1, <1>2, <1>3, <1>4

LEMMA DecodeStutters == ASSUME DecodeInv, UNCHANGED vars PROVE DecodeInv'
<1>1. UNCHANGED <<call, regs, ret, disk, program, work>>
  BY DEF vars, virgilVars, diskVars, toolVars
<1>2. Idle' = Idle /\ Plaintext' = Plaintext
  BY <1>1 DEF Idle, Plaintext
<1>3. Authentic' = Authentic /\ Remaining' = Remaining
  BY <1>1, <1>2 DEF Authentic, Remaining
<1>4. DecryptFits'
  BY <1>1, <1>2, <1>3, Zenon DEF DecodeInv, DecryptFits, Past
<1>5. \A g : OpensFor(g)' = OpensFor(g)
  BY <1>1 DEF OpensFor
<1> QED BY <1>1, <1>2, <1>4, <1>5, Zenon DEF DecodeInv

\* What mkey_decode has, it was given by the library, and is the issued key.
LEMMA DecodedIsIssued ==
  ASSUME EncodingsReadBack, DecodeInv, Runs("decode", "decrypted"), Answer(ret)
  PROVE  ret.ok = MaterialiseSystemTags(Issued[work.for]) /\ OpensFor(work.for)
<1>1. PICK b \in Encodings(work.for) : OpensFor(work.for) /\ ret = FromBytes(b)
  BY DEF DecodeInv, Runs
<1>2. ret = Loaded(MaterialiseSystemTags(Issued[work.for]))
  BY <1>1 DEF EncodingsReadBack, DecodeInv, Runs
<1> QED BY <1>1, <1>2 DEF Loaded

\* It holds at the start, and every step keeps it.
LEMMA DecodeInitially == ASSUME Init PROVE DecodeInv
<1>1. call.fn = None /\ program = None
  BY DEF Init, VirgilInit, NoCall
<1> QED BY <1>1, KeystoreAssumption DEF DecodeInv, DecryptFits, Past

LEMMA DecodeKeeps ==
  ASSUME EncodingsReadBack, Inductive, DecodeInv, [Next]_vars
  PROVE  Inductive' /\ DecodeInv'
BY NextKeeps, LibraryDecodes, StartsDecoding, OthersDecodeNothing, DecodeStutters DEF Next

\* mkey_decode and decrypt_mobile_key give all of the key that was issued to the
\* pair in sdk.txt, or an error, wherever a container is cut and whatever the
\* library had not yet authenticated, for every set of keys that to_bytes can
\* store.
THEOREM DecodeGivesTheIssuedKey == ASSUME KeysAreStorable PROVE Spec => []OnlyTheIssuedKey
<1>1. Init => Inductive /\ DecodeInv
  BY InitKeeps, DecodeInitially
<1>2. Inductive /\ DecodeInv /\ [Next]_vars => (Inductive /\ DecodeInv)'
  BY DecodeKeeps, StorableReadsBack
<1>3. DecodeInv => OnlyTheIssuedKey
  BY DecodedIsIssued, StorableReadsBack DEF OnlyTheIssuedKey
<1> QED BY <1>1, <1>2, <1>3, PTL DEF Spec

-----------------------------------------------------------------------------
(* From the desk to the door *)

\* The audit tags that every load adds are not stored again.
LEMMA StoredAgain ==
  ASSUME NEW key, Storable(key), NEW loaded, loaded = MaterialiseSystemTags(key)
  PROVE  /\ StoredTags(loaded) = StoredTags(key)
         /\ \A order \in SetToSeqs(StoredTags(key)) : ToBytes(loaded, order) = ToBytes(key, order)
<1>1. Audit \cap DOMAIN key.tags = {} /\ Audit \subseteq SystemTags
  BY DEF Storable, SystemTags, Audit
<1>2. loaded = [fixed |-> key.fixed,
                tags  |-> [id \in DOMAIN key.tags \cup Audit |-> IF id \in Audit THEN AuditTag ELSE key.tags[id]]]
  <2>1. key = [fixed |-> key.fixed, tags |-> key.tags]
    BY DEF Storable, IsMobileKey
  <2>2. MaterialiseSystemTags([fixed |-> key.fixed, tags |-> key.tags]) =
          [fixed |-> key.fixed,
           tags  |-> [id \in DOMAIN key.tags \cup Audit |-> IF id \in Audit THEN AuditTag ELSE key.tags[id]]]
    BY <1>1, AuditAdded
  <2> QED
    BY <2>1, <2>2
<1>3. /\ loaded.fixed = key.fixed /\ DOMAIN loaded.tags = DOMAIN key.tags \cup Audit
      /\ \A id \in DOMAIN key.tags : loaded.tags[id] = key.tags[id]
  BY <1>1, <1>2
<1>4. StoredTags(loaded) = StoredTags(key)
  BY <1>1, <1>3 DEF StoredTags
<1>5. ASSUME NEW order \in SetToSeqs(StoredTags(key)) PROVE ToBytes(loaded, order) = ToBytes(key, order)
  <2>1. InOrder(key, order)
    BY OrdersAreComplete
  <2>2. \A i \in 1..3 + Len(order) : ~(i <= 3) => order[i - 3] \in DOMAIN key.tags
    <3>1. \A i \in 1..3 + Len(order) : ~(i <= 3) => i - 3 \in 1..Len(order)
      BY <2>1 DEF InOrder
    <3> QED
      BY <2>1, <3>1 DEF InOrder
  <2>3. \A i \in 1..3 + Len(order) : ~(i <= 3) => EncodeTag(loaded, order[i - 3]) = EncodeTag(key, order[i - 3])
    BY <1>3, <2>2 DEF EncodeTag
  <2>4. [i \in 1..3 + Len(order) |-> IF i <= 3 THEN EncodeTlv(i - 1, loaded.fixed[i - 1])
                                               ELSE EncodeTag(loaded, order[i - 3])]
          = [i \in 1..3 + Len(order) |-> IF i <= 3 THEN EncodeTlv(i - 1, key.fixed[i - 1])
                                                   ELSE EncodeTag(key, order[i - 3])]
    BY <1>3, <2>3
  <2> QED
    BY <2>4 DEF ToBytes
<1> QED
  BY <1>4, <1>5

\* mkey_decode prints an encoding of the issued key.
LEMMA PrintsAnEncoding ==
  ASSUME KeysAreStorable, Inductive, DecodeInv, StorageInv, DecodePrints
  PROVE  StorageInv'
<1>1. /\ Runs("decode", "decrypted") /\ Answer(ret) /\ program' = None
      /\ \E order \in SetToSeqs(StoredTags(ret.ok)) :
           tlv' = [for |-> work.for, bytes |-> ToBytes(ret.ok, order)]
  BY DEF DecodePrints, Exits
<1>2. work.for \in Pairs
  BY <1>1 DEF DecodeInv, Runs
<1>3. ret.ok = MaterialiseSystemTags(Issued[work.for])
  BY <1>1, DecodedIsIssued, StorableReadsBack
<1>4. Storable(Issued[work.for])
  BY <1>2 DEF KeysAreStorable
<1>5. tlv'.for \in Pairs /\ tlv'.bytes \in Encodings(tlv'.for)
  <2>1. PICK order \in SetToSeqs(StoredTags(ret.ok)) :
          tlv' = [for |-> work.for, bytes |-> ToBytes(ret.ok, order)]
    BY <1>1
  <2>2. order \in SetToSeqs(StoredTags(Issued[work.for]))
        /\ ToBytes(ret.ok, order) = ToBytes(Issued[work.for], order)
    BY <1>3, <1>4, StoredAgain
  <2> QED
    BY <1>2, <2>1, <2>2 DEF Encodings
<1>6. KeySurvivesStorage'
  BY <1>1, KeystoreAssumption DEF KeySurvivesStorage
<1> QED
  BY <1>5, <1>6 DEF StorageInv

\* mkey_open loads that key, or what a cut left of it.
LEMMA LoadsTheIssuedKey ==
  ASSUME KeysAreStorable, StorageInv, OpenLoads
  PROVE  StorageInv'
<1>1. PICK bytes \in Arrivals(tlv.bytes) :
        /\ Answer(FromBytes(bytes))
        /\ work' = [NoWork EXCEPT !.for = tlv.for, !.key = FromBytes(bytes).ok,
                                  !.whole = bytes = tlv.bytes]
  BY DEF OpenLoads
<1>2. tlv # None /\ UNCHANGED tlv
  BY DEF OpenLoads, outVars
<1>3. tlv.for \in Pairs /\ tlv.bytes \in Encodings(tlv.for)
  BY <1>2 DEF StorageInv
<1> DEFINE sent == MaterialiseSystemTags(Issued[tlv.for])
<1>4. /\ tlv.bytes \in Seq(Byte) /\ FromBytes(tlv.bytes) = Loaded(sent)
      /\ \A k \in 0..Len(tlv.bytes) :
           LET r == FromBytes(SubSeq(tlv.bytes, 1, k))
           IN  "ok" \in DOMAIN r => IsPartOf(r.ok, sent)
  BY <1>3, KeyReadsBack DEF KeysAreStorable, Encodings
<1> HIDE DEF sent
<1>5. PICK k \in 0..Len(tlv.bytes) : bytes = SubSeq(tlv.bytes, 1, k)
  <2>1. PICK k \in {m \in Cuts : m < Len(tlv.bytes)} \cup {Len(tlv.bytes)} :
          bytes = SubSeq(tlv.bytes, 1, k)
    BY <1>1 DEF Arrivals
  <2>2. k \in 0..Len(tlv.bytes)
    BY <1>4, <2>1, KeystoreAssumption
  <2> QED
    BY <2>1, <2>2
<1>6. IsPartOf(FromBytes(bytes).ok, sent)
  BY <1>1, <1>4, <1>5 DEF Answer
<1>7. bytes = tlv.bytes => FromBytes(bytes).ok = sent
  BY <1>4 DEF Loaded
<1>8. /\ work'.for = tlv.for /\ work'.key = FromBytes(bytes).ok
      /\ work'.whole = (bytes = tlv.bytes)
  BY <1>1, NoWorkIs
<1>9. KeySurvivesStorage'
  BY <1>6, <1>7, <1>8 DEF KeySurvivesStorage, sent
<1> QED
  BY <1>2, <1>3, <1>9 DEF StorageInv

\* No other step prints or loads a key.
LEMMA OthersStoreNothing ==
  ASSUME Inductive, StorageInv, [Next]_vars, ~DecodePrints, ~OpenLoads
  PROVE  StorageInv'
<1>1. UNCHANGED tlv
  BY DEF Next, LibraryStep, Stops, StartGen, GenerateRsa, WrapPair, TruncateFile, WriteFile,
         StartCheck, CheckUnwraps, CheckDerives, CheckConcludes, Register,
         RemovePlaintextCopy, Discard, StartDecode, outVars, vars
<1>2. program' # "open" \/ UNCHANGED <<program, work>>
  BY KeystoreAssumption
     DEF Next, LibraryStep, Stops, StartGen, GenerateRsa, WrapPair, TruncateFile, WriteFile,
         StartCheck, CheckUnwraps, CheckDerives, CheckConcludes, Register,
         RemovePlaintextCopy, Discard, StartDecode, toolVars, vars, Exits, Continues, Runs
<1>3. KeySurvivesStorage'
  BY <1>2 DEF StorageInv, KeySurvivesStorage
<1> QED
  BY <1>1, <1>3 DEF StorageInv

\* A key that was issued, decrypted, printed by to_bytes and loaded by from_bytes
\* is the issued key, in whatever order the HashMap yielded its tags, and what a
\* cut leaves of it has no wrong tag: for every set of keys that to_bytes can
\* store, every container and every cut.
THEOREM KeySurvives == ASSUME KeysAreStorable PROVE Spec => []KeySurvivesStorage
<1>1. Init => Inductive /\ DecodeInv /\ StorageInv
  <2>1. Init => StorageInv
    BY KeystoreAssumption DEF Init, StorageInv, KeySurvivesStorage
  <2> QED
    BY <2>1, InitKeeps, DecodeInitially
<1>2. Inductive /\ DecodeInv /\ StorageInv /\ [Next]_vars => (Inductive /\ DecodeInv /\ StorageInv)'
  BY DecodeKeeps, StorableReadsBack, PrintsAnEncoding, LoadsTheIssuedKey, OthersStoreNothing
<1>3. StorageInv => KeySurvivesStorage
  BY DEF StorageInv
<1> QED BY <1>1, <1>2, <1>3, PTL DEF Spec
=============================================================================
