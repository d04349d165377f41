---------------------------- MODULE VoprfProofs ----------------------------
(***************************************************************************)
(* Theorems about Voprf: whoever answers, a client that verifies ends with *)
(* the PRF under the key that pk commits to; the server of the code is     *)
(* never refused; and a key in use was sampled whole (KeyFiles).           *)
(***************************************************************************)
EXTENDS Voprf, MaterialProofs

----------------------------------------------------------------------------
(* The files.                                                              *)

Sampled == {KeyOf[g] : g \in Keygens}

\* A key file holds the bytes that its own keygen has written so far, and no others.
KeysInv ==
    /\ path # None => path \in Keygens
    /\ bytes \in [Keygens -> Seq(Bit)] /\ pos \in [Keygens -> 0 .. N]
    /\ file \in [Keygens -> Keygens \union {None}]
    /\ keygen \in [Keygens -> {"new", "writing", "failed", "done"}]
    /\ \A g \in Keygens : bytes[g] = [i \in 1 .. pos[g] |-> KeyOf[g][i]]
    /\ \A g \in Keygens : keygen[g] = "writing" => file[g] = g

\* What the processes have read and written is of keys that were sampled.
PkInv ==
    /\ sk # None => sk \in Sampled
    /\ pub # None => \E key \in Sampled : pub = setup(key)
    /\ pkfile \notin {None, Truncated} => \E key \in Sampled : pkfile = setup(key)
    /\ pk # None => \E key \in Sampled : pk = KeyCommitment(key)

\* As long as no whole key was removed, it is all of the one key in the file.
SameKeyInv ==
    stage = "files" /\ ~removed =>
        /\ sk # None => ReadKeyOk /\ sk = bytes[path]
        /\ pub # None => ReadKeyOk /\ pub = setup(bytes[path])
        /\ pkfile \notin {None, Truncated} => ReadKeyOk /\ pkfile = setup(bytes[path])
        /\ pk # None => ReadKeyOk /\ pk = KeyCommitment(bytes[path])

\* Once connected, the client has a pk, and a server of the code has its key.
ConnectedInv ==
    stage # "files" =>
        /\ pk # None /\ (honest => sk # None)
        /\ honest /\ ~removed => pk = KeyCommitment(sk)

\* A key is N bits.
LEMMA KeyType ==
    ASSUME NEW g \in Keygens
    PROVE  KeyOf[g] \in [1 .. N -> Bit] /\ KeyOf[g] \in Sampled
BY KeyFilesAssumption DEF Coords, Sampled

\* A file that read_key accepts holds the whole key of the keygen that created it.
LEMMA WholeFile ==
    ASSUME KeysInv, ReadKeyOk
    PROVE  path \in Keygens /\ pos[path] = N /\ bytes[path] = KeyOf[path] /\ bytes[path] \in Sampled
<1>1. path \in Keygens /\ Len(bytes[path]) = N
  BY DEF KeysInv, ReadKeyOk, Readable
<1>2. /\ bytes[path] = [i \in 1 .. pos[path] |-> KeyOf[path][i]]
      /\ bytes[path] \in Seq(Bit) /\ pos[path] \in 0 .. N /\ N \in Nat
  BY <1>1, Moduli DEF KeysInv
<1>3. pos[path] = N
  BY <1>1, <1>2
<1>4. KeyOf[path] \in [1 .. N -> Bit]
  BY <1>1, KeyType
<1>5. bytes[path] = KeyOf[path]
  BY <1>2, <1>3, <1>4
<1> QED BY <1>1, <1>3, <1>5, KeyType

\* count bytes more are the key's next.
LEMMA WriteOn ==
    ASSUME NEW key \in [1 .. N -> Bit], NEW at \in 0 .. N, NEW count \in 1 .. N - at,
           NEW old \in Seq(Bit), old = [i \in 1 .. at |-> key[i]]
    PROVE  /\ Written(old, key, at, count) = [i \in 1 .. at + count |-> key[i]]
           /\ [i \in 1 .. at + count |-> key[i]] \in Seq(Bit)
<1>1. N \in Nat /\ at \in Nat /\ count \in Nat /\ at + count \in 0 .. N /\ count >= 1
  BY Moduli
<1>2. Len(old) = at
  BY <1>1
<1>3. \A i \in 1 .. at : old[i] = key[i]
  OBVIOUS
<1>4. Written(old, key, at, count)
        = [i \in 1 .. at + count |-> IF i \in at + 1 .. at + count THEN key[i] ELSE IF i <= at THEN old[i] ELSE 0]
  <2>1. ~(Len(old) > at + count)
    BY <1>1, <1>2
  <2> QED BY <1>2, <2>1 DEF Written
<1>5. \A i \in 1 .. at + count : i \in at + 1 .. at + count \/ i \in 1 .. at
  BY <1>1
<1>6. Written(old, key, at, count) = [i \in 1 .. at + count |-> key[i]]
  BY <1>1, <1>3, <1>4, <1>5
<1>7. \A i \in 1 .. at + count : key[i] \in Bit
  BY <1>1
<1> QED BY <1>1, <1>6, <1>7

\* Nothing was written.
LEMMA NothingWritten ==
    ASSUME NEW key
    PROVE  <<>> = [i \in 1 .. 0 |-> key[i]] /\ <<>> \in Seq(Bit)
OBVIOUS

\* The files are as they should be when there are none.
LEMMA NoFiles ==
    ASSUME path = None, bytes = All(<<>>), pos = All(0), file = All(None), keygen = All("new")
    PROVE  KeysInv
<1>1. \A g \in Keygens : bytes[g] = <<>> /\ pos[g] = 0 /\ keygen[g] = "new" /\ file[g] = None
  BY DEF All
<1>2. pos \in [Keygens -> 0 .. N]
  BY Moduli DEF All
<1>3. bytes \in [Keygens -> Seq(Bit)] /\ \A g \in Keygens : bytes[g] = [i \in 1 .. pos[g] |-> KeyOf[g][i]]
  <2>1. ASSUME NEW g \in Keygens PROVE bytes[g] = [i \in 1 .. pos[g] |-> KeyOf[g][i]] /\ bytes[g] \in Seq(Bit)
    BY <1>1, NothingWritten
  <2> QED BY <2>1 DEF All
<1>4. file \in [Keygens -> Keygens \union {None}] /\ keygen \in [Keygens -> {"new", "writing", "failed", "done"}]
  BY DEF All
<1> QED BY <1>1, <1>2, <1>3, <1>4 DEF KeysInv

\* A step of the commands keeps every file its keygen's, and a whole key as it is.
LEMMA KeysStep ==
    ASSUME KeysInv, FilesNext
    PROVE  /\ KeysInv'
           /\ ReadKeyOk /\ path' = path => ReadKeyOk' /\ bytes'[path'] = bytes[path]
           /\ path' # path => path = None \/ path' = None
<1> USE DEF KeysInv
<1>1. ASSUME UNCHANGED keys
      PROVE  /\ KeysInv'
             /\ ReadKeyOk /\ path' = path => ReadKeyOk' /\ bytes'[path'] = bytes[path]
             /\ path' # path => path = None \/ path' = None
  <2>1. path' = path /\ bytes' = bytes /\ pos' = pos /\ file' = file /\ keygen' = keygen
    BY <1>1 DEF keys
  <2> QED BY <2>1 DEF ReadKeyOk, Readable
<1>2. ASSUME NEW g \in Keygens, Keygen(g)
      PROVE  /\ KeysInv'
             /\ ReadKeyOk /\ path' = path => ReadKeyOk' /\ bytes'[path'] = bytes[path]
             /\ path' # path => path = None \/ path' = None
  <2>1. bytes' = bytes /\ pos' = pos
    BY <1>2 DEF Keygen
  <2>2. CASE /\ path = None /\ path' = g
             /\ file' = [file EXCEPT ![g] = g] /\ keygen' = [keygen EXCEPT ![g] = "writing"]
    BY <2>1, <2>2 DEF ReadKeyOk
  <2>3. CASE path # None /\ keygen' = [keygen EXCEPT ![g] = "failed"] /\ path' = path /\ file' = file
    BY <2>1, <2>3 DEF ReadKeyOk, Readable
  <2> QED BY <1>2, <2>2, <2>3 DEF Keygen
<1>3. ASSUME NEW g \in Keygens, WriteKey(g)
      PROVE  /\ KeysInv'
             /\ ReadKeyOk /\ path' = path => ReadKeyOk' /\ bytes'[path'] = bytes[path]
             /\ path' # path => path = None \/ path' = None
  <2>1. PICK count \in 1 .. N - pos[g] :
          /\ keygen[g] = "writing"
          /\ bytes' = [bytes EXCEPT ![file[g]] = Written(bytes[file[g]], KeyOf[g], pos[g], count)]
          /\ pos' = [pos EXCEPT ![g] = pos[g] + count]
          /\ keygen' = [keygen EXCEPT ![g] = IF pos[g] + count = N THEN "done" ELSE "writing"]
          /\ path' = path /\ file' = file
    BY <1>3 DEF WriteKey
  <2>2. file[g] = g
    BY <2>1
  <2>3. /\ Written(bytes[g], KeyOf[g], pos[g], count) = [i \in 1 .. pos[g] + count |-> KeyOf[g][i]]
        /\ [i \in 1 .. pos[g] + count |-> KeyOf[g][i]] \in Seq(Bit)
    BY KeyType, WriteOn
  <2>4. N \in Nat /\ pos[g] \in 0 .. N /\ pos[g] + count \in 0 .. N
    BY Moduli
  <2>5. pos' \in [Keygens -> 0 .. N] /\ pos'[g] = pos[g] + count /\ \A h \in Keygens : h # g => pos'[h] = pos[h]
    BY <2>1, <2>4
  <2>6. /\ bytes' \in [Keygens -> Seq(Bit)] /\ bytes'[g] = [i \in 1 .. pos[g] + count |-> KeyOf[g][i]]
        /\ \A h \in Keygens : h # g => bytes'[h] = bytes[h]
    BY <2>1, <2>2, <2>3
  <2>7. ASSUME NEW h \in Keygens PROVE bytes'[h] = [i \in 1 .. pos'[h] |-> KeyOf[h][i]]
    <3>1. CASE h = g
      BY <2>5, <2>6, <3>1
    <3>2. CASE h # g
      BY <2>5, <2>6, <3>2
    <3> QED BY <3>1, <3>2
  <2>8. /\ keygen' \in [Keygens -> {"new", "writing", "failed", "done"}]
        /\ \A h \in Keygens : keygen'[h] = "writing" => file'[h] = h
    BY <2>1, <2>2
  <2>9. KeysInv'
    BY <2>1, <2>5, <2>6, <2>7, <2>8
  <2>10. ReadKeyOk => path # g /\ path \in Keygens
    <3>1. ReadKeyOk => path \in Keygens /\ pos[path] = N
      BY WholeFile
    <3>2. pos[g] # N
      BY <2>4
    <3> QED BY <3>1, <3>2
  <2>11. ReadKeyOk => bytes'[path] = bytes[path]
    BY <2>6, <2>10
  <2> QED BY <2>1, <2>9, <2>11 DEF ReadKeyOk, Readable
<1>4. ASSUME NEW g \in Keygens, KillKeygen(g)
      PROVE  /\ KeysInv'
             /\ ReadKeyOk /\ path' = path => ReadKeyOk' /\ bytes'[path'] = bytes[path]
             /\ path' # path => path = None \/ path' = None
  BY <1>4 DEF KillKeygen, ReadKeyOk, Readable
<1>5. CASE RemoveKey
  BY <1>5 DEF RemoveKey, ReadKeyOk
<1>6. PublicKey \/ TruncatePk \/ WritePk \/ KillPublicKey \/ Serve \/ Lookup => UNCHANGED keys
  BY DEF PublicKey, TruncatePk, WritePk, KillPublicKey, Serve, Lookup, disk
<1> QED BY <1>1, <1>2, <1>3, <1>4, <1>5, <1>6 DEF FilesNext

\* A step of the commands keeps what was read and written that of sampled keys, and of the one
\* key in the file as long as no whole key was removed.
LEMMA FilesStep ==
    ASSUME KeysInv, PkInv, SameKeyInv, Files
    PROVE  KeysInv' /\ PkInv' /\ SameKeyInv' /\ ConnectedInv'
<1>1. stage = "files" /\ FilesNext /\ stage' = stage
  BY DEF Files, protocol
<1>2. KeysInv'
  BY <1>1, KeysStep
<1>3. ConnectedInv'
  BY <1>1 DEF ConnectedInv
<1>4. ASSUME UNCHANGED <<pub, pkfile, sk, pk>> PROVE PkInv'
  <2>1. Sampled' = Sampled
    BY DEF Sampled
  <2> QED BY <1>4 DEF PkInv, setup, KeyCommitment, Sampled
<1>5. ASSUME NEW g \in Keygens, Keygen(g) \/ WriteKey(g) \/ KillKeygen(g) PROVE PkInv' /\ SameKeyInv'
  <2>1. UNCHANGED <<pub, pkfile, sk, pk, removed>> /\ (path' = path \/ path = None)
    BY <1>5 DEF Keygen, WriteKey, KillKeygen
  <2>2. ReadKeyOk => ReadKeyOk' /\ bytes'[path'] = bytes[path]
    <3>1. ReadKeyOk => path' = path
      BY <2>1 DEF ReadKeyOk
    <3> QED BY <1>1, <3>1, KeysStep
  <2>3. SameKeyInv'
    BY <1>1, <2>1, <2>2 DEF SameKeyInv
  <2> QED BY <1>4, <2>1, <2>3
<1>6. CASE RemoveKey
  <2>1. UNCHANGED <<pub, pkfile, sk, pk>> /\ (removed' <=> removed \/ ReadKeyOk)
    BY <1>6 DEF RemoveKey
  <2>2. ~removed' => ~removed /\ ~ReadKeyOk
    BY <2>1
  <2>3. SameKeyInv'
    BY <1>1, <2>1, <2>2 DEF SameKeyInv
  <2> QED BY <1>2, <1>3, <1>4, <2>1, <2>3
<1>7. ASSUME UNCHANGED keys
      PROVE  (ReadKeyOk' <=> ReadKeyOk) /\ bytes'[path'] = bytes[path]
  BY <1>7 DEF keys, ReadKeyOk, Readable
<1>8. ReadKeyOk => bytes[path] \in Sampled
  BY WholeFile
<1>9. CASE PublicKey
  <2>1. UNCHANGED <<pkfile, sk, pk, removed>> /\ UNCHANGED keys /\ ReadKeyOk /\ pub' = setup(bytes[path])
    BY <1>9 DEF PublicKey, read_key
  <2>2. PkInv'
    BY <1>8, <2>1 DEF PkInv
  <2>3. SameKeyInv'
    BY <1>1, <1>7, <2>1 DEF SameKeyInv
  <2> QED BY <1>2, <1>3, <2>2, <2>3
<1>10. CASE TruncatePk
  <2>1. UNCHANGED <<pub, sk, pk, removed>> /\ UNCHANGED keys /\ pkfile' = Truncated
    BY <1>10 DEF TruncatePk
  <2>2. PkInv'
    BY <2>1 DEF PkInv
  <2>3. SameKeyInv'
    BY <1>1, <1>7, <2>1 DEF SameKeyInv
  <2> QED BY <1>2, <1>3, <2>2, <2>3
<1>11. CASE WritePk
  <2>1. UNCHANGED <<sk, pk, removed>> /\ UNCHANGED keys /\ pub # None /\ pkfile' = pub /\ pub' = None
    BY <1>11 DEF WritePk
  <2>2. PkInv'
    BY <2>1 DEF PkInv
  <2>3. SameKeyInv'
    BY <1>1, <1>7, <2>1 DEF SameKeyInv
  <2> QED BY <1>2, <1>3, <2>2, <2>3
<1>12. CASE KillPublicKey
  <2>1. UNCHANGED <<pkfile, sk, pk, removed>> /\ UNCHANGED keys /\ pub' = None
    BY <1>12 DEF KillPublicKey
  <2>2. PkInv'
    BY <2>1 DEF PkInv
  <2>3. SameKeyInv'
    BY <1>1, <1>7, <2>1 DEF SameKeyInv
  <2> QED BY <1>2, <1>3, <2>2, <2>3
<1>13. CASE Serve
  <2>1. UNCHANGED <<pub, pkfile, pk, removed>> /\ UNCHANGED keys /\ ReadKeyOk /\ sk' = bytes[path]
    BY <1>13 DEF Serve, read_key, disk
  <2>2. PkInv'
    BY <1>8, <2>1 DEF PkInv
  <2>3. SameKeyInv'
    BY <1>1, <1>7, <2>1 DEF SameKeyInv
  <2> QED BY <1>2, <1>3, <2>2, <2>3
<1>14. CASE Lookup
  <2>1. UNCHANGED <<pub, pkfile, sk, removed>> /\ UNCHANGED keys /\ pkfile \notin {None, Truncated} /\ pk' = pkfile.pk
    BY <1>14 DEF Lookup, disk
  <2>2. \A key : setup(key).pk = KeyCommitment(key)
    BY DEF setup
  <2>3. PkInv'
    BY <2>1, <2>2 DEF PkInv
  <2>4. SameKeyInv'
    BY <1>1, <1>7, <2>1, <2>2 DEF SameKeyInv
  <2> QED BY <1>2, <1>3, <2>3, <2>4
<1> QED BY <1>1, <1>2, <1>3, <1>5, <1>6, <1>9, <1>10, <1>11, <1>12, <1>13, <1>14 DEF FilesNext

\* lookup connects: from now on the client has the pk of the server's key.
LEMMA ConnectStep ==
    ASSUME PkInv, SameKeyInv, Connect
    PROVE  KeysInv' /\ PkInv' /\ SameKeyInv' /\ ConnectedInv'
<1>1. PICK code \in BOOLEAN :
        /\ stage = "files" /\ pk # None /\ (code => sk # None)
        /\ stage' = "binary" /\ honest' = code
        /\ sk' = (IF code THEN sk ELSE None)
        /\ path' = None /\ bytes' = All(<<>>) /\ pos' = All(0) /\ file' = All(None) /\ keygen' = All("new")
        /\ pub' = None /\ pkfile' = None /\ pk' = pk /\ removed' = removed
  BY DEF Connect
<1>2. KeysInv'
  <2>2. \A g \in Keygens : bytes'[g] = <<>> /\ pos'[g] = 0 /\ keygen'[g] = "new" /\ file'[g] = None
    BY <1>1 DEF All
  <2>3. pos' \in [Keygens -> 0 .. N]
    BY <1>1, Moduli DEF All
  <2>4. ASSUME NEW g \in Keygens PROVE bytes'[g] = [i \in 1 .. pos'[g] |-> KeyOf[g][i]] /\ bytes'[g] \in Seq(Bit)
    BY <2>2, NothingWritten
  <2>5. bytes' \in [Keygens -> Seq(Bit)]
    BY <1>1, <2>4 DEF All
  <2>6. file' \in [Keygens -> Keygens \union {None}] /\ keygen' \in [Keygens -> {"new", "writing", "failed", "done"}]
    BY <1>1 DEF All
  <2> QED BY <1>1, <2>2, <2>3, <2>4, <2>5, <2>6 DEF KeysInv
<1>3. PkInv'
  BY <1>1 DEF PkInv
<1>4. SameKeyInv'
  BY <1>1 DEF SameKeyInv
<1>5. ConnectedInv'
  <2>1. pk' # None /\ (honest' => sk' # None)
    BY <1>1
  <2>2. honest' /\ ~removed' => pk' = KeyCommitment(sk')
    BY <1>1 DEF SameKeyInv
  <2> QED BY <2>1, <2>2 DEF ConnectedInv
<1> QED BY <1>2, <1>3, <1>4, <1>5

----------------------------------------------------------------------------
(* The invariant of the protocol.                                          *)

\* The stages in which the server has its blocks, the client its own, the client has accepted the
\* commitments to pads, it has the masked key, it has accepted the preprocessing, and a call is
\* in progress.
HasCall     == {"eval", "finalize"}
HasSums     == {"request"} \union HasCall
HasBhat     == {"prove", "finish"} \union HasSums
HasPads     == {"bhat"} \union HasBhat
HasReceived == {"pads", "pads sent"} \union HasPads
HasBlocks   == {"masks", "delta"} \union HasReceived

ReceivedFor(del) == delta_ot_receive(OtChosen("delta", del), del, Tau)

OtsInv ==
    /\ honest \in BOOLEAN
    /\ stage \in {"files", "binary", "refused"} \union HasBlocks
    /\ stage \in HasBlocks => \E bin \in BinaryCoins : r_s = server_r_s(bin)
    /\ stage \in HasReceived => \E del \in DeltaCoins : received = ReceivedFor(del)

PadsInv ==
    /\ stage \in HasPads => pads_match
    /\ honest /\ stage \in {"pads sent"} \union HasPads => d = PadsCommitments

BhatInv == stage \in HasBhat => b_bar \in [Coords -> Bit] /\ (honest => b_bar = masked_key(r_s, sk))

\* The blocks that a server with this key chose, if the client's b_bar is its masked key, and the
\* sums of their masks in the runs from first on.
BlockOf(key, i) == client_ot_blocks[i][xor(b_bar[i], key[i])]
SumsOfKey(key, first) ==
    [k \in Rows |-> r_sigma_sum(key, [i \in Coords |-> expand(BlockOf(key, i), first)[k]])]

SumsRight(key, sums) == \A v \in Evals : sums[v].value = SumsOfKey(key, first_run(v))

\* A proof of a preprocessing is of sums that are those of the key in its statement.
ProvedSums(s) ==
    /\ s = PreprocessingStatement(s.pk, Sums(s))
    /\ DOMAIN s.evaluations = Evals /\ SumsRight(s.pk.value, Sums(s))

HonestSums ==
    [v \in Evals |-> MaskSumCommitment(r_sigma_sums(r_s, sk, first_run(v)), mask_sum_randomness(delta_ot_blocks[first_run(v)]))]

SumsInv ==
    /\ stage = "finish" => proof = NoProof \/ (proof = [of |-> proof.of] /\ ProvedSums(proof.of))
    /\ stage = "finish" /\ honest =>
        m = HonestSums /\ proof = [of |-> PreprocessingStatement(KeyCommitment(sk), HonestSums)]
    /\ stage \in HasSums => DOMAIN m = Evals /\ SumsRight(pk.value, m) /\ (honest => m = HonestSums)

Outputs == {evaluate(key, call.tag, call.input) : key \in Sampled, call \in Calls}

CountInv ==
    /\ asked \in Seq(Calls) /\ outs \in Seq(Outputs)
    /\ stage = "files" => outs = <<>>
    /\ ctr = Len(asked) * H_ROWS /\ ctr <= Tau /\ Len(outs) <= Len(asked)
    /\ stage \notin {"refused"} \union HasCall => Len(asked) = Len(outs)
    /\ stage \in HasCall => Len(asked) = Len(outs) + 1
    /\ (honest \/ stage = "files") /\ stage \notin {"finalize", "refused"} => sctr = Len(outs) * H_ROWS
    /\ honest /\ stage = "finalize" => sctr = Len(asked) * H_ROWS

\* The first run of the call in progress, and what the client made for it.
First == (Len(asked) - 1) * H_ROWS
MadeLast == request_evaluation(client, First, hash_to_zq_matrix(asked[Len(asked)].tag, asked[Len(asked)].input))

RequestInv == stage \in HasCall =>
    /\ request = MadeLast.rows
    /\ fin = [rows |-> MadeLast.fin, statement |-> online_statement(First, MadeLast.rows)]

\* A proof of a response is of the equations of the server, with the pads and the sums that its
\* statement commits to.
OnlineRight(s) == \A k \in Rows :
    s.runs[k].y = respond(a_sigma_sum(s.pk.value, s.m.value[k], s.runs[k].e),
                          [j \in Zdelta |-> s.runs[k].d[j].value], s.runs[k].b_bar_prime)

ServerOf == [r_s |-> r_s, s_s |-> server_s_s(delta_ot_blocks)]
HonestWitness == OnlineWitness(sk, First, OtPads(First), OtRandomness(First))

ResponseInv == stage = "finalize" =>
    /\ Len(response.proofs) = 1 =>
        \/ response.proofs[1] = NoProof
        \/ response.proofs[1] = [of |-> response.proofs[1].of] /\ OnlineRight(response.proofs[1].of)
    /\ honest => response = [rows   |-> blind_eval_one(ServerOf, sk, First, request),
                             proofs |-> <<[of |-> OnlineHonest(HonestWitness, request)]>>]

FilesInv == KeysInv /\ PkInv /\ SameKeyInv /\ ConnectedInv

Inv ==
    /\ FilesInv /\ OtsInv /\ PadsInv /\ BhatInv /\ SumsInv /\ CountInv /\ RequestInv /\ ResponseInv
    /\ VerifiedOutput /\ HonestAccepted

----------------------------------------------------------------------------
(* The constants, and what both sides compute of them.                     *)

\* The constants, as the lemmas need them.
LEMMA Sizes ==
    /\ H_ROWS \in Nat \ {0} /\ Evaluations \in Nat \ {0} /\ Tau \in Nat /\ Tau = Evaluations * H_ROWS
    /\ BinaryCoins \subseteq [0 .. BINARY_OT_COUNT - 1 -> Bit]
    /\ DeltaCoins \subseteq [0 .. required_binary_ot_count(Tau) - 1 -> Bit]
    /\ HashesTyped(Tau, Calls)
    /\ Sampled \subseteq [Coords -> Bit]
<1>1. H_ROWS \in Nat \ {0} /\ Evaluations \in Nat \ {0}
  BY MaterialAssumption, VoprfAssumption
<1>2. Tau \in Nat /\ Tau = Evaluations * H_ROWS
  BY <1>1 DEF Tau, RUNS_PER_EVALUATION
<1>3. Sampled \subseteq [Coords -> Bit]
  BY KeyFilesAssumption DEF Sampled
<1> QED BY <1>1, <1>2, <1>3, VoprfAssumption

\* The runs of an evaluation are among those preprocessed for, and tell the evaluation.
LEMMA RunsOfEvaluation ==
    ASSUME NEW v \in Evals
    PROVE  /\ first_run(v) \in Nat /\ first_run(v) = v * H_ROWS /\ first_run(v) + H_ROWS <= Tau
           /\ first_run(v) \div RUNS_PER_EVALUATION = v
           /\ \A k \in Rows : first_run(v) + k \in Runs
<1>1. H_ROWS \in Nat \ {0} /\ Evaluations \in Nat \ {0} /\ v \in 0 .. Evaluations - 1 /\ Tau \in Nat
  BY Sizes DEF Evals
<1>2. Tau = Evaluations * H_ROWS
  BY Sizes
<1>3. v * H_ROWS \in Nat /\ (v + 1) * H_ROWS <= Evaluations * H_ROWS /\ (v + 1) * H_ROWS = v * H_ROWS + H_ROWS
  BY <1>1
<1>4. first_run(v) = v * H_ROWS
  BY DEF first_run, RUNS_PER_EVALUATION
<1>5. (v * H_ROWS + 0) \div H_ROWS = v
  <2>1. v \in Int /\ 0 \in 0 .. H_ROWS - 1
    BY <1>1
  <2> QED BY <1>1, <2>1, ModUnique
<1>6. v * H_ROWS + 0 = v * H_ROWS
  BY <1>3
<1>7. first_run(v) \div RUNS_PER_EVALUATION = v
  BY <1>4, <1>5, <1>6 DEF RUNS_PER_EVALUATION
<1>8. first_run(v) \in Nat /\ first_run(v) + H_ROWS <= Tau
  BY <1>2, <1>3, <1>4
<1>9. \A k \in Rows : first_run(v) + k \in Runs
  BY <1>1, <1>8 DEF Rows, Runs
<1> QED BY <1>4, <1>7, <1>8, <1>9

\* The blocks of the 1-out-of-DELTA OTs, and the client's part of them.
LEMMA PadBlocks ==
    ASSUME NEW del \in DeltaCoins
    PROVE  /\ delta_ot_blocks = [run \in Runs |-> [j \in Zdelta |-> SentBlock("delta", run, j)]]
           /\ ReceivedFor(del).choices = [run \in Runs |-> ChoiceOf(del, run)]
           /\ DOMAIN ReceivedFor(del).blocks = Runs
           /\ \A run \in Runs : /\ ChoiceOf(del, run) \in Zdelta
                                /\ ReceivedFor(del).blocks[run] = delta_ot_blocks[run][ChoiceOf(del, run)]
<1>1. Tau \in Nat /\ del \in [0 .. required_binary_ot_count(Tau) - 1 -> Bit]
  BY Sizes
<1>2. delta_ot_blocks = [run \in Runs |-> [j \in Zdelta |-> SentBlock("delta", run, j)]]
  BY <1>1, DeltaSent DEF delta_ot_blocks, Runs
<1>3. ReceivedFor(del) = [choices |-> [run \in Runs |-> ChoiceOf(del, run)],
                          blocks  |-> [run \in Runs |-> SentBlock("delta", run, ChoiceOf(del, run))]]
  BY <1>1, DeltaReceived DEF ReceivedFor, Runs
<1>4. \A run \in Runs : ChoiceOf(del, run) \in Zdelta
  BY <1>1, DeltaReceived DEF Runs
<1> HIDE DEF Runs
<1> QED BY <1>2, <1>3, <1>4

\* A pad is an element of Zp.
LEMMA PadType ==
    ASSUME NEW run \in Runs, NEW j \in Zdelta
    PROVE  r_prime_from_block(delta_ot_blocks[run][j]) \in Zp
<1>1. Lead(delta_ot_blocks[run][j]) \in Nat
  BY Sizes DEF HashesTyped, Runs, delta_ot_blocks
<1> QED BY <1>1, Reduced DEF r_prime_from_block

\* Exclusive or, on bits.
LEMMA XorBits ==
    ASSUME NEW x \in Bit, NEW z \in Bit
    PROVE  xor(x, z) \in Bit /\ xor(x, z) = (IF z = 0 THEN x ELSE 1 - x) /\ 1 - x \in Bit /\ x <= 1
BY DEF xor, Bit

\* The masked key tells with the key which block the server chose.
LEMMA MaskedKey ==
    ASSUME NEW bin \in BinaryCoins, NEW key \in [Coords -> Bit], NEW i \in Coords
    PROVE  /\ masked_key(server_r_s(bin), key) \in [Coords -> Bit]
           /\ xor(masked_key(server_r_s(bin), key)[i], key[i]) = server_r_s(bin)[i].b
           /\ server_r_s(bin)[i].b \in Bit
           /\ client_ot_blocks[i][server_r_s(bin)[i].b] = server_r_s(bin)[i].ot_block
<1>1. bin \in [0 .. BINARY_OT_COUNT - 1 -> Bit]
  BY Sizes
<1>2. /\ server_r_s(bin)[i].b \in Bit
      /\ client_ot_blocks[i][server_r_s(bin)[i].b] = server_r_s(bin)[i].ot_block
  BY <1>1, BinaryBlocks
<1>3. masked_key(server_r_s(bin), key) \in [Coords -> Bit]
  BY DEF masked_key, Bit
<1>4. masked_key(server_r_s(bin), key)[i] = IF server_r_s(bin)[i].b = key[i] THEN 0 ELSE 1
  BY DEF masked_key
<1>5. key[i] \in Bit
  OBVIOUS
<1> DEFINE s == server_r_s(bin)[i].b
           b == masked_key(server_r_s(bin), key)[i]
<1> HIDE DEF s, b
<1>6. s \in Bit /\ b = IF s = key[i] THEN 0 ELSE 1
  BY <1>2, <1>4 DEF s, b
<1>7. xor(b, key[i]) = s
  BY <1>5, <1>6 DEF xor, Bit
<1> QED BY <1>2, <1>3, <1>7 DEF s, b

----------------------------------------------------------------------------
(* Preprocessing.                                                          *)

\* A commitment to masks that the client sends, for the block of a bit.
LEMMA MasksCommitted ==
    ASSUME NEW v \in Evals, NEW i \in Coords, NEW c \in Bit
    PROVE  MasksCommitments[v][i][c]
             = MasksCommitment(expand(client_ot_blocks[i][c], first_run(v)), client_ot_blocks[i][c])
BY DEF MasksCommitments

\* The client's commitment at the server's choice is to the server's masks.
LEMMA MasksAgree ==
    ASSUME NEW bin \in BinaryCoins, r_s = server_r_s(bin)
    PROVE  masks_match
<1> SUFFICES ASSUME NEW v \in Evals, NEW i \in Coords
             PROVE  MasksCommitments[v][i][r_s[i].b]
                      = MasksCommitment(expand(r_s[i].ot_block, first_run(v)), r_s[i].ot_block)
  BY DEF masks_match
<1>1. bin \in [0 .. BINARY_OT_COUNT - 1 -> Bit]
  BY Sizes
<1>2. r_s[i].b \in Bit /\ client_ot_blocks[i][r_s[i].b] = r_s[i].ot_block
  BY <1>1, BinaryBlocks
<1> QED BY <1>2, MasksCommitted

\* The pads of the server of the code are the client's at its choices.
LEMMA PadsAgree ==
    ASSUME NEW del \in DeltaCoins, received = ReceivedFor(del), d = PadsCommitments
    PROVE  pads_match
<1>1. DOMAIN d = Runs
  BY DEF PadsCommitments
<1>2. ASSUME NEW run \in Runs PROVE d[run][received.choices[run]] = pad_commitment(received.blocks[run])
  <2>1. /\ received.choices[run] = ChoiceOf(del, run) /\ ChoiceOf(del, run) \in Zdelta
        /\ received.blocks[run] = delta_ot_blocks[run][ChoiceOf(del, run)]
    BY PadBlocks
  <2> QED BY <2>1 DEF PadsCommitments
<1> QED BY <1>1, <1>2 DEF pads_match

\* A witness of a preprocessing, field by field.
LEMMA WitnessParts ==
    ASSUME NEW key, NEW w, w = PreprocessingWitness(key)
    PROVE  /\ w.sk = key /\ DOMAIN w.evaluations = Evals
           /\ \A i \in Coords : w.ot_blocks[i] = r_s[i].ot_block
           /\ \A v \in Evals : /\ w.evaluations[v].sums = r_sigma_sums(r_s, key, first_run(v))
                               /\ w.evaluations[v].masks = server_masks(r_s, first_run(v))
                               /\ w.evaluations[v].m_randomness = mask_sum_randomness(delta_ot_blocks[first_run(v)])
           /\ \A v \in Evals, i \in Coords : w.evaluations[v].masks[i] = expand(r_s[i].ot_block, first_run(v))
<1>1. /\ w.sk = key /\ DOMAIN w.evaluations = Evals
      /\ \A i \in Coords : w.ot_blocks[i] = r_s[i].ot_block
      /\ \A v \in Evals :
            w.evaluations[v] = evaluation_witness(key, v, mask_sum_randomness(delta_ot_blocks[first_run(v)]))
  BY DEF PreprocessingWitness
<1>2. \A v \in Evals : /\ w.evaluations[v].sums = r_sigma_sums(r_s, key, first_run(v))
                       /\ w.evaluations[v].masks = server_masks(r_s, first_run(v))
                       /\ w.evaluations[v].m_randomness = mask_sum_randomness(delta_ot_blocks[first_run(v)])
  <2>1. \A v, r : /\ evaluation_witness(key, v, r).sums = r_sigma_sums(r_s, key, first_run(v))
                  /\ evaluation_witness(key, v, r).masks = server_masks(r_s, first_run(v))
                  /\ evaluation_witness(key, v, r).m_randomness = r
    BY DEF evaluation_witness
  <2> QED BY <1>1, <2>1
<1>3. \A v \in Evals, i \in Coords : w.evaluations[v].masks[i] = expand(r_s[i].ot_block, first_run(v))
  BY <1>2 DEF server_masks
<1> QED BY <1>1, <1>2, <1>3

\* A statement of a preprocessing, field by field.
LEMMA StatementParts ==
    ASSUME NEW commitment, NEW sums, NEW s, s = PreprocessingStatement(commitment, sums)
    PROVE  /\ s.pk = commitment /\ s.b_bar = b_bar /\ DOMAIN s.evaluations = DOMAIN sums
           /\ \A v \in DOMAIN sums : s.evaluations[v].c = MasksCommitments[v] /\ s.evaluations[v].m = sums[v]
           /\ DOMAIN Sums(s) = DOMAIN sums /\ \A v \in DOMAIN sums : Sums(s)[v] = sums[v]
           /\ s = PreprocessingStatement(s.pk, Sums(s))
<1>1. /\ s.pk = commitment /\ s.b_bar = b_bar /\ DOMAIN s.evaluations = DOMAIN sums
      /\ \A v \in DOMAIN sums : s.evaluations[v].c = MasksCommitments[v] /\ s.evaluations[v].m = sums[v]
  BY DEF PreprocessingStatement
<1>2. DOMAIN Sums(s) = DOMAIN sums /\ \A v \in DOMAIN sums : Sums(s)[v] = sums[v]
  BY <1>1 DEF Sums
<1>3. s = PreprocessingStatement(s.pk, Sums(s))
  BY <1>1, <1>2 DEF PreprocessingStatement
<1> QED BY <1>1, <1>2, <1>3

\* A proof of a preprocessing is made only of the sums of the key, in the runs of each
\* evaluation: the client's commitments bind the server to the masks of the blocks that the
\* masked key and the key point to.
LEMMA PreprocessingSound ==
    ASSUME NEW key \in Sampled, b_bar \in [Coords -> Bit], NEW sums,
           NEW s, s = PreprocessingStatement(KeyCommitment(key), sums),
           PreprocessingHolds(s, PreprocessingWitness(key))
    PROVE  ProvedSums(s)
<1> DEFINE w == PreprocessingWitness(key)
<1>1. /\ s.pk = KeyCommitment(key) /\ s.b_bar = b_bar /\ DOMAIN s.evaluations = DOMAIN sums
      /\ \A v \in DOMAIN sums : s.evaluations[v].c = MasksCommitments[v] /\ s.evaluations[v].m = sums[v]
      /\ DOMAIN Sums(s) = DOMAIN sums /\ \A v \in DOMAIN sums : Sums(s)[v] = sums[v]
      /\ s = PreprocessingStatement(s.pk, Sums(s))
  BY StatementParts
<1>2. /\ w.sk = key /\ DOMAIN w.evaluations = Evals
      /\ \A i \in Coords : w.ot_blocks[i] = r_s[i].ot_block
      /\ \A v \in Evals : /\ w.evaluations[v].sums = r_sigma_sums(r_s, key, first_run(v))
                          /\ w.evaluations[v].m_randomness = mask_sum_randomness(delta_ot_blocks[first_run(v)])
      /\ \A v \in Evals, i \in Coords : w.evaluations[v].masks[i] = expand(r_s[i].ot_block, first_run(v))
  BY WitnessParts
<1> HIDE DEF w
<1>3. /\ DOMAIN sums = Evals
      /\ \A v \in Evals : EvaluationHolds(s.evaluations[v], b_bar, key, w.ot_blocks, w.evaluations[v])
  BY <1>1, <1>2 DEF PreprocessingHolds, w
<1>4. key \in [Coords -> Bit]
  BY Sizes
<1>5. ASSUME NEW v \in Evals PROVE Sums(s)[v].value = SumsOfKey(key, first_run(v))
  <2>1. /\ ServerMasks(MasksCommitments[v], b_bar, key, w.evaluations[v].masks, w.ot_blocks)
        /\ MaskSum(sums[v], w.evaluations[v].sums, w.evaluations[v].m_randomness)
    BY <1>1, <1>3 DEF EvaluationHolds
  <2>2. ASSUME NEW i \in Coords PROVE BlockOf(key, i) = r_s[i].ot_block
    <3>1. xor(b_bar[i], key[i]) \in Bit
      BY <1>4, XorBits
    <3>2. MasksCommitments[v][i][xor(b_bar[i], key[i])] = MasksCommitment(w.evaluations[v].masks[i], w.ot_blocks[i])
      BY <2>1 DEF ServerMasks
    <3>3. MasksCommitments[v][i][xor(b_bar[i], key[i])]
            = MasksCommitment(expand(BlockOf(key, i), first_run(v)), BlockOf(key, i))
      BY <3>1, MasksCommitted DEF BlockOf
    <3>4. MasksCommitment(w.evaluations[v].masks[i], w.ot_blocks[i])
            = MasksCommitment(expand(BlockOf(key, i), first_run(v)), BlockOf(key, i))
      BY <3>2, <3>3
    <3>5. w.ot_blocks[i] = BlockOf(key, i)
      BY <3>4 DEF MasksCommitment, Commit
    <3> QED BY <1>2, <3>5
  <2>3. Sums(s)[v].value = r_sigma_sums(r_s, key, first_run(v))
    <3>1. sums[v] = MaskSumCommitment(w.evaluations[v].sums, w.evaluations[v].m_randomness)
      BY <2>1 DEF MaskSum
    <3>2. sums[v].value = w.evaluations[v].sums
      BY <3>1 DEF MaskSumCommitment, Commit
    <3> QED BY <1>1, <1>2, <1>3, <3>2
  <2>4. r_sigma_sums(r_s, key, first_run(v))
          = [k \in Rows |-> r_sigma_sum(key, [i \in Coords |-> server_masks(r_s, first_run(v))[i][k]])]
    BY DEF r_sigma_sums
  <2>5. \A i \in Coords, k \in Rows :
            server_masks(r_s, first_run(v))[i][k] = expand(BlockOf(key, i), first_run(v))[k]
    BY <2>2 DEF server_masks
  <2>6. \A k \in Rows : [i \in Coords |-> server_masks(r_s, first_run(v))[i][k]]
                          = [i \in Coords |-> expand(BlockOf(key, i), first_run(v))[k]]
    BY <2>5
  <2>7. \A k \in Rows : r_sigma_sum(key, [i \in Coords |-> server_masks(r_s, first_run(v))[i][k]])
                          = r_sigma_sum(key, [i \in Coords |-> expand(BlockOf(key, i), first_run(v))[k]])
    BY <2>6
  <2> QED BY <2>3, <2>4, <2>7 DEF SumsOfKey
<1>6. s.pk.value = key
  BY <1>1 DEF KeyCommitment, Commit
<1> QED BY <1>1, <1>3, <1>5, <1>6 DEF ProvedSums, SumsRight

\* The server of the code has a witness for what it proves.
LEMMA PreprocessingComplete ==
    ASSUME NEW bin \in BinaryCoins, r_s = server_r_s(bin), sk \in Sampled, b_bar = masked_key(r_s, sk),
           NEW w, w = PreprocessingWitness(sk), NEW s, s = PreprocessingHonest(w, b_bar, MasksCommitments)
    PROVE  /\ s = PreprocessingStatement(KeyCommitment(sk), HonestSums) /\ Sums(s) = HonestSums
           /\ DOMAIN HonestSums = Evals
           /\ PreprocessingHolds(s, w)
<1>1. /\ w.sk = sk /\ DOMAIN w.evaluations = Evals
      /\ \A i \in Coords : w.ot_blocks[i] = r_s[i].ot_block
      /\ \A v \in Evals : /\ w.evaluations[v].sums = r_sigma_sums(r_s, sk, first_run(v))
                          /\ w.evaluations[v].masks = server_masks(r_s, first_run(v))
                          /\ w.evaluations[v].m_randomness = mask_sum_randomness(delta_ot_blocks[first_run(v)])
      /\ \A v \in Evals, i \in Coords : w.evaluations[v].masks[i] = expand(r_s[i].ot_block, first_run(v))
  BY WitnessParts
<1>2. DOMAIN MasksCommitments = Evals /\ DOMAIN HonestSums = Evals
  BY DEF MasksCommitments, HonestSums
<1>3. \A v \in Evals :
        MaskSumCommitment(w.evaluations[v].sums, w.evaluations[v].m_randomness) = HonestSums[v]
  BY <1>1 DEF HonestSums
<1>4. s = [pk |-> KeyCommitment(sk), b_bar |-> b_bar,
           evaluations |-> [v \in Evals |-> [c |-> MasksCommitments[v], m |-> HonestSums[v]]]]
  BY <1>1, <1>2, <1>3 DEF PreprocessingHonest
<1>5. s = PreprocessingStatement(KeyCommitment(sk), HonestSums)
  BY <1>2, <1>4 DEF PreprocessingStatement
<1>6. /\ s.pk = KeyCommitment(sk) /\ s.b_bar = b_bar /\ DOMAIN s.evaluations = Evals
      /\ \A v \in Evals : s.evaluations[v].c = MasksCommitments[v] /\ s.evaluations[v].m = HonestSums[v]
  BY <1>4
<1>7. Sums(s) = HonestSums
  <2>1. HonestSums = [v \in Evals |-> HonestSums[v]]
    BY DEF HonestSums
  <2> QED BY <1>6, <2>1 DEF Sums
<1>8. ASSUME NEW v \in Evals
      PROVE  EvaluationHolds(s.evaluations[v], b_bar, sk, w.ot_blocks, w.evaluations[v])
  <2> DEFINE ev == w.evaluations[v]
  <2>0. sk \in [Coords -> Bit]
    BY Sizes
  <2>1. ASSUME NEW i \in Coords
        PROVE  /\ b_bar[i] <= 1
               /\ MasksCommitments[v][i][xor(b_bar[i], sk[i])] = MasksCommitment(ev.masks[i], w.ot_blocks[i])
    <3>1. /\ b_bar \in [Coords -> Bit] /\ xor(b_bar[i], sk[i]) = r_s[i].b /\ r_s[i].b \in Bit
          /\ client_ot_blocks[i][r_s[i].b] = r_s[i].ot_block
      BY <2>0, MaskedKey
    <3>2. b_bar[i] <= 1
      BY <3>1 DEF Bit
    <3> QED BY <1>1, <3>1, <3>2, MasksCommitted
  <2>2. ASSUME NEW i \in Coords, NEW k \in Rows PROVE ev.masks[i][k] < Q
    <3>1. r_s[i].b \in Bit /\ client_ot_blocks[i][r_s[i].b] = r_s[i].ot_block
      BY <2>0, MaskedKey
    <3>2. Tau \in Nat /\ HashesTyped(Tau, Calls) /\ first_run(v) \in Nat /\ first_run(v) + H_ROWS <= Tau
      BY Sizes, RunsOfEvaluation
    <3>3. expand(client_ot_blocks[i][r_s[i].b], first_run(v))[k] \in Zq
      BY <3>1, <3>2, MaskType
    <3>4. ev.masks[i][k] \in Zq
      BY <1>1, <3>1, <3>3
    <3> QED BY <3>4, RingNat
  <2>3. \A k \in Rows : r_sigma_sum(sk, [i \in Coords |-> ev.masks[i][k]]) = ev.sums[k]
    <3>1. ev.masks = server_masks(r_s, first_run(v)) /\ ev.sums = r_sigma_sums(r_s, sk, first_run(v))
      BY <1>1
    <3> HIDE DEF ev
    <3> QED BY <3>1 DEF r_sigma_sums
  <2>4. MaskSum(HonestSums[v], ev.sums, ev.m_randomness)
    BY <1>3 DEF MaskSum
  <2>5. ServerMasks(MasksCommitments[v], b_bar, sk, ev.masks, w.ot_blocks)
    BY <2>1 DEF ServerMasks
  <2>6. SumOfMasks(sk, ev.masks, ev.sums)
    BY <2>2, <2>3 DEF SumOfMasks
  <2> QED BY <1>6, <2>4, <2>5, <2>6 DEF EvaluationHolds
<1>9. Evals # {}
  <2>1. 0 \in Evals
    BY Sizes DEF Evals
  <2> QED BY <2>1
<1>10. PreprocessingHolds(s, w)
  BY <1>1, <1>6, <1>8, <1>9 DEF PreprocessingHolds, Key
<1> QED BY <1>2, <1>5, <1>7, <1>10

----------------------------------------------------------------------------
(* Evaluations.                                                            *)

\* The client's masks of run first + k, at the bits of b_bar and at the others.
Own(first, k)   == [i \in Coords |-> expand(client_ot_blocks[i][b_bar[i]], first)[k]]
Other(first, k) == [i \in Coords |-> expand(client_ot_blocks[i][1 - b_bar[i]], first)[k]]

\* A row of a request, and what the client keeps of it.
LEMMA RequestRow ==
    ASSUME NEW first, NEW a, NEW k \in Rows
    PROVE  /\ request_evaluation(client, first, a).rows[k].e
                = [i \in Coords |-> reduce_q(a[k][i] + Own(first, k)[i] + Other(first, k)[i])]
           /\ request_evaluation(client, first, a).rows[k].b_bar_prime
                = sub_delta(reduce_delta(reduce_q(Partial(Own(first, k), N))),
                            client_r_c(received)[first + k].b_prime)
           /\ request_evaluation(client, first, a).fin[k].ctr = first + k
           /\ request_evaluation(client, first, a).fin[k].r_sigma = reduce_q(Partial(Own(first, k), N))
           /\ request_evaluation(client, first, a).fin[k].r_prime = client_r_c(received)[first + k].r_prime
<1> DEFINE made == request_evaluation(client, first, a)
           cl == client
           b1 == [i \in Coords |-> expand(cl.ot_blocks[i][cl.bhat[i]], first)]
           n1 == [i \in Coords |-> expand(cl.ot_blocks[i][1 - cl.bhat[i]], first)]
           rb == Own(first, k)
           rn == Other(first, k)
<1>1. cl.ot_blocks = client_ot_blocks /\ cl.bhat = b_bar /\ cl.r_c = client_r_c(received)
  BY DEF client
<1> HIDE DEF cl
<1>2. [i \in Coords |-> b1[i][k]] = rb /\ \A i \in Coords : b1[i][k] = rb[i] /\ n1[i][k] = rn[i]
  BY <1>1 DEF Own, Other
<1> HIDE DEF rb, rn
<1>3. [i \in Coords |-> reduce_q(a[k][i] + b1[i][k] + n1[i][k])] = [i \in Coords |-> reduce_q(a[k][i] + rb[i] + rn[i])]
  BY <1>2
<1>4. made.rows[k] = [e           |-> [i \in Coords |-> reduce_q(a[k][i] + b1[i][k] + n1[i][k])],
                      b_bar_prime |-> sub_delta(reduce_delta(reduce_q(Partial([i \in Coords |-> b1[i][k]], N))),
                                                cl.r_c[first + k].b_prime)]
  BY DEF request_evaluation, cl
<1>5. made.fin[k] = [ctr |-> first + k, r_sigma |-> reduce_q(Partial([i \in Coords |-> b1[i][k]], N)),
                     r_prime |-> cl.r_c[first + k].r_prime]
  BY DEF request_evaluation, cl
<1> HIDE DEF b1, n1
<1> QED BY <1>1, <1>2, <1>3, <1>4, <1>5 DEF rb, rn

\* The client's masks, and those of a server with a key whose masked key is b_bar.
LEMMA ClientMasks ==
    ASSUME b_bar \in [Coords -> Bit], NEW key \in [Coords -> Bit], NEW v \in Evals, NEW k \in Rows,
           NEW first, first = first_run(v)
    PROVE  /\ Own(first, k) \in [Coords -> Zq] /\ Other(first, k) \in [Coords -> Zq]
           /\ [i \in Coords |-> expand(BlockOf(key, i), first)[k]]
                = [i \in Coords |-> IF key[i] = 0 THEN Own(first, k)[i] ELSE Other(first, k)[i]]
<1> DEFINE mask(i, c) == expand(client_ot_blocks[i][c], first)[k]
<1>1. Tau \in Nat /\ HashesTyped(Tau, Calls) /\ first \in Nat /\ first + H_ROWS <= Tau
  BY Sizes, RunsOfEvaluation
<1>2. \A i \in Coords, c \in Bit : mask(i, c) \in Zq
  BY <1>1, MaskType
<1>3. ASSUME NEW i \in Coords
      PROVE  /\ b_bar[i] \in Bit /\ 1 - b_bar[i] \in Bit
             /\ xor(b_bar[i], key[i]) = IF key[i] = 0 THEN b_bar[i] ELSE 1 - b_bar[i]
  <2>1. b_bar[i] \in Bit /\ key[i] \in Bit
    OBVIOUS
  <2> QED BY <2>1, XorBits
<1>4. /\ Own(first, k) = [i \in Coords |-> mask(i, b_bar[i])]
      /\ Other(first, k) = [i \in Coords |-> mask(i, 1 - b_bar[i])]
  BY DEF Own, Other
<1>5. [i \in Coords |-> expand(BlockOf(key, i), first)[k]] = [i \in Coords |-> mask(i, xor(b_bar[i], key[i]))]
  BY DEF BlockOf
<1> HIDE DEF mask
<1>6. Own(first, k) \in [Coords -> Zq] /\ Other(first, k) \in [Coords -> Zq]
  BY <1>2, <1>3, <1>4
<1>7. \A i \in Coords : mask(i, xor(b_bar[i], key[i])) = IF key[i] = 0 THEN Own(first, k)[i] ELSE Other(first, k)[i]
  BY <1>3, <1>4
<1> QED BY <1>5, <1>6, <1>7

\* The client's choice and pad of a run.
LEMMA ClientPad ==
    ASSUME NEW del \in DeltaCoins, received = ReceivedFor(del), NEW run \in Runs
    PROVE  /\ ChoiceOf(del, run) \in Zdelta
           /\ received.choices[run] = ChoiceOf(del, run)
           /\ client_r_c(received)[run].b_prime = ChoiceOf(del, run)
           /\ client_r_c(received)[run].r_prime = r_prime_from_block(received.blocks[run])
           /\ client_r_c(received)[run].r_prime \in Zp
<1>1. /\ DOMAIN received.blocks = Runs /\ received.choices[run] = ChoiceOf(del, run)
      /\ ChoiceOf(del, run) \in Zdelta
      /\ received.blocks[run] = delta_ot_blocks[run][ChoiceOf(del, run)]
  BY PadBlocks
<1>2. client_r_c(received)[run] = [b_prime |-> received.choices[run], r_prime |-> r_prime_from_block(received.blocks[run])]
  BY <1>1 DEF client_r_c
<1>3. r_prime_from_block(received.blocks[run]) \in Zp
  BY <1>1, PadType
<1> QED BY <1>1, <1>2, <1>3

\* The hypotheses of an evaluation: what the client has, with the first run of the call.
Prepared(del, v, first) ==
    /\ del \in DeltaCoins /\ received = ReceivedFor(del) /\ b_bar \in [Coords -> Bit]
    /\ v \in Evals /\ first = first_run(v)

\* A response that satisfies the server's equations, with the pads that d commits to and the sums
\* of a key, makes finalize_row end with the PRF under that key: whatever b_bar and d are, the
\* client's own pad is the one that counts.
LEMMA VerifiedRow ==
    ASSUME NEW del, NEW v, NEW first, Prepared(del, v, first), pads_match,
           NEW key \in [Coords -> Bit], NEW call \in Calls, NEW k \in Rows,
           NEW made, made = request_evaluation(client, first, hash_to_zq_matrix(call.tag, call.input)),
           NEW row, row.y = respond(a_sigma_sum(key, SumsOfKey(key, first)[k], made.rows[k].e),
                                    [j \in Zdelta |-> d[first + k][j].value], made.rows[k].b_bar_prime)
    PROVE  finalize_row(made.fin[k], row) = evaluate(key, call.tag, call.input)[k]
<1> DEFINE a    == hash_to_zq_matrix(call.tag, call.input)
           rb   == Own(first, k)
           rn   == Other(first, k)
           r    == [i \in Coords |-> expand(BlockOf(key, i), first)[k]]
           e    == made.rows[k].e
           run  == first + k
           pads == [j \in Zdelta |-> d[run][j].value]
           c    == ChoiceOf(del, run)
           fin1 == made.fin[k]
<1>1. /\ del \in DeltaCoins /\ received = ReceivedFor(del) /\ b_bar \in [Coords -> Bit]
      /\ v \in Evals /\ first = first_run(v)
  BY DEF Prepared
<1>2. run \in Runs
  BY <1>1, RunsOfEvaluation
<1>3. a[k] \in [Coords -> Int]
  <2>1. Tau \in Nat /\ HashesTyped(Tau, Calls)
    BY Sizes
  <2>2. a[k] \in [Coords -> Zq]
    BY <2>1, MatrixType
  <2> QED BY <2>2, RingNat
<1>4. /\ rb \in [Coords -> Zq] /\ rn \in [Coords -> Zq]
      /\ r = [i \in Coords |-> IF key[i] = 0 THEN rb[i] ELSE rn[i]]
  BY <1>1, ClientMasks
<1>5. /\ c \in Zdelta /\ received.choices[run] = c
      /\ client_r_c(received)[run].b_prime = c
      /\ client_r_c(received)[run].r_prime = r_prime_from_block(received.blocks[run])
      /\ client_r_c(received)[run].r_prime \in Zp
  BY <1>1, <1>2, ClientPad
<1>6. pads[c] = client_r_c(received)[run].r_prime
  <2>1. d[run][c] = pad_commitment(received.blocks[run])
    BY <1>2, <1>5 DEF pads_match
  <2>2. d[run][c].value = r_prime_from_block(received.blocks[run])
    BY <2>1 DEF pad_commitment, PadCommitment, Commit
  <2> QED BY <1>5, <2>2
<1>7. /\ e = [i \in Coords |-> reduce_q(a[k][i] + rb[i] + rn[i])]
      /\ made.rows[k].b_bar_prime = sub_delta(reduce_delta(fin1.r_sigma), c)
      /\ fin1.r_sigma = reduce_q(Partial(rb, N)) /\ fin1.r_prime = pads[c]
  <2>1. made = request_evaluation(client, first, a)
    OBVIOUS
  <2> HIDE DEF a
  <2> QED BY <1>5, <1>6, <2>1, RequestRow
<1>8. SumsOfKey(key, first)[k] = r_sigma_sum(key, r)
  BY DEF SumsOfKey
<1>9. rb \in [Coords -> Int] /\ rn \in [Coords -> Int]
  BY <1>4, RingNat
<1> HIDE DEF a, rb, rn, r, e, pads, c, fin1, run
<1>10. row.y = respond(a_sigma_sum(key, r_sigma_sum(key, r), e), pads, sub_delta(reduce_delta(fin1.r_sigma), c))
  BY <1>7, <1>8 DEF e, pads, run
<1>11. IsRun(key, a[k], rb, rn, r, e, pads, c, fin1, row)
  BY <1>3, <1>4, <1>5, <1>6, <1>7, <1>9, <1>10 DEF IsRun
<1>12. finalize_row(fin1, row) = evaluate_single_row(key, a[k])
  BY <1>11, RunRight
<1>13. evaluate(key, call.tag, call.input)[k] = evaluate_single_row(key, a[k])
  BY DEF evaluate, a
<1> QED BY <1>12, <1>13 DEF fin1

\* What the prover makes of a witness satisfies the server's equations.
LEMMA OnlineProved ==
    ASSUME NEW key, NEW sums_run, NEW pads, NEW randomness, NEW rows,
           \A k \in Rows : pads[k] = [j \in Zdelta |-> pads[k][j]],
           NEW s, s = OnlineHonest(OnlineWitness(key, sums_run, pads, randomness), rows)
    PROVE  OnlineRight(s)
<1> DEFINE w == OnlineWitness(key, sums_run, pads, randomness)
<1>1. /\ w.sk = key
      /\ \A k \in Rows : w.runs[k] = [r_sigma |-> r_sigma_sums(r_s, key, sums_run)[k], pads |-> pads[k],
                                      d_randomness |-> randomness[k]]
  BY DEF OnlineWitness
<1> HIDE DEF w
<1>2. /\ s.pk.value = key /\ s.m.value = r_sigmas(w)
      /\ \A k \in Rows : s.runs[k] = RunHonest(key, w.runs[k], rows[k].e, rows[k].b_bar_prime)
  BY <1>1 DEF OnlineHonest, KeyCommitment, MaskSumCommitment, Commit, w
<1>3. ASSUME NEW k \in Rows
      PROVE  s.runs[k].y = respond(a_sigma_sum(s.pk.value, s.m.value[k], s.runs[k].e),
                                   [j \in Zdelta |-> s.runs[k].d[j].value], s.runs[k].b_bar_prime)
  <2> DEFINE t == s.runs[k]
             x == w.runs[k]
  <2>1. s.m.value[k] = x.r_sigma
    BY <1>2 DEF r_sigmas
  <2>2. x.pads = pads[k]
    <3>1. x = [r_sigma |-> r_sigma_sums(r_s, key, sums_run)[k], pads |-> pads[k], d_randomness |-> randomness[k]]
      BY <1>1
    <3> HIDE DEF x
    <3> QED BY <3>1
  <2>3. t = RunHonest(key, x, rows[k].e, rows[k].b_bar_prime)
    BY <1>2
  <2> HIDE DEF t, x
  <2>4. /\ t.e = rows[k].e /\ t.b_bar_prime = rows[k].b_bar_prime
        /\ t.y = respond(a_sigma_sum(key, x.r_sigma, rows[k].e), x.pads, rows[k].b_bar_prime)
        /\ \A j \in Zdelta : t.d[j] = PadCommitment(x.pads[j], x.d_randomness[j])
    BY <2>3 DEF RunHonest
  <2>5. \A j \in Zdelta : t.d[j].value = pads[k][j]
    <3>1. \A u, r : PadCommitment(u, r).value = u
      BY DEF PadCommitment, Commit
    <3> QED BY <2>2, <2>4, <3>1
  <2>6. [j \in Zdelta |-> t.d[j].value] = pads[k]
    BY <2>5
  <2> QED BY <1>2, <2>1, <2>2, <2>4, <2>6 DEF t
<1> QED BY <1>3 DEF OnlineRight

\* The sums of the server's masks, and the sum with the key's coordinates, are reduced.
LEMMA ServerSums ==
    ASSUME NEW bin \in BinaryCoins, r_s = server_r_s(bin), NEW key \in [Coords -> Bit], NEW v \in Evals,
           NEW k \in Rows, NEW e \in [Coords -> Zq]
    PROVE  /\ r_sigma_sums(r_s, key, first_run(v))[k] \in Zq
           /\ a_sigma_sum(key, r_sigma_sums(r_s, key, first_run(v))[k], e) \in Zq
<1> DEFINE masks == [i \in Coords |-> server_masks(r_s, first_run(v))[i][k]]
           f == [i \in Coords |-> IF key[i] = 0 THEN masks[i] ELSE sub_q(0, masks[i])]
           g == [i \in Coords |-> IF key[i] = 0 THEN 0 ELSE e[i]]
           sum == r_sigma_sums(r_s, key, first_run(v))[k]
<1>1. ASSUME NEW i \in Coords PROVE masks[i] \in Zq
  <2>1. r_s[i].b \in Bit /\ client_ot_blocks[i][r_s[i].b] = r_s[i].ot_block
    BY MaskedKey
  <2>2. Tau \in Nat /\ HashesTyped(Tau, Calls) /\ first_run(v) \in Nat /\ first_run(v) + H_ROWS <= Tau
    BY Sizes, RunsOfEvaluation
  <2>3. expand(client_ot_blocks[i][r_s[i].b], first_run(v))[k] \in Zq
    BY <2>1, <2>2, MaskType
  <2> QED BY <2>1, <2>3 DEF server_masks
<1>2. sum = reduce_q(Partial(f, N))
  BY DEF r_sigma_sums, r_sigma_sum
<1> HIDE DEF masks, sum
<1>3. \A i \in 1 .. N : f[i] \in Int
  <2> SUFFICES ASSUME NEW i \in Coords PROVE f[i] \in Int
    BY DEF Coords
  <2>1. masks[i] \in Int /\ Q \in Int
    BY <1>1, RingNat, Moduli
  <2>2. 0 + Q - masks[i] \in Int
    BY <2>1
  <2>3. sub_q(0, masks[i]) \in Int
    BY <2>2, Reduced, RingNat DEF sub_q
  <2> QED BY <2>1, <2>3
<1> HIDE DEF f
<1>4. N \in Nat
  BY Moduli
<1>5. Partial(f, N) \in Int
  BY <1>3, <1>4, PartialInt
<1>6. sum \in Zq
  BY <1>2, <1>5, Reduced
<1>7. \A i \in 1 .. N : g[i] \in Int
  BY RingNat DEF Coords
<1>8. a_sigma_sum(key, sum, e) = reduce_q(Partial(g, N) + sum)
  BY DEF a_sigma_sum
<1> HIDE DEF g
<1>9. Partial(g, N) \in Int
  BY <1>4, <1>7, PartialInt
<1>10. Partial(g, N) + sum \in Int
  BY <1>6, <1>9, RingNat
<1>11. a_sigma_sum(key, sum, e) \in Zq
  BY <1>8, <1>10, Reduced
<1> QED BY <1>6, <1>11 DEF sum

\* A request is of reduced values.
LEMMA RequestType ==
    ASSUME NEW del, NEW v, NEW first, Prepared(del, v, first), NEW call \in Calls, NEW k \in Rows,
           NEW made, made = request_evaluation(client, first, hash_to_zq_matrix(call.tag, call.input))
    PROVE  made.rows[k].e \in [Coords -> Zq] /\ made.rows[k].b_bar_prime \in Zdelta
<1> DEFINE a  == hash_to_zq_matrix(call.tag, call.input)
           rb == Own(first, k)
           rn == Other(first, k)
           c  == client_r_c(received)[first + k].b_prime
<1>1. /\ del \in DeltaCoins /\ received = ReceivedFor(del) /\ b_bar \in [Coords -> Bit]
      /\ v \in Evals /\ first = first_run(v)
  BY DEF Prepared
<1>2. a[k] \in [Coords -> Zq]
  BY Sizes, MatrixType
<1>3. rb \in [Coords -> Zq] /\ rn \in [Coords -> Zq]
  <2>1. PICK key \in [Coords -> Bit] : TRUE
    BY <1>1
  <2> QED BY <1>1, <2>1, ClientMasks
<1>4. c \in Zdelta
  <2>1. first + k \in Runs
    BY <1>1, RunsOfEvaluation
  <2> QED BY <1>1, <2>1, ClientPad
<1>5. /\ made.rows[k].e = [i \in Coords |-> reduce_q(a[k][i] + rb[i] + rn[i])]
      /\ made.rows[k].b_bar_prime = sub_delta(reduce_delta(reduce_q(Partial(rb, N))), c)
  <2>1. made = request_evaluation(client, first, a)
    OBVIOUS
  <2> HIDE DEF a
  <2>2. /\ request_evaluation(client, first, a).rows[k].e
             = [i \in Coords |-> reduce_q(a[k][i] + rb[i] + rn[i])]
        /\ request_evaluation(client, first, a).rows[k].b_bar_prime
             = sub_delta(reduce_delta(reduce_q(Partial(rb, N))), c)
    BY RequestRow
  <2> QED BY <2>1, <2>2
<1> HIDE DEF a, rb, rn, c
<1>6. ASSUME NEW i \in Coords PROVE reduce_q(a[k][i] + rb[i] + rn[i]) \in Zq
  <2>1. a[k][i] \in Int /\ rb[i] \in Int /\ rn[i] \in Int
    BY <1>2, <1>3, RingNat
  <2>2. a[k][i] + rb[i] + rn[i] \in Int
    BY <2>1
  <2> QED BY <2>2, Reduced
<1>7. sub_delta(reduce_delta(reduce_q(Partial(rb, N))), c) \in Zdelta
  <2> DEFINE low == reduce_delta(reduce_q(Partial(rb, N)))
  <2>1. \A i \in 1 .. N : rb[i] \in Int
    BY <1>3, RingNat DEF Coords
  <2>2. Partial(rb, N) \in Int
    BY <2>1, Moduli, PartialInt
  <2>3. reduce_q(Partial(rb, N)) \in Int
    BY <2>2, Reduced, RingNat
  <2>4. low \in Zdelta
    BY <2>3, Reduced
  <2> HIDE DEF low
  <2>5. low + DELTA - c \in Int
    BY <1>4, <2>4, RingNat, Moduli
  <2>6. reduce_delta(low + DELTA - c) \in Zdelta
    BY <2>5, Reduced
  <2>7. sub_delta(low, c) \in Zdelta
    BY <2>6 DEF sub_delta, reduce_delta
  <2> QED BY <2>7 DEF low
<1> QED BY <1>5, <1>6, <1>7

\* The hypotheses of an evaluation with the server of the code: its witness w, and the statement s
\* that it proves with it.
HonestRun(bin, del, v, first, call, made, w, s) ==
    /\ bin \in BinaryCoins /\ r_s = server_r_s(bin) /\ sk \in Sampled
    /\ Prepared(del, v, first) /\ call \in Calls
    /\ made = request_evaluation(client, first, hash_to_zq_matrix(call.tag, call.input))
    /\ w = OnlineWitness(sk, first, OtPads(first), OtRandomness(first))
    /\ s = OnlineHonest(w, made.rows)

\* The server of the code has a witness for its response, and what it proves is what the client
\* puts together.
LEMMA OnlineComplete ==
    ASSUME NEW bin, NEW del, NEW v, NEW first, NEW call, NEW made, NEW w, NEW s,
           HonestRun(bin, del, v, first, call, made, w, s)
    PROVE  /\ OnlineHolds(s, w)
           /\ s = [pk |-> KeyCommitment(sk), m |-> HonestSums[v],
                   runs |-> [k \in Rows |->
                      [d |-> PadsCommitments[first + k], e |-> made.rows[k].e,
                       b_bar_prime |-> made.rows[k].b_bar_prime,
                       y |-> blind_eval_one(ServerOf, sk, first, made.rows)[k].y]]]
           /\ \A k \in Rows : blind_eval_one(ServerOf, sk, first, made.rows)[k].ctr = first + k
<1> DEFINE sums == r_sigma_sums(r_s, sk, first)
           pads(k) == [j \in Zdelta |-> r_prime_from_block(delta_ot_blocks[first + k][j])]
           sent(k) == delta_ot_blocks[first + k]
<1> USE DEF HonestRun
<1>0. sk \in [Coords -> Bit]
  BY Sizes
<1>1. v \in Evals /\ first = first_run(v)
  BY DEF Prepared
<1>2. \A k \in Rows : first + k \in Runs
  BY <1>1, RunsOfEvaluation
<1>3. /\ w.sk = sk /\ w.m_randomness = mask_sum_randomness(delta_ot_blocks[first])
      /\ \A k \in Rows : w.runs[k] = [r_sigma |-> sums[k], pads |-> OtPads(first)[k], d_randomness |-> OtRandomness(first)[k]]
  BY DEF OnlineWitness
<1>4. \A k \in Rows : OtPads(first)[k] = pads(k) /\ OtRandomness(first)[k] = sent(k)
  BY DEF OtPads, OtRandomness
<1>5. ASSUME NEW k \in Rows
      PROVE  w.runs[k].r_sigma = sums[k] /\ w.runs[k].pads = pads(k) /\ w.runs[k].d_randomness = sent(k)
  <2> DEFINE x == w.runs[k]
  <2>1. x = [r_sigma |-> sums[k], pads |-> pads(k), d_randomness |-> sent(k)]
    BY <1>3, <1>4
  <2> HIDE DEF x, sums, pads, sent
  <2>2. x.r_sigma = sums[k] /\ x.pads = pads(k) /\ x.d_randomness = sent(k)
    BY <2>1
  <2> QED BY <2>2 DEF x
<1>6. r_sigmas(w) = sums
  <2>1. sums = [k \in Rows |-> sums[k]]
    BY DEF r_sigma_sums
  <2> QED BY <1>5, <2>1 DEF r_sigmas
<1>7. MaskSumCommitment(r_sigmas(w), w.m_randomness) = HonestSums[v]
  BY <1>1, <1>3, <1>6 DEF HonestSums
<1>8. ASSUME NEW k \in Rows
      PROVE  /\ server_s_s(delta_ot_blocks)[first + k] = pads(k)
             /\ [j \in Zdelta |-> PadCommitment(pads(k)[j], sent(k)[j])] = PadsCommitments[first + k]
  <2>1. first + k \in Runs
    BY <1>2
  <2>2. PICK del1 \in DeltaCoins : TRUE
    BY DEF Prepared
  <2>3. DOMAIN delta_ot_blocks = Runs
    BY <2>2, PadBlocks
  <2>4. server_s_s(delta_ot_blocks)[first + k] = pads(k)
    BY <2>1, <2>3 DEF server_s_s
  <2>5. PadsCommitments[first + k] = [j \in Zdelta |-> pad_commitment(sent(k)[j])]
    BY <2>1 DEF PadsCommitments
  <2>6. \A j \in Zdelta : PadCommitment(pads(k)[j], sent(k)[j]) = pad_commitment(sent(k)[j])
    BY DEF pad_commitment
  <2> QED BY <2>4, <2>5, <2>6
<1> DEFINE rows == blind_eval_one(ServerOf, sk, first, made.rows)
           y(k) == respond(a_sigma_sum(sk, sums[k], made.rows[k].e), pads(k), made.rows[k].b_bar_prime)
<1>9. ASSUME NEW k \in Rows PROVE rows[k].y = y(k) /\ rows[k].ctr = first + k
  <2>1. ServerOf.r_s = r_s /\ ServerOf.s_s = server_s_s(delta_ot_blocks)
    BY DEF ServerOf
  <2>2. rows[k] = [y   |-> respond(a_sigma_sum(sk, r_sigma_sums(ServerOf.r_s, sk, first)[k], made.rows[k].e),
                                   ServerOf.s_s[first + k], made.rows[k].b_bar_prime),
                   ctr |-> first + k]
    BY DEF blind_eval_one
  <2>3. server_s_s(delta_ot_blocks)[first + k] = pads(k)
    BY <1>8
  <2> HIDE DEF rows, pads
  <2>4. rows[k] = [y |-> y(k), ctr |-> first + k]
    BY <2>1, <2>2, <2>3
  <2> HIDE DEF y
  <2> QED BY <2>4
<1>10. ASSUME NEW k \in Rows
       PROVE  RunHonest(sk, w.runs[k], made.rows[k].e, made.rows[k].b_bar_prime)
                = [d |-> PadsCommitments[first + k], e |-> made.rows[k].e,
                   b_bar_prime |-> made.rows[k].b_bar_prime, y |-> rows[k].y]
  <2> HIDE DEF pads, sums, sent, rows
  <2> QED BY <1>5, <1>8, <1>9 DEF RunHonest
<1>11. s = [pk |-> KeyCommitment(sk), m |-> HonestSums[v],
            runs |-> [k \in Rows |->
               [d |-> PadsCommitments[first + k], e |-> made.rows[k].e,
                b_bar_prime |-> made.rows[k].b_bar_prime, y |-> rows[k].y]]]
  <2> HIDE DEF rows
  <2> QED BY <1>3, <1>7, <1>10 DEF OnlineHonest
<1>12. ASSUME NEW k \in Rows PROVE RunHolds(s.runs[k], sk, w.runs[k])
  <2> DEFINE t == s.runs[k]
  <2>1. t = [d |-> PadsCommitments[first + k], e |-> made.rows[k].e,
             b_bar_prime |-> made.rows[k].b_bar_prime, y |-> rows[k].y]
    BY <1>11
  <2> HIDE DEF t, rows
  <2>2. /\ t.d = PadsCommitments[first + k] /\ t.e = made.rows[k].e
        /\ t.b_bar_prime = made.rows[k].b_bar_prime /\ t.y = rows[k].y
    BY <2>1
  <2>3. made.rows[k].e \in [Coords -> Zq] /\ made.rows[k].b_bar_prime \in Zdelta
    BY RequestType
  <2>4. sums[k] \in Zq /\ a_sigma_sum(sk, sums[k], made.rows[k].e) \in Zq
    BY <1>0, <1>1, <2>3, ServerSums
  <2> HIDE DEF pads, sums, sent
  <2>5. Pads(t.d, w.runs[k].pads, w.runs[k].d_randomness)
    <3>1. \A j \in Zdelta : PadCommitment(pads(k)[j], sent(k)[j]) = PadsCommitments[first + k][j]
      BY <1>8
    <3>2. w.runs[k].pads = pads(k) /\ w.runs[k].d_randomness = sent(k)
      BY <1>5
    <3> QED BY <2>2, <3>1, <3>2 DEF Pads
  <2>6. Sum(t.e, w.runs[k].r_sigma)
    BY <1>5, <2>2, <2>3, <2>4, RingNat DEF Sum
  <2>7. Response(t.y, t.b_bar_prime, a_sigma_sum(sk, w.runs[k].r_sigma, t.e), w.runs[k].pads)
    BY <1>5, <1>9, <2>2, <2>3, <2>4, RingNat DEF Response
  <2> QED BY <2>5, <2>6, <2>7 DEF RunHolds, t
<1>13. OnlineHolds(s, w)
  <2>1. s.pk = KeyCommitment(sk) /\ s.m = HonestSums[v]
    BY <1>11
  <2> QED BY <1>3, <1>7, <1>12, <2>1 DEF OnlineHolds, Key, MaskSum
<1> QED BY <1>9, <1>11, <1>13

----------------------------------------------------------------------------
(* The invariant holds in every state.                                     *)

LEMMA InvInit == Init => Inv
<1> SUFFICES ASSUME Init PROVE Inv
  OBVIOUS
<1> USE DEF Init, HasBlocks, HasReceived, HasPads, HasBhat, HasSums, HasCall
<1>1. KeysInv
  BY NoFiles DEF FilesInit
<1>2. PkInv /\ SameKeyInv /\ ConnectedInv
  BY DEF FilesInit, PkInv, SameKeyInv, ConnectedInv
<1>3. OtsInv /\ PadsInv /\ BhatInv /\ SumsInv /\ RequestInv /\ ResponseInv
  BY DEF OtsInv, PadsInv, BhatInv, SumsInv, RequestInv, ResponseInv
<1>4. CountInv
  <2>1. Len(asked) = 0 /\ Len(outs) = 0 /\ asked \in Seq(Calls) /\ outs \in Seq(Outputs)
    OBVIOUS
  <2>2. 0 * H_ROWS = 0 /\ 0 <= Tau
    BY Sizes
  <2> QED BY <2>1, <2>2 DEF CountInv
<1>5. VerifiedOutput /\ HonestAccepted
  BY DEF VerifiedOutput, HonestAccepted
<1> QED BY <1>1, <1>2, <1>3, <1>4, <1>5 DEF Inv, FilesInv

\* Once connected, no step changes what was read from the files.
LEMMA FilesKept ==
    ASSUME FilesInv, UNCHANGED <<files, honest>>, stage # "files", stage' # "files"
    PROVE  FilesInv'
<1>1. UNCHANGED <<path, bytes, pos, file, keygen, pub, pkfile, sk, pk, removed>>
  BY DEF files, disk, keys
<1>2. KeysInv'
  BY <1>1 DEF FilesInv, KeysInv
<1>3. PkInv'
  BY <1>1 DEF FilesInv, PkInv
<1>4. SameKeyInv' /\ ConnectedInv'
  BY <1>1 DEF FilesInv, SameKeyInv, ConnectedInv
<1> QED BY <1>2, <1>3, <1>4 DEF FilesInv

\* The counts stay right when no call begins or ends.
LEMMA CountsKept ==
    ASSUME CountInv, VerifiedOutput, UNCHANGED <<pk, honest, ctr, sctr, asked, outs>>, stage # "files", stage' # "files",
           \/ stage' = "refused"
           \/ stage \notin {"refused"} \union HasCall /\ stage' \notin {"refused"} \union HasCall
    PROVE  CountInv' /\ VerifiedOutput'
<1>1. Outputs' = Outputs
  BY DEF Outputs, Sampled
<1>2. CountInv'
  BY <1>1 DEF CountInv, HasCall
<1>3. VerifiedOutput'
  BY DEF VerifiedOutput
<1> QED BY <1>2, <1>3

\* The preprocessing keeps the invariant.
LEMMA PreprocessingStep ==
    ASSUME Inv, BinaryOts \/ ReceiveMasks \/ DeltaOts \/ SendPads \/ ReceivePads \/ SendBhat
    PROVE  Inv'
<1> USE DEF HasBlocks, HasReceived, HasPads, HasBhat, HasSums, HasCall
<1>0. FilesInv /\ OtsInv /\ PadsInv /\ CountInv /\ VerifiedOutput /\ HonestAccepted
  BY DEF Inv
<1>1. /\ stage \in {"binary", "masks", "delta", "pads", "pads sent", "bhat"}
      /\ stage' \in {"masks", "delta", "pads", "pads sent", "bhat", "prove", "refused"}
      /\ UNCHANGED <<files, honest, m, proof, ctr, sctr, asked, request, fin, response, outs>>
  BY DEF BinaryOts, ReceiveMasks, DeltaOts, SendPads, ReceivePads, SendBhat
<1>2. FilesInv' /\ pk' = pk /\ sk' = sk /\ removed' = removed
  BY <1>0, <1>1, FilesKept DEF files
<1>3. CountInv' /\ VerifiedOutput'
  BY <1>0, <1>1, <1>2, CountsKept
<1>4. SumsInv' /\ RequestInv' /\ ResponseInv'
  BY <1>1 DEF SumsInv, RequestInv, ResponseInv
<1>5. CASE BinaryOts
  <2>1. PICK bin \in BinaryCoins : stage = "binary" /\ stage' = "masks" /\ r_s' = server_r_s(bin)
    BY <1>5 DEF BinaryOts
  <2>2. OtsInv' /\ PadsInv' /\ BhatInv' /\ HonestAccepted'
    BY <1>0, <1>1, <2>1 DEF OtsInv, PadsInv, BhatInv, HonestAccepted
  <2> QED BY <1>2, <1>3, <1>4, <2>2 DEF Inv
<1>6. CASE ReceiveMasks
  <2>1. stage = "masks" /\ stage' = (IF honest => masks_match THEN "delta" ELSE "refused") /\ r_s' = r_s
    BY <1>6 DEF ReceiveMasks
  <2>2. masks_match
    BY <1>0, <2>1, MasksAgree DEF OtsInv
  <2>3. stage' = "delta"
    BY <2>1, <2>2
  <2>4. OtsInv' /\ PadsInv' /\ BhatInv' /\ HonestAccepted'
    BY <1>0, <1>1, <2>1, <2>3 DEF OtsInv, PadsInv, BhatInv, HonestAccepted
  <2> QED BY <1>2, <1>3, <1>4, <2>4 DEF Inv
<1>7. CASE DeltaOts
  <2>1. PICK del \in DeltaCoins : stage = "delta" /\ stage' = "pads" /\ received' = ReceivedFor(del) /\ r_s' = r_s
    BY <1>7 DEF DeltaOts, ReceivedFor
  <2>2. OtsInv' /\ PadsInv' /\ BhatInv' /\ HonestAccepted'
    BY <1>0, <1>1, <2>1 DEF OtsInv, PadsInv, BhatInv, HonestAccepted
  <2> QED BY <1>2, <1>3, <1>4, <2>2 DEF Inv
<1>8. CASE SendPads
  <2>1. /\ stage = "pads" /\ stage' = "pads sent" /\ r_s' = r_s /\ received' = received
        /\ d' \in IF honest THEN {PadsCommitments} ELSE OtherPads
    BY <1>8 DEF SendPads
  <2>2. honest' => d' = PadsCommitments'
    BY <1>1, <2>1 DEF PadsCommitments
  <2>3. OtsInv' /\ PadsInv' /\ BhatInv' /\ HonestAccepted'
    BY <1>0, <1>1, <2>1, <2>2 DEF OtsInv, PadsInv, BhatInv, HonestAccepted
  <2> QED BY <1>2, <1>3, <1>4, <2>3 DEF Inv
<1>9. CASE ReceivePads
  <2>1. /\ stage = "pads sent" /\ stage' = (IF pads_match THEN "bhat" ELSE "refused")
        /\ r_s' = r_s /\ received' = received /\ d' = d
    BY <1>9 DEF ReceivePads
  <2>2. honest => pads_match
    BY <1>0, <2>1, PadsAgree DEF OtsInv, PadsInv
  <2>3. pads_match' <=> pads_match
    BY <2>1 DEF pads_match
  <2>4. PadsCommitments' = PadsCommitments
    BY DEF PadsCommitments
  <2>5. OtsInv' /\ PadsInv' /\ BhatInv' /\ HonestAccepted'
    BY <1>0, <1>1, <2>1, <2>2, <2>3, <2>4 DEF OtsInv, PadsInv, BhatInv, HonestAccepted
  <2> QED BY <1>2, <1>3, <1>4, <2>5 DEF Inv
<1>10. CASE SendBhat
  <2>1. /\ stage = "bhat" /\ stage' = "prove" /\ r_s' = r_s /\ received' = received /\ d' = d
        /\ b_bar' \in IF honest THEN {masked_key(r_s, sk)} ELSE [Coords -> Bit]
    BY <1>10 DEF SendBhat
  <2>3. masked_key(r_s, sk) \in [Coords -> Bit]
    BY DEF masked_key, Bit
  <2>4. b_bar' \in [Coords -> Bit] /\ (honest' => b_bar' = masked_key(r_s', sk'))
    BY <1>1, <1>2, <2>1, <2>3
  <2>5. pads_match' <=> pads_match
    BY <2>1 DEF pads_match
  <2>6. PadsCommitments' = PadsCommitments
    BY DEF PadsCommitments
  <2>7. OtsInv' /\ PadsInv' /\ BhatInv' /\ HonestAccepted'
    BY <1>0, <1>1, <2>1, <2>4, <2>5, <2>6 DEF OtsInv, PadsInv, BhatInv, HonestAccepted
  <2> QED BY <1>2, <1>3, <1>4, <2>7 DEF Inv
<1> QED BY <1>5, <1>6, <1>7, <1>8, <1>9, <1>10

\* No proof is a proof of a statement.
LEMMA ProofOfNothing ==
    ASSUME NEW x, NEW z, NEW u, NEW s
    PROVE  /\ [of |-> [pk |-> x, b_bar |-> z, evaluations |-> u]] # NoProof
           /\ [of |-> [pk |-> x, m |-> z, runs |-> u]] # NoProof
           /\ [of |-> s].of = s
BY DEF NoProof

\* The preprocessing's proof keeps the invariant.
LEMMA ProofStep ==
    ASSUME Inv, Prove \/ ProveAny \/ Finish
    PROVE  Inv'
<1> USE DEF HasBlocks, HasReceived, HasPads, HasBhat, HasSums, HasCall
<1>0. FilesInv /\ OtsInv /\ PadsInv /\ BhatInv /\ SumsInv /\ CountInv /\ VerifiedOutput /\ HonestAccepted
  BY DEF Inv
<1>1. /\ stage \in {"prove", "finish"} /\ stage' \in {"finish", "request", "refused"}
      /\ UNCHANGED <<files, honest, r_s, received, d, b_bar, ctr, sctr, asked, request, fin, response, outs>>
  BY DEF Prove, ProveAny, Finish
<1>2. FilesInv' /\ pk' = pk /\ sk' = sk /\ removed' = removed
  BY <1>0, <1>1, FilesKept DEF files
<1>3. CountInv' /\ VerifiedOutput'
  BY <1>0, <1>1, <1>2, CountsKept
<1>4. RequestInv' /\ ResponseInv'
  BY <1>1 DEF RequestInv, ResponseInv
<1>5. OtsInv' /\ PadsInv' /\ BhatInv'
  <2>1. (pads_match' <=> pads_match) /\ PadsCommitments' = PadsCommitments
    BY <1>1 DEF pads_match, PadsCommitments
  <2> QED BY <1>0, <1>1, <1>2, <2>1 DEF OtsInv, PadsInv, BhatInv
<1>6. honest => sk \in Sampled
  BY <1>0, <1>1 DEF FilesInv, ConnectedInv, PkInv
<1>7. /\ HonestSums' = HonestSums
      /\ PreprocessingStatement(KeyCommitment(sk), HonestSums)' = PreprocessingStatement(KeyCommitment(sk), HonestSums)
  BY <1>1, <1>2 DEF HonestSums, PreprocessingStatement
<1>8. m' = m => (SumsRight(pk.value, m)' <=> SumsRight(pk.value, m))
  BY <1>1, <1>2 DEF SumsRight, SumsOfKey, BlockOf
<1>9. ASSUME NEW s, ProvedSums(s), proof' = [of |-> s]
      PROVE  (proof = [of |-> proof.of] /\ ProvedSums(proof.of))'
  <2>1. proof'.of = s
    BY <1>9
  <2> QED BY <1>1, <1>9, <2>1 DEF ProvedSums, PreprocessingStatement, SumsRight, SumsOfKey, BlockOf
<1>10. b_bar \in [Coords -> Bit]
  BY <1>0, <1>1 DEF BhatInv
<1>11. CASE Prove
  <2> DEFINE w == PreprocessingWitness(sk)
             s == PreprocessingHonest(w, b_bar, MasksCommitments)
             p == prove(s, PreprocessingHolds(s, w))
  <2>1. /\ stage = "prove" /\ honest
        /\ stage' = (IF p = NoProof THEN "refused" ELSE "finish") /\ m' = Sums(s) /\ proof' = p
    BY <1>11 DEF Prove
  <2>2. PICK bin \in BinaryCoins : r_s = server_r_s(bin)
    BY <1>0, <2>1 DEF OtsInv
  <2>3. b_bar = masked_key(r_s, sk) /\ sk \in Sampled
    BY <1>0, <1>6, <2>1 DEF BhatInv
  <2>4. /\ s = PreprocessingStatement(KeyCommitment(sk), HonestSums) /\ Sums(s) = HonestSums
        /\ DOMAIN HonestSums = Evals /\ PreprocessingHolds(s, w)
    BY <2>2, <2>3, PreprocessingComplete
  <2>5. ProvedSums(s)
    BY <1>10, <2>3, <2>4, PreprocessingSound
  <2> HIDE DEF w, s
  <2>6. p = [of |-> s]
    BY <2>4 DEF prove
  <2>7. [of |-> s] # NoProof
    BY <2>4, ProofOfNothing DEF PreprocessingStatement
  <2>8. stage' = "finish" /\ m' = HonestSums /\ proof' = [of |-> s]
    BY <2>1, <2>4, <2>6, <2>7
  <2>10. (proof = [of |-> proof.of] /\ ProvedSums(proof.of))'
    BY <1>9, <2>5, <2>8
  <2>11. (m = HonestSums /\ proof = [of |-> PreprocessingStatement(KeyCommitment(sk), HonestSums)])'
    BY <1>7, <2>4, <2>8
  <2>12. SumsInv'
    BY <1>2, <1>7, <2>8, <2>10, <2>11 DEF SumsInv
  <2>13. HonestAccepted'
    BY <2>8 DEF HonestAccepted
  <2> QED BY <1>2, <1>3, <1>4, <1>5, <2>12, <2>13 DEF Inv
<1>12. CASE ProveAny
  <2>1. PICK key \in {KeyOf[g] : g \in Keygens} :
          /\ stage = "prove" /\ ~honest /\ stage' = "finish"
          /\ \E sums, proved \in OtherSums(Sums(PreprocessingHonest(PreprocessingWitness(key), b_bar, MasksCommitments))) :
               /\ m' = sums
               /\ proof' = prove(PreprocessingStatement(KeyCommitment(key), proved),
                                 PreprocessingHolds(PreprocessingStatement(KeyCommitment(key), proved),
                                                    PreprocessingWitness(key)))
    BY <1>12 DEF ProveAny
  <2>2. PICK proved :
          proof' = prove(PreprocessingStatement(KeyCommitment(key), proved),
                         PreprocessingHolds(PreprocessingStatement(KeyCommitment(key), proved),
                                            PreprocessingWitness(key)))
    BY <2>1
  <2> DEFINE s == PreprocessingStatement(KeyCommitment(key), proved)
  <2>3. ASSUME PreprocessingHolds(s, PreprocessingWitness(key)) PROVE SumsInv'
    <3>1. key \in Sampled
      BY DEF Sampled
    <3>2. ProvedSums(s)
      BY <1>10, <2>3, <3>1, PreprocessingSound
    <3>3. proof' = [of |-> s]
      BY <2>2, <2>3 DEF prove
    <3> HIDE DEF s
    <3>5. (proof = [of |-> proof.of] /\ ProvedSums(proof.of))'
      BY <1>9, <3>2, <3>3
    <3> QED BY <1>1, <2>1, <3>5 DEF SumsInv
  <2>4. ASSUME ~PreprocessingHolds(s, PreprocessingWitness(key)) PROVE SumsInv'
    <3>1. proof' = NoProof
      BY <2>2, <2>4 DEF prove
    <3> QED BY <1>1, <2>1, <3>1 DEF SumsInv, NoProof
  <2>5. SumsInv'
    BY <2>3, <2>4
  <2>6. HonestAccepted'
    BY <1>1, <2>1 DEF HonestAccepted
  <2> QED BY <1>2, <1>3, <1>4, <1>5, <2>5, <2>6 DEF Inv
<1>13. CASE Finish
  <2>1. stage = "finish" /\ stage' = (IF FinishOk THEN "request" ELSE "refused") /\ m' = m
    BY <1>13 DEF Finish
  <2> DEFINE s == PreprocessingStatement(pk, m)
  <2>2. ASSUME FinishOk PROVE DOMAIN m = Evals /\ SumsRight(pk.value, m)
    <3>1. DOMAIN m = Evals /\ proof = [of |-> s]
      BY <2>2 DEF FinishOk, verify_preprocessing, verify
    <3>2. proof # NoProof
      BY <3>1, ProofOfNothing DEF PreprocessingStatement
    <3>3. /\ s.pk = pk /\ \A v \in DOMAIN m : Sums(s)[v] = m[v]
      BY StatementParts
    <3> HIDE DEF s
    <3>4. proof.of = s
      BY <3>1
    <3>5. ProvedSums(s)
      BY <1>0, <2>1, <3>2, <3>4 DEF SumsInv
    <3> QED BY <3>1, <3>3, <3>5 DEF ProvedSums, SumsRight
  <2>3. honest => m = HonestSums
    BY <1>0, <2>1 DEF SumsInv
  <2>4. SumsInv'
    <3>1. stage' = "request" => DOMAIN m' = Evals /\ SumsRight(pk.value, m)' /\ (honest' => m' = HonestSums')
      BY <1>1, <1>2, <1>7, <1>8, <2>1, <2>2, <2>3
    <3> QED BY <2>1, <3>1 DEF SumsInv
  <2>5. honest /\ ~removed => FinishOk
    <3> SUFFICES ASSUME honest, ~removed PROVE FinishOk
      OBVIOUS
    <3>1. pk = KeyCommitment(sk)
      BY <1>0, <2>1 DEF FilesInv, ConnectedInv
    <3>2. m = HonestSums /\ proof = [of |-> PreprocessingStatement(KeyCommitment(sk), HonestSums)]
      BY <1>0, <2>1 DEF SumsInv
    <3>3. DOMAIN m = Evals
      BY <3>2 DEF HonestSums
    <3>4. DOMAIN s.evaluations = Evals
      BY <3>3, StatementParts
    <3>5. 0 \in Evals
      BY Sizes DEF Evals
    <3> QED BY <3>1, <3>2, <3>3, <3>4, <3>5 DEF FinishOk, verify_preprocessing, verify
  <2>6. HonestAccepted'
    BY <1>1, <1>2, <2>1, <2>5 DEF HonestAccepted
  <2> QED BY <1>2, <1>3, <1>4, <1>5, <2>4, <2>6 DEF Inv
<1> QED BY <1>11, <1>12, <1>13

\* The call in progress: its evaluation, its first run, and what the client made for it.
Call == asked[Len(asked)]

LEMMA CallInProgress ==
    ASSUME Inv, stage \in HasCall
    PROVE  /\ Len(asked) \in Nat \ {0} /\ Call \in Calls
           /\ Len(asked) - 1 \in Evals /\ First = first_run(Len(asked) - 1)
           /\ \E del : Prepared(del, Len(asked) - 1, First)
           /\ MadeLast = request_evaluation(client, First, hash_to_zq_matrix(Call.tag, Call.input))
           /\ pads_match /\ pk # None /\ \E key \in Sampled : pk = KeyCommitment(key)
<1> USE DEF HasBlocks, HasReceived, HasPads, HasBhat, HasSums, HasCall
<1>1. /\ asked \in Seq(Calls) /\ outs \in Seq(Outputs)
      /\ Len(asked) = Len(outs) + 1 /\ ctr = Len(asked) * H_ROWS /\ ctr <= Tau
  BY DEF Inv, CountInv
<1>2. Len(asked) \in Nat /\ Len(outs) \in Nat
  BY <1>1
<1> DEFINE n == Len(asked)
<1> HIDE DEF n
<1>3. n \in Nat \ {0}
  BY <1>1, <1>2 DEF n
<1>4. n * H_ROWS <= Evaluations * H_ROWS /\ H_ROWS \in Nat \ {0} /\ Evaluations \in Nat
  BY <1>1, Sizes DEF n
<1>5. n <= Evaluations
  <2>1. SUFFICES ASSUME n >= Evaluations + 1 PROVE FALSE
    BY <1>3, <1>4
  <2>2. n * H_ROWS >= (Evaluations + 1) * H_ROWS
    BY <1>3, <1>4, <2>1
  <2>3. (Evaluations + 1) * H_ROWS = Evaluations * H_ROWS + H_ROWS /\ Evaluations * H_ROWS \in Nat /\ n * H_ROWS \in Nat
    BY <1>3, <1>4
  <2> QED BY <1>4, <2>2, <2>3
<1>6. n - 1 \in Evals
  BY <1>3, <1>4, <1>5 DEF Evals
<1>7. Call \in Calls
  BY <1>1, <1>3 DEF Call, n
<1>8. First = first_run(n - 1)
  BY <1>6, RunsOfEvaluation DEF First, n
<1>9. \E del : Prepared(del, n - 1, First)
  <2>1. PICK del \in DeltaCoins : received = ReceivedFor(del)
    BY DEF Inv, OtsInv
  <2>2. b_bar \in [Coords -> Bit]
    BY DEF Inv, BhatInv
  <2> QED BY <1>6, <1>8, <2>1, <2>2 DEF Prepared
<1>10. MadeLast = request_evaluation(client, First, hash_to_zq_matrix(Call.tag, Call.input))
  BY DEF MadeLast, Call
<1>11. pads_match /\ pk # None /\ \E key \in Sampled : pk = KeyCommitment(key)
  BY DEF Inv, FilesInv, ConnectedInv, PkInv, PadsInv
<1> QED BY <1>3, <1>6, <1>7, <1>8, <1>9, <1>10, <1>11 DEF n

\* What the client kept of the request, and the rest of its statement.
LEMMA StatementMade ==
    ASSUME Inv, stage \in HasCall
    PROVE  /\ fin.rows = MadeLast.fin /\ request = MadeLast.rows
           /\ fin.statement.pk = pk /\ fin.statement.m = m[Len(asked) - 1]
           /\ \A k \in Rows : /\ fin.statement.runs[k].d = d[First + k]
                              /\ fin.statement.runs[k].e = MadeLast.rows[k].e
                              /\ fin.statement.runs[k].b_bar_prime = MadeLast.rows[k].b_bar_prime
<1> DEFINE s == online_statement(First, MadeLast.rows)
<1>1. request = MadeLast.rows /\ fin = [rows |-> MadeLast.fin, statement |-> s]
  BY DEF Inv, RequestInv
<1>2. First \div RUNS_PER_EVALUATION = Len(asked) - 1
  BY CallInProgress, RunsOfEvaluation
<1>3. /\ s.pk = pk /\ s.m = m[Len(asked) - 1]
      /\ \A k \in Rows : s.runs[k] = [d |-> d[First + k], e |-> MadeLast.rows[k].e,
                                      b_bar_prime |-> MadeLast.rows[k].b_bar_prime]
  BY <1>2 DEF online_statement
<1> HIDE DEF s
<1>4. fin.rows = MadeLast.fin /\ fin.statement = s
  BY <1>1
<1>5. ASSUME NEW k \in Rows
      PROVE  s.runs[k].d = d[First + k] /\ s.runs[k].e = MadeLast.rows[k].e
               /\ s.runs[k].b_bar_prime = MadeLast.rows[k].b_bar_prime
  <2> DEFINE t == s.runs[k]
  <2>1. t = [d |-> d[First + k], e |-> MadeLast.rows[k].e, b_bar_prime |-> MadeLast.rows[k].b_bar_prime]
    BY <1>3
  <2> HIDE DEF t
  <2>2. t.d = d[First + k] /\ t.e = MadeLast.rows[k].e /\ t.b_bar_prime = MadeLast.rows[k].b_bar_prime
    BY <2>1
  <2> QED BY <2>2 DEF t
<1> QED BY <1>1, <1>3, <1>4, <1>5

\* A response that verifies gives the PRF under the key of pk.
LEMMA FinalizeRight ==
    ASSUME Inv, stage = "finalize", FinalizeOk
    PROVE  /\ [k \in Rows |-> finalize_row(fin.rows[k], response.rows[k])] = evaluate(pk.value, Call.tag, Call.input)
           /\ evaluate(pk.value, Call.tag, Call.input) \in Outputs
<1> DEFINE v == Len(asked) - 1
           key == pk.value
           run(k) == fin.statement.runs[k]
           s == [pk |-> fin.statement.pk, m |-> fin.statement.m,
                 runs |-> [k \in Rows |-> [d |-> run(k).d, e |-> run(k).e, b_bar_prime |-> run(k).b_bar_prime,
                                           y |-> response.rows[k].y]]]
           p == response.proofs[1]
<1>0. stage \in HasCall /\ stage \in HasSums
  BY DEF HasCall, HasSums
<1>1. /\ Call \in Calls /\ v \in Evals /\ First = first_run(v) /\ pads_match
      /\ MadeLast = request_evaluation(client, First, hash_to_zq_matrix(Call.tag, Call.input))
      /\ \E del : Prepared(del, v, First)
      /\ \E k \in Sampled : pk = KeyCommitment(k)
  BY <1>0, CallInProgress
<1>2. /\ fin.rows = MadeLast.fin
      /\ fin.statement.pk = pk /\ fin.statement.m = m[v]
      /\ \A k \in Rows : /\ run(k).d = d[First + k] /\ run(k).e = MadeLast.rows[k].e
                         /\ run(k).b_bar_prime = MadeLast.rows[k].b_bar_prime
  BY <1>0, StatementMade
<1>3. key \in Sampled
  BY <1>1 DEF KeyCommitment, Commit
<1>4. Len(response.proofs) = 1 /\ p = [of |-> s]
  BY DEF FinalizeOk, verify_online, verify
<1>5. p # NoProof
  BY <1>4, ProofOfNothing
<1>6. OnlineRight(s)
  <2>1. OnlineRight(p.of)
    BY <1>4, <1>5 DEF Inv, ResponseInv
  <2> HIDE DEF s, p
  <2>2. p.of = s
    BY <1>4
  <2> QED BY <2>1, <2>2
<1>7. m[v].value = SumsOfKey(key, First)
  BY <1>0, <1>1 DEF Inv, SumsInv, SumsRight
<1> HIDE DEF key, v, p
<1>8. ASSUME NEW k \in Rows
      PROVE  finalize_row(fin.rows[k], response.rows[k]) = evaluate(key, Call.tag, Call.input)[k]
  <2> DEFINE t == s.runs[k]
  <2>1. /\ t.y = response.rows[k].y /\ t.d = run(k).d /\ t.e = run(k).e /\ t.b_bar_prime = run(k).b_bar_prime
        /\ s.pk = pk /\ s.m = m[v]
    BY <1>2
  <2>2. t.y = respond(a_sigma_sum(s.pk.value, s.m.value[k], t.e), [j \in Zdelta |-> t.d[j].value], t.b_bar_prime)
    BY <1>6 DEF OnlineRight
  <2> HIDE DEF s, t
  <2>3. t.d = d[First + k] /\ t.e = MadeLast.rows[k].e /\ t.b_bar_prime = MadeLast.rows[k].b_bar_prime
    BY <1>2, <2>1
  <2>4. response.rows[k].y = respond(a_sigma_sum(key, SumsOfKey(key, First)[k], MadeLast.rows[k].e),
                                     [j \in Zdelta |-> d[First + k][j].value], MadeLast.rows[k].b_bar_prime)
    BY <1>7, <2>1, <2>2, <2>3 DEF key
  <2>5. key \in [Coords -> Bit]
    BY <1>3, Sizes
  <2>6. PICK del : Prepared(del, v, First)
    BY <1>1
  <2>7. finalize_row(MadeLast.fin[k], response.rows[k]) = evaluate(key, Call.tag, Call.input)[k]
    BY <1>1, <2>4, <2>5, <2>6, VerifiedRow
  <2> QED BY <1>2, <2>7
<1>9. evaluate(key, Call.tag, Call.input) = [k \in Rows |-> evaluate(key, Call.tag, Call.input)[k]]
  BY DEF evaluate
<1>10. [k \in Rows |-> finalize_row(fin.rows[k], response.rows[k])] = evaluate(key, Call.tag, Call.input)
  BY <1>8, <1>9
<1>11. evaluate(key, Call.tag, Call.input) \in Outputs
  BY <1>1, <1>3 DEF Outputs
<1> QED BY <1>10, <1>11 DEF key

\* The server of the code has a witness for the call in progress, and proves what the client put
\* together for it.
LEMMA HonestCall ==
    ASSUME Inv, stage \in HasCall, honest
    PROVE  /\ OnlineHolds(OnlineHonest(HonestWitness, request), HonestWitness)
           /\ OnlineHonest(HonestWitness, request)
                = [pk |-> KeyCommitment(sk), m |-> fin.statement.m,
                   runs |-> [k \in Rows |->
                      [d |-> fin.statement.runs[k].d, e |-> fin.statement.runs[k].e,
                       b_bar_prime |-> fin.statement.runs[k].b_bar_prime,
                       y |-> blind_eval_one(ServerOf, sk, First, request)[k].y]]]
           /\ \A k \in Rows : blind_eval_one(ServerOf, sk, First, request)[k].ctr = fin.rows[k].ctr
<1> DEFINE v == Len(asked) - 1
           run(k) == fin.statement.runs[k]
           s == OnlineHonest(HonestWitness, request)
           rows == blind_eval_one(ServerOf, sk, First, request)
<1>0. stage \in HasSums /\ stage \in HasPads /\ stage \in HasBlocks /\ stage # "files"
  BY DEF HasBlocks, HasReceived, HasPads, HasBhat, HasSums, HasCall
<1>1. /\ Call \in Calls /\ v \in Evals /\ First = first_run(v)
      /\ MadeLast = request_evaluation(client, First, hash_to_zq_matrix(Call.tag, Call.input))
      /\ \E del : Prepared(del, v, First)
  BY CallInProgress
<1>2. /\ fin.rows = MadeLast.fin /\ request = MadeLast.rows /\ fin.statement.m = m[v]
      /\ \A k \in Rows : /\ run(k).d = d[First + k] /\ run(k).e = MadeLast.rows[k].e
                         /\ run(k).b_bar_prime = MadeLast.rows[k].b_bar_prime
  BY StatementMade
<1>3. PICK bin \in BinaryCoins : r_s = server_r_s(bin)
  BY <1>0 DEF Inv, OtsInv
<1>4. sk \in Sampled
  BY <1>0 DEF Inv, FilesInv, ConnectedInv, PkInv
<1>5. m = HonestSums /\ d = PadsCommitments
  BY <1>0 DEF Inv, SumsInv, PadsInv
<1>6. PICK del : Prepared(del, v, First)
  BY <1>1
<1>7. HonestWitness = OnlineWitness(sk, First, OtPads(First), OtRandomness(First))
  BY DEF HonestWitness
<1>8. s = OnlineHonest(HonestWitness, MadeLast.rows) /\ rows = blind_eval_one(ServerOf, sk, First, MadeLast.rows)
  BY <1>2
<1> HIDE DEF v, s, rows
<1>9. /\ OnlineHolds(s, HonestWitness)
      /\ s = [pk |-> KeyCommitment(sk), m |-> HonestSums[v],
              runs |-> [k \in Rows |->
                 [d |-> PadsCommitments[First + k], e |-> MadeLast.rows[k].e,
                  b_bar_prime |-> MadeLast.rows[k].b_bar_prime, y |-> rows[k].y]]]
      /\ \A k \in Rows : rows[k].ctr = First + k
  <2>1. Call \in Calls /\ MadeLast = request_evaluation(client, First, hash_to_zq_matrix(Call.tag, Call.input))
    BY <1>1
  <2>2. HonestRun(bin, del, v, First, Call, MadeLast, HonestWitness, s)
    BY <1>3, <1>4, <1>6, <1>7, <1>8, <2>1 DEF HonestRun
  <2> QED BY <1>8, <2>2, OnlineComplete
<1>10. s = [pk |-> KeyCommitment(sk), m |-> fin.statement.m,
            runs |-> [k \in Rows |->
               [d |-> run(k).d, e |-> run(k).e, b_bar_prime |-> run(k).b_bar_prime, y |-> rows[k].y]]]
  BY <1>2, <1>5, <1>9
<1>11. \A k \in Rows : rows[k].ctr = fin.rows[k].ctr
  <2>1. ASSUME NEW k \in Rows PROVE MadeLast.fin[k].ctr = First + k
    <3>1. MadeLast = request_evaluation(client, First, hash_to_zq_matrix(Call.tag, Call.input))
      BY <1>1
    <3> QED BY <3>1, RequestRow
  <2> QED BY <1>2, <1>9, <2>1
<1> QED BY <1>9, <1>10, <1>11 DEF s, rows

\* The client accepts the response of the server of the code, as long as no whole key was removed.
LEMMA FinalizeAccepts ==
    ASSUME Inv, stage = "finalize", honest, ~removed
    PROVE  FinalizeOk
<1> DEFINE run(k) == fin.statement.runs[k]
           s == OnlineHonest(HonestWitness, request)
           rows == blind_eval_one(ServerOf, sk, First, request)
<1>0. stage \in HasCall
  BY DEF HasCall
<1>1. /\ s = [pk |-> KeyCommitment(sk), m |-> fin.statement.m,
              runs |-> [k \in Rows |->
                 [d |-> run(k).d, e |-> run(k).e, b_bar_prime |-> run(k).b_bar_prime, y |-> rows[k].y]]]
      /\ \A k \in Rows : rows[k].ctr = fin.rows[k].ctr
  BY <1>0, HonestCall
<1>2. fin.statement.pk = pk /\ pk = KeyCommitment(sk)
  <2>1. fin.statement.pk = pk
    BY <1>0, StatementMade
  <2>2. pk = KeyCommitment(sk)
    BY DEF Inv, FilesInv, ConnectedInv
  <2> QED BY <2>1, <2>2
<1>3. response = [rows |-> rows, proofs |-> <<[of |-> s]>>]
  BY DEF Inv, ResponseInv
<1> HIDE DEF s, rows
<1>4. response.rows = rows /\ response.proofs = <<[of |-> s]>>
  BY <1>3
<1>5. Len(response.proofs) = 1 /\ response.proofs[1] = [of |-> s]
  BY <1>4
<1>6. verify_online(fin.statement, response.rows, response.proofs[1])
  BY <1>1, <1>2, <1>4, <1>5 DEF verify_online, verify
<1> QED BY <1>1, <1>4, <1>5, <1>6 DEF FinalizeOk

\* An evaluation keeps the invariant.
LEMMA CallStep ==
    ASSUME Inv, Request \/ BlindEval \/ AnswerAny \/ Finalize
    PROVE  Inv'
<1> USE DEF HasBlocks, HasReceived, HasPads, HasBhat, HasSums, HasCall
<1>0. /\ FilesInv /\ OtsInv /\ PadsInv /\ BhatInv /\ SumsInv /\ CountInv /\ RequestInv /\ ResponseInv
      /\ VerifiedOutput /\ HonestAccepted
  BY DEF Inv
<1>1. /\ stage \in HasSums /\ stage' \in HasSums \union {"refused"}
      /\ UNCHANGED <<files, honest, r_s, received, d, b_bar, m, proof>>
  BY DEF Request, BlindEval, AnswerAny, Finalize
<1>2. FilesInv' /\ pk' = pk /\ sk' = sk /\ removed' = removed
  BY <1>0, <1>1, FilesKept DEF files
<1>3. OtsInv' /\ PadsInv' /\ BhatInv'
  <2>1. (pads_match' <=> pads_match) /\ PadsCommitments' = PadsCommitments
    BY <1>1 DEF pads_match, PadsCommitments
  <2> QED BY <1>0, <1>1, <1>2, <2>1 DEF OtsInv, PadsInv, BhatInv
<1>4. SumsInv'
  <2>1. HonestSums' = HonestSums /\ (SumsRight(pk.value, m)' <=> SumsRight(pk.value, m))
    BY <1>1, <1>2 DEF HonestSums, SumsRight, SumsOfKey, BlockOf
  <2>2. DOMAIN m = Evals /\ SumsRight(pk.value, m) /\ (honest => m = HonestSums)
    BY <1>0, <1>1 DEF SumsInv
  <2>3. stage' # "finish"
    BY <1>1
  <2> QED BY <1>1, <2>1, <2>2, <2>3 DEF SumsInv
<1>5. /\ asked \in Seq(Calls) /\ outs \in Seq(Outputs) /\ Outputs' = Outputs
      /\ Len(asked) \in Nat /\ Len(outs) \in Nat /\ H_ROWS \in Nat \ {0} /\ Tau \in Nat
      /\ ctr = Len(asked) * H_ROWS /\ ctr <= Tau /\ ctr \in Nat
  <2>1. asked \in Seq(Calls) /\ outs \in Seq(Outputs) /\ ctr = Len(asked) * H_ROWS /\ ctr <= Tau
    BY <1>0 DEF CountInv
  <2>2. Outputs' = Outputs
    BY DEF Outputs, Sampled
  <2>3. Len(asked) \in Nat /\ Len(outs) \in Nat /\ H_ROWS \in Nat \ {0} /\ Tau \in Nat
    BY <2>1, Sizes
  <2> QED BY <2>1, <2>2, <2>3
\* The statement of the call in progress stays, while the call does.
<1>6. ASSUME UNCHANGED <<asked, request, fin>>, stage \in HasCall PROVE RequestInv'
  <2>1. client' = client /\ First' = First
    BY <1>1, <1>6 DEF client, First
  <2>2. MadeLast' = MadeLast
    BY <1>6, <2>1 DEF MadeLast
  <2>3. online_statement(First, MadeLast.rows)' = online_statement(First, MadeLast.rows)
    BY <1>1, <1>2, <2>1, <2>2 DEF online_statement
  <2> QED BY <1>0, <1>6, <2>1, <2>2, <2>3 DEF RequestInv
<1>7. CASE Request
  <2> DEFINE made(call) == request_evaluation(client, ctr, hash_to_zq_matrix(call.tag, call.input))
  <2>1. PICK call \in Calls :
          /\ stage = "request" /\ Tau - ctr >= H_ROWS
          /\ stage' = "eval" /\ ctr' = ctr + H_ROWS
          /\ asked' = Append(asked, call)
          /\ request' = made(call).rows
          /\ fin' = [rows |-> made(call).fin, statement |-> online_statement(ctr, made(call).rows)]
          /\ sctr' = sctr /\ outs' = outs
    BY <1>7 DEF Request
  <2>2. /\ asked' \in Seq(Calls) /\ Len(asked') = Len(asked) + 1
        /\ asked'[Len(asked) + 1] = call /\ \A n \in 1 .. Len(asked) : asked'[n] = asked[n]
    BY <1>5, <2>1
  <2>3. Len(asked) = Len(outs) /\ (honest => sctr = Len(outs) * H_ROWS)
    BY <1>0, <2>1 DEF CountInv
  <2>4. (Len(asked) + 1) * H_ROWS = Len(asked) * H_ROWS + H_ROWS /\ Len(asked) + 1 - 1 = Len(asked)
    BY <1>5
  <2>5. CountInv'
    <3>1. ctr' = Len(asked') * H_ROWS /\ ctr' <= Tau
      BY <1>5, <2>1, <2>2, <2>4
    <3>2. Len(asked') = Len(outs') + 1 /\ Len(outs') <= Len(asked')
      BY <1>5, <2>1, <2>2, <2>3
    <3> QED BY <1>1, <1>5, <2>1, <2>2, <2>3, <3>1, <3>2 DEF CountInv
  <2>6. First' = ctr
    BY <1>5, <2>2, <2>4 DEF First
  <2>7. MadeLast' = made(call)
    <3>1. client' = client
      BY <1>1 DEF client
    <3> QED BY <2>2, <2>6, <3>1 DEF MadeLast
  <2>8. RequestInv'
    <3> HIDE DEF made
    <3>1. online_statement(First, MadeLast.rows)' = online_statement(ctr, made(call).rows)
      BY <1>1, <1>2, <2>6, <2>7 DEF online_statement
    <3> QED BY <2>1, <2>7, <3>1 DEF RequestInv
  <2>9. VerifiedOutput'
    <3> SUFFICES ASSUME NEW n \in DOMAIN outs
                 PROVE  outs[n] = evaluate(pk.value, asked'[n].tag, asked'[n].input)
      BY <1>2, <2>1 DEF VerifiedOutput
    <3>1. n \in 1 .. Len(asked)
      BY <1>5, <2>3
    <3> QED BY <1>0, <2>2, <3>1 DEF VerifiedOutput
  <2>10. ResponseInv' /\ HonestAccepted'
    BY <2>1 DEF ResponseInv, HonestAccepted
  <2> QED BY <1>2, <1>3, <1>4, <2>5, <2>8, <2>9, <2>10 DEF Inv
<1>8. CASE BlindEval
  <2> DEFINE w == OnlineWitness(sk, sctr, OtPads(sctr), OtRandomness(sctr))
             s == OnlineHonest(w, request)
             p == prove(s, OnlineHolds(s, w))
             rows == blind_eval_one([r_s |-> r_s, s_s |-> server_s_s(delta_ot_blocks)], sk, sctr, request)
  <2>1. /\ stage = "eval" /\ honest /\ sctr' = sctr + H_ROWS
        /\ stage' = IF p = NoProof THEN "refused" ELSE "finalize"
        /\ response' = [rows |-> rows, proofs |-> <<p>>]
        /\ UNCHANGED <<ctr, asked, request, fin, outs>>
    BY <1>8 DEF BlindEval
  <2>2. sctr = First /\ sctr + H_ROWS = Len(asked) * H_ROWS /\ Len(asked) = Len(outs) + 1
    <3>1. sctr = Len(outs) * H_ROWS /\ Len(asked) = Len(outs) + 1
      BY <1>0, <2>1 DEF CountInv
    <3>2. (Len(outs) + 1) * H_ROWS = Len(outs) * H_ROWS + H_ROWS /\ Len(outs) + 1 - 1 = Len(outs)
      BY <1>5
    <3> QED BY <3>1, <3>2 DEF First
  <2>3. w = HonestWitness /\ rows = blind_eval_one(ServerOf, sk, First, request)
    BY <2>2 DEF HonestWitness, ServerOf
  <2> HIDE DEF w, rows
  <2>4. /\ OnlineHolds(s, w)
        /\ s = [pk |-> KeyCommitment(sk), m |-> fin.statement.m,
                runs |-> [k \in Rows |->
                   [d |-> fin.statement.runs[k].d, e |-> fin.statement.runs[k].e,
                    b_bar_prime |-> fin.statement.runs[k].b_bar_prime, y |-> rows[k].y]]]
    BY <2>1, <2>3, HonestCall
  <2>5. OnlineRight(s)
    <3>1. \A k \in Rows : OtPads(sctr)[k] = [j \in Zdelta |-> OtPads(sctr)[k][j]]
      BY DEF OtPads
    <3> QED BY <3>1, OnlineProved DEF w
  <2>6. p = [of |-> s] /\ [of |-> s] # NoProof
    BY <2>4, ProofOfNothing DEF prove
  <2> HIDE DEF s, p
  <2>7. stage' = "finalize" /\ response' = [rows |-> rows, proofs |-> <<[of |-> s]>>]
    BY <2>1, <2>6
  <2>8. response'.proofs[1] = [of |-> s] /\ response'.proofs[1].of = s
    BY <2>7
  <2>9. /\ First' = First /\ ServerOf' = ServerOf /\ HonestWitness' = HonestWitness
    <3>1. First' = First /\ ServerOf' = ServerOf
      BY <1>1, <2>1 DEF First, ServerOf
    <3>2. \A key, first, x, r : OnlineWitness(key, first, x, r)' = OnlineWitness(key, first, x, r)
      BY <1>1 DEF OnlineWitness
    <3> QED BY <1>1, <1>2, <3>1 DEF HonestWitness, OnlineWitness, OtPads, OtRandomness
  <2>10. s = OnlineHonest(HonestWitness, request)' /\ rows = blind_eval_one(ServerOf, sk, First, request)'
    BY <1>2, <2>1, <2>3, <2>9 DEF s
  <2>11. ResponseInv'
    BY <2>5, <2>7, <2>8, <2>10 DEF ResponseInv
  <2>12. RequestInv'
    BY <1>6, <2>1
  <2>13. CountInv'
    BY <1>0, <1>1, <1>5, <2>1, <2>2, <2>7 DEF CountInv
  <2>14. VerifiedOutput' /\ HonestAccepted'
    BY <1>0, <1>2, <2>1, <2>7 DEF VerifiedOutput, HonestAccepted
  <2> QED BY <1>2, <1>3, <1>4, <2>11, <2>12, <2>13, <2>14 DEF Inv
<1>9. CASE AnswerAny
  <2>1. PICK key \in {KeyOf[g] : g \in Keygens}, v, u \in Evals, own \in BOOLEAN :
    LET first == first_run(u)
        w == IF own THEN OnlineWitness(key, first_run(v), OtPads(first), OtRandomness(first))
             ELSE OnlineWitness(key, first_run(v), Openings(first, "pad"), Openings(first, "randomness"))
        s == OnlineHonest(w, request)
        y == [k \in Rows |-> s.runs[k].y]
    IN
    /\ stage = "eval" /\ ~honest /\ stage' = "finalize"
    /\ \E ys \in OtherResponses(y), c \in {0, first},
          proofs \in {<<>>, <<prove(s, OnlineHolds(s, w))>>} :
        response' = [rows |-> [k \in Rows |-> [y |-> ys[k], ctr |-> c + k]], proofs |-> proofs]
    /\ UNCHANGED <<files, honest, r_s, received, d, b_bar, m, proof, ctr, sctr, asked, request, fin, outs>>
    BY <1>9, Zenon DEF AnswerAny
  <2> DEFINE first == first_run(u)
             w == IF own THEN OnlineWitness(key, first_run(v), OtPads(first), OtRandomness(first))
                  ELSE OnlineWitness(key, first_run(v), Openings(first, "pad"), Openings(first, "randomness"))
             s == OnlineHonest(w, request)
             y == [k \in Rows |-> s.runs[k].y]
             p == prove(s, OnlineHolds(s, w))
  <2>2. /\ stage = "eval" /\ ~honest /\ stage' = "finalize"
        /\ \E ys \in OtherResponses(y), c \in {0, first}, proofs \in {<<>>, <<p>>} :
            response' = [rows |-> [k \in Rows |-> [y |-> ys[k], ctr |-> c + k]], proofs |-> proofs]
        /\ UNCHANGED <<ctr, sctr, asked, request, fin, outs>>
    BY <2>1, Zenon
  <2>3. OnlineRight(s)
    <3>1. \A k \in Rows : /\ OtPads(first)[k] = [j \in Zdelta |-> OtPads(first)[k][j]]
                          /\ Openings(first, "pad")[k] = [j \in Zdelta |-> Openings(first, "pad")[k][j]]
      BY DEF OtPads, Openings
    <3> HIDE DEF first
    <3>2. CASE own
      BY <3>1, <3>2, OnlineProved
    <3>3. CASE ~own
      BY <3>1, <3>3, OnlineProved
    <3> QED BY <3>2, <3>3
  <2>4. p = NoProof \/ p = [of |-> s]
    BY DEF prove
  <2> HIDE DEF s, w, p, first, y
  <2>0. PICK ys \in OtherResponses(y), c \in {0, first}, proofs \in {<<>>, <<p>>} :
          response' = [rows |-> [k \in Rows |-> [y |-> ys[k], ctr |-> c + k]], proofs |-> proofs]
    BY <2>2, Zenon
  <2>5. proofs \in {<<>>, <<p>>} /\ response'.proofs = proofs
    BY <2>0
  <2>6. Len(proofs) = 1 => proofs = <<p>> /\ proofs[1] = p
    BY <2>5
  <2>7. ResponseInv'
    <3>1. ~honest'
      BY <1>1, <2>2
    <3>2. p = [of |-> s] => p = [of |-> p.of] /\ OnlineRight(p.of)
      BY <2>3
    <3> QED BY <2>4, <2>5, <2>6, <3>1, <3>2 DEF ResponseInv
  <2>8. RequestInv'
    BY <1>6, <2>2
  <2>9. CountInv'
    BY <1>0, <1>1, <1>5, <2>2 DEF CountInv
  <2>10. VerifiedOutput' /\ HonestAccepted'
    BY <1>0, <1>2, <2>2 DEF VerifiedOutput, HonestAccepted
  <2> QED BY <1>2, <1>3, <1>4, <2>7, <2>8, <2>9, <2>10 DEF Inv
<1>10. CASE Finalize
  <2> DEFINE out == [k \in Rows |-> finalize_row(fin.rows[k], response.rows[k])]
  <2>1. /\ stage = "finalize" /\ stage' = (IF FinalizeOk THEN "request" ELSE "refused")
        /\ outs' = IF FinalizeOk THEN Append(outs, out) ELSE outs
        /\ UNCHANGED <<ctr, sctr, asked>>
    BY <1>10 DEF Finalize
  <2>2. FinalizeOk => out = evaluate(pk.value, Call.tag, Call.input) /\ out \in Outputs
    BY <2>1, FinalizeRight
  <2>3. honest /\ ~removed => FinalizeOk
    BY <2>1, FinalizeAccepts
  <2> HIDE DEF out
  <2>4. /\ Len(asked) = Len(outs) + 1 /\ (honest => sctr = Len(asked) * H_ROWS)
    BY <1>0, <2>1 DEF CountInv
  <2>5. CASE FinalizeOk
    <3>1. /\ outs' \in Seq(Outputs) /\ Len(outs') = Len(outs) + 1 /\ outs'[Len(outs) + 1] = out
          /\ \A n \in 1 .. Len(outs) : outs'[n] = outs[n]
      BY <1>5, <2>1, <2>2, <2>5
    <3>2. stage' = "request"
      BY <2>1, <2>5
    <3>3. CountInv'
      BY <1>0, <1>1, <1>5, <2>1, <2>4, <3>1, <3>2 DEF CountInv
    <3>4. VerifiedOutput'
      <4> SUFFICES ASSUME NEW n \in DOMAIN outs'
                   PROVE  outs'[n] = evaluate(pk.value, asked[n].tag, asked[n].input)
        BY <1>2, <2>1 DEF VerifiedOutput
      <4>1. n \in 1 .. Len(outs) \/ n = Len(asked)
        BY <1>5, <2>4, <3>1
      <4>2. CASE n \in 1 .. Len(outs)
        <5>1. n \in DOMAIN outs
          BY <1>5, <4>2
        <5> QED BY <1>0, <3>1, <4>2, <5>1 DEF VerifiedOutput
      <4>3. CASE n = Len(asked)
        BY <2>2, <2>4, <2>5, <3>1, <4>3 DEF Call
      <4> QED BY <4>1, <4>2, <4>3
    <3>5. RequestInv' /\ ResponseInv' /\ HonestAccepted'
      BY <3>2 DEF RequestInv, ResponseInv, HonestAccepted
    <3> QED BY <1>2, <1>3, <1>4, <3>3, <3>4, <3>5 DEF Inv
  <2>6. CASE ~FinalizeOk
    <3>1. stage' = "refused" /\ outs' = outs
      BY <2>1, <2>6
    <3>2. CountInv'
      BY <1>0, <1>1, <1>5, <2>1, <3>1 DEF CountInv
    <3>3. VerifiedOutput'
      BY <1>0, <1>2, <2>1, <3>1 DEF VerifiedOutput
    <3>4. RequestInv' /\ ResponseInv'
      BY <3>1 DEF RequestInv, ResponseInv
    <3>5. HonestAccepted'
      BY <1>1, <1>2, <2>3, <2>6 DEF HonestAccepted
    <3> QED BY <1>2, <1>3, <1>4, <3>2, <3>3, <3>4, <3>5 DEF Inv
  <2> QED BY <2>5, <2>6
<1> QED BY <1>7, <1>8, <1>9, <1>10

\* The invariant is kept by every step.
LEMMA InvStep == Inv /\ [Next]_vars => Inv'
<1> SUFFICES ASSUME Inv, [Next]_vars PROVE Inv'
  OBVIOUS
<1>0. /\ FilesInv /\ OtsInv /\ PadsInv /\ BhatInv /\ SumsInv /\ CountInv /\ RequestInv /\ ResponseInv
      /\ VerifiedOutput /\ HonestAccepted
  BY DEF Inv
<1>1. ASSUME stage = "files", stage' \in {"files", "binary"}, honest' \in BOOLEAN, FilesInv',
             UNCHANGED <<ctr, sctr, asked, outs>>
      PROVE  Inv'
  <2> USE DEF HasBlocks, HasReceived, HasPads, HasBhat, HasSums, HasCall
  <2>1. OtsInv' /\ PadsInv' /\ BhatInv' /\ SumsInv' /\ RequestInv' /\ ResponseInv' /\ HonestAccepted'
    BY <1>1 DEF OtsInv, PadsInv, BhatInv, SumsInv, RequestInv, ResponseInv, HonestAccepted
  <2>2. CountInv'
    <3>1. Outputs' = Outputs
      BY DEF Outputs, Sampled
    <3> QED BY <1>0, <1>1, <3>1 DEF CountInv
  <2>3. VerifiedOutput'
    <3>1. outs' = <<>>
      BY <1>0, <1>1 DEF CountInv
    <3> QED BY <3>1 DEF VerifiedOutput
  <2> QED BY <1>1, <2>1, <2>2, <2>3 DEF Inv
<1>2. CASE Files
  <2>1. FilesInv'
    BY <1>0, <1>2, FilesStep DEF FilesInv
  <2>2. stage = "files" /\ UNCHANGED <<stage, honest, ctr, sctr, asked, outs>>
    BY <1>2 DEF Files, protocol
  <2>3. honest' \in BOOLEAN
    BY <1>0, <2>2 DEF OtsInv
  <2> QED BY <1>1, <2>1, <2>2, <2>3
<1>3. CASE Connect
  <2>1. FilesInv'
    BY <1>0, <1>3, ConnectStep DEF FilesInv
  <2>2. stage = "files" /\ stage' = "binary" /\ honest' \in BOOLEAN /\ UNCHANGED <<ctr, sctr, asked, outs>>
    BY <1>3 DEF Connect
  <2> QED BY <1>1, <2>1, <2>2
<1>4. CASE UNCHANGED vars
  <2>1. /\ UNCHANGED <<path, bytes, pos, file, keygen, pub, pkfile, sk, pk, removed>>
        /\ UNCHANGED <<stage, honest, r_s, received, d, b_bar, m, proof, ctr, sctr, asked, request, fin, response, outs>>
    BY <1>4 DEF vars, files, disk, keys, protocol
  <2>2. KeysInv' /\ PkInv'
    BY <1>0, <2>1 DEF FilesInv, KeysInv, PkInv
  <2>3. SameKeyInv' /\ ConnectedInv'
    BY <1>0, <2>1 DEF FilesInv, SameKeyInv, ConnectedInv, ReadKeyOk, Readable
  <2>4. OtsInv' /\ PadsInv' /\ BhatInv'
    BY <1>0, <2>1 DEF OtsInv, PadsInv, BhatInv, pads_match, PadsCommitments
  <2>5. SumsInv'
    BY <1>0, <2>1 DEF SumsInv, HonestSums, ProvedSums, PreprocessingStatement, SumsRight, SumsOfKey, BlockOf
  <2>6. CountInv' /\ VerifiedOutput' /\ HonestAccepted'
    BY <1>0, <2>1 DEF CountInv, Outputs, Sampled, VerifiedOutput, HonestAccepted
  <2>7. client' = client /\ First' = First
    BY <2>1 DEF client, First
  <2>8. MadeLast' = MadeLast
    BY <2>1, <2>7 DEF MadeLast
  <2>9. RequestInv'
    BY <1>0, <2>1, <2>7, <2>8 DEF RequestInv, online_statement
  <2>10. ServerOf' = ServerOf /\ HonestWitness' = HonestWitness
    BY <2>1, <2>7 DEF ServerOf, HonestWitness, OnlineWitness, OtPads, OtRandomness
  <2>11. ResponseInv'
    BY <1>0, <2>1, <2>7, <2>10 DEF ResponseInv
  <2> QED BY <2>2, <2>3, <2>4, <2>5, <2>6, <2>9, <2>11 DEF Inv, FilesInv
<1> QED BY <1>2, <1>3, <1>4, PreprocessingStep, ProofStep, CallStep DEF Next

----------------------------------------------------------------------------
(* The theorems.                                                           *)

\* The files, the messages and what each side keeps of them belong together in every state: a
\* proof is of sums and pads that the client's own blocks determine (voprf.rs).
THEOREM VoprfInv == Spec => []Inv
<1> QED BY InvInit, InvStep, PTL DEF Spec

\* Whoever answers (verify_online and finish of voprf.rs, receive_pads_commitments), an output that
\* the client accepts is the PRF under the key that pk commits to: for every key, every outcome of
\* the OTs, every d, b_bar, sums and proofs that the model's server may send.
THEOREM VoprfVerified == Spec => []VerifiedOutput
<1>1. Inv => VerifiedOutput
  BY DEF Inv
<1> QED BY <1>1, VoprfInv, PTL

\* The server of the code is never refused as long as no whole key was removed (voprf.rs, main.rs):
\* every proof it makes is of the statement that the client puts together.
THEOREM VoprfHonest == Spec => []HonestAccepted
<1>1. Inv => HonestAccepted
  BY DEF Inv
<1> QED BY <1>1, VoprfInv, PTL

\* A key in use was sampled whole by one keygen (main.rs), for every number of keygens, however
\* they overlap, are killed and write.
THEOREM KeysWhole == Spec => []WholeKeys
<1>1. Inv => WholeKeys
  <2> SUFFICES ASSUME PkInv PROVE WholeKeys
    BY DEF Inv, FilesInv
  <2>1. \A key : KeyCommitment(key).value = key
    BY DEF KeyCommitment, Commit
  <2> QED BY <2>1 DEF PkInv, WholeKeys, Sampled
<1> QED BY <1>1, VoprfInv, PTL
=============================================================================
