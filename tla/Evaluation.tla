----------------------------- MODULE Evaluation -----------------------------
(***************************************************************************)
(* The data of a session, from the OTs to the outputs: preproc_client and  *)
(* preproc_server (pool-oprf/src/preprocessing.rs), then evaluations one   *)
(* after another (request, blind_eval, finalize of online.rs), each row of *)
(* a request packed on the wire (packing.rs).                              *)
(*                                                                         *)
(* OprfSession is about the order of messages, and cancelled and refused   *)
(* calls; here the messages are in step and their content is computed.     *)
(* The peer of a server may be another build: Foreign packs other vectors. *)
(***************************************************************************)
EXTENDS Material, Packing

CONSTANTS
    Evaluations,    \* bound: that both sides preprocess for
    Keys,           \* bound: the server's key
    BinaryCoins,    \* bound: the choices of the binary OTs
    DeltaCoins,     \* bound: the binary choices of the 1-out-of-DELTA OTs
    Calls           \* bound: the tags and inputs of evaluate

Tau == Evaluations * H_ROWS

ASSUME EvaluationAssumption ==
    /\ Evaluations \in Nat \ {0} /\ Q = Pow2(LOG_Q)
    /\ Keys \subseteq [Coords -> Bit]
    /\ BinaryCoins \subseteq [0 .. BINARY_OT_COUNT - 1 -> Bit]
    /\ DeltaCoins \subseteq [0 .. required_binary_ot_count(Tau) - 1 -> Bit]
    /\ Calls \subseteq [tag : Seq(0 .. 255), input : Seq(0 .. 255)] /\ HashesTyped(Tau, Calls)

VARIABLES
    stage,          \* what comes next
    sk,             \* the server's key
    sent, received, \* the outputs of the 1-out-of-DELTA OTs: the server's, the client's
    client, server, \* ClientState and ServerState
    ctr, sctr,      \* the next run of each side
    asked,          \* the calls so far
    request, fin,   \* the rows of the last RequestMessage, and its FinalizeState
    packet,         \* the packed vectors of the request that arrives
    rows,           \* the rows the server read from it
    outs            \* the output of each call that ended

vars == <<stage, sk, sent, received, client, server, ctr, sctr, asked, request, fin, packet, rows, outs>>

None == [none |-> TRUE]

Init ==
    /\ stage = "binary" /\ sk \in Keys
    /\ sent = None /\ received = None /\ client = None /\ server = None
    /\ ctr = 0 /\ sctr = 0 /\ asked = <<>>
    /\ request = None /\ fin = None /\ packet = None /\ rows = None /\ outs = <<>>

----------------------------------------------------------------------------
(* Preprocessing.                                                          *)

\* The binary OTs: the client sends, the server chooses.
BinaryOts == \E choices \in BinaryCoins :
    /\ stage = "binary" /\ stage' = "delta"
    /\ client' = [ot_blocks |-> client_ot_blocks]
    /\ server' = [r_s |-> server_r_s(choices)]
    /\ UNCHANGED <<sk, sent, received, ctr, sctr, asked, request, fin, packet, rows, outs>>

\* The 1-out-of-DELTA OTs: the server sends, the client chooses.
DeltaOts == \E choices \in DeltaCoins :
    /\ stage = "delta" /\ stage' = "bhat"
    /\ sent' = delta_ot_send(OtPairs("delta", required_binary_ot_count(Tau)), Tau)
    /\ received' = delta_ot_receive(OtChosen("delta", choices), choices, Tau)
    /\ UNCHANGED <<sk, client, server, ctr, sctr, asked, request, fin, packet, rows, outs>>

\* The masked key: both states are complete.
SendBhat ==
    /\ stage = "bhat" /\ stage' = "request"
    /\ client' = [ot_blocks |-> client.ot_blocks, bhat |-> masked_key(server.r_s, sk), r_c |-> client_r_c(received)]
    /\ server' = [r_s |-> server.r_s, s_s |-> server_s_s(sent)]
    /\ UNCHANGED <<sk, sent, received, ctr, sctr, asked, request, fin, packet, rows, outs>>

----------------------------------------------------------------------------
(* Evaluations.                                                            *)

serialize_rows(r) == [k \in Rows |-> [e |-> serialize(r[k].e, N), b_bar_prime |-> r[k].b_bar_prime]]

\* request: takes H_ROWS runs, and sends the rows packed.
Request == \E call \in Calls :
    LET made == request_evaluation(client, ctr, hash_to_zq_matrix(call.tag, call.input)) IN
    /\ stage = "request" /\ Tau - ctr >= H_ROWS
    /\ stage' = "arrive" /\ ctr' = ctr + H_ROWS
    /\ asked' = Append(asked, [tag |-> call.tag, input |-> call.input, first_run |-> ctr])
    /\ request' = made.rows /\ fin' = made.fin /\ packet' = serialize_rows(made.rows)
    /\ UNCHANGED <<sk, sent, received, client, server, sctr, rows, outs>>

\* External: what other builds make of the same request: a longer or a shorter vector, or bytes
\* that are one too few or too many.
Resized(e, len) == serialize([i \in 1 .. len |-> e[((i - 1) % N) + 1]], len)
Bytes(p, size) ==
    [count |-> p.count, size |-> size,
     bytes |-> [b \in 0 .. size - 1 |-> IF b < p.size THEN p.bytes[b] ELSE 0]]
ForeignPacks(e, p) ==
    {Resized(e, N + 1), Resized(e, N - 1), Bytes(p, p.size - 1), Bytes(p, p.size + 1)}

\* Another build in the client's place sends its own packing of one row.
Foreign ==
    /\ stage = "arrive" /\ packet = serialize_rows(request)
    /\ \E k \in Rows : \E p \in ForeignPacks(request[k].e, packet[k].e) :
        packet' = [packet EXCEPT ![k] = [e |-> p, b_bar_prime |-> packet[k].b_bar_prime]]
    /\ UNCHANGED <<stage, sk, sent, received, client, server, ctr, sctr, asked, request, fin, rows, outs>>

Readable == \A k \in Rows : DeserializeOk(packet[k].e, N)

\* The server reads the request.
ReceiveRequest ==
    /\ stage = "arrive" /\ Readable
    /\ stage' = "eval"
    /\ rows' = [k \in Rows |-> [e |-> deserialize(packet[k].e, N), b_bar_prime |-> packet[k].b_bar_prime]]
    /\ UNCHANGED <<sk, sent, received, client, server, ctr, sctr, asked, request, fin, packet, outs>>

\* A vector that does not decode is an error of the stream: the server ends.
RefuseRequest ==
    /\ stage = "arrive" /\ ~Readable
    /\ stage' = "refused" /\ packet' = None
    /\ UNCHANGED <<sk, sent, received, client, server, ctr, sctr, asked, request, fin, rows, outs>>

\* blind_eval, and finalize of its response, whose counters must be the request's.
Answer ==
    LET response == blind_eval_one(server, sk, sctr, rows) IN
    /\ stage = "eval" /\ Tau - sctr >= H_ROWS
    /\ sctr' = sctr + H_ROWS
    /\ IF \A k \in Rows : response[k].ctr = fin[k].ctr
       THEN /\ outs' = Append(outs, [k \in Rows |-> finalize_row(fin[k], response[k])])
            /\ stage' = "request"
       ELSE /\ stage' = "refused" /\ UNCHANGED outs
    /\ request' = None /\ fin' = None /\ packet' = None /\ rows' = None
    /\ UNCHANGED <<sk, sent, received, client, server, ctr, asked>>

Next ==
    \/ BinaryOts \/ DeltaOts \/ SendBhat
    \/ Request \/ Foreign \/ ReceiveRequest \/ RefuseRequest \/ Answer

Spec == Init /\ [][Next]_vars

----------------------------------------------------------------------------
(* Properties.                                                             *)

\* The 1-out-of-DELTA OTs (delta_ot.rs): for every run both sides hold something, the receiver
\* the sender's block of its choice; for every other block it lacks a block that was hashed;
\* and no block comes twice, so that no pad of a run tells one of another.
OtsMatch ==
    received # None =>
        /\ DOMAIN sent = 0 .. Tau - 1 /\ DOMAIN received.choices = 0 .. Tau - 1
        /\ \A run \in 0 .. Tau - 1 : \A j \in Zdelta :
            IF j = received.choices[run]
            THEN sent[run][j] = received.blocks[run]
            ELSE \E i \in ChoiceBits : \A other \in 0 .. Tau - 1, n \in ChoiceBits :
                    sent[run][j].blocks[i] # received.blocks[other].blocks[n]
        /\ \A run, other \in 0 .. Tau - 1 : \A j, k \in Zdelta :
            sent[run][j] = sent[other][k] => run = other /\ j = k

\* The bytes of an XOF output that the masks of a call are cut from.
MaskBytes(call) ==
    UNION {{mask_position(call.first_run, k) + b : b \in 0 .. MASK_BYTES - 1} : k \in Rows}

\* No byte of a mask serves two runs (expand): the calls of a session cut theirs from
\* different bytes, H_ROWS * MASK_BYTES for each call, of every block.
MasksFresh ==
    \A x, z \in DOMAIN asked :
        x # z => MaskBytes(asked[x]) \cap MaskBytes(asked[z]) = {}

\* A request the server reads is the client's (packing.rs): the vectors that arrive are those
\* that were sent, and no vector of another length is read as one of N elements.
RequestsArrive ==
    stage = "eval" =>
        /\ rows = request
        /\ \A k \in Rows : packet[k].e.count = N

\* The client ends with the PRF of its tag and input under the server's key (finalize), for
\* every outcome of the OTs.
EvaluationRight ==
    \A n \in DOMAIN outs : outs[n] = evaluate(sk, asked[n].tag, asked[n].input)

\* A value made under one tag is never one of another (hash_to_zq_matrix): two calls hash the
\* same bytes only when they have the same tag and the same input.
TagsSeparate ==
    \A x, z \in DOMAIN asked :
        ro_input(asked[x].tag, asked[x].input) = ro_input(asked[z].tag, asked[z].input)
            => asked[x].tag = asked[z].tag /\ asked[x].input = asked[z].input
=============================================================================
