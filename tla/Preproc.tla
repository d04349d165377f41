------------------------------ MODULE Preproc ------------------------------
(***************************************************************************)
(* One preprocessing: preproc_client_with against preproc_server           *)
(* (pool-oprf/src/preprocessing.rs), with the messages that a VOPRF adds   *)
(* (ClientPreprocessing and ServerPreprocessing, voprf.rs).  Each side may *)
(* fail or be cancelled at every await.  Then the streams that it opened   *)
(* are closed, and if its caller drops the connection (new, session), all  *)
(* of them; the other side sees that when it next reads.  If the           *)
(* connection lives on (renew), a stream that was never opened stays       *)
(* silent.                                                                 *)
(*                                                                         *)
(* Streams are not named on the wire: the n-th that one side opens is the  *)
(* n-th that the other opens, so the model counts how many each opened.    *)
(* The OTs themselves are external: both sides take part and both end with *)
(* matching blocks, or they fail.  A commitment is the number of the       *)
(* evaluation it is to.                                                    *)
(***************************************************************************)
EXTENDS Integers, Sequences

CONSTANTS
    H_ROWS,
    MaxTau      \* bound: the runs that a side asks for

ASSUME PreprocAssumption == H_ROWS \in Nat \ {0} /\ MaxTau \in Nat

VARIABLES
    cpc, cerr, ctau, cvoprf,    \* client: where it is, its error, its tau, it holds a pk
    cc, cd,                     \* client: evaluations whose c it sent, whose d it received
    copened,                    \* client: streams opened
    spc, serr, stau, svoprf, sopened,   \* server: the same
    sc, sd,                     \* server: each c it received, evaluations whose d it sent
    stheirs,                    \* server: the tau in the client's hello
    hello, control,             \* the control stream, either way
    masks, pads, proofs,        \* the streams of a VOPRF
    ots,                        \* how many of the two batches of OTs ran
    cot, sot,                   \* batches whose streams the client, the server opened
    kept,                       \* the callers keep the connection when this fails
    cancelled                   \* history: a side failed or was cancelled on its own

client  == <<cpc, cerr, ctau, cvoprf, cc, cd, copened>>
server  == <<spc, serr, stau, svoprf, sc, sd, sopened, stheirs>>
streams == <<hello, control, masks, pads, proofs>>
links   == <<cot, sot, kept>>
vars    == <<client, server, streams, ots, links, cancelled>>

evaluations_for(runs) == runs \div H_ROWS

ClientEnded == cpc \in {"ready", "failed"}
ServerEnded == spc \in {"ready", "failed"}

Init ==
    /\ cpc = "start" /\ cerr = "none" /\ ctau \in 0 .. MaxTau /\ cvoprf \in BOOLEAN
    /\ cc = 0 /\ cd = 0 /\ copened = 0
    /\ spc = "start" /\ serr = "none" /\ stau \in 0 .. MaxTau /\ svoprf = FALSE
    /\ sc = <<>> /\ sd = 0 /\ sopened = 0 /\ stheirs = 0
    /\ hello = <<>> /\ control = <<>> /\ masks = <<>> /\ pads = <<>> /\ proofs = <<>>
    /\ ots = 0 /\ cot = 0 /\ sot = 0 /\ kept \in BOOLEAN /\ cancelled = FALSE

ClientFails(err) == cpc' = "failed" /\ cerr' = err
ServerFails(err) == spc' = "failed" /\ serr' = err

\* What a side that has failed left closed: the control stream is the third that it opens.
ServerClosedControl == ~kept \/ sopened >= 3
ServerClosedOts(k)  == ~kept \/ sot >= k
ClientClosedControl == ~kept \/ copened >= 3
ClientClosedOts(k)  == ~kept \/ cot >= k

\* The OTs that a side is at, or about to take part in.
Batch(pc) == IF pc = "binary" THEN 1 ELSE 2

----------------------------------------------------------------------------
(* The client.                                                             *)

\* The early returns, then the two sub-connections, the control stream and the hello.
SendHello ==
    /\ cpc = "start"
    /\ \/ ctau = 0 /\ ClientFails("ZeroTau") /\ UNCHANGED <<copened, hello>>
       \/ /\ ctau > 0 /\ cvoprf /\ evaluations_for(ctau) = 0
          /\ ClientFails("VoprfTauTooSmall") /\ UNCHANGED <<copened, hello>>
       \/ /\ ctau > 0 /\ (cvoprf => evaluations_for(ctau) > 0)
          /\ copened' = copened + 3
          /\ hello' = <<[tau |-> ctau, voprf |-> cvoprf]>>
          /\ cpc' = "echo" /\ UNCHANGED cerr
    /\ UNCHANGED <<ctau, cvoprf, cc, cd, server, control, masks, pads, proofs, ots, links, cancelled>>

\* The server's tau; then a VOPRF opens its two streams.
RecvEcho ==
    /\ cpc = "echo" /\ control # <<>>
    /\ control' = Tail(control)
    /\ \/ /\ Head(control) # ctau
          /\ ClientFails("TauMismatch") /\ UNCHANGED copened
       \/ /\ Head(control) = ctau
          /\ copened' = copened + (IF cvoprf THEN 2 ELSE 0)
          /\ cpc' = "binary" /\ UNCHANGED cerr
    /\ UNCHANGED <<ctau, cvoprf, cc, cd, server, hello, masks, pads, proofs, ots, links, cancelled>>

\* send_masks_commitments: c of the next evaluation.
SendMasks ==
    /\ cpc = "masks" /\ cvoprf /\ cc < evaluations_for(ctau)
    /\ masks' = Append(masks, cc + 1)
    /\ cc' = cc + 1
    /\ UNCHANGED <<cpc, cerr, ctau, cvoprf, cd, copened, server, hello, control, pads, proofs, ots, links, cancelled>>

MasksSent ==
    /\ cpc = "masks" /\ (cvoprf => cc = evaluations_for(ctau))
    /\ cpc' = "delta"
    /\ UNCHANGED <<cerr, ctau, cvoprf, cc, cd, copened, server, streams, ots, links, cancelled>>

\* receive_pads_commitments: d of the next evaluation, checked against the client's pads.
RecvPads ==
    /\ cpc = "pads" /\ cvoprf /\ cd < evaluations_for(ctau) /\ pads # <<>>
    /\ pads' = Tail(pads)
    /\ \/ Head(pads) # cd + 1 /\ ClientFails("PadsMismatch") /\ UNCHANGED cd
       \/ Head(pads) = cd + 1 /\ cd' = cd + 1 /\ UNCHANGED <<cpc, cerr>>
    /\ UNCHANGED <<ctau, cvoprf, cc, copened, server, hello, control, masks, proofs, ots, links, cancelled>>

\* The masked key bits, once every d is in.
RecvBhat ==
    /\ cpc = "pads" /\ (cvoprf => cd = evaluations_for(ctau)) /\ control # <<>>
    /\ control' = Tail(control)
    /\ cpc' = IF cvoprf THEN "proof" ELSE "ready"
    /\ UNCHANGED <<cerr, ctau, cvoprf, cc, cd, copened, server, hello, masks, pads, proofs, ots, links, cancelled>>

\* finish: one m for each evaluation, and the proof verifies for the c that the client sent.
FinishBroken ==
    /\ cpc = "proof"
    /\ cpc' = "ready"
    /\ UNCHANGED <<cerr, ctau, cvoprf, cc, cd, copened, server, streams, ots, links, cancelled>>
Finish ==
    /\ cpc = "proof" /\ proofs # <<>>
    /\ proofs' = Tail(proofs)
    /\ \/ Head(proofs) # evaluations_for(ctau) /\ ClientFails("Malformed")
       \/ Head(proofs) = evaluations_for(ctau) /\ cpc' = "ready" /\ UNCHANGED cerr
    /\ UNCHANGED <<ctau, cvoprf, cc, cd, copened, server, hello, control, masks, pads, ots, links, cancelled>>

\* The server is gone, the stream was open and what it sent on it is read.
ServerClosed ==
    /\ spc = "failed"
    /\ \/ cpc = "echo" /\ control = <<>> /\ ServerClosedControl
       \/ cpc \in {"binary", "delta"} /\ ServerClosedOts(Batch(cpc))
       \/ cpc = "pads" /\ cvoprf /\ cd < evaluations_for(ctau) /\ pads = <<>>
       \/ cpc = "pads" /\ (cvoprf => cd = evaluations_for(ctau)) /\ control = <<>>
       \/ cpc = "proof" /\ proofs = <<>>
    /\ ClientFails("UnexpectedClose")
    /\ UNCHANGED <<ctau, cvoprf, cc, cd, copened, server, streams, ots, links, cancelled>>

\* The client's future is dropped, or a send fails.  Its first awaits open the control stream,
\* after the two sub-connections took their numbers, and send the hello.
ClientCancelled ==
    /\ \/ ~ClientEnded /\ cpc # "start" /\ UNCHANGED copened
       \/ /\ cpc = "start" /\ ctau > 0 /\ (cvoprf => evaluations_for(ctau) > 0)
          /\ copened' \in {copened + 2, copened + 3}
    /\ ClientFails("cancelled") /\ cancelled' = TRUE
    /\ UNCHANGED <<ctau, cvoprf, cc, cd, server, streams, ots, links>>

----------------------------------------------------------------------------
(* The server.                                                             *)

\* The early return, then the same streams in the same order.
OpenServer ==
    /\ spc = "start"
    /\ \/ stau = 0 /\ ServerFails("ZeroTau") /\ UNCHANGED sopened
       \/ stau > 0 /\ sopened' = sopened + 3 /\ spc' = "hello" /\ UNCHANGED serr
    /\ UNCHANGED <<client, stau, svoprf, sc, sd, stheirs, streams, ots, links, cancelled>>

\* The hello, and the echo that is sent before anything is checked.
RecvHelloBroken ==
    /\ spc = "hello" /\ hello # <<>>
    /\ hello' = Tail(hello)
    /\ stheirs' = Head(hello).tau /\ svoprf' = Head(hello).voprf
    /\ control' = IF stheirs' = stau THEN Append(control, stau) ELSE control
    /\ spc' = "check"
    /\ UNCHANGED <<client, serr, stau, sc, sd, sopened, masks, pads, proofs, ots, links, cancelled>>
RecvHello ==
    /\ spc = "hello" /\ hello # <<>>
    /\ hello' = Tail(hello)
    /\ stheirs' = Head(hello).tau /\ svoprf' = Head(hello).voprf
    /\ control' = Append(control, stau)
    /\ spc' = "check"
    /\ UNCHANGED <<client, serr, stau, sc, sd, sopened, masks, pads, proofs, ots, links, cancelled>>

\* The checks; then a VOPRF opens its two streams.
CheckTauEager ==
    /\ spc = "check"
    /\ sopened' = sopened + (IF svoprf THEN 2 ELSE 0)
    /\ \/ stheirs # stau /\ ServerFails("TauMismatch")
       \/ stheirs = stau /\ spc' = "binary" /\ UNCHANGED serr
    /\ UNCHANGED <<client, stau, svoprf, sc, sd, stheirs, streams, ots, links, cancelled>>
CheckTau ==
    /\ spc = "check"
    /\ \/ stheirs # stau /\ ServerFails("TauMismatch") /\ UNCHANGED sopened
       \/ /\ stheirs = stau /\ svoprf /\ evaluations_for(stau) = 0
          /\ ServerFails("VoprfTauTooSmall") /\ UNCHANGED sopened
       \/ /\ stheirs = stau /\ (svoprf => evaluations_for(stau) > 0)
          /\ sopened' = sopened + (IF svoprf THEN 2 ELSE 0)
          /\ spc' = "binary" /\ UNCHANGED serr
    /\ UNCHANGED <<client, stau, svoprf, sc, sd, stheirs, streams, ots, links, cancelled>>

\* receive_masks_commitments: c of the next evaluation.
RecvMasks ==
    /\ spc = "masks" /\ svoprf /\ Len(sc) < evaluations_for(stau) /\ masks # <<>>
    /\ masks' = Tail(masks) /\ sc' = Append(sc, Head(masks))
    /\ UNCHANGED <<client, spc, serr, stau, svoprf, sd, sopened, stheirs, hello, control, pads, proofs, ots, links, cancelled>>

\* All of them are in: the v-th is checked against the server's masks of evaluation v.
MasksReceived ==
    /\ spc = "masks" /\ (svoprf => Len(sc) = evaluations_for(stau))
    /\ \/ (\E v \in 1 .. Len(sc) : sc[v] # v) /\ ServerFails("MasksMismatch")
       \/ (\A v \in 1 .. Len(sc) : sc[v] = v) /\ spc' = "delta" /\ UNCHANGED serr
    /\ UNCHANGED <<client, stau, svoprf, sc, sd, sopened, stheirs, streams, ots, links, cancelled>>

\* send_pads_commitments: d of the next evaluation.
SendPads ==
    /\ spc = "pads" /\ svoprf /\ sd < evaluations_for(stau)
    /\ pads' = Append(pads, sd + 1)
    /\ sd' = sd + 1
    /\ UNCHANGED <<client, spc, serr, stau, svoprf, sc, sopened, stheirs, hello, control, masks, proofs, ots, links, cancelled>>

PadsSent ==
    /\ spc = "pads" /\ (svoprf => sd = evaluations_for(stau))
    /\ spc' = "bhat"
    /\ UNCHANGED <<client, serr, stau, svoprf, sc, sd, sopened, stheirs, streams, ots, links, cancelled>>

\* The masked key bits: without a proof to make, the server's state is complete.
SendBhat ==
    /\ spc = "bhat"
    /\ control' = Append(control, stau)
    /\ spc' = IF svoprf THEN "prove" ELSE "ready"
    /\ UNCHANGED <<client, serr, stau, svoprf, sc, sd, sopened, stheirs, hello, masks, pads, proofs, ots, links, cancelled>>

\* prove: m of each evaluation and the proof.
Prove ==
    /\ spc = "prove"
    /\ proofs' = Append(proofs, Len(sc))
    /\ spc' = "ready"
    /\ UNCHANGED <<client, serr, stau, svoprf, sc, sd, sopened, stheirs, hello, control, masks, pads, ots, links, cancelled>>

\* The client is gone, the stream was open and what it sent on it is read.
ClientClosedBroken ==
    /\ cpc = "failed"
    /\ spc = "hello" /\ hello = <<>> /\ ClientClosedControl
    /\ ServerFails("UnexpectedClose")
    /\ UNCHANGED <<client, stau, svoprf, sc, sd, sopened, stheirs, streams, ots, links, cancelled>>
ClientClosed ==
    /\ cpc = "failed"
    /\ \/ spc = "hello" /\ hello = <<>> /\ ClientClosedControl
       \/ spc \in {"binary", "delta"} /\ ClientClosedOts(Batch(spc))
       \/ spc = "masks" /\ svoprf /\ Len(sc) < evaluations_for(stau) /\ masks = <<>>
    /\ ServerFails("UnexpectedClose")
    /\ UNCHANGED <<client, stau, svoprf, sc, sd, sopened, stheirs, streams, ots, links, cancelled>>

\* The server's future is dropped, a send or the proof fails.  Its first await opens the control
\* stream.
ServerCancelled ==
    /\ \/ ~ServerEnded /\ spc # "start" /\ UNCHANGED sopened
       \/ spc = "start" /\ stau > 0 /\ sopened' = sopened + 2
    /\ ServerFails("cancelled") /\ cancelled' = TRUE
    /\ UNCHANGED <<client, stau, svoprf, sc, sd, stheirs, streams, ots, links>>

\* It is dropped, or its send fails, when its last message is on its way: the client gets it.
ServerCancelledLate ==
    /\ \/ spc = "bhat" /\ ~svoprf /\ control' = Append(control, stau) /\ UNCHANGED proofs
       \/ spc = "prove" /\ proofs' = Append(proofs, Len(sc)) /\ UNCHANGED control
    /\ ServerFails("cancelled") /\ cancelled' = TRUE
    /\ UNCHANGED <<client, stau, svoprf, sc, sd, sopened, stheirs, hello, masks, pads, ots, links>>

----------------------------------------------------------------------------
(* The OTs: N binary ones, then tau 1-out-of-DELTA ones.                   *)

\* Each side opens the streams of its sub-connection once it gets there: with the last of them
\* open, the other sees it close.
OpenClientOt ==
    /\ cpc \in {"binary", "delta"} /\ cot < Batch(cpc)
    /\ cot' = cot + 1
    /\ UNCHANGED <<client, server, streams, ots, sot, kept, cancelled>>

OpenServerOt ==
    /\ spc \in {"binary", "delta"} /\ sot < Batch(spc)
    /\ sot' = sot + 1
    /\ UNCHANGED <<client, server, streams, ots, cot, kept, cancelled>>

\* External: the protocol between them.
BinaryOts ==
    /\ cpc = "binary" /\ spc = "binary" /\ cot = 1 /\ sot = 1
    /\ cpc' = "masks" /\ spc' = "masks" /\ ots' = 1
    /\ UNCHANGED <<cerr, ctau, cvoprf, cc, cd, copened, serr, stau, svoprf, sc, sd, sopened, stheirs, streams, links, cancelled>>

DeltaOts ==
    /\ cpc = "delta" /\ spc = "delta" /\ cot = 2 /\ sot = 2
    /\ cpc' = "pads" /\ spc' = "pads" /\ ots' = 2
    /\ UNCHANGED <<cerr, ctau, cvoprf, cc, cd, copened, serr, stau, svoprf, sc, sd, sopened, stheirs, streams, links, cancelled>>

Next ==
    \/ SendHello \/ RecvEcho \/ SendMasks \/ MasksSent \/ RecvPads \/ RecvBhat \/ Finish
    \/ ServerClosed \/ ClientCancelled
    \/ OpenServer \/ RecvHello \/ CheckTau \/ RecvMasks \/ MasksReceived
    \/ SendPads \/ PadsSent \/ SendBhat \/ Prove
    \/ ClientClosed \/ ServerCancelled \/ ServerCancelledLate
    \/ OpenClientOt \/ OpenServerOt \/ BinaryOts \/ DeltaOts

Spec == Init /\ [][Next]_vars

(* Fairness.  The runtime polls what is ready on both sides, the OTs run to  *)
(* their end, and a close arrives of the streams that were open or, with the *)
(* connection dropped, of all.  Nobody is ever cancelled by necessity.       *)
FairSpec ==
    /\ Spec
    /\ WF_vars(SendHello) /\ WF_vars(RecvEcho) /\ WF_vars(SendMasks) /\ WF_vars(MasksSent) /\ WF_vars(RecvPads)
    /\ WF_vars(RecvBhat) /\ WF_vars(Finish) /\ WF_vars(ServerClosed)
    /\ WF_vars(OpenServer) /\ WF_vars(RecvHello) /\ WF_vars(CheckTau) /\ WF_vars(RecvMasks)
    /\ WF_vars(MasksReceived) /\ WF_vars(SendPads) /\ WF_vars(PadsSent) /\ WF_vars(SendBhat) /\ WF_vars(Prove)
    /\ WF_vars(ClientClosed)
    /\ WF_vars(OpenClientOt) /\ WF_vars(OpenServerOt) /\ WF_vars(BinaryOts) /\ WF_vars(DeltaOts)

----------------------------------------------------------------------------
(* Properties.                                                             *)

\* A client that has its state shares it with a server that got to the end with the same tau and
\* the same mode, after both batches of OTs, and in a VOPRF it holds a commitment and a verified
\* sum for every evaluation that the runs can pay for.
Agreement ==
    cpc = "ready" =>
        /\ stau = ctau /\ svoprf = cvoprf /\ ots = 2
        /\ spc = "ready" \/ serr = "cancelled"
        /\ cvoprf => cd = evaluations_for(ctau) /\ Len(sc) = cd

\* "a disagreement is rejected before any OT runs": unless a side is cancelled, two sides that
\* ask for different numbers of runs both report TauMismatch, neither sees a dropped connection
\* instead, and no OT runs.
MismatchReported ==
    (ctau # stau /\ stau > 0 /\ copened > 0) =>
        /\ ots = 0
        /\ ~cancelled =>
              /\ cpc = "failed" => cerr = "TauMismatch"
              /\ spc = "failed" => serr = "TauMismatch"

\* After a preprocessing that nobody cancelled, in which both sides got past their own checks,
\* both opened the same number of streams, so that the next ones pair up again.
StreamsInStep ==
    (~cancelled /\ ClientEnded /\ ServerEnded /\ copened > 0 /\ sopened > 0) => copened = sopened

\* What the caller of each side has got.
Result(pc, err) ==
    IF pc = "ready" THEN "state"
    ELSE IF pc = "failed" THEN IF err = "TauMismatch" THEN "mismatch" ELSE "failed"
    ELSE "none"

\* The server's last message left: the masked key bits, or in a VOPRF the sums and their proof.
LastSent ==
    /\ ots = 2
    /\ \/ spc = "ready" \/ cpc = "ready"
       \/ (IF svoprf THEN proofs ELSE control) # <<>>

Renewed == INSTANCE Renewal WITH
    casked <- ctau, sasked <- stau,
    cres <- Result(cpc, cerr), sres <- Result(spc, serr),
    exchanged <- (ots = 2), sent <- LastSent

\* Every step of hello and echo, the OTs and a VOPRF's commitments, sums and proof is one of
\* Renewal or unseen by the sessions on top: in no order of messages, failures and closed streams
\* does a client get its state before the server's last message left, or a server before both
\* exchanged all of theirs, and neither reports a mismatch that is none.
ImplementsRenewal == Renewed!Spec

\* A side that waits for the other to open a stream, which has failed before that and whose
\* connection lives on.
ClientStranded ==
    /\ kept /\ spc = "failed"
    /\ \/ cpc = "echo" /\ control = <<>> /\ sopened < 3
       \/ cpc \in {"binary", "delta"} /\ sot < Batch(cpc)

ServerStranded ==
    /\ kept /\ cpc = "failed"
    /\ \/ spc = "hello" /\ hello = <<>> /\ copened < 3
       \/ spc \in {"binary", "delta"} /\ cot < Batch(spc)

\* A side was dropped, or returned before it opened a stream.
GaveUp == cancelled \/ {cerr, serr} \intersect {"ZeroTau", "VoprfTauTooSmall"} # {}

\* Both sides end, whoever fails or is cancelled and wherever the other then waits.  The exception
\* is a renewal that one side gave up: the other may wait for a stream that never opens, until it
\* or the connection is dropped.  A mismatch strands nobody, nor does a failure after both batches
\* of OTs have begun on both sides.
BothEnd == <>(\/ ClientEnded /\ ServerEnded
              \/ GaveUp /\ (ClientStranded \/ ServerStranded))
=============================================================================
