-------------------------------- MODULE Psi --------------------------------
(***************************************************************************)
(* One private set intersection: PsiClient::new and intersect              *)
(* (pool-psi/src/client.rs) against PsiServer::session and serve_masked    *)
(* (server.rs), over the two messages of transport.rs and the requests of  *)
(* the OPRF session below them, and the timeouts that pool-psi-cli puts    *)
(* around both.                                                            *)
(*                                                                         *)
(* The OPRF is what module OprfSession shows it to be: the answer to a     *)
(* batch is the PRF of that batch, for as long as the budget lasts.  The   *)
(* PRF is an injective function of tag and element, here the pair itself.  *)
(* The number of requests is never sent: each side derives it from the set *)
(* size and from what it takes to be the largest batch.                    *)
(***************************************************************************)
EXTENDS Integers, Sequences, FiniteSets, SequencesExt

CONSTANTS
    Elements, Tags,
    MAX_BATCH_EVALUATIONS, MAX_VOPRF_BATCH_EVALUATIONS,
    MAX_CLIENT_SET,     \* in the client's build
    MAX_CLIENT_SET_S,   \* in the server's build
    MAX_SERVER_SET,     \* in the client's build
    MAX_SERVER_SET_S,   \* in the server's build
    MaxLen              \* bound: length of the client's set

ASSUME PsiAssumption ==
    /\ MAX_BATCH_EVALUATIONS \in Nat \ {0} /\ MAX_VOPRF_BATCH_EVALUATIONS \in Nat \ {0}
    /\ MAX_CLIENT_SET \in Nat /\ MAX_CLIENT_SET_S \in Nat
    /\ MAX_SERVER_SET \in Nat /\ MAX_SERVER_SET_S \in Nat
    /\ MaxLen \in Nat

VARIABLES
    cpc, voprf,         \* client: where it is; it was made with new_voprf
    set_size, set,      \* client: the size it announced, the set it looks up
    recvd,              \* client: the server's masked set, once received
    outputs, result,    \* client: OPRF outputs so far, indices of the intersection
    cleft,              \* client: evaluations left
    spc, svoprf,        \* server: where it is; the client's hello asked for a VOPRF
    sset, mtag, stag,   \* server: its set, the tag it was masked under, the tag it serves it with
    ssize, sleft,       \* server: the announced size, evaluations left
    served,             \* server: requests answered
    sizes, sets, reqs, resps,   \* the streams
    clean               \* history: nobody refused, failed alone, gave up or lost a message

client  == <<cpc, voprf, set_size, set, recvd, outputs, result, cleft>>
server  == <<spc, svoprf, sset, mtag, stag, ssize, sleft, served>>
streams == <<sizes, sets, reqs, resps>>
vars    == <<client, server, streams, clean>>

ClientEnds == {"done", "failed"}
ServerEnds == {"done", "failed"}

----------------------------------------------------------------------------
(* protocol.rs, and the batch limits of the OPRF session.                  *)

PRF(tag, x) == <<tag, x>>

max_batch_evaluations(v) == IF v THEN MAX_VOPRF_BATCH_EVALUATIONS ELSE MAX_BATCH_EVALUATIONS

requests_forBroken(n, batch) == n \div batch
requests_for(n, batch) == (n + batch - 1) \div batch

mask_server_set(tag, s) == {PRF(tag, x) : x \in s}

intersectBroken(outs, masked) == {k \in 0 .. Len(outs) - 1 : outs[k + 1] \in masked}
intersect(outs, masked) == {k \in 1 .. Len(outs) : outs[k] \in masked}

NoSet == [tag |-> "none", elements |-> {}]

Init ==
    /\ cpc = "start" /\ voprf \in BOOLEAN
    /\ set_size = 0 /\ set = <<>> /\ recvd = NoSet /\ outputs = <<>> /\ result = {} /\ cleft = 0
    /\ spc = "start" /\ svoprf = FALSE
    /\ sset \in SUBSET Elements /\ mtag \in Tags /\ stag \in Tags
    /\ ssize = 0 /\ sleft = 0 /\ served = 0
    /\ sizes = <<>> /\ sets = <<>> /\ reqs = <<>> /\ resps = <<>>
    /\ clean = TRUE

----------------------------------------------------------------------------
(* The client.                                                             *)

\* PsiClient::new: the size is checked, then announced.
New(n) ==
    /\ cpc = "start"
    /\ set_size' = n
    /\ \/ /\ n = 0 \/ n > MAX_CLIENT_SET
          /\ cpc' = "failed" /\ clean' = FALSE
          /\ UNCHANGED sizes
       \/ /\ n > 0 /\ n <= MAX_CLIENT_SET
          /\ sizes' = Append(sizes, n)
          /\ cpc' = "preproc"
          /\ UNCHANGED clean
    /\ UNCHANGED <<voprf, set, recvd, outputs, result, cleft, server, sets, reqs, resps>>

\* Preprocessing ends for the client with the server's last message, which the server sent
\* before it had evaluations to serve.
ClientPreprocessed ==
    /\ cpc = "preproc" /\ sleft > 0
    /\ cpc' = "ready" /\ cleft' = set_size
    /\ UNCHANGED <<voprf, set_size, set, recvd, outputs, result, server, streams, clean>>

\* intersect: a set of another size is refused, and the session is dropped.
Intersect(s) ==
    /\ cpc = "ready"
    /\ set' = s
    /\ \/ Len(s) # set_size /\ cpc' = "failed" /\ clean' = FALSE
       \/ Len(s) = set_size /\ cpc' = "receiving" /\ UNCHANGED clean
    /\ UNCHANGED <<voprf, set_size, recvd, outputs, result, cleft, server, streams>>

\* recv_set.
RecvSet ==
    /\ cpc = "receiving" /\ sets # <<>>
    /\ recvd' = Head(sets) /\ sets' = Tail(sets)
    /\ \/ /\ Cardinality(Head(sets).elements) > MAX_SERVER_SET
          /\ cpc' = "failed" /\ clean' = FALSE
       \/ /\ Cardinality(Head(sets).elements) <= MAX_SERVER_SET
          /\ cpc' = "batching" /\ UNCHANGED clean
    /\ UNCHANGED <<voprf, set_size, set, outputs, result, cleft, server, sizes, reqs, resps>>

\* The next of set.chunks(max_batch_evaluations).
Chunk ==
    LET from == Len(outputs) + 1
        n    == max_batch_evaluations(voprf)
    IN  SubSeq(set, from, IF from + n - 1 < Len(set) THEN from + n - 1 ELSE Len(set))

\* evaluate_batch pays for a batch and sends it, or finds the budget spent.
SendBatch ==
    /\ cpc = "batching" /\ Len(outputs) < Len(set)
    /\ \/ /\ Len(Chunk) <= cleft
          /\ cleft' = cleft - Len(Chunk)
          /\ reqs' = Append(reqs, [tag |-> recvd.tag, inputs |-> Chunk])
          /\ cpc' = "awaiting"
       \/ /\ Len(Chunk) > cleft
          /\ cpc' = "failed"
          /\ UNCHANGED <<cleft, reqs>>
    /\ UNCHANGED <<voprf, set_size, set, recvd, outputs, result, server, sizes, sets, resps, clean>>

\* The outputs come back in the order of the batch.
RecvOutputsBroken ==
    /\ cpc = "awaiting" /\ resps # <<>>
    /\ outputs' = Head(resps) \o outputs /\ resps' = Tail(resps)
    /\ cpc' = "batching"
    /\ UNCHANGED <<voprf, set_size, set, recvd, result, cleft, server, sizes, sets, reqs, clean>>
RecvOutputs ==
    /\ cpc = "awaiting" /\ resps # <<>>
    /\ outputs' = outputs \o Head(resps) /\ resps' = Tail(resps)
    /\ cpc' = "batching"
    /\ UNCHANGED <<voprf, set_size, set, recvd, result, cleft, server, sizes, sets, reqs, clean>>

\* Every batch is evaluated; the client returns and is dropped.
ReturnIntersection ==
    /\ cpc = "batching" /\ Len(outputs) = Len(set)
    /\ result' = intersect(outputs, recvd.elements)
    /\ cpc' = "done"
    /\ UNCHANGED <<voprf, set_size, set, recvd, outputs, cleft, server, streams, clean>>

\* The server is gone and what it sent is read: UnexpectedClose.
ServerGone ==
    /\ spc \in ServerEnds
    /\ \/ cpc = "preproc" /\ spc = "failed"
       \/ cpc = "receiving" /\ sets = <<>>
       \/ cpc = "awaiting" /\ resps = <<>>
    /\ cpc' = "failed"
    /\ UNCHANGED <<voprf, set_size, set, recvd, outputs, result, cleft, server, streams, clean>>

\* lookup's timeout, or preprocessing fails at the client.
ClientGivesUp ==
    /\ cpc \notin ClientEnds \union {"start"}
    /\ cpc' = "failed" /\ clean' = FALSE
    /\ UNCHANGED <<voprf, set_size, set, recvd, outputs, result, cleft, server, streams>>

----------------------------------------------------------------------------
(* The server.                                                             *)

\* PsiServer::session: the announced size is checked, preprocessing starts.
RecvSize ==
    /\ spc = "start" /\ sizes # <<>>
    /\ sizes' = Tail(sizes) /\ ssize' = Head(sizes)
    /\ \/ /\ Head(sizes) = 0 \/ Head(sizes) > MAX_CLIENT_SET_S
          /\ spc' = "failed" /\ clean' = FALSE
       \/ /\ Head(sizes) > 0 /\ Head(sizes) <= MAX_CLIENT_SET_S
          /\ spc' = "preproc" /\ UNCHANGED clean
    /\ UNCHANGED <<client, svoprf, sset, mtag, stag, sleft, served, sets, reqs, resps>>

\* Preprocessing ends: the session is a VOPRF if the client's hello asked for one.
ServerPreprocessed ==
    /\ spc = "preproc" /\ cpc = "preproc"
    /\ spc' = "ready" /\ svoprf' = voprf /\ sleft' = ssize
    /\ UNCHANGED <<client, sset, mtag, stag, ssize, served, streams, clean>>

\* serve_masked: the set is sent.
SendSet ==
    /\ spc = "ready"
    /\ \/ /\ Cardinality(sset) > MAX_SERVER_SET_S
          /\ spc' = "failed" /\ clean' = FALSE
          /\ UNCHANGED sets
       \/ /\ Cardinality(sset) <= MAX_SERVER_SET_S
          /\ sets' = Append(sets, [tag |-> stag, elements |-> mask_server_set(mtag, sset)])
          /\ spc' = "serving"
          /\ UNCHANGED clean
    /\ UNCHANGED <<client, svoprf, sset, mtag, stag, ssize, sleft, served, sizes, reqs, resps>>

\* The requests serve_masked expects.
ExpectedBroken == requests_for(ssize, MAX_BATCH_EVALUATIONS)
Expected == requests_for(ssize, max_batch_evaluations(svoprf))

\* serve_next, one of the expected times: the batch is evaluated and answered.
ServeNext ==
    /\ spc = "serving" /\ served < Expected /\ reqs # <<>>
    /\ reqs' = Tail(reqs) /\ served' = served + 1
    /\ LET inputs == Head(reqs).inputs
           n      == Len(inputs)
       IN  \/ /\ n <= sleft /\ n <= max_batch_evaluations(svoprf)
              /\ sleft' = sleft - n
              /\ resps' = Append(resps, [k \in 1 .. n |-> PRF(Head(reqs).tag, inputs[k])])
              /\ UNCHANGED spc
           \/ /\ n > sleft \/ n > max_batch_evaluations(svoprf)
              /\ spc' = "failed"
              /\ UNCHANGED <<sleft, resps>>
    /\ UNCHANGED <<client, svoprf, sset, mtag, stag, ssize, sizes, sets, clean>>

\* serve_masked returns after the last of them.
Served ==
    /\ spc = "serving" /\ served = Expected
    /\ spc' = "done"
    /\ UNCHANGED <<client, svoprf, sset, mtag, stag, ssize, sleft, served, streams, clean>>

\* The client is gone and what it sent is read: UnexpectedClose.
ClientGoneBroken ==
    /\ cpc \in ClientEnds
    /\ spc \in {"start", "preproc"} /\ sizes = <<>>
    /\ spc' = "failed"
    /\ UNCHANGED <<client, svoprf, sset, mtag, stag, ssize, sleft, served, streams, clean>>
ClientGone ==
    /\ cpc \in ClientEnds
    /\ \/ spc \in {"start", "preproc"} /\ sizes = <<>>
       \/ spc = "serving" /\ served < Expected /\ reqs = <<>>
    /\ spc' = "failed"
    /\ UNCHANGED <<client, svoprf, sset, mtag, stag, ssize, sleft, served, streams, clean>>

\* serve's session timeout, or preprocessing or a proof fails at the server.
ServerGivesUp ==
    /\ spc \notin ServerEnds \union {"start"}
    /\ spc' = "failed" /\ clean' = FALSE
    /\ UNCHANGED <<client, svoprf, sset, mtag, stag, ssize, sleft, served, streams>>

\* External: of what a side sent before it closed, a prefix may be all that arrives.
Lose ==
    /\ \/ /\ spc \in ServerEnds
          /\ \/ sets # <<>> /\ sets' = Front(sets) /\ UNCHANGED resps
             \/ resps # <<>> /\ resps' = Front(resps) /\ UNCHANGED sets
          /\ UNCHANGED <<sizes, reqs>>
       \/ /\ cpc \in ClientEnds
          /\ \/ sizes # <<>> /\ sizes' = Front(sizes) /\ UNCHANGED reqs
             \/ reqs # <<>> /\ reqs' = Front(reqs) /\ UNCHANGED sizes
          /\ UNCHANGED <<sets, resps>>
    /\ clean' = FALSE
    /\ UNCHANGED <<client, server>>

----------------------------------------------------------------------------
Inputs == UNION {[1 .. n -> Elements] : n \in 0 .. MaxLen}

ClientStep ==
    \/ \E n \in 0 .. MaxLen : New(n)
    \/ ClientPreprocessed
    \/ \E s \in Inputs : Intersect(s)
    \/ RecvSet \/ SendBatch \/ RecvOutputs \/ ReturnIntersection
    \/ ServerGone \/ ClientGivesUp

ServerStep ==
    \/ RecvSize \/ ServerPreprocessed \/ SendSet \/ ServeNext \/ Served
    \/ ClientGone \/ ServerGivesUp

Next == ClientStep \/ ServerStep \/ Lose

Spec == Init /\ [][Next]_vars

(* Fairness.  The runtime polls what is ready, on both sides, and lookup     *)
(* calls intersect right after new.  Nobody has to give up, and no message   *)
(* has to be lost.                                                           *)
FairSpec ==
    /\ Spec
    /\ WF_vars(ClientPreprocessed) /\ WF_vars(\E s \in Inputs : Intersect(s))
    /\ WF_vars(RecvSet) /\ WF_vars(SendBatch) /\ WF_vars(RecvOutputs)
    /\ WF_vars(ReturnIntersection) /\ WF_vars(ServerGone)
    /\ WF_vars(RecvSize) /\ WF_vars(ServerPreprocessed) /\ WF_vars(SendSet)
    /\ WF_vars(ServeNext) /\ WF_vars(Served) /\ WF_vars(ClientGone)

----------------------------------------------------------------------------
(* Properties.                                                             *)

\* Every variable has its type.
TypeOK ==
    /\ cpc \in {"start", "preproc", "ready", "receiving", "batching", "awaiting", "done", "failed"}
    /\ spc \in {"start", "preproc", "ready", "serving", "done", "failed"}
    /\ set_size \in 0 .. MaxLen /\ ssize \in 0 .. MaxLen
    /\ set \in Inputs /\ result \subseteq 1 .. MaxLen
    /\ cleft \in 0 .. MaxLen /\ sleft \in 0 .. MaxLen /\ served \in 0 .. MaxLen
    /\ Len(outputs) <= Len(set)
    /\ voprf \in BOOLEAN /\ svoprf \in BOOLEAN /\ clean \in BOOLEAN

\* What intersect returns are the indices, duplicates included, of exactly the entries that the
\* server's set holds; a set that was masked under another tag gives an empty intersection.
IntersectionRight ==
    cpc = "done" =>
        result = {k \in 1 .. Len(set) : mtag = stag /\ set[k] \in sset}

\* serve_masked returns without an error only when the client spent all it was preprocessed for.
SpentWhenServed == spc = "done" => sleft = 0

\* The two derivations of the number of requests agree, in both modes and for a last batch that
\* is not full: when nobody refuses, gives up or loses a message, neither side fails.
CleanRunSucceeds == clean => cpc # "failed" /\ spc # "failed"

\* Neither side is left waiting for the other: whoever ends, for whatever reason, the other ends.
BothEnd == cpc # "start" ~> (cpc \in ClientEnds /\ spc \in ServerEnds)
=============================================================================
