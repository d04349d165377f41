----------------------------- MODULE PsiProofs -----------------------------
(***************************************************************************)
(* Proofs about Psi: for every set, tag, pair of builds and batch limit,   *)
(* the intersection is right, a server that returns was asked for all that *)
(* it preprocessed, and a run in which nobody refuses, gives up or loses a *)
(* message succeeds on both sides.                                         *)
(* Then about PsiServe: permits are conserved, for any number of sessions. *)
(***************************************************************************)
EXTENDS Psi, PsiServe, SequenceTheorems, FiniteSetTheorems, TLAPS

----------------------------------------------------------------------------
(* The inductive invariant.                                                *)

\* The client's largest batch, and what is left of n evaluations after k full batches.
B == max_batch_evaluations(voprf)
Rest(n, k) == IF n <= k * B THEN 0 ELSE n - k * B

\* The message of serve_masked, the OPRF outputs of the first m entries of the set, the request
\* of evaluate_batch and the server's answer to it.
Masked  == [tag |-> stag, elements |-> mask_server_set(mtag, sset)]
Out(m)  == [k \in 1 .. m |-> PRF(stag, set[k])]
Request == [tag |-> stag, inputs |-> Chunk]
Answer  == [k \in 1 .. Len(Chunk) |-> PRF(stag, Chunk[k])]

ClientPcs == {"start", "preproc", "ready", "receiving", "batching", "awaiting", "done", "failed"}
ServerPcs == {"start", "preproc", "ready", "serving", "done", "failed"}
Early     == {"start", "preproc", "ready", "receiving"}     \* no request was sent yet
Mapped    == {"batching", "awaiting", "done"}               \* the masked set is there

\* Types that the actions rely on.
Types ==
    /\ cpc \in ClientPcs /\ spc \in ServerPcs
    /\ voprf \in BOOLEAN /\ svoprf \in BOOLEAN /\ clean \in BOOLEAN
    /\ set_size \in 0 .. MaxLen /\ ssize \in 0 .. MaxLen
    /\ cleft \in 0 .. MaxLen /\ sleft \in 0 .. MaxLen /\ served \in 0 .. MaxLen
    /\ set \in Seq(Elements) /\ Len(set) \in 0 .. MaxLen

\* The announced size: it is in flight, or the server has it.
SizeInv ==
    /\ sizes \in {<<>>, <<set_size>>}
    /\ sizes # <<>> => spc = "start"
    /\ cpc = "start" => spc = "start" /\ sizes = <<>>
    /\ cpc \notin {"start", "failed"} => set_size > 0
    /\ spc \in {"start", "preproc"} => sleft = 0 /\ served = 0
    /\ spc = "preproc" => ssize = set_size /\ ssize > 0

\* The server's side of a preprocessed session: size and mode are the client's, and what is left
\* is what the requests served so far, full but for the last, have not used.
Agreed ==
    /\ ssize = set_size /\ ssize > 0 /\ svoprf = voprf
    /\ sleft = Rest(ssize, served)
    /\ served > 0 => (served - 1) * B < ssize

SessionInv ==
    /\ \/ spc \in {"ready", "serving", "done"} \/ sleft > 0 \/ reqs # <<>>
       \/ cpc \in {"ready", "receiving"} \union Mapped
       => Agreed
    /\ spc = "ready" => served = 0
    /\ spc = "done" => served = Expected

\* The masked set: it is sent once, after preprocessing, and the client has it before it asks.
SetInv ==
    /\ sets \in {<<>>, <<Masked>>}
    /\ spc \in {"start", "preproc", "ready"} => sets = <<>>
    /\ cpc \in {"ready", "receiving"} => spc \notin {"start", "preproc"} /\ cleft = set_size
    /\ cpc \in Mapped => spc \notin {"start", "preproc", "ready"} /\ recvd = Masked
    /\ cpc \in {"receiving"} \union Mapped => Len(set) = set_size

\* The outputs so far are those of a prefix of the set.
OutputsInv == Len(outputs) \in 0 .. Len(set) /\ outputs = Out(Len(outputs))

\* A request in flight is the one for the chunk after the outputs, and the server is at it.
RequestInv ==
    /\ reqs \in {<<>>, <<Request>>}
    /\ reqs # <<>> => /\ cpc \in {"awaiting", "failed"} /\ Len(set) = set_size
                      /\ Len(outputs) < Len(set) /\ Len(outputs) = served * B

\* Where the batches are: one is asked for at a time.
BatchInv ==
    /\ cpc \in Early => reqs = <<>> /\ resps = <<>> /\ outputs = <<>> /\ served = 0
    /\ cpc = "batching" => /\ reqs = <<>> /\ resps = <<>>
                           /\ cleft = Rest(set_size, served) /\ Len(outputs) = set_size - cleft
    /\ cpc = "awaiting" =>
          /\ Len(outputs) < set_size /\ cleft = set_size - Len(outputs) - Len(Chunk)
          /\ \/ reqs = <<Request>> /\ resps = <<>> /\ Len(outputs) = served * B
             \/ reqs = <<>> /\ resps = <<Answer>> /\ served > 0 /\ Len(outputs) = (served - 1) * B
             \/ reqs = <<>> /\ resps = <<>> /\ ~clean
    /\ cpc = "done" => /\ reqs = <<>> /\ Rest(set_size, served) = 0

\* What was returned is what intersect computes.
ResultInv ==
    /\ result \subseteq 1 .. MaxLen
    /\ IntersectionRight

\* Every part.
Inv == /\ Types /\ SizeInv /\ SessionInv /\ SetInv /\ OutputsInv
       /\ RequestInv /\ BatchInv /\ ResultInv /\ CleanRunSucceeds

----------------------------------------------------------------------------
(* Sizes and chunks.                                                       *)

\* The limit on a batch is positive.
LEMMA BatchPositive ==
    ASSUME voprf \in BOOLEAN
    PROVE  B \in Nat \ {0}
  BY PsiAssumption DEF B, max_batch_evaluations

\* requests_for rounds up.
LEMMA RequestsFor ==
    ASSUME NEW n \in Nat, NEW b \in Nat \ {0}
    PROVE  /\ requests_for(n, b) \in Nat
           /\ requests_for(n, b) * b >= n
           /\ requests_for(n, b) * b < n + b
  BY DEF requests_for

\* k requests of b evaluations are fewer than requests_for(n, b) if and only if some of n are left.
LEMMA RequestsLeft ==
    ASSUME NEW n \in Nat, NEW b \in Nat \ {0}, NEW k \in Nat
    PROVE  k < requests_for(n, b) <=> k * b < n
<1> DEFINE q == requests_for(n, b)
<1>1. q \in Nat /\ q * b >= n /\ q * b < n + b
  BY RequestsFor
<1> HIDE DEF q
<1>2. CASE k < q
  <2>1. (k + 1) * b <= q * b
    BY <1>1, <1>2
  <2>2. (k + 1) * b = k * b + b /\ k * b \in Nat /\ q * b \in Nat
    BY <1>1
  <2>3. k * b < n
    BY <2>1, <2>2, <1>1
  <2> QED BY <2>3, <1>2 DEF q
<1>3. CASE k >= q
  <2>1. k * b >= q * b /\ k * b \in Nat /\ q * b \in Nat
    BY <1>1, <1>3
  <2>2. ~(k * b < n)
    BY <2>1, <1>1
  <2> QED BY <2>2, <1>1, <1>3 DEF q
<1> QED BY <1>1, <1>2, <1>3

\* The next chunk: full, or the rest of the set.
LEMMA NextChunk ==
    ASSUME Types, OutputsInv, Len(outputs) < Len(set)
    PROVE  /\ Len(Chunk) = IF Len(outputs) + B < Len(set) THEN B ELSE Len(set) - Len(outputs)
           /\ Len(Chunk) \in 1 .. B /\ Len(Chunk) <= Len(set) - Len(outputs)
           /\ \A k \in 1 .. Len(Chunk) : Chunk[k] = set[Len(outputs) + k]
<1> DEFINE m == Len(outputs)
           j == IF m + 1 + B - 1 < Len(set) THEN m + 1 + B - 1 ELSE Len(set)
<1>1. B \in Nat \ {0} /\ m \in Nat /\ set \in Seq(Elements) /\ Len(set) \in Nat /\ m < Len(set)
  BY BatchPositive DEF Types, OutputsInv
<1>2. Chunk = SubSeq(set, m + 1, j)
  BY DEF Chunk, B
<1> HIDE DEF m
<1>3. j \in m + 1 .. Len(set) /\ j - m = IF m + B < Len(set) THEN B ELSE Len(set) - m
  BY <1>1
<1> HIDE DEF j
<1>4. Len(Chunk) = j - m /\ \A k \in 1 .. j - m : Chunk[k] = set[m + k]
  BY <1>1, <1>2, <1>3
<1> QED BY <1>1, <1>3, <1>4 DEF m

\* The session's own values do not change.
LEMMA SameSession ==
    ASSUME UNCHANGED <<voprf, stag, mtag, sset>>
    PROVE  Masked' = Masked /\ B' = B
  BY DEF Masked, B, max_batch_evaluations, mask_server_set

\* Nor does the next chunk between two batches.
LEMMA SameChunk ==
    ASSUME UNCHANGED <<voprf, stag, set, outputs>>
    PROVE  Chunk' = Chunk /\ Request' = Request /\ Answer' = Answer
<1>1. Chunk' = Chunk
  BY DEF Chunk, max_batch_evaluations
<1> QED BY <1>1 DEF Request, Answer

\* A sequence of one message.
LEMMA One ==
    ASSUME NEW x
    PROVE  /\ Head(<<x>>) = x /\ Tail(<<x>>) = <<>> /\ Front(<<x>>) = <<>>
           /\ Append(<<>>, x) = <<x>> /\ <<x>> # <<>>
  BY DEF Front

\* The sets that intersect is called with.
LEMMA InputsType ==
    ASSUME NEW s \in Inputs
    PROVE  s \in Seq(Elements) /\ Len(s) \in 0 .. MaxLen
<1>1. PICK n \in 0 .. MaxLen : s \in [1 .. n -> Elements]
  BY DEF Inputs
<1>2. n \in Nat
  BY PsiAssumption
<1> QED BY <1>1, <1>2

\* The outputs of a prefix, and of the prefix with the next chunk.
LEMMA PrefixLen ==
    ASSUME NEW m \in Nat
    PROVE  Len(Out(m)) = m
  BY DEF Out

LEMMA MorePrefix ==
    ASSUME NEW m \in Nat, Len(Chunk) \in Nat, \A k \in 1 .. Len(Chunk) : Chunk[k] = set[m + k]
    PROVE  Out(m) \o Answer = Out(m + Len(Chunk))
<1> DEFINE S == {PRF(stag, set[k]) : k \in 1 .. m + Len(Chunk)}
           n == Len(Chunk)
<1>1. Answer = [k \in 1 .. n |-> PRF(stag, set[m + k])]
  BY DEF Answer
<1> HIDE DEF n
<1>2. n \in Nat
  BY DEF n
<1>3. Out(m) \in Seq(S) /\ Answer \in Seq(S) /\ Len(Out(m)) = m /\ Len(Answer) = n
  <2>1. Out(m) \in [1 .. m -> S]
    BY <1>2 DEF Out, n
  <2>2. Answer \in [1 .. n -> S]
    <3>1. \A k \in 1 .. n : m + k \in 1 .. m + n
      BY <1>2
    <3>2. \A k \in 1 .. n : PRF(stag, set[m + k]) \in S
      BY <3>1 DEF n
    <3> QED BY <1>1, <3>2
  <2> HIDE DEF S
  <2> QED BY <1>2, <2>1, <2>2
<1>4. /\ Out(m) \o Answer \in Seq(S) /\ Len(Out(m) \o Answer) = m + n
      /\ \A k \in 1 .. m + n :
            (Out(m) \o Answer)[k] = IF k <= m THEN Out(m)[k] ELSE Answer[k - m]
  <2> HIDE DEF S
  <2> QED BY <1>3, ConcatProperties
<1>5. Out(m + n) \in Seq(S) /\ Len(Out(m + n)) = m + n
  BY <1>2 DEF Out, n
<1>6. \A k \in 1 .. m + n : (Out(m) \o Answer)[k] = Out(m + n)[k]
  <2> TAKE k \in 1 .. m + n
  <2>1. CASE k <= m
    <3>1. (Out(m) \o Answer)[k] = Out(m)[k]
      BY <1>4, <2>1
    <3> QED BY <1>2, <2>1, <3>1 DEF Out
  <2>2. CASE k > m
    <3>1. (Out(m) \o Answer)[k] = Answer[k - m]
      BY <1>2, <1>4, <2>2
    <3>2. k - m \in 1 .. n /\ m + (k - m) = k
      BY <1>2, <2>2
    <3> QED BY <1>1, <1>2, <3>1, <3>2 DEF Out
  <2>3. k <= m \/ k > m
    BY <1>2
  <2> QED BY <2>1, <2>2, <2>3
<1>7. Out(m) \o Answer = Out(m + n)
  <2> DEFINE X == Out(m) \o Answer
             Y == Out(m + n)
  <2>1. X \in Seq(S) /\ Y \in Seq(S) /\ Len(X) = m + n /\ Len(Y) = m + n
    BY <1>4, <1>5
  <2>2. \A k \in 1 .. m + n : X[k] = Y[k]
    BY <1>6
  <2> HIDE DEF X, Y, S
  <2>3. X = Y
    BY <1>2, <2>1, <2>2
  <2> QED BY <2>3 DEF X, Y
<1> QED BY <1>7 DEF n

\* The server expects another request if and only if the full batches so far leave a rest.
LEMMA StillExpected ==
    ASSUME Types, Agreed
    PROVE  served < Expected <=> served * B < ssize
<1>1. Expected = requests_for(ssize, B)
  BY DEF Expected, B, Agreed
<1> QED BY <1>1, BatchPositive, RequestsLeft DEF Types

----------------------------------------------------------------------------
(* Every action keeps the invariant.                                       *)

\* PsiClient::new: the size is announced, or refused.
LEMMA NewKeeps ==
    ASSUME Inv, NEW n \in 0 .. MaxLen, New(n)
    PROVE  Inv'
<1> USE DEF client, server, streams
<1>s. UNCHANGED <<voprf, stag, mtag, sset>>
  BY DEF New
<1>c. Masked' = Masked /\ B' = B /\ B \in Nat \ {0}
  BY <1>s, SameSession, BatchPositive DEF Inv, Types
<1>d. Request' = Request /\ Answer' = Answer /\ Chunk' = Chunk
  BY <1>s, SameChunk DEF New, client, server, streams
<1>1. Types'
  BY DEF Inv, New, Types, ClientPcs, ServerPcs
<1>2. SizeInv'
  BY DEF Inv, New, SizeInv
<1>3. SessionInv'
  BY <1>c DEF Inv, New, Types, SizeInv, SessionInv, BatchInv, Agreed, Rest, Expected, Early, Mapped
<1>4. SetInv'
  BY <1>c DEF Inv, New, SetInv, Mapped
<1>5. OutputsInv'
  BY <1>s DEF Inv, New, OutputsInv, Out
<1>6. RequestInv'
  BY <1>c, <1>d DEF Inv, New, RequestInv
<1>7. BatchInv'
  BY <1>c, <1>d DEF Inv, New, BatchInv, Rest, Early
<1>8. ResultInv'
  BY <1>s DEF Inv, New, ResultInv, IntersectionRight
<1>9. CleanRunSucceeds'
  BY DEF Inv, New, CleanRunSucceeds
<1> QED BY <1>1, <1>2, <1>3, <1>4, <1>5, <1>6, <1>7, <1>8, <1>9 DEF Inv

\* The client is preprocessed once the server is.
LEMMA ClientPreprocessedKeeps ==
    ASSUME Inv, ClientPreprocessed
    PROVE  Inv'
<1> USE DEF client, server, streams
<1>s. UNCHANGED <<voprf, stag, mtag, sset>>
  BY DEF ClientPreprocessed
<1>c. Masked' = Masked /\ B' = B /\ B \in Nat \ {0}
  BY <1>s, SameSession, BatchPositive DEF Inv, Types
<1>d. Request' = Request /\ Answer' = Answer /\ Chunk' = Chunk
  BY <1>s, SameChunk DEF ClientPreprocessed, client, server, streams
<1>1. Types'
  BY DEF Inv, ClientPreprocessed, Types, ClientPcs, ServerPcs
<1>2. SizeInv'
  BY DEF Inv, ClientPreprocessed, SizeInv
<1>3. SessionInv'
  BY <1>c DEF Inv, ClientPreprocessed, SessionInv, Agreed, Rest, Expected, Mapped
<1>4. SetInv'
  BY <1>c DEF Inv, ClientPreprocessed, SizeInv, SetInv, Mapped, Types, ClientPcs
<1>5. OutputsInv'
  BY <1>s DEF Inv, ClientPreprocessed, OutputsInv, Out
<1>6. RequestInv'
  BY <1>c, <1>d DEF Inv, ClientPreprocessed, RequestInv
<1>7. BatchInv'
  BY <1>c, <1>d DEF Inv, ClientPreprocessed, BatchInv, Rest, Early
<1>8. ResultInv'
  BY <1>s DEF Inv, ClientPreprocessed, ResultInv, IntersectionRight
<1>9. CleanRunSucceeds'
  BY DEF Inv, ClientPreprocessed, CleanRunSucceeds
<1> QED BY <1>1, <1>2, <1>3, <1>4, <1>5, <1>6, <1>7, <1>8, <1>9 DEF Inv

\* intersect: the set has the announced size, or is refused.
LEMMA IntersectKeeps ==
    ASSUME Inv, NEW s \in Inputs, Intersect(s)
    PROVE  Inv'
<1> USE DEF client, server, streams
<1>s. UNCHANGED <<voprf, stag, mtag, sset>>
  BY DEF Intersect
<1>c. Masked' = Masked /\ B' = B /\ B \in Nat \ {0}
  BY <1>s, SameSession, BatchPositive DEF Inv, Types
<1>1. Types'
  BY InputsType, PsiAssumption DEF Inv, Intersect, Types, ClientPcs, ServerPcs
<1>2. SizeInv'
  BY DEF Inv, Intersect, SizeInv
<1>3. SessionInv'
  BY <1>c DEF Inv, Intersect, SessionInv, Agreed, Rest, Expected, Mapped
<1>4. SetInv'
  BY <1>c DEF Inv, Intersect, SetInv, Mapped
<1>5. OutputsInv'
  BY <1>s DEF Inv, Intersect, OutputsInv, BatchInv, Early, Out
<1>6. RequestInv'
  BY <1>c DEF Inv, Intersect, RequestInv
<1>7. BatchInv'
  BY <1>c DEF Inv, Intersect, BatchInv, Rest, Early
<1>8. ResultInv'
  BY <1>s DEF Inv, Intersect, ResultInv, IntersectionRight
<1>9. CleanRunSucceeds'
  BY DEF Inv, Intersect, CleanRunSucceeds
<1> QED BY <1>1, <1>2, <1>3, <1>4, <1>5, <1>6, <1>7, <1>8, <1>9 DEF Inv

\* recv_set: the client has the masked set.
LEMMA RecvSetKeeps ==
    ASSUME Inv, RecvSet
    PROVE  Inv'
<1> USE DEF client, server, streams
<1>s. UNCHANGED <<voprf, stag, mtag, sset>>
  BY DEF RecvSet
<1>c. Masked' = Masked /\ B' = B /\ B \in Nat \ {0}
  BY <1>s, SameSession, BatchPositive DEF Inv, Types
<1>d. Request' = Request /\ Answer' = Answer /\ Chunk' = Chunk
  BY <1>s, SameChunk DEF RecvSet, client, server, streams
<1>1. Types'
  BY DEF Inv, RecvSet, Types, ClientPcs, ServerPcs
<1>2. SizeInv'
  BY DEF Inv, RecvSet, SizeInv
<1>3. SessionInv'
  BY <1>c DEF Inv, RecvSet, SessionInv, Agreed, Rest, Expected, Mapped
<1>4. SetInv'
  <2>1. sets = <<Masked>>
    BY DEF Inv, SetInv, RecvSet
  <2>2. recvd' = Masked /\ sets' = <<>>
    BY <2>1, One DEF RecvSet
  <2>3. spc \notin {"start", "preproc", "ready"}
    BY <2>1, One DEF Inv, SetInv
  <2> QED BY <1>s, <1>c, <2>2, <2>3 DEF Inv, RecvSet, SetInv, Types, Mapped, ClientPcs, ServerPcs
<1>5. OutputsInv'
  BY <1>s DEF Inv, RecvSet, OutputsInv, Out
<1>6. RequestInv'
  BY <1>c, <1>d DEF Inv, RecvSet, RequestInv
<1>7. BatchInv'
  BY <1>s, <1>c, <1>d, PsiAssumption DEF Inv, RecvSet, Types, RequestInv, SetInv, BatchInv, Rest, Early, Mapped, ClientPcs, ServerPcs
<1>8. ResultInv'
  BY <1>s DEF Inv, RecvSet, ResultInv, IntersectionRight
<1>9. CleanRunSucceeds'
  BY DEF Inv, RecvSet, CleanRunSucceeds
<1> QED BY <1>1, <1>2, <1>3, <1>4, <1>5, <1>6, <1>7, <1>8, <1>9 DEF Inv

\* evaluate_batch: the budget always covers the next chunk.
LEMMA SendBatchKeeps ==
    ASSUME Inv, SendBatch
    PROVE  Inv'
<1> USE DEF client, server, streams
<1>s. UNCHANGED <<voprf, stag, mtag, sset>>
  BY DEF SendBatch
<1>c. Masked' = Masked /\ B' = B /\ B \in Nat \ {0}
  BY <1>s, SameSession, BatchPositive DEF Inv, Types
<1>d. Request' = Request /\ Answer' = Answer /\ Chunk' = Chunk
  BY <1>s, SameChunk DEF SendBatch, client, server, streams
<1>e. /\ reqs = <<>> /\ resps = <<>> /\ Len(set) = set_size /\ cleft = set_size - Len(outputs)
      /\ recvd.tag = stag /\ Len(outputs) < Len(set) /\ Len(outputs) = served * B
  BY <1>c DEF Inv, SendBatch, Types, SetInv, OutputsInv, BatchInv, Mapped, Masked, Rest
<1>f. Len(Chunk) \in 1 .. B /\ Len(Chunk) <= Len(set) - Len(outputs)
  BY <1>e, NextChunk DEF Inv
<1>g. cpc' = "awaiting" /\ reqs' = <<Request>> /\ cleft' = cleft - Len(Chunk)
  BY <1>c, <1>e, <1>f, One DEF SendBatch, Request, Inv, Types
<1>1. Types'
  <2>1. Len(outputs) \in Nat /\ set_size \in 0 .. MaxLen
    BY DEF Inv, Types, OutputsInv
  <2>2. cleft' = set_size - Len(outputs) - Len(Chunk) /\ Len(Chunk) \in Nat /\ Len(Chunk) <= set_size - Len(outputs)
    BY <1>c, <1>e, <1>f, <1>g
  <2>3. cleft' \in 0 .. MaxLen
    BY <2>1, <2>2, PsiAssumption
  <2> QED BY <1>g, <2>3 DEF Inv, SendBatch, Types, ClientPcs, ServerPcs
<1>2. SizeInv'
  BY <1>e, <1>f, <1>g DEF Inv, SendBatch, SizeInv
<1>3. SessionInv'
  BY <1>c, <1>e, <1>f, <1>g DEF Inv, SendBatch, SessionInv, Agreed, Rest, Expected, Mapped
<1>4. SetInv'
  BY <1>c, <1>e, <1>f, <1>g DEF Inv, SendBatch, SetInv, Mapped
<1>5. OutputsInv'
  BY <1>s, <1>e, <1>f, <1>g DEF Inv, SendBatch, OutputsInv, Out
<1>6. RequestInv'
  BY <1>c, <1>d, <1>e, <1>f, <1>g DEF Inv, SendBatch, RequestInv
<1>7. BatchInv'
  BY <1>c, <1>d, <1>e, <1>f, <1>g DEF Inv, SendBatch, BatchInv, Rest, Early
<1>8. ResultInv'
  BY <1>s, <1>e, <1>f, <1>g DEF Inv, SendBatch, ResultInv, IntersectionRight
<1>9. CleanRunSucceeds'
  BY <1>e, <1>f, <1>g DEF Inv, SendBatch, CleanRunSucceeds
<1> QED BY <1>1, <1>2, <1>3, <1>4, <1>5, <1>6, <1>7, <1>8, <1>9 DEF Inv

\* The outputs of a batch extend the prefix.
LEMMA RecvOutputsKeeps ==
    ASSUME Inv, RecvOutputs
    PROVE  Inv'
<1> USE DEF client, server, streams
<1>s. UNCHANGED <<voprf, stag, mtag, sset>>
  BY DEF RecvOutputs
<1>c. Masked' = Masked /\ B' = B /\ B \in Nat \ {0}
  BY <1>s, SameSession, BatchPositive DEF Inv, Types
<1>e. /\ resps = <<Answer>> /\ reqs = <<>> /\ served > 0 /\ Len(outputs) = (served - 1) * B
      /\ Len(outputs) < Len(set) /\ cleft = set_size - Len(outputs) - Len(Chunk) /\ Len(set) = set_size
  BY DEF Inv, RecvOutputs, BatchInv, SetInv, Mapped
<1>f. /\ Len(Chunk) = IF Len(outputs) + B < Len(set) THEN B ELSE Len(set) - Len(outputs)
      /\ Len(Chunk) \in 1 .. B /\ Len(Chunk) <= Len(set) - Len(outputs)
      /\ \A k \in 1 .. Len(Chunk) : Chunk[k] = set[Len(outputs) + k]
  BY <1>e, NextChunk DEF Inv
<1>g. resps' = <<>> /\ outputs' = outputs \o Answer
  BY <1>e, One DEF RecvOutputs
<1>h. outputs' = Out(Len(outputs) + Len(Chunk))
  <2>1. Len(outputs) \in Nat /\ Len(Chunk) \in Nat /\ outputs = Out(Len(outputs))
    BY <1>c, <1>f DEF Inv, Types, OutputsInv
  <2>2. Out(Len(outputs)) \o Answer = Out(Len(outputs) + Len(Chunk))
    BY <1>f, <2>1, MorePrefix
  <2> QED BY <1>g, <2>1, <2>2
<1>i. set' = set
  BY DEF RecvOutputs
<1>j. Len(outputs') = Len(outputs) + Len(Chunk)
  BY <1>c, <1>f, <1>h, PrefixLen DEF Inv, Types, OutputsInv
<1>1. Types'
  BY <1>e, <1>f, <1>g, <1>j DEF Inv, RecvOutputs, Types, ClientPcs, ServerPcs
<1>2. SizeInv'
  BY <1>e, <1>f, <1>g, <1>j DEF Inv, RecvOutputs, SizeInv
<1>3. SessionInv'
  BY <1>c, <1>e, <1>f, <1>g, <1>j DEF Inv, RecvOutputs, SessionInv, Agreed, Rest, Expected, Mapped
<1>4. SetInv'
  BY <1>c, <1>e, <1>f, <1>g, <1>j DEF Inv, RecvOutputs, SetInv, Mapped
<1>5. OutputsInv'
  <2>1. Len(outputs) + Len(Chunk) \in 0 .. Len(set)
    BY <1>c, <1>f DEF Inv, Types, OutputsInv
  <2>2. outputs' = [k \in 1 .. Len(outputs') |-> PRF(stag, set[k])]
    BY <1>h, <1>j DEF Out
  <2> QED BY <1>i, <1>j, <1>s, <2>1, <2>2 DEF OutputsInv, Out
<1>6. RequestInv'
  BY <1>c, <1>e, <1>f, <1>g, <1>j DEF Inv, RecvOutputs, RequestInv
<1>7. BatchInv'
  <2>1. served * B = (served - 1) * B + B /\ (served - 1) * B \in Nat
    BY <1>c, <1>e DEF Inv, Types
  <2>2. cpc' = "batching" /\ UNCHANGED <<cleft, reqs, set_size, served>>
    BY DEF RecvOutputs
  <2> HIDE DEF client, server, streams
  <2>3. cleft = Rest(set_size, served)
    BY <1>c, <1>e, <1>f, <2>1 DEF Inv, Types, Rest
  <2>4. cleft' = Rest(set_size, served)'
    BY <1>c, <2>2, <2>3 DEF Rest
  <2>5. Len(outputs') = set_size - cleft
    BY <1>c, <1>e, <1>f, <1>j DEF Inv, Types, OutputsInv
  <2> QED BY <1>e, <1>g, <2>2, <2>4, <2>5 DEF BatchInv, Early
<1>8. ResultInv'
  BY <1>s, <1>e, <1>f, <1>g, <1>j DEF Inv, RecvOutputs, ResultInv, IntersectionRight
<1>9. CleanRunSucceeds'
  BY <1>e, <1>f, <1>g, <1>j DEF Inv, RecvOutputs, CleanRunSucceeds
<1> QED BY <1>1, <1>2, <1>3, <1>4, <1>5, <1>6, <1>7, <1>8, <1>9 DEF Inv

\* intersect returns.
LEMMA ReturnIntersectionKeeps ==
    ASSUME Inv, ReturnIntersection
    PROVE  Inv'
<1> USE DEF client, server, streams
<1>s. UNCHANGED <<voprf, stag, mtag, sset>>
  BY DEF ReturnIntersection
<1>c. Masked' = Masked /\ B' = B /\ B \in Nat \ {0}
  BY <1>s, SameSession, BatchPositive DEF Inv, Types
<1>d. Request' = Request /\ Answer' = Answer /\ Chunk' = Chunk
  BY <1>s, SameChunk DEF ReturnIntersection, client, server, streams
<1>1. Types'
  BY DEF Inv, ReturnIntersection, Types, ClientPcs, ServerPcs
<1>2. SizeInv'
  BY DEF Inv, ReturnIntersection, SizeInv
<1>3. SessionInv'
  BY <1>c DEF Inv, ReturnIntersection, SessionInv, Agreed, Rest, Expected, Mapped
<1>4. SetInv'
  BY <1>c DEF Inv, ReturnIntersection, SetInv, Mapped
<1>5. OutputsInv'
  BY <1>s DEF Inv, ReturnIntersection, OutputsInv, Out
<1>6. RequestInv'
  BY <1>c, <1>d DEF Inv, ReturnIntersection, RequestInv
<1>7. BatchInv'
  BY <1>s, <1>c, <1>d, PsiAssumption DEF Inv, ReturnIntersection, Types, RequestInv, SetInv, BatchInv, Rest, Early, Mapped, ClientPcs, ServerPcs
<1>8. ResultInv'
  <2>1. /\ recvd.elements = mask_server_set(mtag, sset)
        /\ Len(outputs) = Len(set) /\ outputs = [k \in 1 .. Len(set) |-> PRF(stag, set[k])]
    BY DEF Inv, ReturnIntersection, SetInv, OutputsInv, Mapped, Masked, Out
  <2>2. result' = {k \in 1 .. Len(set) : outputs[k] \in mask_server_set(mtag, sset)}
    BY <2>1 DEF ReturnIntersection, intersect
  <2>3. \A k \in 1 .. Len(set) : outputs[k] \in mask_server_set(mtag, sset) <=> mtag = stag /\ set[k] \in sset
    <3>1. \A k \in 1 .. Len(set) : outputs[k] = PRF(stag, set[k])
      BY <2>1
    <3>2. \A x : PRF(stag, x) \in mask_server_set(mtag, sset) <=> mtag = stag /\ x \in sset
      BY DEF mask_server_set, PRF
    <3> QED BY <3>1, <3>2
  <2>4. result' = {k \in 1 .. Len(set) : mtag = stag /\ set[k] \in sset}
    BY <2>2, <2>3
  <2>5. 1 .. Len(set) \subseteq 1 .. MaxLen
    BY PsiAssumption DEF Inv, Types
  <2> QED BY <1>s, <2>4, <2>5 DEF ReturnIntersection, ResultInv, IntersectionRight
<1>9. CleanRunSucceeds'
  BY DEF Inv, ReturnIntersection, CleanRunSucceeds
<1> QED BY <1>1, <1>2, <1>3, <1>4, <1>5, <1>6, <1>7, <1>8, <1>9 DEF Inv

\* UnexpectedClose at the client: in a clean run the server does not leave it waiting.
LEMMA ServerGoneKeeps ==
    ASSUME Inv, ServerGone
    PROVE  Inv'
<1> USE DEF client, server, streams
<1>s. UNCHANGED <<voprf, stag, mtag, sset>>
  BY DEF ServerGone
<1>c. Masked' = Masked /\ B' = B /\ B \in Nat \ {0}
  BY <1>s, SameSession, BatchPositive DEF Inv, Types
<1>d. Request' = Request /\ Answer' = Answer /\ Chunk' = Chunk
  BY <1>s, SameChunk DEF ServerGone, client, server, streams
<1>1. Types'
  BY DEF Inv, ServerGone, Types, ClientPcs, ServerPcs
<1>2. SizeInv'
  BY DEF Inv, ServerGone, SizeInv
<1>3. SessionInv'
  BY <1>c DEF Inv, ServerGone, SessionInv, Agreed, Rest, Expected, Mapped
<1>4. SetInv'
  BY <1>c DEF Inv, ServerGone, SetInv, Mapped
<1>5. OutputsInv'
  BY <1>s DEF Inv, ServerGone, OutputsInv, Out
<1>6. RequestInv'
  BY <1>c, <1>d DEF Inv, ServerGone, RequestInv
<1>7. BatchInv'
  BY <1>c, <1>d DEF Inv, ServerGone, BatchInv, Rest, Early
<1>8. ResultInv'
  BY <1>s DEF Inv, ServerGone, ResultInv, IntersectionRight
<1>9. CleanRunSucceeds'
  <2>1. CASE ~clean
    BY <2>1 DEF ServerGone, CleanRunSucceeds
  <2>2. CASE clean
    <3>1. spc = "done" /\ cpc \in {"receiving", "awaiting"}
      BY <2>2 DEF Inv, ServerGone, CleanRunSucceeds, ServerEnds
    <3>2. Agreed /\ served = Expected
      BY <3>1 DEF Inv, SessionInv
    <3>3. ~(served * B < ssize)
      BY <3>2, StillExpected DEF Inv, Types
    <3>4. CASE cpc = "receiving"
      BY <1>c, <3>2, <3>3, <3>4 DEF Inv, BatchInv, Early, Agreed
    <3>5. CASE cpc = "awaiting"
      <4>1. resps = <<>>
        BY <3>5 DEF ServerGone
      <4>2. Len(outputs) = served * B /\ Len(outputs) < set_size
        BY <2>2, <3>5, <4>1, One DEF Inv, BatchInv
      <4> QED BY <3>2, <3>3, <4>2 DEF Agreed
    <3> QED BY <3>1, <3>4, <3>5
  <2> QED BY <2>1, <2>2 DEF Inv, Types
<1> QED BY <1>1, <1>2, <1>3, <1>4, <1>5, <1>6, <1>7, <1>8, <1>9 DEF Inv

\* The client's timeout.
LEMMA ClientGivesUpKeeps ==
    ASSUME Inv, ClientGivesUp
    PROVE  Inv'
<1> USE DEF client, server, streams
<1>s. UNCHANGED <<voprf, stag, mtag, sset>>
  BY DEF ClientGivesUp
<1>c. Masked' = Masked /\ B' = B /\ B \in Nat \ {0}
  BY <1>s, SameSession, BatchPositive DEF Inv, Types
<1>d. Request' = Request /\ Answer' = Answer /\ Chunk' = Chunk
  BY <1>s, SameChunk DEF ClientGivesUp, client, server, streams
<1>1. Types'
  BY DEF Inv, ClientGivesUp, Types, ClientPcs, ServerPcs
<1>2. SizeInv'
  BY DEF Inv, ClientGivesUp, SizeInv
<1>3. SessionInv'
  BY <1>c DEF Inv, ClientGivesUp, SessionInv, Agreed, Rest, Expected, Mapped
<1>4. SetInv'
  BY <1>c DEF Inv, ClientGivesUp, SetInv, Mapped
<1>5. OutputsInv'
  BY <1>s DEF Inv, ClientGivesUp, OutputsInv, Out
<1>6. RequestInv'
  BY <1>c, <1>d DEF Inv, ClientGivesUp, RequestInv
<1>7. BatchInv'
  BY <1>c, <1>d DEF Inv, ClientGivesUp, BatchInv, Rest, Early
<1>8. ResultInv'
  BY <1>s DEF Inv, ClientGivesUp, ResultInv, IntersectionRight
<1>9. CleanRunSucceeds'
  BY DEF Inv, ClientGivesUp, CleanRunSucceeds
<1> QED BY <1>1, <1>2, <1>3, <1>4, <1>5, <1>6, <1>7, <1>8, <1>9 DEF Inv

\* PsiServer::session takes the announced size, or refuses it.
LEMMA RecvSizeKeeps ==
    ASSUME Inv, RecvSize
    PROVE  Inv'
<1> USE DEF client, server, streams
<1>s. UNCHANGED <<voprf, stag, mtag, sset>>
  BY DEF RecvSize
<1>c. Masked' = Masked /\ B' = B /\ B \in Nat \ {0}
  BY <1>s, SameSession, BatchPositive DEF Inv, Types
<1>d. Request' = Request /\ Answer' = Answer /\ Chunk' = Chunk
  BY <1>s, SameChunk DEF RecvSize, client, server, streams
<1>1. Types'
  <2>1. Head(sizes) = set_size
    BY One DEF Inv, SizeInv, RecvSize
  <2> QED BY <2>1 DEF Inv, RecvSize, Types, ClientPcs, ServerPcs
<1>2. SizeInv'
  BY <1>s, <1>c, <1>d, PsiAssumption DEF Inv, RecvSize, Types, SizeInv, ClientPcs, ServerPcs
<1>3. SessionInv'
  BY <1>c DEF Inv, RecvSize, Types, SizeInv, SessionInv, BatchInv, Agreed, Rest, Expected, Early, Mapped
<1>4. SetInv'
  BY <1>c DEF Inv, RecvSize, SetInv, Mapped
<1>5. OutputsInv'
  BY <1>s DEF Inv, RecvSize, OutputsInv, Out
<1>6. RequestInv'
  BY <1>c, <1>d DEF Inv, RecvSize, RequestInv
<1>7. BatchInv'
  BY <1>c, <1>d DEF Inv, RecvSize, BatchInv, Rest, Early
<1>8. ResultInv'
  BY <1>s DEF Inv, RecvSize, ResultInv, IntersectionRight
<1>9. CleanRunSucceeds'
  BY DEF Inv, RecvSize, CleanRunSucceeds
<1> QED BY <1>1, <1>2, <1>3, <1>4, <1>5, <1>6, <1>7, <1>8, <1>9 DEF Inv

\* The server is preprocessed, for the client's size and mode.
LEMMA ServerPreprocessedKeeps ==
    ASSUME Inv, ServerPreprocessed
    PROVE  Inv'
<1> USE DEF client, server, streams
<1>s. UNCHANGED <<voprf, stag, mtag, sset>>
  BY DEF ServerPreprocessed
<1>c. Masked' = Masked /\ B' = B /\ B \in Nat \ {0}
  BY <1>s, SameSession, BatchPositive DEF Inv, Types
<1>d. Request' = Request /\ Answer' = Answer /\ Chunk' = Chunk
  BY <1>s, SameChunk DEF ServerPreprocessed, client, server, streams
<1>1. Types'
  BY DEF Inv, ServerPreprocessed, Types, ClientPcs, ServerPcs
<1>2. SizeInv'
  BY DEF Inv, ServerPreprocessed, SizeInv
<1>3. SessionInv'
  BY <1>c DEF Inv, ServerPreprocessed, Types, SizeInv, SessionInv, BatchInv, Agreed, Rest, Expected, Early, Mapped
<1>4. SetInv'
  BY <1>c DEF Inv, ServerPreprocessed, SetInv, Mapped
<1>5. OutputsInv'
  BY <1>s DEF Inv, ServerPreprocessed, OutputsInv, Out
<1>6. RequestInv'
  BY <1>c, <1>d DEF Inv, ServerPreprocessed, RequestInv
<1>7. BatchInv'
  BY <1>c, <1>d DEF Inv, ServerPreprocessed, BatchInv, Rest, Early
<1>8. ResultInv'
  BY <1>s DEF Inv, ServerPreprocessed, ResultInv, IntersectionRight
<1>9. CleanRunSucceeds'
  BY DEF Inv, ServerPreprocessed, CleanRunSucceeds
<1> QED BY <1>1, <1>2, <1>3, <1>4, <1>5, <1>6, <1>7, <1>8, <1>9 DEF Inv

\* serve_masked sends the masked set, or refuses its own.
LEMMA SendSetKeeps ==
    ASSUME Inv, SendSet
    PROVE  Inv'
<1> USE DEF client, server, streams
<1>s. UNCHANGED <<voprf, stag, mtag, sset>>
  BY DEF SendSet
<1>c. Masked' = Masked /\ B' = B /\ B \in Nat \ {0}
  BY <1>s, SameSession, BatchPositive DEF Inv, Types
<1>d. Request' = Request /\ Answer' = Answer /\ Chunk' = Chunk
  BY <1>s, SameChunk DEF SendSet, client, server, streams
<1>1. Types'
  BY DEF Inv, SendSet, Types, ClientPcs, ServerPcs
<1>2. SizeInv'
  BY DEF Inv, SendSet, SizeInv
<1>3. SessionInv'
  BY <1>c DEF Inv, SendSet, SessionInv, Agreed, Rest, Expected, Mapped
<1>4. SetInv'
  <2>1. sets = <<>> /\ cpc \notin Mapped
    BY DEF Inv, SetInv, SendSet
  <2>2. sets' \in {<<>>, <<Masked>>} /\ spc' \in {"serving", "failed"}
    BY <2>1, One DEF SendSet, Masked
  <2> QED BY <1>s, <1>c, <2>1, <2>2 DEF Inv, SendSet, SetInv, Types, Mapped, ClientPcs, ServerPcs
<1>5. OutputsInv'
  BY <1>s DEF Inv, SendSet, OutputsInv, Out
<1>6. RequestInv'
  BY <1>c, <1>d DEF Inv, SendSet, RequestInv
<1>7. BatchInv'
  BY <1>c, <1>d DEF Inv, SendSet, BatchInv, Rest, Early
<1>8. ResultInv'
  BY <1>s DEF Inv, SendSet, ResultInv, IntersectionRight
<1>9. CleanRunSucceeds'
  BY DEF Inv, SendSet, CleanRunSucceeds
<1> QED BY <1>1, <1>2, <1>3, <1>4, <1>5, <1>6, <1>7, <1>8, <1>9 DEF Inv

\* serve_next: the request is never over the budget or the limit.
LEMMA ServeNextKeeps ==
    ASSUME Inv, ServeNext
    PROVE  Inv'
<1> USE DEF client, server, streams
<1>s. UNCHANGED <<voprf, stag, mtag, sset>>
  BY DEF ServeNext
<1>c. Masked' = Masked /\ B' = B /\ B \in Nat \ {0}
  BY <1>s, SameSession, BatchPositive DEF Inv, Types
<1>d. Request' = Request /\ Answer' = Answer /\ Chunk' = Chunk
  BY <1>s, SameChunk DEF ServeNext, client, server, streams
<1>e. /\ reqs = <<Request>> /\ Head(reqs) = Request /\ Tail(reqs) = <<>>
      /\ Len(set) = set_size /\ Len(outputs) < Len(set) /\ Len(outputs) = served * B
  <2>1. reqs = <<Request>>
    BY DEF Inv, RequestInv, ServeNext
  <2> QED BY <2>1, One DEF Inv, RequestInv
<1>f. /\ Len(Chunk) = IF Len(outputs) + B < Len(set) THEN B ELSE Len(set) - Len(outputs)
      /\ Len(Chunk) \in 1 .. B /\ Len(Chunk) <= Len(set) - Len(outputs)
  BY <1>e, NextChunk DEF Inv
<1>g. Agreed /\ spc = "serving" /\ cpc \in {"awaiting", "failed"}
  BY <1>e, One DEF Inv, SessionInv, RequestInv, ServeNext
<1>h. sleft = ssize - Len(outputs) /\ max_batch_evaluations(svoprf) = B
  BY <1>c, <1>e, <1>g DEF Agreed, Rest, B, Inv, Types
<1>i. /\ reqs' = <<>> /\ served' = served + 1 /\ sleft' = sleft - Len(Chunk)
      /\ resps' = Append(resps, Answer) /\ spc' = spc
  <2>1. Request.inputs = Chunk /\ Request.tag = stag
    BY DEF Request
  <2>2. Len(Chunk) <= sleft /\ Len(Chunk) <= max_batch_evaluations(svoprf)
    BY <1>c, <1>e, <1>f, <1>g, <1>h DEF Agreed, Inv, Types, OutputsInv
  <2>3. ~(Len(Chunk) > sleft \/ Len(Chunk) > max_batch_evaluations(svoprf))
    BY <1>c, <1>f, <1>h, <2>2 DEF Inv, Types
  <2> QED BY <1>e, <2>1, <2>2, <2>3 DEF ServeNext, Answer
<1>j. served' * B = served * B + B /\ served * B \in Nat /\ served' - 1 = served
  BY <1>c, <1>i DEF Inv, Types
<1>k. Agreed'
  <2>1. UNCHANGED <<ssize, set_size, svoprf, voprf>>
    BY DEF ServeNext
  <2>2. sleft' = Rest(ssize, served')
    BY <1>c, <1>e, <1>f, <1>g, <1>h, <1>i, <1>j DEF Agreed, Rest, Inv, Types
  <2>3. (served' - 1) * B < ssize
    BY <1>e, <1>g, <1>j DEF Agreed
  <2> QED BY <1>c, <1>g, <2>1, <2>2, <2>3 DEF Agreed, Rest
<1>1. Types'
  <2>1. served <= served * B
    BY <1>c DEF Inv, Types
  <2>2. served + 1 <= ssize
    BY <1>e, <1>g, <1>j, <2>1 DEF Agreed, Inv, Types
  <2>3. served' \in 0 .. MaxLen /\ sleft' \in 0 .. MaxLen
    BY PsiAssumption, <1>c, <1>e, <1>f, <1>g, <1>h, <1>i, <2>2 DEF Agreed, Inv, Types, OutputsInv
  <2> QED BY <1>i, <2>3 DEF Inv, ServeNext, Types, ClientPcs, ServerPcs
<1>2. SizeInv'
  BY DEF Inv, ServeNext, SizeInv
<1>3. SessionInv'
  BY <1>g, <1>i, <1>k DEF SessionInv
<1>4. SetInv'
  BY <1>c DEF Inv, ServeNext, SetInv, Mapped
<1>5. OutputsInv'
  BY <1>s DEF Inv, ServeNext, OutputsInv, Out
<1>6. RequestInv'
  BY <1>i DEF RequestInv
<1>7. BatchInv'
  <2>1. UNCHANGED <<cpc, outputs, cleft, set_size>>
    BY DEF ServeNext
  <2>2. CASE cpc = "awaiting"
    <3>1. resps' = <<Answer>>
      BY <1>e, <1>i, <2>2, One DEF Inv, BatchInv
    <3>2. served' > 0 /\ Len(outputs') = (served' - 1) * B
      BY <1>e, <1>i, <1>j, <2>1 DEF Inv, Types
    <3> QED BY <1>c, <1>d, <1>i, <2>1, <2>2, <3>1, <3>2 DEF Inv, BatchInv, Early
  <2>3. CASE cpc = "failed"
    BY <2>1, <2>3 DEF BatchInv, Early
  <2> QED BY <1>g, <2>2, <2>3
<1>8. ResultInv'
  BY <1>s DEF Inv, ServeNext, ResultInv, IntersectionRight
<1>9. CleanRunSucceeds'
  BY <1>g, <1>i DEF Inv, ServeNext, CleanRunSucceeds
<1> QED BY <1>1, <1>2, <1>3, <1>4, <1>5, <1>6, <1>7, <1>8, <1>9 DEF Inv

\* serve_masked returns.
LEMMA ServedKeeps ==
    ASSUME Inv, Served
    PROVE  Inv'
<1> USE DEF client, server, streams
<1>s. UNCHANGED <<voprf, stag, mtag, sset>>
  BY DEF Served
<1>c. Masked' = Masked /\ B' = B /\ B \in Nat \ {0}
  BY <1>s, SameSession, BatchPositive DEF Inv, Types
<1>d. Request' = Request /\ Answer' = Answer /\ Chunk' = Chunk
  BY <1>s, SameChunk DEF Served, client, server, streams
<1>1. Types'
  BY DEF Inv, Served, Types, ClientPcs, ServerPcs
<1>2. SizeInv'
  BY DEF Inv, Served, SizeInv
<1>3. SessionInv'
  BY <1>c DEF Inv, Served, SessionInv, Agreed, Rest, Expected, Mapped
<1>4. SetInv'
  BY <1>c DEF Inv, Served, SetInv, Mapped
<1>5. OutputsInv'
  BY <1>s DEF Inv, Served, OutputsInv, Out
<1>6. RequestInv'
  BY <1>c, <1>d DEF Inv, Served, RequestInv
<1>7. BatchInv'
  BY <1>c, <1>d DEF Inv, Served, BatchInv, Rest, Early
<1>8. ResultInv'
  BY <1>s DEF Inv, Served, ResultInv, IntersectionRight
<1>9. CleanRunSucceeds'
  BY DEF Inv, Served, CleanRunSucceeds
<1> QED BY <1>1, <1>2, <1>3, <1>4, <1>5, <1>6, <1>7, <1>8, <1>9 DEF Inv

\* UnexpectedClose at the server: in a clean run the client has asked for everything.
LEMMA ClientGoneKeeps ==
    ASSUME Inv, ClientGone
    PROVE  Inv'
<1> USE DEF client, server, streams
<1>s. UNCHANGED <<voprf, stag, mtag, sset>>
  BY DEF ClientGone
<1>c. Masked' = Masked /\ B' = B /\ B \in Nat \ {0}
  BY <1>s, SameSession, BatchPositive DEF Inv, Types
<1>d. Request' = Request /\ Answer' = Answer /\ Chunk' = Chunk
  BY <1>s, SameChunk DEF ClientGone, client, server, streams
<1>1. Types'
  BY DEF Inv, ClientGone, Types, ClientPcs, ServerPcs
<1>2. SizeInv'
  BY <1>s, <1>c DEF Inv, ClientGone, ClientEnds, SizeInv, Types, ClientPcs, ServerPcs
<1>3. SessionInv'
  BY <1>c DEF Inv, ClientGone, SessionInv, Agreed, Rest, Expected, Mapped
<1>4. SetInv'
  BY <1>c DEF Inv, ClientGone, SetInv, Mapped
<1>5. OutputsInv'
  BY <1>s DEF Inv, ClientGone, OutputsInv, Out
<1>6. RequestInv'
  BY <1>c, <1>d DEF Inv, ClientGone, RequestInv
<1>7. BatchInv'
  BY <1>c, <1>d DEF Inv, ClientGone, BatchInv, Rest, Early
<1>8. ResultInv'
  BY <1>s DEF Inv, ClientGone, ResultInv, IntersectionRight
<1>9. CleanRunSucceeds'
  <2>1. CASE ~clean
    BY <2>1 DEF ClientGone, CleanRunSucceeds
  <2>2. CASE clean
    <3>1. cpc = "done"
      BY <2>2 DEF Inv, ClientGone, CleanRunSucceeds, ClientEnds
    <3>2. Agreed /\ served < Expected
      BY <3>1 DEF Inv, SessionInv, SetInv, Mapped, ClientGone
    <3>3. served * B < ssize
      BY <3>2, StillExpected DEF Inv, Types
    <3> QED BY <1>c, <3>1, <3>2, <3>3 DEF Inv, Types, BatchInv, Agreed, Rest
  <2> QED BY <2>1, <2>2 DEF Inv, Types
<1> QED BY <1>1, <1>2, <1>3, <1>4, <1>5, <1>6, <1>7, <1>8, <1>9 DEF Inv

\* The server's timeout.
LEMMA ServerGivesUpKeeps ==
    ASSUME Inv, ServerGivesUp
    PROVE  Inv'
<1> USE DEF client, server, streams
<1>s. UNCHANGED <<voprf, stag, mtag, sset>>
  BY DEF ServerGivesUp
<1>c. Masked' = Masked /\ B' = B /\ B \in Nat \ {0}
  BY <1>s, SameSession, BatchPositive DEF Inv, Types
<1>d. Request' = Request /\ Answer' = Answer /\ Chunk' = Chunk
  BY <1>s, SameChunk DEF ServerGivesUp, client, server, streams
<1>1. Types'
  BY DEF Inv, ServerGivesUp, Types, ClientPcs, ServerPcs
<1>2. SizeInv'
  BY DEF Inv, ServerGivesUp, SizeInv
<1>3. SessionInv'
  BY <1>c DEF Inv, ServerGivesUp, SessionInv, Agreed, Rest, Expected, Mapped
<1>4. SetInv'
  BY <1>c DEF Inv, ServerGivesUp, SetInv, Mapped
<1>5. OutputsInv'
  BY <1>s DEF Inv, ServerGivesUp, OutputsInv, Out
<1>6. RequestInv'
  BY <1>c, <1>d DEF Inv, ServerGivesUp, RequestInv
<1>7. BatchInv'
  BY <1>c, <1>d DEF Inv, ServerGivesUp, BatchInv, Rest, Early
<1>8. ResultInv'
  BY <1>s DEF Inv, ServerGivesUp, ResultInv, IntersectionRight
<1>9. CleanRunSucceeds'
  BY DEF Inv, ServerGivesUp, CleanRunSucceeds
<1> QED BY <1>1, <1>2, <1>3, <1>4, <1>5, <1>6, <1>7, <1>8, <1>9 DEF Inv

\* A closing side loses the end of what it sent.
LEMMA LoseKeeps ==
    ASSUME Inv, Lose
    PROVE  Inv'
<1> USE DEF client, server, streams
<1>s. UNCHANGED <<voprf, stag, mtag, sset>>
  BY DEF Lose
<1>c. Masked' = Masked /\ B' = B /\ B \in Nat \ {0}
  BY <1>s, SameSession, BatchPositive DEF Inv, Types
<1>d. Request' = Request /\ Answer' = Answer /\ Chunk' = Chunk
  BY <1>s, SameChunk DEF Lose, client, server, streams
<1>e. /\ sizes' \in {<<>>, sizes} /\ sets' \in {<<>>, sets}
      /\ reqs' \in {<<>>, reqs} /\ (cpc \notin ClientEnds => reqs' = reqs)
      /\ clean' = FALSE
  BY One DEF Inv, SizeInv, SetInv, RequestInv, Lose
<1>f. resps = <<>> => resps' = <<>>
  BY DEF Lose
<1>g. resps = <<Answer>> => resps' \in {<<>>, <<Answer>>}
  BY One DEF Lose
<1>1. Types'
  BY <1>e, <1>f, <1>g DEF Inv, Lose, Types, ClientPcs, ServerPcs
<1>2. SizeInv'
  BY <1>e, <1>f, <1>g DEF Inv, Lose, SizeInv
<1>3. SessionInv'
  BY <1>c, <1>e, <1>f, <1>g DEF Inv, Lose, SessionInv, Agreed, Rest, Expected, Mapped
<1>4. SetInv'
  BY <1>c, <1>e, <1>f, <1>g DEF Inv, Lose, SetInv, Mapped
<1>5. OutputsInv'
  BY <1>s, <1>e, <1>f, <1>g DEF Inv, Lose, OutputsInv, Out
<1>6. RequestInv'
  BY <1>c, <1>d, <1>e, <1>f, <1>g DEF Inv, Lose, RequestInv
<1>7. BatchInv'
  <2>1. cpc \notin ClientEnds => reqs' = reqs
    BY <1>e
  <2> QED BY <1>c, <1>d, <1>e, <1>f, <1>g, <2>1 DEF Inv, Lose, Types, BatchInv, RequestInv, Rest, Early, Mapped, ClientPcs, ClientEnds
<1>8. ResultInv'
  BY <1>s, <1>e, <1>f, <1>g DEF Inv, Lose, ResultInv, IntersectionRight
<1>9. CleanRunSucceeds'
  BY <1>e, <1>f, <1>g DEF Inv, Lose, CleanRunSucceeds
<1> QED BY <1>1, <1>2, <1>3, <1>4, <1>5, <1>6, <1>7, <1>8, <1>9 DEF Inv

\* One step keeps the invariant: every action, and stuttering.
LEMMA PsiInductive ==
    ASSUME Inv, [Next]_vars
    PROVE  Inv'
<1>1. CASE ClientStep
  BY <1>1, NewKeeps, ClientPreprocessedKeeps, IntersectKeeps, RecvSetKeeps, SendBatchKeeps,
     RecvOutputsKeeps, ReturnIntersectionKeeps, ServerGoneKeeps, ClientGivesUpKeeps DEF ClientStep
<1>2. CASE ServerStep
  BY <1>2, RecvSizeKeeps, ServerPreprocessedKeeps, SendSetKeeps, ServeNextKeeps, ServedKeeps,
     ClientGoneKeeps, ServerGivesUpKeeps DEF ServerStep
<1>3. CASE Lose
  BY <1>3, LoseKeeps
<1>4. CASE UNCHANGED vars
  <2>1. UNCHANGED <<client, server, streams, clean>>
    BY <1>4 DEF vars
  <2>2. UNCHANGED <<voprf, stag, mtag, sset, set, outputs>>
    BY <2>1 DEF client, server
  <2>3. Masked' = Masked /\ B' = B /\ Chunk' = Chunk /\ Request' = Request /\ Answer' = Answer
    BY <2>2, SameSession, SameChunk
  <2> USE <2>1, <2>3 DEF client, server, streams, Inv
  <2>4. Types' /\ SizeInv' /\ SetInv'
    BY DEF Types, SizeInv, SetInv
  <2>5. SessionInv'
    BY DEF SessionInv, Agreed, Rest, Expected
  <2>6. OutputsInv' /\ RequestInv'
    BY DEF OutputsInv, Out, RequestInv
  <2>7. BatchInv'
    BY DEF BatchInv, Rest
  <2>8. ResultInv' /\ CleanRunSucceeds'
    BY DEF ResultInv, IntersectionRight, CleanRunSucceeds
  <2> QED BY <2>4, <2>5, <2>6, <2>7, <2>8
<1> QED BY <1>1, <1>2, <1>3, <1>4 DEF Next

\* The first state.
LEMMA PsiInit ==
    ASSUME Init
    PROVE  Inv
<1>1. Types
  <2>1. <<>> \in Seq(Elements) /\ Len(<<>>) = 0
    OBVIOUS
  <2>2. 0 \in 0 .. MaxLen
    BY PsiAssumption
  <2>3. voprf \in BOOLEAN /\ svoprf \in BOOLEAN /\ clean \in BOOLEAN
    BY DEF Init
  <2> QED BY <2>1, <2>2, <2>3 DEF Init, Types, ClientPcs, ServerPcs
<1>2. SizeInv /\ SetInv /\ SessionInv
  BY DEF Init, SizeInv, SetInv, SessionInv, Mapped
<1>3. OutputsInv
  BY DEF Init, OutputsInv, Out
<1>4. RequestInv /\ BatchInv /\ ResultInv /\ CleanRunSucceeds
  BY DEF Init, RequestInv, BatchInv, ResultInv, IntersectionRight, CleanRunSucceeds, Early
<1> QED BY <1>1, <1>2, <1>3, <1>4 DEF Inv

\* The invariant holds of every run.
LEMMA PsiInvariant == Spec => []Inv
<1>1. Init => Inv
  BY PsiInit
<1>2. Inv /\ [Next]_vars => Inv'
  BY PsiInductive
<1> QED BY <1>1, <1>2, PTL DEF Spec

----------------------------------------------------------------------------
(* The theorems.                                                           *)

\* Every variable of the client and the server keeps its type, and no more outputs come back
\* than the set has entries.
THEOREM PsiType == Spec => []TypeOK
<1>1. ASSUME Inv PROVE TypeOK
  <2>1. set \in Inputs
    <3>1. set \in [1 .. Len(set) -> Elements] /\ Len(set) \in 0 .. MaxLen
      BY <1>1 DEF Inv, Types
    <3> QED BY <3>1 DEF Inputs
  <2> QED BY <1>1, <2>1, PsiAssumption DEF Inv, Types, OutputsInv, ResultInv, TypeOK, ClientPcs, ServerPcs
<1> QED BY <1>1, PsiInvariant, PTL

\* Whatever the sets, the tags, the batch limits and the order of events: intersect returns the
\* indices of exactly the entries that the server's set holds.
THEOREM PsiIntersection == Spec => []IntersectionRight
<1>1. ASSUME Inv PROVE IntersectionRight
  BY <1>1 DEF Inv, ResultInv
<1> QED BY <1>1, PsiInvariant, PTL

\* serve_masked, which counts requests and not evaluations, returns without an error only when
\* the client spent all that it was preprocessed for.
THEOREM PsiSpent == Spec => []SpentWhenServed
<1>1. ASSUME Inv PROVE SpentWhenServed
  <2>1. SUFFICES ASSUME spc = "done" PROVE sleft = 0
    BY DEF SpentWhenServed
  <2>2. Agreed /\ served = Expected /\ Types
    BY <1>1, <2>1 DEF Inv, SessionInv
  <2>3. ~(served * B < ssize) /\ B \in Nat \ {0}
    BY <2>2, StillExpected, BatchPositive DEF Types
  <2> QED BY <2>2, <2>3 DEF Agreed, Rest, Types
<1> QED BY <1>1, PsiInvariant, PTL

\* Client and server derive the same requests from the set size, in both modes and for every
\* batch limit: when nobody refuses, gives up or loses a message, neither side fails.
THEOREM PsiSucceeds == Spec => []CleanRunSucceeds
<1>1. ASSUME Inv PROVE CleanRunSucceeds
  BY <1>1 DEF Inv
<1> QED BY <1>1, PsiInvariant, PTL

----------------------------------------------------------------------------
(* PsiServe: the permits and the states of the serve command.              *)

\* The types, but for the bound of the semaphore, which only the count of sessions gives.
ServeTypes ==
    /\ conn \in [Connections -> {"new", "refused", "running", "ended"}]
    /\ permits \in Nat
    /\ state \subseteq Connections /\ task \subseteq Connections

ServeInv == ServeTypes /\ PermitsConserved

(* The running sessions are finitely many, in the next state too.          *)
LEMMA RunningFinite ==
  /\ IsFiniteSet(Running) /\ Cardinality(Running) \in Nat
  /\ IsFiniteSet(Running') /\ Cardinality(Running') \in Nat
  <1>1. \A S \in SUBSET Connections : IsFiniteSet(S) /\ Cardinality(S) \in Nat
    BY ServeAssumption, FS_Subset, FS_CardinalityType
  <1>2. Running \in SUBSET Connections /\ Running' \in SUBSET Connections
    BY DEF Running
  <1> QED
    BY <1>1, <1>2

(* A connection that starts to run takes a place among the running ones.   *)
LEMMA OneMore ==
  ASSUME ServeTypes, NEW c \in Connections, conn[c] # "running",
         conn' = [conn EXCEPT ![c] = "running"]
  PROVE  Cardinality(Running') = Cardinality(Running) + 1
  <1>1. Running' = Running \union {c} /\ c \notin Running
    BY DEF ServeTypes, Running
  <1> QED
    BY <1>1, RunningFinite, FS_AddElement

(* One that ends leaves its place.                                         *)
LEMMA OneLess ==
  ASSUME ServeTypes, NEW c \in Connections, conn[c] = "running",
         conn' = [conn EXCEPT ![c] = "ended"]
  PROVE  Cardinality(Running') = Cardinality(Running) - 1
  <1>1. Running' = Running \ {c} /\ c \in Running
    BY DEF ServeTypes, Running
  <1> QED
    BY <1>1, RunningFinite, FS_RemoveElement

(* Changes of a connection that does not run, before or after.             *)
LEMMA NoneRuns ==
  ASSUME ServeTypes, NEW c \in Connections, conn[c] # "running", NEW v \in {"new", "refused"},
         conn' = [conn EXCEPT ![c] = v]
  PROVE  Running' = Running
  BY DEF ServeTypes, Running

(* Every step of the accept loop, of a session and of its timer keeps the  *)
(* permits and the running sessions together.                              *)
LEMMA ServeKeeps == ServeInv /\ [ServeStep]_serveVars => ServeInv'
  <1> SUFFICES ASSUME ServeInv, [ServeStep]_serveVars PROVE ServeInv'
    OBVIOUS
  <1>0. ServeTypes /\ permits \in Nat /\ permits + Cardinality(Running) = MaxSessions /\ MaxSessions \in Nat
    BY ServeAssumption DEF ServeInv, PermitsConserved, ServeTypes
  <1>1. ASSUME UNCHANGED <<conn, permits>>, state' \subseteq Connections, task' \subseteq Connections
        PROVE  ServeInv'
    BY <1>0, <1>1 DEF ServeInv, ServeTypes, PermitsConserved, Running
  <1>2. ASSUME NEW c \in Connections, conn[c] = "running", End(c) PROVE ServeInv'
    <2>1. Cardinality(Running') = Cardinality(Running) - 1
      BY <1>0, <1>2, OneLess DEF End
    <2>2. ServeTypes'
      BY <1>0, <1>2 DEF End, ServeTypes
    <2>3. permits' = permits + 1
      BY <1>2 DEF End
    <2>4. PermitsConserved'
      BY <1>0, <2>1, <2>3, RunningFinite DEF PermitsConserved
    <2> QED
      BY <2>2, <2>4 DEF ServeInv
  <1>3. ASSUME NEW c \in Connections, Accept(c) PROVE ServeInv'
    <2>1. CASE permits > 0 /\ permits' = permits - 1 /\ conn' = [conn EXCEPT ![c] = "running"]
      <3>1. Cardinality(Running') = Cardinality(Running) + 1
        BY <1>0, <1>3, <2>1, OneMore DEF Accept
      <3>2. ServeTypes'
        BY <1>0, <1>3, <2>1 DEF Accept, ServeTypes
      <3>3. PermitsConserved'
        BY <1>0, <2>1, <3>1, RunningFinite DEF PermitsConserved
      <3> QED
        BY <3>2, <3>3 DEF ServeInv
    <2>2. CASE conn' = [conn EXCEPT ![c] = "refused"] /\ UNCHANGED permits
      <3>1. Running' = Running
        BY <1>0, <1>3, <2>2, NoneRuns DEF Accept
      <3>2. ServeTypes'
        BY <1>0, <1>3, <2>2 DEF Accept, ServeTypes
      <3>3. PermitsConserved'
        BY <1>0, <2>2, <3>1 DEF PermitsConserved
      <3> QED
        BY <3>2, <3>3 DEF ServeInv
    <2> QED
      BY <1>3, <2>1, <2>2 DEF Accept
  <1>4. ASSUME NEW c \in Connections, Reconnect(c) PROVE ServeInv'
    <2>1. Running' = Running
      BY <1>0, <1>4, NoneRuns DEF Reconnect
    <2>2. ServeTypes'
      BY <1>0, <1>4 DEF Reconnect, ServeTypes
    <2>3. PermitsConserved'
      BY <1>0, <1>4, <2>1 DEF PermitsConserved, Reconnect
    <2> QED
      BY <2>2, <2>3 DEF ServeInv
  <1>5. ASSUME NEW c \in Connections, Preprocessed(c) \/ StartBlindEval(c) \/ EndBlindEval(c) PROVE ServeInv'
    BY <1>0, <1>1, <1>5 DEF Preprocessed, StartBlindEval, EndBlindEval, ServeTypes
  <1>6. CASE UNCHANGED serveVars
    BY <1>0, <1>1, <1>6 DEF serveVars, ServeTypes
  <1> QED
    BY <1>2, <1>3, <1>4, <1>5, <1>6 DEF ServeStep, Finish, Timeout

(* The server starts with all its permits.                                 *)
LEMMA ServeStarts == ServeInit => ServeInv
  <1> SUFFICES ASSUME ServeInit PROVE ServeInv
    OBVIOUS
  <1>1. Running = {}
    BY DEF ServeInit, Running
  <1>2. ServeTypes
    BY ServeAssumption DEF ServeInit, ServeTypes
  <1>3. Cardinality(Running) = 0
    BY <1>1, FS_EmptySet
  <1> QED
    BY <1>2, <1>3, ServeAssumption DEF ServeInit, ServeInv, PermitsConserved

(* Whichever way sessions end, by themselves, by an error or dropped by    *)
(* their timeout, a permit is held by exactly one running session or is    *)
(* free.                                                                   *)
THEOREM ServePermits == ServeSpec => []PermitsConserved
  <1>1. ServeInv => PermitsConserved
    BY DEF ServeInv
  <1> QED
    BY ServeStarts, ServeKeeps, <1>1, PTL DEF ServeSpec

(* Every variable of the serve command keeps its type; the semaphore never *)
(* holds more permits than it was made with.                               *)
THEOREM ServeType == ServeSpec => []ServeTypeOK
  <1>1. ServeInv => ServeTypeOK
    BY RunningFinite, ServeAssumption DEF ServeInv, ServeTypes, PermitsConserved, ServeTypeOK
  <1> QED
    BY ServeStarts, ServeKeeps, <1>1, PTL DEF ServeSpec

\* A session that owns a preprocessed state runs.
OwnersRun == state \subseteq Running

(* The preprocessed states that sessions own are capped by max_sessions:   *)
(* what --max-sessions does not bound are only the states that blocking    *)
(* tasks still hold after their session's timeout.                         *)
THEOREM ServeOwnedStates == ServeSpec => [](Cardinality(state) <= MaxSessions)
  <1>1. ServeInit => OwnersRun
    BY DEF ServeInit, OwnersRun
  <1>2. ServeInv /\ OwnersRun /\ [ServeStep]_serveVars => OwnersRun'
    <2> SUFFICES ASSUME ServeTypes, OwnersRun, [ServeStep]_serveVars PROVE OwnersRun'
      BY DEF ServeInv
    <2> USE DEF ServeTypes, OwnersRun, Running
    <2>1. ASSUME NEW c \in Connections, Accept(c) PROVE OwnersRun'
      BY <2>1 DEF Accept
    <2>2. ASSUME NEW c \in Connections, Reconnect(c) PROVE OwnersRun'
      BY <2>2 DEF Reconnect
    <2>3. ASSUME NEW c \in Connections, Preprocessed(c) PROVE OwnersRun'
      BY <2>3 DEF Preprocessed
    <2>4. ASSUME NEW c \in Connections, StartBlindEval(c) \/ EndBlindEval(c) PROVE OwnersRun'
      BY <2>4 DEF StartBlindEval, EndBlindEval
    <2>5. ASSUME NEW c \in Connections, End(c) PROVE OwnersRun'
      BY <2>5 DEF End
    <2>6. CASE UNCHANGED serveVars
      BY <2>6 DEF serveVars
    <2> QED
      BY <2>1, <2>2, <2>3, <2>4, <2>5, <2>6 DEF ServeStep, Finish, Timeout
  <1>3. ServeInv /\ OwnersRun => Cardinality(state) <= MaxSessions
    <2> SUFFICES ASSUME ServeInv, OwnersRun PROVE Cardinality(state) <= MaxSessions
      OBVIOUS
    <2>1. Cardinality(state) <= Cardinality(Running) /\ Cardinality(state) \in Nat
      BY RunningFinite, FS_Subset, FS_CardinalityType DEF OwnersRun
    <2> QED
      BY <2>1, RunningFinite, ServeAssumption DEF ServeInv, ServeTypes, PermitsConserved
  <1> QED
    BY ServeStarts, ServeKeeps, <1>1, <1>2, <1>3, PTL DEF ServeSpec
=============================================================================
