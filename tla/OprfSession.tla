---------------------------- MODULE OprfSession ----------------------------
(***************************************************************************)
(* One OPRF connection: an OprfClient (pool-oprf/src/client.rs) and the    *)
(* OprfSession that serves it (server.rs), the two request-response        *)
(* streams between them (channel.rs), the run budgets of the preprocessed  *)
(* state on each side (preprocessing.rs, Runs) and the three online steps  *)
(* request_batch, blind_eval and finalize_batch (online.rs).               *)
(*                                                                         *)
(* Both sides are async: a call is a sequence of awaits, its future may be *)
(* dropped at each of them, and what runs in spawn_blocking goes on        *)
(* running when the future that waits for it is gone.  Every await is a    *)
(* step of its own here.                                                   *)
(*                                                                         *)
(* Data.  A row of a request is masked with the client's masks of one run, *)
(* and the server unmasks it with its own masks of the run it takes next:  *)
(* the two cancel exactly when the session and the run are the same (the   *)
(* arithmetic of that is module PoolRow).  So a request is the call it was *)
(* made for, its session, its first run and its number of evaluations, and *)
(* a response is the first run the server took and the request it was      *)
(* computed from.                                                          *)
(***************************************************************************)
EXTENDS Integers, Sequences, FiniteSets

CONSTANTS
    H_ROWS,                 \* runs that one evaluation takes
    MaxBatch,               \* MAX_BATCH_EVALUATIONS, or MAX_VOPRF_BATCH_EVALUATIONS for a VOPRF
    Voprf,                  \* the client was made with new_voprf
    ResumeOnError,          \* the server's driver calls again after an error or a cancelled call
    MaxEvaluations,         \* bound: evaluations a session is preprocessed for
    MaxCalls,               \* bound: calls of evaluate_batch
    MaxRenewals             \* bound: calls of renew, on each side

ASSUME SessionAssumption ==
    /\ H_ROWS \in Nat \ {0}
    /\ MaxBatch \in Nat \ {0}
    /\ Voprf \in BOOLEAN
    /\ ResumeOnError \in BOOLEAN
    /\ MaxEvaluations \in Nat \ {0}
    /\ MaxCalls \in Nat
    /\ MaxRenewals \in Nat

VARIABLES
    cpc,        \* client: where its current call is
    cuid,       \* client: uid of the session it holds
    cctr,       \* client: next unspent run of each session
    ctau,       \* client: runs of each session
    cur,        \* client: the call in progress, then its FinalizeState
    cresp,      \* client: the response being finalized
    cdet,       \* client: request tasks whose call was cancelled
    calls,      \* client: calls of evaluate_batch so far
    out,        \* client: what each call returned
    spc, suid, sctr, stau,
    sreq,       \* server: the request being served, with the session it is served on
    sresp,      \* server: the response to send
    sdet,       \* server: blind_eval tasks whose call was cancelled
    c2s, s2c,   \* the two streams
    catt, carg, \* client: renewals begun; evaluations asked for
    satt, sarg, \* server: the same
    ready,      \* the renewal whose exchange reached the server's last message
    sent,       \* the renewal whose last message the server sent
    issued,     \* history: the requests made
    log,        \* history: what the server evaluated on which runs
    clean       \* history: no call was cancelled and no side failed alone

client  == <<cpc, cuid, cctr, ctau, cur, cresp, cdet, calls, out, issued>>
server  == <<spc, suid, sctr, stau, sreq, sresp, sdet, log>>
streams == <<c2s, s2c>>
renewal == <<catt, carg, satt, sarg, ready, sent>>
vars    == <<client, server, streams, renewal, clean>>

Uids  == 0 .. MaxRenewals
Calls == 1 .. MaxCalls

NoOutput == 0      \* the call has not returned outputs
Garbage  == -1     \* outputs unmasked with masks of another run

Request  == [id : 0 .. MaxCalls, uid : Uids, first : Nat, n : Nat]
Task     == [req : Request, uid : Uids]
Response == [uid : Uids, ctr : Nat, n : Nat, of : Request]
LogEntry == [uid : Uids, at : Nat, rows : Nat, req : Request]

NoRequest  == [id |-> 0, uid |-> 0, first |-> 0, n |-> 0]
NoTask     == [req |-> NoRequest, uid |-> 0]
NoResponse == [uid |-> 0, ctr |-> 0, n |-> 0, of |-> NoRequest]

----------------------------------------------------------------------------
(* The run budget, and what each handler checks.                          *)

\* Runs for n full evaluations.
tau_for(n) == n * H_ROWS

\* The batch limits, tested by both request_batch and blind_eval.  A tag that is too long is
\* refused at the same place and with the same effect, so it is not told apart here.
BatchOk(n) == n >= 1 /\ n <= MaxBatch

\* request_batch's early returns, all before any run is taken.
RequestOkBroken(n, uid) == BatchOk(n) /\ cctr[uid] < ctau[uid]
RequestOk(n, uid) == BatchOk(n) /\ cctr[uid] + tau_for(n) <= ctau[uid]

\* blind_eval on the state of session uid: a request of another session is refused
\* (UnknownSession), then a bad batch (Malformed), then one the budget cannot pay (Exhausted).
BlindEvalOk(req, uid) ==
    /\ req.uid = uid
    /\ BatchOk(req.n)
    /\ sctr[uid] + tau_for(req.n) <= stau[uid]

\* What blind_eval answers: rows computed on the runs from ctr, out of req's rows.
Answer(req, uid, ctr) ==
    [uid |-> uid, ctr |-> ctr, n |-> req.n, of |-> req]

\* A VOPRF proof is of one statement: the runs, the request's rows, the response's rows.
ProofVerifies(fin, resp) == resp.ctr = fin.first /\ resp.of = fin

\* finalize_batch's early returns.
FinalizeOkBroken(fin, resp) == resp.uid = fin.uid /\ resp.n = fin.n
FinalizeOk(fin, resp) ==
    /\ resp.uid = fin.uid
    /\ resp.n = fin.n
    /\ Voprf => ProofVerifies(fin, resp)
    /\ resp.ctr = fin.first

\* The outputs in an accepted response: PRF of the inputs of the call whose rows they were
\* computed from, if the masks of the two runs cancel.
Output(resp) == IF resp.ctr = resp.of.first THEN resp.of.id ELSE Garbage

----------------------------------------------------------------------------
Init ==
    /\ cpc = "idle" /\ cuid = 0 /\ cur = NoRequest /\ cresp = NoResponse
    /\ cdet = {} /\ calls = 0 /\ issued = {} /\ out = [c \in Calls |-> NoOutput]
    /\ cctr = [u \in Uids |-> 0]
    /\ \E n \in 1 .. MaxEvaluations : ctau = [u \in Uids |-> IF u = 0 THEN tau_for(n) ELSE 0]
    /\ spc = "idle" /\ suid = 0 /\ sreq = NoTask /\ sresp = NoResponse
    /\ sdet = {} /\ log = {}
    /\ sctr = [u \in Uids |-> 0]
    /\ stau = ctau
    /\ c2s = <<>> /\ s2c = <<>>
    /\ catt = 0 /\ carg = 0 /\ satt = 0 /\ sarg = 0 /\ ready = 0 /\ sent = 0
    /\ clean = TRUE

----------------------------------------------------------------------------
(* Client: evaluate and evaluate_batch.                                    *)

\* The call clones the Arc of the current state and spawns request_batch.
Evaluate(n) ==
    /\ cpc = "idle" /\ calls < MaxCalls
    /\ calls' = calls + 1
    /\ cur' = [id |-> calls + 1, uid |-> cuid, first |-> 0, n |-> n]
    /\ cpc' = "requesting"
    /\ UNCHANGED <<cuid, cctr, ctau, cresp, cdet, out, issued, server, streams, renewal, clean>>

\* The blocking task: request_batch under the lock.
RunRequest ==
    /\ cpc = "requesting"
    /\ \/ /\ RequestOk(cur.n, cur.uid)
          /\ cur' = [cur EXCEPT !.first = cctr[cur.uid]]
          /\ cctr' = [cctr EXCEPT ![cur.uid] = @ + tau_for(cur.n)]
          /\ cpc' = "sending"
          /\ issued' = issued \union {cur'}
       \/ /\ ~RequestOk(cur.n, cur.uid)
          /\ cpc' = "idle" /\ cur' = NoRequest
          /\ UNCHANGED <<cctr, issued>>
    /\ UNCHANGED <<cuid, ctau, cresp, cdet, calls, out, server, streams, renewal, clean>>

\* The same task after its call was cancelled: it takes runs nobody will send.
RunDetachedRequest(t) ==
    /\ t \in cdet
    /\ cdet' = cdet \ {t}
    /\ cctr' = IF RequestOk(t.n, t.uid)
               THEN [cctr EXCEPT ![t.uid] = @ + tau_for(t.n)] ELSE cctr
    /\ UNCHANGED <<cpc, cuid, ctau, cur, cresp, calls, out, issued, server, streams, renewal, clean>>

\* exchange: tx.send.
SendRequestBroken ==
    /\ cpc = "sending"
    /\ c2s' = Append(c2s, cur)
    /\ cpc' = "sent"
    /\ UNCHANGED <<cuid, cctr, ctau, cur, cresp, cdet, calls, out, issued, server, s2c, renewal, clean>>
SendRequest ==
    /\ cpc = "sending"
    /\ c2s' = Append(c2s, cur)
    /\ cpc' = "awaiting"
    /\ UNCHANGED <<cuid, cctr, ctau, cur, cresp, cdet, calls, out, issued, server, s2c, renewal, clean>>

\* exchange: rx.next returns whatever response is next in the stream.
ReceiveResponse ==
    /\ cpc = "awaiting" /\ s2c # <<>>
    /\ cresp' = Head(s2c) /\ s2c' = Tail(s2c)
    /\ cpc' = "finalizing"
    /\ UNCHANGED <<cuid, cctr, ctau, cur, cdet, calls, out, issued, server, c2s, renewal, clean>>

\* exchange fails: the server's end is gone.
ExchangeFails ==
    /\ spc = "closed"
    /\ cpc = "sending" \/ (cpc = "awaiting" /\ s2c = <<>>)
    /\ cpc' = "idle" /\ cur' = NoRequest
    /\ UNCHANGED <<cuid, cctr, ctau, cresp, cdet, calls, out, issued, server, streams, renewal, clean>>

\* finalize_batch, in a blocking task: outputs or an error, and the call returns.
Finalize ==
    /\ cpc = "finalizing"
    /\ out' = IF FinalizeOk(cur, cresp) THEN [out EXCEPT ![cur.id] = Output(cresp)] ELSE out
    /\ cpc' = "idle" /\ cur' = NoRequest /\ cresp' = NoResponse
    /\ UNCHANGED <<cuid, cctr, ctau, cdet, calls, issued, server, streams, renewal, clean>>

\* The future of evaluate is dropped at one of its awaits.
CancelEvaluate ==
    /\ cpc \in {"requesting", "sending", "awaiting", "finalizing"}
    /\ cdet' = IF cpc = "requesting" THEN cdet \union {cur} ELSE cdet
    /\ cpc' = "idle" /\ cur' = NoRequest /\ cresp' = NoResponse
    /\ clean' = FALSE
    /\ UNCHANGED <<cuid, cctr, ctau, calls, out, issued, server, streams, renewal>>

\* The client is dropped; of what it sent, a prefix reaches the server.
CloseClient ==
    /\ cpc = "idle"
    /\ cpc' = "closed"
    /\ \E k \in 0 .. Len(c2s) : c2s' = SubSeq(c2s, 1, k)
    /\ UNCHANGED <<cuid, cctr, ctau, cur, cresp, cdet, calls, out, issued, server, s2c, renewal, clean>>

----------------------------------------------------------------------------
(* Server: serve_next.                                                     *)

\* The driver of the session after an error: the examples return it and drop the session.
AfterErrorBroken == "idle"
AfterError == IF ResumeOnError THEN "idle" ELSE "failed"

\* next_request, then blind_eval is spawned on a clone of the current state's Arc.
NextRequest ==
    /\ spc = "idle" /\ c2s # <<>>
    /\ sreq' = [req |-> Head(c2s), uid |-> suid]
    /\ c2s' = Tail(c2s)
    /\ spc' = "serving"
    /\ UNCHANGED <<client, suid, sctr, stau, sresp, sdet, log, s2c, renewal, clean>>

\* The client is gone and the stream is drained: serve_next returns false, serve returns.
EndOfRequests ==
    /\ spc = "idle" /\ c2s = <<>> /\ cpc = "closed"
    /\ spc' = "closed"
    /\ UNCHANGED <<client, suid, sctr, stau, sreq, sresp, sdet, log, streams, renewal, clean>>

\* The runs of session uid that rows of req are evaluated on.
Evaluated(req, uid, rows) ==
    [uid |-> uid, at |-> sctr[uid], rows |-> rows, req |-> req]

\* The blocking task: blind_eval under the lock, all of the batch.
RunBlindEval ==
    /\ spc = "serving"
    /\ \/ /\ BlindEvalOk(sreq.req, sreq.uid)
          /\ sctr' = [sctr EXCEPT ![sreq.uid] = @ + tau_for(sreq.req.n)]
          /\ log' = log \union {Evaluated(sreq.req, sreq.uid, tau_for(sreq.req.n))}
          /\ sresp' = Answer(sreq.req, sreq.uid, sctr[sreq.uid])
          /\ spc' = "responding"
       \/ /\ ~BlindEvalOk(sreq.req, sreq.uid)
          /\ spc' = AfterError
          /\ UNCHANGED <<sctr, log, sresp>>
    /\ sreq' = NoTask
    /\ UNCHANGED <<client, suid, stau, sdet, streams, renewal, clean>>

\* prove_online fails for evaluation k of the batch: k evaluations' runs are spent.
ProveFails ==
    /\ spc = "serving" /\ Voprf
    /\ BlindEvalOk(sreq.req, sreq.uid)
    /\ \E k \in 1 .. sreq.req.n :
          /\ sctr' = [sctr EXCEPT ![sreq.uid] = @ + tau_for(k)]
          /\ log' = log \union {Evaluated(sreq.req, sreq.uid, tau_for(k))}
    /\ sreq' = NoTask
    /\ spc' = AfterError
    /\ clean' = FALSE
    /\ UNCHANGED <<client, suid, stau, sresp, sdet, streams, renewal>>

\* The same task after serve_next was cancelled: runs are spent, those of all evaluations or, when
\* a proof fails, of some, and the response or the error is dropped.
RunDetachedBlindEvalBroken(t) ==
    /\ t \in sdet
    /\ sdet' = sdet \ {t}
    /\ BlindEvalOk(t.req, t.uid)
    /\ log' = log \union {Evaluated(t.req, t.uid, tau_for(t.req.n))}
    /\ UNCHANGED <<client, spc, suid, sctr, stau, sreq, sresp, streams, renewal, clean>>
RunDetachedBlindEval(t) ==
    /\ t \in sdet
    /\ sdet' = sdet \ {t}
    /\ \/ /\ BlindEvalOk(t.req, t.uid)
          /\ \E k \in 1 .. t.req.n :
                /\ Voprf \/ k = t.req.n
                /\ sctr' = [sctr EXCEPT ![t.uid] = @ + tau_for(k)]
                /\ log' = log \union {Evaluated(t.req, t.uid, tau_for(k))}
       \/ /\ ~BlindEvalOk(t.req, t.uid)
          /\ UNCHANGED <<sctr, log>>
    /\ UNCHANGED <<client, spc, suid, stau, sreq, sresp, streams, renewal, clean>>

Respond ==
    /\ spc = "responding"
    /\ s2c' = Append(s2c, sresp)
    /\ sresp' = NoResponse
    /\ spc' = "idle"
    /\ UNCHANGED <<client, suid, sctr, stau, sreq, sdet, log, c2s, renewal, clean>>

\* The future of serve_next is dropped while blind_eval runs or while the answer is sent.
CancelServe ==
    /\ spc \in {"serving", "responding"}
    /\ sdet' = IF spc = "serving" THEN sdet \union {sreq} ELSE sdet
    /\ sreq' = NoTask /\ sresp' = NoResponse
    /\ spc' = AfterError
    /\ clean' = FALSE
    /\ UNCHANGED <<client, suid, sctr, stau, log, streams, renewal>>

\* The session is dropped; of what it sent, a prefix reaches the client.
CloseServer ==
    /\ spc \in {"idle", "failed"}
    /\ spc' = "closed"
    /\ \E k \in 0 .. Len(s2c) : s2c' = SubSeq(s2c, 1, k)
    /\ UNCHANGED <<client, suid, sctr, stau, sreq, sresp, sdet, log, c2s, renewal, clean>>

----------------------------------------------------------------------------
(* Renewal: preproc_client and preproc_server again on the same            *)
(* connection.  The streams of one run of it are paired by the order in    *)
(* which each side opens them, so the client's k-th renewal talks to the   *)
(* server's k-th; its uid, drawn by the client, is k here.                 *)

ClientRenew(n) ==
    /\ cpc = "idle" /\ catt < MaxRenewals
    /\ cpc' = "renewing" /\ catt' = catt + 1 /\ carg' = n
    /\ UNCHANGED <<cuid, cctr, ctau, cur, cresp, cdet, calls, out, issued, server, streams,
                   satt, sarg, ready, sent, clean>>

ServerRenew(n) ==
    /\ spc = "idle" /\ satt < MaxRenewals
    /\ spc' = "renewing" /\ satt' = satt + 1 /\ sarg' = n
    /\ UNCHANGED <<client, suid, sctr, stau, sreq, sresp, sdet, log, streams,
                   catt, carg, ready, sent, clean>>

BothRenewing == cpc = "renewing" /\ spc = "renewing" /\ catt = satt

\* The sizes of hello and echo agree, and the OTs run up to the server's last message.
RenewExchange ==
    /\ BothRenewing /\ carg = sarg
    /\ ready' = catt
    /\ UNCHANGED <<client, server, streams, catt, carg, satt, sarg, sent, clean>>

\* They do not: TauMismatch on both sides, and both go on with the session they have.
RenewTauMismatch ==
    /\ BothRenewing /\ carg # sarg
    /\ cpc' = "idle" /\ spc' = "idle"
    /\ UNCHANGED <<cuid, cctr, ctau, cur, cresp, cdet, calls, out, issued,
                   suid, sctr, stau, sreq, sresp, sdet, log, streams, renewal, clean>>

\* The server sends its last message and its call returns: it replaces its session.
ServerRenewedBroken ==
    /\ spc = "renewing" /\ ready = satt
    /\ sent' = satt
    /\ spc' = "idle"
    /\ UNCHANGED <<client, suid, sctr, stau, sreq, sresp, sdet, log, streams,
                   catt, carg, satt, sarg, ready, clean>>
ServerRenewed ==
    /\ spc = "renewing" /\ ready = satt
    /\ sent' = satt
    /\ spc' = "idle" /\ suid' = satt
    /\ sctr' = [sctr EXCEPT ![satt] = 0]
    /\ stau' = [stau EXCEPT ![satt] = tau_for(sarg)]
    /\ UNCHANGED <<client, sreq, sresp, sdet, log, streams, catt, carg, satt, sarg, ready, clean>>

\* The server's call fails or is cancelled; its last message may have left.
ServerRenewFails ==
    /\ spc = "renewing"
    /\ sent' \in {sent} \union (IF ready = satt THEN {satt} ELSE {})
    /\ spc' = AfterError
    /\ clean' = FALSE
    /\ UNCHANGED <<client, suid, sctr, stau, sreq, sresp, sdet, log, streams,
                   catt, carg, satt, sarg, ready>>

\* The client has the last message (and, in a VOPRF, its proof verified).
ClientRenewed ==
    /\ cpc = "renewing" /\ sent = catt
    /\ cpc' = "idle" /\ cuid' = catt
    /\ cctr' = [cctr EXCEPT ![catt] = 0]
    /\ ctau' = [ctau EXCEPT ![catt] = tau_for(carg)]
    /\ UNCHANGED <<cur, cresp, cdet, calls, out, issued, server, streams, renewal, clean>>

ClientRenewFails ==
    /\ cpc = "renewing"
    /\ cpc' = "idle"
    /\ clean' = FALSE
    /\ UNCHANGED <<cuid, cctr, ctau, cur, cresp, cdet, calls, out, issued, server, streams, renewal>>

----------------------------------------------------------------------------
ClientStep ==
    \/ \E n \in 0 .. MaxBatch + 1 : Evaluate(n)
    \/ RunRequest
    \/ \E t \in cdet : RunDetachedRequest(t)
    \/ SendRequest
    \/ ReceiveResponse
    \/ ExchangeFails
    \/ Finalize
    \/ CancelEvaluate
    \/ CloseClient

ServerStep ==
    \/ NextRequest
    \/ EndOfRequests
    \/ RunBlindEval
    \/ ProveFails
    \/ \E t \in sdet : RunDetachedBlindEval(t)
    \/ Respond
    \/ CancelServe
    \/ CloseServer

RenewStep ==
    \/ \E n \in 1 .. MaxEvaluations : ClientRenew(n)
    \/ \E n \in 1 .. MaxEvaluations : ServerRenew(n)
    \/ RenewExchange
    \/ RenewTauMismatch
    \/ ServerRenewed
    \/ ServerRenewFails
    \/ ClientRenewed
    \/ ClientRenewFails

Next == ClientStep \/ ServerStep \/ RenewStep

Spec == Init /\ [][Next]_vars

(* Fairness.  Spawned blocking tasks run to their end, the runtime polls a   *)
(* future that is ready, the driver loops on serve_next and drops the        *)
(* session after an error.  Nobody has to call, cancel, close or renew.      *)
FairSpec ==
    /\ Spec
    /\ WF_vars(RunRequest) /\ WF_vars(SendRequest) /\ WF_vars(ReceiveResponse)
    /\ WF_vars(ExchangeFails) /\ WF_vars(Finalize)
    /\ WF_vars(NextRequest) /\ WF_vars(RunBlindEval) /\ WF_vars(Respond)
    /\ WF_vars(spc = "failed" /\ CloseServer)

----------------------------------------------------------------------------
(* Properties.                                                             *)

ClientPc == {"idle", "requesting", "sending", "awaiting", "finalizing", "renewing", "closed"}
ServerPc == {"idle", "serving", "responding", "renewing", "failed", "closed"}

\* Every variable has its type.
TypeOK ==
    /\ cpc \in ClientPc /\ spc \in ServerPc
    /\ cuid \in Uids /\ suid \in Uids
    /\ cctr \in [Uids -> Nat] /\ ctau \in [Uids -> Nat]
    /\ sctr \in [Uids -> Nat] /\ stau \in [Uids -> Nat]
    /\ cur \in Request /\ cresp \in Response /\ cdet \in SUBSET Request
    /\ sreq \in Task /\ sresp \in Response /\ sdet \in SUBSET Task
    /\ c2s \in Seq(Request) /\ s2c \in Seq(Response)
    /\ calls \in 0 .. MaxCalls
    /\ out \in [Calls -> -1 .. MaxCalls]
    /\ catt \in Uids /\ satt \in Uids /\ ready \in Uids /\ sent \in Uids
    /\ carg \in Nat /\ sarg \in Nat
    /\ issued \in SUBSET Request
    /\ log \in SUBSET LogEntry
    /\ clean \in BOOLEAN

\* Whatever is cancelled, lost, late or renewed, a call that returns outputs returns the PRF of
\* its own inputs: finalize_batch's uid, row count and counter checks reject every response
\* computed for another call, in another session or on other runs than the request was masked with.
OutputsRight == \A c \in Calls : out[c] \in {NoOutput, c}

\* No run of a session is evaluated twice by the server: its pads r' mask one response only,
\* cancelled and failed calls included (Runs::take in blind_eval).
RunsSpentOnce ==
    \A a, b \in log :
        (a.uid = b.uid /\ a # b) => (a.at + a.rows <= b.at \/ b.at + b.rows <= a.at)

\* The server's counter of a session never passes the client's, so a request that passed the
\* client's budget check is never refused as Exhausted by blind_eval.
ServerNeverExhausted ==
    /\ \A u \in Uids : sctr[u] <= cctr[u]
    /\ \A t \in sdet \union (IF spc = "serving" THEN {sreq} ELSE {}) :
          t.req.uid = t.uid => sctr[t.uid] + tau_for(t.req.n) <= stau[t.uid]

\* As long as nothing was cancelled and no side failed alone, both sides stay in step through
\* refused requests, mismatched and successful renewals: blind_eval and finalize_batch accept.
InStep ==
    clean => /\ spc = "serving" => BlindEvalOk(sreq.req, sreq.uid)
             /\ cpc = "finalizing" => FinalizeOk(cur, cresp)

\* A call of evaluate returns: with outputs, or with an error once the server stops, as
\* OprfSession::serve does at its first error.
EvaluateReturns ==
    cpc \in {"requesting", "sending", "awaiting", "finalizing"} ~> cpc \in {"idle", "closed"}

\* What the caller sees of the call in progress and of the budget.
Paid == {"sending", "awaiting", "finalizing"}

Status == IF cpc = "requesting" THEN "asked" ELSE IF cpc \in Paid THEN "paid" ELSE "none"
Left   == (ctau[cuid] - cctr[cuid]) \div H_ROWS

\* The client implements the service its caller sees.
Service == INSTANCE OprfService WITH status <- Status, asked <- cur.n, left <- Left

\* Every step of the connection is a step of OprfService or leaves it unchanged.
ImplementsService == Service!Spec

----------------------------------------------------------------------------
(* The inductive strengthening of OutputsRight and RunsSpentOnce.  The     *)
(* client hands out disjoint intervals of runs, in the order of the calls. *)
(* The server takes requests in that order too, but a cancelled blind_eval *)
(* may run late, after those of later requests: so its counter is not the  *)
(* first run of the request it serves, it is the number of the client's    *)
(* runs it has already served, all of them below that first run.           *)

End(r) == r.first + tau_for(r.n)

\* The client's runs of session u that the server has evaluated rows of.
Served(u) ==
    UNION {l.req.first .. (l.req.first + l.rows - 1) : l \in {m \in log : m.uid = u}}

\* Call i was taken from the stream before every request still in it or about to be sent.
Taken(i) ==
    /\ \A k \in 1 .. Len(c2s) : i < c2s[k].id
    /\ cpc = "sending" => i < cur.id

\* A response is computed on runs no later than its request was masked with.
NotAhead(r) == r.of \in issued /\ r.uid = r.of.uid /\ r.ctr <= r.of.first

\* Requests own disjoint intervals of the spent runs of their session, in the order of calls.
IssuedInv ==
    /\ \A x \in issued : x.id \in 1 .. calls /\ x.uid <= cuid /\ End(x) <= cctr[x.uid]
    /\ \A x \in issued : x.first < End(x)
    /\ \A x, y \in issued : x.id = y.id => x = y
    /\ \A x, y \in issued : (x.id < y.id /\ x.uid = y.uid) => End(x) <= y.first

\* The call in progress is the last one.
CurInv ==
    /\ cpc = "requesting" =>
          cur.id = calls /\ calls >= 1 /\ cur.uid = cuid /\ \A x \in issued : x.id < cur.id
    /\ cpc \in Paid => cur \in issued /\ cur.id = calls
    /\ cpc = "finalizing" => NotAhead(cresp)

\* The streams carry issued requests in order, and responses that are not ahead.
StreamInv ==
    /\ \A k \in 1 .. Len(c2s) : c2s[k] \in issued
    /\ \A j, k \in 1 .. Len(c2s) : j < k => c2s[j].id < c2s[k].id
    /\ cpc = "sending" => \A k \in 1 .. Len(c2s) : c2s[k].id < cur.id
    /\ \A k \in 1 .. Len(s2c) : NotAhead(s2c[k])

\* What the server took from the stream is served at most once, the current request last.
ServeInv ==
    /\ spc = "serving" => sreq.req \in issued /\ sreq.uid <= suid /\ Taken(sreq.req.id)
    /\ spc = "responding" => NotAhead(sresp)
    /\ \A t \in sdet :
          /\ t.req \in issued /\ t.uid <= suid /\ Taken(t.req.id)
          /\ spc = "serving" => t.req.id < sreq.req.id
    /\ \A s, t \in sdet : s.req.id = t.req.id => s = t

\* What it evaluated are rows of issued requests, on runs it took once.
LogInv ==
    /\ \A l \in log :
          /\ l.req \in issued /\ l.uid = l.req.uid /\ l.uid <= suid /\ Taken(l.req.id)
          /\ l.rows <= tau_for(l.req.n) /\ l.at + l.rows <= sctr[l.uid]
          /\ spc = "serving" => l.req.id < sreq.req.id
          /\ \A t \in sdet : l.req.id # t.req.id
    /\ RunsSpentOnce

CountInv == \A u \in Uids : IsFiniteSet(Served(u)) /\ sctr[u] = Cardinality(Served(u))

\* A renewal in progress is for a session neither side holds yet.
RenewInv ==
    /\ cuid <= catt /\ (cpc = "renewing" => cuid < catt)
    /\ suid <= satt /\ (spc = "renewing" => suid < satt)

IInv ==
    /\ IssuedInv /\ CurInv /\ StreamInv /\ ServeInv /\ LogInv /\ CountInv /\ RenewInv
    /\ OutputsRight
=============================================================================
