------------------------- MODULE OprfSessionProofs -------------------------
(***************************************************************************)
(* Theorems about OprfSession, for every value of its constants.           *)
(***************************************************************************)
EXTENDS OprfSession, FiniteSetTheorems, SequenceTheorems, TLAPS

(* Runs for n evaluations: a natural number.                               *)
LEMMA TauForNat == \A n \in Nat : tau_for(n) \in Nat
  BY SessionAssumption DEF tau_for

(* Every evaluation takes at least one run.                                *)
LEMMA TauForPositive == \A n \in Nat : n >= 1 => tau_for(n) >= 1
  BY SessionAssumption DEF tau_for

(* More evaluations take at least as many runs.                            *)
LEMMA TauForMonotone == \A m, n \in Nat : m <= n => tau_for(m) <= tau_for(n)
  BY SessionAssumption DEF tau_for

(* The values Init puts in the slots of calls not in progress.             *)
LEMMA NullTypes == NoRequest \in Request /\ NoTask \in Task /\ NoResponse \in Response
  BY SessionAssumption DEF NoRequest, NoTask, NoResponse, Request, Task, Response, Uids

(* The fields of the messages.                                             *)
LEMMA Fields ==
  /\ \A r \in Request : r.id \in 0 .. MaxCalls /\ r.uid \in Uids /\ r.first \in Nat /\ r.n \in Nat
  /\ \A t \in Task : t.req \in Request /\ t.uid \in Uids
  /\ \A r \in Response : r.uid \in Uids /\ r.ctr \in Nat /\ r.n \in Nat /\ r.of \in Request
  BY DEF Request, Task, Response

(* Spending d runs of session u.                                           *)
LEMMA Spend ==
  ASSUME NEW f \in [Uids -> Nat], NEW u \in Uids, NEW d \in Nat
  PROVE  /\ [f EXCEPT ![u] = @ + d] \in [Uids -> Nat]
         /\ [f EXCEPT ![u] = @ + d][u] = f[u] + d
         /\ \A v \in Uids \ {u} : [f EXCEPT ![u] = @ + d][v] = f[v]
  OBVIOUS

(* What Finalize writes is an output.                                      *)
LEMMA OutputType == \A r \in Response : Output(r) \in -1 .. MaxCalls
  <1> TAKE r \in Response
  <1>1. r.of.id \in 0 .. MaxCalls
    BY Fields
  <1>2. CASE r.ctr = r.of.first
    BY <1>1, <1>2, SessionAssumption DEF Output
  <1>3. CASE r.ctr # r.of.first
    BY <1>3, SessionAssumption DEF Output, Garbage
  <1> QED
    BY <1>2, <1>3

(* Init establishes TypeOK.                                                *)
LEMMA TypeInit == Init => TypeOK
  <1> SUFFICES ASSUME Init PROVE TypeOK
    OBVIOUS
  <1>1. ctau \in [Uids -> Nat] /\ stau \in [Uids -> Nat]
    <2>1. PICK n \in 1 .. MaxEvaluations : ctau = [u \in Uids |-> IF u = 0 THEN tau_for(n) ELSE 0]
      BY DEF Init
    <2>2. tau_for(n) \in Nat
      BY TauForNat, SessionAssumption
    <2> QED
      BY <2>1, <2>2 DEF Init
  <1>2. out \in [Calls -> -1 .. MaxCalls]
    BY SessionAssumption DEF Init, NoOutput
  <1> QED
    BY <1>1, <1>2, NullTypes, SessionAssumption DEF Init, TypeOK, ClientPc, ServerPc, Uids

(* Every step of evaluate_batch preserves TypeOK.                          *)
LEMMA TypeClient == TypeOK /\ ClientStep => TypeOK'
  <1> SUFFICES ASSUME TypeOK, ClientStep PROVE TypeOK'
    OBVIOUS
  <1> USE SessionAssumption DEF TypeOK
  <1>1. ASSUME NEW n \in 0 .. MaxBatch + 1, Evaluate(n) PROVE TypeOK'
    <2>1. cur' \in Request /\ calls' \in 0 .. MaxCalls
      BY <1>1 DEF Evaluate, Request
    <2> QED
      BY <1>1, <2>1 DEF Evaluate, ClientPc, server, streams, renewal
  <1>2. CASE RunRequest
    <2>1. tau_for(cur.n) \in Nat /\ cctr[cur.uid] \in Nat
      BY TauForNat, Fields
    <2>2. [cur EXCEPT !.first = cctr[cur.uid]] \in Request
      BY <2>1 DEF Request
    <2>3. [cctr EXCEPT ![cur.uid] = @ + tau_for(cur.n)] \in [Uids -> Nat]
      BY <2>1, Spend, Fields
    <2>4. cctr' \in [Uids -> Nat]
      BY <1>2, <2>3 DEF RunRequest
    <2>5. cur' \in Request /\ issued' \in SUBSET Request
      BY <1>2, <2>2, NullTypes DEF RunRequest
    <2> QED
      BY <1>2, <2>4, <2>5 DEF RunRequest, ClientPc, server, streams, renewal
  <1>3. ASSUME NEW t \in cdet, RunDetachedRequest(t) PROVE TypeOK'
    <2>1. tau_for(t.n) \in Nat /\ cctr[t.uid] \in Nat
      BY TauForNat, Fields
    <2>2. [cctr EXCEPT ![t.uid] = @ + tau_for(t.n)] \in [Uids -> Nat]
      BY <2>1, Spend, Fields
    <2>3. cctr' \in [Uids -> Nat]
      BY <1>3, <2>2 DEF RunDetachedRequest
    <2> QED
      BY <1>3, <2>3 DEF RunDetachedRequest, ClientPc, server, streams, renewal
  <1>4. CASE SendRequest
    <2>1. c2s' \in Seq(Request)
      BY <1>4, AppendProperties DEF SendRequest
    <2> QED
      BY <1>4, <2>1 DEF SendRequest, ClientPc, server, streams, renewal
  <1>5. CASE ReceiveResponse
    <2>1. cresp' \in Response /\ s2c' \in Seq(Response)
      BY <1>5, HeadTailProperties DEF ReceiveResponse
    <2> QED
      BY <1>5, <2>1 DEF ReceiveResponse, ClientPc, server, streams, renewal
  <1>6. CASE ExchangeFails
    BY <1>6, NullTypes DEF ExchangeFails, ClientPc, server, streams, renewal
  <1>7. CASE Finalize
    <2>1. Output(cresp) \in -1 .. MaxCalls
      BY OutputType
    <2>2. out' \in [Calls -> -1 .. MaxCalls]
      BY <1>7, <2>1 DEF Finalize
    <2> QED
      BY <1>7, <2>2, NullTypes DEF Finalize, ClientPc, server, streams, renewal
  <1>8. CASE CancelEvaluate
    BY <1>8, NullTypes DEF CancelEvaluate, ClientPc, server, streams, renewal
  <1>9. CASE CloseClient
    <2>1. PICK k \in 0 .. Len(c2s) : c2s' = SubSeq(c2s, 1, k)
      BY <1>9 DEF CloseClient
    <2>2. c2s' \in Seq(Request)
      <3>1. \A i \in 1 .. k : c2s[i] \in Request
        BY ElementOfSeq
      <3> QED
        BY <2>1, <3>1, SubSeqProperties
    <2> QED
      BY <1>9, <2>2 DEF CloseClient, ClientPc, server, streams, renewal
  <1> QED
    BY <1>1, <1>2, <1>3, <1>4, <1>5, <1>6, <1>7, <1>8, <1>9 DEF ClientStep

(* Every step of serve_next preserves TypeOK.                              *)
LEMMA TypeServer == TypeOK /\ ServerStep => TypeOK'
  <1> SUFFICES ASSUME TypeOK, ServerStep PROVE TypeOK'
    OBVIOUS
  <1> USE SessionAssumption DEF TypeOK
  <1>1. CASE NextRequest
    <2>1. Head(c2s) \in Request /\ c2s' \in Seq(Request)
      BY <1>1, HeadTailProperties DEF NextRequest
    <2>2. sreq' \in Task
      BY <1>1, <2>1 DEF NextRequest, Task
    <2> QED
      BY <1>1, <2>1, <2>2 DEF NextRequest, ServerPc, AfterError, client, streams, renewal
  <1>2. CASE EndOfRequests
    BY <1>2 DEF EndOfRequests, ServerPc, AfterError, client, streams, renewal
  <1>3. CASE RunBlindEval
    <2>1. tau_for(sreq.req.n) \in Nat /\ sctr[sreq.uid] \in Nat
      BY TauForNat, Fields
    <2>2. Answer(sreq.req, sreq.uid, sctr[sreq.uid]) \in Response
      BY <2>1, Fields DEF Answer, Response
    <2>3. Evaluated(sreq.req, sreq.uid, tau_for(sreq.req.n)) \in LogEntry
      BY <2>1, Fields DEF Evaluated, LogEntry
    <2>4. [sctr EXCEPT ![sreq.uid] = @ + tau_for(sreq.req.n)] \in [Uids -> Nat]
      BY <2>1, Spend, Fields
    <2>5. sctr' \in [Uids -> Nat]
      BY <1>3, <2>4 DEF RunBlindEval
    <2>6. log' \in SUBSET LogEntry /\ sresp' \in Response
      BY <1>3, <2>2, <2>3 DEF RunBlindEval
    <2> QED
      BY <1>3, <2>5, <2>6, NullTypes DEF RunBlindEval, ServerPc, AfterError, client, streams, renewal
  <1>4. CASE ProveFails
    <2>1. PICK k \in 1 .. sreq.req.n :
            /\ sctr' = [sctr EXCEPT ![sreq.uid] = @ + tau_for(k)]
            /\ log' = log \union {Evaluated(sreq.req, sreq.uid, tau_for(k))}
      BY <1>4 DEF ProveFails
    <2>2. tau_for(k) \in Nat /\ sctr[sreq.uid] \in Nat
      <3>1. k \in Nat
        BY Fields
      <3> QED
        BY <3>1, TauForNat, Fields
    <2>3. Evaluated(sreq.req, sreq.uid, tau_for(k)) \in LogEntry
      BY <2>2, Fields DEF Evaluated, LogEntry
    <2>4. sctr' \in [Uids -> Nat] /\ log' \in SUBSET LogEntry
      <3>1. sctr' \in [Uids -> Nat]
        BY <2>1, <2>2, Spend, Fields
      <3> QED
        BY <2>1, <2>3, <3>1
    <2> QED
      BY <1>4, <2>4, NullTypes DEF ProveFails, ServerPc, AfterError, client, streams, renewal
  <1>5. ASSUME NEW t \in sdet, RunDetachedBlindEval(t) PROVE TypeOK'
    <2>1. \A k \in Nat : /\ [sctr EXCEPT ![t.uid] = @ + tau_for(k)] \in [Uids -> Nat]
                          /\ Evaluated(t.req, t.uid, tau_for(k)) \in LogEntry
      <3> SUFFICES ASSUME NEW k \in Nat
                   PROVE  /\ [sctr EXCEPT ![t.uid] = @ + tau_for(k)] \in [Uids -> Nat]
                          /\ Evaluated(t.req, t.uid, tau_for(k)) \in LogEntry
        OBVIOUS
      <3>1. tau_for(k) \in Nat /\ sctr[t.uid] \in Nat
        BY TauForNat, Fields
      <3>2. Evaluated(t.req, t.uid, tau_for(k)) \in LogEntry
        BY <3>1, Fields DEF Evaluated, LogEntry
      <3>3. [sctr EXCEPT ![t.uid] = @ + tau_for(k)] \in [Uids -> Nat]
        BY <3>1, Spend, Fields
      <3> QED
        BY <3>2, <3>3
    <2>3. ASSUME \E k \in 1 .. t.req.n :
                   /\ sctr' = [sctr EXCEPT ![t.uid] = @ + tau_for(k)]
                   /\ log' = log \union {Evaluated(t.req, t.uid, tau_for(k))}
          PROVE  sctr' \in [Uids -> Nat] /\ log' \in SUBSET LogEntry
      <3>1. PICK k \in 1 .. t.req.n :
                 /\ sctr' = [sctr EXCEPT ![t.uid] = @ + tau_for(k)]
                 /\ log' = log \union {Evaluated(t.req, t.uid, tau_for(k))}
        BY <2>3
      <3>2. t.req.n \in Nat
        BY Fields
      <3>3. k \in Nat
        BY <3>2
      <3> QED
        BY <2>1, <3>1, <3>3
    <2>4. sctr' \in [Uids -> Nat] /\ log' \in SUBSET LogEntry
      BY <1>5, <2>3 DEF RunDetachedBlindEval
    <2> QED
      BY <1>5, <2>4 DEF RunDetachedBlindEval, ServerPc, AfterError, client, streams, renewal
  <1>6. CASE Respond
    <2>1. s2c' \in Seq(Response)
      BY <1>6, AppendProperties DEF Respond
    <2> QED
      BY <1>6, <2>1, NullTypes DEF Respond, ServerPc, AfterError, client, streams, renewal
  <1>7. CASE CancelServe
    BY <1>7, NullTypes DEF CancelServe, ServerPc, AfterError, client, streams, renewal
  <1>8. CASE CloseServer
    <2>1. PICK k \in 0 .. Len(s2c) : s2c' = SubSeq(s2c, 1, k)
      BY <1>8 DEF CloseServer
    <2>2. s2c' \in Seq(Response)
      <3>1. \A i \in 1 .. k : s2c[i] \in Response
        BY ElementOfSeq
      <3> QED
        BY <2>1, <3>1, SubSeqProperties
    <2> QED
      BY <1>8, <2>2 DEF CloseServer, ServerPc, AfterError, client, streams, renewal
  <1> QED
    BY <1>1, <1>2, <1>3, <1>4, <1>5, <1>6, <1>7, <1>8 DEF ServerStep

(* Every step of a renewal preserves TypeOK.                               *)
LEMMA TypeRenew == TypeOK /\ RenewStep => TypeOK'
  <1> SUFFICES ASSUME TypeOK, RenewStep PROVE TypeOK'
    OBVIOUS
  <1> USE SessionAssumption DEF TypeOK
  <1>1. ASSUME NEW n \in 1 .. MaxEvaluations, ClientRenew(n) PROVE TypeOK'
    <2>1. catt' \in Uids /\ carg' \in Nat
      BY <1>1 DEF ClientRenew, Uids
    <2> QED
      BY <1>1, <2>1 DEF ClientRenew, ClientPc, ServerPc, AfterError, client, server, streams, renewal
  <1>2. ASSUME NEW n \in 1 .. MaxEvaluations, ServerRenew(n) PROVE TypeOK'
    <2>1. satt' \in Uids /\ sarg' \in Nat
      BY <1>2 DEF ServerRenew, Uids
    <2> QED
      BY <1>2, <2>1 DEF ServerRenew, ClientPc, ServerPc, AfterError, client, server, streams, renewal
  <1>3. CASE RenewExchange
    BY <1>3 DEF RenewExchange, ClientPc, ServerPc, AfterError, client, server, streams, renewal
  <1>4. CASE RenewTauMismatch
    BY <1>4 DEF RenewTauMismatch, ClientPc, ServerPc, AfterError, client, server, streams, renewal
  <1>5. CASE ServerRenewed
    <2>1. sctr' \in [Uids -> Nat] /\ stau' \in [Uids -> Nat]
      BY <1>5, TauForNat DEF ServerRenewed
    <2> QED
      BY <1>5, <2>1 DEF ServerRenewed, ClientPc, ServerPc, AfterError, client, server, streams, renewal
  <1>6. CASE ServerRenewFails
    BY <1>6 DEF ServerRenewFails, ClientPc, ServerPc, AfterError, client, server, streams, renewal
  <1>7. CASE ClientRenewed
    <2>1. cctr' \in [Uids -> Nat] /\ ctau' \in [Uids -> Nat]
      BY <1>7, TauForNat DEF ClientRenewed
    <2> QED
      BY <1>7, <2>1 DEF ClientRenewed, ClientPc, ServerPc, AfterError, client, server, streams, renewal
  <1>8. CASE ClientRenewFails
    BY <1>8 DEF ClientRenewFails, ClientPc, ServerPc, AfterError, client, server, streams, renewal
  <1> QED
    BY <1>1, <1>2, <1>3, <1>4, <1>5, <1>6, <1>7, <1>8 DEF RenewStep

(* Every variable of the connection keeps its type.                        *)
THEOREM SessionType == Spec => []TypeOK
  <1>1. TypeOK /\ UNCHANGED vars => TypeOK'
    BY DEF TypeOK, vars, client, server, streams, renewal
  <1>2. TypeOK /\ [Next]_vars => TypeOK'
    BY <1>1, TypeClient, TypeServer, TypeRenew DEF Next
  <1> QED
    BY TypeInit, <1>2, PTL DEF Spec

----------------------------------------------------------------------------
(* Counting served runs.                                                   *)

(* Serving d more runs, none of them served before, adds d to the count.   *)
LEMMA CardinalityAdd ==
  ASSUME NEW S, IsFiniteSet(S), NEW a \in Nat, NEW d \in Nat,
         S \cap (a .. (a + d - 1)) = {}
  PROVE  /\ IsFiniteSet(S \union (a .. (a + d - 1)))
         /\ Cardinality(S \union (a .. (a + d - 1))) = Cardinality(S) + d
  <1> DEFINE T == a .. (a + d - 1)
  <1>1. IsFiniteSet(T) /\ Cardinality(T) = d
    BY FS_Interval
  <1>2. Cardinality(S) \in Nat
    BY FS_CardinalityType
  <1>3. /\ IsFiniteSet(S \union T)
        /\ Cardinality(S \union T) = Cardinality(S) + Cardinality(T) - Cardinality(S \cap T)
    BY <1>1, FS_Union
  <1>4. Cardinality(S \cap T) = 0
    BY FS_EmptySet
  <1> QED
    BY <1>1, <1>2, <1>3, <1>4

(* There are at most a runs below run a.                                   *)
LEMMA CardinalityBelow ==
  ASSUME NEW a \in Nat, NEW S \in SUBSET (0 .. (a - 1))
  PROVE  IsFiniteSet(S) /\ Cardinality(S) <= a
  <1>1. IsFiniteSet(0 .. (a - 1)) /\ Cardinality(0 .. (a - 1)) = a
    BY FS_Interval
  <1>2. IsFiniteSet(S) /\ Cardinality(S) <= Cardinality(0 .. (a - 1))
    BY <1>1, FS_Subset
  <1> QED
    BY <1>1, <1>2

(* An entry in the log serves its rows' runs of its own session.           *)
LEMMA ServedMember ==
  ASSUME TypeOK, NEW u \in Uids, NEW x
  PROVE  x \in Served(u) <=> \E l \in log : l.uid = u /\ x \in l.req.first .. (l.req.first + l.rows - 1)
  BY DEF Served

(* What one more evaluation adds to the served runs.                       *)
LEMMA ServedAdd ==
  ASSUME NEW e, log' = log \union {e}, NEW u \in Uids
  PROVE  Served(u)' = IF e.uid = u
                      THEN Served(u) \union (e.req.first .. (e.req.first + e.rows - 1))
                      ELSE Served(u)
  BY DEF Served

----------------------------------------------------------------------------
(* The inductive invariant.                                                *)

(* Init establishes IInv.                                                  *)
LEMMA InvInit == Init => IInv
  <1> SUFFICES ASSUME Init PROVE IInv
    OBVIOUS
  <1>1. \A u \in Uids : Served(u) = {}
    BY DEF Init, Served
  <1>2. CountInv
    BY <1>1, FS_EmptySet DEF Init, CountInv
  <1>3. IssuedInv /\ LogInv
    BY DEF Init, IssuedInv, LogInv, RunsSpentOnce
  <1>4. StreamInv /\ ServeInv
    BY DEF Init, StreamInv, ServeInv
  <1>5. CurInv /\ RenewInv
    BY DEF Init, CurInv, RenewInv, Paid
  <1>6. OutputsRight
    BY DEF Init, OutputsRight
  <1> QED
    BY <1>2, <1>3, <1>4, <1>5, <1>6 DEF IInv

(* Everything below the client's cursor stays as it is when only these     *)
(* variables change.                                                       *)
LEMMA ServedFrame == ASSUME UNCHANGED log, NEW u PROVE Served(u)' = Served(u)
  BY DEF Served

(* CountInv depends on log and sctr only.                                  *)
LEMMA CountFrame == ASSUME CountInv, UNCHANGED <<log, sctr>> PROVE CountInv'
  BY ServedFrame DEF CountInv

(* The fields of an issued request.                                        *)
LEMMA IssuedTypes ==
  ASSUME TypeOK
  PROVE  \A x \in issued : /\ x.uid \in Uids /\ x.uid \in Nat /\ x.id \in Nat
                           /\ x.first \in Nat /\ tau_for(x.n) \in Nat /\ End(x) \in Nat
  <1> TAKE x \in issued
  <1>1. x \in Request
    BY DEF TypeOK
  <1>2. x.uid \in Uids /\ x.id \in 0 .. MaxCalls /\ x.first \in Nat /\ x.n \in Nat
    BY <1>1, Fields
  <1>3. tau_for(x.n) \in Nat
    BY <1>2, TauForNat
  <1>4. x.uid \in Nat /\ x.id \in Nat
    BY <1>2, SessionAssumption DEF Uids
  <1> QED
    BY <1>2, <1>3, <1>4 DEF End

(* The counters are numbers.                                               *)
LEMMA Numbers ==
  ASSUME TypeOK
  PROVE  /\ calls \in Nat /\ cuid \in Nat /\ suid \in Nat /\ catt \in Nat /\ satt \in Nat
         /\ \A u \in Uids : cctr[u] \in Nat /\ sctr[u] \in Nat
  <1>1. calls \in 0 .. MaxCalls /\ cuid \in Uids /\ suid \in Uids /\ catt \in Uids /\ satt \in Uids
    BY DEF TypeOK
  <1>2. cctr \in [Uids -> Nat] /\ sctr \in [Uids -> Nat]
    BY DEF TypeOK
  <1>3. \A u \in Uids : u \in Nat
    BY SessionAssumption DEF Uids
  <1> QED
    BY <1>1, <1>2, <1>3, SessionAssumption

(* Evaluate preserves IInv: the new call has an id above every issued request. *)
LEMMA InvEvaluate == ASSUME TypeOK, IInv, NEW n \in 0 .. MaxBatch + 1, Evaluate(n) PROVE IInv'
  <1> USE DEF Evaluate, server, streams, renewal
  <1>1. IssuedInv'
    <2>1. calls' = calls + 1 /\ UNCHANGED <<issued, cuid, cctr>>
      OBVIOUS
    <2> QED
      BY <2>1, IssuedTypes, Numbers DEF IInv, IssuedInv, End
  <1>2. CurInv'
    <2>1. cur'.id = calls + 1 /\ cur'.uid = cuid
      OBVIOUS
    <2>2. \A x \in issued : x.id \in 1 .. calls
      BY DEF IInv, IssuedInv
    <2> QED
      BY <2>1, <2>2, Numbers DEF CurInv, Paid
  <1>3. StreamInv'
    BY DEF IInv, StreamInv, NotAhead
  <1>4. ServeInv' /\ LogInv'
    BY DEF IInv, ServeInv, LogInv, RunsSpentOnce, NotAhead, Taken
  <1>5. CountInv' /\ RenewInv' /\ OutputsRight'
    BY CountFrame DEF IInv, RenewInv, OutputsRight
  <1> QED
    BY <1>1, <1>2, <1>3, <1>4, <1>5 DEF IInv

(* RunRequest preserves IInv: the interval it issues lies above all earlier ones. *)
LEMMA InvRunRequest == ASSUME TypeOK, IInv, RunRequest PROVE IInv'
  <1> USE DEF RunRequest, server, streams, renewal
  <1>1. CASE ~RequestOk(cur.n, cur.uid)
    <2>1. IssuedInv' /\ CurInv' /\ StreamInv'
      BY <1>1 DEF IInv, IssuedInv, CurInv, StreamInv, NotAhead, Paid
    <2>2. ServeInv' /\ LogInv'
      BY <1>1 DEF IInv, ServeInv, LogInv, RunsSpentOnce, NotAhead, Taken
    <2>3. CountInv' /\ RenewInv' /\ OutputsRight'
      BY <1>1, CountFrame DEF IInv, RenewInv, OutputsRight
    <2> QED
      BY <2>1, <2>2, <2>3 DEF IInv
  <1>2. CASE RequestOk(cur.n, cur.uid)
    <2>1. cur'.id = cur.id /\ cur'.uid = cur.uid /\ cur'.n = cur.n /\ cur'.first = cctr[cur.uid]
      BY <1>2 DEF TypeOK, Request
    <2>2. /\ cur.id = calls /\ calls >= 1 /\ cur.uid = cuid /\ cur.uid \in Uids /\ cur.n \in Nat
          /\ \A x \in issued : x.id < cur.id
      BY <1>2, Fields DEF IInv, CurInv, TypeOK
    <2>3. tau_for(cur.n) \in Nat
      BY <2>2, TauForNat
    <2>4. /\ cctr'[cur.uid] = cctr[cur.uid] + tau_for(cur.n)
          /\ \A v \in Uids \ {cur.uid} : cctr'[v] = cctr[v]
      BY <1>2, <2>2, <2>3, Spend DEF TypeOK
    <2>5. issued' = issued \union {cur'}
      BY <1>2
    <2>6. \A x \in issued : x.uid \in Uids /\ x.id \in Nat /\ x.first \in Nat /\ End(x) \in Nat
      BY IssuedTypes
    <2>7. IssuedInv'
      <3>1. \A x \in issued' : x.id \in 1 .. calls /\ x.uid <= cuid /\ End(x) <= cctr'[x.uid]
        <4>1. ASSUME NEW x \in issued
              PROVE  x.id \in 1 .. calls /\ x.uid <= cuid /\ End(x) <= cctr'[x.uid]
          <5>1. x.id \in 1 .. calls /\ x.uid <= cuid /\ End(x) <= cctr[x.uid]
            BY DEF IInv, IssuedInv
          <5>2. cctr[x.uid] <= cctr'[x.uid]
            BY <2>2, <2>3, <2>4, <2>6, Numbers
          <5>3. cctr'[x.uid] \in Nat
            BY <2>2, <2>3, <2>4, <2>6, Numbers
          <5> QED
            BY <5>1, <5>2, <5>3, <2>6, Numbers
        <4>2. cur'.id \in 1 .. calls /\ cur'.uid <= cuid /\ End(cur') <= cctr'[cur'.uid]
          BY <2>1, <2>2, <2>3, <2>4, Numbers DEF End
        <4> QED
          BY <4>1, <4>2, <2>5
      <3>2. \A x, y \in issued' : x.id = y.id => x = y
        BY <2>1, <2>2, <2>5, <2>6 DEF IInv, IssuedInv
      <3>3. \A x, y \in issued' : (x.id < y.id /\ x.uid = y.uid) => End(x) <= y.first
        <4>1. ASSUME NEW x \in issued, x.uid = cur.uid PROVE End(x) <= cur'.first
          BY <4>1, <2>1 DEF IInv, IssuedInv
        <4>2. ASSUME NEW y \in issued PROVE ~(cur'.id < y.id)
          BY <4>2, <2>1, <2>2, <2>6, Numbers
        <4>3. ~(cur'.id < cur'.id)
          BY <2>1, <2>2, Numbers
        <4> QED
          BY <2>1, <2>5, <4>1, <4>2, <4>3 DEF IInv, IssuedInv
      <3>4. \A x \in issued' : x.first < End(x)
        <4>1. cur'.first < End(cur')
          BY <1>2, <2>1, <2>2, <2>3, TauForPositive, Numbers DEF End, RequestOk, BatchOk
        <4> QED
          BY <4>1, <2>5 DEF IInv, IssuedInv
      <3> QED
        BY <1>2, <3>1, <3>2, <3>3, <3>4 DEF IssuedInv, End, tau_for
    <2>8. CurInv'
      BY <1>2, <2>1, <2>2, <2>5 DEF CurInv, Paid
    <2>9. StreamInv'
      BY <1>2, <2>1, <2>2, <2>5 DEF IInv, StreamInv, NotAhead
    <2>10. ServeInv'
      BY <1>2, <2>1, <2>2, <2>5 DEF IInv, ServeInv, NotAhead, Taken
    <2>11. LogInv'
      BY <1>2, <2>1, <2>2, <2>5 DEF IInv, LogInv, RunsSpentOnce, Taken, tau_for
    <2>12. CountInv' /\ RenewInv' /\ OutputsRight'
      BY <1>2, CountFrame DEF IInv, RenewInv, OutputsRight
    <2> QED
      BY <2>7, <2>8, <2>9, <2>10, <2>11, <2>12 DEF IInv
  <1> QED
    BY <1>1, <1>2

(* A request task whose call is gone only skips runs.                      *)
LEMMA InvRunDetachedRequest ==
  ASSUME TypeOK, IInv, NEW t \in cdet, RunDetachedRequest(t) PROVE IInv'
  <1> USE DEF RunDetachedRequest, server, streams, renewal
  <1>1. IssuedInv'
    <2>1. t.uid \in Uids /\ tau_for(t.n) \in Nat
      BY Fields, TauForNat DEF TypeOK
    <2>2. \A u \in Uids : cctr'[u] \in Nat /\ cctr[u] <= cctr'[u]
      <3>1. CASE RequestOk(t.n, t.uid)
        <4>1. /\ cctr'[t.uid] = cctr[t.uid] + tau_for(t.n)
              /\ \A v \in Uids \ {t.uid} : cctr'[v] = cctr[v]
          BY <3>1, <2>1, Spend DEF TypeOK
        <4> QED
          BY <2>1, <4>1, Numbers
      <3> QED
        BY <3>1, Numbers
    <2>3. \A x \in issued : End(x) <= cctr'[x.uid]
      <3> TAKE x \in issued
      <3>1. End(x) <= cctr[x.uid]
        BY DEF IInv, IssuedInv
      <3> QED
        BY <3>1, <2>2, IssuedTypes, Numbers
    <2>4. UNCHANGED <<issued, calls, cuid>>
      OBVIOUS
    <2> QED
      BY <2>3, <2>4 DEF IInv, IssuedInv, End
  <1>2. CurInv' /\ StreamInv'
    BY DEF IInv, CurInv, StreamInv, NotAhead
  <1>3. ServeInv' /\ LogInv'
    BY DEF IInv, ServeInv, LogInv, RunsSpentOnce, NotAhead, Taken
  <1>4. CountInv' /\ RenewInv' /\ OutputsRight'
    BY CountFrame DEF IInv, RenewInv, OutputsRight
  <1> QED
    BY <1>1, <1>2, <1>3, <1>4 DEF IInv

(* SendRequest preserves IInv: the stream stays ordered by call.           *)
LEMMA InvSendRequest == ASSUME TypeOK, IInv, SendRequest PROVE IInv'
  <1> USE DEF SendRequest, server, renewal
  <1>1. /\ Len(c2s) \in Nat /\ Len(c2s') = Len(c2s) + 1
        /\ \A k \in 1 .. Len(c2s) : c2s'[k] = c2s[k]
        /\ c2s'[Len(c2s) + 1] = cur
    BY AppendProperties, LenProperties DEF TypeOK
  <1>2. cur \in issued /\ \A k \in 1 .. Len(c2s) : c2s[k].id < cur.id
    BY DEF IInv, CurInv, StreamInv, Paid
  <1>3. IssuedInv' /\ CurInv'
    BY DEF IInv, IssuedInv, CurInv, NotAhead, Paid, End
  <1>4. StreamInv'
    <2>1. \A k \in 1 .. Len(c2s') : c2s'[k] \in issued
      BY <1>1, <1>2 DEF IInv, StreamInv
    <2>2. \A j, k \in 1 .. Len(c2s') : j < k => c2s'[j].id < c2s'[k].id
      <3> TAKE j, k \in 1 .. Len(c2s')
      <3>1. CASE k = Len(c2s) + 1
        BY <1>1, <1>2, <3>1
      <3>2. CASE k # Len(c2s) + 1
        BY <1>1, <3>2 DEF IInv, StreamInv
      <3> QED
        BY <3>1, <3>2
    <2> QED
      BY <2>1, <2>2 DEF IInv, StreamInv, NotAhead
  <1>5. \A i : Taken(i) => Taken(i)'
    BY <1>1 DEF Taken
  <1>6. ServeInv' /\ LogInv'
    BY <1>5 DEF IInv, ServeInv, LogInv, RunsSpentOnce, NotAhead
  <1>7. CountInv' /\ RenewInv' /\ OutputsRight'
    BY CountFrame DEF IInv, RenewInv, OutputsRight
  <1> QED
    BY <1>3, <1>4, <1>6, <1>7 DEF IInv

(* ReceiveResponse preserves IInv: what it takes from the stream is not ahead. *)
LEMMA InvReceiveResponse == ASSUME TypeOK, IInv, ReceiveResponse PROVE IInv'
  <1> USE DEF ReceiveResponse, server, renewal
  <1>1. /\ Len(s2c) \in Nat /\ Len(s2c') = Len(s2c) - 1 /\ Len(s2c) # 0
        /\ \A k \in 1 .. Len(s2c') : s2c'[k] = s2c[k + 1]
        /\ cresp' = s2c[1]
    BY HeadTailProperties, LenProperties, EmptySeq DEF TypeOK
  <1>2. IssuedInv' /\ CurInv'
    BY <1>1 DEF IInv, IssuedInv, CurInv, StreamInv, NotAhead, Paid, End
  <1>3. StreamInv'
    BY <1>1 DEF IInv, StreamInv, NotAhead
  <1>4. ServeInv' /\ LogInv'
    BY DEF IInv, ServeInv, LogInv, RunsSpentOnce, NotAhead, Taken
  <1>5. CountInv' /\ RenewInv' /\ OutputsRight'
    BY CountFrame DEF IInv, RenewInv, OutputsRight
  <1> QED
    BY <1>2, <1>3, <1>4, <1>5 DEF IInv

(* The call ends without outputs.                                          *)
LEMMA InvCallEnds ==
  ASSUME TypeOK, IInv, cpc' = "idle",
         UNCHANGED <<cuid, cctr, calls, out, issued, server, streams, renewal>>
  PROVE  IInv'
  <1> USE DEF server, streams, renewal
  <1>1. IssuedInv' /\ CurInv' /\ StreamInv'
    BY DEF IInv, IssuedInv, CurInv, StreamInv, NotAhead, Paid
  <1>2. ServeInv' /\ LogInv'
    BY DEF IInv, ServeInv, LogInv, RunsSpentOnce, NotAhead, Taken
  <1>3. CountInv' /\ RenewInv' /\ OutputsRight'
    BY CountFrame DEF IInv, RenewInv, OutputsRight
  <1> QED
    BY <1>1, <1>2, <1>3 DEF IInv

(* The argument for OutputsRight: an accepted response has the first run   *)
(* of the call in progress, was computed on runs no later than those of    *)
(* its own request, and a request of an earlier call has earlier runs.     *)
LEMMA InvFinalize == ASSUME TypeOK, IInv, Finalize PROVE IInv'
  <1> USE DEF Finalize, server, streams, renewal
  <1>1. cur \in issued /\ cur.id = calls /\ NotAhead(cresp)
    BY DEF IInv, CurInv, Paid
  <1>2. FinalizeOk(cur, cresp) => Output(cresp) = cur.id
    <2> SUFFICES ASSUME FinalizeOk(cur, cresp) PROVE Output(cresp) = cur.id
      OBVIOUS
    <2> DEFINE q == cresp.of
    <2>1. q \in issued /\ q.uid = cur.uid /\ cur.first <= q.first
      BY <1>1 DEF FinalizeOk, NotAhead
    <2>2. q.id <= cur.id
      BY <1>1, <2>1, IssuedTypes DEF IInv, IssuedInv
    <2>3. ~(q.id < cur.id)
      <3> SUFFICES ASSUME q.id < cur.id PROVE FALSE
        OBVIOUS
      <3>1. End(q) <= cur.first
        BY <1>1, <2>1 DEF IInv, IssuedInv
      <3>2. q.first < End(q)
        BY <2>1 DEF IInv, IssuedInv
      <3> QED
        BY <1>1, <2>1, <3>1, <3>2, IssuedTypes
    <2>4. q = cur
      BY <1>1, <2>1, <2>2, <2>3, IssuedTypes DEF IInv, IssuedInv
    <2> QED
      BY <2>4 DEF Output, FinalizeOk
  <1>3. OutputsRight'
    BY <1>1, <1>2 DEF IInv, OutputsRight, TypeOK
  <1>4. IssuedInv' /\ CurInv' /\ StreamInv'
    BY DEF IInv, IssuedInv, CurInv, StreamInv, NotAhead, Paid
  <1>5. ServeInv' /\ LogInv'
    BY DEF IInv, ServeInv, LogInv, RunsSpentOnce, NotAhead, Taken
  <1>6. CountInv' /\ RenewInv'
    BY CountFrame DEF IInv, RenewInv
  <1> QED
    BY <1>3, <1>4, <1>5, <1>6 DEF IInv

(* CloseClient preserves IInv: it only drops a suffix of the stream.       *)
LEMMA InvCloseClient == ASSUME TypeOK, IInv, CloseClient PROVE IInv'
  <1> USE DEF CloseClient, server, renewal
  <1>1. PICK k \in 0 .. Len(c2s) : c2s' = SubSeq(c2s, 1, k)
    OBVIOUS
  <1>2. Len(c2s') <= Len(c2s) /\ \A i \in 1 .. Len(c2s') : c2s'[i] = c2s[i]
    <2>1. \A i \in 1 .. k : c2s[i] \in Request
      BY ElementOfSeq DEF TypeOK
    <2> QED
      BY <1>1, <2>1, SubSeqProperties, LenProperties DEF TypeOK
  <1>3. Len(c2s) \in Nat /\ Len(c2s') \in Nat
    BY <1>1, SubSeqProperties, LenProperties, ElementOfSeq DEF TypeOK
  <1>4. IssuedInv' /\ CurInv'
    BY DEF IInv, IssuedInv, CurInv, Paid
  <1>5. StreamInv'
    BY <1>2, <1>3 DEF IInv, StreamInv, NotAhead
  <1>6. \A i : Taken(i) => Taken(i)'
    BY <1>2, <1>3 DEF Taken
  <1>7. ServeInv' /\ LogInv'
    BY <1>6 DEF IInv, ServeInv, LogInv, RunsSpentOnce, NotAhead
  <1>8. CountInv' /\ RenewInv' /\ OutputsRight'
    BY CountFrame DEF IInv, RenewInv, OutputsRight
  <1> QED
    BY <1>4, <1>5, <1>7, <1>8 DEF IInv

(* Every client step preserves IInv.                                       *)
LEMMA InvClientStep == ASSUME TypeOK, IInv, ClientStep PROVE IInv'
  <1>1. CASE ExchangeFails
    BY <1>1, InvCallEnds DEF ExchangeFails
  <1>2. CASE CancelEvaluate
    BY <1>2, InvCallEnds DEF CancelEvaluate
  <1> QED
    BY <1>1, <1>2, InvEvaluate, InvRunRequest, InvRunDetachedRequest, InvSendRequest,
       InvReceiveResponse, InvFinalize, InvCloseClient DEF ClientStep

----------------------------------------------------------------------------
(* The server.                                                             *)

(* Evaluating d rows of request q, which was not evaluated before, on the  *)
(* next d runs of its session.                                             *)
LEMMA EvaluateRows ==
  ASSUME TypeOK, IInv, NEW q \in issued, NEW d \in Nat, q.uid <= suid,
         d <= tau_for(q.n), \A l \in log : l.req.id # q.id,
         sctr' = [sctr EXCEPT ![q.uid] = @ + d],
         log' = log \union {Evaluated(q, q.uid, d)}
  PROVE  /\ CountInv'
         /\ RunsSpentOnce'
         /\ \A l \in log' : l.at + l.rows <= sctr'[l.uid]
  <1> DEFINE e == Evaluated(q, q.uid, d)
             u == q.uid
  <1>1. u \in Uids /\ q.first \in Nat /\ tau_for(q.n) \in Nat /\ q.id \in Nat
    BY IssuedTypes
  <1>2. e.uid = u /\ e.at = sctr[u] /\ e.rows = d /\ e.req = q
    BY DEF Evaluated
  <1>3. sctr'[u] = sctr[u] + d /\ \A v \in Uids \ {u} : sctr'[v] = sctr[v]
    BY <1>1, Spend DEF TypeOK
  <1>4. \A l \in log : /\ l.uid \in Uids /\ l.at \in Nat /\ l.rows \in Nat
                        /\ l.req \in issued /\ l.uid = l.req.uid
                        /\ l.rows <= tau_for(l.req.n) /\ l.at + l.rows <= sctr[l.uid]
    BY DEF IInv, LogInv, TypeOK, LogEntry
  <1>5. Served(u) \cap (q.first .. (q.first + d - 1)) = {}
    <2> SUFFICES ASSUME NEW x \in Served(u), x \in q.first .. (q.first + d - 1) PROVE FALSE
      OBVIOUS
    <2>1. PICK l \in log : l.uid = u /\ x \in l.req.first .. (l.req.first + l.rows - 1)
      BY <1>1, ServedMember
    <2>2. l.req \in issued /\ l.req.uid = q.uid /\ l.rows <= tau_for(l.req.n) /\ l.rows \in Nat
      BY <1>4, <2>1
    <2>3. l.req.first \in Nat /\ tau_for(l.req.n) \in Nat /\ l.req.id \in Nat
      BY <2>2, IssuedTypes
    <2>4. l.req.id < q.id \/ q.id < l.req.id
      BY <1>1, <2>3
    <2>5. l.req.first + tau_for(l.req.n) <= q.first \/ q.first + tau_for(q.n) <= l.req.first
      BY <2>2, <2>4 DEF IInv, IssuedInv, End
    <2> QED
      BY <1>1, <2>1, <2>2, <2>3, <2>5
  <1>6. CountInv'
    <2> SUFFICES ASSUME NEW v \in Uids
                 PROVE  IsFiniteSet(Served(v)') /\ sctr'[v] = Cardinality(Served(v)')
      BY DEF CountInv
    <2>1. IsFiniteSet(Served(v)) /\ sctr[v] = Cardinality(Served(v))
      BY DEF IInv, CountInv
    <2>2. CASE v = u
      <3>1. Served(v)' = Served(v) \union (q.first .. (q.first + d - 1))
        BY <1>2, <2>2, ServedAdd
      <3>2. /\ IsFiniteSet(Served(v) \union (q.first .. (q.first + d - 1)))
            /\ Cardinality(Served(v) \union (q.first .. (q.first + d - 1)))
                 = Cardinality(Served(v)) + d
        BY <1>1, <1>5, <2>1, <2>2, CardinalityAdd
      <3> QED
        BY <1>3, <2>1, <2>2, <3>1, <3>2
    <2>3. CASE v # u
      <3>1. Served(v)' = Served(v)
        BY <1>2, <2>3, ServedAdd
      <3> QED
        BY <1>3, <2>1, <2>3, <3>1
    <2> QED
      BY <2>2, <2>3
  <1>7. \A l \in log' : l.at + l.rows <= sctr'[l.uid]
    <2>1. sctr[u] \in Nat
      BY <1>1, Numbers
    <2>2. ASSUME NEW l \in log PROVE l.at + l.rows <= sctr'[l.uid]
      BY <1>1, <1>3, <1>4, <2>1, Numbers
    <2>3. e.at + e.rows <= sctr'[e.uid]
      BY <1>2, <1>3, <2>1
    <2> QED
      BY <2>2, <2>3
  <1>8. RunsSpentOnce'
    <2> SUFFICES ASSUME NEW a \in log', NEW b \in log', a.uid = b.uid, a # b
                 PROVE  a.at + a.rows <= b.at \/ b.at + b.rows <= a.at
      BY DEF RunsSpentOnce
    <2>1. CASE a \in log /\ b \in log
      BY <2>1 DEF IInv, LogInv, RunsSpentOnce
    <2>2. CASE a = e /\ b \in log
      BY <2>2, <1>2, <1>4
    <2>3. CASE b = e /\ a \in log
      BY <2>3, <1>2, <1>4
    <2> QED
      BY <2>1, <2>2, <2>3
  <1> QED
    BY <1>6, <1>7, <1>8

(* NextRequest preserves IInv: the request taken is later than all taken before. *)
LEMMA InvNextRequest == ASSUME TypeOK, IInv, NextRequest PROVE IInv'
  <1> USE DEF NextRequest, client, renewal
  <1>1. /\ Len(c2s) \in Nat /\ Len(c2s') = Len(c2s) - 1 /\ Len(c2s) # 0
        /\ \A k \in 1 .. Len(c2s') : c2s'[k] = c2s[k + 1]
        /\ sreq'.req = c2s[1] /\ sreq'.uid = suid
    BY HeadTailProperties, LenProperties, EmptySeq DEF TypeOK
  <1>2. IssuedInv' /\ CurInv'
    BY DEF IInv, IssuedInv, CurInv, NotAhead, Paid
  <1>3. StreamInv'
    BY <1>1 DEF IInv, StreamInv, NotAhead
  <1>4. \A i : Taken(i) => Taken(i)' /\ i < c2s[1].id
    BY <1>1 DEF Taken
  <1>5. \A h : h = c2s[1] => h \in issued /\ Taken(h.id)'
    <2> SUFFICES ASSUME NEW h, h = c2s[1] PROVE h \in issued /\ Taken(h.id)'
      OBVIOUS
    <2>1. h \in issued
      BY <1>1 DEF IInv, StreamInv
    <2>2. \A k \in 1 .. Len(c2s') : h.id < c2s'[k].id
      <3> TAKE k \in 1 .. Len(c2s')
      <3>1. k + 1 \in 1 .. Len(c2s) /\ 1 \in 1 .. Len(c2s) /\ 1 < k + 1
        BY <1>1
      <3>2. c2s[1].id < c2s[k + 1].id
        BY <3>1 DEF IInv, StreamInv
      <3> QED
        BY <1>1, <3>2
    <2>3. cpc' = "sending" => h.id < cur'.id
      BY <1>1 DEF IInv, StreamInv
    <2> QED
      BY <2>1, <2>2, <2>3 DEF Taken
  <1>6. ServeInv'
    <2>1. \A t \in sdet : t.req \in issued /\ t.uid <= suid /\ Taken(t.req.id)
      BY DEF IInv, ServeInv
    <2>2. \A t \in sdet : t.req \in issued /\ t.uid <= suid /\ Taken(t.req.id)' /\ t.req.id < c2s[1].id
      BY <2>1, <1>4
    <2>3. sreq'.uid <= suid
      BY <1>1, Numbers
    <2>4. \A a, b \in sdet : a.req.id = b.req.id => a = b
      BY DEF IInv, ServeInv
    <2>5. spc' = "serving" /\ UNCHANGED <<sdet, issued, suid>>
      OBVIOUS
    <2> HIDE DEF NextRequest
    <2>6. sreq'.req \in issued' /\ Taken(sreq.req.id)'
      BY <1>1, <1>5, <2>5 DEF Taken
    <2> QED
      BY <1>1, <2>2, <2>3, <2>4, <2>5, <2>6 DEF ServeInv
  <1>7. LogInv'
    <2>1. \A l \in log : Taken(l.req.id)
      BY DEF IInv, LogInv
    <2>2. \A l \in log : Taken(l.req.id)' /\ l.req.id < c2s[1].id
      BY <2>1, <1>4
    <2>3. spc' = "serving" /\ UNCHANGED <<sdet, issued, suid, log, sctr>>
      OBVIOUS
    <2> HIDE DEF NextRequest
    <2> QED
      BY <1>1, <2>2, <2>3 DEF IInv, LogInv, RunsSpentOnce
  <1>8. CountInv' /\ RenewInv' /\ OutputsRight'
    BY CountFrame DEF IInv, RenewInv, OutputsRight
  <1> QED
    BY <1>2, <1>3, <1>6, <1>7, <1>8 DEF IInv

(* Nothing of the client, the streams or the renewals changes.             *)
LEMMA ClientFrame ==
  ASSUME IInv, UNCHANGED <<client, streams, renewal, suid>>, spc' # "renewing"
  PROVE  IssuedInv' /\ CurInv' /\ StreamInv' /\ RenewInv' /\ OutputsRight'
  BY DEF IInv, IssuedInv, CurInv, StreamInv, RenewInv, OutputsRight, NotAhead, Paid,
         client, streams, renewal

(* Taken depends on the client and the streams only.                       *)
LEMMA TakenFrame == ASSUME UNCHANGED <<client, streams>>, NEW i PROVE Taken(i)' = Taken(i)
  BY DEF Taken, client, streams

(* The counter has only counted runs below the first run of the request    *)
(* being served.                                                           *)
LEMMA CounterBelow ==
  ASSUME TypeOK, IInv, spc = "serving", sreq.req.uid = sreq.uid
  PROVE  sctr[sreq.uid] <= sreq.req.first
  <1> DEFINE q == sreq.req
  <1>1. q \in issued /\ q.uid \in Uids /\ q.first \in Nat
    BY IssuedTypes DEF IInv, ServeInv
  <1>2. Served(q.uid) \in SUBSET (0 .. (q.first - 1))
    <2> SUFFICES ASSUME NEW x \in Served(q.uid) PROVE x \in 0 .. (q.first - 1)
      OBVIOUS
    <2>1. PICK l \in log : l.uid = q.uid /\ x \in l.req.first .. (l.req.first + l.rows - 1)
      BY <1>1, ServedMember
    <2>2. /\ l.req \in issued /\ l.req.uid = q.uid /\ l.req.id < q.id
          /\ l.rows <= tau_for(l.req.n) /\ l.rows \in Nat
      BY <2>1 DEF IInv, LogInv, TypeOK, LogEntry
    <2>3. l.req.first \in Nat /\ tau_for(l.req.n) \in Nat
      BY <2>2, IssuedTypes
    <2>4. l.req.first + tau_for(l.req.n) <= q.first
      BY <1>1, <2>2 DEF IInv, IssuedInv, End
    <2> QED
      BY <1>1, <2>1, <2>2, <2>3, <2>4
  <1> QED
    BY <1>1, <1>2, CardinalityBelow DEF IInv, CountInv

(* The current request leaves spc = "serving" with d of its rows logged.   *)
LEMMA InvEvaluated ==
  ASSUME TypeOK, IInv, spc = "serving", sreq.req.uid = sreq.uid,
         NEW d \in Nat, d <= tau_for(sreq.req.n),
         sctr' = [sctr EXCEPT ![sreq.uid] = @ + d],
         log' = log \union {Evaluated(sreq.req, sreq.uid, d)},
         spc' \notin {"serving", "renewing"}, spc' = "responding" => NotAhead(sresp)',
         UNCHANGED <<client, suid, sdet, streams, renewal>>
  PROVE  IInv'
  <1> DEFINE q == sreq.req
             e == Evaluated(q, q.uid, d)
  <1>1. q \in issued /\ q.uid <= suid /\ Taken(q.id)
    BY DEF IInv, ServeInv
  <1>2. \A l \in log : l.req.id < q.id
    BY DEF IInv, LogInv
  <1>3. \A t \in sdet : t.req.id < q.id
    BY DEF IInv, ServeInv
  <1>4. q.id \in Nat /\ \A x \in issued : x.id \in Nat
    BY <1>1, IssuedTypes
  <1>5. \A l \in log : l.req.id # q.id
    BY <1>2, <1>4 DEF IInv, LogInv
  <1>6. \A t \in sdet : t.req.id # q.id
    BY <1>3, <1>4 DEF IInv, ServeInv
  <1>7. /\ CountInv' /\ RunsSpentOnce'
        /\ \A l \in log' : l.at + l.rows <= sctr'[l.uid]
    BY <1>1, <1>5, EvaluateRows
  <1>8. ServeInv'
    BY TakenFrame DEF IInv, ServeInv, NotAhead, client, streams
  <1>9. LogInv'
    <2>1. e.req = q /\ e.uid = q.uid /\ e.rows = d
      BY DEF Evaluated
    <2>2. \A l \in log' :
            /\ l.req \in issued /\ l.uid = l.req.uid /\ l.uid <= suid /\ Taken(l.req.id)
            /\ l.rows <= tau_for(l.req.n) /\ \A t \in sdet : l.req.id # t.req.id
      BY <1>1, <1>6, <2>1 DEF IInv, LogInv
    <2>3. UNCHANGED <<issued, suid, sdet>>
      BY DEF client
    <2> QED
      BY <1>7, <2>2, <2>3, TakenFrame DEF LogInv, tau_for
  <1> QED
    BY <1>7, <1>8, <1>9, ClientFrame DEF IInv

(* RunBlindEval preserves IInv.                                            *)
LEMMA InvRunBlindEval == ASSUME TypeOK, IInv, RunBlindEval PROVE IInv'
  <1>1. CASE BlindEvalOk(sreq.req, sreq.uid)
    <2>1. sreq.req.uid = sreq.uid /\ tau_for(sreq.req.n) \in Nat
      BY <1>1, Fields, TauForNat DEF BlindEvalOk, TypeOK
    <2>2. sreq.req \in issued
      BY DEF IInv, ServeInv, RunBlindEval
    <2>3. NotAhead(sresp)'
      BY <1>1, <2>1, <2>2, CounterBelow DEF RunBlindEval, NotAhead, Answer, client
    <2> QED
      BY <1>1, <2>1, <2>3, InvEvaluated DEF RunBlindEval
  <1>2. CASE ~BlindEvalOk(sreq.req, sreq.uid)
    <2>1. spc' \notin {"serving", "renewing", "responding"}
      BY <1>2 DEF RunBlindEval, AfterError
    <2>2. CountInv'
      BY <1>2, CountFrame DEF RunBlindEval, IInv
    <2>3. ServeInv' /\ LogInv'
      BY <1>2, <2>1, TakenFrame DEF RunBlindEval, IInv, ServeInv, LogInv, RunsSpentOnce, client, streams
    <2> QED
      BY <2>1, <2>2, <2>3, ClientFrame DEF IInv, RunBlindEval
  <1> QED
    BY <1>1, <1>2

(* A proof that fails in the middle of a batch preserves IInv.             *)
LEMMA InvProveFails == ASSUME TypeOK, IInv, ProveFails PROVE IInv'
  <1>1. PICK k \in 1 .. sreq.req.n :
          /\ sctr' = [sctr EXCEPT ![sreq.uid] = @ + tau_for(k)]
          /\ log' = log \union {Evaluated(sreq.req, sreq.uid, tau_for(k))}
    BY DEF ProveFails
  <1>2. sreq.req.n \in Nat
    BY Fields DEF TypeOK
  <1>3. tau_for(k) \in Nat /\ tau_for(k) <= tau_for(sreq.req.n)
    BY <1>2, TauForNat, TauForMonotone
  <1>4. spc' \notin {"serving", "renewing", "responding"}
    BY DEF ProveFails, AfterError
  <1> QED
    BY <1>1, <1>3, <1>4, InvEvaluated DEF ProveFails, BlindEvalOk

(* A blind_eval that runs after its call was cancelled preserves IInv.     *)
LEMMA InvRunDetachedBlindEval ==
  ASSUME TypeOK, IInv, NEW t \in sdet, RunDetachedBlindEval(t) PROVE IInv'
  <1> DEFINE q == t.req
  <1>1. sdet' = sdet \ {t} /\ UNCHANGED <<client, spc, suid, sreq, sresp, streams, renewal>>
    BY DEF RunDetachedBlindEval
  <1>2. q \in issued /\ t.uid <= suid /\ Taken(q.id) /\ (spc = "serving" => q.id < sreq.req.id)
    BY DEF IInv, ServeInv
  <1>3. IssuedInv' /\ CurInv' /\ StreamInv' /\ RenewInv' /\ OutputsRight'
    BY <1>1 DEF IInv, IssuedInv, CurInv, StreamInv, RenewInv, OutputsRight, NotAhead, Paid,
                client, streams, renewal
  <1>4. ServeInv'
    BY <1>1, TakenFrame DEF IInv, ServeInv, NotAhead, client, streams
  <1>5. CASE ~BlindEvalOk(t.req, t.uid)
    <2>1. UNCHANGED <<sctr, log>>
      BY <1>5 DEF RunDetachedBlindEval
    <2>2. LogInv'
      BY <1>1, <2>1, TakenFrame DEF IInv, LogInv, RunsSpentOnce, client, streams
    <2> QED
      BY <1>3, <1>4, <2>1, <2>2, CountFrame DEF IInv
  <1>6. CASE BlindEvalOk(t.req, t.uid)
    <2> PICK k \in 1 .. t.req.n :
             /\ sctr' = [sctr EXCEPT ![t.uid] = @ + tau_for(k)]
             /\ log' = log \union {Evaluated(q, t.uid, tau_for(k))}
      BY <1>6 DEF RunDetachedBlindEval
    <2> DEFINE d == tau_for(k)
               e == Evaluated(q, q.uid, d)
    <2>0. q.uid = t.uid
      BY <1>6 DEF BlindEvalOk
    <2>1. q.uid = t.uid /\ d \in Nat /\ tau_for(q.n) \in Nat /\ d <= tau_for(q.n)
      <3>1. q.n \in Nat
        BY Fields DEF TypeOK
      <3>2. k \in Nat /\ k <= q.n
        BY <3>1
      <3> QED
        BY <2>0, <3>1, <3>2, TauForNat, TauForMonotone
    <2>2. /\ sctr' = [sctr EXCEPT ![q.uid] = @ + d]
          /\ log' = log \union {e}
      BY <2>0
    <2> HIDE DEF d
    <2>3. \A l \in log : l.req.id # q.id
      BY DEF IInv, LogInv
    <2>4. \A s \in sdet' : s.req.id # q.id
      BY <1>1 DEF IInv, ServeInv
    <2>5. /\ CountInv' /\ RunsSpentOnce'
          /\ \A l \in log' : l.at + l.rows <= sctr'[l.uid]
      <3>1. q.uid <= suid
        BY <1>2, <2>1
      <3> QED
        BY <1>2, <2>1, <2>2, <2>3, <3>1, EvaluateRows
    <2>6. e.req = q /\ e.uid = q.uid /\ e.rows = d
      BY DEF Evaluated
    <2>7. \A l \in log' :
            /\ l.req \in issued /\ l.uid = l.req.uid /\ l.uid <= suid /\ Taken(l.req.id)
            /\ l.rows <= tau_for(l.req.n) /\ \A s \in sdet' : l.req.id # s.req.id
            /\ spc = "serving" => l.req.id < sreq.req.id
      <3>1. ASSUME NEW l \in log
            PROVE  /\ l.req \in issued /\ l.uid = l.req.uid /\ l.uid <= suid /\ Taken(l.req.id)
                   /\ l.rows <= tau_for(l.req.n) /\ \A s \in sdet' : l.req.id # s.req.id
                   /\ spc = "serving" => l.req.id < sreq.req.id
        BY <1>1 DEF IInv, LogInv
      <3>2. e.rows <= tau_for(e.req.n)
        BY <2>1, <2>6
      <3> QED
        BY <1>2, <2>1, <2>2, <2>4, <2>6, <3>1, <3>2
    <2>8. UNCHANGED <<issued, suid, spc, sreq>>
      BY <1>1 DEF client
    <2>9. LogInv'
      BY <1>1, <2>5, <2>7, <2>8, TakenFrame DEF LogInv, tau_for
    <2> QED
      BY <1>3, <1>4, <2>5, <2>9 DEF IInv
  <1> QED
    BY <1>5, <1>6

(* Respond preserves IInv.                                                 *)
LEMMA InvRespond == ASSUME TypeOK, IInv, Respond PROVE IInv'
  <1> USE DEF Respond, client, renewal
  <1>1. /\ Len(s2c) \in Nat /\ Len(s2c') = Len(s2c) + 1
        /\ \A k \in 1 .. Len(s2c) : s2c'[k] = s2c[k]
        /\ s2c'[Len(s2c) + 1] = sresp
    BY AppendProperties, LenProperties DEF TypeOK
  <1>2. NotAhead(sresp)
    BY DEF IInv, ServeInv
  <1>3. StreamInv'
    BY <1>1, <1>2 DEF IInv, StreamInv, NotAhead
  <1>4. IssuedInv' /\ CurInv'
    BY DEF IInv, IssuedInv, CurInv, NotAhead, Paid
  <1>5. ServeInv' /\ LogInv'
    BY DEF IInv, ServeInv, LogInv, RunsSpentOnce, NotAhead, Taken
  <1>6. CountInv' /\ RenewInv' /\ OutputsRight'
    BY CountFrame DEF IInv, RenewInv, OutputsRight
  <1> QED
    BY <1>3, <1>4, <1>5, <1>6 DEF IInv

(* CancelServe preserves IInv: the detached task is of the last request taken. *)
LEMMA InvCancelServe == ASSUME TypeOK, IInv, CancelServe PROVE IInv'
  <1>1. /\ sdet' = IF spc = "serving" THEN sdet \union {sreq} ELSE sdet
        /\ UNCHANGED <<client, suid, sctr, log, streams, renewal>>
        /\ spc' \notin {"serving", "responding", "renewing"}
    BY DEF CancelServe, AfterError
  <1>2. CountInv'
    BY <1>1, CountFrame DEF IInv
  <1>3. CASE spc # "serving"
    <2>1. ServeInv' /\ LogInv'
      BY <1>1, <1>3, TakenFrame DEF IInv, ServeInv, LogInv, RunsSpentOnce, client, streams
    <2> QED
      BY <1>1, <1>2, <2>1, ClientFrame DEF IInv
  <1>4. CASE spc = "serving"
    <2>1. sreq.req \in issued /\ sreq.uid <= suid /\ Taken(sreq.req.id)
      BY <1>4 DEF IInv, ServeInv
    <2>2. \A x \in issued : x.id \in Nat
      BY IssuedTypes
    <2>3. \A t \in sdet : t.req.id # sreq.req.id
      BY <1>4, <2>1, <2>2 DEF IInv, ServeInv
    <2>4. \A l \in log : l.req.id # sreq.req.id
      BY <1>4, <2>1, <2>2 DEF IInv, LogInv
    <2>5. ServeInv'
      BY <1>1, <1>4, <2>1, <2>3, TakenFrame DEF IInv, ServeInv, client, streams
    <2>6. LogInv'
      BY <1>1, <1>4, <2>4, TakenFrame DEF IInv, LogInv, RunsSpentOnce, client, streams
    <2> QED
      BY <1>1, <1>2, <2>5, <2>6, ClientFrame DEF IInv
  <1> QED
    BY <1>3, <1>4

(* CloseServer preserves IInv: it only drops a suffix of the responses.    *)
LEMMA InvCloseServer == ASSUME TypeOK, IInv, CloseServer PROVE IInv'
  <1> USE DEF CloseServer, client, renewal
  <1>1. PICK k \in 0 .. Len(s2c) : s2c' = SubSeq(s2c, 1, k)
    OBVIOUS
  <1>2. Len(s2c') <= Len(s2c) /\ \A i \in 1 .. Len(s2c') : s2c'[i] = s2c[i]
    <2>1. \A i \in 1 .. k : s2c[i] \in Response
      BY ElementOfSeq DEF TypeOK
    <2> QED
      BY <1>1, <2>1, SubSeqProperties, LenProperties DEF TypeOK
  <1>3. Len(s2c) \in Nat /\ Len(s2c') \in Nat
    BY <1>1, SubSeqProperties, LenProperties, ElementOfSeq DEF TypeOK
  <1>4. StreamInv'
    BY <1>2, <1>3 DEF IInv, StreamInv, NotAhead
  <1>5. IssuedInv' /\ CurInv'
    BY DEF IInv, IssuedInv, CurInv, NotAhead, Paid
  <1>6. ServeInv' /\ LogInv'
    BY DEF IInv, ServeInv, LogInv, RunsSpentOnce, NotAhead, Taken
  <1>7. CountInv' /\ RenewInv' /\ OutputsRight'
    BY CountFrame DEF IInv, RenewInv, OutputsRight
  <1> QED
    BY <1>4, <1>5, <1>6, <1>7 DEF IInv

(* Every server step preserves IInv.                                       *)
LEMMA InvServerStep == ASSUME TypeOK, IInv, ServerStep PROVE IInv'
  <1>1. CASE EndOfRequests
    <2>1. ServeInv' /\ LogInv'
      BY <1>1, TakenFrame DEF EndOfRequests, IInv, ServeInv, LogInv, RunsSpentOnce, client, streams
    <2>2. CountInv'
      BY <1>1, CountFrame DEF EndOfRequests, IInv
    <2> QED
      BY <1>1, <2>1, <2>2, ClientFrame DEF EndOfRequests, IInv
  <1> QED
    BY <1>1, InvNextRequest, InvRunBlindEval, InvProveFails, InvRunDetachedBlindEval, InvRespond,
       InvCancelServe, InvCloseServer DEF ServerStep

----------------------------------------------------------------------------
(* Renewals.                                                               *)

(* The new session has no served runs, no tasks and no counter yet.        *)
LEMMA InvServerRenewed == ASSUME TypeOK, IInv, ServerRenewed PROVE IInv'
  <1>1. /\ spc = "renewing" /\ spc' = "idle" /\ suid' = satt
        /\ sctr' = [sctr EXCEPT ![satt] = 0]
        /\ UNCHANGED <<client, sreq, sresp, sdet, log, streams, catt, satt>>
    BY DEF ServerRenewed
  <1>2. suid < satt /\ suid \in Nat /\ satt \in Uids /\ satt \in Nat
    BY <1>1, Numbers DEF IInv, RenewInv, TypeOK
  <1>3. \A l \in log : l.uid \in Nat /\ l.uid \in Uids /\ l.uid # satt /\ l.uid <= satt
    <2> TAKE l \in log
    <2>1. l.uid <= suid
      BY DEF IInv, LogInv
    <2>2. l.uid \in Uids
      BY DEF TypeOK, LogEntry
    <2>3. l.uid \in Nat
      BY <2>2, SessionAssumption DEF Uids
    <2> QED
      BY <1>2, <2>1, <2>2, <2>3
  <1>4. \A u \in Uids : sctr'[u] = IF u = satt THEN 0 ELSE sctr[u]
    BY <1>1 DEF TypeOK
  <1>5. CountInv'
    <2>1. Served(satt) = {}
      BY <1>3 DEF Served
    <2> QED
      BY <1>1, <1>4, <2>1, ServedFrame, FS_EmptySet DEF IInv, CountInv
  <1>6. IssuedInv' /\ CurInv' /\ StreamInv' /\ OutputsRight'
    BY <1>1 DEF IInv, IssuedInv, CurInv, StreamInv, OutputsRight, NotAhead, Paid, client, streams
  <1>7. RenewInv'
    BY <1>1, <1>2, Numbers DEF IInv, RenewInv, client
  <1>8. \A t \in sdet : t.uid <= satt
    <2> TAKE t \in sdet
    <2>1. t.uid <= suid /\ t.uid \in Uids
      BY Fields DEF IInv, ServeInv, TypeOK
    <2> QED
      BY <1>2, <2>1, SessionAssumption DEF Uids
  <1>9. ServeInv'
    BY <1>1, <1>8, TakenFrame DEF IInv, ServeInv, client, streams
  <1>10. LogInv'
    BY <1>1, <1>3, <1>4, TakenFrame DEF IInv, LogInv, RunsSpentOnce, client, streams
  <1> QED
    BY <1>5, <1>6, <1>7, <1>9, <1>10 DEF IInv

(* No request was issued in the new session yet.                           *)
LEMMA InvClientRenewed == ASSUME TypeOK, IInv, ClientRenewed PROVE IInv'
  <1>1. /\ cpc = "renewing" /\ cpc' = "idle" /\ cuid' = catt
        /\ cctr' = [cctr EXCEPT ![catt] = 0]
        /\ UNCHANGED <<issued, calls, out, server, streams, renewal>>
    BY DEF ClientRenewed
  <1>2. cuid < catt /\ cuid \in Nat /\ catt \in Uids /\ catt \in Nat
    BY <1>1, Numbers DEF IInv, RenewInv, TypeOK
  <1>3. IssuedInv'
    <2>1. \A x \in issued : x.uid <= catt /\ x.uid # catt
      BY <1>2, IssuedTypes DEF IInv, IssuedInv
    <2>2. \A x \in issued : cctr'[x.uid] = cctr[x.uid]
      BY <1>1, <2>1, IssuedTypes DEF TypeOK
    <2> QED
      BY <1>1, <2>1, <2>2 DEF IInv, IssuedInv, End
  <1>4. CurInv' /\ StreamInv'
    BY <1>1 DEF IInv, CurInv, StreamInv, NotAhead, Paid, streams
  <1>5. ServeInv' /\ LogInv'
    BY <1>1 DEF IInv, ServeInv, LogInv, RunsSpentOnce, NotAhead, Taken, server, streams
  <1>6. CountInv' /\ OutputsRight'
    BY <1>1, CountFrame DEF IInv, OutputsRight, server
  <1>7. RenewInv'
    BY <1>1, <1>2 DEF IInv, RenewInv, server, renewal
  <1> QED
    BY <1>3, <1>4, <1>5, <1>6, <1>7 DEF IInv

(* A renewal begins or is given up: neither side's session changes.        *)
LEMMA InvRenewFrame ==
  ASSUME TypeOK, IInv,
         UNCHANGED <<cuid, cctr, cur, cresp, calls, out, issued,
                     suid, sctr, sreq, sresp, sdet, log, streams>>,
         cpc' = cpc \/ cpc' \in {"idle", "renewing"},
         spc' = spc \/ spc' \in {"idle", "renewing", "failed"},
         RenewInv'
  PROVE  IInv'
  <1>1. IssuedInv' /\ CurInv' /\ StreamInv'
    BY DEF IInv, IssuedInv, CurInv, StreamInv, NotAhead, Paid, streams
  <1>2. ServeInv' /\ LogInv'
    BY DEF IInv, ServeInv, LogInv, RunsSpentOnce, NotAhead, Taken, streams
  <1>3. CountInv' /\ OutputsRight'
    BY CountFrame DEF IInv, OutputsRight
  <1> QED
    BY <1>1, <1>2, <1>3 DEF IInv

(* Every step of a renewal preserves IInv.                                 *)
LEMMA InvRenewStep == ASSUME TypeOK, IInv, RenewStep PROVE IInv'
  <1> USE Numbers DEF client, server, AfterError
  <1>0. RenewInv
    BY DEF IInv
  <1>1. ASSUME NEW n \in 1 .. MaxEvaluations, ClientRenew(n) PROVE IInv'
    <2>1. RenewInv'
      BY <1>0, <1>1 DEF ClientRenew, RenewInv
    <2> QED
      BY <1>1, <2>1, InvRenewFrame DEF ClientRenew
  <1>2. ASSUME NEW n \in 1 .. MaxEvaluations, ServerRenew(n) PROVE IInv'
    <2>1. RenewInv'
      BY <1>0, <1>2 DEF ServerRenew, RenewInv
    <2> QED
      BY <1>2, <2>1, InvRenewFrame DEF ServerRenew
  <1>3. CASE RenewExchange
    BY <1>0, <1>3, InvRenewFrame DEF RenewExchange, RenewInv
  <1>4. CASE RenewTauMismatch
    BY <1>0, <1>4, InvRenewFrame DEF RenewTauMismatch, RenewInv, renewal
  <1>5. CASE ServerRenewFails
    BY <1>0, <1>5, InvRenewFrame DEF ServerRenewFails, RenewInv
  <1>6. CASE ClientRenewFails
    BY <1>0, <1>6, InvRenewFrame DEF ClientRenewFails, RenewInv, renewal
  <1> QED
    BY <1>1, <1>2, <1>3, <1>4, <1>5, <1>6, InvServerRenewed, InvClientRenewed DEF RenewStep

----------------------------------------------------------------------------
(* The inductive invariant holds in every state of the connection.         *)
THEOREM SessionInvariant == Spec => []IInv
  <1>1. IInv /\ TypeOK /\ UNCHANGED vars => IInv'
    BY CountFrame DEF vars, client, server, streams, renewal, IInv, IssuedInv, CurInv, StreamInv,
       ServeInv, LogInv, RenewInv, RunsSpentOnce, OutputsRight, NotAhead, Taken
  <1>2. IInv /\ TypeOK /\ [Next]_vars => IInv'
    BY <1>1, InvClientStep, InvServerStep, InvRenewStep DEF Next
  <1> QED
    BY InvInit, <1>2, SessionType, PTL DEF Spec

(* Whatever is cancelled, lost, late or renewed, a call of evaluate that   *)
(* returns outputs returns the PRF of its own inputs.                      *)
THEOREM SessionOutputsRight == Spec => []OutputsRight
  BY SessionInvariant, PTL DEF IInv

(* The server never evaluates two requests on one run of a session.        *)
THEOREM SessionRunsSpentOnce == Spec => []RunsSpentOnce
  <1>1. IInv => RunsSpentOnce
    BY DEF IInv, LogInv
  <1> QED
    BY <1>1, SessionInvariant, PTL

----------------------------------------------------------------------------
(***************************************************************************)
(* Budgets.  A session that both sides hold has the same runs on both      *)
(* sides, and each side's counter moves by whole evaluations.              *)
(***************************************************************************)

\* A number of runs that pays whole evaluations.
Whole(x) == \E k \in Nat : x = tau_for(k)

\* A session is known to a side once its preprocessing gave the side runs; when both know it, they
\* have the same runs.  Nothing is served on a session the server does not know.
BudgetInv ==
    /\ \A u \in Uids : Whole(cctr[u]) /\ Whole(ctau[u]) /\ cctr[u] <= ctau[u]
    /\ \A u \in Uids : u > sent => ctau[u] = 0 /\ stau[u] = 0
    /\ \A u \in Uids : ctau[u] # 0 /\ stau[u] # 0 => ctau[u] = stau[u]
    /\ stau[suid] # 0
    /\ spc = "serving" => stau[sreq.uid] # 0
    /\ \A t \in sdet : stau[t.uid] # 0

\* How far a renewal got on each side; what the server has of the client's renewal in progress are
\* the runs the client asked for.
RenewalInv ==
    /\ sent <= ready /\ ready <= catt /\ ready <= satt
    /\ spc = "renewing" => sent < satt /\ sarg # 0
    /\ cpc = "renewing" /\ stau[catt] # 0 => stau[catt] = tau_for(carg)
    /\ cpc = "renewing" /\ spc = "renewing" /\ ready = catt /\ ready = satt => carg = sarg

(* Taking the runs of whole evaluations leaves whole evaluations.          *)
LEMMA WholeSum == \A x \in Nat, n \in Nat : Whole(x) => Whole(x + tau_for(n))
  <1> SUFFICES ASSUME NEW x \in Nat, NEW n \in Nat, Whole(x) PROVE Whole(x + tau_for(n))
    OBVIOUS
  <1>1. PICK k \in Nat : x = tau_for(k)
    BY DEF Whole
  <1>2. x + tau_for(n) = tau_for(k + n)
    BY <1>1, SessionAssumption DEF tau_for
  <1> QED
    BY <1>2 DEF Whole

(* The runs of n evaluations are whole, and so are no runs.                *)
LEMMA WholeTau == Whole(0) /\ \A n \in Nat : Whole(tau_for(n))
  <1>1. 0 = tau_for(0)
    BY SessionAssumption DEF tau_for
  <1> QED
    BY <1>1 DEF Whole

(* The quotient of a whole number of runs is its number of evaluations.    *)
LEMMA TauDivide == \A k \in Nat : tau_for(k) \div H_ROWS = k
  BY SessionAssumption DEF tau_for

(* Differences.                                                            *)
LEMMA TauMinus == \A k, n \in Nat : tau_for(k) - tau_for(n) = (k - n) * H_ROWS
  BY SessionAssumption DEF tau_for

(* Init establishes the budgets.                                           *)
LEMMA BudgetInit == Init => BudgetInv /\ RenewalInv
  <1> SUFFICES ASSUME Init PROVE BudgetInv /\ RenewalInv
    OBVIOUS
  <1>1. PICK n \in 1 .. MaxEvaluations : ctau = [u \in Uids |-> IF u = 0 THEN tau_for(n) ELSE 0]
    BY DEF Init
  <1>2. n \in Nat /\ n >= 1 /\ tau_for(n) \in Nat /\ tau_for(n) >= 1 /\ 0 \in Uids
    BY TauForNat, TauForPositive, SessionAssumption DEF Uids
  <1>3. \A u \in Uids : u \in Nat /\ cctr[u] = 0 /\ stau[u] = ctau[u] /\ ctau[u] = IF u = 0 THEN tau_for(n) ELSE 0
    BY <1>1, SessionAssumption DEF Init, Uids
  <1>4. \A u \in Uids : Whole(cctr[u]) /\ Whole(ctau[u]) /\ cctr[u] <= ctau[u]
    BY <1>2, <1>3, WholeTau
  <1>5. BudgetInv
    BY <1>2, <1>3, <1>4 DEF Init, BudgetInv
  <1>6. RenewalInv
    BY <1>2, <1>3 DEF Init, RenewalInv
  <1> QED
    BY <1>5, <1>6

(* A step that moves no counter, budget or renewal keeps both.             *)
LEMMA BudgetFrame ==
  ASSUME BudgetInv, RenewalInv, UNCHANGED <<cctr, ctau, stau, suid, sdet, renewal>>,
         cpc' = "renewing" => cpc = "renewing", spc' = "renewing" => spc = "renewing",
         spc' = "serving" => spc = "serving" /\ sreq' = sreq
  PROVE  BudgetInv' /\ RenewalInv'
  <1>1. BudgetInv'
    BY DEF BudgetInv, renewal, Whole, tau_for
  <1>2. RenewalInv'
    BY DEF RenewalInv, renewal, tau_for
  <1> QED
    BY <1>1, <1>2

(* Taking runs after RequestOk, for a call or for one that was cancelled.  *)
LEMMA BudgetSpend ==
  ASSUME TypeOK, BudgetInv, RenewalInv, NEW r \in Request, RequestOk(r.n, r.uid),
         cctr' = [cctr EXCEPT ![r.uid] = @ + tau_for(r.n)],
         cpc' = "renewing" => cpc = "renewing",
         UNCHANGED <<ctau, server, renewal>>
  PROVE  BudgetInv' /\ RenewalInv'
  <1>1. r.uid \in Uids /\ r.n \in Nat /\ tau_for(r.n) \in Nat
    BY Fields, TauForNat
  <1>2. \A u \in Uids : cctr[u] \in Nat /\ ctau[u] \in Nat
    BY DEF TypeOK
  <1>3. \A u \in Uids : cctr'[u] = IF u = r.uid THEN cctr[u] + tau_for(r.n) ELSE cctr[u]
    BY <1>1, <1>2 DEF TypeOK
  <1>4. \A u \in Uids : Whole(cctr'[u]) /\ Whole(ctau[u]) /\ cctr'[u] <= ctau[u]
    BY <1>1, <1>2, <1>3, WholeSum DEF BudgetInv, RequestOk
  <1>5. BudgetInv'
    <2>1. \A u \in Uids : (Whole(cctr[u]) /\ Whole(ctau[u]) /\ cctr[u] <= ctau[u])'
      BY <1>4 DEF Whole, tau_for
    <2> QED
      BY <2>1 DEF BudgetInv, server, renewal
  <1>6. RenewalInv'
    BY DEF RenewalInv, server, renewal, tau_for
  <1> QED
    BY <1>5, <1>6

(* The client's steps keep the budgets.                                    *)
LEMMA BudgetClient == ASSUME TypeOK, BudgetInv, RenewalInv, ClientStep PROVE BudgetInv' /\ RenewalInv'
  <1>1. CASE RunRequest
    <2>1. CASE RequestOk(cur.n, cur.uid)
      BY <1>1, <2>1, BudgetSpend DEF RunRequest, TypeOK
    <2>2. CASE ~RequestOk(cur.n, cur.uid)
      BY <1>1, <2>2, BudgetFrame DEF RunRequest, server
    <2> QED
      BY <2>1, <2>2
  <1>2. ASSUME NEW t \in cdet, RunDetachedRequest(t) PROVE BudgetInv' /\ RenewalInv'
    <2>1. CASE RequestOk(t.n, t.uid)
      BY <1>2, <2>1, BudgetSpend DEF RunDetachedRequest, TypeOK
    <2>2. CASE ~RequestOk(t.n, t.uid)
      BY <1>2, <2>2, BudgetFrame DEF RunDetachedRequest, server
    <2> QED
      BY <2>1, <2>2
  <1>3. ASSUME NEW n \in 0 .. MaxBatch + 1, Evaluate(n) PROVE BudgetInv' /\ RenewalInv'
    BY <1>3, BudgetFrame DEF Evaluate, server
  <1>4. CASE SendRequest
    BY <1>4, BudgetFrame DEF SendRequest, server
  <1>5. CASE ReceiveResponse
    BY <1>5, BudgetFrame DEF ReceiveResponse, server
  <1>6. CASE ExchangeFails
    BY <1>6, BudgetFrame DEF ExchangeFails, server
  <1>7. CASE Finalize
    BY <1>7, BudgetFrame DEF Finalize, server
  <1>8. CASE CancelEvaluate
    BY <1>8, BudgetFrame DEF CancelEvaluate, server
  <1>9. CASE CloseClient
    BY <1>9, BudgetFrame DEF CloseClient, server
  <1> QED
    BY <1>1, <1>2, <1>3, <1>4, <1>5, <1>6, <1>7, <1>8, <1>9 DEF ClientStep

(* The server's steps keep the budgets.                                    *)
LEMMA BudgetServer == ASSUME TypeOK, BudgetInv, RenewalInv, ServerStep PROVE BudgetInv' /\ RenewalInv'
  <1> USE DEF AfterError
  <1>1. CASE NextRequest
    <2>1. BudgetInv'
      BY <1>1 DEF NextRequest, BudgetInv, Whole, tau_for, client, renewal
    <2>2. RenewalInv'
      BY <1>1 DEF NextRequest, RenewalInv, tau_for, client, renewal
    <2> QED
      BY <2>1, <2>2
  <1>2. CASE CancelServe
    <2>1. BudgetInv'
      BY <1>2 DEF CancelServe, BudgetInv, Whole, tau_for, client, renewal
    <2>2. RenewalInv'
      BY <1>2 DEF CancelServe, RenewalInv, tau_for, client, renewal
    <2> QED
      BY <2>1, <2>2
  <1>3. ASSUME NEW t \in sdet, RunDetachedBlindEval(t) PROVE BudgetInv' /\ RenewalInv'
    <2>1. BudgetInv'
      BY <1>3 DEF RunDetachedBlindEval, BudgetInv, Whole, tau_for, client, renewal
    <2>2. RenewalInv'
      BY <1>3 DEF RunDetachedBlindEval, RenewalInv, tau_for, client, renewal
    <2> QED
      BY <2>1, <2>2
  <1>4. CASE EndOfRequests
    BY <1>4, BudgetFrame DEF EndOfRequests, client
  <1>5. CASE RunBlindEval
    BY <1>5, BudgetFrame DEF RunBlindEval, client
  <1>6. CASE ProveFails
    BY <1>6, BudgetFrame DEF ProveFails, client
  <1>7. CASE Respond
    BY <1>7, BudgetFrame DEF Respond, client
  <1>8. CASE CloseServer
    BY <1>8, BudgetFrame DEF CloseServer, client
  <1> QED
    BY <1>1, <1>2, <1>3, <1>4, <1>5, <1>6, <1>7, <1>8 DEF ServerStep

(* The renewal's steps keep the budgets.                                   *)
LEMMA BudgetRenew == ASSUME TypeOK, IInv, BudgetInv, RenewalInv, RenewStep PROVE BudgetInv' /\ RenewalInv'
  <1> USE DEF AfterError
  <1>0. /\ \A u \in Uids : u \in Nat /\ cctr[u] \in Nat /\ ctau[u] \in Nat /\ stau[u] \in Nat
        /\ sent \in Uids /\ ready \in Uids /\ catt \in Uids /\ satt \in Uids
        /\ suid \in Uids /\ carg \in Nat /\ sarg \in Nat
    BY SessionAssumption DEF TypeOK, Uids
  <1>1. ASSUME NEW n \in 1 .. MaxEvaluations, ClientRenew(n) PROVE BudgetInv' /\ RenewalInv'
    <2>1. BudgetInv'
      BY <1>1 DEF ClientRenew, BudgetInv, Whole, tau_for, server
    <2>2. catt + 1 \in Uids /\ catt' = catt + 1
      BY <1>0, <1>1, SessionAssumption DEF ClientRenew, Uids
    <2>3. stau[catt + 1] = 0
      BY <1>0, <2>2 DEF BudgetInv, RenewalInv
    <2>4. RenewalInv'
      BY <1>0, <1>1, <2>2, <2>3 DEF ClientRenew, RenewalInv, server
    <2> QED
      BY <2>1, <2>4
  <1>2. ASSUME NEW n \in 1 .. MaxEvaluations, ServerRenew(n) PROVE BudgetInv' /\ RenewalInv'
    <2>1. BudgetInv'
      BY <1>2 DEF ServerRenew, BudgetInv, Whole, tau_for, client
    <2>2. RenewalInv'
      BY <1>0, <1>2 DEF ServerRenew, RenewalInv, client, tau_for
    <2> QED
      BY <2>1, <2>2
  <1>3. CASE RenewExchange
    <2>1. BudgetInv'
      BY <1>3 DEF RenewExchange, BudgetInv, Whole, tau_for, client, server
    <2>2. RenewalInv'
      BY <1>0, <1>3 DEF RenewExchange, RenewalInv, BothRenewing, client, server, tau_for
    <2> QED
      BY <2>1, <2>2
  <1>4. CASE RenewTauMismatch
    BY <1>4, BudgetFrame DEF RenewTauMismatch
  <1>5. CASE ServerRenewed
    <2>1. /\ spc = "renewing" /\ ready = satt /\ sent' = satt /\ spc' = "idle" /\ suid' = satt
          /\ stau' = [stau EXCEPT ![satt] = tau_for(sarg)]
          /\ UNCHANGED <<client, sdet, catt, carg, satt, sarg, ready>>
      BY <1>5 DEF ServerRenewed
    <2>2. tau_for(sarg) \in Nat /\ tau_for(sarg) # 0 /\ sent < satt
      BY <1>0, <2>1, TauForNat, TauForPositive DEF RenewalInv
    <2>3. \A u \in Uids : stau'[u] = IF u = satt THEN tau_for(sarg) ELSE stau[u]
      BY <2>1 DEF TypeOK
    <2>4. BudgetInv'
      <3>1. ctau[satt] = 0
        BY <1>0, <2>2 DEF BudgetInv
      <3>2. \A u \in Uids : (Whole(cctr[u]) /\ Whole(ctau[u]) /\ cctr[u] <= ctau[u])'
        BY <2>1 DEF BudgetInv, Whole, tau_for, client
      <3>3. \A u \in Uids : u > satt => ctau[u] = 0 /\ stau'[u] = 0
        BY <1>0, <2>2, <2>3 DEF BudgetInv
      <3>4. \A u \in Uids : ctau[u] # 0 /\ stau'[u] # 0 => ctau[u] = stau'[u]
        BY <3>1, <2>3 DEF BudgetInv
      <3>5. \A t \in sdet : stau'[t.uid] # 0
        <4>1. \A t \in sdet : t.uid \in Uids
          BY Fields DEF TypeOK
        <4> QED
          BY <4>1, <2>2, <2>3 DEF BudgetInv
      <3>6. stau'[suid'] # 0
        BY <1>0, <2>1, <2>2, <2>3
      <3> QED
        BY <2>1, <3>2, <3>3, <3>4, <3>5, <3>6 DEF BudgetInv, client
    <2>5. RenewalInv'
      BY <1>0, <2>1, <2>3 DEF RenewalInv, client, tau_for
    <2> QED
      BY <2>4, <2>5
  <1>6. CASE ServerRenewFails
    <2>1. BudgetInv'
      <3>1. sent' \in {sent, satt} /\ sent <= satt
        BY <1>0, <1>6 DEF ServerRenewFails, RenewalInv
      <3>2. sent <= sent'
        BY <1>0, <3>1
      <3>3. \A u \in Uids : u > sent' => u > sent
        BY <1>0, <3>1
      <3> QED
        BY <1>6, <3>3 DEF ServerRenewFails, BudgetInv, Whole, tau_for, client
    <2>2. RenewalInv'
      BY <1>0, <1>6 DEF ServerRenewFails, RenewalInv, client, tau_for
    <2> QED
      BY <2>1, <2>2
  <1>7. CASE ClientRenewed
    <2>1. /\ cpc = "renewing" /\ sent = catt /\ cpc' = "idle"
          /\ cctr' = [cctr EXCEPT ![catt] = 0]
          /\ ctau' = [ctau EXCEPT ![catt] = tau_for(carg)]
          /\ UNCHANGED <<server, renewal>>
      BY <1>7 DEF ClientRenewed
    <2>2. tau_for(carg) \in Nat
      BY <1>0, TauForNat
    <2>3. \A u \in Uids : /\ cctr'[u] = IF u = catt THEN 0 ELSE cctr[u]
                          /\ ctau'[u] = IF u = catt THEN tau_for(carg) ELSE ctau[u]
      BY <2>1 DEF TypeOK
    <2>4. \A u \in Uids : Whole(cctr'[u]) /\ Whole(ctau'[u]) /\ cctr'[u] <= ctau'[u]
      BY <1>0, <2>2, <2>3, WholeTau DEF BudgetInv
    <2>5. \A u \in Uids : (Whole(cctr[u]) /\ Whole(ctau[u]) /\ cctr[u] <= ctau[u])'
      BY <2>4 DEF Whole, tau_for
    <2>6. \A u \in Uids : u > sent => ctau'[u] = 0 /\ stau[u] = 0
      BY <1>0, <2>1, <2>3 DEF BudgetInv
    <2>7. \A u \in Uids : ctau'[u] # 0 /\ stau[u] # 0 => ctau'[u] = stau[u]
      BY <2>1, <2>3 DEF BudgetInv, RenewalInv
    <2>8. BudgetInv'
      BY <2>1, <2>5, <2>6, <2>7 DEF BudgetInv, server, renewal
    <2>9. RenewalInv'
      BY <2>1 DEF RenewalInv, server, renewal, tau_for
    <2> QED
      BY <2>8, <2>9
  <1>8. CASE ClientRenewFails
    BY <1>8, BudgetFrame DEF ClientRenewFails, server
  <1> QED
    BY <1>1, <1>2, <1>3, <1>4, <1>5, <1>6, <1>7, <1>8 DEF RenewStep

(* Every session has the same runs on the two sides that know it.          *)
THEOREM SessionBudgets == Spec => [](BudgetInv /\ RenewalInv)
  <1>1. TypeOK /\ IInv /\ BudgetInv /\ RenewalInv /\ [Next]_vars => BudgetInv' /\ RenewalInv'
    <2>1. BudgetInv /\ RenewalInv /\ UNCHANGED vars => BudgetInv' /\ RenewalInv'
      BY BudgetFrame DEF vars, client, server, renewal
    <2> QED
      BY <2>1, BudgetClient, BudgetServer, BudgetRenew DEF Next
  <1> QED
    BY BudgetInit, <1>1, SessionType, SessionInvariant, PTL DEF Spec

(* The runs the server has taken of a session are runs the client spent on *)
(* other requests than q, when q was not evaluated yet.                    *)
LEMMA CounterApart ==
  ASSUME TypeOK, IInv, NEW q \in issued, \A l \in log : l.req.id # q.id
  PROVE  sctr[q.uid] + tau_for(q.n) <= cctr[q.uid]
  <1>1. /\ q.uid \in Uids /\ q.first \in Nat /\ tau_for(q.n) \in Nat
        /\ End(q) = q.first + tau_for(q.n) /\ End(q) <= cctr[q.uid] /\ cctr[q.uid] \in Nat
    <2>1. q.uid \in Uids /\ q.first \in Nat /\ tau_for(q.n) \in Nat
      BY IssuedTypes
    <2>2. cctr[q.uid] \in Nat
      BY <2>1, Numbers
    <2>3. End(q) <= cctr[q.uid] /\ End(q) = q.first + tau_for(q.n)
      BY DEF IInv, IssuedInv, End
    <2> QED
      BY <2>1, <2>2, <2>3
  <1> DEFINE u == q.uid
             T == q.first .. (q.first + tau_for(q.n) - 1)
             S == Served(u)
  <1>2. IsFiniteSet(S) /\ sctr[u] = Cardinality(S)
    BY <1>1 DEF IInv, CountInv
  <1>3. \A x \in S : x \in 0 .. (cctr[u] - 1) /\ x \notin T
    <2> SUFFICES ASSUME NEW x \in S PROVE x \in 0 .. (cctr[u] - 1) /\ x \notin T
      OBVIOUS
    <2>1. PICK l \in log : l.uid = u /\ x \in l.req.first .. (l.req.first + l.rows - 1)
      BY <1>1, ServedMember
    <2>2. /\ l.req \in issued /\ l.req.uid = u /\ l.rows <= tau_for(l.req.n) /\ l.req.id # q.id
      BY <2>1 DEF IInv, LogInv
    <2>3. /\ l.rows \in Nat /\ l.req.first \in Nat /\ tau_for(l.req.n) \in Nat
          /\ l.req.id \in Nat /\ q.id \in Nat /\ End(l.req) = l.req.first + tau_for(l.req.n)
      BY <2>2, IssuedTypes, TauForNat DEF TypeOK, LogEntry, End
    <2>4. End(l.req) <= cctr[u]
      BY <2>2 DEF IInv, IssuedInv
    <2>5. End(l.req) <= q.first \/ End(q) <= l.req.first
      BY <2>2, <2>3 DEF IInv, IssuedInv
    <2> QED
      BY <1>1, <2>1, <2>2, <2>3, <2>4, <2>5
  <1>4. Cardinality(S \union T) = Cardinality(S) + tau_for(q.n)
    BY <1>1, <1>2, <1>3, CardinalityAdd
  <1>5. S \union T \in SUBSET (0 .. (cctr[u] - 1))
    BY <1>1, <1>3
  <1>6. Cardinality(S \union T) <= cctr[u]
    BY <1>1, <1>5, CardinalityBelow
  <1> QED
    BY <1>2, <1>4, <1>6

(* The server's counter never passes the client's.                         *)
LEMMA CounterBehind == ASSUME TypeOK, IInv, NEW u \in Uids PROVE sctr[u] <= cctr[u]
  <1>1. cctr[u] \in Nat
    BY Numbers
  <1>2. Served(u) \in SUBSET (0 .. (cctr[u] - 1))
    <2> SUFFICES ASSUME NEW x \in Served(u) PROVE x \in 0 .. (cctr[u] - 1)
      OBVIOUS
    <2>1. PICK l \in log : l.uid = u /\ x \in l.req.first .. (l.req.first + l.rows - 1)
      BY ServedMember
    <2>2. /\ l.req \in issued /\ l.req.uid = u /\ l.rows <= tau_for(l.req.n)
      BY <2>1 DEF IInv, LogInv
    <2>3. /\ l.rows \in Nat /\ l.req.first \in Nat /\ tau_for(l.req.n) \in Nat
      BY <2>2, IssuedTypes, TauForNat DEF TypeOK, LogEntry
    <2>4. l.req.first + tau_for(l.req.n) <= cctr[u]
      BY <2>2 DEF IInv, IssuedInv, End
    <2> QED
      BY <1>1, <2>1, <2>2, <2>3, <2>4
  <1> QED
    BY <1>1, <1>2, CardinalityBelow DEF IInv, CountInv

(* What the server has taken or will take fits the session's budget.       *)
LEMMA FitsBudget ==
  ASSUME TypeOK, IInv, BudgetInv, NEW t, t \in sdet \/ (spc = "serving" /\ t = sreq), t.req.uid = t.uid
  PROVE  sctr[t.uid] + tau_for(t.req.n) <= stau[t.uid]
  <1> DEFINE q == t.req
  <1>1. q \in issued /\ stau[t.uid] # 0 /\ \A l \in log : l.req.id # q.id
    <2>1. CASE t \in sdet
      BY <2>1 DEF IInv, ServeInv, LogInv, BudgetInv
    <2>2. CASE spc = "serving" /\ t = sreq
      <3>1. \A l \in log : l.req.id < sreq.req.id /\ l.req \in issued /\ sreq.req \in issued
        BY <2>2 DEF IInv, ServeInv, LogInv
      <3>2. \A l \in log : l.req.id # sreq.req.id
        BY <3>1, IssuedTypes
      <3> QED
        BY <2>2, <3>2 DEF IInv, ServeInv, BudgetInv
    <2> QED
      BY <2>1, <2>2
  <1>2. q.uid \in Uids /\ tau_for(q.n) \in Nat /\ tau_for(q.n) >= 1
    <2>1. q.uid \in Uids /\ q.first \in Nat /\ tau_for(q.n) \in Nat
      BY <1>1, IssuedTypes
    <2>2. q.first < q.first + tau_for(q.n)
      BY <1>1 DEF IInv, IssuedInv, End
    <2> QED
      BY <2>1, <2>2
  <1>3. sctr[q.uid] \in Nat /\ cctr[q.uid] \in Nat /\ ctau[q.uid] \in Nat /\ stau[q.uid] \in Nat
    BY <1>2 DEF TypeOK
  <1>4. sctr[q.uid] + tau_for(q.n) <= cctr[q.uid]
    BY <1>1, CounterApart
  <1>5. cctr[q.uid] <= ctau[q.uid] /\ (ctau[q.uid] # 0 => ctau[q.uid] = stau[q.uid])
    BY <1>1, <1>2 DEF BudgetInv
  <1> QED
    BY <1>2, <1>3, <1>4, <1>5

(* A request that passed request_batch's budget check is never refused as  *)
(* Exhausted by blind_eval.                                                *)
THEOREM SessionNeverExhausted == Spec => []ServerNeverExhausted
  <1>1. TypeOK /\ IInv /\ BudgetInv => ServerNeverExhausted
    BY FitsBudget, CounterBehind DEF ServerNeverExhausted
  <1> QED
    BY <1>1, SessionType, SessionInvariant, SessionBudgets, PTL

----------------------------------------------------------------------------
(* The client implements OprfService.                                      *)

\* No call is in progress, and its slot is empty.
SlotInv == cpc \in {"idle", "renewing", "closed"} => cur = NoRequest

(* The slot of a call is empty when no call is in progress.                *)
THEOREM SessionSlot == Spec => []SlotInv
  <1>1. Init => SlotInv
    BY DEF Init, SlotInv
  <1>2. SlotInv /\ [Next]_vars => SlotInv'
    <2> SUFFICES ASSUME SlotInv, [Next]_vars PROVE SlotInv'
      OBVIOUS
    <2> USE DEF SlotInv
    <2>0. RunRequest => cpc' = "sending" \/ (cpc' = "idle" /\ cur' = NoRequest)
      BY DEF RunRequest
    <2>1. CASE ClientStep
      <3>1. ASSUME NEW n \in 0 .. MaxBatch + 1, Evaluate(n) PROVE SlotInv'
        BY <3>1 DEF Evaluate
      <3>2. ASSUME NEW t \in cdet, RunDetachedRequest(t) PROVE SlotInv'
        BY <3>2 DEF RunDetachedRequest
      <3>3. CASE SendRequest \/ ReceiveResponse \/ ExchangeFails \/ Finalize
        BY <3>3 DEF SendRequest, ReceiveResponse, ExchangeFails, Finalize
      <3>4. CASE CancelEvaluate \/ CloseClient
        BY <3>4 DEF CancelEvaluate, CloseClient
      <3> QED
        BY <2>0, <2>1, <3>1, <3>2, <3>3, <3>4 DEF ClientStep
    <2>2. CASE ServerStep
      BY <2>2 DEF ServerStep, NextRequest, EndOfRequests, RunBlindEval, ProveFails,
         RunDetachedBlindEval, Respond, CancelServe, CloseServer, client
    <2>3. CASE RenewStep
      BY <2>3 DEF RenewStep, ClientRenew, ServerRenew, RenewExchange, RenewTauMismatch, BothRenewing,
         ServerRenewed, ServerRenewFails, ClientRenewed, ClientRenewFails, client
    <2>4. CASE UNCHANGED vars
      BY <2>4 DEF vars, client
    <2> QED
      BY <2>1, <2>2, <2>3, <2>4 DEF Next
  <1> QED
    BY <1>1, <1>2, PTL DEF Spec

(* The difference of whole evaluations is a number of evaluations.         *)
LEMMA WholeLeft ==
  ASSUME NEW a, NEW b, Whole(a), Whole(b), b <= a
  PROVE  (a - b) \div H_ROWS \in Nat /\ a - b = tau_for((a - b) \div H_ROWS)
  <1>1. PICK k \in Nat : b = tau_for(k)
    BY DEF Whole
  <1>2. PICK m \in Nat : a = tau_for(m)
    BY DEF Whole
  <1>3. k <= m
    BY <1>1, <1>2, SessionAssumption DEF tau_for
  <1>4. a - b = tau_for(m - k) /\ m - k \in Nat
    BY <1>1, <1>2, <1>3, SessionAssumption DEF tau_for
  <1>5. tau_for(m - k) \div H_ROWS = m - k
    BY <1>4, TauDivide
  <1> QED
    BY <1>4, <1>5

(* What is left is a number of evaluations.                                *)
LEMMA LeftEvaluations ==
  ASSUME TypeOK, BudgetInv
  PROVE  Left \in Nat /\ ctau[cuid] - cctr[cuid] = tau_for(Left)
  <1>1. cuid \in Uids
    BY DEF TypeOK
  <1>2. Whole(ctau[cuid]) /\ Whole(cctr[cuid]) /\ cctr[cuid] <= ctau[cuid]
    BY <1>1 DEF BudgetInv
  <1> QED
    BY <1>2, WholeLeft DEF Left

(* The same after a step.                                                  *)
LEMMA LeftEvaluationsNext ==
  ASSUME TypeOK', BudgetInv'
  PROVE  Left' \in Nat /\ ctau'[cuid'] - cctr'[cuid'] = tau_for(Left')
  <1>1. cuid' \in Uids
    BY DEF TypeOK
  <1>2. Whole(ctau'[cuid']) /\ Whole(cctr'[cuid']) /\ cctr'[cuid'] <= ctau'[cuid']
    BY <1>1 DEF BudgetInv, Whole, tau_for
  <1> QED
    BY <1>2, WholeLeft DEF Left

(* A step of the client that leaves its session alone leaves the caller's  *)
(* budget alone.                                                           *)
LEMMA ServiceFrame ==
  ASSUME UNCHANGED <<cpc, cuid, cctr, ctau, cur, calls, out>>
  PROVE  UNCHANGED Service!vars
  BY DEF Service!vars, Status, Left, Paid

(* Init is an initial state of the service.                                *)
LEMMA ServiceInit == Init => Service!Init
  <1> SUFFICES ASSUME Init PROVE Service!Init
    OBVIOUS
  <1>1. TypeOK /\ BudgetInv
    BY TypeInit, BudgetInit
  <1>2. Left \in Nat
    BY <1>1, LeftEvaluations
  <1> QED
    BY <1>2 DEF Init, Service!Init, Status, Paid, NoRequest, Calls


(* request_batch pays, or refuses.                                         *)
LEMMA ServiceRunRequest ==
  ASSUME TypeOK, IInv, BudgetInv, BudgetInv', RunRequest
  PROVE  Service!Pay \/ Service!Fail
  <1>1. Status = "asked"
    BY DEF RunRequest, Status
  <1>2. CASE RequestOk(cur.n, cur.uid)
    <2>1. /\ cur' = [cur EXCEPT !.first = cctr[cur.uid]]
          /\ cctr' = [cctr EXCEPT ![cur.uid] = @ + tau_for(cur.n)]
          /\ cpc' = "sending" /\ UNCHANGED <<cuid, ctau, calls, out>>
      BY <1>2 DEF RunRequest
    <2>2. cur.uid = cuid /\ cuid \in Uids /\ cur.n \in Nat /\ tau_for(cur.n) \in Nat
      BY Fields, TauForNat DEF RunRequest, IInv, CurInv, TypeOK
    <2>3. cur'.n = cur.n
      BY <2>1 DEF TypeOK, Request
    <2>4. cctr'[cuid] = cctr[cuid] + tau_for(cur.n) /\ cctr[cuid] \in Nat /\ ctau[cuid] \in Nat
      BY <2>1, <2>2, Spend DEF TypeOK
    <2>5. Left \in Nat /\ ctau[cuid] - cctr[cuid] = tau_for(Left)
      BY LeftEvaluations
    <2>6. cur.n >= 1 /\ tau_for(cur.n) <= tau_for(Left)
      BY <1>2, <2>2, <2>4, <2>5 DEF RequestOk, BatchOk
    <2>7. cur.n <= Left
      BY <2>2, <2>5, <2>6, SessionAssumption DEF tau_for
    <2>8. ctau[cuid] - cctr'[cuid] = tau_for(Left - cur.n)
      BY <2>2, <2>4, <2>5, <2>7, SessionAssumption DEF tau_for
    <2>9. Left' = Left - cur.n
      BY <2>1, <2>2, <2>5, <2>7, <2>8, TauDivide DEF Left
    <2>10. Status' = "paid"
      BY <2>1 DEF Status, Paid
    <2> QED
      BY <1>1, <2>1, <2>3, <2>6, <2>7, <2>9, <2>10 DEF Service!Pay
  <1>3. CASE ~RequestOk(cur.n, cur.uid)
    <2>1. cpc' = "idle" /\ cur' = NoRequest /\ UNCHANGED <<cuid, cctr, ctau, calls, out>>
      BY <1>3 DEF RunRequest
    <2> QED
      BY <1>1, <2>1 DEF Service!Fail, Status, Paid, Left, NoRequest
  <1> QED
    BY <1>2, <1>3

(* A cancelled call's request_batch loses evaluations of its session.      *)
LEMMA ServiceDetached ==
  ASSUME TypeOK, BudgetInv, TypeOK', BudgetInv', NEW t \in cdet, RunDetachedRequest(t)
  PROVE  Service!Lose
  <1>1. UNCHANGED <<cpc, cuid, ctau, cur, calls, out>>
    BY DEF RunDetachedRequest
  <1>2. t.uid \in Uids /\ t.n \in Nat /\ tau_for(t.n) \in Nat /\ cuid \in Uids
    BY Fields, TauForNat DEF TypeOK
  <1>3. cctr[cuid] \in Nat /\ cctr'[cuid] \in Nat /\ ctau[cuid] \in Nat /\ cctr[cuid] <= cctr'[cuid]
    <2>1. CASE RequestOk(t.n, t.uid)
      <3>1. cctr' = [cctr EXCEPT ![t.uid] = @ + tau_for(t.n)]
        BY <2>1 DEF RunDetachedRequest
      <3>2. cctr \in [Uids -> Nat] /\ ctau \in [Uids -> Nat]
        BY DEF TypeOK
      <3> QED
        BY <1>2, <3>1, <3>2
    <2>2. CASE ~RequestOk(t.n, t.uid)
      <3>1. cctr' = cctr
        BY <2>2 DEF RunDetachedRequest
      <3>2. cctr \in [Uids -> Nat] /\ ctau \in [Uids -> Nat]
        BY DEF TypeOK
      <3> QED
        BY <1>2, <3>1, <3>2
    <2> QED
      BY <2>1, <2>2
  <1>4. Left \in Nat /\ ctau[cuid] - cctr[cuid] = tau_for(Left)
    BY LeftEvaluations
  <1>5. Left' \in Nat /\ ctau[cuid] - cctr'[cuid] = tau_for(Left')
    BY <1>1, LeftEvaluationsNext
  <1>6. Left' <= Left
    BY <1>3, <1>4, <1>5, SessionAssumption DEF tau_for
  <1> QED
    BY <1>1, <1>4, <1>5, <1>6 DEF Service!Lose, Status

(* finalize_batch returns the outputs of its own call, or an error.        *)
LEMMA ServiceFinalize ==
  ASSUME TypeOK, IInv, IInv', Finalize
  PROVE  Service!Return \/ Service!Fail
  <1>1. /\ cpc = "finalizing" /\ cpc' = "idle" /\ cur' = NoRequest
        /\ UNCHANGED <<cuid, cctr, ctau, calls>>
        /\ out' = IF FinalizeOk(cur, cresp) THEN [out EXCEPT ![cur.id] = Output(cresp)] ELSE out
    BY DEF Finalize
  <1>2. Status = "paid" /\ Status' = "none" /\ cur'.n = 0 /\ Left' = Left
    BY <1>1 DEF Status, Paid, NoRequest, Left
  <1>3. cur.id = calls /\ cresp.of \in issued
    BY <1>1 DEF IInv, CurInv, Paid, NotAhead
  <1>4. CASE FinalizeOk(cur, cresp)
    <2>1. cur \in issued /\ calls \in Calls
      <3>1. cur \in issued
        BY <1>1 DEF IInv, CurInv, Paid
      <3>2. cur.id \in 1 .. calls /\ calls \in 0 .. MaxCalls
        BY <3>1 DEF IInv, IssuedInv, TypeOK
      <3> QED
        BY <1>3, <3>1, <3>2, SessionAssumption DEF Calls
    <2>2. out'[calls] = Output(cresp)
      BY <1>1, <1>3, <1>4, <2>1 DEF TypeOK
    <2>3. Output(cresp) \in {NoOutput, calls}
      BY <2>1, <2>2 DEF IInv, OutputsRight
    <2>4. cresp.of.id # 0
      BY <1>3, Numbers DEF IInv, IssuedInv
    <2>5. Output(cresp) = calls
      BY <2>3, <2>4 DEF Output, NoOutput, Garbage
    <2> QED
      BY <1>1, <1>2, <1>3, <1>4, <2>5 DEF Service!Return
  <1>5. CASE ~FinalizeOk(cur, cresp)
    BY <1>1, <1>2, <1>5 DEF Service!Fail
  <1> QED
    BY <1>4, <1>5

(* The client's steps are steps of the service.                            *)
LEMMA ServiceClient ==
  ASSUME TypeOK, TypeOK', IInv, IInv', BudgetInv, BudgetInv', SlotInv, SlotInv', ClientStep
  PROVE  Service!Next \/ UNCHANGED Service!vars
  <1>1. ASSUME NEW n \in 0 .. MaxBatch + 1, Evaluate(n) PROVE Service!Call
    <2>1. /\ cpc = "idle" /\ calls < MaxCalls /\ calls' = calls + 1 /\ cpc' = "requesting"
          /\ cur' = [id |-> calls + 1, uid |-> cuid, first |-> 0, n |-> n]
          /\ UNCHANGED <<cuid, cctr, ctau, out>>
      BY <1>1 DEF Evaluate
    <2>2. cur'.n = n /\ n \in Nat
      BY <2>1, SessionAssumption
    <2> QED
      BY <2>1, <2>2 DEF Service!Call, Status, Paid, Left
  <1>2. CASE SendRequest \/ ReceiveResponse
    BY <1>2 DEF SendRequest, ReceiveResponse, Service!vars, Status, Paid, Left
  <1>3. CASE ExchangeFails \/ CancelEvaluate
    BY <1>3 DEF ExchangeFails, CancelEvaluate, Service!Fail, Service!Next, Status, Paid, Left, NoRequest
  <1>4. CASE CloseClient
    BY <1>4 DEF CloseClient, Service!vars, Status, Paid, Left
  <1> QED
    BY <1>1, <1>2, <1>3, <1>4, ServiceRunRequest, ServiceDetached, ServiceFinalize
       DEF ClientStep, Service!Next

(* Renewal replaces the budget when no call is in progress.                *)
LEMMA ServiceRenew ==
  ASSUME TypeOK, TypeOK', BudgetInv', RenewStep
  PROVE  Service!Next \/ UNCHANGED Service!vars
  <1>1. ASSUME NEW n \in 1 .. MaxEvaluations, ClientRenew(n) PROVE UNCHANGED Service!vars
    BY <1>1 DEF ClientRenew, Service!vars, Status, Paid, Left
  <1>2. CASE ClientRenewed
    <2>1. Left' \in Nat
      BY LeftEvaluationsNext
    <2> QED
      BY <1>2, <2>1 DEF ClientRenewed, Service!Renew, Service!Next, Status, Paid
  <1>3. CASE ClientRenewFails
    BY <1>3 DEF ClientRenewFails, Service!vars, Status, Paid, Left
  <1>4. CASE RenewTauMismatch
    BY <1>4 DEF RenewTauMismatch, BothRenewing, Service!vars, Status, Paid, Left
  <1>5. ASSUME NEW n \in 1 .. MaxEvaluations, ServerRenew(n) PROVE UNCHANGED Service!vars
    BY <1>5, ServiceFrame DEF ServerRenew, client
  <1>6. CASE RenewExchange \/ ServerRenewed \/ ServerRenewFails
    BY <1>6, ServiceFrame DEF RenewExchange, ServerRenewed, ServerRenewFails, client
  <1> QED
    BY <1>1, <1>2, <1>3, <1>4, <1>5, <1>6 DEF RenewStep

(* The connection implements the service its caller sees: no step of a     *)
(* cancelled, late or renewed call returns another call's outputs or gives *)
(* evaluations back.                                                       *)
THEOREM SessionImplementsService == Spec => ImplementsService
  <1>1. /\ TypeOK /\ TypeOK' /\ IInv /\ IInv' /\ BudgetInv /\ BudgetInv' /\ SlotInv /\ SlotInv'
        /\ [Next]_vars
        => [Service!Next]_(Service!vars)
    <2>1. ASSUME ServerStep PROVE UNCHANGED <<cpc, cuid, cctr, ctau, cur, calls, out>>
      BY <2>1 DEF ServerStep, NextRequest, EndOfRequests, RunBlindEval, ProveFails,
         RunDetachedBlindEval, Respond, CancelServe, CloseServer, client
    <2>2. ASSUME UNCHANGED vars PROVE UNCHANGED <<cpc, cuid, cctr, ctau, cur, calls, out>>
      BY <2>2 DEF vars, client
    <2> QED
      BY <2>1, <2>2, ServiceClient, ServiceRenew, ServiceFrame DEF Next
  <1> QED
    BY ServiceInit, <1>1, SessionType, SessionInvariant, SessionBudgets, SessionSlot, PTL
       DEF Spec, ImplementsService, Service!Spec

----------------------------------------------------------------------------
(***************************************************************************)
(* In step.  As long as nothing was cancelled and no side failed alone,    *)
(* there is one request or response between the two sides, that of the     *)
(* call in progress, and the two counters of the session differ by exactly *)
(* the runs of that request while it is not evaluated.                     *)
(***************************************************************************)

\* The response that is right for the call in progress.
Due(r) == r.uid = cur.uid /\ r.ctr = cur.first /\ r.n = cur.n /\ r.of = cur

\* The request of the call in progress is not evaluated yet.
Pending == cpc = "sending" \/ (cpc = "awaiting" /\ (Len(c2s) # 0 \/ spc = "serving"))

\* The server finished the renewal whose last message the client still waits for.
ServerAhead == cpc = "renewing" /\ sent = catt

\* Whatever travels belongs to the call in progress, and only one thing does.
TravelInv ==
    /\ cpc = "finalizing" => Due(cresp)
    /\ Len(s2c) # 0 => /\ cpc = "awaiting" /\ Len(s2c) = 1 /\ Due(s2c[1])
                       /\ spc \notin {"serving", "responding"}
                       /\ spc # "closed" => Len(c2s) = 0
    /\ spc = "responding" => cpc = "awaiting" /\ Due(sresp) /\ Len(c2s) = 0
    /\ spc = "serving" => cpc = "awaiting" /\ sreq.req = cur /\ sreq.uid = suid /\ Len(c2s) = 0
    /\ spc # "closed" /\ Len(c2s) # 0 => cpc = "awaiting" /\ Len(c2s) = 1 /\ c2s[1] = cur

\* The two sides hold the same session, at the same run.
PaceInv ==
    /\ cpc \in Paid => BatchOk(cur.n) /\ cur.uid = cuid
    /\ Pending => cctr[cuid] = sctr[cuid] + tau_for(cur.n) /\ cur.first = sctr[cuid]
    /\ ~Pending /\ ~ServerAhead => cctr[cuid] = sctr[cuid]
    /\ ServerAhead => /\ suid = catt /\ stau[catt] = tau_for(carg) /\ sctr[catt] = 0
                      /\ satt = IF spc = "renewing" THEN catt + 1 ELSE catt
    /\ ~ServerAhead => /\ suid = cuid /\ ctau[cuid] = stau[cuid]
                       /\ satt + (IF cpc = "renewing" THEN 1 ELSE 0)
                            = catt + (IF spc = "renewing" THEN 1 ELSE 0)

CleanInv ==
    clean => /\ cdet = {} /\ sdet = {} /\ spc # "failed"
             /\ TravelInv
             /\ spc # "closed" => PaceInv

(* In step, blind_eval accepts the request it serves.                      *)
LEMMA CleanServes ==
  ASSUME TypeOK, BudgetInv, CleanInv, clean, spc = "serving"
  PROVE  BlindEvalOk(sreq.req, sreq.uid)
  <1>1. cpc = "awaiting" /\ sreq.req = cur /\ sreq.uid = suid /\ PaceInv
    BY DEF CleanInv, TravelInv
  <1>2. Pending /\ ~ServerAhead
    BY <1>1 DEF Pending, ServerAhead
  <1>3. /\ suid = cuid /\ cur.uid = cuid /\ BatchOk(cur.n) /\ ctau[cuid] = stau[cuid]
        /\ cctr[cuid] = sctr[cuid] + tau_for(cur.n)
    BY <1>1, <1>2 DEF PaceInv, Paid
  <1>4. cuid \in Uids /\ cctr[cuid] <= ctau[cuid]
    BY DEF TypeOK, BudgetInv
  <1> QED
    BY <1>1, <1>3, <1>4 DEF BlindEvalOk

(* In step, finalize_batch accepts the response it got.                    *)
LEMMA CleanFinalizes ==
  ASSUME CleanInv, clean, cpc = "finalizing"
  PROVE  FinalizeOk(cur, cresp)
  BY DEF CleanInv, TravelInv, Due, FinalizeOk, ProofVerifies

(* The streams are sequences.                                              *)
LEMMA StreamTypes ==
  ASSUME TypeOK
  PROVE  /\ Len(c2s) \in Nat /\ Len(s2c) \in Nat
         /\ (c2s = <<>> <=> Len(c2s) = 0) /\ (s2c = <<>> <=> Len(s2c) = 0)
  BY LenProperties, EmptySeq DEF TypeOK

(* A prefix of a sequence.                                                 *)
LEMMA Prefix ==
  ASSUME NEW S, NEW s \in Seq(S), NEW k \in 0 .. Len(s)
  PROVE  /\ Len(SubSeq(s, 1, k)) = k
         /\ \A i \in 1 .. k : SubSeq(s, 1, k)[i] = s[i]
  <1>1. Len(s) \in Nat /\ \A i \in 1 .. Len(s) : s[i] \in S
    BY LenProperties, ElementOfSeq
  <1>2. \A i \in 1 .. k : s[i] \in S
    BY <1>1
  <1>3. /\ Len(SubSeq(s, 1, k)) = IF 1 <= k THEN k - 1 + 1 ELSE 0
        /\ \A i \in 1 .. k - 1 + 1 : SubSeq(s, 1, k)[i] = s[1 + i - 1]
    BY <1>1, <1>2, SubSeqProperties
  <1> QED
    BY <1>1, <1>3

(* Init is in step.                                                        *)
LEMMA CleanInit == Init => CleanInv
  <1> SUFFICES ASSUME Init PROVE CleanInv
    OBVIOUS
  <1>1. Len(c2s) = 0 /\ Len(s2c) = 0
    BY DEF Init
  <1>2. TravelInv
    BY <1>1 DEF Init, TravelInv
  <1>3. 0 \in Uids
    BY SessionAssumption DEF Uids
  <1>4. PaceInv
    BY <1>1, <1>3 DEF Init, PaceInv, Pending, ServerAhead, Paid
  <1> QED
    BY <1>2, <1>4 DEF Init, CleanInv

(* Steps of evaluate_batch before the request is sent.                     *)
LEMMA CleanEvaluate ==
  ASSUME TypeOK, CleanInv, clean, NEW n \in 0 .. MaxBatch + 1, Evaluate(n)
  PROVE  CleanInv'
  <1>1. /\ cpc = "idle" /\ cpc' = "requesting"
        /\ UNCHANGED <<cuid, cctr, ctau, cresp, cdet, server, streams, renewal, clean>>
    BY DEF Evaluate
  <1>2. /\ Len(s2c) = 0 /\ spc \notin {"serving", "responding"}
        /\ spc # "closed" => Len(c2s) = 0
    BY <1>1 DEF CleanInv, TravelInv
  <1>3. TravelInv'
    BY <1>1, <1>2 DEF TravelInv, server, streams
  <1>4. ASSUME spc # "closed" PROVE PaceInv'
    BY <1>1, <1>2, <1>4 DEF CleanInv, PaceInv, Pending, ServerAhead, Paid, server, streams, renewal, tau_for
  <1> QED
    BY <1>1, <1>3, <1>4 DEF CleanInv, server

(* request_batch takes the runs the server will take next.                 *)
LEMMA CleanRunRequest ==
  ASSUME TypeOK, IInv, CleanInv, clean, RunRequest
  PROVE  CleanInv'
  <1>0. cpc = "requesting" /\ UNCHANGED <<cuid, ctau, cresp, cdet, server, streams, renewal, clean>>
    BY DEF RunRequest
  <1>1. /\ Len(s2c) = 0 /\ spc \notin {"serving", "responding"}
        /\ spc # "closed" => Len(c2s) = 0
    BY <1>0 DEF CleanInv, TravelInv
  <1>2. cpc' \in {"sending", "idle"}
    BY DEF RunRequest
  <1>3. TravelInv'
    BY <1>0, <1>1, <1>2 DEF TravelInv, server, streams
  <1>4. ASSUME spc # "closed" PROVE PaceInv'
    <2>1. PaceInv /\ ~Pending /\ ~ServerAhead /\ ~ServerAhead'
      BY <1>0, <1>2, <1>4 DEF CleanInv, Pending, ServerAhead
    <2>2. /\ cctr[cuid] = sctr[cuid] /\ suid = cuid /\ ctau[cuid] = stau[cuid]
          /\ satt + 0 = catt + (IF spc = "renewing" THEN 1 ELSE 0)
      BY <1>0, <2>1 DEF PaceInv
    <2>3. cur.uid = cuid /\ cuid \in Uids
      BY <1>0 DEF IInv, CurInv, TypeOK
    <2>4. CASE RequestOk(cur.n, cur.uid)
      <3>1. /\ cur' = [cur EXCEPT !.first = cctr[cur.uid]] /\ cpc' = "sending"
            /\ cctr' = [cctr EXCEPT ![cur.uid] = @ + tau_for(cur.n)]
        BY <2>4 DEF RunRequest
      <3>2. cur'.n = cur.n /\ cur'.uid = cuid /\ cur'.first = cctr[cuid]
        BY <3>1, <2>3 DEF TypeOK, Request
      <3>3. cctr'[cuid] = cctr[cuid] + tau_for(cur.n)
        BY <3>1, <2>3 DEF TypeOK
      <3>4. Pending'
        BY <3>1 DEF Pending
      <3>5. BatchOk(cur.n)
        BY <2>4 DEF RequestOk
      <3>6. /\ cctr'[cuid'] = sctr'[cuid'] + tau_for(cur'.n) /\ cur'.first = sctr'[cuid']
            /\ BatchOk(cur'.n) /\ cur'.uid = cuid'
        BY <1>0, <2>2, <3>2, <3>3, <3>5 DEF server
      <3>7. /\ suid' = cuid' /\ ctau'[cuid'] = stau'[cuid']
            /\ satt' + (IF cpc' = "renewing" THEN 1 ELSE 0) = catt' + (IF spc' = "renewing" THEN 1 ELSE 0)
        BY <1>0, <2>2, <3>1 DEF server, renewal
      <3> QED
        BY <2>1, <3>4, <3>6, <3>7 DEF PaceInv, BatchOk, tau_for
    <2>5. CASE ~RequestOk(cur.n, cur.uid)
      <3>1. cpc' = "idle" /\ cctr' = cctr
        BY <2>5 DEF RunRequest
      <3>2. ~Pending'
        BY <3>1 DEF Pending
      <3>3. /\ suid' = cuid' /\ ctau'[cuid'] = stau'[cuid'] /\ cctr'[cuid'] = sctr'[cuid']
            /\ satt' + (IF cpc' = "renewing" THEN 1 ELSE 0) = catt' + (IF spc' = "renewing" THEN 1 ELSE 0)
        BY <1>0, <2>2, <3>1 DEF server, renewal
      <3> QED
        BY <2>1, <3>1, <3>2, <3>3 DEF PaceInv, Paid
    <2> QED
      BY <2>4, <2>5
  <1> QED
    BY <1>0, <1>3, <1>4 DEF CleanInv, server

(* The request is sent: it travels alone.                                  *)
LEMMA CleanSendRequest ==
  ASSUME TypeOK, CleanInv, clean, SendRequest
  PROVE  CleanInv'
  <1>0. /\ cpc = "sending" /\ cpc' = "awaiting" /\ c2s' = Append(c2s, cur)
        /\ UNCHANGED <<cuid, cctr, ctau, cur, cresp, cdet, server, s2c, renewal, clean>>
    BY DEF SendRequest
  <1>1. /\ Len(s2c) = 0 /\ spc \notin {"serving", "responding"}
        /\ spc # "closed" => Len(c2s) = 0
    BY <1>0 DEF CleanInv, TravelInv
  <1>2. Len(c2s') = Len(c2s) + 1 /\ Len(c2s) \in Nat /\ (Len(c2s) = 0 => c2s'[1] = cur)
    <2>1. c2s \in Seq(Request) /\ cur \in Request
      BY DEF TypeOK
    <2>2. Len(c2s') = Len(c2s) + 1 /\ c2s'[Len(c2s) + 1] = cur
      BY <1>0, <2>1, AppendProperties
    <2> QED
      BY <2>2, StreamTypes
  <1>3. TravelInv'
    BY <1>0, <1>1, <1>2 DEF TravelInv, server
  <1>4. ASSUME spc # "closed" PROVE PaceInv'
    <2>1. Pending /\ Pending' /\ PaceInv
      BY <1>0, <1>2, <1>4 DEF Pending, CleanInv
    <2> QED
      BY <1>0, <2>1 DEF PaceInv, ServerAhead, Paid, BatchOk, server, renewal, tau_for
  <1> QED
    BY <1>0, <1>3, <1>4 DEF CleanInv, server

(* The response is received: nothing travels.                              *)
LEMMA CleanReceiveResponse ==
  ASSUME TypeOK, CleanInv, clean, ReceiveResponse
  PROVE  CleanInv'
  <1>0. /\ cpc = "awaiting" /\ cpc' = "finalizing" /\ s2c # <<>>
        /\ cresp' = Head(s2c) /\ s2c' = Tail(s2c)
        /\ UNCHANGED <<cuid, cctr, ctau, cur, cdet, server, c2s, renewal, clean>>
    BY DEF ReceiveResponse
  <1>1. /\ Len(s2c) = 1 /\ Due(s2c[1]) /\ spc \notin {"serving", "responding"}
        /\ spc # "closed" => Len(c2s) = 0
    BY <1>0, StreamTypes DEF CleanInv, TravelInv
  <1>2. Len(s2c') = 0 /\ cresp' = s2c[1]
    BY <1>0, <1>1, HeadTailProperties DEF TypeOK
  <1>3. Due(cresp)'
    BY <1>0, <1>1, <1>2 DEF Due
  <1>4. TravelInv'
    BY <1>0, <1>1, <1>2, <1>3 DEF TravelInv, server
  <1>5. ASSUME spc # "closed" PROVE PaceInv'
    <2>1. ~Pending /\ ~Pending' /\ PaceInv
      BY <1>0, <1>1, <1>5 DEF Pending, CleanInv, server
    <2> QED
      BY <1>0, <2>1 DEF PaceInv, ServerAhead, Paid, BatchOk, server, renewal, tau_for
  <1> QED
    BY <1>0, <1>4, <1>5 DEF CleanInv, server

(* The call ends after its response, or because the server is gone.        *)
LEMMA CleanReturns ==
  ASSUME TypeOK, CleanInv, clean, ExchangeFails \/ Finalize
  PROVE  CleanInv'
  <1>0. /\ cpc' = "idle" /\ UNCHANGED <<cuid, cctr, ctau, cdet, server, streams, renewal, clean>>
        /\ cpc = "finalizing" \/ (spc = "closed" /\ (cpc = "sending" \/ (cpc = "awaiting" /\ s2c = <<>>)))
    BY DEF ExchangeFails, Finalize
  <1>1. /\ Len(s2c) = 0 /\ spc \notin {"serving", "responding"}
        /\ spc # "closed" => Len(c2s) = 0
    BY <1>0, StreamTypes DEF CleanInv, TravelInv
  <1>2. TravelInv'
    BY <1>0, <1>1 DEF TravelInv, server, streams
  <1>3. ASSUME spc # "closed" PROVE PaceInv'
    <2>1. cpc = "finalizing" /\ ~Pending /\ ~Pending' /\ PaceInv
      BY <1>0, <1>1, <1>3 DEF Pending, CleanInv, server
    <2> QED
      BY <1>0, <2>1 DEF PaceInv, ServerAhead, Paid, server, renewal, tau_for
  <1> QED
    BY <1>0, <1>2, <1>3 DEF CleanInv, server

(* The client is dropped between calls.                                    *)
LEMMA CleanCloseClient ==
  ASSUME TypeOK, CleanInv, clean, CloseClient
  PROVE  CleanInv'
  <1>0. /\ cpc = "idle" /\ cpc' = "closed"
        /\ UNCHANGED <<cuid, cctr, ctau, cdet, server, s2c, renewal, clean>>
    BY DEF CloseClient
  <1>1. PICK k \in 0 .. Len(c2s) : c2s' = SubSeq(c2s, 1, k)
    BY DEF CloseClient
  <1>2. Len(c2s') <= Len(c2s) /\ Len(c2s') \in Nat
    <2>1. c2s \in Seq(Request) /\ Len(c2s) \in Nat
      BY StreamTypes DEF TypeOK
    <2>2. Len(c2s') = k
      BY <1>1, <2>1, Prefix
    <2> QED
      BY <2>1, <2>2
  <1>3. /\ Len(s2c) = 0 /\ spc \notin {"serving", "responding"}
        /\ spc # "closed" => Len(c2s) = 0
    BY <1>0 DEF CleanInv, TravelInv
  <1>4. spc # "closed" => Len(c2s') = 0
    BY <1>2, <1>3
  <1>5. TravelInv'
    BY <1>0, <1>3, <1>4 DEF TravelInv, server
  <1>6. ASSUME spc # "closed" PROVE PaceInv'
    <2>1. ~Pending /\ ~Pending' /\ PaceInv
      BY <1>0, <1>6 DEF Pending, CleanInv
    <2> QED
      BY <1>0, <2>1 DEF PaceInv, ServerAhead, Paid, server, renewal, tau_for
  <1> QED
    BY <1>0, <1>5, <1>6 DEF CleanInv, server

(* The client's steps stay in step.                                        *)
LEMMA CleanClient ==
  ASSUME TypeOK, IInv, CleanInv, ClientStep
  PROVE  CleanInv'
  <1>1. CASE ~clean
    <2>1. RunRequest => clean' = clean
      BY DEF RunRequest
    <2>2. \A n : Evaluate(n) => clean' = clean
      BY DEF Evaluate
    <2>3. \A t : RunDetachedRequest(t) => clean' = clean
      BY DEF RunDetachedRequest
    <2>4. SendRequest \/ ReceiveResponse \/ ExchangeFails \/ Finalize \/ CloseClient => clean' = clean
      BY DEF SendRequest, ReceiveResponse, ExchangeFails, Finalize, CloseClient
    <2>5. CancelEvaluate => clean' = FALSE
      BY DEF CancelEvaluate
    <2> QED
      BY <1>1, <2>1, <2>2, <2>3, <2>4, <2>5 DEF ClientStep, CleanInv
  <1>2. CASE clean /\ CancelEvaluate
    BY <1>2 DEF CancelEvaluate, CleanInv
  <1>3. CASE clean /\ \E t \in cdet : RunDetachedRequest(t)
    BY <1>3 DEF CleanInv
  <1> QED
    BY <1>1, <1>2, <1>3, CleanEvaluate, CleanRunRequest, CleanSendRequest, CleanReceiveResponse,
       CleanReturns, CleanCloseClient DEF ClientStep

(* The request is taken from the stream.                                   *)
LEMMA CleanNextRequest ==
  ASSUME TypeOK, CleanInv, clean, NextRequest
  PROVE  CleanInv'
  <1>0. /\ spc = "idle" /\ spc' = "serving" /\ c2s # <<>>
        /\ sreq' = [req |-> Head(c2s), uid |-> suid] /\ c2s' = Tail(c2s)
        /\ UNCHANGED <<client, suid, sctr, stau, sresp, sdet, s2c, renewal, clean>>
    BY DEF NextRequest
  <1>1. cpc = "awaiting" /\ Len(c2s) = 1 /\ c2s[1] = cur /\ Len(s2c) = 0
    BY <1>0, StreamTypes DEF CleanInv, TravelInv
  <1>2. Len(c2s') = 0 /\ Head(c2s) = c2s[1]
    BY <1>0, <1>1, HeadTailProperties DEF TypeOK
  <1>3. sreq'.req = cur /\ sreq'.uid = suid
    BY <1>0, <1>1, <1>2
  <1>4. TravelInv'
    BY <1>0, <1>1, <1>2, <1>3 DEF TravelInv, client
  <1>5. PaceInv'
    <2>1. Pending /\ Pending' /\ PaceInv
      BY <1>0, <1>1 DEF Pending, CleanInv, client
    <2> QED
      BY <1>0, <2>1 DEF PaceInv, ServerAhead, Paid, BatchOk, client, renewal, tau_for
  <1> QED
    BY <1>0, <1>4, <1>5 DEF CleanInv, client

(* blind_eval accepts: both counters are at the same run again.            *)
LEMMA CleanRunBlindEval ==
  ASSUME TypeOK, BudgetInv, CleanInv, clean, RunBlindEval
  PROVE  CleanInv'
  <1>1. BlindEvalOk(sreq.req, sreq.uid)
    BY CleanServes DEF RunBlindEval
  <1>2. /\ spc = "serving" /\ spc' = "responding"
        /\ sctr' = [sctr EXCEPT ![sreq.uid] = @ + tau_for(sreq.req.n)]
        /\ sresp' = Answer(sreq.req, sreq.uid, sctr[sreq.uid])
        /\ UNCHANGED <<client, suid, stau, sdet, streams, renewal, clean>>
    BY <1>1 DEF RunBlindEval
  <1>3. /\ cpc = "awaiting" /\ sreq.req = cur /\ sreq.uid = suid /\ Len(c2s) = 0 /\ Len(s2c) = 0 /\ PaceInv
    BY <1>2 DEF CleanInv, TravelInv
  <1>4. Pending /\ ~Pending' /\ ~ServerAhead /\ ~ServerAhead'
    BY <1>2, <1>3 DEF Pending, ServerAhead, client, streams, renewal
  <1>5. /\ suid = cuid /\ cur.uid = cuid /\ cur.first = sctr[cuid] /\ cuid \in Uids
        /\ cctr[cuid] = sctr[cuid] + tau_for(cur.n)
    BY <1>3, <1>4 DEF PaceInv, Paid, TypeOK
  <1>6. Due(sresp)'
    BY <1>2, <1>3, <1>5 DEF Due, Answer, client
  <1>7. TravelInv'
    BY <1>2, <1>3, <1>6 DEF TravelInv, client, streams
  <1>8. sctr'[cuid] = cctr[cuid]
    BY <1>2, <1>3, <1>5 DEF TypeOK
  <1>9. PaceInv'
    BY <1>2, <1>3, <1>4, <1>8 DEF PaceInv, Paid, BatchOk, client, renewal, tau_for
  <1> QED
    BY <1>2, <1>7, <1>9 DEF CleanInv, client

(* The response is sent: it travels alone.                                 *)
LEMMA CleanRespond ==
  ASSUME TypeOK, CleanInv, clean, Respond
  PROVE  CleanInv'
  <1>0. /\ spc = "responding" /\ spc' = "idle" /\ s2c' = Append(s2c, sresp)
        /\ UNCHANGED <<client, suid, sctr, stau, sdet, c2s, renewal, clean>>
    BY DEF Respond
  <1>1. cpc = "awaiting" /\ Due(sresp) /\ Len(c2s) = 0 /\ Len(s2c) = 0
    BY <1>0 DEF CleanInv, TravelInv
  <1>2. Len(s2c') = 1 /\ s2c'[1] = sresp
    <2>1. s2c \in Seq(Response) /\ sresp \in Response
      BY DEF TypeOK
    <2>2. Len(s2c') = Len(s2c) + 1 /\ s2c'[Len(s2c) + 1] = sresp
      BY <1>0, <2>1, AppendProperties
    <2> QED
      BY <1>1, <2>2
  <1>3. Due(s2c[1])'
    BY <1>0, <1>1, <1>2 DEF Due, client
  <1>4. TravelInv'
    BY <1>0, <1>1, <1>2, <1>3 DEF TravelInv, Due, client
  <1>5. PaceInv'
    <2>1. ~Pending /\ ~Pending' /\ PaceInv
      BY <1>0, <1>1 DEF Pending, CleanInv, client
    <2> QED
      BY <1>0, <2>1 DEF PaceInv, ServerAhead, Paid, BatchOk, client, renewal, tau_for
  <1> QED
    BY <1>0, <1>4, <1>5 DEF CleanInv, client

(* The session is dropped, or its driver returns.                          *)
LEMMA CleanServerCloses ==
  ASSUME TypeOK, CleanInv, clean, CloseServer \/ EndOfRequests
  PROVE  CleanInv'
  <1>0. /\ spc \in {"idle", "failed"} /\ spc' = "closed"
        /\ UNCHANGED <<client, sdet, c2s, clean>>
    BY DEF CloseServer, EndOfRequests, streams
  <1>1. Len(s2c') \in 0 .. Len(s2c) /\ (Len(s2c') # 0 => s2c'[1] = s2c[1])
    <2>1. CASE CloseServer
      <3>1. PICK k \in 0 .. Len(s2c) : s2c' = SubSeq(s2c, 1, k)
        BY <2>1 DEF CloseServer
      <3>2. Len(s2c') = k /\ \A i \in 1 .. k : s2c'[i] = s2c[i]
        <4>1. s2c \in Seq(Response)
          BY DEF TypeOK
        <4> QED
          BY <3>1, <4>1, Prefix
      <3> QED
        BY <3>2, StreamTypes
    <2>2. CASE EndOfRequests
      BY <2>2, StreamTypes DEF EndOfRequests, streams
    <2> QED
      BY <2>1, <2>2
  <1>2. Len(s2c') # 0 => cpc = "awaiting" /\ Len(s2c') = 1 /\ Due(s2c'[1])
    BY <1>1, StreamTypes DEF CleanInv, TravelInv
  <1>3. cpc = "finalizing" => Due(cresp)
    BY DEF CleanInv, TravelInv
  <1>4. TravelInv'
    BY <1>0, <1>2, <1>3 DEF TravelInv, Due, client
  <1> QED
    BY <1>0, <1>4 DEF CleanInv, client

(* The server's steps stay in step.                                        *)
LEMMA CleanServer ==
  ASSUME TypeOK, BudgetInv, CleanInv, ServerStep
  PROVE  CleanInv'
  <1>1. CASE ~clean
    <2>1. NextRequest \/ EndOfRequests \/ RunBlindEval \/ Respond \/ CloseServer => clean' = clean
      BY DEF NextRequest, EndOfRequests, RunBlindEval, Respond, CloseServer
    <2>2. \A t : RunDetachedBlindEval(t) => clean' = clean
      BY DEF RunDetachedBlindEval
    <2>3. ProveFails \/ CancelServe => clean' = FALSE
      BY DEF ProveFails, CancelServe
    <2> QED
      BY <1>1, <2>1, <2>2, <2>3 DEF ServerStep, CleanInv
  <1>2. CASE clean /\ (ProveFails \/ CancelServe)
    BY <1>2 DEF ProveFails, CancelServe, CleanInv
  <1>3. CASE clean /\ \E t \in sdet : RunDetachedBlindEval(t)
    BY <1>3 DEF CleanInv
  <1> QED
    BY <1>1, <1>2, <1>3, CleanNextRequest, CleanRunBlindEval, CleanRespond, CleanServerCloses DEF ServerStep

(* A renewal begins.                                                       *)
LEMMA CleanRenewBegins ==
  ASSUME TypeOK, RenewalInv, CleanInv, clean,
         NEW n \in 1 .. MaxEvaluations, ClientRenew(n) \/ ServerRenew(n)
  PROVE  CleanInv'
  <1>0. sent \in Nat /\ ready \in Nat /\ catt \in Nat /\ satt \in Nat
    BY SessionAssumption DEF TypeOK, Uids
  <1>1. CASE ClientRenew(n)
    <2>1. /\ cpc = "idle" /\ cpc' = "renewing" /\ catt' = catt + 1
          /\ UNCHANGED <<cuid, cctr, ctau, cur, cresp, cdet, server, streams, satt, sent, clean>>
      BY <1>1 DEF ClientRenew
    <2>2. TravelInv'
      BY <2>1 DEF CleanInv, TravelInv, server, streams
    <2>3. ~ServerAhead /\ ~ServerAhead' /\ ~Pending /\ ~Pending'
      BY <1>0, <2>1 DEF ServerAhead, Pending, RenewalInv
    <2>4. ASSUME spc # "closed" PROVE PaceInv'
      <3>1. PaceInv
        BY <2>4 DEF CleanInv
      <3> QED
        BY <1>0, <2>1, <2>3, <3>1 DEF PaceInv, Paid, server
    <2> QED
      BY <2>1, <2>2, <2>4 DEF CleanInv, server
  <1>2. CASE ServerRenew(n)
    <2>1. /\ spc = "idle" /\ spc' = "renewing" /\ satt' = satt + 1
          /\ UNCHANGED <<client, suid, sctr, stau, sdet, streams, catt, carg, sent, clean>>
      BY <1>2 DEF ServerRenew
    <2>2. TravelInv'
      BY <2>1 DEF CleanInv, TravelInv, Due, client, streams
    <2>3. PaceInv
      BY <2>1 DEF CleanInv
    <2>4. ServerAhead' = ServerAhead /\ Pending' = Pending
      BY <2>1 DEF ServerAhead, Pending, client, streams
    <2>5. PaceInv'
      BY <1>0, <2>1, <2>3, <2>4 DEF PaceInv, Paid, BatchOk, client, tau_for
    <2> QED
      BY <2>1, <2>2, <2>5 DEF CleanInv, client
  <1> QED
    BY <1>1, <1>2

(* The exchange of a renewal succeeds or is refused on both sides.         *)
LEMMA CleanRenewExchange ==
  ASSUME TypeOK, RenewalInv, CleanInv, clean, RenewExchange \/ RenewTauMismatch
  PROVE  CleanInv'
  <1>1. CASE RenewExchange
    <2>1. UNCHANGED <<client, server, streams, catt, carg, satt, sarg, sent, clean>>
      BY <1>1 DEF RenewExchange
    <2>2. TravelInv'
      BY <2>1 DEF CleanInv, TravelInv, Due, client, server, streams
    <2>3. ServerAhead' = ServerAhead /\ Pending' = Pending
      BY <2>1 DEF ServerAhead, Pending, client, server, streams
    <2>4. PaceInv => PaceInv'
      BY <2>1, <2>3 DEF PaceInv, Paid, BatchOk, client, server, tau_for
    <2> QED
      BY <2>1, <2>2, <2>4 DEF CleanInv, client, server
  <1>2. CASE RenewTauMismatch
    <2>1. /\ cpc = "renewing" /\ spc = "renewing" /\ catt = satt /\ cpc' = "idle" /\ spc' = "idle"
          /\ UNCHANGED <<cuid, cctr, ctau, cur, cresp, cdet, suid, sctr, stau, sdet, streams, catt, satt, clean>>
      BY <1>2 DEF RenewTauMismatch, BothRenewing, renewal
    <2>2. TravelInv'
      BY <2>1 DEF CleanInv, TravelInv, streams
    <2>3. ~ServerAhead /\ ~ServerAhead' /\ ~Pending /\ ~Pending'
      <3>1. sent # catt
        BY <2>1, SessionAssumption DEF RenewalInv, TypeOK, Uids
      <3> QED
        BY <2>1, <3>1 DEF ServerAhead, Pending
    <2>4. PaceInv'
      BY <2>1, <2>3 DEF CleanInv, PaceInv, Paid
    <2> QED
      BY <2>1, <2>2, <2>4 DEF CleanInv
  <1> QED
    BY <1>1, <1>2

(* The server replaces its session; the client's renewal is still open.    *)
LEMMA CleanServerRenewed ==
  ASSUME TypeOK, RenewalInv, CleanInv, clean, ServerRenewed
  PROVE  CleanInv'
  <1>0. sent \in Nat /\ ready \in Nat /\ catt \in Nat /\ satt \in Uids /\ satt \in Nat
    BY SessionAssumption DEF TypeOK, Uids
  <1>1. /\ spc = "renewing" /\ ready = satt /\ sent' = satt /\ spc' = "idle" /\ suid' = satt
        /\ sctr' = [sctr EXCEPT ![satt] = 0] /\ stau' = [stau EXCEPT ![satt] = tau_for(sarg)]
        /\ UNCHANGED <<client, sdet, streams, catt, carg, satt, sarg, clean>>
    BY DEF ServerRenewed
  <1>2. ready <= catt /\ sent < satt
    BY <1>1 DEF RenewalInv
  <1>3. PaceInv
    BY <1>1 DEF CleanInv
  <1>4. ~ServerAhead
    BY <1>0, <1>1, <1>2 DEF ServerAhead
  <1>5. cpc = "renewing" /\ catt = satt
    BY <1>0, <1>1, <1>2, <1>3, <1>4 DEF PaceInv
  <1>6. carg = sarg
    BY <1>1, <1>5 DEF RenewalInv
  <1>7. TravelInv'
    BY <1>1 DEF CleanInv, TravelInv, Due, client, streams
  <1>8. sctr'[satt] = 0 /\ stau'[satt] = tau_for(sarg)
    BY <1>0, <1>1 DEF TypeOK
  <1>9. ServerAhead' /\ ~Pending'
    BY <1>1, <1>5 DEF ServerAhead, Pending, client
  <1>10. PaceInv'
    BY <1>1, <1>5, <1>6, <1>8, <1>9 DEF PaceInv, Paid, client, tau_for
  <1> QED
    BY <1>1, <1>7, <1>10 DEF CleanInv, client

(* The client follows.                                                     *)
LEMMA CleanClientRenewed ==
  ASSUME TypeOK, RenewalInv, CleanInv, clean, ClientRenewed
  PROVE  CleanInv'
  <1>0. catt \in Uids /\ catt \in Nat /\ satt \in Nat
    BY SessionAssumption DEF TypeOK, Uids
  <1>1. /\ cpc = "renewing" /\ sent = catt /\ cpc' = "idle" /\ cuid' = catt
        /\ cctr' = [cctr EXCEPT ![catt] = 0] /\ ctau' = [ctau EXCEPT ![catt] = tau_for(carg)]
        /\ UNCHANGED <<cur, cresp, cdet, server, streams, renewal, clean>>
    BY DEF ClientRenewed
  <1>2. ServerAhead /\ ~ServerAhead' /\ ~Pending'
    BY <1>1 DEF ServerAhead, Pending
  <1>3. TravelInv'
    BY <1>1 DEF CleanInv, TravelInv, server, streams
  <1>4. ASSUME spc # "closed" PROVE PaceInv'
    <2>1. PaceInv
      BY <1>4 DEF CleanInv
    <2>2. /\ suid = catt /\ stau[catt] = tau_for(carg) /\ sctr[catt] = 0
          /\ satt = IF spc = "renewing" THEN catt + 1 ELSE catt
      BY <1>2, <2>1 DEF PaceInv
    <2>3. cctr'[catt] = 0 /\ ctau'[catt] = tau_for(carg)
      BY <1>0, <1>1 DEF TypeOK
    <2> QED
      BY <1>0, <1>1, <1>2, <2>2, <2>3 DEF PaceInv, Paid, server, renewal
  <1> QED
    BY <1>1, <1>3, <1>4 DEF CleanInv, server

(* The renewal's steps stay in step.                                       *)
LEMMA CleanRenew ==
  ASSUME TypeOK, RenewalInv, CleanInv, RenewStep
  PROVE  CleanInv'
  <1>1. CASE ~clean
    <2>1. \A n : ClientRenew(n) \/ ServerRenew(n) => clean' = clean
      BY DEF ClientRenew, ServerRenew
    <2>2. RenewExchange \/ RenewTauMismatch \/ ServerRenewed \/ ClientRenewed => clean' = clean
      BY DEF RenewExchange, RenewTauMismatch, ServerRenewed, ClientRenewed
    <2>3. ServerRenewFails \/ ClientRenewFails => clean' = FALSE
      BY DEF ServerRenewFails, ClientRenewFails
    <2> QED
      BY <1>1, <2>1, <2>2, <2>3 DEF RenewStep, CleanInv
  <1>2. CASE clean /\ (ServerRenewFails \/ ClientRenewFails)
    BY <1>2 DEF ServerRenewFails, ClientRenewFails, CleanInv
  <1> QED
    BY <1>1, <1>2, CleanRenewBegins, CleanRenewExchange, CleanServerRenewed, CleanClientRenewed DEF RenewStep

(* As long as nothing was cancelled and no side failed alone, blind_eval   *)
(* and finalize_batch accept whatever they get.                            *)
THEOREM SessionInStep == Spec => []InStep
  <1>1. TypeOK /\ IInv /\ BudgetInv /\ RenewalInv /\ CleanInv /\ [Next]_vars => CleanInv'
    <2>1. CleanInv /\ UNCHANGED vars => CleanInv'
      BY DEF CleanInv, TravelInv, PaceInv, Due, Pending, ServerAhead, BatchOk, Paid, tau_for,
         vars, client, server, streams, renewal
    <2> QED
      BY <2>1, CleanClient, CleanServer, CleanRenew DEF Next
  <1>2. TypeOK /\ BudgetInv /\ CleanInv => InStep
    BY CleanServes, CleanFinalizes DEF InStep
  <1> QED
    BY CleanInit, <1>1, <1>2, SessionType, SessionInvariant, SessionBudgets, PTL DEF Spec
=============================================================================
